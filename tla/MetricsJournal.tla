--------------------------- MODULE MetricsJournal ---------------------------
(***************************************************************************)
(* OperationalMetricsJournal.append: several jobs, at most one recorder    *)
(* process each, append to one journal file and rotate it, serialised by a *)
(* private lock directory.  Unlike the database lock this directory names  *)
(* its owner in owner.json and can be taken from a dead process: a waiting *)
(* recorder reads its age, then its owner, then renames it away, in three  *)
(* separate steps.                                                         *)
(*                                                                         *)
(* A slot is a job; each append of a slot is a process of its own, with a  *)
(* fresh pid.  A record is its sequence number, and all have one size.     *)
(***************************************************************************)
EXTENDS Integers, Sequences

CONSTANTS
    Slot,          \* the jobs that record metrics
    Generations,   \* rotated files that are kept
    MaxRecords,    \* records that fit into one file
    SlowHolders,   \* a live process may spend stale_lock_seconds in the lock
    MaxAppends,    \* bound: records ever written
    MaxCrashes     \* bound: recorder processes that are killed

ASSUME GenerationsAssumption == Generations \in Nat \ {0}
ASSUME MaxRecordsAssumption == MaxRecords \in Nat \ {0}
ASSUME SlowHoldersAssumption == SlowHolders \in BOOLEAN
ASSUME MaxAppendsAssumption == MaxAppends \in Nat
ASSUME MaxCrashesAssumption == MaxCrashes \in Nat

Nobody == "nobody"   \* a pid that is no longer alive

ASSUME NobodyAssumption == Nobody \notin Slot

VARIABLES
    present,   \* the lock directory exists
    owner,     \* its owner.json: "absent", "empty" (just created), "written"
    pid,       \* the process that made the directory or wrote owner.json
    old,       \* its mtime is stale_lock_seconds or more ago
    pc,        \* where the process of each slot is, "idle" if none runs
    shift,     \* rotation: the generation it moves next
    file,      \* the records of each generation, 0 being the active file
    next,      \* the number of the next record
    stale,     \* some lock has ever become old (history)
    stolen,    \* a lock was renamed away from a live process (history)
    crashes    \* processes killed so far

lock == <<present, owner, pid, old>>
journal == <<file, next>>
history == <<stale, stolen>>
vars == <<lock, pc, shift, journal, history, crashes>>

Generation == 0..Generations
Rotating == {"rotate", "drop", "shift"}
Critical == Rotating \cup {"append"}
Place == Critical \cup {"idle", "try", "own", "write", "unlink", "rmdir",
                        "age", "owner", "detach", "wait"}

Init ==
    /\ present = FALSE
    /\ owner = "absent"
    /\ pid = Nobody
    /\ old = FALSE
    /\ pc = [s \in Slot |-> "idle"]
    /\ shift = [s \in Slot |-> 0]
    /\ file = [g \in Generation |-> <<>>]
    /\ next = 1
    /\ stale = FALSE
    /\ stolen = FALSE
    /\ crashes = 0

GoTo(s, place) == pc' = [pc EXCEPT ![s] = place]

NoLock ==
    /\ present' = FALSE
    /\ owner' = "absent"
    /\ pid' = Nobody
    /\ old' = FALSE

-----------------------------------------------------------------------------
(* _exclusive_lock *)

\* A run of the job ends and a process is started to record it.
Begin(s) ==
    /\ pc[s] = "idle"
    /\ GoTo(s, "try")
    /\ UNCHANGED <<lock, shift, journal, history, crashes>>

\* Variant: mkdir(exist_ok=True).
MakeDirectoryExistOk(s) ==
    /\ pc[s] = "try"
    /\ present' = TRUE
    /\ owner' = "absent"
    /\ pid' = s
    /\ old' = FALSE
    /\ GoTo(s, "own")
    /\ UNCHANGED <<shift, journal, history, crashes>>

MakeDirectory(s) ==
    /\ pc[s] = "try"
    /\ ~present
    /\ present' = TRUE
    /\ owner' = "absent"
    /\ pid' = s
    /\ old' = FALSE
    /\ GoTo(s, "own")
    /\ UNCHANGED <<shift, journal, history, crashes>>

DirectoryExists(s) ==
    /\ pc[s] = "try"
    /\ present
    /\ GoTo(s, "age")
    /\ UNCHANGED <<lock, shift, journal, history, crashes>>

\* _write_lock_owner creates the file exclusively, in whatever directory is
\* there by now.  It renews the directory's mtime.
CreateOwner(s) ==
    /\ pc[s] = "own"
    /\ present /\ owner = "absent"
    /\ owner' = "empty"
    /\ pid' = s
    /\ old' = FALSE
    /\ GoTo(s, "write")
    /\ UNCHANGED <<present, shift, journal, history, crashes>>

\* FileExistsError counts as contention, FileNotFoundError ends the append.
CreateOwnerFails(s) ==
    /\ pc[s] = "own"
    /\ ~present \/ owner # "absent"
    /\ GoTo(s, IF present THEN "age" ELSE "idle")
    /\ UNCHANGED <<lock, shift, journal, history, crashes>>

\* The descriptor stays on the file that was created, detached or not.
WriteOwner(s) ==
    /\ pc[s] = "write"
    /\ owner' = IF present /\ owner = "empty" /\ pid = s THEN "written" ELSE owner
    /\ GoTo(s, "rotate")
    /\ UNCHANGED <<present, pid, old, shift, journal, history, crashes>>

\* A full disk: the lock is released and the append ends.
WriteOwnerFails(s) ==
    /\ pc[s] = "write"
    /\ GoTo(s, "unlink")
    /\ UNCHANGED <<lock, shift, journal, history, crashes>>

(* _recover_stale_lock_if_safe *)

ReadAge(s) ==
    /\ pc[s] = "age"
    /\ GoTo(s, IF present /\ old THEN "owner" ELSE "wait")
    /\ UNCHANGED <<lock, shift, journal, history, crashes>>

\* Variant: an old directory without an owner file is left alone as well.
DeadOrEmptyOnlyWritten == owner = "written" /\ pid = Nobody

\* The owner's process is gone, or there is no owner file in the directory.
\* An empty or malformed owner file is never recovered.
DeadOrEmpty ==
    \/ owner = "written" /\ pid = Nobody
    \/ owner = "absent"

ReadOwner(s) ==
    /\ pc[s] = "owner"
    /\ GoTo(s, IF present /\ DeadOrEmpty THEN "detach" ELSE "wait")
    /\ UNCHANGED <<lock, shift, journal, history, crashes>>

\* os.rename of the path: it takes whatever directory is there by now.
Detach(s) ==
    /\ pc[s] = "detach"
    /\ NoLock
    /\ GoTo(s, "wait")
    /\ stolen' = (stolen \/ (present /\ pid # Nobody))
    /\ UNCHANGED <<shift, journal, stale, crashes>>

Retry(s) ==
    /\ pc[s] = "wait"
    /\ GoTo(s, "try")
    /\ UNCHANGED <<lock, shift, journal, history, crashes>>

\* lock_wait_seconds are over: the journal is busy, the record is lost.
GiveUp(s) ==
    /\ pc[s] = "wait"
    /\ GoTo(s, "idle")
    /\ UNCHANGED <<lock, shift, journal, history, crashes>>

-----------------------------------------------------------------------------
(* _rotate_if_needed and _append_bytes *)

\* Variant: the incoming record is not counted.
FullWithoutIncoming == Len(file[0]) > MaxRecords

Full == Len(file[0]) + 1 > MaxRecords

StartRotation(s) ==
    /\ pc[s] = "rotate"
    /\ GoTo(s, IF file[0] # <<>> /\ Full THEN "drop" ELSE "append")
    /\ UNCHANGED <<lock, shift, journal, history, crashes>>

\* Variant: range(generations, 0, -1), one generation too many.
DropOldestOneMore(s) ==
    /\ pc[s] = "drop"
    /\ file' = [file EXCEPT ![Generations] = <<>>]
    /\ shift' = [shift EXCEPT ![s] = Generations]
    /\ GoTo(s, "shift")
    /\ UNCHANGED <<lock, next, history, crashes>>

DropOldest(s) ==
    /\ pc[s] = "drop"
    /\ file' = [file EXCEPT ![Generations] = <<>>]
    /\ shift' = [shift EXCEPT ![s] = Generations - 1]
    /\ GoTo(s, "shift")
    /\ UNCHANGED <<lock, next, history, crashes>>

\* Variant: the generation is copied and stays where it was.
MoveByCopy(g) ==
    file' = IF file[g] = <<>> THEN file ELSE [file EXCEPT ![g + 1] = file[g]]

\* os.replace of one generation by the one below it; a missing rotated file
\* is skipped.
Move(g) ==
    file' = IF file[g] = <<>> THEN file
            ELSE [file EXCEPT ![g + 1] = file[g], ![g] = <<>>]

\* Variant: from the youngest generation up, each overwrites the next.
ShiftUpwards(s) ==
    /\ pc[s] = "shift"
    /\ LET g == Generations - 1 - shift[s] IN
         /\ Move(g)
         /\ shift' = [shift EXCEPT ![s] = IF @ = 0 THEN 0 ELSE @ - 1]
    /\ GoTo(s, IF shift[s] > 0 THEN "shift" ELSE "append")
    /\ UNCHANGED <<lock, next, history, crashes>>

Shift(s) ==
    /\ pc[s] = "shift"
    /\ Move(shift[s])
    /\ shift' = [shift EXCEPT ![s] = IF @ = 0 THEN 0 ELSE @ - 1]
    /\ GoTo(s, CASE shift[s] > 0 -> "shift"
                 [] shift[s] = 0 /\ file[0] # <<>> -> "append"
                 [] OTHER -> "unlink")       \* FileNotFoundError
    /\ UNCHANGED <<lock, next, history, crashes>>

\* The bound on the records is a disk that is full.
AppendRecord(s) ==
    /\ pc[s] = "append"
    /\ next <= MaxAppends
    /\ file' = [file EXCEPT ![0] = Append(@, next)]
    /\ next' = next + 1
    /\ GoTo(s, "unlink")
    /\ UNCHANGED <<lock, shift, history, crashes>>

AppendFails(s) ==
    /\ pc[s] = "append"
    /\ GoTo(s, "unlink")
    /\ UNCHANGED <<lock, shift, journal, history, crashes>>

(* _release_lock: by path, whoever's directory is there by now *)

UnlinkOwner(s) ==
    /\ pc[s] = "unlink"
    /\ owner' = "absent"
    /\ old' = IF owner # "absent" THEN FALSE ELSE old
    /\ GoTo(s, "rmdir")
    /\ UNCHANGED <<present, pid, shift, journal, history, crashes>>

\* Fails silently on a directory that is gone or not empty.
RemoveDirectory(s) ==
    /\ pc[s] = "rmdir"
    /\ IF owner = "absent" THEN NoLock ELSE UNCHANGED lock
    /\ GoTo(s, "idle")
    /\ UNCHANGED <<shift, journal, history, crashes>>

-----------------------------------------------------------------------------
\* stale_lock_seconds pass without a change in the lock directory.
GrowOld ==
    /\ present /\ ~old
    /\ SlowHolders \/ pid = Nobody
    /\ old' = TRUE
    /\ stale' = TRUE
    /\ UNCHANGED <<present, owner, pid, pc, shift, journal, stolen, crashes>>

\* A recorder is killed with its job, or alone.
Crash(s) ==
    /\ crashes < MaxCrashes
    /\ pc[s] # "idle"
    /\ crashes' = crashes + 1
    /\ pid' = IF pid = s THEN Nobody ELSE pid
    /\ GoTo(s, "idle")
    /\ UNCHANGED <<present, owner, old, shift, journal, history>>

Step(s) ==
    \/ MakeDirectory(s)
    \/ DirectoryExists(s)
    \/ CreateOwner(s)
    \/ CreateOwnerFails(s)
    \/ WriteOwner(s)
    \/ WriteOwnerFails(s)
    \/ ReadAge(s)
    \/ ReadOwner(s)
    \/ Detach(s)
    \/ Retry(s)
    \/ GiveUp(s)
    \/ StartRotation(s)
    \/ DropOldest(s)
    \/ Shift(s)
    \/ AppendRecord(s)
    \/ AppendFails(s)
    \/ UnlinkOwner(s)
    \/ RemoveDirectory(s)

Next ==
    \/ \E s \in Slot : Begin(s) \/ Step(s) \/ Crash(s)
    \/ GrowOld

Spec == Init /\ [][Next]_vars

\* Recorders are started again and again and a started one goes on; a lock
\* that nobody touches gets old.
FairSpec ==
    /\ Spec
    /\ \A s \in Slot : WF_vars(Begin(s) \/ Step(s))
    /\ WF_vars(GrowOld)

-----------------------------------------------------------------------------
(* Properties *)

TypeOK ==
    /\ present \in BOOLEAN
    /\ owner \in {"absent", "empty", "written"}
    /\ pid \in Slot \cup {Nobody}
    /\ old \in BOOLEAN
    /\ pc \in [Slot -> Place]
    /\ shift \in [Slot -> 0..(Generations - 1)]
    /\ file \in [Generation -> Seq(Nat)]
    /\ next \in Nat
    /\ stale \in BOOLEAN
    /\ stolen \in BOOLEAN
    /\ crashes \in 0..MaxCrashes

\* _exclusive_lock: "Serialise append and rotation".
OneRecorder ==
    \A s, t \in Slot : pc[s] \in Critical /\ pc[t] \in Critical => s = t

\* As long as no lock has ever become old, nobody can take it from its
\* holder, whatever recorders fail, give up or die: rotations and appends
\* never overlap.
OneRecorderUntilStale == ~stale => OneRecorder

\* All the records in the files, the oldest generation first.
Kept ==
    LET upTo[g \in Generation] ==
          IF g = 0 THEN file[0] ELSE file[g] \o upTo[g - 1]
    IN upTo[Generations]

\* As long as no recorder lost its lock to another, the files hold the newest
\* records in order and without a hole, in the middle of a rotation and after
\* recorders have died in it as well: what rotation loses is the oldest.
NewestKeptWithoutHole ==
    ~stolen => \A i \in 1..Len(Kept) : Kept[i] = next - 1 - Len(Kept) + i

\* Nor does any file ever exceed its limit, the incoming record counted.
FilesAreBounded ==
    ~stolen => \A g \in Generation : Len(file[g]) <= MaxRecords

\* docs/operational-metrics.md: the current file and two old generations are
\* kept.  As long as nobody is killed in a rotation or loses its lock, a record
\* stays until as many full generations of newer ones are there as the journal
\* keeps.
GenerationsAreKept ==
    ~stolen /\ crashes = 0 =>
        Len(Kept) >= IF next - 1 < Generations * MaxRecords
                     THEN next - 1 ELSE Generations * MaxRecords

\* A lock whose process is gone, and which says so.
Abandoned == present /\ pid = Nobody /\ owner # "empty"

\* Such a lock is removed in the end, so that metrics are recorded again: the
\* crash of one recorder does not silence all the others for good.
AbandonedIsRecovered == Abandoned ~> ~Abandoned
=============================================================================
