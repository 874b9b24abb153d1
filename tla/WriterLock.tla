----------------------------- MODULE WriterLock -----------------------------
(***************************************************************************)
(* The launchd jobs that use the SQLite file, and the lock directory they  *)
(* share (ADR 001).  Every script has the same skeleton:                   *)
(*                                                                         *)
(*   check configuration - mkdir LOCK - trap 'rmdir LOCK' EXIT -           *)
(*   run_with_timeout.py hedp ... - record one metric - exit               *)
(*                                                                         *)
(* The lock directory carries no owner and no age, so nothing ever removes *)
(* it but the EXIT trap of the script that made it.  The command runs in a *)
(* session of its own (start_new_session), so it outlives a script that is *)
(* terminated.  launchd never runs two instances of one label.             *)
(***************************************************************************)
EXTENDS Integers

CONSTANTS
    Job,       \* the launchd labels
    Kind,      \* how the script of a job treats the result of its command
    Steps,     \* commands of a "list" job, attempts of a "retry" job, else 1
    MaxKills   \* bound: how often scripts are killed or the host loses power

Kinds == {"single", "health", "retry", "list"}

ASSUME KindAssumption == Kind \in [Job -> Kinds]
ASSUME StepsAssumption == Steps \in [Job -> Nat \ {0}]
ASSUME MaxKillsAssumption == MaxKills \in Nat

VARIABLES
    lockDir,   \* LOCK_DIRECTORY exists
    pc,        \* where the running script of each job is, "idle" if none runs
    step,      \* commands the run has started: list position, attempt number
    code,      \* exit status of the run's last command
    codes,     \* exit statuses of all the commands of the run (history)
    status,    \* run_daily.sh's status flag
    timedOut,  \* run_daily.sh's timed_out flag
    outcome,   \* outcome the run recorded as its operational metric
    orphans,   \* commands alive although the script that ran them is dead
    kills      \* kills and power losses so far

vars == <<lockDir, pc, step, code, codes, status, timedOut, outcome,
          orphans, kills>>

run == <<step, code, codes, status, timedOut>>

TimeoutCode == 124      \* run_with_timeout.py
TransportCode == 75     \* hedp collect-modbus: no response was accepted
ExitCode == {0, 1, 2, TransportCode, TimeoutCode}

Outcomes == {"none", "completed", "skipped", "timed_out", "failed"}

Trapped == {"run", "wait", "grace", "report", "exit"}
Owning == Trapped \cup {"locked"}
Place == Owning \cup {"idle", "start"}

\* A command started by a script that is alive, supervised by its runner.
Supervised(j) == pc[j] \in {"wait", "grace"}

Init ==
    /\ lockDir = FALSE
    /\ pc = [j \in Job |-> "idle"]
    /\ step = [j \in Job |-> 0]
    /\ code = [j \in Job |-> 0]
    /\ codes = [j \in Job |-> {}]
    /\ status = [j \in Job |-> 0]
    /\ timedOut = [j \in Job |-> 0]
    /\ outcome = [j \in Job |-> "none"]
    /\ orphans = [j \in Job |-> 0]
    /\ kills = 0

-----------------------------------------------------------------------------
(* Before the lock *)

\* launchd starts the script of a label that is not running.
Launch(j) ==
    /\ pc[j] = "idle"
    /\ pc' = [pc EXCEPT ![j] = "start"]
    /\ step' = [step EXCEPT ![j] = 0]
    /\ code' = [code EXCEPT ![j] = 0]
    /\ codes' = [codes EXCEPT ![j] = {}]
    /\ status' = [status EXCEPT ![j] = 0]
    /\ timedOut' = [timedOut EXCEPT ![j] = 0]
    /\ outcome' = [outcome EXCEPT ![j] = "none"]
    /\ UNCHANGED <<lockDir, orphans, kills>>

\* A timing value out of range: exit 2 before the lock.  The daily script
\* exits without recording a metric, the others record a failure.
Misconfigured(j) ==
    /\ pc[j] = "start"
    /\ pc' = [pc EXCEPT ![j] = "idle"]
    /\ outcome' = [outcome EXCEPT ![j] =
                     IF Kind[j] = "list" THEN "none" ELSE "failed"]
    /\ UNCHANGED <<lockDir, run, orphans, kills>>

\* Variant: the trap is set before mkdir, so a skipped run removes the lock.
LockHeldTrapFirst(j) ==
    /\ pc[j] = "start"
    /\ outcome' = [outcome EXCEPT ![j] = "skipped"]
    /\ pc' = [pc EXCEPT ![j] = "exit"]
    /\ UNCHANGED <<lockDir, run, orphans, kills>>

\* mkdir fails, because the directory is there or for any other reason (no
\* space, no permission, no parent): record skipped/lock_held and exit 0.
LockHeld(j) ==
    /\ pc[j] = "start"
    /\ outcome' = [outcome EXCEPT ![j] = "skipped"]
    /\ pc' = [pc EXCEPT ![j] = "idle"]
    /\ UNCHANGED <<lockDir, run, orphans, kills>>

\* Variant: mkdir -p, which also succeeds on a directory that exists.
MakeLockEvenIfPresent(j) ==
    /\ pc[j] = "start"
    /\ lockDir' = TRUE
    /\ pc' = [pc EXCEPT ![j] = "locked"]
    /\ UNCHANGED <<run, outcome, orphans, kills>>

MakeLock(j) ==
    /\ pc[j] = "start"
    /\ ~lockDir
    /\ lockDir' = TRUE
    /\ pc' = [pc EXCEPT ![j] = "locked"]
    /\ UNCHANGED <<run, outcome, orphans, kills>>

SetTrap(j) ==
    /\ pc[j] = "locked"
    /\ pc' = [pc EXCEPT ![j] = "run"]
    /\ UNCHANGED <<lockDir, run, outcome, orphans, kills>>

-----------------------------------------------------------------------------
(* The commands, under run_with_timeout.py *)

StartCommand(j) ==
    /\ pc[j] = "run"
    /\ step' = [step EXCEPT ![j] = @ + 1]
    /\ pc' = [pc EXCEPT ![j] = "wait"]
    /\ UNCHANGED <<lockDir, code, codes, status, timedOut, outcome,
                   orphans, kills>>

\* run_daily_command reads $? after an `if` none of whose branches ran; the
\* shell has set it to 0 by then, whatever the command returned.
CapturedCode(c) == 0

\* Variant: a daily command that failed leaves the status flag alone.
NoteStatusNever(j, c) == UNCHANGED status

NoteStatus(j, c) ==
    status' = [status EXCEPT ![j] =
                 IF Kind[j] = "list" /\ c # 0 THEN 1 ELSE @]

\* The script goes on to another command: the next of the daily list, or
\* another Modbus attempt after a transport failure.
MoreToRun(j, c) ==
    /\ step[j] < Steps[j]
    /\ \/ Kind[j] = "list"
       \/ Kind[j] = "retry" /\ c = TransportCode

AfterCommand(j, c) ==
    /\ code' = [code EXCEPT ![j] = c]
    /\ codes' = [codes EXCEPT ![j] = @ \cup {c}]
    /\ NoteStatus(j, c)
    /\ timedOut' = [timedOut EXCEPT ![j] =
                      IF Kind[j] = "list" /\ CapturedCode(c) = TimeoutCode
                      THEN 1 ELSE @]
    /\ pc' = [pc EXCEPT ![j] = IF MoreToRun(j, c) THEN "run" ELSE "report"]
    /\ UNCHANGED <<lockDir, step, outcome, kills>>

\* What hedp itself returns; 75 only comes from collect-modbus.
CommandCodes(j) == {0, 1, 2} \cup IF Kind[j] = "retry" THEN {TransportCode} ELSE {}

CommandExits(j) ==
    /\ pc[j] = "wait"
    /\ \E c \in CommandCodes(j) : AfterCommand(j, c)
    /\ UNCHANGED orphans

\* The wall clock runs out: SIGTERM to the command's process group.
TimeoutExpires(j) ==
    /\ pc[j] = "wait"
    /\ pc' = [pc EXCEPT ![j] = "grace"]
    /\ UNCHANGED <<lockDir, run, outcome, orphans, kills>>

\* Variant: 124 is returned without SIGKILL and the second wait, so a command
\* that ignores SIGTERM goes on.
GraceEndsNoWait(j) ==
    /\ pc[j] = "grace"
    /\ AfterCommand(j, TimeoutCode)
    /\ orphans' = [orphans EXCEPT ![j] = 1]

\* Variant: the runner passes on the status of the command it killed.
GraceEndsRawStatus(j) ==
    /\ pc[j] = "grace"
    /\ AfterCommand(j, 137)
    /\ UNCHANGED orphans

\* The group ends on SIGTERM within 10 s or on SIGKILL; the runner has waited
\* for it in both cases before it returns 124.
GraceEnds(j) ==
    /\ pc[j] = "grace"
    /\ AfterCommand(j, TimeoutCode)
    /\ UNCHANGED orphans

\* Variant: the trap is on signals only, so a script that set -e ends leaves
\* the directory behind.
AbortUntrapped(j) ==
    /\ Kind[j] = "list"
    /\ pc[j] \in {"run", "report"}
    /\ pc' = [pc EXCEPT ![j] = "idle"]
    /\ UNCHANGED <<lockDir, run, outcome, orphans, kills>>

\* `set -e` ends the daily script between two commands or after the last one:
\* rm, find, date or a pipeline fails outside of a condition.  The trap runs,
\* no metric is recorded.
Abort(j) ==
    /\ Kind[j] = "list"
    /\ pc[j] \in {"run", "report"}
    /\ pc' = [pc EXCEPT ![j] = "exit"]
    /\ UNCHANGED <<lockDir, run, outcome, orphans, kills>>

-----------------------------------------------------------------------------
(* The end of a run *)

DailyOutcome(j) ==
    CASE timedOut[j] = 1 -> "timed_out"
      [] timedOut[j] # 1 /\ status[j] = 0 -> "completed"
      [] OTHER -> "failed"

CommandOutcome(j) ==
    CASE code[j] = 0 -> "completed"
      [] code[j] = 1 /\ Kind[j] = "health" -> "completed"
      [] code[j] = TimeoutCode -> "timed_out"
      [] OTHER -> "failed"

Report(j) ==
    /\ pc[j] = "report"
    /\ outcome' = [outcome EXCEPT ![j] =
                     IF Kind[j] = "list" THEN DailyOutcome(j)
                                         ELSE CommandOutcome(j)]
    /\ pc' = [pc EXCEPT ![j] = "exit"]
    /\ UNCHANGED <<lockDir, run, orphans, kills>>

\* Variant: the trap is lost, the directory stays when the script ends.
ReleaseForgotten(j) ==
    /\ pc[j] = "exit"
    /\ pc' = [pc EXCEPT ![j] = "idle"]
    /\ UNCHANGED <<lockDir, run, outcome, orphans, kills>>

\* The EXIT trap: rmdir LOCK_DIRECTORY.
Release(j) ==
    /\ pc[j] = "exit"
    /\ lockDir' = FALSE
    /\ pc' = [pc EXCEPT ![j] = "idle"]
    /\ UNCHANGED <<run, outcome, orphans, kills>>

-----------------------------------------------------------------------------
(* Kills: launchctl bootout and kickstart -k, logout, power loss *)

ScriptDies(j) ==
    /\ kills < MaxKills
    /\ kills' = kills + 1
    /\ pc[j] # "idle"
    /\ pc' = [pc EXCEPT ![j] = "idle"]
    /\ orphans' = [orphans EXCEPT ![j] =
                     IF Supervised(j) THEN @ + 1 ELSE @]
    /\ UNCHANGED <<run, outcome>>

\* Variant: the handler removes the directory whoever made it.
TerminateRemovesAnyLock(j) ==
    /\ ScriptDies(j)
    /\ lockDir' = FALSE

\* SIGTERM: bash runs the EXIT trap if it was set.  The runner dies too, the
\* command does not: it is in another session.
Terminate(j) ==
    /\ ScriptDies(j)
    /\ lockDir' = (lockDir /\ pc[j] \notin Trapped)

\* SIGKILL: no trap runs.
KillHard(j) ==
    /\ ScriptDies(j)
    /\ UNCHANGED lockDir

\* Nothing survives but the disk; /tmp may or may not be emptied at boot.
PowerLoss ==
    /\ kills < MaxKills
    /\ kills' = kills + 1
    /\ pc' = [j \in Job |-> "idle"]
    /\ orphans' = [j \in Job |-> 0]
    /\ lockDir' \in {lockDir, FALSE}
    /\ UNCHANGED <<run, outcome>>

OrphanExits(j) ==
    /\ orphans[j] > 0
    /\ orphans' = [orphans EXCEPT ![j] = @ - 1]
    /\ UNCHANGED <<lockDir, pc, run, outcome, kills>>

-----------------------------------------------------------------------------
(* What a script does once launched.  Abort is an accident, not a duty. *)
ScriptStep(j) ==
    \/ Misconfigured(j)
    \/ LockHeld(j)
    \/ MakeLock(j)
    \/ SetTrap(j)
    \/ StartCommand(j)
    \/ CommandExits(j)
    \/ TimeoutExpires(j)
    \/ GraceEnds(j)
    \/ Report(j)
    \/ Release(j)

Next ==
    \/ \E j \in Job :
         \/ Launch(j)
         \/ ScriptStep(j)
         \/ Abort(j)
         \/ Terminate(j)
         \/ KillHard(j)
         \/ OrphanExits(j)
    \/ PowerLoss

Spec == Init /\ [][Next]_vars

\* A launched script goes on: every command it waits for has a wall-clock
\* limit after which the runner kills it, so no step can last forever.
\* Nothing is assumed of launches, kills, or of commands without a runner.
FairSpec == Spec /\ \A j \in Job : WF_vars(ScriptStep(j))

-----------------------------------------------------------------------------
(* Properties *)

TypeOK ==
    /\ lockDir \in BOOLEAN
    /\ pc \in [Job -> Place]
    /\ step \in [Job -> Nat]
    /\ code \in [Job -> ExitCode]
    /\ codes \in [Job -> SUBSET ExitCode]
    /\ status \in [Job -> {0, 1}]
    /\ timedOut \in [Job -> {0, 1}]
    /\ outcome \in [Job -> Outcomes]
    /\ orphans \in [Job -> Nat]
    /\ kills \in 0..MaxKills

\* At most one script is between its mkdir and its rmdir, and the directory
\* is there as long as that script lives: a directory left by a dead script
\* never lets two scripts in, and no skipped run takes it away.
LockHasOneOwner ==
    \A a, b \in Job :
        pc[a] \in Owning /\ pc[b] \in Owning => a = b /\ lockDir

\* The directory disappears only when the script that made it ends, or at a
\* boot: a run that was skipped, misconfigured or killed before its trap was
\* set never removes it.
OnlyOwnerRemovesLock ==
    [][lockDir /\ ~lockDir' =>
         \/ \E j \in Job : pc[j] \in Trapped /\ pc'[j] = "idle"
         \/ \A j \in Job : pc'[j] = "idle"]_vars

\* The job that holds the lock, as its clients see it.
holder ==
    IF \E j \in Job : pc[j] \in Owning
    THEN CHOOSE j \in Job : pc[j] \in Owning
    ELSE IF lockDir THEN "abandoned" ELSE "free"

Shared == INSTANCE SharedLock WITH Client <- Job

\* The directory is the shared lock: it goes from job to job only by way of
\* its holder's release, and one that a dead script left is handed to nobody.
ImplementsSharedLock == Shared!Spec

\* All the commands alive on the database, each named by its job and whether
\* a runner still supervises it.
Writers == {<<j, "supervised">> : j \in {i \in Job : Supervised(i)}}
           \cup {<<j, "orphan">> : j \in {i \in Job : orphans[i] > 0}}

\* ADR 001: the shared lock prevents simultaneous writes to the database.
OneWriter == \A v, w \in Writers : v = w

\* As long as no script has been killed, no two commands are alive at once;
\* in particular a command that timed out is dead before the lock is free.
OneWriterUntilKill == kills = 0 => OneWriter

\* The recorded outcome tells what the run's commands did: a skipped run ran
\* none, a completed one had no failure (the health check may return 1, its
\* warnings), a timed-out one ended on a command the runner killed, and a
\* command killed by the runner is never reported as anything but a timeout
\* (outside the daily job) or a failure.
MetricTellsTheRun ==
    \A j \in Job :
        /\ outcome[j] = "skipped" => codes[j] = {}
        /\ outcome[j] = "completed" =>
             CASE Kind[j] = "list" -> codes[j] = {0}
               [] Kind[j] = "retry" -> code[j] = 0 /\ codes[j] \subseteq {0, TransportCode}
               [] Kind[j] = "health" -> codes[j] \subseteq {0, 1}
               [] OTHER -> codes[j] = {0}
        /\ outcome[j] = "timed_out" => code[j] = TimeoutCode
        /\ outcome[j] = "failed" =>
             TimeoutCode \notin codes[j] \/ Kind[j] = "list"

\* Nothing removes the directory but the script that made it (run_daily.sh and
\* its siblings).  As long as no script has been killed, that script is alive
\* whenever the directory is there: timeouts, failing commands, set -e and
\* skipped runs never leave a lock that would keep every later job out.
LockHasLiveMaker ==
    kills = 0 /\ lockDir => \E j \in Job : pc[j] \in Owning

\* Whoever holds the lock gives it back: unless a script is killed, no job
\* blocks the others forever, whichever of its commands hang or fail.
LockIsReleased == (lockDir /\ kills = 0) ~> (~lockDir \/ kills > 0)

\* docs/operational-metrics.md: a wall-clock timeout is timed_out/timeout.
TimeoutIsReported ==
    \A j \in Job :
        outcome[j] \in {"completed", "failed"} => TimeoutCode \notin codes[j]
=============================================================================
