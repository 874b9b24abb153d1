----------------------------- MODULE Collection -----------------------------
(***************************************************************************)
(* How station and energy-balance days get into the database: the three    *)
(* collecting commands of the daily job (collect, backfill-missing,        *)
(* backfill-energy-balance) and the importer of the cloud queue, which an  *)
(* operator runs beside them without the writer lock.                      *)
(*                                                                         *)
(* A payload is the number of hours of its day it holds; NoData is an      *)
(* answer without rows, Malformed one on which the record builder raises.  *)
(* The commit of a RawData and the commit of its Records are two steps, and *)
(* a command may be killed between any two steps.                          *)
(***************************************************************************)
EXTENDS Integers, FiniteSets

CONSTANTS
    FirstDay,  \* the day the system is installed; its window reaches back
    LastDay,   \* bound: the calendar stops there
    Window,    \* how many days back the backfill looks
    Hours,     \* hours of a full day
    Oddities,  \* answers the cloud may give besides the data of the day
    QueueDays  \* bound: the days whose answers are in the cloud queue

NoData == 0
Malformed == -1

ASSUME DayAssumption == FirstDay \in Nat \ {0} /\ LastDay \in Nat /\ FirstDay <= LastDay
ASSUME WindowAssumption == Window \in Nat \ {0}
ASSUME HoursAssumption == Hours \in Nat \ {0, 1}
ASSUME OdditiesAssumption == Oddities \subseteq {NoData, Malformed}
ASSUME QueueDaysAssumption == QueueDays \subseteq Nat

VARIABLES
    today,    \* the date in Tokyo
    raw,      \* rows of raw_data
    recs,     \* rows of records
    cmd,      \* the command the daily job is running
    pc,       \* where that command is
    todo,     \* its dates still to fetch
    pending,  \* the RawData it fetched last
    loaded,   \* the RawData its repair pass has read
    queue     \* those of them still to build

vars == <<today, raw, recs, cmd, pc, todo, pending, loaded, queue>>
locals == <<todo, pending, loaded, queue>>

Day == 1..LastDay
Station == "fusionsolar"
Energy == "fusionsolar_energy_balance"
Source == {Station, Energy}
Payload == Malformed..Hours
Via == {"api", "gas_drive_queue"}   \* RawData.metadata tells them apart

RawData == [source : Source, day : Day, payload : Payload, via : Via]
Record == [source : Source, day : Day, hour : 1..Hours]
None == [source |-> "none"]

Commands == {"none", "collect", "backfill_missing", "backfill_energy_balance"}

\* run_daily.sh runs the next command whatever became of the previous one.
After(c) == CASE c = "collect" -> "backfill_missing"
              [] c = "backfill_missing" -> "backfill_energy_balance"
              [] OTHER -> "none"

SourceOf(c) == IF c = "backfill_energy_balance" THEN Energy ELSE Station

\* backfill_start .. previous_date, as the script computes them.
WindowDays == {d \in Day : today - Window <= d /\ d < today}

RawDates(s) == {r.day : r \in {x \in raw : x.source = s}}
RecordDates(s) == {r.day : r \in {x \in recs : x.source = s}}

\* Variant: a wrong timezone, the first hour falls on the day before.
RecordsOfEarlier(r) ==
    [source : {r.source}, day : {r.day}, hour : 0..(r.payload - 1)]

\* What the record builder makes of a RawData it does not raise on.
RecordsOf(r) == [source : {r.source}, day : {r.day}, hour : 1..r.payload]

Earliest(S) == {r \in S : \A x \in S : r.day <= x.day}

Init ==
    /\ today = FirstDay
    /\ raw = {}
    /\ recs = {}
    /\ cmd = "none"
    /\ pc = "idle"
    /\ todo = {}
    /\ pending = None
    /\ loaded = {}
    /\ queue = {}

-----------------------------------------------------------------------------
(* The daily job *)

\* Leaves the current command for command c; its process and locals are gone.
GoTo(c) ==
    /\ cmd' = c
    /\ pc' = CASE c = "none" -> "idle" [] c = "collect" -> "fetch" [] OTHER -> "find"
    /\ todo' = {}
    /\ pending' = None
    /\ loaded' = {}
    /\ queue' = {}

NextDay ==
    /\ cmd = "none"
    /\ today < LastDay
    /\ today' = today + 1
    /\ UNCHANGED <<raw, recs, cmd, pc, locals>>

\* The job, or an operator, starts the sequence; collect asks for today.
StartJob ==
    /\ cmd = "none"
    /\ cmd' = "collect"
    /\ pc' = "fetch"
    /\ todo' = {today}
    /\ UNCHANGED <<today, raw, recs, pending, loaded, queue>>

\* Variant: only a day with records counts as collected, so a day whose answer
\* is malformed is fetched again before any later day of the window.
FindMissingByRecords ==
    /\ pc = "find"
    /\ todo' = WindowDays \ RecordDates(SourceOf(cmd))
    /\ pc' = "fetch"
    /\ UNCHANGED <<today, raw, recs, cmd, pending, loaded, queue>>

\* find_missing_dates; for the energy balance only raw data counts.
FindMissing ==
    /\ pc = "find"
    /\ LET s == SourceOf(cmd)
           existing == IF s = Station THEN RawDates(s) \cup RecordDates(s)
                                      ELSE RawDates(s)
       IN todo' = WindowDays \ existing
    /\ pc' = "fetch"
    /\ UNCHANGED <<today, raw, recs, cmd, pending, loaded, queue>>

\* The cloud has the whole of a past day and the first hours of today.
Offered(d) == Oddities \cup IF d = today THEN 1..(Hours - 1) ELSE {Hours}

FetchDay ==
    /\ pc = "fetch"
    /\ \E d \in todo :
         /\ \A e \in todo : d <= e
         /\ todo' = todo \ {d}
         /\ \E p \in Offered(d) :
              pending' = [source |-> SourceOf(cmd), day |-> d,
                          payload |-> p, via |-> "api"]
    /\ pc' = "save"
    /\ UNCHANGED <<today, raw, recs, cmd, loaded, queue>>

\* The cloud refuses or times out: the exception ends the command.
FetchFails ==
    /\ pc = "fetch"
    /\ todo # {}
    /\ GoTo(After(cmd))
    /\ UNCHANGED <<today, raw, recs>>

\* Variant: one RawData per source and date, whatever its payload.
SaveRawDataOncePerDay ==
    /\ pc = "save"
    /\ raw' = IF \E r \in raw : r.source = pending.source /\ r.day = pending.day
              THEN raw ELSE raw \cup {pending}
    /\ pc' = "build"
    /\ UNCHANGED <<today, recs, cmd, locals>>

\* save_rawdata: inserts unless source, date, payload and metadata all match.
SaveRawData ==
    /\ pc = "save"
    /\ raw' = raw \cup {pending}
    /\ pc' = "build"
    /\ UNCHANGED <<today, recs, cmd, locals>>

BuildAndSave ==
    /\ pc = "build"
    /\ pending.payload # Malformed
    /\ recs' = recs \cup RecordsOf(pending)
    /\ pc' = IF cmd = "collect" THEN "done" ELSE "fetch"
    /\ pending' = None
    /\ UNCHANGED <<today, raw, cmd, todo, loaded, queue>>

\* The builder raises although the raw data is committed.
BuildRaises ==
    /\ pc = "build"
    /\ pending.payload = Malformed
    /\ GoTo(After(cmd))
    /\ UNCHANGED <<today, raw, recs>>

\* Variant: only the days fetched by this very command are repaired.
ReadForRepairNothing ==
    /\ pc = "fetch" /\ todo = {} /\ cmd # "collect"
    /\ loaded' = {r \in raw : r.source = SourceOf(cmd) /\ r.day \in WindowDays}
    /\ queue' = {}
    /\ pc' = "repair"
    /\ UNCHANGED <<today, raw, recs, cmd, todo, pending>>

\* After the last missing day: the days that have raw data and no record.
ReadForRepair ==
    /\ pc = "fetch" /\ todo = {} /\ cmd # "collect"
    /\ loaded' = {r \in raw : r.source = SourceOf(cmd) /\ r.day \in WindowDays}
    /\ queue' = {r \in loaded' : r.day \notin RecordDates(SourceOf(cmd))}
    /\ pc' = "repair"
    /\ UNCHANGED <<today, raw, recs, cmd, todo, pending>>

\* One RawData at a time, by date; two of one date in either order of id.
RepairOne ==
    /\ pc = "repair"
    /\ \E r \in Earliest(queue) :
         /\ r.payload # Malformed
         /\ recs' = recs \cup RecordsOf(r)
         /\ queue' = queue \ {r}
    /\ UNCHANGED <<today, raw, cmd, pc, todo, pending, loaded>>

\* The builder raises: the later days of the queue are not repaired.
RepairRaises ==
    /\ pc = "repair"
    /\ \E r \in Earliest(queue) : r.payload = Malformed
    /\ GoTo(After(cmd))
    /\ UNCHANGED <<today, raw, recs>>

RepairDone ==
    /\ pc = "repair"
    /\ queue = {}
    /\ pc' = "done"
    /\ UNCHANGED <<today, raw, recs, cmd, locals>>

\* The command returns 0.
Finish ==
    /\ pc = "done"
    /\ GoTo(After(cmd))
    /\ UNCHANGED <<today, raw, recs>>

\* The wall-clock limit kills the command: what was committed stays.
StopCommand ==
    /\ cmd # "none"
    /\ GoTo(After(cmd))
    /\ UNCHANGED <<today, raw, recs>>

\* The whole job is killed, or the host loses power.
StopJob ==
    /\ cmd # "none"
    /\ GoTo("none")
    /\ UNCHANGED <<today, raw, recs>>

-----------------------------------------------------------------------------
(* import-fusionsolar-gas-queue *)

\* The cloud collectors store answers about the day before.  The importer
\* rejects a file on which the record builder would raise.
QueueFile == {r \in RawData : /\ r.payload \in (Oddities \ {Malformed}) \cup {Hours}
                              /\ r.via = "gas_drive_queue"
                              /\ r.day \in QueueDays
                              /\ r.day < today}

SameDay(f) == {r \in raw : r.source = f.source /\ r.day = f.day}
Duplicate(f) == \E r \in SameDay(f) : r.payload = f.payload
Conflict(f) == SameDay(f) # {} /\ ~Duplicate(f)

\* _candidates: two different payloads for one day reject the whole queue.
OnePayloadPerDay(files) ==
    \A f, g \in files :
        f.source = g.source /\ f.day = g.day => f.payload = g.payload

\* One BEGIN IMMEDIATE transaction: any conflict blocks the whole queue, a
\* payload that is already stored is only receipted.
ImportQueue(files) ==
    /\ OnePayloadPerDay(files)
    /\ \A f \in files : ~Conflict(f)
    /\ raw' = raw \cup {f \in files : ~Duplicate(f)}
    /\ UNCHANGED <<today, recs, cmd, pc, locals>>

\* Queues of one or two days.
Queues == {files \in SUBSET QueueFile : Cardinality(files) \in {1, 2}}

-----------------------------------------------------------------------------
Command ==
    \/ FindMissing
    \/ FetchDay
    \/ FetchFails
    \/ SaveRawData
    \/ BuildAndSave
    \/ BuildRaises
    \/ ReadForRepair
    \/ RepairOne
    \/ RepairRaises
    \/ RepairDone
    \/ Finish

Next ==
    \/ NextDay
    \/ StartJob
    \/ Command
    \/ StopCommand
    \/ StopJob
    \/ \E files \in Queues : ImportQueue(files)

Spec == Init /\ [][Next]_vars

\* A step of command c, and the step from it to the command after it.
Of(c, A) == cmd = c /\ A
Onward == FetchFails \/ BuildRaises \/ RepairRaises \/ Finish \/ StopCommand

\* launchd starts the job again and again, and the calendar goes on.  Of the
\* accidents (no answer, a kill) the model only assumes that they do not hit
\* every attempt: each step towards a stored day, and the change to the next
\* command, succeeds infinitely often if it is tried infinitely often.
FairSpec ==
    /\ Spec
    /\ WF_vars(StartJob \/ Command)
    /\ SF_vars(NextDay)
    /\ \A c \in {"collect", "backfill_missing"} : SF_vars(Of(c, Onward))
    /\ \A c \in {"backfill_missing", "backfill_energy_balance"} :
         /\ SF_vars(Of(c, FindMissing))
         /\ SF_vars(Of(c, FetchDay))
         /\ SF_vars(Of(c, SaveRawData))

-----------------------------------------------------------------------------
(* Properties *)

TypeOK ==
    /\ today \in Day
    /\ raw \subseteq RawData
    /\ recs \subseteq Record
    /\ cmd \in Commands
    /\ pc \in {"idle", "find", "fetch", "save", "build", "repair", "done"}
    /\ (pc = "idle") <=> (cmd = "none")
    /\ todo \subseteq Day
    /\ pending \in RawData \cup {None}
    /\ pc \in {"save", "build"} => pending \in RawData
    /\ loaded \subseteq RawData
    /\ queue \subseteq RawData

\* docs/02_storage.md: a Record can be reproduced from RawData.  Whatever is
\* killed when, every stored record comes from a stored answer of its source
\* and day that holds its hour.
RecordsHaveEvidence ==
    \A x \in recs : \E r \in raw :
        r.source = x.source /\ r.day = x.day /\ x.hour <= r.payload

\* A backfill that returns 0 has left no day of its window without raw data,
\* and no day it read data for without records: earlier runs killed between
\* the two commits, and imports that store no record, are made up for.
BackfillLeavesNoGap ==
    pc = "done" /\ cmd # "collect" =>
      /\ WindowDays \subseteq RawDates(SourceOf(cmd)) \cup RecordDates(SourceOf(cmd))
      /\ \A r \in loaded : r.payload # NoData => r.day \in RecordDates(r.source)

\* Every past day in the reach of the last backfill ends up stored, although
\* commands fail or are killed, as long as not every attempt does.
WindowIsCollected ==
    \A d \in Day :
        (today = LastDay /\ d \in WindowDays) ~>
            (d \in RawDates(Station) /\ d \in RawDates(Energy))

\* README: the daily job detects and refetches missing station days.  After a
\* successful backfill every past day of the window has its records for all
\* hours of the day.
PastDaysAreComplete ==
    pc = "done" /\ cmd = "backfill_missing" =>
        \A d \in WindowDays, h \in 1..Hours :
            [source |-> Station, day |-> d, hour |-> h] \in recs
=============================================================================
