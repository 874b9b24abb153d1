------------------------------- MODULE Sources ------------------------------
(***************************************************************************)
(* The parts of the household that share nothing but the database: the      *)
(* cloud session, the alarm pages, the realtime snapshot, the two imports   *)
(* of FusionSolar, the two of SwitchBot, the cold archive, the shadow gate  *)
(* and the two readers.  A behaviour is one of one part; the state of the   *)
(* others stays as it begins.  The constants are those of the parts, under  *)
(* the same names.                                                          *)
(***************************************************************************)
EXTENDS Integers, Sequences

CONSTANTS
    Budget, MaxRedirects, MaxSession,                  \* cloud
    PageSize, MaxPages, MaxAlarm,                      \* alarms
    Target,                                            \* snapshot
    Item, Payload, MaxAttempts, MaxMade, MaxRows,      \* queue
    Key, Value, Reports, MaxCells, MaxRaw,             \* reports
    Device, Name, Household, LastList,                 \* devices
    History, Batch, MaxRuns,                           \* history
    Month, Imported, Collected,                        \* archive
    Operation, LastTime, MaxAge, Cooldown,             \* gate
    Resource, Answer, Notice, ShortLimit, FragmentSize, MaxReceived,  \* ledz
    MaxMarks, BufferLimits                             \* warema

VARIABLES
    part,  \* the part whose behaviour this is
    call, step, left, cookie, token, sent, hops, live, result,
    alarms, raised, phase, detail, pageNo, seenPages, hits, kept, atStart,
    cleared,
    at, todo, collected, failures, errors, saved, exit,
    folder, made, rows, receipts, candidates, import,
    sheet, raw, records, pending, rawItems, unsaved, run,
    clock, devices, names, observed, events, stage, collects, listing, listed,
    answered, seenAt,
    observations, recorded, runs, dirty, work, counts, gaps,
    stored, bundle, draft, compact, compacting,
    now, registry, assessed, passed,
    answers, received, reading, normalized,
    wire, fed, buffer, maxBuffer, got, unreturned, feedRaised

Cloud == INSTANCE CloudSession
Alarms == INSTANCE AlarmPages
Snapshot == INSTANCE RealtimeSnapshot
Queue == INSTANCE GasQueue
Sheets == INSTANCE ReportImport
Devices == INSTANCE SwitchBotDevices WITH LastTime <- LastList
Readings == INSTANCE SwitchBotHistory
Archive == INSTANCE ObservationArchive
Gate == INSTANCE ShadowGate
Ledz == INSTANCE LedzReader
Warema == INSTANCE WaremaStream

\* What the parts take from their constants.
ASSUME SourcesAssumption ==
    /\ Cloud!SessionAssumption
    /\ Alarms!AlarmAssumption
    /\ Snapshot!TargetAssumption
    /\ Queue!QueueAssumption
    /\ Sheets!ReportsAssumption
    /\ Devices!HouseholdAssumption
    /\ Readings!HistoryAssumption
    /\ Gate!GateAssumption
    /\ Ledz!LedzAssumption
    /\ Warema!WaremaAssumption

Part ==
    {"cloud", "alarms", "snapshot", "queue", "reports", "devices", "history",
     "archive", "gate", "ledz", "warema"}

Init ==
    /\ part \in Part
    /\ Cloud!Init
    /\ Alarms!Init
    /\ part # "alarms" => alarms = <<>>
    /\ Snapshot!Init
    /\ Queue!Init
    /\ Sheets!Init
    /\ part # "reports" => sheet = [r \in 1..Reports |-> <<>>]
    /\ Devices!Init
    /\ Readings!Init
    /\ Archive!Init
    /\ Gate!Init
    /\ Ledz!Init
    /\ part # "ledz" => answers = [r \in Resource |-> <<"refused">>]
    /\ Warema!Init
    /\ part # "warema" => wire = <<>> /\ maxBuffer = CHOOSE n \in BufferLimits : TRUE

\* A step of this part leaves the variables of the others alone.
Of(p) ==
    /\ part = p
    /\ UNCHANGED part
    /\ \/ p = "cloud"
       \/ UNCHANGED <<call, step, left, cookie, token, sent, hops, live,
                       result>>
    /\ \/ p = "alarms"
       \/ UNCHANGED <<alarms, raised, phase, detail, pageNo, seenPages, hits,
                       kept, atStart, cleared>>
    /\ \/ p = "snapshot"
       \/ UNCHANGED <<at, todo, collected, failures, errors, saved, exit>>
    /\ \/ p = "queue"
       \/ UNCHANGED <<folder, made, rows, receipts, candidates, import>>
    /\ \/ p = "reports"
       \/ UNCHANGED <<sheet, raw, records, pending, rawItems, unsaved, run>>
    /\ \/ p = "devices"
       \/ UNCHANGED <<clock, devices, names, observed, events, stage,
                       collects, listing, listed, answered, seenAt>>
    /\ \/ p = "history"
       \/ UNCHANGED <<observations, recorded, runs, dirty, work, counts, gaps>>
    /\ \/ p = "archive"
       \/ UNCHANGED <<stored, bundle, draft, compact, compacting>>
    /\ \/ p = "gate"
       \/ UNCHANGED <<now, registry, assessed, passed>>
    /\ \/ p = "ledz"
       \/ UNCHANGED <<answers, received, reading, normalized>>
    /\ \/ p = "warema"
       \/ UNCHANGED <<wire, fed, buffer, maxBuffer, got, unreturned,
                       feedRaised>>

Next ==
    \/ Of("cloud") /\ Cloud!Login
    \/ Of("cloud") /\ Cloud!IsSessionActive
    \/ Of("cloud") /\ Cloud!StartData
    \/ Of("cloud") /\ Cloud!GetLoginPage
    \/ Of("cloud") /\ Cloud!GetPublicKey
    \/ Of("cloud") /\ Cloud!ValidateUser
    \/ Of("cloud") /\ Cloud!FollowRedirect
    \/ Of("cloud") /\ Cloud!Arrive
    \/ Of("cloud") /\ Cloud!GetSessionData
    \/ Of("cloud") /\ Cloud!RequestFails
    \/ Of("cloud") /\ Cloud!NothingLeft
    \/ Of("cloud") /\ Cloud!DataAnswered
    \/ Of("cloud") /\ Cloud!DataRefused
    \/ Of("cloud") /\ Cloud!Expire
    \/ Of("alarms") /\ Alarms!Raise
    \/ Of("alarms") /\ Alarms!Clear
    \/ Of("alarms") /\ Alarms!StartAlarms
    \/ Of("alarms") /\ Alarms!CollectPage
    \/ Of("alarms") /\ Alarms!DeviceFails
    \/ Of("snapshot") /\ Snapshot!StartSnapshot
    \/ Of("snapshot") /\ Snapshot!TargetAnswers
    \/ Of("snapshot") /\ Snapshot!TargetFails
    \/ Of("snapshot") /\ Snapshot!SaveAnswer
    \/ Of("snapshot") /\ Snapshot!PartEnds
    \/ Of("snapshot") /\ Snapshot!PartFails
    \/ Of("snapshot") /\ Snapshot!EndSnapshot
    \/ Of("snapshot") /\ Snapshot!KillSnapshot
    \/ Of("queue") /\ Queue!QueueRawData
    \/ Of("queue") /\ Queue!RemoveFile
    \/ Of("queue") /\ Queue!StoreLocal
    \/ Of("queue") /\ Queue!CompareQueue
    \/ Of("queue") /\ Queue!ImportQueue
    \/ Of("queue") /\ Queue!ImportFails
    \/ Of("reports") /\ Sheets!Export
    \/ Of("reports") /\ Sheets!CompareReports
    \/ Of("reports") /\ Sheets!SaveReport
    \/ Of("reports") /\ Sheets!SaveReportRecords
    \/ Of("reports") /\ Sheets!ReportImportDies
    \/ Of("devices") /\ Devices!SetEnabled
    \/ Of("devices") /\ Devices!DeviceList
    \/ Of("devices") /\ Devices!UpsertDevice
    \/ Of("devices") /\ Devices!Reconcile
    \/ Of("devices") /\ Devices!EnsureHistory
    \/ Of("devices") /\ Devices!EndRefresh
    \/ Of("devices") /\ Devices!StoreStatus
    \/ Of("devices") /\ Devices!RecordEvent
    \/ Of("devices") /\ Devices!EndCollect
    \/ Of("devices") /\ Devices!CollectDies
    \/ Of("history") /\ Readings!Import
    \/ Of("history") /\ Readings!SkipBlocked
    \/ Of("history") /\ Readings!ImportRow
    \/ Of("history") /\ Readings!CompleteImport
    \/ Of("history") /\ Readings!ImportDies
    \/ Of("history") /\ Readings!RebuildGaps
    \/ Of("archive") /\ Archive!Store
    \/ Of("archive") /\ \E m \in Month : Archive!CreateArchive(m)
    \/ Of("archive") /\ Archive!PublishArchive
    \/ Of("archive") /\ Archive!BuildCompact
    \/ Of("archive") /\ Archive!PublishCompact
    \/ Of("archive") /\ Archive!GiveUp
    \/ Of("archive") /\ \E m \in Month : Archive!WriteBack(m)
    \/ Of("archive") /\ Archive!PowerLoss
    \/ Of("gate") /\ Gate!Assess
    \/ Of("gate") /\ Gate!Tick
    \/ Of("gate") /\ Gate!Restart
    \/ Of("ledz") /\ Ledz!Receive
    \/ Of("ledz") /\ Ledz!Read
    \/ Of("ledz") /\ Ledz!NextBatch
    \/ Of("warema") /\ Warema!Feed

vars ==
    <<part, call, step, left, cookie, token, sent, hops, live, result, alarms,
      raised, phase, detail, pageNo, seenPages, hits, kept, atStart, cleared,
      at, todo, collected, failures, errors, saved, exit, folder, made, rows,
      receipts, candidates, import, sheet, raw, records, pending, rawItems,
      unsaved, run, clock, devices, names, observed, events, stage, collects,
      listing, listed, answered, seenAt, observations, recorded, runs, dirty,
      work, counts, gaps, stored, bundle, draft, compact, compacting, now,
      registry, assessed, passed, answers, received, reading, normalized,
      wire, fed, buffer, maxBuffer, got, unreturned, feedRaised>>

\* Only the client of the cloud has to move on: each of its requests ends.
Spec ==
    /\ Init
    /\ [][Next]_vars
    /\ WF_vars(Of("cloud") /\ Cloud!ClientStep)

-----------------------------------------------------------------------------
\* The type invariants of the parts.
TypeOK ==
    /\ part \in Part
    /\ part = "cloud" => Cloud!TypeOK
    /\ part = "alarms" => Alarms!TypeOK
    /\ part = "snapshot" => Snapshot!TypeOK
    /\ part = "queue" => Queue!TypeOK
    /\ part = "reports" => Sheets!TypeOK
    /\ part = "devices" => Devices!TypeOK
    /\ part = "history" => Readings!TypeOK
    /\ part = "archive" => Archive!TypeOK
    /\ part = "gate" => Gate!TypeOK
    /\ part = "ledz" => Ledz!TypeOK
    /\ part = "warema" => Warema!TypeOK

\* A request repeated after a renewed login goes out with the renewed session
\* and within the budget of its call.
RenewalIsUsed == Cloud!RenewalIsUsed

\* Every call of the cloud client ends, whatever the cloud answers.
CallEnds == Cloud!CallEnds

\* A complete collection of alarms misses at most as many as were cleared
\* while it went through the pages.
MissedAtMostCleared == Alarms!MissedAtMostCleared

\* What fails in one part of a realtime snapshot costs no other part its
\* rows, and a request for a person ends the requests to the cloud.
PartsAreIsolated == Snapshot!PartsAreIsolated

\* A receipt names the row with its answer, and the queue gives no item a
\* second answer.
ReceiptNamesRow == Queue!ReceiptNamesRow

\* Imported station reports are recorded once and wholly, after crashes too.
ReportsAreWhole == Sheets!ReportsAreWhole

\* The names of SwitchBot devices follow the cloud's list without a hole or
\* an overlap, and a success event has its observation.
NamesFollowTheApi == Devices!NamesFollowTheApi

\* A completed history import is whole, without a row stored twice or a
\* conflict forgotten.
HistoryIsWhole == Readings!HistoryIsWhole

\* The compact database and its bundles hold every row of the source.
CompactIsWhole == Archive!CompactIsWhole

\* No operation passes the shadow gate after it was assessed before.
PassesFirstOrNever == Gate!PassesFirstOrNever

\* The gateway's reader gives every answer as it was sent or rejects the
\* batch; the receiver's gives every frame that can be decoded of what came
\* over the wire, once, in its order, however it is cut, unless a feed raised
\* over it: what a lost brace joins is such a frame.
ReadersAreExact == Ledz!AnswersAreExact /\ Warema!ChunksDoNotMatter
=============================================================================
