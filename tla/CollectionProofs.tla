-------------------------- MODULE CollectionProofs --------------------------
(* Proofs about Collection, for every calendar, window, length of day and   *)
(* set of odd answers.                                                      *)
EXTENDS Collection, TLAPS

\* A command that is left leaves no local state of a wrong type.
LEMMA GoToTypes ==
    ASSUME NEW c \in Commands, GoTo(c)
    PROVE  /\ cmd' \in Commands
           /\ pc' \in {"idle", "find", "fetch"}
           /\ (pc' = "idle") <=> (cmd' = "none")
           /\ todo' = {} /\ pending' = None /\ loaded' = {} /\ queue' = {}
BY DEF GoTo, Commands

LEMMA AfterIsCommand == \A c \in Commands : After(c) \in Commands
BY DEF After, Commands

LEMMA RecordsOfTypes ==
    ASSUME NEW r \in RawData
    PROVE  RecordsOf(r) \subseteq Record
<1> SUFFICES ASSUME NEW x \in RecordsOf(r)  PROVE x \in Record
  OBVIOUS
<1>1. r.source \in Source /\ r.day \in Day /\ r.payload \in Malformed..Hours
  BY DEF RawData, Payload
<1>2. \A h \in 1..r.payload : h \in 1..Hours
  BY <1>1, HoursAssumption DEF Malformed
<1>3. x \in [source : {r.source}, day : {r.day}, hour : 1..r.payload]
  BY DEF RecordsOf
<1>4. x \in [source : Source, day : Day, hour : 1..Hours]
  BY <1>1, <1>2, <1>3
<1>5. QED
  BY <1>4 DEF Record

\* What a record owes to the raw data it was built from.
Evidence(x, R) == \E r \in R :
    r.source = x.source /\ r.day = x.day /\ x.hour <= r.payload

LEMMA RecordsOfEvidence ==
    ASSUME NEW r \in raw, NEW x \in RecordsOf(r)
    PROVE  Evidence(x, raw)
<1>1. x \in [source : {r.source}, day : {r.day}, hour : 1..r.payload]
  BY DEF RecordsOf
<1>2. x.source = r.source /\ x.day = r.day /\ x.hour \in 1..r.payload
  BY <1>1
<1>3. x.hour <= r.payload
  BY <1>2
<1>4. QED
  BY <1>2, <1>3 DEF Evidence

-----------------------------------------------------------------------------
\* Every variable keeps to its type.
THEOREM TypeCorrect == Spec => []TypeOK
<1>1. Init => TypeOK
  BY DayAssumption DEF Init, TypeOK, Day, Commands
<1>2. TypeOK /\ [Next]_vars => TypeOK'
  <2> SUFFICES ASSUME TypeOK, [Next]_vars  PROVE TypeOK'
    OBVIOUS
  <2> USE DEF locals
  <2>1. ASSUME NEW c \in Commands, GoTo(c), UNCHANGED <<today, raw, recs>>
        PROVE  TypeOK'
    BY <2>1, GoToTypes DEF TypeOK
  <2>2. After(cmd) \in Commands /\ "none" \in Commands
    BY AfterIsCommand DEF TypeOK, Commands
  <2>3. CASE NextDay
    BY <2>3, DayAssumption DEF NextDay, TypeOK, Day
  <2>4. CASE StartJob
    BY <2>4 DEF StartJob, TypeOK, Commands
  <2>5. CASE FindMissing
    <3>1. WindowDays \subseteq Day
      BY DEF WindowDays
    <3>2. QED
      BY <2>5, <3>1 DEF FindMissing, TypeOK
  <2>6. CASE FetchDay
    <3>0. PICK d \in todo :
            /\ todo' = todo \ {d}
            /\ \E p \in Offered(d) :
                 pending' = [source |-> SourceOf(cmd), day |-> d,
                             payload |-> p, via |-> "api"]
      BY <2>6 DEF FetchDay
    <3>1. PICK p \in Offered(d) :
            pending' = [source |-> SourceOf(cmd), day |-> d,
                        payload |-> p, via |-> "api"]
      BY <3>0
    <3>2. d \in Day
      BY DEF TypeOK
    <3>3. p \in Payload
      BY OdditiesAssumption, HoursAssumption
         DEF Offered, Payload, NoData, Malformed
    <3>4. SourceOf(cmd) \in Source
      BY DEF SourceOf, Source
    <3>5. pending' \in RawData
      BY <3>1, <3>2, <3>3, <3>4 DEF RawData, Via
    <3>6. QED
      BY <2>6, <3>0, <3>5 DEF FetchDay, TypeOK
  <2>7. CASE FetchFails
    BY <2>1, <2>2, <2>7 DEF FetchFails
  <2>8. CASE SaveRawData
    BY <2>8 DEF SaveRawData, TypeOK
  <2>9. CASE BuildAndSave
    <3>1. pending \in RawData
      BY <2>9 DEF BuildAndSave, TypeOK
    <3>2. recs' \subseteq Record
      BY <2>9, <3>1, RecordsOfTypes DEF BuildAndSave, TypeOK
    <3>3. QED
      BY <2>9, <3>1, <3>2 DEF BuildAndSave, TypeOK
  <2>10. CASE BuildRaises
    BY <2>1, <2>2, <2>10 DEF BuildRaises
  <2>11. CASE ReadForRepair
    BY <2>11 DEF ReadForRepair, TypeOK
  <2>12. CASE RepairOne
    <3>1. PICK r \in Earliest(queue) : /\ recs' = recs \cup RecordsOf(r)
                                       /\ queue' = queue \ {r}
      BY <2>12 DEF RepairOne
    <3>2. r \in RawData
      BY <3>1 DEF Earliest, TypeOK
    <3>3. QED
      BY <2>12, <3>1, <3>2, RecordsOfTypes DEF RepairOne, TypeOK
  <2>13. CASE RepairRaises
    BY <2>1, <2>2, <2>13 DEF RepairRaises
  <2>14. CASE RepairDone
    BY <2>14 DEF RepairDone, TypeOK
  <2>15. CASE Finish
    BY <2>1, <2>2, <2>15 DEF Finish
  <2>16. CASE StopCommand
    BY <2>1, <2>2, <2>16 DEF StopCommand
  <2>17. CASE StopJob
    BY <2>1, <2>2, <2>17 DEF StopJob
  <2>18. ASSUME NEW files \in Queues, ImportQueue(files)  PROVE TypeOK'
    <3>1. files \subseteq RawData
      BY DEF Queues, QueueFile
    <3>2. QED
      BY <2>18, <3>1 DEF ImportQueue, TypeOK
  <2>19. CASE UNCHANGED vars
    BY <2>19 DEF vars, TypeOK
  <2>20. QED
    BY <2>3, <2>4, <2>5, <2>6, <2>7, <2>8, <2>9, <2>10, <2>11, <2>12, <2>13,
       <2>14, <2>15, <2>16, <2>17, <2>18, <2>19 DEF Next, Command
<1>3. QED
  BY <1>1, <1>2, PTL DEF Spec

-----------------------------------------------------------------------------
\* The raw data a command is about to build records from is committed: the
\* one it fetched, and those its repair pass has read.
BuildsFromStored ==
    /\ pc = "build" => pending \in raw
    /\ loaded \subseteq raw
    /\ queue \subseteq loaded

EvidenceInv == RecordsHaveEvidence /\ BuildsFromStored

\* Raw data only grows, so evidence that is there stays there.
LEMMA EvidenceStays ==
    ASSUME RecordsHaveEvidence, raw \subseteq raw',
           \A x \in recs' : x \in recs \/ Evidence(x, raw)
    PROVE  RecordsHaveEvidence'
BY DEF RecordsHaveEvidence, Evidence

\* Whatever is killed when, and whatever is imported beside the daily job,
\* every record has the stored answer it was built from.
THEOREM EvidenceCorrect == Spec => []RecordsHaveEvidence
<1>1. Init => EvidenceInv
  BY DEF Init, EvidenceInv, RecordsHaveEvidence, BuildsFromStored
<1>2. EvidenceInv /\ [Next]_vars => EvidenceInv'
  <2> SUFFICES ASSUME RecordsHaveEvidence, BuildsFromStored, [Next]_vars
               PROVE  RecordsHaveEvidence' /\ BuildsFromStored'
    BY DEF EvidenceInv
  <2> USE DEF locals
  <2>1. ASSUME NEW c, GoTo(c), UNCHANGED <<today, raw, recs>>
        PROVE  RecordsHaveEvidence' /\ BuildsFromStored'
    <3>1. pc' # "build" /\ loaded' = {} /\ queue' = {}
      BY <2>1 DEF GoTo
    <3>2. QED
      BY <2>1, <3>1 DEF RecordsHaveEvidence, BuildsFromStored
  <2>2. CASE NextDay \/ StartJob \/ FindMissing \/ FetchDay \/ RepairDone
    BY <2>2 DEF NextDay, StartJob, FindMissing, FetchDay, RepairDone,
                RecordsHaveEvidence, BuildsFromStored
  <2>3. CASE FetchFails \/ BuildRaises \/ RepairRaises \/ Finish
               \/ StopCommand \/ StopJob
    BY <2>1, <2>3 DEF FetchFails, BuildRaises, RepairRaises, Finish,
                      StopCommand, StopJob
  <2>4. CASE SaveRawData
    <3>1. raw \subseteq raw' /\ recs' = recs
      BY <2>4 DEF SaveRawData
    <3>2. BuildsFromStored'
      BY <2>4 DEF SaveRawData, BuildsFromStored
    <3>3. QED
      BY <3>1, <3>2, EvidenceStays
  <2>5. CASE BuildAndSave
    <3>1. pending \in raw
      BY <2>5 DEF BuildAndSave, BuildsFromStored
    <3>2. \A x \in recs' : x \in recs \/ Evidence(x, raw)
      BY <2>5, <3>1, RecordsOfEvidence DEF BuildAndSave
    <3>3. BuildsFromStored'
      BY <2>5 DEF BuildAndSave, BuildsFromStored
    <3>4. QED
      BY <2>5, <3>2, <3>3, EvidenceStays DEF BuildAndSave
  <2>6. CASE ReadForRepair
    <3>1. BuildsFromStored'
      BY <2>6 DEF ReadForRepair, BuildsFromStored
    <3>2. QED
      BY <2>6, <3>1 DEF ReadForRepair, RecordsHaveEvidence
  <2>7. CASE RepairOne
    <3>1. PICK r \in Earliest(queue) : /\ recs' = recs \cup RecordsOf(r)
                                       /\ queue' = queue \ {r}
      BY <2>7 DEF RepairOne
    <3>2. r \in raw
      BY <3>1 DEF Earliest, BuildsFromStored
    <3>3. \A x \in recs' : x \in recs \/ Evidence(x, raw)
      BY <3>1, <3>2, RecordsOfEvidence
    <3>4. BuildsFromStored'
      BY <2>7, <3>1 DEF RepairOne, BuildsFromStored
    <3>5. QED
      BY <2>7, <3>3, <3>4, EvidenceStays DEF RepairOne
  <2>8. ASSUME NEW files \in Queues, ImportQueue(files)
        PROVE  RecordsHaveEvidence' /\ BuildsFromStored'
    <3>1. raw \subseteq raw' /\ recs' = recs
      BY <2>8 DEF ImportQueue
    <3>2. BuildsFromStored'
      BY <2>8, <3>1 DEF ImportQueue, BuildsFromStored
    <3>3. QED
      BY <3>1, <3>2, EvidenceStays
  <2>9. CASE UNCHANGED vars
    BY <2>9 DEF vars, RecordsHaveEvidence, BuildsFromStored
  <2>10. QED
    BY <2>2, <2>3, <2>4, <2>5, <2>6, <2>7, <2>8, <2>9 DEF Next, Command
<1>3. EvidenceInv => RecordsHaveEvidence
  BY DEF EvidenceInv
<1>4. QED
  BY <1>1, <1>2, <1>3, PTL DEF Spec

-----------------------------------------------------------------------------
(* What a backfill leaves behind. *)

Backfill == cmd \notin {"none", "collect"}

\* Every day of the window is still to be fetched, is being saved, or is there.
Covered ==
    \A d \in WindowDays :
        \/ d \in todo
        \/ pc = "save" /\ d = pending.day
        \/ d \in RawDates(SourceOf(cmd)) \cup RecordDates(SourceOf(cmd))

\* Every raw data the repair pass has read is still to be built or has records.
Repaired ==
    \A r \in loaded : r.payload # NoData =>
        r \in queue \/ r.day \in RecordDates(r.source)

GapInv ==
    /\ pc = "save" => pending.source = SourceOf(cmd)
    /\ Backfill /\ pc # "find" => Covered
    /\ Backfill /\ pc \in {"repair", "done"} => todo = {} /\ Repaired
    /\ Backfill /\ pc = "done" => queue = {}

\* Days that have raw data or records keep them.
LEMMA DatesStay ==
    ASSUME NEW s
    PROVE  /\ raw \subseteq raw' => RawDates(s) \subseteq RawDates(s)'
           /\ recs \subseteq recs' => RecordDates(s) \subseteq RecordDates(s)'
BY DEF RawDates, RecordDates

\* A RawData with an hour in it gives its day a record.
LEMMA BuildingGivesTheDay ==
    ASSUME NEW r \in RawData, r.payload \notin {NoData, Malformed},
           recs' = recs \cup RecordsOf(r)
    PROVE  r.day \in RecordDates(r.source)'
<1> DEFINE x == [source |-> r.source, day |-> r.day, hour |-> 1]
<1>1. r.payload \in Nat /\ 1 <= r.payload
  BY HoursAssumption DEF RawData, Payload, NoData, Malformed
<1>2. x \in RecordsOf(r)
  BY <1>1 DEF RecordsOf
<1>3. x \in recs' /\ x.source = r.source /\ x.day = r.day
  BY <1>2
<1>4. QED
  BY <1>3 DEF RecordDates

\* While a command goes on, nothing that is stored is lost: what is known of
\* the days and of the repair pass stays true if neither loses a day.
LEMMA GapFrame ==
    ASSUME GapInv, UNCHANGED <<today, cmd, pc, todo, pending, loaded, queue>>,
           raw \subseteq raw', recs \subseteq recs'
    PROVE  GapInv'
<1>1. WindowDays' = WindowDays /\ SourceOf(cmd)' = SourceOf(cmd) /\ (Backfill' <=> Backfill)
  BY DEF WindowDays, SourceOf, Backfill
<1>2. \A s : /\ RawDates(s) \subseteq RawDates(s)'
             /\ RecordDates(s) \subseteq RecordDates(s)'
  BY DatesStay
<1>3. Covered => Covered'
  BY <1>1, <1>2 DEF Covered
<1>4. Repaired => Repaired'
  BY <1>2 DEF Repaired
<1>5. QED
  BY <1>1, <1>3, <1>4 DEF GapInv

\* A backfill that returns 0 has left no day of its window without raw data,
\* and no day it read data for without records, whichever steps of it, of
\* earlier commands and of imports were interleaved, failed or were killed.
THEOREM BackfillCorrect == Spec => []BackfillLeavesNoGap
<1>1. Init => GapInv
  BY DEF Init, GapInv, Backfill
<1>2. TypeOK /\ GapInv /\ [Next]_vars => GapInv'
  <2> SUFFICES ASSUME TypeOK, GapInv, [Next]_vars  PROVE GapInv'
    OBVIOUS
  <2> USE DEF locals
  <2>1. ASSUME NEW c, GoTo(c)  PROVE GapInv'
    <3>1. /\ pc' \in {"idle", "find", "fetch"}
          /\ pc' = "idle" => cmd' = "none"
          /\ pc' = "fetch" => cmd' = "collect"
      BY <2>1 DEF GoTo
    <3>2. QED
      BY <3>1 DEF GapInv, Backfill
  <2>2. CASE NextDay
    BY <2>2 DEF NextDay, TypeOK, GapInv, Backfill
  <2>3. CASE StartJob
    BY <2>3 DEF StartJob, GapInv, Backfill
  <2>4. CASE FindMissing
    <3>1. UNCHANGED <<today, raw, recs, cmd>> /\ pc' = "fetch"
      BY <2>4 DEF FindMissing
    <3>2. Covered'
      BY <2>4, <3>1
         DEF FindMissing, Covered, WindowDays, RawDates, RecordDates, SourceOf
    <3>3. QED
      BY <3>1, <3>2 DEF GapInv
  <2>5. CASE FetchDay
    <3>1. PICK d \in todo :
            /\ todo' = todo \ {d}
            /\ \E p \in Offered(d) :
                 pending' = [source |-> SourceOf(cmd), day |-> d,
                             payload |-> p, via |-> "api"]
      BY <2>5 DEF FetchDay
    <3>2. /\ pc = "fetch" /\ pc' = "save"
          /\ UNCHANGED <<today, raw, recs, cmd>>
          /\ pending'.source = SourceOf(cmd) /\ pending'.day = d
      BY <2>5, <3>1 DEF FetchDay
    <3>3. Backfill => Covered
      BY <3>2 DEF GapInv
    <3>4. Covered => Covered'
      BY <3>1, <3>2 DEF Covered, WindowDays, RawDates, RecordDates, SourceOf
    <3>5. SourceOf(cmd)' = SourceOf(cmd) /\ (Backfill' <=> Backfill)
      BY <3>2 DEF SourceOf, Backfill
    <3>6. QED
      BY <3>2, <3>3, <3>4, <3>5 DEF GapInv
  <2>6. CASE FetchFails \/ BuildRaises \/ RepairRaises \/ Finish
               \/ StopCommand \/ StopJob
    BY <2>1, <2>6 DEF FetchFails, BuildRaises, RepairRaises, Finish,
                      StopCommand, StopJob
  <2>7. CASE SaveRawData
    <3>1. /\ pc = "save" /\ pc' = "build" /\ raw' = raw \cup {pending}
          /\ UNCHANGED <<today, recs, cmd, todo, pending>>
      BY <2>7 DEF SaveRawData
    <3>2. pending.source = SourceOf(cmd)
      BY <3>1 DEF GapInv
    <3>3. Covered => Covered'
      BY <3>1, <3>2 DEF Covered, WindowDays, RawDates, RecordDates, SourceOf
    <3>4. QED
      BY <3>1, <3>3 DEF GapInv, Backfill
  <2>8. CASE BuildAndSave
    <3>1. /\ pc = "build" /\ recs \subseteq recs'
          /\ pc' = IF cmd = "collect" THEN "done" ELSE "fetch"
          /\ UNCHANGED <<today, raw, cmd, todo>>
      BY <2>8 DEF BuildAndSave
    <3>2. RecordDates(SourceOf(cmd)) \subseteq RecordDates(SourceOf(cmd))'
      BY <3>1, DatesStay
    <3>3. SourceOf(cmd)' = SourceOf(cmd) /\ WindowDays' = WindowDays
      BY <3>1 DEF SourceOf, WindowDays
    <3>4. RawDates(SourceOf(cmd)) = RawDates(SourceOf(cmd))'
      BY <3>1 DEF RawDates, SourceOf
    <3>5. Covered => Covered'
      BY <3>1, <3>2, <3>3, <3>4 DEF Covered
    <3>6. QED
      BY <3>1, <3>5 DEF GapInv, Backfill
  <2>9. CASE ReadForRepair
    <3>1. /\ pc = "fetch" /\ todo = {} /\ pc' = "repair"
          /\ loaded' = {r \in raw : r.source = SourceOf(cmd) /\ r.day \in WindowDays}
          /\ queue' = {r \in loaded' : r.day \notin RecordDates(SourceOf(cmd))}
          /\ UNCHANGED <<today, raw, recs, cmd, todo, pending>>
      BY <2>9 DEF ReadForRepair
    <3>2. Covered => Covered'
      BY <3>1 DEF Covered, WindowDays, RawDates, RecordDates, SourceOf
    <3>3. \A s : RecordDates(s)' = RecordDates(s)
      BY <3>1 DEF RecordDates
    <3>4. Repaired'
      BY <3>1, <3>3 DEF Repaired
    <3>5. QED
      BY <3>1, <3>2, <3>4 DEF GapInv, Backfill
  <2>10. CASE RepairOne
    <3>1. PICK r \in Earliest(queue) : /\ r.payload # Malformed
                                       /\ recs' = recs \cup RecordsOf(r)
                                       /\ queue' = queue \ {r}
      BY <2>10 DEF RepairOne
    <3>2. pc = "repair" /\ UNCHANGED <<today, raw, cmd, pc, todo, pending, loaded>>
      BY <2>10 DEF RepairOne
    <3>3. r \in RawData
      BY <3>1 DEF Earliest, TypeOK
    <3>4. \A s : RecordDates(s) \subseteq RecordDates(s)'
      BY <3>1, DatesStay
    <3>5. \A s : RawDates(s)' = RawDates(s)
      BY <3>2 DEF RawDates
    <3>6. r.payload # NoData => r.day \in RecordDates(r.source)'
      BY <3>1, <3>3, BuildingGivesTheDay
    <3>7. Repaired => Repaired'
      BY <3>1, <3>2, <3>4, <3>6 DEF Repaired
    <3>8. SourceOf(cmd)' = SourceOf(cmd) /\ WindowDays' = WindowDays
      BY <3>2 DEF SourceOf, WindowDays
    <3>9. Covered => Covered'
      BY <3>2, <3>4, <3>5, <3>8 DEF Covered
    <3>10. QED
      BY <3>2, <3>7, <3>9 DEF GapInv, Backfill
  <2>11. CASE RepairDone
    <3>1. /\ pc = "repair" /\ queue = {} /\ pc' = "done"
          /\ UNCHANGED <<today, raw, recs, cmd, todo, pending, loaded, queue>>
      BY <2>11 DEF RepairDone
    <3>2. Covered => Covered'
      BY <3>1 DEF Covered, WindowDays, RawDates, RecordDates, SourceOf
    <3>3. Repaired => Repaired'
      BY <3>1 DEF Repaired, RecordDates
    <3>4. QED
      BY <3>1, <3>2, <3>3 DEF GapInv, Backfill
  <2>12. ASSUME NEW files \in Queues, ImportQueue(files)  PROVE GapInv'
    BY <2>12, GapFrame DEF ImportQueue
  <2>13. CASE UNCHANGED vars
    BY <2>13, GapFrame DEF vars
  <2>14. QED
    BY <2>2, <2>3, <2>4, <2>5, <2>6, <2>7, <2>8, <2>9, <2>10, <2>11, <2>12,
       <2>13 DEF Next, Command
<1>3. TypeOK /\ GapInv => BackfillLeavesNoGap
  <2> SUFFICES ASSUME TypeOK, GapInv, pc = "done", cmd # "collect"
               PROVE  /\ WindowDays \subseteq RawDates(SourceOf(cmd)) \cup RecordDates(SourceOf(cmd))
                      /\ \A r \in loaded :
                           r.payload # NoData => r.day \in RecordDates(r.source)
    BY DEF BackfillLeavesNoGap
  <2>1. Backfill
    BY DEF Backfill, TypeOK
  <2>2. Covered /\ Repaired /\ todo = {} /\ queue = {}
    BY <2>1 DEF GapInv
  <2>3. QED
    BY <2>2 DEF Covered, Repaired
<1>4. QED
  BY <1>1, <1>2, <1>3, TypeCorrect, PTL DEF Spec
=============================================================================
