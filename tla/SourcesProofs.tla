---------------------------- MODULE SourcesProofs ---------------------------
(***************************************************************************)
(* Proofs about the parts of the household that share nothing but the       *)
(* database: that each of them behaves as its own module says, and, from    *)
(* its inductive invariant, what the runs check of the cloud session, the   *)
(* cold archive, the shadow gate, the realtime snapshot, the alarms, the    *)
(* names of SwitchBot devices, the cloud queue and the reader of the        *)
(* Smart-LEDZ gateway.                                                      *)
(***************************************************************************)
EXTENDS Sources, OrderLemmas

(* Every step of the household is one of the part it belongs to, and leaves *)
(* the variables of the other parts alone.                                  *)
LEMMA OneOfAPart ==
    /\ [Next]_vars => UNCHANGED vars \/ \E p \in Part : Of(p)
    /\ \A p : Of(p) => part = p
<1>1. \A p : Of(p) => part = p
  BY DEF Of
<1>2. Next => \E p \in Part : Of(p)
  BY DEF Next, Part
<1> QED
  BY <1>1, <1>2

LEMMA CloudBehaves == Spec => Cloud!Init /\ [][Cloud!Next]_(Cloud!vars)
<1>1. Init => Cloud!Init
  BY DEF Init
<1>2. ASSUME [Next]_vars PROVE [Cloud!Next]_(Cloud!vars)
  <2>1. CASE Next /\ part = "cloud"
    BY <2>1, OneOfAPart DEF Next, Cloud!Next, Cloud!ClientStep
  <2>2. CASE \E p \in Part : Of(p) /\ p # "cloud"
    BY <2>2 DEF Of, Cloud!vars
  <2>3. CASE UNCHANGED vars
    BY <2>3 DEF vars, Cloud!vars
  <2> QED
    BY <1>2, <2>1, <2>2, <2>3, OneOfAPart
<1> QED
  BY <1>1, <1>2, PTL DEF Spec

LEMMA AlarmsBehaves == Spec => Alarms!Init /\ [][Alarms!Next]_(Alarms!vars)
<1>1. Init => Alarms!Init
  BY DEF Init
<1>2. ASSUME [Next]_vars PROVE [Alarms!Next]_(Alarms!vars)
  <2>1. CASE Next /\ part = "alarms"
    BY <2>1, OneOfAPart DEF Next, Alarms!Next
  <2>2. CASE \E p \in Part : Of(p) /\ p # "alarms"
    BY <2>2 DEF Of, Alarms!vars
  <2>3. CASE UNCHANGED vars
    BY <2>3 DEF vars, Alarms!vars
  <2> QED
    BY <1>2, <2>1, <2>2, <2>3, OneOfAPart
<1> QED
  BY <1>1, <1>2, PTL DEF Spec

LEMMA SnapshotBehaves == Spec => Snapshot!Init /\ [][Snapshot!Next]_(Snapshot!vars)
<1>1. Init => Snapshot!Init
  BY DEF Init
<1>2. ASSUME [Next]_vars PROVE [Snapshot!Next]_(Snapshot!vars)
  <2>1. CASE Next /\ part = "snapshot"
    BY <2>1, OneOfAPart DEF Next, Snapshot!Next
  <2>2. CASE \E p \in Part : Of(p) /\ p # "snapshot"
    BY <2>2 DEF Of, Snapshot!vars
  <2>3. CASE UNCHANGED vars
    BY <2>3 DEF vars, Snapshot!vars
  <2> QED
    BY <1>2, <2>1, <2>2, <2>3, OneOfAPart
<1> QED
  BY <1>1, <1>2, PTL DEF Spec

LEMMA QueueBehaves == Spec => Queue!Init /\ [][Queue!Next]_(Queue!vars)
<1>1. Init => Queue!Init
  BY DEF Init
<1>2. ASSUME [Next]_vars PROVE [Queue!Next]_(Queue!vars)
  <2>1. CASE Next /\ part = "queue"
    BY <2>1, OneOfAPart DEF Next, Queue!Next
  <2>2. CASE \E p \in Part : Of(p) /\ p # "queue"
    BY <2>2 DEF Of, Queue!vars
  <2>3. CASE UNCHANGED vars
    BY <2>3 DEF vars, Queue!vars
  <2> QED
    BY <1>2, <2>1, <2>2, <2>3, OneOfAPart
<1> QED
  BY <1>1, <1>2, PTL DEF Spec

LEMMA SheetsBehaves == Spec => Sheets!Init /\ [][Sheets!Next]_(Sheets!vars)
<1>1. Init => Sheets!Init
  BY DEF Init
<1>2. ASSUME [Next]_vars PROVE [Sheets!Next]_(Sheets!vars)
  <2>1. CASE Next /\ part = "reports"
    BY <2>1, OneOfAPart DEF Next, Sheets!Next
  <2>2. CASE \E p \in Part : Of(p) /\ p # "reports"
    BY <2>2 DEF Of, Sheets!vars
  <2>3. CASE UNCHANGED vars
    BY <2>3 DEF vars, Sheets!vars
  <2> QED
    BY <1>2, <2>1, <2>2, <2>3, OneOfAPart
<1> QED
  BY <1>1, <1>2, PTL DEF Spec

LEMMA DevicesBehaves == Spec => Devices!Init /\ [][Devices!Next]_(Devices!vars)
<1>1. Init => Devices!Init
  BY DEF Init
<1>2. ASSUME [Next]_vars PROVE [Devices!Next]_(Devices!vars)
  <2>1. CASE Next /\ part = "devices"
    BY <2>1, OneOfAPart DEF Next, Devices!Next
  <2>2. CASE \E p \in Part : Of(p) /\ p # "devices"
    BY <2>2 DEF Of, Devices!vars
  <2>3. CASE UNCHANGED vars
    BY <2>3 DEF vars, Devices!vars
  <2> QED
    BY <1>2, <2>1, <2>2, <2>3, OneOfAPart
<1> QED
  BY <1>1, <1>2, PTL DEF Spec

LEMMA ReadingsBehaves == Spec => Readings!Init /\ [][Readings!Next]_(Readings!vars)
<1>1. Init => Readings!Init
  BY DEF Init
<1>2. ASSUME [Next]_vars PROVE [Readings!Next]_(Readings!vars)
  <2>1. CASE Next /\ part = "history"
    BY <2>1, OneOfAPart DEF Next, Readings!Next
  <2>2. CASE \E p \in Part : Of(p) /\ p # "history"
    BY <2>2 DEF Of, Readings!vars
  <2>3. CASE UNCHANGED vars
    BY <2>3 DEF vars, Readings!vars
  <2> QED
    BY <1>2, <2>1, <2>2, <2>3, OneOfAPart
<1> QED
  BY <1>1, <1>2, PTL DEF Spec

LEMMA ArchiveBehaves == Spec => Archive!Init /\ [][Archive!Next]_(Archive!vars)
<1>1. Init => Archive!Init
  BY DEF Init
<1>2. ASSUME [Next]_vars PROVE [Archive!Next]_(Archive!vars)
  <2>1. CASE Next /\ part = "archive"
    BY <2>1, OneOfAPart DEF Next, Archive!Next
  <2>2. CASE \E p \in Part : Of(p) /\ p # "archive"
    BY <2>2 DEF Of, Archive!vars
  <2>3. CASE UNCHANGED vars
    BY <2>3 DEF vars, Archive!vars
  <2> QED
    BY <1>2, <2>1, <2>2, <2>3, OneOfAPart
<1> QED
  BY <1>1, <1>2, PTL DEF Spec

LEMMA GateBehaves == Spec => Gate!Init /\ [][Gate!Next]_(Gate!vars)
<1>1. Init => Gate!Init
  BY DEF Init
<1>2. ASSUME [Next]_vars PROVE [Gate!Next]_(Gate!vars)
  <2>1. CASE Next /\ part = "gate"
    BY <2>1, OneOfAPart DEF Next, Gate!Next
  <2>2. CASE \E p \in Part : Of(p) /\ p # "gate"
    BY <2>2 DEF Of, Gate!vars
  <2>3. CASE UNCHANGED vars
    BY <2>3 DEF vars, Gate!vars
  <2> QED
    BY <1>2, <2>1, <2>2, <2>3, OneOfAPart
<1> QED
  BY <1>1, <1>2, PTL DEF Spec

LEMMA LedzBehaves == Spec => Ledz!Init /\ [][Ledz!Next]_(Ledz!vars)
<1>1. Init => Ledz!Init
  BY DEF Init
<1>2. ASSUME [Next]_vars PROVE [Ledz!Next]_(Ledz!vars)
  <2>1. CASE Next /\ part = "ledz"
    BY <2>1, OneOfAPart DEF Next, Ledz!Next
  <2>2. CASE \E p \in Part : Of(p) /\ p # "ledz"
    BY <2>2 DEF Of, Ledz!vars
  <2>3. CASE UNCHANGED vars
    BY <2>3 DEF vars, Ledz!vars
  <2> QED
    BY <1>2, <2>1, <2>2, <2>3, OneOfAPart
<1> QED
  BY <1>1, <1>2, PTL DEF Spec

LEMMA WaremaBehaves == Spec => Warema!Init /\ [][Warema!Next]_(Warema!vars)
<1>1. Init => Warema!Init
  BY DEF Init
<1>2. ASSUME [Next]_vars PROVE [Warema!Next]_(Warema!vars)
  <2>1. CASE Next /\ part = "warema"
    BY <2>1, OneOfAPart DEF Next, Warema!Next
  <2>2. CASE \E p \in Part : Of(p) /\ p # "warema"
    BY <2>2 DEF Of, Warema!vars
  <2>3. CASE UNCHANGED vars
    BY <2>3 DEF vars, Warema!vars
  <2> QED
    BY <1>2, <2>1, <2>2, <2>3, OneOfAPart
<1> QED
  BY <1>1, <1>2, PTL DEF Spec

-----------------------------------------------------------------------------
(* The cloud session *)

(* The requests that go on within a call: only the budget and the step      *)
(* change, and something of the budget was left.                            *)
LEMMA CloudProceedType ==
    ASSUME Cloud!TypeOK, NEW from, NEW to \in Cloud!LoginSteps, from # "idle",
           Cloud!Proceed(from, to)
    PROVE  /\ step' \in Cloud!LoginSteps
           /\ left' \in {Cloud!NoBudget} \cup 0..Budget
           /\ call # "none"
           /\ (call' = "none") = (step' = "idle")
  BY SourcesAssumption
  DEF Cloud!SessionAssumption, Cloud!TypeOK, Cloud!Proceed, Cloud!Elapse,
     Cloud!LoginSteps, Cloud!NoBudget,
         Cloud!DataCalls

(* A call that ends leaves its budget and its place.                        *)
LEMMA CloudEndType ==
    ASSUME Cloud!TypeOK, NEW outcome \in Cloud!Errors \cup {"done", "data", "active"},
           Cloud!End(outcome)
    PROVE  /\ call' = "none" /\ step' = "idle"
           /\ left' \in {Cloud!NoBudget} \cup 0..Budget
           /\ result' \in Cloud!Errors \cup {"none", "done", "data", "active", "inactive"}
  BY DEF Cloud!End, Cloud!NoBudget

(* The client's state is well-typed: the count of redirects stays within    *)
(* its limit, the budget within its bounds, and a call has a step.          *)
THEOREM CloudTypeCorrect == Spec => []Cloud!TypeOK
<1> USE SourcesAssumption DEF Cloud!SessionAssumption
<1>1. Cloud!Init => Cloud!TypeOK
  BY DEF Cloud!Init, Cloud!TypeOK, Cloud!DataCalls, Cloud!LoginSteps,
     Cloud!NoBudget, Cloud!Session, Cloud!Errors
<1>2. Cloud!TypeOK /\ [Cloud!Next]_(Cloud!vars) => Cloud!TypeOK'
  <2> SUFFICES ASSUME Cloud!TypeOK, [Cloud!Next]_(Cloud!vars) PROVE Cloud!TypeOK'
    OBVIOUS
  <2>1. CASE Cloud!Login
    BY <2>1 DEF Cloud!Login, Cloud!Begin, Cloud!TypeOK, Cloud!LoginSteps,
       Cloud!NoBudget
  <2>2. CASE Cloud!IsSessionActive
    BY <2>2 DEF Cloud!IsSessionActive, Cloud!Begin, Cloud!TypeOK,
       Cloud!LoginSteps, Cloud!NoBudget
  <2>3. CASE Cloud!StartData
    BY <2>3 DEF Cloud!StartData, Cloud!Begin, Cloud!TypeOK, Cloud!DataCalls,
       Cloud!NoBudget
  <2>4. CASE Cloud!GetLoginPage
    BY <2>4, CloudProceedType DEF Cloud!GetLoginPage, Cloud!Proceed,
       Cloud!TypeOK, Cloud!LoginSteps
  <2>5. CASE Cloud!GetPublicKey
    BY <2>5, CloudProceedType DEF Cloud!GetPublicKey, Cloud!Proceed,
       Cloud!TypeOK, Cloud!LoginSteps
  <2>6. CASE Cloud!ValidateUser
    BY <2>6, CloudProceedType DEF Cloud!ValidateUser, Cloud!Proceed,
       Cloud!TypeOK, Cloud!LoginSteps
  <2>7. CASE Cloud!FollowRedirect
    BY <2>7, CloudProceedType DEF Cloud!FollowRedirect, Cloud!Proceed,
       Cloud!TypeOK, Cloud!LoginSteps
  <2>8. CASE Cloud!Arrive
    BY <2>8 DEF Cloud!Arrive, Cloud!Elapse, Cloud!TypeOK, Cloud!LoginSteps,
       Cloud!Session, Cloud!NoBudget
  <2>9. CASE Cloud!GetSessionData
    <3>1. token' \in Cloud!Session /\ UNCHANGED <<cookie, hops, live>>
      BY <2>9 DEF Cloud!GetSessionData, Cloud!TypeOK
    <3>2. CASE call \in Cloud!DataCalls /\ Cloud!RepeatRequest
      BY <2>9, <3>1, <3>2
      DEF Cloud!GetSessionData, Cloud!RepeatRequest, Cloud!Elapse, Cloud!TypeOK,
         Cloud!DataCalls, Cloud!NoBudget
    <3>3. CASE call = "login" /\ Cloud!End("done") /\ UNCHANGED sent
      BY <3>1, <3>3, CloudEndType DEF Cloud!TypeOK
    <3>4. CASE call = "is_session_active" /\ Cloud!End("active") /\ UNCHANGED sent
      BY <3>1, <3>4, CloudEndType DEF Cloud!TypeOK
    <3> QED
      BY <2>9, <3>2, <3>3, <3>4 DEF Cloud!GetSessionData
  <2>10. CASE Cloud!RequestFails
    <3>1. Cloud!StepErrors \subseteq Cloud!Errors
      BY DEF Cloud!StepErrors, Cloud!Errors
    <3> QED
      BY <2>10, <3>1, CloudEndType DEF Cloud!RequestFails, Cloud!TypeOK
  <2>11. CASE Cloud!NothingLeft
    BY <2>11, CloudEndType DEF Cloud!NothingLeft, Cloud!TypeOK, Cloud!Errors
  <2>12. CASE Cloud!DataAnswered
    BY <2>12, CloudEndType DEF Cloud!DataAnswered, Cloud!TypeOK, Cloud!Errors
  <2>13. CASE Cloud!DataRefused
    BY <2>13, CloudProceedType DEF Cloud!DataRefused, Cloud!Proceed,
       Cloud!TypeOK, Cloud!LoginSteps
  <2>14. CASE Cloud!Expire
    BY <2>14 DEF Cloud!Expire, Cloud!client, Cloud!TypeOK, Cloud!Session
  <2>15. CASE UNCHANGED Cloud!vars
    BY <2>15 DEF Cloud!vars, Cloud!TypeOK
  <2> QED
    BY <2>1, <2>2, <2>3, <2>4, <2>5, <2>6, <2>7, <2>8, <2>9, <2>10, <2>11,
       <2>12, <2>13, <2>14, <2>15 DEF Cloud!Next, Cloud!ClientStep
<1> QED
  BY <1>1, <1>2, CloudBehaves, PTL

(* A request that is repeated after a login carries the session the login   *)
(* has opened, and goes out within the budget of the call.  Nothing a       *)
(* client does changes the three before the request has its answer.         *)
THEOREM CloudRenewalCorrect == Spec => []RenewalIsUsed
<1>1. Cloud!Init => Cloud!RenewalIsUsed
  BY DEF Cloud!Init, Cloud!RenewalIsUsed
<1>2. Cloud!TypeOK /\ Cloud!RenewalIsUsed /\ [Cloud!Next]_(Cloud!vars) => Cloud!RenewalIsUsed'
  <2> SUFFICES ASSUME Cloud!TypeOK, Cloud!RenewalIsUsed, [Cloud!Next]_(Cloud!vars), step' = "repeat"
               PROVE  left' # Cloud!NoBudget /\ sent' = cookie' /\ token' = cookie'
    BY DEF Cloud!RenewalIsUsed
  <2>1. CASE Cloud!GetSessionData
    <3>1. Cloud!RepeatRequest
      BY <2>1 DEF Cloud!GetSessionData, Cloud!End
    <3> QED
      BY <2>1, <3>1 DEF Cloud!GetSessionData, Cloud!RepeatRequest, Cloud!Elapse,
         Cloud!NoBudget, Cloud!TypeOK
  <2>2. CASE Cloud!Expire
    BY <2>2 DEF Cloud!Expire, Cloud!client, Cloud!RenewalIsUsed
  <2>3. CASE UNCHANGED Cloud!vars
    BY <2>3 DEF Cloud!vars, Cloud!RenewalIsUsed
  <2>4. CASE Cloud!Login \/ Cloud!IsSessionActive \/ Cloud!StartData
    BY <2>4 DEF Cloud!Login, Cloud!IsSessionActive, Cloud!StartData, Cloud!Begin
  <2>5. CASE Cloud!ClientStep /\ ~Cloud!GetSessionData
    BY <2>5 DEF Cloud!ClientStep, Cloud!GetLoginPage, Cloud!GetPublicKey,
       Cloud!ValidateUser,
       Cloud!FollowRedirect, Cloud!Arrive, Cloud!RequestFails,
       Cloud!NothingLeft, Cloud!DataAnswered,
       Cloud!DataRefused, Cloud!Proceed, Cloud!End
  <2> QED
    BY <2>1, <2>2, <2>3, <2>4, <2>5 DEF Cloud!Next
<1> QED
  BY <1>1, <1>2, CloudTypeCorrect, CloudBehaves, PTL DEF RenewalIsUsed

-----------------------------------------------------------------------------
(* The cold archive *)

(* The state is well-typed.                                                 *)
THEOREM ArchiveTypeCorrect == Spec => []Archive!TypeOK
<1>1. Archive!Init => Archive!TypeOK
  BY DEF Archive!Init, Archive!TypeOK, Archive!NoBundle
<1>2. Archive!TypeOK /\ [Archive!Next]_(Archive!vars) => Archive!TypeOK'
  <2> SUFFICES ASSUME Archive!TypeOK, [Archive!Next]_(Archive!vars) PROVE Archive!TypeOK'
    OBVIOUS
  <2> USE DEF Archive!TypeOK
  <2>1. CASE Archive!Store
    BY <2>1 DEF Archive!Store
  <2>2. ASSUME NEW m \in Month, Archive!CreateArchive(m) PROVE Archive!TypeOK'
    <3>1. Archive!MonthRows(m) \in SUBSET Archive!Row
      BY DEF Archive!MonthRows
    <3> QED
      BY <2>2, <3>1 DEF Archive!CreateArchive
  <2>3. CASE Archive!PublishArchive
    BY <2>3 DEF Archive!PublishArchive
  <2>4. CASE Archive!BuildCompact
    <3>1. PICK months \in SUBSET Month :
             compacting' = {[months |-> months, rows |-> stored \ Archive!Archived(months),
                             source |-> stored]}
      BY <2>4 DEF Archive!BuildCompact
    <3>2. compacting' \subseteq Archive!CompactDatabase
      BY <3>1 DEF Archive!CompactDatabase
    <3> QED
      BY <2>4, <3>2 DEF Archive!BuildCompact
  <2>5. CASE Archive!PublishCompact \/ Archive!GiveUp
    BY <2>5 DEF Archive!PublishCompact, Archive!GiveUp
  <2>6. ASSUME NEW m \in Month, Archive!WriteBack(m) PROVE Archive!TypeOK'
    BY <2>6 DEF Archive!WriteBack
  <2>7. CASE Archive!PowerLoss
    <3>1. bundle' \in [Month -> [state : {"absent", "fresh", "durable", "torn"},
                                 rows : SUBSET Archive!Row]]
      BY <2>7 DEF Archive!PowerLoss
    <3> QED
      BY <2>7, <3>1 DEF Archive!PowerLoss
  <2>8. CASE UNCHANGED Archive!vars
    BY <2>8 DEF Archive!vars
  <2> QED
    BY <2>1, <2>2, <2>3, <2>4, <2>5, <2>6, <2>7, <2>8 DEF Archive!Next
<1> QED
  BY <1>1, <1>2, ArchiveBehaves, PTL

-----------------------------------------------------------------------------
(* What a compact database leaves out is in a bundle that will not be       *)
(* replaced, or was torn; what it holds is in none of its bundles.          *)
ArchiveWhole(c) ==
    /\ \A r \in c.source \ c.rows :
         r[1] \in c.months /\ (r \in bundle[r[1]].rows \/ bundle[r[1]].state = "torn")
    /\ \A m \in c.months :
         bundle[m].state # "absent" /\ bundle[m].rows \cap c.rows = {}

(* The property speaks of the published database only and would be lost     *)
(* with the rename of one that was not whole; nor does it say that no       *)
(* archive is written over the one a database relies on.                    *)
ArchiveInv ==
    /\ Archive!TypeOK
    /\ \A d \in draft : bundle[d.month] = Archive!NoBundle
    /\ \A c \in compact \cup compacting : ArchiveWhole(c)

(* No step takes rows from a bundle that is there, or makes it absent.      *)
LEMMA ArchiveBundlesStay ==
    ASSUME ArchiveInv, [Archive!Next]_(Archive!vars), NEW m \in Month, bundle[m].state # "absent"
    PROVE  /\ bundle'[m].rows = bundle[m].rows
           /\ bundle'[m].state # "absent"
           /\ bundle[m].state = "torn" => bundle'[m].state = "torn"
<1> USE DEF ArchiveInv, Archive!TypeOK
<1>1. CASE Archive!PublishArchive
  <2>1. PICK d \in draft :
           bundle' = [bundle EXCEPT ![d.month] = [state |-> "fresh", rows |-> d.rows]]
    BY <1>1 DEF Archive!PublishArchive
  <2>2. d.month # m
    BY DEF Archive!NoBundle
  <2> QED
    BY <2>1, <2>2
<1>2. ASSUME NEW n \in Month, Archive!WriteBack(n)
      PROVE  /\ bundle'[m].rows = bundle[m].rows
             /\ bundle'[m].state # "absent"
             /\ bundle[m].state = "torn" => bundle'[m].state = "torn"
  BY <1>2 DEF Archive!WriteBack
<1>3. CASE Archive!PowerLoss
  BY <1>3 DEF Archive!PowerLoss
<1>4. CASE UNCHANGED bundle
  BY <1>4
<1> QED
  BY <1>1, <1>2, <1>3, <1>4
  DEF Archive!Next, Archive!vars, Archive!Store, Archive!CreateArchive,
     Archive!BuildCompact, Archive!PublishCompact, Archive!GiveUp

(* So a database that is whole stays so.                                    *)
LEMMA ArchiveWholeStays ==
    ASSUME ArchiveInv, [Archive!Next]_(Archive!vars), NEW c \in Archive!CompactDatabase, ArchiveWhole(c)
    PROVE  ArchiveWhole(c)'
<1>1. ASSUME NEW m \in c.months
      PROVE  bundle'[m].state # "absent" /\ bundle'[m].rows \cap c.rows = {}
  BY <1>1, ArchiveBundlesStay DEF ArchiveWhole, Archive!CompactDatabase
<1>2. ASSUME NEW r \in c.source \ c.rows
      PROVE  /\ r[1] \in c.months
             /\ r \in bundle'[r[1]].rows \/ bundle'[r[1]].state = "torn"
  <2>1. r[1] \in c.months /\ r[1] \in Month /\ bundle[r[1]].state # "absent"
    BY <1>2 DEF ArchiveWhole, Archive!CompactDatabase
  <2> QED
    BY <2>1, <1>2, ArchiveBundlesStay DEF ArchiveWhole
<1> QED
  BY <1>1, <1>2 DEF ArchiveWhole

(* A database is whole when it is built: the bundles of its months hold     *)
(* exactly the rows it leaves out.                                          *)
LEMMA ArchiveBuiltWhole ==
    ASSUME ArchiveInv, Archive!BuildCompact
    PROVE  \A c \in compacting' : ArchiveWhole(c)'
<1> USE DEF ArchiveInv, Archive!TypeOK
<1>1. PICK months \in SUBSET Month :
         /\ \A m \in months : Archive!MatchesRecords(m)
         /\ compacting' = {[months |-> months, rows |-> stored \ Archive!Archived(months),
                            source |-> stored]}
  BY DEF Archive!BuildCompact
<1> SUFFICES ASSUME NEW c \in compacting' PROVE ArchiveWhole(c)'
  OBVIOUS
<1>2. c.months = months /\ c.rows = stored \ Archive!Archived(months) /\ c.source = stored
  BY <1>1
<1>3. ASSUME NEW r \in c.source \ c.rows
      PROVE  r[1] \in months /\ r \in bundle[r[1]].rows
  <2>1. PICK m \in months : r \in Archive!MonthRows(m)
    BY <1>2, <1>3 DEF Archive!Archived
  <2>2. r[1] = m
    BY <2>1 DEF Archive!MonthRows
  <2> QED
    BY <1>1, <2>1, <2>2 DEF Archive!MatchesRecords
<1>4. ASSUME NEW m \in months
      PROVE  bundle[m].state # "absent" /\ bundle[m].rows \cap c.rows = {}
  BY <1>1, <1>2, <1>4 DEF Archive!MatchesRecords, Archive!Verified,
     Archive!Archived
<1>5. bundle' = bundle
  BY DEF Archive!BuildCompact
<1> QED
  BY <1>2, <1>3, <1>4, <1>5 DEF ArchiveWhole

(* The compact database and the bundles it was made with hold together every *)
(* row of the source and no row twice, however many rows are added and       *)
(* whatever is interrupted, but for a bundle a power loss has torn.          *)
THEOREM ArchiveCorrect == Spec => []CompactIsWhole
<1>1. Archive!Init => ArchiveInv
  BY DEF Archive!Init, ArchiveInv, Archive!TypeOK, Archive!NoBundle
<1>2. ArchiveInv /\ Archive!TypeOK' /\ [Archive!Next]_(Archive!vars) => ArchiveInv'
  <2> SUFFICES ASSUME ArchiveInv, Archive!TypeOK', [Archive!Next]_(Archive!vars) PROVE ArchiveInv'
    OBVIOUS
  <2>1. \A d \in draft' : bundle'[d.month] = Archive!NoBundle
    <3>1. ASSUME NEW m \in Month, Archive!CreateArchive(m)
          PROVE  \A d \in draft' : bundle'[d.month] = Archive!NoBundle
      BY <3>1 DEF Archive!CreateArchive, Archive!MayArchive
    <3>2. ASSUME NEW m \in Month, Archive!WriteBack(m), NEW d \in draft'
          PROVE  bundle'[d.month] = Archive!NoBundle
      <4>1. d \in draft /\ d.month # m /\ d.month \in Month
        BY <3>2 DEF Archive!WriteBack, ArchiveInv, Archive!TypeOK,
           Archive!NoBundle
      <4> QED
        BY <3>2, <4>1 DEF Archive!WriteBack, ArchiveInv, Archive!TypeOK
    <3> QED
      BY <3>1, <3>2 DEF Archive!Next, Archive!vars, Archive!Store,
         Archive!PublishArchive, Archive!BuildCompact,
         Archive!PublishCompact, Archive!GiveUp, Archive!PowerLoss, ArchiveInv
  <2>2. \A c \in compact' \cup compacting' : ArchiveWhole(c)'
    <3>1. CASE Archive!BuildCompact
      BY <3>1, ArchiveBuiltWhole, ArchiveWholeStays DEF Archive!BuildCompact,
         ArchiveInv, Archive!TypeOK
    <3>2. CASE compact' \cup compacting' \subseteq compact \cup compacting
      BY <3>2, ArchiveWholeStays DEF ArchiveInv, Archive!TypeOK
    <3> QED
      BY <3>1, <3>2 DEF Archive!Next, Archive!vars, Archive!Store,
         Archive!CreateArchive, Archive!PublishArchive,
         Archive!PublishCompact, Archive!GiveUp, Archive!WriteBack,
         Archive!PowerLoss
  <2> QED
    BY <2>1, <2>2 DEF ArchiveInv
<1>3. ArchiveInv => Archive!CompactIsWhole
  BY DEF ArchiveInv, Archive!CompactIsWhole, ArchiveWhole
<1> QED
  BY <1>1, <1>2, <1>3, ArchiveTypeCorrect, ArchiveBehaves, PTL DEF CompactIsWhole

-----------------------------------------------------------------------------
(* The shadow gate *)

(* An operation that passes was found in the registry by none of the        *)
(* checks: of all the reasons none applies, the duplicate not either.       *)
LEMMA GatePassingIsNew ==
    ASSUME NEW i, NEW e, Gate!Result(Gate!Verdict(i, e)) = "would_dispatch"
    PROVE  i.operation \notin registry
<1>1. Gate!Verdict(i, e) = "conditions_satisfied"
  BY DEF Gate!Result
<1>2. ASSUME NEW k \in DOMAIN Gate!Order, Gate!Applies(Gate!Order[k], i, e) PROVE FALSE
  <2> DEFINE First(n) == /\ Gate!Applies(Gate!Order[n], i, e)
                         /\ \A j \in 1..(n - 1) : ~Gate!Applies(Gate!Order[j], i, e)
  <2>1. \E n \in DOMAIN Gate!Order : First(n)
    BY <1>2, SMTT(60) DEF Gate!Order
  <2>2. (CHOOSE n \in DOMAIN Gate!Order : First(n)) \in DOMAIN Gate!Order
    BY <2>1
  <2>3. Gate!Order[CHOOSE n \in DOMAIN Gate!Order : First(n)] # "conditions_satisfied"
    <3> HIDE DEF First
    <3> QED
      BY <2>2 DEF Gate!Order
  <2> QED
    BY <1>1, <1>2, <2>3 DEF Gate!Verdict
<1>3. 12 \in DOMAIN Gate!Order /\ Gate!Order[12] = "duplicate_operation_id"
  BY DEF Gate!Order
<1> QED
  BY <1>2, <1>3 DEF Gate!Applies

(* A duplicate is in the registry already, every other operation is put     *)
(* into it whatever the verdict.                                            *)
LEMMA GateAssessedIsRecorded ==
    ASSUME NEW i \in Gate!Intent, NEW e
    PROVE  i.operation \in registry \cup Gate!Recorded(i, Gate!Verdict(i, e))
<1>1. CASE Gate!Verdict(i, e) # "duplicate_operation_id"
  BY <1>1 DEF Gate!Recorded
<1>2. CASE Gate!Verdict(i, e) = "duplicate_operation_id"
  <2> DEFINE First(n) == /\ Gate!Applies(Gate!Order[n], i, e)
                         /\ \A j \in 1..(n - 1) : ~Gate!Applies(Gate!Order[j], i, e)
  <2>1. PICK k \in DOMAIN Gate!Order : Gate!Applies(Gate!Order[k], i, e)
    BY <1>2, Zenon DEF Gate!Verdict
  <2>2. \E n \in DOMAIN Gate!Order : First(n)
    BY <2>1, SMTT(60) DEF Gate!Order
  <2> DEFINE least == CHOOSE n \in DOMAIN Gate!Order : First(n)
  <2>3. First(least)
    BY <2>2
  <2>4. Gate!Verdict(i, e) = Gate!Order[least]
    BY <2>1 DEF Gate!Verdict
  <2>5. Gate!Applies("duplicate_operation_id", i, e)
    <3>1. Gate!Applies(Gate!Order[least], i, e)
      BY <2>3
    <3> HIDE DEF least
    <3> QED
      BY <1>2, <2>4, <3>1
  <2> QED
    BY <2>5 DEF Gate!Applies, Gate!Intent, Gate!Contract
<1> QED
  BY <1>1, <1>2

(* The gate's state is well-typed.                                          *)
THEOREM GateTypeCorrect == Spec => []Gate!TypeOK
<1>1. Gate!Init => Gate!TypeOK
  BY SourcesAssumption DEF Gate!GateAssumption, Gate!Init, Gate!TypeOK,
     Gate!Time
<1>2. Gate!TypeOK /\ [Gate!Next]_(Gate!vars) => Gate!TypeOK'
  BY SourcesAssumption DEF Gate!GateAssumption, Gate!TypeOK, Gate!Next,
     Gate!vars, Gate!Assess, Gate!Tick, Gate!Restart, Gate!Time,
         Gate!Intent, Gate!Recorded
<1> QED
  BY <1>1, <1>2, GateBehaves, PTL

(* Whatever was assessed is in the registry of the process.                 *)
GateRemembered == assessed \subseteq registry

LEMMA GateRegistryRemembers == Spec => []GateRemembered
<1>1. Gate!Init => GateRemembered
  BY DEF Gate!Init, GateRemembered
<1>2. GateRemembered /\ [Gate!Next]_(Gate!vars) => GateRemembered'
  <2> SUFFICES ASSUME GateRemembered, [Gate!Next]_(Gate!vars) PROVE GateRemembered'
    OBVIOUS
  <2>1. CASE Gate!Assess
    BY <2>1, GateAssessedIsRecorded DEF Gate!Assess, GateRemembered
  <2>2. CASE Gate!Tick \/ Gate!Restart \/ UNCHANGED Gate!vars
    BY <2>2 DEF Gate!Tick, Gate!Restart, Gate!vars, GateRemembered
  <2> QED
    BY <2>1, <2>2 DEF Gate!Next
<1> QED
  BY <1>1, <1>2, GateBehaves, PTL

(* An operation the process has assessed before, with whatever outcome, does *)
(* not pass any more.                                                       *)
THEOREM GatePassesOnce == Spec => PassesFirstOrNever
<1>1. GateRemembered /\ [Gate!Next]_(Gate!vars) => [\A o \in passed' \ passed : o \notin assessed]_(Gate!vars)
  <2> SUFFICES ASSUME GateRemembered, Gate!Next,
                      NEW o \in passed' \ passed
               PROVE  o \notin assessed
    OBVIOUS
  <2>1. PICK i \in Gate!Intent, e \in Gate!Evidence :
           o = i.operation /\ Gate!Result(Gate!Verdict(i, e)) = "would_dispatch"
    BY DEF Gate!Next, Gate!Assess, Gate!Tick, Gate!Restart
  <2> QED
    BY <2>1, GatePassingIsNew DEF GateRemembered
<1> QED
  BY <1>1, GateRegistryRemembers, GateBehaves, PTL
  DEF PassesFirstOrNever, Gate!PassesFirstOrNever

-----------------------------------------------------------------------------
(* The realtime snapshot *)

(* The parts in their order, which are four different ones.                 *)
LEMMA SnapshotOrder ==
    /\ DOMAIN Snapshot!Parts = 1..4
    /\ Snapshot!Part = {Snapshot!Parts[k] : k \in 1..4}
    /\ \A j, k \in 1..4 : Snapshot!Parts[j] = Snapshot!Parts[k] => j = k
    /\ \A k \in 1..4 :
         /\ (Snapshot!Parts[k] = "modbus") = (k = 1)
         /\ (Snapshot!Parts[k] = "device") = (k = 2)
  BY DEF Snapshot!Parts, Snapshot!Part

(* Nothing has come yet of the part with this number.                       *)
SnapshotUntouched(k) ==
    /\ \A r \in collected : r[1] # Snapshot!Parts[k]
    /\ \A f \in failures : f[1] # Snapshot!Parts[k]
    /\ Snapshot!Parts[k] \notin errors

(* What a part has collected is stored, or the part is listed as an error.  *)
SnapshotStored(k) ==
    \A r \in collected :
        r[1] = Snapshot!Parts[k] => r[1] \in errors \/ r \in saved

(* A target has answered or failed.                                         *)
SnapshotAsked(k, t) ==
    \/ <<Snapshot!Parts[k], t>> \in collected
    \/ \E c \in Snapshot!Code : <<Snapshot!Parts[k], c>> \in failures

(* The property speaks of the end of a run.  Before it, the parts behind    *)
(* the running one are untouched, those before it are stored and were asked *)
(* for all their targets, and the running one for those it has not to do    *)
(* any more; only a request for a person leaves parts out.                  *)
SnapshotInv ==
    /\ Snapshot!TypeOK
    /\ exit = "running" => at \in 1..5
    /\ \A k \in 1..4 : k = at => todo \subseteq Target[Snapshot!Parts[k]]
    /\ at \notin 1..4 => todo = {}
    /\ \A k \in 1..4 : k > at => SnapshotUntouched(k)
    /\ \A k \in 1..4 : k = at => Snapshot!Parts[k] \notin errors
    /\ \A k \in 1..4 : k < at => SnapshotStored(k)
    /\ Snapshot!WantsPerson =>
         at <= 2 \/ (at = 5 /\ SnapshotUntouched(3) /\ SnapshotUntouched(4))
    /\ \A k \in 1..4 : k < at /\ (k <= 2 \/ ~Snapshot!WantsPerson) =>
         \/ Snapshot!Parts[k] \in errors
         \/ \A t \in Target[Snapshot!Parts[k]] : SnapshotAsked(k, t)
    /\ \A k \in 1..4 : k = at =>
         \A t \in Target[Snapshot!Parts[k]] : t \in todo \/ SnapshotAsked(k, t)

LEMMA SnapshotAnswers ==
    ASSUME SnapshotInv, Snapshot!TargetAnswers
    PROVE  SnapshotInv'
<1>1. PICK t \in todo : todo' = todo \ {t}
                        /\ collected' = collected \cup {<<Snapshot!Parts[at], t>>}
  BY DEF Snapshot!TargetAnswers, Snapshot!Running
<1>2. at \in 1..4 /\ t \in Target[Snapshot!Parts[at]]
  BY <1>1 DEF SnapshotInv
<1>3. UNCHANGED <<at, failures, errors, saved, exit>>
  BY DEF Snapshot!TargetAnswers
<1> DEFINE p == Snapshot!Parts[at]
<1>4. Snapshot!Parts[at] \in Snapshot!Part
  BY <1>2, SnapshotOrder
<1>5. Snapshot!TypeOK'
  BY <1>1, <1>2, <1>3, <1>4 DEF SnapshotInv, Snapshot!TypeOK
<1>6. \A k \in 1..4 : k # at => Snapshot!Parts[k] # Snapshot!Parts[at]
  BY <1>2, SnapshotOrder
<1>7. Snapshot!WantsPerson' = Snapshot!WantsPerson
  BY <1>3 DEF Snapshot!WantsPerson
<1>8. ASSUME NEW k \in 1..4, k # at
      PROVE  /\ SnapshotUntouched(k) => SnapshotUntouched(k)'
             /\ SnapshotStored(k) => SnapshotStored(k)'
  BY <1>1, <1>3, <1>6, <1>8 DEF SnapshotUntouched, SnapshotStored
<1>9. ASSUME NEW k \in 1..4, NEW u, SnapshotAsked(k, u) PROVE SnapshotAsked(k, u)'
  BY <1>1, <1>3, <1>9 DEF SnapshotAsked
<1>10. SnapshotAsked(at, t)'
  BY <1>1, <1>3 DEF SnapshotAsked
<1> QED
  BY <1>1, <1>2, <1>3, <1>5, <1>7, <1>8, <1>9, <1>10 DEF SnapshotInv

LEMMA SnapshotFails ==
    ASSUME SnapshotInv, Snapshot!TargetFails
    PROVE  SnapshotInv'
<1>1. PICK t \in todo, c \in Snapshot!Code :
         todo' = todo \ {t} /\ failures' = failures \cup {<<Snapshot!Parts[at], c>>}
  BY DEF Snapshot!TargetFails, Snapshot!Running
<1>2. at \in 1..4 /\ at > 1 /\ t \in Target[Snapshot!Parts[at]]
  BY <1>1 DEF SnapshotInv, Snapshot!TargetFails
<1>3. UNCHANGED <<at, collected, errors, saved, exit>>
  BY DEF Snapshot!TargetFails
<1>4. Snapshot!Parts[at] \in Snapshot!Part
  BY <1>2, SnapshotOrder
<1>5. Snapshot!TypeOK'
  BY <1>1, <1>2, <1>3, <1>4 DEF SnapshotInv, Snapshot!TypeOK
<1>6. \A k \in 1..4 : k # at => Snapshot!Parts[k] # Snapshot!Parts[at]
  BY <1>2, SnapshotOrder
<1>7. at > 2 => Snapshot!WantsPerson' = Snapshot!WantsPerson
  <2> HAVE at > 2
  <2>1. Snapshot!Parts[at] # "device"
    BY <1>2, SnapshotOrder
  <2> QED
    BY <1>1, <1>3, <2>1 DEF Snapshot!WantsPerson
<1>8. ASSUME NEW k \in 1..4, k # at
      PROVE  /\ SnapshotUntouched(k) => SnapshotUntouched(k)'
             /\ SnapshotStored(k) => SnapshotStored(k)'
  BY <1>1, <1>3, <1>6, <1>8 DEF SnapshotUntouched, SnapshotStored
<1>9. ASSUME NEW k \in 1..4, NEW u, SnapshotAsked(k, u) PROVE SnapshotAsked(k, u)'
  BY <1>1, <1>3, <1>9 DEF SnapshotAsked
<1>10. SnapshotAsked(at, t)'
  BY <1>1, <1>3 DEF SnapshotAsked
<1> QED
  BY <1>1, <1>2, <1>3, <1>5, <1>7, <1>8, <1>9, <1>10 DEF SnapshotInv

LEMMA SnapshotSaves ==
    ASSUME SnapshotInv, Snapshot!SaveAnswer
    PROVE  SnapshotInv'
<1>1. PICK r \in collected : saved' = saved \cup {r}
  BY DEF Snapshot!SaveAnswer, Snapshot!Unsaved
<1>2. UNCHANGED <<at, todo, collected, failures, errors, exit>>
  BY DEF Snapshot!SaveAnswer
<1> QED
  BY <1>1, <1>2 DEF SnapshotInv, Snapshot!TypeOK, SnapshotUntouched, SnapshotStored,
     SnapshotAsked, Snapshot!WantsPerson

(* A part is left with everything stored, or as an error.                   *)
LEMMA SnapshotLeavesPart ==
    ASSUME SnapshotInv, Snapshot!PartEnds \/ Snapshot!PartFails
    PROVE  SnapshotInv'
<1>1. /\ at \in 1..4 /\ exit = "running"
      /\ UNCHANGED <<collected, failures, saved, exit>>
      /\ Snapshot!NextPart
  BY SnapshotOrder DEF Snapshot!PartEnds, Snapshot!PartFails
<1> DEFINE p == Snapshot!Parts[at]
<1>2. /\ errors' \in {errors, errors \cup {p}}
      /\ \/ p \in errors'
         \/ todo = {} /\ \A r \in collected : r[1] = p => r \in saved
  BY DEF Snapshot!PartEnds, Snapshot!PartFails, Snapshot!Running, Snapshot!Unsaved
<1>3. /\ at' = IF at = 2 /\ Snapshot!WantsPerson' THEN 5 ELSE at + 1
      /\ todo' = IF at' \in 1..4 THEN Target[Snapshot!Parts[at']] ELSE {}
  BY <1>1, SnapshotOrder DEF Snapshot!NextPart, Snapshot!Enter, Snapshot!Running
<1>4. at' \in 2..5 /\ at' > at /\ (at' = at + 1 \/ (at = 2 /\ at' = 5))
  BY <1>1, <1>3
<1>5. p \in Snapshot!Part /\ \A k \in 1..4 : k # at => Snapshot!Parts[k] # p
  BY <1>1, SnapshotOrder
<1>6. Snapshot!TypeOK'
  <2>1. todo' \subseteq UNION {Target[q] : q \in Snapshot!Part}
    BY <1>3, SnapshotOrder
  <2> QED
    BY <1>1, <1>2, <1>4, <1>5, <2>1 DEF SnapshotInv, Snapshot!TypeOK
<1>7. \A k \in 1..4 : k > at => SnapshotUntouched(k)'
  BY <1>1, <1>2, <1>5 DEF SnapshotInv, SnapshotUntouched
<1>8. \A k \in 1..4 : k <= at => SnapshotStored(k)'
  BY <1>1, <1>2, <1>5 DEF SnapshotInv, SnapshotStored
<1>9. ASSUME NEW k \in 1..4, NEW u PROVE SnapshotAsked(k, u)' = SnapshotAsked(k, u)
  BY <1>1 DEF SnapshotAsked
<1>10. /\ Snapshot!WantsPerson' => Snapshot!WantsPerson
       /\ at # 2 => Snapshot!WantsPerson' = Snapshot!WantsPerson
  BY <1>1, <1>2, SnapshotOrder DEF Snapshot!WantsPerson
<1>11. ASSUME NEW k \in 1..4, k < at', k <= 2 \/ ~Snapshot!WantsPerson'
       PROVE  \/ Snapshot!Parts[k] \in errors'
              \/ \A t \in Target[Snapshot!Parts[k]] : SnapshotAsked(k, t)'
  <2>1. CASE k = at
    BY <1>2, <1>9, <2>1 DEF SnapshotInv
  <2>2. CASE k < at
    <3>1. k <= 2 \/ ~Snapshot!WantsPerson
      BY <1>1, <1>10, <1>11, <2>2
    <3> QED
      BY <1>1, <1>2, <1>9, <2>2, <3>1 DEF SnapshotInv
  <2>3. k <= at
    BY <1>1, <1>3, <1>4, <1>11
  <2> QED
    BY <1>1, <2>1, <2>2, <2>3
<1>12. Snapshot!WantsPerson' =>
         at' <= 2 \/ (at' = 5 /\ SnapshotUntouched(3)' /\ SnapshotUntouched(4)')
  BY <1>1, <1>3, <1>7, <1>10 DEF SnapshotInv
<1>13. \A k \in 1..4 : k = at' => Snapshot!Parts[k] \notin errors'
  BY <1>4, <1>7 DEF SnapshotUntouched
<1>14. \A k \in 1..4 : k < at' => SnapshotStored(k)'
  <2> SUFFICES ASSUME NEW k \in 1..4, k > at PROVE SnapshotStored(k)'
    BY <1>1, <1>8
  <2> QED
    BY <1>7 DEF SnapshotUntouched, SnapshotStored
<1> QED
  BY <1>1, <1>3, <1>4, <1>6, <1>7, <1>11, <1>12, <1>13, <1>14 DEF SnapshotInv

(* What the parts behind this one have asked and stored is all there is.    *)
LEMMA SnapshotInvariant == Spec => []SnapshotInv
<1>1. Snapshot!Init => SnapshotInv
  BY DEF Snapshot!Init, SnapshotInv, Snapshot!TypeOK, Snapshot!WantsPerson,
     SnapshotUntouched
<1>2. SnapshotInv /\ [Snapshot!Next]_(Snapshot!vars) => SnapshotInv'
  <2> SUFFICES ASSUME SnapshotInv, [Snapshot!Next]_(Snapshot!vars) PROVE SnapshotInv'
    OBVIOUS
  <2>1. CASE Snapshot!StartSnapshot
    <3>1. /\ at' = 1 /\ todo' = Target[Snapshot!Parts[1]] /\ exit' = "running"
          /\ collected' = {} /\ failures' = {} /\ errors' = {} /\ saved' = {}
      BY <2>1, SnapshotOrder DEF Snapshot!StartSnapshot, Snapshot!Enter
    <3>2. Snapshot!TypeOK'
      <4>1. Snapshot!Parts[1] \in Snapshot!Part
        BY SnapshotOrder
      <4> QED
        BY <3>1, <4>1 DEF Snapshot!TypeOK
    <3> QED
      BY <3>1, <3>2 DEF SnapshotInv, SnapshotUntouched, Snapshot!WantsPerson
  <2>2. CASE Snapshot!EndSnapshot \/ Snapshot!KillSnapshot \/ UNCHANGED Snapshot!vars
    BY <2>2 DEF Snapshot!EndSnapshot, Snapshot!KillSnapshot, Snapshot!vars,
       SnapshotInv, Snapshot!TypeOK, SnapshotUntouched, SnapshotStored, SnapshotAsked,
       Snapshot!WantsPerson
  <2> QED
    BY <2>1, <2>2, SnapshotAnswers, SnapshotFails, SnapshotSaves, SnapshotLeavesPart
    DEF Snapshot!Next
<1> QED
  BY <1>1, <1>2, SnapshotBehaves, PTL

(* A run asks each part for all its targets and stores what it collected,   *)
(* whatever fails in the others, and asks for nothing behind the devices    *)
(* when the cloud wants a person.                                           *)
THEOREM SnapshotIsolatesParts == Spec => []PartsAreIsolated
<1>1. SnapshotInv => PartsAreIsolated
  <2> SUFFICES ASSUME SnapshotInv, at = 5 PROVE Snapshot!PartsAreIsolated
    BY DEF PartsAreIsolated, Snapshot!PartsAreIsolated
  <2>1. \A r \in collected : r[1] \in errors \/ r \in saved
    BY SnapshotOrder DEF SnapshotInv, SnapshotStored, Snapshot!TypeOK
  <2>2. ASSUME Snapshot!WantsPerson, NEW p \in Snapshot!Part \ {"modbus", "device"}
        PROVE  (\A r \in collected : r[1] # p) /\ (\A f \in failures : f[1] # p)
    <3>1. PICK k \in 3..4 : p = Snapshot!Parts[k]
      BY SnapshotOrder
    <3> QED
      BY <2>2, <3>1 DEF SnapshotInv, SnapshotUntouched
  <2>3. Snapshot!WantsPerson =>
          {r[1] : r \in collected} \cup {f[1] : f \in failures} \subseteq {"modbus", "device"}
    BY <2>2 DEF SnapshotInv, Snapshot!TypeOK
  <2>4. ASSUME ~Snapshot!WantsPerson, NEW p \in Snapshot!Part \ errors, NEW t \in Target[p]
        PROVE  \/ <<p, t>> \in saved
               \/ \E c \in Snapshot!Code : <<p, c>> \in failures
    <3>1. PICK k \in 1..4 : p = Snapshot!Parts[k]
      BY SnapshotOrder
    <3>2. SnapshotAsked(k, t) /\ SnapshotStored(k)
      BY <2>4, <3>1 DEF SnapshotInv
    <3> QED
      BY <2>4, <3>1, <3>2 DEF SnapshotAsked, SnapshotStored
  <2> QED
    BY <2>1, <2>3, <2>4 DEF Snapshot!PartsAreIsolated, Snapshot!WantsPerson
<1> QED
  BY <1>1, SnapshotInvariant, PTL

(* The parts of a snapshot keep their types: for every set of targets.      *)
THEOREM SnapshotTypeCorrect == Spec => []Snapshot!TypeOK
<1>1. SnapshotInv => Snapshot!TypeOK
  BY DEF SnapshotInv
<1> QED
  BY <1>1, SnapshotInvariant, PTL

-----------------------------------------------------------------------------
(* The alarm pages *)

(* What the collection in front of page n has neither collected nor ahead   *)
(* of it any more: cleared alarms, and those that moved to earlier pages.   *)
AlarmsAhead(n) == {alarms[k] : k \in (Alarms!First(n) + 1)..Len(alarms)}
AlarmsLost(n) == (atStart \ kept) \ AlarmsAhead(n)

(* Every page but the last was full, and what is lost was cleared or took   *)
(* the place of an alarm that was.                                          *)
AlarmsInv ==
    /\ alarms \in Seq(Nat)
    /\ raised \in Nat
    /\ pageNo \in Nat \ {0}
    /\ hits \in Nat
    /\ cleared \in Nat
    /\ IsFiniteSet(atStart)
    /\ phase = "paging" =>
         /\ hits = Alarms!First(pageNo)
         /\ Cardinality(AlarmsLost(pageNo)) <= cleared
    /\ Alarms!MissedAtMostCleared

(* The set sizes of AlarmPages are those of the lemmas.                     *)
LEMMA AlarmsCardinality == \A S : Alarms!Cardinality(S) = Cardinality(S)
  BY DEF Alarms!Cardinality, Cardinality

(* The pages before the first page have no alarm, and each page adds its    *)
(* size.                                                                    *)
LEMMA AlarmsFirst ==
    /\ PageSize \in Nat \ {0}
    /\ Alarms!First(1) = 0
    /\ \A n \in Nat \ {0} : /\ Alarms!First(n) \in Nat
                            /\ Alarms!First(n + 1) = Alarms!First(n) + PageSize
                            /\ Alarms!First(n) + PageSize = n * PageSize
<1>1. PageSize \in Nat \ {0}
  BY SourcesAssumption DEF Alarms!AlarmAssumption
<1>2. Alarms!First(1) = 0
  BY <1>1 DEF Alarms!First
<1>3. ASSUME NEW n \in Nat \ {0}, NEW p \in Nat \ {0}
      PROVE  (n - 1) * p \in Nat /\ ((n + 1) - 1) * p = (n - 1) * p + p
             /\ (n - 1) * p + p = n * p
  <2>1. n - 1 \in Nat /\ (n + 1) - 1 = n
    OBVIOUS
  <2>2. \A a, b \in Nat : a * b \in Nat /\ (a + 1) * b = a * b + b
    OBVIOUS
  <2>3. (n - 1) + 1 = n
    OBVIOUS
  <2> QED
    BY <2>1, <2>2, <2>3
<1> QED
  BY <1>1, <1>2, <1>3 DEF Alarms!First

(* An alarm that is cleared, or one that moves to an earlier page, is lost: *)
(* one for each that is cleared.                                            *)
LEMMA AlarmsClearLosesOne ==
    ASSUME AlarmsInv, NEW i \in DOMAIN alarms,
           alarms' = SubSeq(alarms, 1, i - 1) \o SubSeq(alarms, i + 1, Len(alarms)),
           UNCHANGED <<atStart, kept>>, NEW n \in Nat \ {0}
    PROVE  /\ alarms' \in Seq(Nat)
           /\ \E x : AlarmsLost(n)' \subseteq AlarmsLost(n) \cup {x}
<1> DEFINE f == Alarms!First(n)
<1>1. f \in Nat /\ Len(alarms) \in Nat /\ i \in 1..Len(alarms)
  <2>1. Len(alarms) \in Nat /\ DOMAIN alarms = 1..Len(alarms)
    BY DEF AlarmsInv
  <2>2. \A m \in Nat \ {0} : Alarms!First(m) \in Nat
    BY AlarmsFirst, Zenon
  <2> QED
    BY <2>1, <2>2
<1>2. /\ alarms' \in Seq(Nat) /\ Len(alarms') = Len(alarms) - 1
      /\ \A k \in 1..(Len(alarms) - 1) : /\ k < i => alarms'[k] = alarms[k]
                                         /\ ~(k < i) => alarms'[k] = alarms[k + 1]
  <2>1. alarms \in Seq(Nat)
    BY DEF AlarmsInv
  <2>2. i \in 1..Len(alarms)
    BY <1>1
  <2>3. PICK t \in Seq(Nat) :
          /\ t = SubSeq(alarms, 1, i - 1) \o SubSeq(alarms, i + 1, Len(alarms))
          /\ Len(t) = Len(alarms) - 1
          /\ \A k \in 1..(Len(alarms) - 1) : /\ k < i => t[k] = alarms[k]
                                             /\ ~(k < i) => t[k] = alarms[k + 1]
    BY <2>1, <2>2, ElementLeftOut, Zenon
  <2>4. alarms' = t
    BY <2>3, Zenon
  <2> QED
    BY <2>3, <2>4, Zenon
<1>3. AlarmsAhead(n)' = {alarms'[k] : k \in (f + 1)..(Len(alarms) - 1)}
  BY <1>2 DEF AlarmsAhead, Alarms!First
<1> HIDE DEF f
<1>4. CASE i > f
  <2>1. ASSUME NEW k \in (f + 1)..Len(alarms), k # i
        PROVE  alarms[k] \in AlarmsAhead(n)'
    <3>1. CASE k < i
      <4>1. k \in (f + 1)..(Len(alarms) - 1) /\ k \in 1..(Len(alarms) - 1)
        BY <1>1, <3>1
      <4>2. alarms'[k] = alarms[k]
        BY <1>2, <3>1, <4>1
      <4> QED
        BY <1>3, <4>1, <4>2
    <3>2. CASE k > i
      <4>1. /\ k - 1 \in (f + 1)..(Len(alarms) - 1) /\ k - 1 \in 1..(Len(alarms) - 1)
            /\ ~(k - 1 < i) /\ (k - 1) + 1 = k
        BY <1>1, <1>4, <3>2
      <4>2. alarms'[k - 1] = alarms[k]
        BY <1>2, <4>1
      <4> QED
        BY <1>3, <4>1, <4>2
    <3> QED
      BY <1>1, <2>1, <3>1, <3>2
  <2>2. AlarmsAhead(n) \subseteq AlarmsAhead(n)' \cup {alarms[i]}
    BY <2>1 DEF AlarmsAhead, f
  <2>3. AlarmsLost(n)' \subseteq AlarmsLost(n) \cup {alarms[i]}
    BY <2>2 DEF AlarmsLost
  <2> QED
    BY <1>2, <2>3, Zenon
<1>5. CASE i <= f
  <2>1. ASSUME NEW k \in (f + 1)..Len(alarms), k # f + 1
        PROVE  alarms[k] \in AlarmsAhead(n)'
    <3>1. /\ k - 1 \in (f + 1)..(Len(alarms) - 1) /\ k - 1 \in 1..(Len(alarms) - 1)
          /\ ~(k - 1 < i) /\ (k - 1) + 1 = k
      BY <1>1, <1>5, <2>1
    <3>2. alarms'[k - 1] = alarms[k]
      BY <1>2, <3>1
    <3> QED
      BY <1>3, <3>1, <3>2
  <2>2. AlarmsAhead(n) \subseteq AlarmsAhead(n)' \cup {alarms[f + 1]}
    BY <2>1 DEF AlarmsAhead, f
  <2>3. AlarmsLost(n)' \subseteq AlarmsLost(n) \cup {alarms[f + 1]}
    BY <2>2 DEF AlarmsLost
  <2> QED
    BY <1>2, <2>3, Zenon
<1>6. i > f \/ i <= f
  BY <1>1
<1> QED
  BY <1>4, <1>5, <1>6, Zenon

(* What a page holds.                                                       *)
LEMMA AlarmsAnswer ==
    ASSUME AlarmsInv, NEW n \in Nat \ {0},
           NEW page, page = Alarms!Page(n)
    PROVE  /\ Len(page) \in 0..PageSize
           /\ Alarms!Entries(page)
                = {alarms[k] : k \in {j \in (Alarms!First(n) + 1)..Len(alarms) :
                                        j <= Alarms!First(n) + PageSize}}
           /\ Len(page) < PageSize => Len(alarms) <= Alarms!First(n) + Len(page)
                                      \/ Len(alarms) <= Alarms!First(n)
           /\ page = <<>> => Len(alarms) <= Alarms!First(n)
<1> DEFINE f == Alarms!First(n)
           m == Alarms!Least(f + PageSize, Len(alarms))
<1>1. f \in Nat /\ PageSize \in Nat \ {0} /\ Len(alarms) \in Nat
  <2>1. f \in Nat /\ PageSize \in Nat \ {0}
    BY AlarmsFirst, Zenon
  <2>2. Len(alarms) \in Nat
    BY DEF AlarmsInv
  <2> QED
    BY <2>1, <2>2
<1>2. page = SubSeq(alarms, f + 1, m)
  BY DEF Alarms!Page
<1>3. m = IF f + PageSize < Len(alarms) THEN f + PageSize ELSE Len(alarms)
  BY DEF Alarms!Least
<1> HIDE DEF f, m
<1>4. m \in Nat /\ m <= Len(alarms) /\ m <= f + PageSize
  BY <1>1, <1>3
<1>5. /\ page \in Seq(Nat)
      /\ Len(page) = IF f + 1 <= m THEN m - (f + 1) + 1 ELSE 0
      /\ \A k \in 1..(m - (f + 1) + 1) : page[k] = alarms[(f + 1) + k - 1]
  <2>1. f + 1 \in Int /\ m \in Int /\ \A k \in (f + 1)..m : alarms[k] \in Nat
    BY <1>1, <1>4 DEF AlarmsInv
  <2> QED
    BY <1>2, <2>1, SubSeqProperties
<1>6. Len(page) = IF f + 1 <= m THEN m - f ELSE 0
  BY <1>1, <1>4, <1>5
<1>7. Len(page) \in 0..PageSize
  BY <1>1, <1>4, <1>6
<1>8. Alarms!Entries(page) = {page[k] : k \in 1..Len(page)}
  BY <1>5 DEF Alarms!Entries
<1>9. ASSUME NEW k \in 1..Len(page)
      PROVE  page[k] = alarms[f + k] /\ f + k \in (f + 1)..Len(alarms)
             /\ f + k <= f + PageSize
  <2>1. k \in 1..(m - (f + 1) + 1) /\ (f + 1) + k - 1 = f + k
    BY <1>1, <1>4, <1>6
  <2> QED
    BY <1>1, <1>4, <1>5, <1>6, <2>1
<1>10. ASSUME NEW j \in (f + 1)..Len(alarms), j <= f + PageSize
       PROVE  j - f \in 1..Len(page) /\ page[j - f] = alarms[j]
  <2>1. j <= m
    BY <1>1, <1>3, <1>10
  <2>2. j - f \in 1..Len(page) /\ f + (j - f) = j
    BY <1>1, <1>4, <1>6, <2>1
  <2>3. \A k \in 1..Len(page) : page[k] = alarms[f + k]
    BY <1>9, Zenon
  <2>4. page[j - f] = alarms[f + (j - f)]
    BY <2>2, <2>3, Zenon
  <2> QED
    BY <2>2, <2>4
<1>11. Alarms!Entries(page)
         = {alarms[k] : k \in {j \in (f + 1)..Len(alarms) : j <= f + PageSize}}
  <2>1. ASSUME NEW k \in 1..Len(page)
        PROVE  /\ page[k] = alarms[f + k]
               /\ f + k \in {j \in (f + 1)..Len(alarms) : j <= f + PageSize}
    BY <1>9
  <2>2. ASSUME NEW j \in {i \in (f + 1)..Len(alarms) : i <= f + PageSize}
        PROVE  j - f \in 1..Len(page) /\ page[j - f] = alarms[j]
    BY <1>10
  <2> DEFINE places == {j \in (f + 1)..Len(alarms) : j <= f + PageSize}
  <2>3. ASSUME NEW x \in Alarms!Entries(page) PROVE x \in {alarms[k] : k \in places}
    <3>1. PICK k \in 1..Len(page) : x = page[k]
      BY <1>8, Zenon
    <3>2. x = alarms[f + k] /\ f + k \in places
      BY <2>1, <3>1, Zenon
    <3> HIDE DEF places
    <3> QED
      BY <3>2, Zenon
  <2>4. ASSUME NEW x \in {alarms[k] : k \in places} PROVE x \in Alarms!Entries(page)
    <3>1. PICK j \in places : x = alarms[j]
      OBVIOUS
    <3>2. j - f \in 1..Len(page) /\ page[j - f] = x
      BY <2>2, <3>1, Zenon
    <3> QED
      BY <1>8, <3>2, Zenon
  <2> HIDE DEF places
  <2>5. Alarms!Entries(page) = {alarms[k] : k \in places}
    BY <2>3, <2>4, Zenon
  <2> QED
    BY <2>5 DEF places
<1>12. Len(page) < PageSize => Len(alarms) <= f + Len(page) \/ Len(alarms) <= f
  BY <1>1, <1>3, <1>4, <1>6
<1>13. page = <<>> => Len(alarms) <= f
  <2>1. page = <<>> => Len(page) = 0
    BY <1>5, EmptySeq
  <2> QED
    BY <1>1, <1>3, <1>4, <1>6, <2>1
<1> QED
  BY <1>7, <1>11, <1>12, <1>13 DEF f

(* A page that is taken for the last one reaches the end of the list.       *)
LEMMA AlarmsLastPage ==
    ASSUME AlarmsInv, phase = "paging",
           NEW p, p = Alarms!PageAnswer(pageNo, "page"),
           Alarms!IsLastPage(p, pageNo, hits + Len(p.hits))
    PROVE  Len(alarms) <= Alarms!First(pageNo) + PageSize
<1> DEFINE f == Alarms!First(pageNo)
<1>1. /\ f \in Nat /\ PageSize \in Nat \ {0} /\ Len(alarms) \in Nat
      /\ f + PageSize = pageNo * PageSize /\ hits = f /\ pageNo \in Nat \ {0}
  BY AlarmsFirst DEF AlarmsInv
<1>2. /\ Len(p.hits) \in 0..PageSize
      /\ Len(p.hits) < PageSize => Len(alarms) <= f + Len(p.hits) \/ Len(alarms) <= f
      /\ p.hits = <<>> => Len(alarms) <= f
  <2>1. p.hits = Alarms!Page(pageNo)
    BY DEF Alarms!PageAnswer
  <2> QED
    BY <1>1, <2>1, AlarmsAnswer
<1>3. /\ p.total = IF detail \in {"total", "offset"} THEN Len(alarms) ELSE -1
      /\ p.pages = IF detail = "pages" THEN (Len(alarms) + PageSize - 1) \div PageSize
                                       ELSE -1
      /\ p.offset = IF detail = "offset" THEN f ELSE -1
  BY DEF Alarms!PageAnswer
<1>4. \/ p.hits = <<>>
      \/ p.total >= 0 /\ hits + Len(p.hits) >= p.total
      \/ p.pages >= 0 /\ pageNo >= p.pages
      \/ p.offset >= 0 /\ p.offset + PageSize >= p.total
      \/ Len(p.hits) < PageSize
  BY DEF Alarms!IsLastPage, Alarms!PageAnswer
<1> HIDE DEF f
<1> DEFINE held == Len(p.hits)
<1>a. /\ f \in Nat /\ PageSize \in Nat \ {0} /\ Len(alarms) \in Nat /\ hits = f
      /\ held \in 0..PageSize
      /\ held < PageSize => Len(alarms) <= f + held \/ Len(alarms) <= f
      /\ p.hits = <<>> => Len(alarms) <= f
  BY <1>1, <1>2, Zenon
<1> HIDE DEF held
<1>5. CASE p.hits = <<>> \/ Len(p.hits) < PageSize
  <2>1. p.hits = <<>> \/ held < PageSize
    BY <1>5 DEF held
  <2> QED
    BY <1>a, <2>1 DEF f
<1>6. CASE p.total >= 0 /\ hits + Len(p.hits) >= p.total
  <2>1. p.total >= 0 /\ hits + held >= p.total
    BY <1>6 DEF held
  <2>2. p.total = Len(alarms) \/ p.total = -1
    BY <1>3, Zenon
  <2>3. Len(alarms) <= f + PageSize
    BY <1>a, <2>1, <2>2
  <2> QED
    BY <2>3 DEF f
<1>7. CASE p.offset >= 0 /\ p.offset + PageSize >= p.total
  <2>1. (detail = "offset" /\ p.offset = f) \/ p.offset = -1
    BY <1>3, Zenon
  <2>2. p.total = Len(alarms) /\ p.offset = f
    BY <1>3, <1>7, <2>1
  <2>3. Len(alarms) <= f + PageSize
    BY <1>a, <1>7, <2>2
  <2> QED
    BY <2>3 DEF f
<1>8. CASE p.pages >= 0 /\ pageNo >= p.pages
  <2>1. ASSUME NEW a \in Nat, NEW b \in Nat \ {0}, NEW q \in Nat,
               q >= (a + b - 1) \div b
        PROVE  a <= q * b
    <3>1. PICK d \in Nat : d = (a + b - 1) \div b
      OBVIOUS
    <3>2. a + b - 1 < (d + 1) * b
      BY <3>1
    <3>3. (d + 1) * b = d * b + b
      OBVIOUS
    <3>4. d * b <= q * b
      BY <2>1, <3>1
    <3>5. d * b \in Nat /\ q * b \in Nat
      OBVIOUS
    <3> QED
      BY <3>2, <3>3, <3>4, <3>5
  <2>2. CASE detail = "pages"
    <3>1. pageNo >= (Len(alarms) + PageSize - 1) \div PageSize
      BY <1>3, <1>8, <2>2
    <3>2. Len(alarms) <= pageNo * PageSize
      BY <1>1, <2>1, <3>1
    <3> QED
      BY <1>1, <3>2 DEF f
  <2>3. CASE detail # "pages"
    BY <1>3, <1>8, <2>3
  <2> QED
    BY <2>2, <2>3
<1> QED
  BY <1>4, <1>5, <1>6, <1>7, <1>8 DEF f

(* What is collected of a page is not lost, and nothing else is: it is on   *)
(* the page or still ahead.                                                 *)
LEMMA AlarmsCollect ==
    ASSUME AlarmsInv, Alarms!CollectPage
    PROVE  AlarmsInv'
<1>0. PICK body \in Alarms!Body :
        LET p == Alarms!PageAnswer(pageNo, body)
            newHits == hits + Len(p.hits) IN
        /\ seenPages' = seenPages \cup {p}
        /\ hits' = newHits
        /\ kept' = kept \cup Alarms!Entries(p.hits)
        /\ IF Alarms!IsLastPage(p, pageNo, newHits)
           THEN phase' = "complete" /\ UNCHANGED pageNo
           ELSE pageNo' = pageNo + 1 /\ UNCHANGED phase
  BY Zenon DEF Alarms!CollectPage
<1> DEFINE p == Alarms!PageAnswer(pageNo, body)
           f == Alarms!First(pageNo)
<1>1. /\ phase = "paging" /\ hits' = hits + Len(p.hits)
      /\ kept' = kept \cup Alarms!Entries(p.hits)
      /\ UNCHANGED <<alarms, raised, atStart, cleared>>
      /\ \/ /\ Alarms!IsLastPage(p, pageNo, hits + Len(p.hits))
            /\ phase' = "complete" /\ pageNo' = pageNo
         \/ /\ ~Alarms!IsLastPage(p, pageNo, hits + Len(p.hits))
            /\ pageNo' = pageNo + 1 /\ phase' = "paging"
  <2>1. phase = "paging" /\ UNCHANGED <<alarms, raised, atStart, cleared>>
    BY Zenon DEF Alarms!CollectPage
  <2>2. /\ hits' = hits + Len(p.hits)
        /\ kept' = kept \cup Alarms!Entries(p.hits)
        /\ IF Alarms!IsLastPage(p, pageNo, hits + Len(p.hits))
           THEN phase' = "complete" /\ UNCHANGED pageNo
           ELSE pageNo' = pageNo + 1 /\ UNCHANGED phase
    BY Zenon, <1>0
  <2> QED
    BY Zenon, <2>1, <2>2
<1>2. /\ f \in Nat /\ PageSize \in Nat \ {0} /\ Len(alarms) \in Nat
      /\ Alarms!First(pageNo + 1) = f + PageSize /\ hits = f
      /\ pageNo \in Nat \ {0}
  <2>1. pageNo \in Nat \ {0} /\ hits = f /\ Len(alarms) \in Nat
    BY <1>1 DEF AlarmsInv
  <2>2. /\ f \in Nat /\ PageSize \in Nat \ {0}
        /\ Alarms!First(pageNo + 1) = f + PageSize
    BY Zenon, <2>1, AlarmsFirst
  <2> QED
    BY <2>1, <2>2
<1>b. CASE body # "page"
  <2>1. /\ p.hits = <<>> /\ p.body # "page"
        /\ Alarms!IsLastPage(p, pageNo, hits + Len(p.hits))
    BY <1>b DEF Alarms!PageAnswer, Alarms!IsLastPage
  <2>2. phase' = "complete" /\ pageNo' = pageNo /\ hits' = hits
    BY <1>1, <1>2, <2>1
  <2>3. p \in seenPages'
    BY Zenon, <1>0
  <2>4. Alarms!MissedAtMostCleared'
    BY <2>1, <2>3 DEF Alarms!MissedAtMostCleared
  <2> QED
    BY <1>1, <2>2, <2>4 DEF AlarmsInv
<1> SUFFICES ASSUME body = "page" PROVE AlarmsInv'
  BY <1>b
<1>3. /\ Len(p.hits) \in 0..PageSize
      /\ Alarms!Entries(p.hits)
           = {alarms[k] : k \in {j \in (f + 1)..Len(alarms) : j <= f + PageSize}}
  <2>1. p.hits = Alarms!Page(pageNo)
    BY DEF Alarms!PageAnswer
  <2> QED
    BY <1>2, <2>1, AlarmsAnswer
<1> DEFINE rest == {alarms[k] : k \in (f + PageSize + 1)..Len(alarms)}
<1>4. AlarmsAhead(pageNo) \subseteq Alarms!Entries(p.hits) \cup rest
  <2> SUFFICES ASSUME NEW k \in (f + 1)..Len(alarms)
               PROVE  alarms[k] \in Alarms!Entries(p.hits) \cup rest
    BY DEF AlarmsAhead
  <2>1. CASE k <= f + PageSize
    BY <1>3, <2>1
  <2>2. CASE k > f + PageSize
    <3>1. k \in (f + PageSize + 1)..Len(alarms)
      BY <1>2, <2>2
    <3> QED
      BY <3>1
  <2> QED
    BY <1>2, <2>1, <2>2
<1>5. (atStart \ kept') \ rest \subseteq AlarmsLost(pageNo)
  BY <1>1, <1>4 DEF AlarmsLost
<1>6. IsFiniteSet(AlarmsLost(pageNo)) /\ IsFiniteSet(atStart)
  BY FS_Subset DEF AlarmsInv, AlarmsLost
<1>7. Cardinality((atStart \ kept') \ rest) <= cleared
  <2>1. /\ Cardinality((atStart \ kept') \ rest) <= Cardinality(AlarmsLost(pageNo))
        /\ IsFiniteSet((atStart \ kept') \ rest)
    BY <1>5, <1>6, FS_Subset
  <2>2. /\ Cardinality(AlarmsLost(pageNo)) <= cleared /\ cleared \in Nat
        /\ Cardinality(AlarmsLost(pageNo)) \in Nat
    BY <1>1, <1>6, FS_CardinalityType DEF AlarmsInv
  <2>3. Cardinality((atStart \ kept') \ rest) \in Nat
    BY <2>1, FS_CardinalityType
  <2> QED
    BY <2>1, <2>2, <2>3
<1>8. CASE Alarms!IsLastPage(p, pageNo, hits + Len(p.hits))
  <2>1. Len(alarms) <= f + PageSize
    BY <1>1, <1>8, AlarmsLastPage
  <2>2. rest = {}
    BY <1>2, <2>1
  <2>3. Cardinality(atStart \ kept') <= cleared
    BY <1>7, <2>2
  <2>4. phase' = "complete" /\ pageNo' = pageNo /\ hits' \in Nat
    BY <1>1, <1>2, <1>3, <1>8
  <2>5. Cardinality(atStart \ kept)' <= cleared'
    BY <1>1, <2>3
  <2>6. /\ alarms' \in Seq(Nat) /\ raised' \in Nat /\ cleared' \in Nat
        /\ IsFiniteSet(atStart)' /\ pageNo' \in Nat \ {0}
    BY <1>1, <1>2, <2>4 DEF AlarmsInv
  <2>7. phase' # "paging"
    BY <2>4
  <2>8. Alarms!MissedAtMostCleared'
    BY <2>5, AlarmsCardinality DEF Alarms!MissedAtMostCleared
  <2> QED
    BY <2>4, <2>6, <2>7, <2>8, Zenon DEF AlarmsInv
<1>9. CASE ~Alarms!IsLastPage(p, pageNo, hits + Len(p.hits))
  <2>1. ~(Len(p.hits) < PageSize)
    BY <1>9 DEF Alarms!IsLastPage
  <2>2. pageNo' = pageNo + 1 /\ phase' = "paging"
    BY <1>1, <1>9
  <2>3. hits' = Alarms!First(pageNo + 1) /\ hits' \in Nat
    BY <1>1, <1>2, <1>3, <2>1
  <2>4. Alarms!First(pageNo)' = Alarms!First(pageNo + 1)
    BY <2>2 DEF Alarms!First
  <2>5. AlarmsAhead(pageNo)' = rest
    BY <1>1, <1>2, <2>4 DEF AlarmsAhead
  <2>6. AlarmsLost(pageNo)' = (atStart \ kept') \ rest
    BY <1>1, <2>5 DEF AlarmsLost
  <2>7. Cardinality(AlarmsLost(pageNo)') <= cleared'
    BY <1>1, <1>7, <2>6
  <2>8. Cardinality(AlarmsLost(pageNo))' <= cleared'
    BY <2>7
  <2> QED
    BY <1>1, <1>2, <2>2, <2>3, <2>4, <2>8 DEF AlarmsInv, Alarms!MissedAtMostCleared
<1> QED
  BY <1>8, <1>9

(* What is lost while a collection goes through the pages stays within what *)
(* was cleared.                                                             *)
LEMMA AlarmsInvariant == Spec => []AlarmsInv
<1>1. Alarms!Init => AlarmsInv
  <2> SUFFICES ASSUME Alarms!Init PROVE AlarmsInv
    OBVIOUS
  <2>1. alarms \in Seq(Nat) /\ Len(alarms) \in Nat
    <3>1. CASE alarms = <<>>
      BY <3>1
    <3>2. CASE alarms = <<3, 2, 1>>
      BY <3>2
    <3> QED
      BY <3>1, <3>2 DEF Alarms!Init
  <2> QED
    BY <2>1, FS_EmptySet DEF Alarms!Init, AlarmsInv, Alarms!MissedAtMostCleared
<1>2. AlarmsInv /\ [Alarms!Next]_(Alarms!vars) => AlarmsInv'
  <2> SUFFICES ASSUME AlarmsInv, [Alarms!Next]_(Alarms!vars) PROVE AlarmsInv'
    OBVIOUS
  <2>0. IsFiniteSet(AlarmsLost(pageNo)) /\ Cardinality(AlarmsLost(pageNo)) \in Nat
    BY FS_Subset, FS_CardinalityType DEF AlarmsInv, AlarmsLost
  <2>1. CASE Alarms!Raise
    <3>1. /\ alarms' = <<raised + 1>> \o alarms /\ raised' = raised + 1
          /\ UNCHANGED <<phase, pageNo, seenPages, hits, kept, atStart, cleared>>
      BY <2>1 DEF Alarms!Raise
    <3>2. /\ alarms' \in Seq(Nat) /\ Len(alarms') = Len(alarms) + 1
          /\ \A k \in 1..Len(alarms) : alarms'[k + 1] = alarms[k]
      BY <3>1 DEF AlarmsInv
    <3>3. Alarms!First(pageNo)' = Alarms!First(pageNo) /\ Alarms!First(pageNo) \in Nat
      BY <3>1, AlarmsFirst DEF Alarms!First, AlarmsInv
    <3>4. AlarmsAhead(pageNo) \subseteq AlarmsAhead(pageNo)'
      <4>1. ASSUME NEW k \in (Alarms!First(pageNo) + 1)..Len(alarms)
            PROVE  alarms[k] \in AlarmsAhead(pageNo)'
        <5>1. /\ k \in 1..Len(alarms)
              /\ k + 1 \in (Alarms!First(pageNo) + 1)..(Len(alarms) + 1)
          BY <3>3 DEF AlarmsInv
        <5>2. alarms'[k + 1] = alarms[k]
          BY <3>2, <5>1
        <5> QED
          BY <3>2, <3>3, <5>1, <5>2 DEF AlarmsAhead
      <4> QED
        BY <4>1 DEF AlarmsAhead
    <3>5. AlarmsLost(pageNo)' \subseteq AlarmsLost(pageNo)
      BY <3>1, <3>4 DEF AlarmsLost
    <3>6. /\ Cardinality(AlarmsLost(pageNo)') <= Cardinality(AlarmsLost(pageNo))
          /\ Cardinality(AlarmsLost(pageNo)') \in Nat
      BY <2>0, <3>5, FS_Subset, FS_CardinalityType
    <3>7. phase = "paging" => Cardinality(AlarmsLost(pageNo))' <= cleared
      BY <2>0, <3>6 DEF AlarmsInv
    <3> QED
      BY <3>1, <3>2, <3>3, <3>7 DEF AlarmsInv, Alarms!MissedAtMostCleared
  <2>2. CASE Alarms!Clear
    <3>1. PICK i \in DOMAIN alarms :
            alarms' = SubSeq(alarms, 1, i - 1) \o SubSeq(alarms, i + 1, Len(alarms))
      BY <2>2 DEF Alarms!Clear
    <3>2. /\ UNCHANGED <<raised, phase, pageNo, seenPages, hits, kept, atStart>>
          /\ cleared' = IF phase = "paging" THEN cleared + 1 ELSE cleared
      BY <2>2 DEF Alarms!Clear
    <3>3. PICK x : AlarmsLost(pageNo)' \subseteq AlarmsLost(pageNo) \cup {x}
      <4>1. \A n \in Nat \ {0} : \E x : AlarmsLost(n)' \subseteq AlarmsLost(n) \cup {x}
        BY <3>1, <3>2, AlarmsClearLosesOne
      <4>2. PICK n \in Nat \ {0} : n = pageNo
        BY DEF AlarmsInv
      <4>3. AlarmsLost(n)' = AlarmsLost(pageNo)'
        BY <3>2, <4>2 DEF AlarmsLost, AlarmsAhead, Alarms!First
      <4> QED
        BY <4>1, <4>2, <4>3
    <3>4. alarms' \in Seq(Nat)
      <4>1. 1 \in Nat \ {0}
        OBVIOUS
      <4> QED
        BY <3>1, <3>2, <4>1, AlarmsClearLosesOne
    <3>5. /\ IsFiniteSet(AlarmsLost(pageNo) \cup {x})
          /\ Cardinality(AlarmsLost(pageNo) \cup {x}) <= Cardinality(AlarmsLost(pageNo)) + 1
      BY <2>0, FS_AddElement
    <3>6. /\ Cardinality(AlarmsLost(pageNo)') <= Cardinality(AlarmsLost(pageNo) \cup {x})
          /\ IsFiniteSet(AlarmsLost(pageNo)')
      BY <3>3, <3>5, FS_Subset
    <3>7. Cardinality(AlarmsLost(pageNo)') \in Nat
          /\ Cardinality(AlarmsLost(pageNo) \cup {x}) \in Nat
      BY <3>5, <3>6, FS_CardinalityType
    <3>8. phase = "paging" => Cardinality(AlarmsLost(pageNo))' <= cleared + 1
      BY <2>0, <3>5, <3>6, <3>7 DEF AlarmsInv
    <3>9. Alarms!First(pageNo)' = Alarms!First(pageNo)
      BY <3>2 DEF Alarms!First
    <3> QED
      BY <3>2, <3>4, <3>8, <3>9 DEF AlarmsInv, Alarms!MissedAtMostCleared
  <2>3. CASE Alarms!StartAlarms
    <3>1. /\ pageNo' = 1 /\ hits' = 0 /\ kept' = {} /\ cleared' = 0
          /\ atStart' = Alarms!Entries(alarms) /\ phase' = "paging"
          /\ UNCHANGED <<alarms, raised>>
      BY <2>3 DEF Alarms!StartAlarms, Alarms!list
    <3>2. Alarms!First(pageNo)' = 0
      BY <3>1, AlarmsFirst DEF Alarms!First
    <3>3. Len(alarms) \in Nat
      BY DEF AlarmsInv
    <3>4. atStart' = {alarms[k] : k \in 1..Len(alarms)}
      BY <3>1 DEF AlarmsInv, Alarms!Entries
    <3>5. AlarmsLost(pageNo)' = {}
      BY <3>1, <3>2, <3>4 DEF AlarmsLost, AlarmsAhead
    <3>6. IsFiniteSet(atStart')
      <4>1. IsFiniteSet(1..Len(alarms))
        BY <3>3, FS_Interval
      <4>2. [k \in 1..Len(alarms) |-> alarms[k]] \in Surjection(1..Len(alarms), atStart')
        BY <3>4 DEF Surjection
      <4> QED
        BY <4>1, <4>2, FS_Surjection
    <3>7. Cardinality(AlarmsLost(pageNo))' = 0
      BY <3>5, FS_EmptySet
    <3> QED
      BY <3>1, <3>2, <3>6, <3>7 DEF AlarmsInv, Alarms!MissedAtMostCleared
  <2>4. CASE Alarms!DeviceFails
    BY <2>4 DEF Alarms!DeviceFails, AlarmsInv, Alarms!MissedAtMostCleared
  <2>5. CASE UNCHANGED Alarms!vars
    <3>1. /\ UNCHANGED <<alarms, raised, phase, pageNo, seenPages, hits, kept, atStart, cleared>>
      BY <2>5 DEF Alarms!vars
    <3>2. AlarmsLost(pageNo)' = AlarmsLost(pageNo)
          /\ Alarms!First(pageNo)' = Alarms!First(pageNo)
      BY <3>1 DEF AlarmsLost, AlarmsAhead, Alarms!First
    <3> QED
      BY <3>1, <3>2 DEF AlarmsInv, Alarms!MissedAtMostCleared
  <2> QED
    BY <2>1, <2>2, <2>3, <2>4, <2>5, AlarmsCollect DEF Alarms!Next
<1> QED
  BY <1>1, <1>2, AlarmsBehaves, PTL

(* A collection that is complete missed at most as many of the alarms that  *)
(* were there when it began as were cleared meanwhile, unless an answer     *)
(* that is no page ended it: for every page size, with any of the fields    *)
(* the cloud may leave out, and however many alarms came in.                *)
THEOREM AlarmsCorrect == Spec => []MissedAtMostCleared
<1>1. AlarmsInv => MissedAtMostCleared
  BY DEF AlarmsInv, MissedAtMostCleared
<1> QED
  BY <1>1, AlarmsInvariant, PTL

(* No more alarms are in the list, with those cleared since the collection  *)
(* began, than were raised: so neither number passes the bound.             *)
AlarmsTyped ==
    /\ Alarms!TypeOK
    /\ Len(alarms) <= raised
    /\ phase = "paging" => Len(alarms) + cleared <= raised

(* The lists of alarms are the sequences that are not too long.             *)
LEMMA AlarmsSeq ==
    /\ Alarms!AlarmSeq = {s \in Seq(Alarms!Alarm) : Len(s) <= MaxAlarm}
    /\ MaxAlarm \in Nat /\ MaxAlarm >= 3
<1>1. MaxAlarm \in Nat /\ MaxAlarm >= 3
  BY SourcesAssumption DEF Alarms!AlarmAssumption
<1>2. ASSUME NEW s \in Alarms!AlarmSeq
      PROVE  s \in Seq(Alarms!Alarm) /\ Len(s) <= MaxAlarm
  <2>1. PICK n \in 0..MaxAlarm : s \in [1..n -> Alarms!Alarm]
    BY DEF Alarms!AlarmSeq
  <2>2. n \in Nat /\ n <= MaxAlarm
    BY <1>1, <2>1
  <2> QED
    BY <2>1, <2>2
<1>3. ASSUME NEW s \in Seq(Alarms!Alarm), Len(s) <= MaxAlarm
      PROVE  s \in Alarms!AlarmSeq
  <2>1. Len(s) \in 0..MaxAlarm /\ s \in [1..Len(s) -> Alarms!Alarm]
    BY <1>1, <1>3
  <2> QED
    BY <2>1 DEF Alarms!AlarmSeq
<1> QED
  BY <1>1, <1>2, <1>3

LEMMA AlarmsTypedCollect ==
    ASSUME AlarmsInv, AlarmsTyped, Alarms!CollectPage
    PROVE  AlarmsTyped'
<1>0. PICK body \in Alarms!Body :
        LET p == Alarms!PageAnswer(pageNo, body)
            newHits == hits + Len(p.hits) IN
        /\ seenPages' = seenPages \cup {p}
        /\ hits' = newHits
        /\ kept' = kept \cup Alarms!Entries(p.hits)
        /\ IF Alarms!IsLastPage(p, pageNo, newHits)
           THEN phase' = "complete" /\ UNCHANGED pageNo
           ELSE pageNo' = pageNo + 1 /\ UNCHANGED phase
  BY Zenon DEF Alarms!CollectPage
<1> DEFINE p == Alarms!PageAnswer(pageNo, body)
           f == Alarms!First(pageNo)
<1>1. /\ phase = "paging" /\ pageNo <= MaxPages
      /\ hits' = hits + Len(p.hits)
      /\ kept' = kept \cup Alarms!Entries(p.hits)
      /\ seenPages' = seenPages \cup {p}
      /\ UNCHANGED <<alarms, raised, detail, atStart, cleared>>
      /\ \/ phase' = "complete" /\ pageNo' = pageNo
         \/ phase' = phase /\ pageNo' = pageNo + 1
  <2>1. /\ phase = "paging" /\ pageNo <= MaxPages
        /\ UNCHANGED <<alarms, raised, detail, atStart, cleared>>
    BY Zenon DEF Alarms!CollectPage
  <2>2. /\ hits' = hits + Len(p.hits)
        /\ kept' = kept \cup Alarms!Entries(p.hits)
        /\ seenPages' = seenPages \cup {p}
        /\ IF Alarms!IsLastPage(p, pageNo, hits + Len(p.hits))
           THEN phase' = "complete" /\ UNCHANGED pageNo
           ELSE pageNo' = pageNo + 1 /\ UNCHANGED phase
    BY Zenon, <1>0
  <2> QED
    BY Zenon, <2>1, <2>2
<1>2. /\ pageNo \in Nat \ {0} /\ hits = f /\ f \in Nat
      /\ PageSize \in Nat \ {0} /\ MaxPages \in Nat \ {0}
      /\ f + PageSize = pageNo * PageSize
  <2>1. pageNo \in Nat \ {0} /\ hits = f
    BY <1>1 DEF AlarmsInv
  <2>2. /\ f \in Nat /\ PageSize \in Nat \ {0}
        /\ f + PageSize = pageNo * PageSize
    BY Zenon, <2>1, AlarmsFirst
  <2>3. MaxPages \in Nat \ {0}
    BY SourcesAssumption DEF Alarms!AlarmAssumption
  <2> QED
    BY <2>1, <2>2, <2>3
<1>3. /\ Len(p.hits) \in 0..PageSize
      /\ Alarms!Entries(p.hits) \subseteq
            {alarms[k] : k \in {j \in (f + 1)..Len(alarms) : j <= f + PageSize}}
  <2>1. CASE body = "page"
    <3>1. p.hits = Alarms!Page(pageNo)
      BY <2>1 DEF Alarms!PageAnswer
    <3> QED
      BY <1>2, <3>1, AlarmsAnswer
  <2>2. CASE body # "page"
    <3>1. p.hits = <<>>
      BY <2>2 DEF Alarms!PageAnswer
    <3> QED
      BY <1>2, <3>1 DEF Alarms!Entries
  <2> QED
    BY <2>1, <2>2
<1> HIDE DEF p, f
<1>4. hits' \in 0..(MaxPages * PageSize)
  <2>1. \A a, b, c \in Nat : a <= b => a * c <= b * c /\ b * c \in Nat
    OBVIOUS
  <2>2. pageNo * PageSize <= MaxPages * PageSize /\ MaxPages * PageSize \in Nat
    BY <1>1, <1>2, <2>1
  <2> QED
    BY <1>1, <1>2, <1>3, <2>2
<1>5. kept' \subseteq Alarms!Alarm
  <2>1. alarms \in Seq(Alarms!Alarm) /\ kept \subseteq Alarms!Alarm
    BY AlarmsSeq DEF AlarmsTyped, Alarms!TypeOK
  <2>2. ASSUME NEW k \in (f + 1)..Len(alarms) PROVE alarms[k] \in Alarms!Alarm
    <3>1. k \in 1..Len(alarms)
      BY <1>2, <2>1
    <3> QED
      BY <2>1, <3>1
  <2> QED
    BY <1>1, <1>3, <2>1, <2>2
<1>6. \A q \in seenPages' : Len(q.hits) <= PageSize
  BY <1>1, <1>2, <1>3 DEF AlarmsTyped, Alarms!TypeOK
<1>7. pageNo' \in 1..(MaxPages + 1)
  BY <1>1, <1>2
<1>8. /\ alarms' \in Alarms!AlarmSeq /\ raised' \in 0..MaxAlarm
      /\ detail' \in Alarms!Detail /\ atStart' \subseteq Alarms!Alarm
      /\ cleared' \in 0..MaxAlarm /\ Len(alarms') <= raised'
      /\ Len(alarms') + cleared' <= raised'
      /\ phase' \in {"idle", "paging", "complete", "failed"}
  BY <1>1 DEF AlarmsTyped, Alarms!TypeOK
<1> QED
  BY <1>4, <1>5, <1>6, <1>7, <1>8 DEF AlarmsTyped, Alarms!TypeOK

(* The collection stays within the pages, the numbers within the bounds.    *)
THEOREM AlarmsTypeCorrect == Spec => []Alarms!TypeOK
<1>1. Alarms!Init => AlarmsTyped
  <2> SUFFICES ASSUME Alarms!Init PROVE AlarmsTyped
    OBVIOUS
  <2>1. /\ alarms \in Seq(Alarms!Alarm) /\ Len(alarms) \in 0..3
    <3>1. CASE alarms = <<>>
      BY <3>1
    <3>2. CASE alarms = <<3, 2, 1>>
      <4>1. 1 \in Alarms!Alarm /\ 2 \in Alarms!Alarm /\ 3 \in Alarms!Alarm
        BY AlarmsSeq DEF Alarms!Alarm
      <4> QED
        BY <3>2, <4>1
    <3> QED
      BY <3>1, <3>2 DEF Alarms!Init
  <2>2. alarms \in Alarms!AlarmSeq
    <3>1. Len(alarms) <= MaxAlarm
      <4>1. MaxAlarm \in Nat /\ MaxAlarm >= 3
        BY AlarmsSeq, Zenon
      <4>2. Len(alarms) \in 0..3
        BY <2>1, Zenon
      <4>3. \A n \in 0..3 : n <= MaxAlarm
        BY <4>1
      <4> QED
        BY <4>2, <4>3, Zenon
    <3>2. alarms \in {s \in Seq(Alarms!Alarm) : Len(s) <= MaxAlarm}
      BY <2>1, <3>1
    <3> QED
      BY <3>2, AlarmsSeq, Zenon
  <2>3. PageSize \in Nat \ {0} /\ MaxPages \in Nat \ {0}
    BY SourcesAssumption DEF Alarms!AlarmAssumption
  <2>4. 0 \in 0..(MaxPages * PageSize) /\ 1 \in 1..(MaxPages + 1)
    <3>1. \A a, b \in Nat : a * b \in Nat
      OBVIOUS
    <3>2. MaxPages * PageSize \in Nat
      BY <2>3, <3>1
    <3> QED
      BY <2>3, <3>2
  <2> QED
    BY <2>1, <2>2, <2>4, AlarmsSeq
    DEF Alarms!Init, AlarmsTyped, Alarms!TypeOK, Alarms!Detail
<1>2. AlarmsInv /\ AlarmsTyped /\ [Alarms!Next]_(Alarms!vars) => AlarmsTyped'
  <2> SUFFICES ASSUME AlarmsInv, AlarmsTyped, [Alarms!Next]_(Alarms!vars)
               PROVE  AlarmsTyped'
    OBVIOUS
  <2>0. /\ alarms \in Seq(Alarms!Alarm) /\ Len(alarms) <= MaxAlarm
        /\ Len(alarms) \in Nat /\ raised \in 0..MaxAlarm /\ cleared \in Nat
        /\ MaxAlarm \in Nat
    BY AlarmsSeq DEF AlarmsTyped, Alarms!TypeOK
  <2>1. CASE Alarms!Raise
    <3>1. /\ alarms' = <<raised + 1>> \o alarms /\ raised' = raised + 1
          /\ raised < MaxAlarm
          /\ UNCHANGED <<phase, detail, pageNo, seenPages, hits, kept, atStart,
                         cleared>>
      BY <2>1 DEF Alarms!Raise
    <3>2. <<raised + 1>> \in Seq(Alarms!Alarm)
      BY <2>0, <3>1 DEF Alarms!Alarm
    <3>3. alarms' \in Seq(Alarms!Alarm) /\ Len(alarms') = Len(alarms) + 1
      BY <2>0, <3>1, <3>2
    <3>4. /\ alarms' \in Alarms!AlarmSeq /\ raised' \in 0..MaxAlarm
          /\ Len(alarms') <= raised'
          /\ phase' = "paging" => Len(alarms') + cleared' <= raised'
      BY <2>0, <3>1, <3>3, AlarmsSeq DEF AlarmsTyped
    <3> QED
      BY <3>1, <3>4 DEF AlarmsTyped, Alarms!TypeOK
  <2>2. CASE Alarms!Clear
    <3>1. PICK i \in DOMAIN alarms :
            alarms' = SubSeq(alarms, 1, i - 1) \o SubSeq(alarms, i + 1, Len(alarms))
      BY <2>2 DEF Alarms!Clear
    <3>2. /\ UNCHANGED <<raised, phase, detail, pageNo, seenPages, hits, kept, atStart>>
          /\ cleared' = IF phase = "paging" THEN cleared + 1 ELSE cleared
      BY <2>2 DEF Alarms!Clear
    <3>3. i \in 1..Len(alarms)
      BY <2>0, <3>1
    <3>4. /\ SubSeq(alarms, 1, i - 1) \in Seq(Alarms!Alarm)
          /\ Len(SubSeq(alarms, 1, i - 1)) = i - 1
      <4>1. 1 \in Int /\ i - 1 \in Int
        BY <2>0, <3>3
      <4>2. \A k \in 1..(i - 1) : alarms[k] \in Alarms!Alarm
        BY <2>0, <3>3
      <4>3. /\ SubSeq(alarms, 1, i - 1) \in Seq(Alarms!Alarm)
            /\ Len(SubSeq(alarms, 1, i - 1))
                 = IF 1 <= i - 1 THEN (i - 1) - 1 + 1 ELSE 0
        BY <4>1, <4>2, SubSeqProperties
      <4> QED
        BY <2>0, <3>3, <4>3
    <3>5. /\ SubSeq(alarms, i + 1, Len(alarms)) \in Seq(Alarms!Alarm)
          /\ Len(SubSeq(alarms, i + 1, Len(alarms))) = Len(alarms) - i
      <4>1. i + 1 \in Int /\ Len(alarms) \in Int
        BY <2>0, <3>3
      <4>2. \A k \in (i + 1)..Len(alarms) : alarms[k] \in Alarms!Alarm
        BY <2>0, <3>3
      <4>3. /\ SubSeq(alarms, i + 1, Len(alarms)) \in Seq(Alarms!Alarm)
            /\ Len(SubSeq(alarms, i + 1, Len(alarms)))
                 = IF i + 1 <= Len(alarms) THEN Len(alarms) - (i + 1) + 1 ELSE 0
        BY <4>1, <4>2, SubSeqProperties
      <4> QED
        BY <2>0, <3>3, <4>3
    <3>6. alarms' \in Seq(Alarms!Alarm) /\ Len(alarms') = Len(alarms) - 1
      <4> DEFINE a == SubSeq(alarms, 1, i - 1)
                 b == SubSeq(alarms, i + 1, Len(alarms))
      <4> HIDE DEF a, b
      <4>1. a \in Seq(Alarms!Alarm) /\ Len(a) = i - 1
        BY <3>4 DEF a
      <4>2. b \in Seq(Alarms!Alarm) /\ Len(b) = Len(alarms) - i
        BY <3>5 DEF b
      <4>3. a \o b \in Seq(Alarms!Alarm) /\ Len(a \o b) = Len(a) + Len(b)
        BY <4>1, <4>2, ConcatProperties
      <4>4. alarms' = a \o b
        BY <3>1 DEF a, b
      <4>5. Len(a) + Len(b) = Len(alarms) - 1
        BY <2>0, <3>3, <4>1, <4>2
      <4> QED
        BY <4>3, <4>4, <4>5, Zenon
    <3>7. /\ alarms' \in Alarms!AlarmSeq /\ cleared' \in 0..MaxAlarm
          /\ Len(alarms') <= raised'
          /\ phase' = "paging" => Len(alarms') + cleared' <= raised'
      <4>1. Len(alarms') <= MaxAlarm /\ Len(alarms') \in Nat
        BY <2>0, <3>3, <3>6
      <4>2. alarms' \in Alarms!AlarmSeq
        BY <3>6, <4>1, AlarmsSeq
      <4>3. cleared \in 0..MaxAlarm
        BY DEF AlarmsTyped, Alarms!TypeOK
      <4> QED
        BY <2>0, <3>2, <3>6, <4>1, <4>2, <4>3 DEF AlarmsTyped
    <3> QED
      BY <3>2, <3>7 DEF AlarmsTyped, Alarms!TypeOK
  <2>3. CASE Alarms!StartAlarms
    <3>1. /\ pageNo' = 1 /\ seenPages' = {} /\ hits' = 0 /\ kept' = {}
          /\ cleared' = 0 /\ atStart' = Alarms!Entries(alarms)
          /\ phase' = "paging" /\ detail' \in Alarms!Detail
          /\ UNCHANGED <<alarms, raised>>
      BY <2>3 DEF Alarms!StartAlarms, Alarms!list
    <3>2. Alarms!Entries(alarms) \subseteq Alarms!Alarm
      BY <2>0 DEF Alarms!Entries
    <3>3. 0 \in 0..(MaxPages * PageSize) /\ 1 \in 1..(MaxPages + 1)
      <4>1. PageSize \in Nat \ {0} /\ MaxPages \in Nat \ {0}
        BY SourcesAssumption DEF Alarms!AlarmAssumption
      <4>2. \A a, b \in Nat : a * b \in Nat
        OBVIOUS
      <4>3. MaxPages * PageSize \in Nat
        BY <4>1, <4>2
      <4> QED
        BY <4>1, <4>3
    <3>4. 0 \in 0..MaxAlarm /\ Len(alarms) + 0 <= raised
      BY <2>0 DEF AlarmsTyped
    <3> QED
      BY <3>1, <3>2, <3>3, <3>4 DEF AlarmsTyped, Alarms!TypeOK
  <2>4. CASE Alarms!DeviceFails
    BY <2>4 DEF Alarms!DeviceFails, AlarmsTyped, Alarms!TypeOK
  <2>5. CASE UNCHANGED Alarms!vars
    BY <2>5 DEF Alarms!vars, AlarmsTyped, Alarms!TypeOK
  <2> QED
    BY <2>1, <2>2, <2>3, <2>4, <2>5, AlarmsTypedCollect DEF Alarms!Next
<1>3. AlarmsTyped => Alarms!TypeOK
  BY DEF AlarmsTyped
<1> QED
  BY <1>1, <1>2, <1>3, AlarmsInvariant, AlarmsBehaves, PTL

-----------------------------------------------------------------------------
(* The SwitchBot devices *)

NameRow ==
    [device : Device, name : Name, from : 0..LastList, to : 0..LastList,
     source : {"api", "household"}]

(* INSERT OR IGNORE adds the row or leaves the table as it is.              *)
LEMMA DevicesWithName ==
    ASSUME NEW N \in SUBSET NameRow, NEW row \in NameRow
    PROVE  /\ Devices!WithName(N, row) \in SUBSET NameRow
           /\ Devices!WithName(N, row) \in {N, N \cup {row}}
  BY DEF Devices!WithName

(* What becomes of a row when the open names of a device are closed.        *)
DevicesClosed(d, r) ==
    IF r.device = d /\ r.to = 0 THEN [r EXCEPT !.to = seenAt] ELSE r

LEMMA DevicesClosedRow ==
    ASSUME seenAt \in 0..LastList, NEW d, NEW r \in NameRow
    PROVE  /\ DevicesClosed(d, r) \in NameRow
           /\ DevicesClosed(d, r).device = r.device
           /\ DevicesClosed(d, r).name = r.name
           /\ DevicesClosed(d, r).from = r.from
           /\ DevicesClosed(d, r).source = r.source
           /\ DevicesClosed(d, r).to = IF r.device = d /\ r.to = 0 THEN seenAt ELSE r.to
  BY DEF DevicesClosed, NameRow

LEMMA DevicesClosedNames ==
    ASSUME Devices!TypeOK, NEW d, NEW n
    PROVE  /\ Devices!ClosedNames(d, n) \in SUBSET NameRow
           /\ Devices!Known(d) /\ devices[d].name # n =>
                Devices!ClosedNames(d, n) = {DevicesClosed(d, r) : r \in names}
           /\ ~(Devices!Known(d) /\ devices[d].name # n) =>
                Devices!ClosedNames(d, n) = names
<1>1. names \in SUBSET NameRow /\ seenAt \in 0..LastList
  BY DEF Devices!TypeOK, NameRow
<1>2. {DevicesClosed(d, r) : r \in names} \in SUBSET NameRow
  BY <1>1, DevicesClosedRow
<1>3. Devices!Known(d) /\ devices[d].name # n =>
        Devices!ClosedNames(d, n) = {DevicesClosed(d, r) : r \in names}
  BY DEF Devices!ClosedNames, DevicesClosed, Devices!Open
<1>4. ~(Devices!Known(d) /\ devices[d].name # n) => Devices!ClosedNames(d, n) = names
  BY DEF Devices!ClosedNames
<1> QED
  BY <1>1, <1>2, <1>3, <1>4

(* A list in the works was made at a time of the clock.                     *)
DevicesTyped ==
    /\ Devices!TypeOK
    /\ stage # "idle" => seenAt \in 1..LastList

LEMMA DevicesTypedStep ==
    ASSUME DevicesTyped, [Devices!Next]_(Devices!vars)
    PROVE  DevicesTyped'
<1> USE SourcesAssumption DEF Devices!HouseholdAssumption
<1> USE DEF DevicesTyped, Devices!TypeOK
<1>1. CASE Devices!SetEnabled
  <2>1. PICK d \in Device, on \in BOOLEAN :
          /\ Devices!Known(d) /\ devices' = [devices EXCEPT ![d].enabled = on]
    BY <1>1 DEF Devices!SetEnabled
  <2>2. devices'[d] \in [name : Name, status : {"present", "missing"}, enabled : BOOLEAN]
    BY <2>1 DEF Devices!Known
  <2> QED
    BY <1>1, <2>1, <2>2 DEF Devices!SetEnabled, Devices!process
<1>2. CASE Devices!DeviceList
  BY <1>2 DEF Devices!DeviceList, Devices!ReadClock, Devices!db
<1>3. CASE Devices!UpsertDevice
  <2>1. PICK l \in listing :
          /\ names' = IF Devices!OpensName(l.device, l.name)
                      THEN Devices!WithName(Devices!ClosedNames(l.device, l.name),
                             [device |-> l.device, name |-> l.name, from |-> seenAt,
                              to |-> 0, source |-> "api"])
                      ELSE Devices!ClosedNames(l.device, l.name)
          /\ devices' = [devices EXCEPT ![l.device] =
                           [name |-> l.name, status |-> "present",
                            enabled |-> IF Devices!Known(l.device) THEN @.enabled ELSE TRUE]]
          /\ listing' = listing \ {l}
          /\ UNCHANGED <<clock, observed, events, stage, collects, listed, answered, seenAt>>
    BY <1>3 DEF Devices!UpsertDevice, Devices!Open
  <2>2. l \in [device : Device, name : Name]
    BY DEF Devices!Listing
  <2>3. [device |-> l.device, name |-> l.name, from |-> seenAt,
         to |-> 0, source |-> "api"] \in NameRow
    BY <2>2 DEF NameRow
  <2>4. names' \in SUBSET NameRow
    BY <2>1, <2>3, DevicesClosedNames, DevicesWithName
  <2>5. devices' \in [Device -> [name : Name, status : {"present", "missing"},
                             enabled : BOOLEAN] \cup {Devices!Unknown}]
    BY <2>1, <2>2 DEF Devices!Known
  <2>6. listing' \in Devices!Listing
    BY <2>1 DEF Devices!Listing
  <2> QED
    BY <2>1, <2>4, <2>5, <2>6 DEF NameRow
<1>4. CASE Devices!Reconcile
  <2>1. \A d \in Device : devices[d].enabled => devices[d] # Devices!Unknown
    BY DEF Devices!Unknown
  <2>2. \A d \in Device : devices[d].enabled =>
          [devices[d] EXCEPT !.status = "missing"]
            \in [name : Name, status : {"present", "missing"}, enabled : BOOLEAN]
    BY <2>1
  <2> QED
    BY <1>4, <2>2 DEF Devices!Reconcile
<1>5. CASE Devices!EnsureHistory
  <2>1. PICK h \in Household : names' = Devices!WithName(names, h)
    BY <1>5 DEF Devices!EnsureHistory
  <2>2. h \in NameRow /\ names \in SUBSET NameRow
    BY DEF NameRow
  <2>3. names' \in SUBSET NameRow
    BY <2>1, <2>2, DevicesWithName
  <2> QED
    BY <1>5, <2>3 DEF Devices!EnsureHistory, Devices!process, NameRow
<1>6. CASE Devices!EndRefresh
  BY <1>6 DEF Devices!EndRefresh, Devices!ReadClock, Devices!db
<1>7. CASE Devices!StoreStatus
  BY <1>7 DEF Devices!StoreStatus, Devices!process, Devices!Listing, Devices!Time
<1>8. CASE Devices!RecordEvent
  <2>0. seenAt \in Devices!Time
    BY <1>8 DEF Devices!RecordEvent, Devices!Time
  <2>1. \A d \in Device, b \in BOOLEAN :
          Devices!Event(d, b) \in [device : Device, at : Devices!Time, success : BOOLEAN]
    BY <2>0 DEF Devices!Event
  <2>2. \A l \in listing : l.device \in Device
    BY DEF Devices!Listing
  <2>3. PICK d \in Device, b \in BOOLEAN : events' = events \cup {Devices!Event(d, b)}
    BY <1>8, <2>2 DEF Devices!RecordEvent
  <2>4. events' \subseteq [device : Device, at : Devices!Time, success : BOOLEAN]
    BY <2>1, <2>3
  <2>5. listing' \in Devices!Listing /\ answered' \subseteq Device
    BY <1>8 DEF Devices!RecordEvent, Devices!Listing
  <2> QED
    BY <1>8, <2>4, <2>5 DEF Devices!RecordEvent
<1>9. CASE Devices!EndCollect
  BY <1>9 DEF Devices!EndCollect, Devices!db
<1>10. CASE Devices!CollectDies
  BY <1>10 DEF Devices!CollectDies, Devices!db, Devices!Listing
<1>11. CASE UNCHANGED Devices!vars
  BY <1>11 DEF Devices!vars
<1> QED
  BY <1>1, <1>2, <1>3, <1>4, <1>5, <1>6, <1>7, <1>8, <1>9, <1>10, <1>11
  DEF Devices!Next

LEMMA DevicesTypedInit == Devices!Init => DevicesTyped
<1> SUFFICES ASSUME Devices!Init PROVE DevicesTyped
  OBVIOUS
<1> USE SourcesAssumption DEF Devices!HouseholdAssumption
<1>1. devices \in [Device -> [name : Name, status : {"present", "missing"},
                             enabled : BOOLEAN] \cup {Devices!Unknown}]
  BY DEF Devices!Init
<1>2. /\ clock = 0 /\ names = {} /\ observed = {} /\ events = {} /\ stage = "idle"
      /\ collects = FALSE /\ listing = {} /\ listed = {} /\ answered = {} /\ seenAt = 0
  BY DEF Devices!Init
<1>3. 0 \in 0..LastList
  OBVIOUS
<1>4. {} \in Devices!Listing
  BY Zenon DEF Devices!Listing
<1> QED
  BY <1>1, <1>2, <1>3, <1>4 DEF DevicesTyped, Devices!TypeOK

LEMMA DevicesTypedCorrect == Spec => []DevicesTyped
<1>2. DevicesTyped /\ [Devices!Next]_(Devices!vars) => DevicesTyped'
  BY DevicesTypedStep
<1> QED
  BY <1>2, DevicesTypedInit, DevicesBehaves, PTL

(* The tables of devices and names keep their types, whatever is listed,    *)
(* renamed, enabled or killed.                                              *)
THEOREM DevicesTypeCorrect == Spec => []Devices!TypeOK
<1>1. DevicesTyped => Devices!TypeOK
  BY DEF DevicesTyped
<1> QED
  BY <1>1, DevicesTypedCorrect, PTL

(* The names the cloud gave a device follow each other, the last one open;  *)
(* a device that is not in the table has none.                              *)
DevicesNamed(d) ==
    IF Devices!Known(d)
    THEN /\ \E r \in Devices!ApiNames(d) : r.to = 0
         /\ \A r \in Devices!ApiNames(d) : r.to = 0 => r.name = devices[d].name
         /\ \A r \in Devices!ApiNames(d) : r.to # 0 =>
              /\ r.from < r.to
              /\ \E s \in Devices!ApiNames(d) : s.from = r.to
         /\ \A r, s \in Devices!ApiNames(d) : r.from < s.from =>
              r.to # 0 /\ r.to <= s.from
    ELSE Devices!ApiNames(d) = {}

(* And none of a device still in the list is from this list's time; what     *)
(* waits for its event is stored.                                           *)
DevicesInv ==
    /\ DevicesTyped
    /\ seenAt = clock
    /\ \A r \in names : r.source = "api" => r.from >= 1 /\ r.from <= clock /\ r.to <= clock
    /\ \A r \in names : r.source # "api" => r.from = 0
    /\ \A d \in Device : DevicesNamed(d)
    /\ stage = "upsert" =>
         \A l \in listing : \A r \in Devices!ApiNames(l.device) : r.from < seenAt
    /\ stage = "upsert" => \A k, l \in listing : k.device = l.device => k = l
    /\ \A e \in events : e.success => [device |-> e.device, at |-> e.at] \in observed
    /\ \A d \in answered : stage = "collect" /\ [device |-> d, at |-> seenAt] \in observed

(* Only the cloud's names and the names in the table of devices count.      *)
LEMMA DevicesSameNames ==
    ASSUME \A d \in Device : DevicesNamed(d),
           \A d \in Device : Devices!ApiNames(d)' = Devices!ApiNames(d),
           \A d \in Device : Devices!Known(d)' = Devices!Known(d),
           \A d \in Device : Devices!Known(d) => devices'[d].name = devices[d].name
    PROVE  \A d \in Device : DevicesNamed(d)'
<1> SUFFICES ASSUME NEW d \in Device PROVE DevicesNamed(d)'
  OBVIOUS
<1>1. Devices!ApiNames(d)' = Devices!ApiNames(d) /\ Devices!Known(d)' = Devices!Known(d)
  OBVIOUS
<1>2. CASE Devices!Known(d)
  BY <1>1, <1>2 DEF DevicesNamed
<1>3. CASE ~Devices!Known(d)
  BY <1>1, <1>3 DEF DevicesNamed
<1> QED
  BY <1>2, <1>3

(* UpsertDevice keeps the names of the device in order.                     *)
LEMMA DevicesUpsert ==
    ASSUME DevicesInv, Devices!UpsertDevice
    PROVE  DevicesInv'
<1> USE SourcesAssumption DEF Devices!HouseholdAssumption
<1>1. PICK l \in listing :
        /\ names' = IF Devices!OpensName(l.device, l.name)
                    THEN Devices!WithName(Devices!ClosedNames(l.device, l.name),
                           [device |-> l.device, name |-> l.name, from |-> seenAt,
                            to |-> 0, source |-> "api"])
                    ELSE Devices!ClosedNames(l.device, l.name)
        /\ devices' = [devices EXCEPT ![l.device] =
                         [name |-> l.name, status |-> "present",
                          enabled |-> IF Devices!Known(l.device) THEN @.enabled ELSE TRUE]]
        /\ listing' = listing \ {l}
        /\ UNCHANGED <<clock, observed, events, stage, collects, listed, answered, seenAt>>
  BY DEF Devices!UpsertDevice, Devices!Open
<1> DEFINE d == l.device
           n == l.name
           row == [device |-> d, name |-> n, from |-> seenAt, to |-> 0, source |-> "api"]
<1>2. /\ stage = "upsert" /\ seenAt \in 1..LastList /\ seenAt = clock
      /\ l \in [device : Device, name : Name] /\ d \in Device /\ n \in Name
      /\ names \in SUBSET NameRow
  BY DEF Devices!UpsertDevice, DevicesInv, DevicesTyped, Devices!TypeOK,
     Devices!Listing, NameRow
<1>3. DevicesTyped'
  BY DevicesTypedStep DEF DevicesInv, Devices!Next
<1>4. /\ row \in NameRow /\ row.device = d /\ row.name = n /\ row.from = seenAt
      /\ row.to = 0 /\ row.source = "api"
  BY <1>2 DEF NameRow
<1>5. Devices!Known(d)' /\ devices'[d].name = n
  BY <1>1, <1>2 DEF Devices!Known, Devices!Unknown, DevicesInv, DevicesTyped, Devices!TypeOK
<1>6. \A e \in Device : e # d => devices'[e] = devices[e]
  BY <1>1 DEF DevicesInv, DevicesTyped, Devices!TypeOK
<1> HIDE DEF row, d, n
<1>7. \A r \in names : r.device = d /\ r.source = "api" => r.from < seenAt
  BY <1>2 DEF DevicesInv, Devices!ApiNames, d
<1>8. \A r \in names : r.source # "api" => r.from = 0
  BY DEF DevicesInv
<1>9. \A r \in names : r.device = d => r.from # seenAt
  BY <1>2, <1>7, <1>8 DEF NameRow
<1>10. /\ \A x \in names' : x = row \/ \E r \in names :
             /\ x.device = r.device /\ x.from = r.from /\ x.source = r.source
             /\ r.device # d => x = r
             /\ x.to = r.to \/ x.to = seenAt
       /\ \A r \in names : r.device # d => r \in names'
       /\ DevicesNamed(d)'
  <2>1. CASE ~Devices!Known(d)
    <3>1. names' = Devices!WithName(names, row)
      BY <1>1, <2>1, DevicesClosedNames
      DEF Devices!OpensName, d, n, row, DevicesInv, DevicesTyped
    <3>2. names' = names \cup {row}
      BY <1>4, <1>9, <3>1 DEF Devices!WithName
    <3>3. Devices!ApiNames(d) = {}
      BY <1>2, <2>1 DEF DevicesInv, DevicesNamed
    <3>4. Devices!ApiNames(d)' = {row}
      BY <1>4, <3>2, <3>3 DEF Devices!ApiNames
    <3> DEFINE new == Devices!ApiNames(d)'
    <3> HIDE DEF new
    <3>5. /\ \E r \in new : r.to = 0
          /\ \A r \in new : r.to = 0 => r.name = devices'[d].name
          /\ \A r \in new : r.to # 0 => r.from < r.to /\ \E s \in new : s.from = r.to
          /\ \A r, s \in new : r.from < s.from => r.to # 0 /\ r.to <= s.from
      <4>1. new = {row} /\ seenAt \in Nat
        BY <1>2, <3>4 DEF new
      <4> QED
        BY <1>4, <1>5, <4>1
    <3>6. DevicesNamed(d)'
      BY <1>5, <3>5, Zenon DEF DevicesNamed, new
    <3> QED
      BY <3>2, <3>6
  <2>2. CASE Devices!Known(d) /\ devices[d].name = n
    <3>1. names' = names
      BY <1>1, <2>2, DevicesClosedNames
      DEF Devices!OpensName, d, n, DevicesInv, DevicesTyped
    <3>2. Devices!ApiNames(d)' = Devices!ApiNames(d)
      BY <3>1 DEF Devices!ApiNames
    <3>3. DevicesNamed(d)
      BY <1>2 DEF DevicesInv
    <3>4. DevicesNamed(d)'
      BY <1>5, <2>2, <3>2, <3>3 DEF DevicesNamed
    <3> QED
      BY <3>1, <3>4
  <2>3. CASE Devices!Known(d) /\ devices[d].name # n
    <3> DEFINE C == {DevicesClosed(d, r) : r \in names}
    <3>1. Devices!ClosedNames(d, n) = C
      BY <2>3, DevicesClosedNames DEF DevicesInv, DevicesTyped
    <3>2. \A r \in names :
            /\ DevicesClosed(d, r).device = r.device
            /\ DevicesClosed(d, r).from = r.from
            /\ DevicesClosed(d, r).source = r.source
            /\ DevicesClosed(d, r).to = IF r.device = d /\ r.to = 0 THEN seenAt ELSE r.to
      BY <1>2, DevicesClosedRow
    <3>3. \A r \in names : r.device # d => DevicesClosed(d, r) = r
      BY DEF DevicesClosed
    <3>4. names' = Devices!WithName(C, row)
      BY <1>1, <2>3, <3>1 DEF Devices!OpensName, d, n, row
    <3> HIDE DEF C
    <3>5. /\ \A x \in C : \E r \in names : x = DevicesClosed(d, r)
          /\ \A r \in names : DevicesClosed(d, r) \in C
      BY DEF C
    <3>6. \A x \in C : x.device = d => x.from # seenAt
      BY <1>9, <3>2, <3>5
    <3>7. names' = C \cup {row}
      BY <1>4, <3>4, <3>6 DEF Devices!WithName
    <3>8. /\ \A x \in names' : x = row \/ \E r \in names : x = DevicesClosed(d, r)
          /\ \A r \in names : DevicesClosed(d, r) \in names'
          /\ row \in names'
      BY <3>5, <3>7
    <3>9. ASSUME NEW x \in names', x # row
          PROVE  \E r \in names :
                   /\ x.device = r.device /\ x.from = r.from /\ x.source = r.source
                   /\ r.device # d => x = r
                   /\ x.to = r.to \/ x.to = seenAt
      <4>1. PICK r \in names : x = DevicesClosed(d, r)
        BY <3>8, <3>9
      <4> QED
        BY <3>2, <3>3, <4>1
    <3>10. \A r \in names : r.device # d => r \in names'
      BY <3>3, <3>8
    <3> DEFINE api == Devices!ApiNames(d)
               new == Devices!ApiNames(d)'
    <3>11. /\ \A r \in api : r \in names /\ r.device = d /\ r.source = "api"
           /\ \A r \in names : r.device = d /\ r.source = "api" => r \in api
      BY DEF Devices!ApiNames
    <3>12. /\ \A r \in new : r \in names' /\ r.device = d /\ r.source = "api"
           /\ \A r \in names' : r.device = d /\ r.source = "api" => r \in new
      BY DEF Devices!ApiNames
    <3>13. /\ \E r \in api : r.to = 0
           /\ \A r \in api : r.to # 0 => r.from < r.to /\ \E s \in api : s.from = r.to
           /\ \A r, s \in api : r.from < s.from => r.to # 0 /\ r.to <= s.from
      BY <1>2, <2>3, Zenon DEF DevicesInv, DevicesNamed
    <3> HIDE DEF api, new
    <3>14. \A r \in api : r.from \in 1..(seenAt - 1) /\ r.to \in 0..seenAt
      <4>1. \A r \in names : r.source = "api" => r.from >= 1 /\ r.to <= clock
        BY DEF DevicesInv
      <4>2. \A r \in names : r.from \in Nat /\ r.to \in Nat
        BY <1>2 DEF NameRow
      <4> QED
        BY <1>2, <1>7, <3>11, <4>1, <4>2
    <3>15. row \in new
      BY <1>4, <3>8, <3>12
    <3>16. \A x \in new : x = row \/ \E r \in api :
             x.from = r.from /\ (r.to = 0 => x.to = seenAt) /\ (r.to # 0 => x.to = r.to)
      BY <3>2, <3>8, <3>11, <3>12
    <3>17. \A r \in api : \E x \in new : x.from = r.from
      BY <3>2, <3>8, <3>11, <3>12
    <3>18. seenAt \in Nat \ {0}
      BY <1>2
    <3>19. /\ \E r \in new : r.to = 0
           /\ \A r \in new : r.to = 0 => r = row
           /\ \A r \in new : r.to # 0 => r.from < r.to /\ \E s \in new : s.from = r.to
           /\ \A r, s \in new : r.from < s.from => r.to # 0 /\ r.to <= s.from
      <4>0. row.from = seenAt /\ row.to = 0 /\ seenAt \in Nat \ {0}
        BY <1>4, <3>18
      <4>1. row \in new /\ \A r \in new : r = row \/ \E x \in api :
              r.from = x.from /\ (x.to = 0 => r.to = seenAt) /\ (x.to # 0 => r.to = x.to)
        BY <3>15, <3>16, <3>17
      <4>2. \A r \in new : r.to = 0 => r = row
        BY <4>0, <4>1
      <4>3. ASSUME NEW r \in new, r.to # 0
            PROVE  r.from < r.to /\ \E s \in new : s.from = r.to
        <5>1. PICK x \in api : r.from = x.from /\ (x.to = 0 => r.to = seenAt)
                            /\ (x.to # 0 => r.to = x.to)
          BY <4>0, <4>1, <4>3
        <5>2. CASE x.to = 0
          <6>1. r.to = seenAt /\ r.from = x.from /\ x.from < seenAt
            BY <3>14, <4>0, <5>1, <5>2
          <6> QED
            BY <3>14, <4>0, <5>2, <4>1, <6>1
        <5>3. CASE x.to # 0
          <6>1. r.to = x.to /\ r.from = x.from
            BY <5>1, <5>3
          <6>2. PICK y \in api : y.from = x.to
            BY <3>13, <5>3
          <6>3. \E s \in new : s.from = y.from
            BY <3>15, <3>16, <3>17
          <6> QED
            BY <3>13, <5>3, <6>1, <6>2, <6>3
        <5> QED
          BY <5>2, <5>3
      <4>4. ASSUME NEW r \in new, NEW s \in new, r.from < s.from
            PROVE  r.to # 0 /\ r.to <= s.from
        <5>1. CASE r = row
          <6>1. s = row \/ (s.from \in Nat /\ s.from < seenAt)
            BY <3>14, <4>0, <4>1
          <6> QED
            BY <4>0, <4>4, <5>1, <6>1
        <5>2. CASE r # row
          <6>2. PICK x \in api : r.from = x.from /\ (x.to = 0 => r.to = seenAt)
                              /\ (x.to # 0 => r.to = x.to)
            BY <4>1, <5>2
          <6>3. CASE s = row
            BY <3>14, <4>0, <6>2, <6>3
          <6>4. CASE s # row
            <7>1. PICK y \in api : s.from = y.from
              BY <4>1, <6>4
            <7>2. x.from < y.from
              BY <4>4, <6>2, <7>1
            <7>3. x.to # 0 /\ x.to <= y.from
              BY <3>13, <7>2
            <7> QED
              BY <6>2, <7>1, <7>3
          <6> QED
            BY <6>3, <6>4
        <5> QED
          BY <5>1, <5>2
      <4> QED
        BY <4>0, <4>1, <4>2, <4>3, <4>4
    <3>20. \A r \in new : r.to = 0 => r.name = devices'[d].name
      BY <1>4, <1>5, <3>19
    <3>21. DevicesNamed(d)'
      BY <1>5, <3>19, <3>20, Zenon DEF DevicesNamed, new
    <3> QED
      BY <3>9, <3>10, <3>21
  <2> QED
    BY <2>1, <2>2, <2>3
<1>11. \A e \in Device : e # d => Devices!ApiNames(e)' = Devices!ApiNames(e)
  BY <1>4, <1>10 DEF Devices!ApiNames
<1>12. \A e \in Device : DevicesNamed(e)'
  <2> SUFFICES ASSUME NEW e \in Device, e # d PROVE DevicesNamed(e)'
    BY <1>10
  <2>1. DevicesNamed(e)
    BY DEF DevicesInv
  <2>2. Devices!ApiNames(e)' = Devices!ApiNames(e) /\ devices'[e] = devices[e]
    BY <1>6, <1>11
  <2>3. Devices!Known(e)' = Devices!Known(e)
    BY <2>2 DEF Devices!Known, Devices!Unknown
  <2> QED
    BY <2>1, <2>2, <2>3 DEF DevicesNamed
<1>13. ASSUME NEW x \in names'
       PROVE  /\ x.source = "api" => x.from >= 1 /\ x.from <= clock /\ x.to <= clock
              /\ x.source # "api" => x.from = 0
  <2>1. CASE x = row
    BY <1>2, <1>4, <2>1
  <2>2. CASE x # row
    <3>1. PICK r \in names : /\ x.from = r.from /\ x.source = r.source
                             /\ x.to = r.to \/ x.to = seenAt
      BY <1>10, <2>2
    <3> QED
      BY <1>2, <3>1 DEF DevicesInv
  <2> QED
    BY <2>1, <2>2
<1>14. ASSUME NEW k \in listing'
       PROVE  \A r \in Devices!ApiNames(k.device)' : r.from < seenAt
  <2>1. k \in listing /\ k # l
    BY <1>1
  <2>2. k.device \in Device /\ k.device # d
    BY <1>2, <2>1 DEF DevicesInv, DevicesTyped, Devices!TypeOK, Devices!Listing, d
  <2>3. Devices!ApiNames(k.device)' = Devices!ApiNames(k.device)
    BY <1>11, <2>2
  <2> QED
    BY <1>2, <2>1, <2>3 DEF DevicesInv
<1> QED
  BY <1>1, <1>2, <1>3, <1>12, <1>13, <1>14 DEF DevicesInv

LEMMA DevicesInvCorrect == Spec => []DevicesInv
<1> USE SourcesAssumption DEF Devices!HouseholdAssumption
<1>1. Devices!Init => DevicesInv
  <2> SUFFICES ASSUME Devices!Init PROVE DevicesInv
    OBVIOUS
  <2>1. DevicesTyped
    BY DevicesTypedInit
  <2>2. \A d \in Device : ~Devices!Known(d) /\ Devices!ApiNames(d) = {}
    BY DEF Devices!Init, Devices!Known, Devices!ApiNames
  <2> QED
    BY <2>1, <2>2 DEF DevicesInv, DevicesNamed, Devices!Init
<1>2. DevicesInv /\ [Devices!Next]_(Devices!vars) => DevicesInv'
  <2> SUFFICES ASSUME DevicesInv, [Devices!Next]_(Devices!vars)
               PROVE  DevicesInv'
    OBVIOUS
  <2>a. DevicesTyped'
    BY DevicesTypedStep DEF DevicesInv
  <2>b. /\ clock \in Nat /\ clock = seenAt
        /\ devices \in [Device -> [name : Name, status : {"present", "missing"},
                                   enabled : BOOLEAN] \cup {Devices!Unknown}]
        /\ names \in SUBSET NameRow
    BY DEF DevicesInv, DevicesTyped, Devices!TypeOK, NameRow
  <2>c. ASSUME names' = names, devices' = devices
        PROVE  \A d \in Device : DevicesNamed(d)'
    <3>1. \A d \in Device : /\ Devices!ApiNames(d)' = Devices!ApiNames(d)
                            /\ Devices!Known(d)' = Devices!Known(d)
                            /\ devices'[d].name = devices[d].name
      BY <2>c DEF Devices!ApiNames, Devices!Known, Devices!Unknown
    <3> QED
      BY <3>1, DevicesSameNames DEF DevicesInv
  <2>1. CASE Devices!SetEnabled
    <3>1. PICK d \in Device, on \in BOOLEAN :
            /\ Devices!Known(d) /\ devices' = [devices EXCEPT ![d].enabled = on]
      BY <2>1 DEF Devices!SetEnabled
    <3>2. devices[d] \in [name : Name, status : {"present", "missing"}, enabled : BOOLEAN]
      BY <2>b, <3>1 DEF Devices!Known
    <3>3. /\ devices'[d].name = devices[d].name
          /\ devices'[d].status \in {"present", "missing"}
          /\ \A e \in Device : e # d => devices'[e] = devices[e]
      BY <2>b, <3>1, <3>2
    <3>4. UNCHANGED <<clock, names, observed, events, stage, collects, listing, listed, answered, seenAt>>
      BY <2>1 DEF Devices!SetEnabled, Devices!process
    <3>5. \A e \in Device : /\ Devices!Known(e)' = Devices!Known(e)
                            /\ devices'[e].name = devices[e].name
      BY <3>1, <3>3 DEF Devices!Known, Devices!Unknown
    <3>6. \A e \in Device : Devices!ApiNames(e)' = Devices!ApiNames(e)
      BY <3>4 DEF Devices!ApiNames
    <3>7. \A e \in Device : DevicesNamed(e)'
      BY <3>5, <3>6, DevicesSameNames DEF DevicesInv
    <3> QED
      BY <2>a, <3>4, <3>7 DEF DevicesInv, Devices!ApiNames
  <2>2. CASE Devices!DeviceList
    <3>1. /\ clock' = clock + 1 /\ seenAt' = clock + 1
          /\ \A k, l \in listed' : k.device = l.device => k = l
          /\ listing' = listed' /\ stage = "idle"
          /\ UNCHANGED <<devices, names, observed, events, answered>>
      BY <2>2 DEF Devices!DeviceList, Devices!ReadClock, Devices!db
    <3>2. \A r \in names : r.from \in Nat /\ r.to \in Nat
      BY <2>b DEF NameRow
    <3>3. \A r \in names' : r.source = "api" => r.from >= 1 /\ r.from <= clock' /\ r.to <= clock'
      BY <2>b, <3>1, <3>2 DEF DevicesInv
    <3>4. \A l \in listing' : \A r \in Devices!ApiNames(l.device)' : r.from < seenAt'
      BY <2>b, <3>1, <3>2 DEF DevicesInv, Devices!ApiNames
    <3> QED
      BY <2>a, <2>c, <3>1, <3>3, <3>4 DEF DevicesInv
  <2>3. CASE Devices!UpsertDevice
    BY <2>3, DevicesUpsert
  <2>4. CASE Devices!Reconcile
    <3>1. \A d \in Device :
            /\ Devices!Known(d)' = Devices!Known(d)
            /\ devices'[d].name = devices[d].name
      <4> SUFFICES ASSUME NEW d \in Device
                   PROVE  /\ Devices!Known(d)' = Devices!Known(d)
                          /\ devices'[d].name = devices[d].name
        OBVIOUS
      <4>1. CASE devices[d].enabled /\ \A l \in listed : l.device # d
        <5>1. /\ devices[d] \in [name : Name, status : {"present", "missing"},
                                 enabled : BOOLEAN]
              /\ devices'[d] = [devices[d] EXCEPT !.status = "missing"]
          BY <2>b, <2>4, <4>1 DEF Devices!Reconcile, Devices!Unknown
        <5>2. devices'[d].name = devices[d].name /\ devices'[d].status = "missing"
              /\ devices[d].status \in {"present", "missing"}
          BY <5>1
        <5> QED
          BY <5>2 DEF Devices!Known, Devices!Unknown
      <4>2. CASE ~(devices[d].enabled /\ \A l \in listed : l.device # d)
        <5>1. devices'[d] = devices[d]
          BY <2>4, <4>2 DEF Devices!Reconcile
        <5> QED
          BY <5>1 DEF Devices!Known, Devices!Unknown
      <4> QED
        BY <4>1, <4>2
    <3>2. /\ UNCHANGED <<clock, names, observed, events, listing, answered, seenAt>>
          /\ stage' = "history" /\ stage = "upsert"
      BY <2>4 DEF Devices!Reconcile
    <3>3. \A e \in Device : Devices!ApiNames(e)' = Devices!ApiNames(e)
      BY <3>2 DEF Devices!ApiNames
    <3>4. \A e \in Device : DevicesNamed(e)'
      BY <3>1, <3>3, DevicesSameNames DEF DevicesInv
    <3> QED
      BY <2>a, <3>2, <3>4 DEF DevicesInv
  <2>5. CASE Devices!EnsureHistory
    <3>1. PICK h \in Household : names' = Devices!WithName(names, h)
      BY <2>5 DEF Devices!EnsureHistory
    <3>2. h \in NameRow /\ h.source = "household" /\ h.from = 0
      BY DEF NameRow
    <3>3. names' \in {names, names \cup {h}}
      BY <2>b, <3>1, <3>2, DevicesWithName
    <3>4. /\ UNCHANGED <<clock, devices, observed, events, listing, answered, seenAt>>
          /\ stage' = "history" /\ stage = "history"
      BY <2>5 DEF Devices!EnsureHistory, Devices!process
    <3>5. \A e \in Device : Devices!ApiNames(e)' = Devices!ApiNames(e)
      BY <3>2, <3>3 DEF Devices!ApiNames
    <3>6. \A d \in Device : /\ Devices!Known(d)' = Devices!Known(d)
                            /\ devices'[d].name = devices[d].name
      BY <3>4 DEF Devices!Known, Devices!Unknown
    <3>7. \A e \in Device : DevicesNamed(e)'
      BY <3>5, <3>6, DevicesSameNames DEF DevicesInv
    <3>8. \A r \in names' : /\ r.source = "api" => r.from >= 1 /\ r.from <= clock /\ r.to <= clock
                            /\ r.source # "api" => r.from = 0
      BY <3>2, <3>3 DEF DevicesInv
    <3> QED
      BY <2>a, <3>4, <3>7, <3>8 DEF DevicesInv
  <2>6. CASE Devices!EndRefresh
    <3>1. /\ stage' # "upsert" /\ seenAt' = clock' /\ clock' >= clock /\ clock' \in Nat
          /\ stage = "history" /\ UNCHANGED <<devices, names, observed, events, answered>>
      BY <2>b, <2>6 DEF Devices!EndRefresh, Devices!ReadClock, Devices!db
    <3>2. \A r \in names : r.from \in Nat /\ r.to \in Nat
      BY <2>b DEF NameRow
    <3>3. \A r \in names' : r.source = "api" => r.from >= 1 /\ r.from <= clock' /\ r.to <= clock'
      BY <2>b, <3>1, <3>2 DEF DevicesInv
    <3> QED
      BY <2>a, <2>c, <3>1, <3>3 DEF DevicesInv
  <2>7. CASE Devices!StoreStatus
    <3>1. PICK l \in listing :
            /\ observed' = observed \cup {[device |-> l.device, at |-> seenAt]}
            /\ answered' = {l.device}
      BY <2>7 DEF Devices!StoreStatus
    <3>2. /\ UNCHANGED <<clock, devices, names, events, stage, seenAt>>
          /\ stage = "collect"
      BY <2>7 DEF Devices!StoreStatus
    <3> QED
      BY <2>a, <2>c, <3>1, <3>2 DEF DevicesInv
  <2>8. CASE Devices!RecordEvent
    <3>1. /\ UNCHANGED <<clock, devices, names, observed, stage, seenAt>>
          /\ stage = "collect" /\ answered' = {}
      BY <2>8 DEF Devices!RecordEvent
    <3>2. \/ \E d \in answered : events' = events \cup {Devices!Event(d, TRUE)}
          \/ \E l \in listing : events' = events \cup {Devices!Event(l.device, FALSE)}
      BY <2>8 DEF Devices!RecordEvent
    <3>3. ASSUME NEW e \in events', e.success
          PROVE  [device |-> e.device, at |-> e.at] \in observed'
      <4>1. CASE e \in events
        BY <3>1, <3>3, <4>1 DEF DevicesInv
      <4>2. CASE e \notin events
        <5>1. PICK d \in answered : e = Devices!Event(d, TRUE)
          BY <3>2, <3>3, <4>2 DEF Devices!Event
        <5>2. e.device = d /\ e.at = seenAt
          BY <5>1 DEF Devices!Event
        <5> QED
          BY <3>1, <5>1, <5>2 DEF DevicesInv
      <4> QED
        BY <4>1, <4>2
    <3> QED
      BY <2>a, <2>c, <3>1, <3>3 DEF DevicesInv
  <2>9. CASE Devices!EndCollect
    <3>1. /\ UNCHANGED <<clock, devices, names, observed, events, seenAt>>
          /\ stage' = "idle" /\ answered' = {}
      BY <2>9 DEF Devices!EndCollect, Devices!db
    <3> QED
      BY <2>a, <2>c, <3>1 DEF DevicesInv
  <2>10. CASE Devices!CollectDies
    <3>1. /\ UNCHANGED <<clock, devices, names, observed, events, seenAt>>
          /\ stage' = "idle" /\ answered' = {}
      BY <2>10 DEF Devices!CollectDies, Devices!db
    <3> QED
      BY <2>a, <2>c, <3>1 DEF DevicesInv
  <2>11. CASE UNCHANGED Devices!vars
    <3>1. UNCHANGED <<clock, devices, names, observed, events, stage, listing, answered, seenAt>>
      BY <2>11 DEF Devices!vars
    <3> QED
      BY <2>a, <2>c, <3>1 DEF DevicesInv, Devices!ApiNames
  <2> QED
    BY <2>1, <2>2, <2>3, <2>4, <2>5, <2>6, <2>7, <2>8, <2>9, <2>10, <2>11
    DEF Devices!Next
<1> QED
  BY <1>1, <1>2, DevicesBehaves, PTL

(* Between any two commits of a refresh or a collection the names the cloud *)
(* gave a device follow each other without a hole or an overlap and the     *)
(* last is the one in the table of devices, and an event calls a collection *)
(* a success only with its observation: for any devices, names, lists,      *)
(* household names and deaths.                                              *)
THEOREM DevicesNamesCorrect == Spec => []NamesFollowTheApi
<1>1. DevicesInv => NamesFollowTheApi
  <2> SUFFICES ASSUME DevicesInv PROVE NamesFollowTheApi
    OBVIOUS
  <2>1. ASSUME NEW d \in Device, Devices!Known(d)
        PROVE  /\ {r.name : r \in {s \in Devices!ApiNames(d) : s.to = 0}}
                    = {devices[d].name}
               /\ \A r, s \in Devices!ApiNames(d) :
                    r.from < s.from => r.to # 0 /\ r.from < r.to /\ r.to <= s.from
               /\ \A r \in Devices!ApiNames(d) :
                    r.to # 0 => \E s \in Devices!ApiNames(d) : s.from = r.to
    BY <2>1 DEF DevicesInv, DevicesNamed
  <2>2. \A e \in events : e.success => [device |-> e.device, at |-> e.at] \in observed
    BY DEF DevicesInv
  <2> QED
    BY <2>1, <2>2 DEF NamesFollowTheApi, Devices!NamesFollowTheApi, Devices!Open
<1> QED
  BY <1>1, DevicesInvCorrect, PTL

-----------------------------------------------------------------------------
(* The cloud queue *)

QueueRow == [item : Item, payload : Payload, by : {"queue", "collector"}]

(* Of the files of the queue no two hold the same answer, and of those an   *)
(* import goes on with no two are for the same item: the checks of          *)
(* queueRawData_ and of _candidates.                                        *)
QueueFilesDiffer ==
    /\ IsFiniteSet(folder)
    /\ \A f, g \in folder : f.item = g.item /\ f.payload = g.payload => f = g
    /\ IsFiniteSet(candidates)
    /\ \A f, g \in candidates : f.item = g.item => f = g

(* Every row of the queue was the first of its item and has a receipt, and  *)
(* every receipt names its row; of rows that are there nothing changes.     *)
QueueInv == Queue!TypeOK /\ QueueFilesDiffer /\ Queue!ReceiptNamesRow

(* The module of the queue has the operators of the libraries to itself.     *)
LEMMA QueueSetToSeq == \A S : Queue!SetToSeq(S) = SetToSeq(S)
  BY DEF Queue!SetToSeq, SetToSeq, Queue!IsInjective, IsInjective,
     Queue!Cardinality, Cardinality

(* The id of a row with the same answer is one of the table.                *)
LEMMA QueueExistingIsThere ==
    ASSUME Queue!TypeOK, NEW f \in Queue!File, Queue!ExistingRaw(f) # 0
    PROVE  /\ Queue!ExistingRaw(f) \in DOMAIN rows
           /\ rows[Queue!ExistingRaw(f)].item = f.item
           /\ rows[Queue!ExistingRaw(f)].payload = f.payload
<1> DEFINE same == {n \in Queue!RowsOf(f) : rows[n].payload = f.payload}
<1>1. same # {} /\ Queue!ExistingRaw(f) = Queue!First(same)
  BY DEF Queue!ExistingRaw
<1>2. same \subseteq Nat
  BY DEF Queue!RowsOf, Queue!TypeOK
<1>3. PICK x \in same : TRUE
  BY <1>1
<1>4. \E n \in same : \A m \in same : n <= m
  BY <1>2, <1>3, LeastOfSet
<1>5. Queue!First(same) \in same
  BY <1>4 DEF Queue!First
<1> QED
  BY <1>1, <1>5 DEF Queue!RowsOf

(* A collector's row goes behind the others.                                *)
LEMMA QueueStoreLocalAppends ==
    ASSUME Queue!TypeOK, Queue!StoreLocal
    PROVE  \E r \in QueueRow : r.by = "collector" /\ rows' = Append(rows, r)
  BY DEF Queue!StoreLocal, QueueRow

(* What the transaction writes: behind the rows of the table one row for    *)
(* each file whose item has none, each with its own receipt, and a receipt  *)
(* for each other file, which names a row that was there.                   *)
LEMMA QueueImportWrites ==
    ASSUME QueueInv, Queue!ImportQueue, ~Queue!StillBlocked(candidates)
    PROVE  \E new \in Seq(QueueRow) :
             /\ rows' = rows \o new
             /\ \A k \in DOMAIN new :
                  /\ new[k].by = "queue"
                  /\ \A n \in DOMAIN rows : rows[n].item # new[k].item
                  /\ \A j \in DOMAIN new : new[j].item = new[k].item => j = k
                  /\ \E r \in receipts' : r.raw = Len(rows) + k
             /\ receipts \subseteq receipts'
             /\ \A r \in receipts' \ receipts :
                  /\ r.item \in Item /\ r.payload \in Payload
                  /\ r.envelope \in 1..MaxMade
                  /\ r = [item |-> r.item, payload |-> r.payload,
                          envelope |-> r.envelope, raw |-> r.raw]
                  /\ \/ /\ r.raw \in DOMAIN rows
                        /\ rows[r.raw].item = r.item
                        /\ rows[r.raw].payload = r.payload
                     \/ \E k \in DOMAIN new :
                          /\ r.raw = Len(rows) + k
                          /\ new[k].item = r.item /\ new[k].payload = r.payload
<1> USE DEF QueueInv
<1> DEFINE open == {f \in candidates : Queue!ReceiptsOf(f) = {}}
           unseen == {f \in open : Queue!ExistingRaw(f) = 0}
           files == Queue!SetToSeq(unseen)
           count == Cardinality(unseen)
           idOf(f) == IF Queue!ExistingRaw(f) # 0 THEN Queue!ExistingRaw(f)
                     ELSE Len(rows) + CHOOSE k \in DOMAIN files : files[k] = f
           new == [k \in DOMAIN files |->
                     [item |-> files[k].item, payload |-> files[k].payload, by |-> "queue"]]
<1>1. /\ rows' = rows \o new
      /\ receipts' = receipts \cup
            {[item |-> f.item, payload |-> f.payload,
              envelope |-> f.envelope, raw |-> idOf(f)] : f \in open}
  BY DEF Queue!ImportQueue
<1>2. candidates \subseteq Queue!File /\ unseen \subseteq candidates /\ open \subseteq candidates
  BY DEF Queue!TypeOK
<1>3. IsFiniteSet(unseen)
  BY <1>2, FS_Subset DEF QueueFilesDiffer
<1>4. /\ count \in Nat
      /\ files \in [1..count -> unseen]
      /\ \A j, k \in 1..count : files[j] = files[k] => j = k
      /\ \A f \in unseen : \E k \in 1..count : files[k] = f
  <2> HIDE DEF unseen
  <2> QED
    BY <1>3, SequenceOfSet, QueueSetToSeq
<1> HIDE DEF files, count
<1>5. DOMAIN files = 1..count /\ DOMAIN new = 1..count
  BY <1>4
<1>6. new \in Seq(QueueRow) /\ Len(new) = count
  <2>1. new \in [1..count -> QueueRow]
    BY <1>2, <1>4, <1>5 DEF QueueRow, Queue!File
  <2> QED
    BY <1>4, <2>1
<1>7. ASSUME NEW f \in unseen
      PROVE  \E k \in 1..count : files[k] = f /\ idOf(f) = Len(rows) + k
  <2>1. PICK k \in 1..count : files[k] = f
    BY <1>4, <1>7
  <2>2. (CHOOSE m \in DOMAIN files : files[m] = f) = k
    BY <1>4, <1>5, <2>1
  <2> QED
    BY <1>7, <2>1, <2>2
<1>8. ASSUME NEW k \in DOMAIN new
      PROVE  /\ new[k].by = "queue"
             /\ \A n \in DOMAIN rows : rows[n].item # new[k].item
             /\ \A j \in DOMAIN new : new[j].item = new[k].item => j = k
             /\ \E r \in receipts' : r.raw = Len(rows) + k
  <2>1. files[k] \in unseen /\ new[k].item = files[k].item /\ new[k].by = "queue"
    BY <1>4, <1>5, <1>8
  <2>2. Queue!RowsOf(files[k]) = {}
    BY <2>1 DEF Queue!StillBlocked, Queue!Conflicts
  <2>3. \A n \in DOMAIN rows : rows[n].item # new[k].item
    BY <2>1, <2>2 DEF Queue!RowsOf
  <2>4. ASSUME NEW j \in DOMAIN new, new[j].item = new[k].item PROVE j = k
    <3>1. files[j] \in unseen /\ files[j].item = files[k].item
      BY <1>4, <1>5, <2>1, <2>4
    <3>2. files[j] = files[k]
      BY <1>2, <2>1, <3>1 DEF QueueFilesDiffer
    <3> QED
      BY <1>4, <1>5, <1>8, <3>2
  <2>5. \E r \in receipts' : r.raw = Len(rows) + k
    <3>1. PICK m \in 1..count : files[m] = files[k] /\ idOf(files[k]) = Len(rows) + m
      BY <1>7, <2>1
    <3>2. m = k
      BY <1>4, <1>5, <1>8, <3>1
    <3>3. files[k] \in open
      BY <2>1
    <3> DEFINE r == [item |-> files[k].item, payload |-> files[k].payload,
                     envelope |-> files[k].envelope, raw |-> idOf(files[k])]
    <3> HIDE DEF idOf, new
    <3>4. r \in receipts'
      <4> HIDE DEF open
      <4> QED
        BY <1>1, <3>3
    <3>5. r.raw = Len(rows) + k
      BY <3>1, <3>2
    <3> QED
      BY <3>4, <3>5
  <2> QED
    BY <2>1, <2>3, <2>4, <2>5
<1>9. ASSUME NEW r \in receipts' \ receipts
      PROVE  /\ r.item \in Item /\ r.payload \in Payload
             /\ r.envelope \in 1..MaxMade
             /\ r = [item |-> r.item, payload |-> r.payload,
                     envelope |-> r.envelope, raw |-> r.raw]
             /\ \/ /\ r.raw \in DOMAIN rows
                   /\ rows[r.raw].item = r.item
                   /\ rows[r.raw].payload = r.payload
                \/ \E k \in DOMAIN new :
                     /\ r.raw = Len(rows) + k
                     /\ new[k].item = r.item /\ new[k].payload = r.payload
  <2>1. PICK f \in open : r = [item |-> f.item, payload |-> f.payload,
                               envelope |-> f.envelope, raw |-> idOf(f)]
    <3> HIDE DEF idOf
    <3> QED
      BY <1>1, <1>9
  <2>2. f \in Queue!File
    BY <1>2, <2>1
  <2>3. /\ r.item = f.item /\ r.payload = f.payload
        /\ r.envelope = f.envelope /\ r.raw = idOf(f)
    <3> HIDE DEF idOf
    <3> QED
      BY <2>1
  <2>4. CASE Queue!ExistingRaw(f) # 0
    BY <2>1, <2>2, <2>3, <2>4, QueueExistingIsThere DEF Queue!File
  <2>5. CASE Queue!ExistingRaw(f) = 0
    <3>1. f \in unseen
      BY <2>1, <2>5
    <3>2. PICK k \in 1..count : files[k] = f /\ idOf(f) = Len(rows) + k
      BY <1>7, <3>1
    <3>3. k \in DOMAIN new /\ new[k].item = f.item /\ new[k].payload = f.payload
      BY <1>5, <3>2
    <3> HIDE DEF idOf, new
    <3> QED
      BY <2>1, <2>2, <2>3, <3>2, <3>3 DEF Queue!File
  <2> QED
    BY <2>4, <2>5
<1> HIDE DEF new, idOf
<1> QED
  BY <1>1, <1>6, <1>8, <1>9

(* Rows are only added at the end, so what receipts say of them stays true; *)
(* new rows of a collector carry no promise.                                *)
LEMMA QueueInvAppends ==
    ASSUME QueueInv, Queue!StoreLocal
    PROVE  /\ rows' \in Seq(QueueRow)
           /\ receipts' \subseteq [item : Item, payload : Payload,
                                   envelope : 1..MaxMade, raw : 1..Len(rows')]
           /\ Queue!ReceiptNamesRow'
<1>1. PICK r \in QueueRow : r.by = "collector" /\ rows' = Append(rows, r)
  BY QueueStoreLocalAppends DEF QueueInv
<1>2. rows \in Seq(QueueRow) /\ receipts' = receipts
  BY DEF QueueInv, Queue!TypeOK, QueueRow, Queue!StoreLocal
<1>3. /\ rows' \in Seq(QueueRow) /\ Len(rows') = Len(rows) + 1
      /\ \A n \in 1..Len(rows) : rows'[n] = rows[n]
      /\ rows'[Len(rows) + 1] = r
  BY <1>1, <1>2
<1>4. receipts' \subseteq [item : Item, payload : Payload,
                           envelope : 1..MaxMade, raw : 1..Len(rows')]
  BY <1>2, <1>3 DEF QueueInv, Queue!TypeOK
<1>5. ASSUME NEW q \in receipts'
      PROVE  rows'[q.raw].item = q.item /\ rows'[q.raw].payload = q.payload
  <2>1. q \in receipts /\ q.raw \in 1..Len(rows)
    BY <1>2, <1>5 DEF QueueInv, Queue!TypeOK
  <2> QED
    BY <1>3, <2>1 DEF QueueInv, Queue!ReceiptNamesRow
<1>6. ASSUME NEW n \in DOMAIN rows', rows'[n].by = "queue"
      PROVE  /\ \E q \in receipts' : q.raw = n
             /\ \A m \in 1..(n - 1) : rows'[m].item # rows'[n].item
  <2>1. n \in 1..Len(rows) /\ rows[n].by = "queue"
    BY <1>1, <1>2, <1>3, <1>6
  <2>2. n \in DOMAIN rows
    BY <1>2, <2>1
  <2> QED
    BY <1>2, <1>3, <2>1, <2>2 DEF QueueInv, Queue!ReceiptNamesRow
<1> QED
  BY <1>3, <1>4, <1>5, <1>6 DEF Queue!ReceiptNamesRow

(* The transaction keeps every receipt true and every queue row the first   *)
(* of its item.                                                             *)
LEMMA QueueInvImports ==
    ASSUME QueueInv, Queue!ImportQueue
    PROVE  /\ rows' \in Seq(QueueRow)
           /\ receipts' \subseteq [item : Item, payload : Payload,
                                   envelope : 1..MaxMade, raw : 1..Len(rows')]
           /\ Queue!ReceiptNamesRow'
<1>0. rows \in Seq(QueueRow)
  BY DEF QueueInv, Queue!TypeOK, QueueRow
<1>1. CASE Queue!StillBlocked(candidates)
  BY <1>0, <1>1 DEF Queue!ImportQueue, QueueInv, Queue!TypeOK,
     Queue!ReceiptNamesRow
<1>2. CASE ~Queue!StillBlocked(candidates)
  <2>1. PICK new \in Seq(QueueRow) :
             /\ rows' = rows \o new
             /\ \A k \in DOMAIN new :
                  /\ new[k].by = "queue"
                  /\ \A n \in DOMAIN rows : rows[n].item # new[k].item
                  /\ \A j \in DOMAIN new : new[j].item = new[k].item => j = k
                  /\ \E r \in receipts' : r.raw = Len(rows) + k
             /\ receipts \subseteq receipts'
             /\ \A r \in receipts' \ receipts :
                  /\ r.item \in Item /\ r.payload \in Payload
                  /\ r.envelope \in 1..MaxMade
                  /\ r = [item |-> r.item, payload |-> r.payload,
                          envelope |-> r.envelope, raw |-> r.raw]
                  /\ \/ /\ r.raw \in DOMAIN rows
                        /\ rows[r.raw].item = r.item
                        /\ rows[r.raw].payload = r.payload
                     \/ \E k \in DOMAIN new :
                          /\ r.raw = Len(rows) + k
                          /\ new[k].item = r.item /\ new[k].payload = r.payload
    BY <1>2, QueueImportWrites
  <2>2. /\ rows' \in Seq(QueueRow) /\ Len(rows') = Len(rows) + Len(new)
        /\ \A n \in 1..Len(rows) : rows'[n] = rows[n]
        /\ \A k \in 1..Len(new) : rows'[Len(rows) + k] = new[k]
    BY <1>0, <2>1
  <2>3. /\ DOMAIN rows = 1..Len(rows) /\ Len(rows) \in Nat
        /\ DOMAIN new = 1..Len(new) /\ Len(new) \in Nat
        /\ DOMAIN rows' = 1..(Len(rows) + Len(new))
    BY <1>0, <2>1, <2>2
  <2>4. ASSUME NEW r \in receipts'
        PROVE  /\ r \in [item : Item, payload : Payload,
                         envelope : 1..MaxMade, raw : 1..Len(rows')]
               /\ rows'[r.raw].item = r.item /\ rows'[r.raw].payload = r.payload
    <3>1. CASE r \in receipts
      <4>1. r \in [item : Item, payload : Payload, envelope : 1..MaxMade,
                   raw : 1..Len(rows)]
        BY <3>1 DEF QueueInv, Queue!TypeOK
      <4>2. r.raw \in 1..Len(rows) /\ r.raw \in 1..Len(rows')
        BY <2>2, <2>3, <4>1
      <4> QED
        BY <2>2, <3>1, <4>1, <4>2 DEF QueueInv, Queue!ReceiptNamesRow
    <3>2. CASE r \notin receipts
      <4>1. /\ r.item \in Item /\ r.payload \in Payload /\ r.envelope \in 1..MaxMade
            /\ r = [item |-> r.item, payload |-> r.payload,
                    envelope |-> r.envelope, raw |-> r.raw]
        BY <2>1, <2>4, <3>2
      <4>2. \/ /\ r.raw \in DOMAIN rows
               /\ rows[r.raw].item = r.item
               /\ rows[r.raw].payload = r.payload
            \/ \E k \in DOMAIN new :
                 /\ r.raw = Len(rows) + k
                 /\ new[k].item = r.item /\ new[k].payload = r.payload
        BY <2>1, <2>4, <3>2
      <4>3. CASE /\ r.raw \in DOMAIN rows
                 /\ rows[r.raw].item = r.item
                 /\ rows[r.raw].payload = r.payload
        BY <2>2, <2>3, <4>1, <4>3
      <4>4. CASE \E k \in DOMAIN new :
                   /\ r.raw = Len(rows) + k
                   /\ new[k].item = r.item /\ new[k].payload = r.payload
        <5>1. PICK k \in 1..Len(new) :
                /\ r.raw = Len(rows) + k
                /\ new[k].item = r.item /\ new[k].payload = r.payload
          BY <2>3, <4>4
        <5>2. r.raw \in 1..Len(rows') /\ rows'[r.raw] = new[k]
          BY <2>2, <2>3, <5>1
        <5> QED
          BY <4>1, <5>1, <5>2
      <4> QED
        BY <4>2, <4>3, <4>4
    <3> QED
      BY <3>1, <3>2
  <2>5. ASSUME NEW n \in DOMAIN rows', rows'[n].by = "queue"
        PROVE  /\ \E r \in receipts' : r.raw = n
               /\ \A m \in 1..(n - 1) : rows'[m].item # rows'[n].item
    <3>1. CASE n \in 1..Len(rows)
      <4>1. rows[n].by = "queue" /\ rows'[n] = rows[n]
        BY <2>2, <2>5, <3>1
      <4>2. /\ \E r \in receipts : r.raw = n
            /\ \A m \in 1..(n - 1) : rows[m].item # rows[n].item
        BY <2>3, <3>1, <4>1 DEF QueueInv, Queue!ReceiptNamesRow
      <4> QED
        BY <2>1, <2>2, <2>3, <3>1, <4>1, <4>2
    <3>2. CASE n \notin 1..Len(rows)
      <4>1. PICK k \in 1..Len(new) : n = Len(rows) + k
        <5> n - Len(rows) \in 1..Len(new)
          BY <2>3, <3>2
        <5> QED
          BY <2>3
      <4>2. rows'[n] = new[k] /\ \E r \in receipts' : r.raw = n
        BY <2>1, <2>2, <2>3, <4>1
      <4>3. ASSUME NEW m \in 1..(n - 1) PROVE rows'[m].item # rows'[n].item
        <5>1. CASE m \in 1..Len(rows)
          BY <2>1, <2>2, <2>3, <4>1, <4>2, <5>1
        <5>2. CASE m \notin 1..Len(rows)
          <6>1. PICK j \in 1..Len(new) : m = Len(rows) + j /\ j # k
            <7>1. n \in Nat /\ n <= Len(rows) + Len(new)
              BY <2>3
            <7>2. m \in Nat /\ m > Len(rows) /\ m < n
              BY <2>3, <4>3, <5>2, <7>1
            <7>3. m - Len(rows) \in 1..Len(new) /\ m - Len(rows) # k
              BY <2>3, <4>1, <7>1, <7>2
            <7>4. m = Len(rows) + (m - Len(rows))
              BY <2>3, <7>2
            <7> QED
              BY <7>3, <7>4
          <6> QED
            BY <2>1, <2>2, <2>3, <4>1, <4>2, <6>1
        <5> QED
          BY <5>1, <5>2
      <4> QED
        BY <4>2, <4>3
    <3> QED
      BY <3>1, <3>2
  <2> QED
    BY <2>2, <2>4, <2>5 DEF Queue!ReceiptNamesRow
<1> QED
  BY <1>1, <1>2

(* No answer is queued twice and no item is imported with two answers.      *)
LEMMA QueueFilesStayDifferent ==
    ASSUME Queue!TypeOK, QueueFilesDiffer, [Queue!Next]_(Queue!vars)
    PROVE  QueueFilesDiffer'
<1>1. CASE Queue!QueueRawData
  <2>1. PICK i \in Item, p \in Payload :
           /\ \A f \in Queue!OfItem(folder, i) : f.payload # p
           /\ folder' = folder \cup {[item |-> i, payload |-> p, envelope |-> made + 1]}
    BY <1>1 DEF Queue!QueueRawData
  <2>2. IsFiniteSet(folder')
    BY <2>1, FS_AddElement DEF QueueFilesDiffer
  <2>3. \A f \in folder : ~(f.item = i /\ f.payload = p)
    BY <2>1 DEF Queue!OfItem
  <2> QED
    BY <1>1, <2>1, <2>2, <2>3 DEF Queue!QueueRawData, QueueFilesDiffer
<1>2. CASE Queue!RemoveFile
  <2>1. folder' \subseteq folder /\ candidates' = candidates
    BY <1>2 DEF Queue!RemoveFile
  <2> QED
    BY <2>1, FS_Subset DEF QueueFilesDiffer
<1>3. CASE Queue!CompareQueue
  <2>1. PICK files \in SUBSET folder :
           /\ import' = "compared" =>
                \A f, g \in files : f.item = g.item => f.payload = g.payload
           /\ candidates' = IF import' = "compared" THEN files ELSE {}
    BY <1>3 DEF Queue!CompareQueue
  <2>2. IsFiniteSet(candidates')
    BY <2>1, FS_Subset, FS_EmptySet DEF QueueFilesDiffer
  <2> QED
    BY <1>3, <2>1, <2>2 DEF Queue!CompareQueue, QueueFilesDiffer
<1>4. CASE Queue!ImportQueue \/ Queue!ImportFails
  BY <1>4, FS_EmptySet DEF Queue!ImportQueue, Queue!ImportFails,
     QueueFilesDiffer
<1>5. CASE Queue!StoreLocal \/ UNCHANGED Queue!vars
  BY <1>5 DEF Queue!StoreLocal, Queue!vars, QueueFilesDiffer
<1> QED
  BY <1>1, <1>2, <1>3, <1>4, <1>5 DEF Queue!Next

LEMMA QueueBound == MaxMade \in Nat
  BY SourcesAssumption DEF Queue!QueueAssumption

LEMMA QueueInvariant == Spec => []QueueInv
<1>1. Queue!Init => QueueInv
  BY FS_EmptySet, QueueBound DEF Queue!Init, QueueInv, Queue!TypeOK, QueueFilesDiffer,
     Queue!ReceiptNamesRow
<1>2. QueueInv /\ [Queue!Next]_(Queue!vars) => QueueInv'
  <2> SUFFICES ASSUME QueueInv, [Queue!Next]_(Queue!vars) PROVE QueueInv'
    OBVIOUS
  <2>1. QueueFilesDiffer'
    BY QueueFilesStayDifferent DEF QueueInv
  <2>2. /\ folder' \subseteq Queue!File /\ made' \in 0..MaxMade /\ candidates' \subseteq Queue!File
        /\ import' \in {"none", "compared", "completed", "blocked", "failed"}
    <3>1. CASE Queue!QueueRawData
      BY <3>1, QueueBound DEF Queue!QueueRawData, QueueInv, Queue!TypeOK, Queue!File
    <3>2. CASE Queue!CompareQueue
      BY <3>2 DEF Queue!CompareQueue, QueueInv, Queue!TypeOK
    <3> QED
      BY <3>1, <3>2 DEF Queue!Next, Queue!vars, Queue!RemoveFile,
         Queue!StoreLocal, Queue!ImportQueue,
         Queue!ImportFails, QueueInv, Queue!TypeOK
  <2>3. /\ rows' \in Seq(QueueRow)
        /\ receipts' \subseteq [item : Item, payload : Payload,
                                envelope : 1..MaxMade, raw : 1..Len(rows')]
        /\ Queue!ReceiptNamesRow'
    <3>1. CASE Queue!StoreLocal
      BY <3>1, QueueInvAppends
    <3>2. CASE Queue!ImportQueue
      BY <3>2, QueueInvImports
    <3>3. CASE UNCHANGED <<rows, receipts>>
      BY <3>3 DEF QueueInv, Queue!TypeOK, QueueRow, Queue!ReceiptNamesRow
    <3> QED
      BY <3>1, <3>2, <3>3 DEF Queue!Next, Queue!vars, Queue!QueueRawData,
         Queue!RemoveFile,
         Queue!CompareQueue, Queue!ImportFails
  <2> QED
    BY <2>1, <2>2, <2>3 DEF QueueInv, Queue!TypeOK, QueueRow
<1> QED
  BY <1>1, <1>2, QueueBehaves, PTL

(* The state of the queue and its importer is well-typed; above all, a       *)
(* receipt names an id of the table.                                        *)
THEOREM QueueTypeCorrect == Spec => []Queue!TypeOK
<1>1. QueueInv => Queue!TypeOK
  BY DEF QueueInv
<1> QED
  BY <1>1, QueueInvariant, PTL

(* Every receipt names a row with the answer of its file, and the queue adds *)
(* an answer only to an item that has none, although a collector may store   *)
(* one between the comparison and the transaction.                          *)
THEOREM QueueReceiptsCorrect == Spec => []ReceiptNamesRow
<1>1. QueueInv => Queue!ReceiptNamesRow
  BY DEF QueueInv
<1> QED
  BY <1>1, QueueInvariant, PTL DEF ReceiptNamesRow

-----------------------------------------------------------------------------
(* The reader of the Smart-LEDZ gateway *)

(* What is picked from s grows with the number of elements looked at.       *)
IsPicking(g, s, S) ==
    /\ g[0] = <<>>
    /\ \A k \in 0..(Len(s) - 1) :
         g[k + 1] = IF s[k + 1] \in S THEN Append(g[k], s[k + 1]) ELSE g[k]

LEMMA LedzPickedUnfolds ==
    ASSUME NEW C, NEW s \in Seq(C), NEW S
    PROVE  \E g \in [0..Len(s) -> Seq(C)] :
             Ledz!Picked(s, S) = g[Len(s)] /\ IsPicking(g, s, S)
<1> DEFINE places == SUBSET (DOMAIN s)
           Fits(iter) == iter = [t \in places |->
                                   IF t = {} THEN <<>>
                                   ELSE IF s[Max(t)] \in S
                                   THEN Append(iter[t \ {Max(t)}], s[Max(t)])
                                   ELSE iter[t \ {Max(t)}]]
           I == CHOOSE iter : Fits(iter)
           F == [x \in Seq(C) \X C |-> IF x[2] \in S THEN Append(x[1], x[2]) ELSE x[1]]
<1>1. DOMAIN s = 1..Len(s) /\ Len(s) \in Nat /\ \A i \in 1..Len(s) : s[i] \in C
  OBVIOUS
<1>2. /\ F \in [Seq(C) \X C -> Seq(C)]
      /\ \A a \in Seq(C) : \A c \in C :
           F[<<a, c>>] = (IF c \in S THEN Append(a, c) ELSE a)
  <2>1. \A a \in Seq(C) : \A c \in C : (IF c \in S THEN Append(a, c) ELSE a) \in Seq(C)
    OBVIOUS
  <2> QED
    BY <2>1
<1>3. PICK h \in [SUBSET (1..Len(s)) -> Seq(C)] : IsFold(h, F, <<>>, s)
  <2>1. <<>> \in Seq(C)
    OBVIOUS
  <2> HIDE DEF F
  <2> QED
    BY <1>2, <2>1, FoldExists
<1>4. Fits(h)
  <2>1. ASSUME NEW t \in places
        PROVE  h[t] = IF t = {} THEN <<>>
                      ELSE IF s[Max(t)] \in S
                      THEN Append(h[t \ {Max(t)}], s[Max(t)])
                      ELSE h[t \ {Max(t)}]
    <3>1. CASE t = {}
      BY <1>1, <1>3, <3>1 DEF IsFold
    <3>2. CASE t # {}
      <4>1. Max(t) \in 1..Len(s) /\ t \ {Max(t)} \in SUBSET (1..Len(s))
        BY <1>1, <3>2, GreatestPlace
      <4>2. h[t \ {Max(t)}] \in Seq(C) /\ s[Max(t)] \in C
        BY <1>1, <1>3, <4>1
      <4>3. h[t] = F[<<h[t \ {Max(t)}], s[Max(t)]>>]
        BY <1>1, <1>3, <3>2 DEF IsFold
      <4> HIDE DEF F
      <4> QED
        BY <1>2, <3>2, <4>2, <4>3
    <3> QED
      BY <3>1, <3>2
  <2> HIDE DEF F
  <2> QED
    BY <1>1, <1>3, <2>1
<1>5. Fits(I)
  <2> HIDE DEF Fits
  <2> QED
    BY <1>4
<1>6. Ledz!Picked(s, S) = I[DOMAIN s]
  BY Zenon DEF Ledz!Picked, Ledz!FoldLeft, Ledz!MapThenFoldSet, Ledz!Max, Max
<1> DEFINE g == [k \in 0..Len(s) |-> I[1..k]]
           good == {k \in 0..Len(s) : g[k] \in Seq(C)}
<1>7. \A t \in SUBSET (1..Len(s)) :
        I[t] = IF t = {} THEN <<>>
               ELSE IF s[Max(t)] \in S THEN Append(I[t \ {Max(t)}], s[Max(t)])
               ELSE I[t \ {Max(t)}]
  <2> HIDE DEF I, F
  <2> QED
    BY <1>1, <1>5
<1> HIDE DEF I, F, Fits, places
<1>8. g[0] = <<>>
  <2>1. 1..0 = {} /\ {} \in SUBSET (1..Len(s)) /\ 0 \in 0..Len(s)
    BY <1>1, FoldPlaces
  <2> QED
    BY <1>7, <2>1
<1>9. ASSUME NEW k \in 0..(Len(s) - 1)
      PROVE  g[k + 1] = IF s[k + 1] \in S THEN Append(g[k], s[k + 1]) ELSE g[k]
  <2>1. /\ 1..(k + 1) \in SUBSET (1..Len(s)) /\ 1..(k + 1) # {}
        /\ Max(1..(k + 1)) = k + 1 /\ (1..(k + 1)) \ {k + 1} = 1..k
    BY <1>1, FoldPlaces
  <2>2. I[1..(k + 1)] = IF s[k + 1] \in S THEN Append(I[1..k], s[k + 1]) ELSE I[1..k]
    BY <1>7, <2>1
  <2>3. k \in 0..Len(s) /\ k + 1 \in 0..Len(s)
    BY <1>1
  <2> QED
    BY <2>2, <2>3
<1>10. \A k \in 0..Len(s) : k \in good
  <2> HIDE DEF g
  <2>1. 0 \in good
    <3>1. <<>> \in Seq(C) /\ 0 \in 0..Len(s)
      BY <1>1
    <3> QED
      BY <1>8, <3>1
  <2>2. ASSUME NEW k \in 0..(Len(s) - 1), k \in good PROVE k + 1 \in good
    <3>1. g[k] \in Seq(C) /\ s[k + 1] \in C /\ k + 1 \in 0..Len(s)
      BY <1>1, <2>2
    <3>2. g[k + 1] = IF s[k + 1] \in S THEN Append(g[k], s[k + 1]) ELSE g[k]
      BY <1>9
    <3>3. Append(g[k], s[k + 1]) \in Seq(C)
      BY <3>1
    <3>4. g[k + 1] \in Seq(C)
      BY <3>1, <3>2, <3>3, Zenon
    <3> QED
      BY <3>1, <3>4
  <2>3. \A k \in 0..(Len(s) - 1) : k \in good => k + 1 \in good
    BY <2>2
  <2> HIDE DEF good
  <2> QED
    BY <1>1, <2>1, <2>3, CountUp
<1>11. g \in [0..Len(s) -> Seq(C)]
  BY <1>10
<1>12. Ledz!Picked(s, S) = g[Len(s)]
  BY <1>1, <1>6
<1> HIDE DEF g
<1> QED
  BY <1>8, <1>9, <1>11, <1>12 DEF IsPicking

(* The first k elements of s have given t: those of S, in their order.       *)
IsPickedFrom(t, s, k, S) ==
    /\ \A j \in 1..Len(t) : \E i \in 1..k : s[i] \in S /\ t[j] = s[i]
    /\ \A i \in 1..k : s[i] \in S => IsIn(s[i], t)
    /\ \A j, l \in 1..Len(t) : j < l =>
         \E i, m \in 1..k : i < m /\ t[j] = s[i] /\ t[l] = s[m]

LEMMA LedzPickedNext ==
    ASSUME NEW C, NEW s \in Seq(C), NEW S, NEW k \in 0..(Len(s) - 1),
           NEW t \in Seq(C), IsPickedFrom(t, s, k, S), NEW u,
           u = IF s[k + 1] \in S THEN Append(t, s[k + 1]) ELSE t
    PROVE  IsPickedFrom(u, s, k + 1, S)
<1>1. /\ k + 1 \in 1..Len(s) /\ s[k + 1] \in C /\ k + 1 \in 1..(k + 1)
      /\ 1..k \subseteq 1..(k + 1) /\ \A i \in 1..(k + 1) : i \in 1..k \/ i = k + 1
      /\ \A i \in 1..k : i < k + 1
      /\ Len(t) \in Nat
  OBVIOUS
<1>2. CASE s[k + 1] \notin S
  <2>1. u = t
    BY <1>2
  <2>2. ASSUME NEW j \in 1..Len(t)
        PROVE  \E i \in 1..(k + 1) : s[i] \in S /\ t[j] = s[i]
    BY <1>1 DEF IsPickedFrom
  <2>3. ASSUME NEW i \in 1..(k + 1), s[i] \in S PROVE IsIn(s[i], t)
    BY <1>1, <1>2, <2>3 DEF IsPickedFrom
  <2>4. ASSUME NEW j \in 1..Len(t), NEW l \in 1..Len(t), j < l
        PROVE  \E i, m \in 1..(k + 1) : i < m /\ t[j] = s[i] /\ t[l] = s[m]
    <3>1. PICK i \in 1..k, m \in 1..k : i < m /\ t[j] = s[i] /\ t[l] = s[m]
      BY <2>4 DEF IsPickedFrom
    <3> QED
      BY <1>1, <3>1
  <2>5. IsPickedFrom(t, s, k + 1, S)
    BY ONLY <2>2, <2>3, <2>4 DEF IsPickedFrom
  <2> QED
    BY ONLY <2>1, <2>5
<1>3. CASE s[k + 1] \in S
  <2>1. /\ Len(u) = Len(t) + 1 /\ u[Len(t) + 1] = s[k + 1]
        /\ \A j \in 1..Len(t) : u[j] = t[j]
    <3>1. ASSUME NEW x \in C
          PROVE  /\ Len(Append(t, x)) = Len(t) + 1
                 /\ Append(t, x)[Len(t) + 1] = x
                 /\ \A j \in 1..Len(t) : Append(t, x)[j] = t[j]
      OBVIOUS
    <3>2. s[k + 1] \in C
      BY <1>1
    <3>3. u = Append(t, s[k + 1])
      BY <1>3
    <3> QED
      BY <3>1, <3>2, <3>3
  <2>2. \A j \in 1..Len(u) : j \in 1..Len(t) \/ j = Len(t) + 1
    BY <1>1, <2>1
  <2>3. ASSUME NEW j \in 1..Len(u) PROVE \E i \in 1..(k + 1) : s[i] \in S /\ u[j] = s[i]
    BY <1>1, <1>3, <2>1, <2>2 DEF IsPickedFrom
  <2>4. ASSUME NEW i \in 1..(k + 1), s[i] \in S PROVE IsIn(s[i], u)
    <3>1. CASE i = k + 1
      BY <1>1, <2>1, <3>1 DEF IsIn
    <3>2. CASE i \in 1..k
      <4>1. PICK j \in 1..Len(t) : t[j] = s[i]
        BY <2>4, <3>2 DEF IsPickedFrom, IsIn
      <4>2. j \in 1..Len(u) /\ u[j] = s[i]
        BY <1>1, <2>1, <4>1
      <4> QED
        BY <4>2 DEF IsIn
    <3> QED
      BY <1>1, <3>1, <3>2
  <2>5. ASSUME NEW j \in 1..Len(u), NEW l \in 1..Len(u), j < l
        PROVE  \E i, m \in 1..(k + 1) : i < m /\ u[j] = s[i] /\ u[l] = s[m]
    <3>1. j \in 1..Len(t)
      BY <1>1, <2>1, <2>5
    <3>2. CASE l \in 1..Len(t)
      <4>1. PICK i \in 1..k, m \in 1..k : i < m /\ t[j] = s[i] /\ t[l] = s[m]
        BY <2>5, <3>1, <3>2 DEF IsPickedFrom
      <4> QED
        BY <1>1, <2>1, <3>1, <3>2, <4>1
    <3>3. CASE l = Len(t) + 1
      <4>1. PICK i \in 1..k : t[j] = s[i]
        BY <3>1 DEF IsPickedFrom
      <4> QED
        BY <1>1, <2>1, <3>1, <3>3, <4>1
    <3> QED
      BY <2>2, <3>2, <3>3
  <2> QED
    BY ONLY <2>3, <2>4, <2>5 DEF IsPickedFrom
<1> QED
  BY <1>2, <1>3

LEMMA LedzPicked ==
    \A C : \A s \in Seq(C) : \A S :
       /\ Ledz!Picked(s, S) \in Seq(C)
       /\ IsPickedFrom(Ledz!Picked(s, S), s, Len(s), S)
<1> SUFFICES ASSUME NEW C, NEW s \in Seq(C), NEW S
             PROVE  /\ Ledz!Picked(s, S) \in Seq(C)
                    /\ IsPickedFrom(Ledz!Picked(s, S), s, Len(s), S)
  OBVIOUS
<1>1. PICK g \in [0..Len(s) -> Seq(C)] :
        Ledz!Picked(s, S) = g[Len(s)] /\ IsPicking(g, s, S)
  BY LedzPickedUnfolds
<1> DEFINE good == {k \in 0..Len(s) : IsPickedFrom(g[k], s, k, S)}
<1>2. Len(s) \in Nat /\ Len(s) \in 0..Len(s) /\ 0 \in 0..Len(s)
  OBVIOUS
<1>3. 0 \in good
  <2>1. IsPickedFrom(<<>>, s, 0, S)
    BY DEF IsPickedFrom
  <2> QED
    BY <1>1, <1>2, <2>1 DEF IsPicking
<1>4. ASSUME NEW k \in 0..(Len(s) - 1), k \in good PROVE k + 1 \in good
  <2>1. /\ k \in 0..Len(s) /\ k + 1 \in 0..Len(s) /\ g[k] \in Seq(C)
        /\ IsPickedFrom(g[k], s, k, S)
    BY <1>2, <1>4
  <2>2. g[k + 1] = IF s[k + 1] \in S THEN Append(g[k], s[k + 1]) ELSE g[k]
    BY <1>1 DEF IsPicking
  <2>3. IsPickedFrom(g[k + 1], s, k + 1, S)
    BY <2>1, <2>2, LedzPickedNext
  <2> QED
    BY <2>1, <2>3
<1>5. \A k \in 0..Len(s) : k \in good
  <2>1. \A k \in 0..(Len(s) - 1) : k \in good => k + 1 \in good
    BY <1>4
  <2> HIDE DEF good
  <2> QED
    BY <1>2, <1>3, <2>1, CountUp
<1>6. IsPickedFrom(g[Len(s)], s, Len(s), S) /\ g[Len(s)] \in Seq(C)
  BY <1>2, <1>5
<1> QED
  BY <1>1, <1>6

LedzRow == [of : Resource, place : Nat, kind : Ledz!RowKind \cup {"refused"}]

(* The module of the reader has the operators of the libraries to itself.    *)
LEMMA LedzFlattenSeq == \A q : Ledz!FlattenSeq(q) = FlattenSeq(q)
  BY Zenon DEF Ledz!FlattenSeq, FlattenSeq

LEMMA LedzCardinality == \A S : Ledz!Cardinality(S) = Cardinality(S)
  BY DEF Ledz!Cardinality, Cardinality

(* An answer is a sequence of rows that know their places.                  *)
LEMMA LedzRows ==
    ASSUME Ledz!TypeOK, NEW r \in Resource
    PROVE  /\ Ledz!RowsOf(r) \in Seq(LedzRow)
           /\ Len(Ledz!RowsOf(r)) = Len(answers[r]) /\ Len(answers[r]) \in Nat
           /\ \A i \in 1..Len(answers[r]) :
                Ledz!RowsOf(r)[i] = [of |-> r, place |-> i, kind |-> answers[r][i]]
           /\ answers[r] \in Seq(Ledz!RowKind) \/ answers[r] = <<"refused">>
<1>1. answers[r] \in Seq(Ledz!RowKind) \/ answers[r] = <<"refused">>
  BY SourcesAssumption DEF Ledz!TypeOK, Ledz!LedzAssumption, Ledz!Refused
<1>2. answers[r] \in Seq(Ledz!RowKind \cup {"refused"})
  <2>1. \A S : \A T : S \subseteq T => Seq(S) \subseteq Seq(T)
    OBVIOUS
  <2>2. <<"refused">> \in Seq({"refused"})
    OBVIOUS
  <2> QED
    BY <1>1, <2>1, <2>2
<1> DEFINE p == answers[r]
<1>3. /\ Len(p) \in Nat /\ DOMAIN p = 1..Len(p)
      /\ \A i \in 1..Len(p) : p[i] \in Ledz!RowKind \cup {"refused"}
  BY <1>2
<1>4. Ledz!RowsOf(r) = [i \in DOMAIN p |-> [of |-> r, place |-> i, kind |-> p[i]]]
  BY DEF Ledz!RowsOf
<1> HIDE DEF p
<1>5. \A i \in 1..Len(p) : [of |-> r, place |-> i, kind |-> p[i]] \in LedzRow
  BY <1>3 DEF LedzRow
<1>6. Ledz!RowsOf(r) \in [1..Len(p) -> LedzRow]
  BY <1>3, <1>4, <1>5
<1>7. Ledz!RowsOf(r) \in Seq(LedzRow) /\ Len(Ledz!RowsOf(r)) = Len(p)
  BY <1>3, <1>6
<1>8. \A i \in 1..Len(p) : Ledz!RowsOf(r)[i] = [of |-> r, place |-> i, kind |-> p[i]]
  BY <1>3, <1>4
<1> QED
  BY <1>1, <1>3, <1>7, <1>8 DEF p

(* The part of an answer that a fragment carries.                           *)
LedzPart(p, k) ==
    SubSeq(p, k * FragmentSize + 1, Ledz!Least((k + 1) * FragmentSize, Len(p)))

(* A frame of the wire that is no notification: it tells of the answer to    *)
(* the request with its ID, and lacks at most the end of what it carries.    *)
LedzTells(f) ==
    LET p == Ledz!RowsOf(f.id) IN
    /\ f.id \in Resource
    /\ f.declared = Len(p)
    /\ f.flagged \in BOOLEAN
    /\ ~f.flagged => /\ f.index = 0 /\ f.count = 1
                     /\ f.payload = p \/ f.payload = Ledz!Front(p)
    /\ f.flagged =>
         /\ f.count = Ledz!Fragments(p) /\ Ledz!Fragmented(f)
         /\ f.index \in 0..(f.count - 1)
         /\ \/ f.payload = LedzPart(p, f.index)
            \/ f.payload = Ledz!Front(LedzPart(p, f.index))

(* A message that is sent in fragments has more than one.                   *)
LEMMA LedzSeveral ==
    ASSUME NEW p, Len(p) \in Nat, ~(Len(p) < ShortLimit)
    PROVE  Ledz!Fragments(p) > 1
<1> DEFINE F == FragmentSize
           L == Len(p)
<1>1. F \in Nat \ {0} /\ L \in Nat /\ L > F
  BY SourcesAssumption DEF Ledz!LedzAssumption
<1>2. Ledz!Fragments(p) = (L + F - 1) \div F
  BY DEF Ledz!Fragments
<1> HIDE DEF F, L
<1>3. \A x \in Nat : \A f \in Nat \ {0} :
        x \div f \in Nat /\ x < (x \div f) * f + f
  OBVIOUS
<1> DEFINE n == (L + F - 1) \div F
<1>4. n \in Nat /\ L + F - 1 < n * F + F
  BY <1>1, <1>3
<1> HIDE DEF n
<1>5. ASSUME n \in {0, 1} PROVE FALSE
  <2>1. n * F <= F
    BY <1>1, <1>5
  <2> QED
    BY <1>1, <1>4, <2>1
<1> QED
  BY <1>2, <1>4, <1>5 DEF n

LEMMA LedzEncoded ==
    ASSUME NEW r \in Resource, Ledz!TypeOK,
           NEW f \in Ledz!EncodeFrames(r, Ledz!RowsOf(r), FALSE)
    PROVE  LedzTells(f) /\ LedzTells([f EXCEPT !.payload = Ledz!Front(@)])
<1> DEFINE p == Ledz!RowsOf(r)
           g == [f EXCEPT !.payload = Ledz!Front(@)]
<1>0. Len(p) \in Nat
  BY LedzRows
<1>1. CASE f = Ledz!Short(r, p, FALSE)
  <2>1. f = [id |-> r, note |-> FALSE, flagged |-> FALSE, index |-> 0, count |-> 1,
             declared |-> Len(p), payload |-> p]
    BY <1>1 DEF Ledz!Short
  <2>2. g = [id |-> r, note |-> FALSE, flagged |-> FALSE, index |-> 0, count |-> 1,
             declared |-> Len(p), payload |-> Ledz!Front(p)]
    <3>1. f.payload = p
      BY <2>1
    <3> DEFINE x == Ledz!Front(p)
    <3>2. g = [f EXCEPT !.payload = x]
      BY <3>1, Zenon
    <3> HIDE DEF x, g, p
    <3>3. g = [id |-> r, note |-> FALSE, flagged |-> FALSE, index |-> 0, count |-> 1,
               declared |-> Len(p), payload |-> x]
      BY <2>1, <3>2
    <3> QED
      BY <3>3 DEF x
  <2> HIDE DEF g
  <2> QED
    BY <2>1, <2>2 DEF LedzTells, g
<1>2. CASE /\ ~(Len(p) < ShortLimit)
           /\ \E k \in 0..(Ledz!Fragments(p) - 1) : f = Ledz!Fragment(r, p, FALSE, k)
  <2>1. PICK k \in 0..(Ledz!Fragments(p) - 1) : f = Ledz!Fragment(r, p, FALSE, k)
    BY <1>2
  <2>2. f = [id |-> r, note |-> FALSE, flagged |-> TRUE, index |-> k,
             count |-> Ledz!Fragments(p), declared |-> Len(p), payload |-> LedzPart(p, k)]
    BY <2>1 DEF Ledz!Fragment, LedzPart
  <2>3. g = [id |-> r, note |-> FALSE, flagged |-> TRUE, index |-> k,
             count |-> Ledz!Fragments(p), declared |-> Len(p),
             payload |-> Ledz!Front(LedzPart(p, k))]
    <3>1. f.payload = LedzPart(p, k)
      BY <2>2
    <3> DEFINE x == Ledz!Front(LedzPart(p, k))
    <3>2. g = [f EXCEPT !.payload = x]
      BY <3>1, Zenon
    <3> HIDE DEF x, g, p
    <3>3. g = [id |-> r, note |-> FALSE, flagged |-> TRUE, index |-> k,
               count |-> Ledz!Fragments(p), declared |-> Len(p), payload |-> x]
      BY <2>2, <3>2
    <3> QED
      BY <3>3 DEF x
  <2>4. Ledz!Fragmented(f) /\ Ledz!Fragmented(g)
    <3>1. Ledz!Fragments(p) > 1
      BY <1>0, <1>2, LedzSeveral
    <3> HIDE DEF g, p
    <3> QED
      BY <2>2, <2>3, <3>1 DEF Ledz!Fragmented
  <2> HIDE DEF g
  <2> QED
    BY <2>2, <2>3, <2>4 DEF LedzTells, g
<1>3. \/ f = Ledz!Short(r, p, FALSE)
      \/ /\ ~(Len(p) < ShortLimit)
         /\ \E k \in 0..(Ledz!Fragments(p) - 1) : f = Ledz!Fragment(r, p, FALSE, k)
  BY DEF Ledz!EncodeFrames
<1> QED
  BY <1>1, <1>2, <1>3

(* A notification is one, damaged or not.                                   *)
LEMMA LedzNotified ==
    ASSUME NEW r, NEW q, NEW f \in Ledz!EncodeFrames(r, q, TRUE)
    PROVE  f.note /\ Ledz!Damaged(f).note
<1>1. ASSUME NEW n, NEW k, NEW c, NEW d, NEW t, NEW x,
             f = [id |-> r, note |-> TRUE, flagged |-> n, index |-> k, count |-> c,
                  declared |-> d, payload |-> t],
             x = Ledz!Front(f.payload)
      PROVE  f.note /\ [f EXCEPT !.payload = x].note
  BY <1>1
<1>2. f = Ledz!Short(r, q, TRUE)
      \/ \E k \in 0..(Ledz!Fragments(q) - 1) : f = Ledz!Fragment(r, q, TRUE, k)
  BY DEF Ledz!EncodeFrames
<1>3. CASE f = Ledz!Short(r, q, TRUE)
  BY <1>1, <1>3, Zenon DEF Ledz!Short, Ledz!Damaged
<1>4. ASSUME NEW k, f = Ledz!Fragment(r, q, TRUE, k)
      PROVE  f.note /\ Ledz!Damaged(f).note
  BY <1>1, <1>4, Zenon DEF Ledz!Fragment, Ledz!Damaged
<1> QED
  BY <1>2, <1>3, <1>4

LEMMA LedzWireTells ==
    ASSUME Ledz!TypeOK, NEW f \in Ledz!Wire, ~f.note
    PROVE  LedzTells(f)
<1>1. \/ f \in Ledz!AnswerFrames \cup Ledz!NoticeFrames
      \/ \E g \in Ledz!AnswerFrames \cup Ledz!NoticeFrames : f = Ledz!Damaged(g)
  BY DEF Ledz!Wire
<1>2. \A g \in Ledz!AnswerFrames :
         \E r \in Resource : g \in Ledz!EncodeFrames(r, Ledz!RowsOf(r), FALSE)
  BY Zenon DEF Ledz!AnswerFrames
<1>3. \A g \in Ledz!NoticeFrames : \E r \in Resource : \E a \in Notice :
         g \in Ledz!EncodeFrames(r, Ledz!NoticeRows(a), TRUE)
  <2> DEFINE to(r) == UNION {Ledz!EncodeFrames(r, Ledz!NoticeRows(a), TRUE) : a \in Notice}
  <2>1. \A r : \A g \in to(r) : \E a \in Notice :
           g \in Ledz!EncodeFrames(r, Ledz!NoticeRows(a), TRUE)
    OBVIOUS
  <2>2. Ledz!NoticeFrames = UNION {to(r) : r \in Resource}
    BY DEF Ledz!NoticeFrames
  <2> HIDE DEF to
  <2>3. \A g \in Ledz!NoticeFrames : \E r \in Resource : g \in to(r)
    BY <2>2
  <2> QED
    BY <2>1, <2>3, Zenon
<1>4. \A g \in Ledz!NoticeFrames : g.note /\ Ledz!Damaged(g).note
  BY <1>3, LedzNotified
<1>5. f \in Ledz!AnswerFrames \/ \E g \in Ledz!AnswerFrames : f = Ledz!Damaged(g)
  BY <1>1, <1>4
<1>6. \A g \in Ledz!AnswerFrames :
         LedzTells(g) /\ LedzTells([g EXCEPT !.payload = Ledz!Front(@)])
  BY <1>2, LedzEncoded
<1> QED
  BY <1>5, <1>6 DEF Ledz!Damaged

LEMMA LedzOrdered ==
    ASSUME NEW X, NEW frames \in Seq(X),
           Ledz!Indices(frames) = 0..(Len(frames) - 1)
    PROVE  \A k \in 1..Len(frames) : \E i \in 1..Len(frames) :
             Ledz!Ordered(frames)[k] = frames[i] /\ frames[i].index = k - 1
<1> SUFFICES ASSUME NEW k \in 1..Len(frames)
             PROVE  \E i \in 1..Len(frames) :
                      Ledz!Ordered(frames)[k] = frames[i] /\ frames[i].index = k - 1
  OBVIOUS
<1>1. DOMAIN frames = 1..Len(frames) /\ Len(frames) \in Nat
  OBVIOUS
<1>2. k - 1 \in Ledz!Indices(frames)
  BY <1>1
<1>3. \E i \in DOMAIN frames : frames[i].index = k - 1
  BY <1>2 DEF Ledz!Indices
<1> DEFINE i == CHOOSE i \in DOMAIN frames : frames[i].index = k - 1
<1>4. i \in DOMAIN frames /\ frames[i].index = k - 1
  BY <1>3
<1>5. Ledz!Ordered(frames)[k] = frames[i]
  BY <1>1 DEF Ledz!Ordered
<1> HIDE DEF i
<1> QED
  BY <1>1, <1>4, <1>5

(* Where the k-th part of an answer ends.                                   *)
LedzEnd(p, k) == Ledz!Least(k * FragmentSize, Len(p))

LEMMA LedzParts ==
    ASSUME NEW C, NEW p \in Seq(C), NEW n, n = Ledz!Fragments(p), n > 0
    PROVE  /\ n \in Nat \ {0}
           /\ LedzEnd(p, 0) = 0 /\ LedzEnd(p, n) = Len(p)
           /\ \A k \in 0..n : LedzEnd(p, k) \in 0..Len(p)
           /\ \A k \in 0..(n - 1) :
                /\ LedzEnd(p, k) < LedzEnd(p, k + 1)
                /\ LedzPart(p, k) = SubSeq(p, LedzEnd(p, k) + 1, LedzEnd(p, k + 1))
<1> DEFINE F == FragmentSize
           L == Len(p)
<1>1. F \in Nat \ {0} /\ L \in Nat
  BY SourcesAssumption DEF Ledz!LedzAssumption
<1>2. n = (L + F - 1) \div F
  BY DEF Ledz!Fragments
<1> HIDE DEF F, L
<1>3. L + F - 1 \in Nat
  BY <1>1
<1>4. \A x \in Nat : \A f \in Nat \ {0} :
        x \div f \in Nat /\ (x \div f) * f <= x /\ x < (x \div f) * f + f
  OBVIOUS
<1>5. n \in Nat /\ n * F <= L + F - 1 /\ L + F - 1 < n * F + F /\ n * F \in Nat
  BY <1>1, <1>2, <1>3, <1>4
<1>6. \A i, j, f \in Nat : i <= j => i * f <= j * f
  OBVIOUS
<1>7. \A i, f \in Nat : (i + 1) * f = i * f + f /\ i * f \in Nat
  OBVIOUS
<1>8. L <= n * F
  BY <1>1, <1>5
<1>9. ASSUME NEW k \in 0..(n - 1)
      PROVE  k * F \in Nat /\ k * F < L /\ (k + 1) * F = k * F + F
  <2>1. k \in Nat /\ k + 1 \in Nat /\ k + 1 <= n
    BY <1>5
  <2>2. (k + 1) * F <= n * F
    BY <1>1, <1>5, <1>6, <2>1
  <2>3. (k + 1) * F = k * F + F /\ k * F \in Nat
    BY <1>1, <1>7, <2>1
  <2> QED
    BY <1>1, <1>5, <2>2, <2>3
<1>10. \A k : LedzEnd(p, k) = IF k * F < L THEN k * F ELSE L
  BY DEF LedzEnd, Ledz!Least, F, L
<1>11. \A k \in 0..(n - 1) : LedzEnd(p, k) = k * F
  BY <1>9, <1>10
<1>12. LedzEnd(p, n) = L
  BY <1>1, <1>5, <1>8, <1>10
<1>13. LedzEnd(p, 0) = 0
  <2>1. 0 \in 0..(n - 1) /\ 0 * F = 0
    BY <1>1, <1>5
  <2> QED
    BY <1>11, <2>1
<1>14. ASSUME NEW k \in 0..(n - 1)
       PROVE  /\ LedzEnd(p, k) < LedzEnd(p, k + 1)
              /\ LedzPart(p, k) = SubSeq(p, LedzEnd(p, k) + 1, LedzEnd(p, k + 1))
  <2>1. LedzPart(p, k) = SubSeq(p, k * F + 1, LedzEnd(p, k + 1))
    BY DEF LedzPart, LedzEnd, F
  <2>2. LedzEnd(p, k) = k * F
    BY <1>11
  <2>3. k * F < LedzEnd(p, k + 1)
    BY <1>1, <1>9, <1>10
  <2> QED
    BY <2>1, <2>2, <2>3
<1>15. ASSUME NEW k \in 0..n PROVE LedzEnd(p, k) \in 0..L
  <2>1. CASE k = n
    BY <1>1, <1>12, <2>1
  <2>2. CASE k # n
    <3>1. k \in 0..(n - 1)
      BY <1>5, <2>2
    <3> QED
      BY <1>1, <1>9, <1>11, <3>1
  <2> QED
    BY <2>1, <2>2
<1> QED
  BY <1>5, <1>12, <1>13, <1>14, <1>15 DEF L

LEMMA LedzFront ==
    \A S : \A s \in Seq(S) :
       /\ Ledz!Front(s) \in Seq(S)
       /\ Len(s) = 0 => Ledz!Front(s) = s
       /\ Len(s) > 0 => Len(Ledz!Front(s)) = Len(s) - 1
<1> SUFFICES ASSUME NEW S, NEW s \in Seq(S)
             PROVE  /\ Ledz!Front(s) \in Seq(S)
                    /\ Len(s) = 0 => Ledz!Front(s) = s
                    /\ Len(s) > 0 => Len(Ledz!Front(s)) = Len(s) - 1
  OBVIOUS
<1>1. Ledz!Front(s) = SubSeq(s, 1, Len(s) - 1) /\ Len(s) \in Nat
  BY DEF Ledz!Front
<1>2. CASE Len(s) = 0
  <2>1. s = <<>> /\ SubSeq(s, 1, Len(s) - 1) = <<>>
    BY <1>2
  <2> QED
    BY <1>1, <1>2, <2>1
<1>3. CASE Len(s) > 0
  <2>1. SubSeq(s, 1, Len(s) - 1) \in Seq(S) /\ Len(SubSeq(s, 1, Len(s) - 1)) = Len(s) - 1
    <3> DEFINE n == Len(s) - 1
    <3>1. n \in Nat /\ n <= Len(s)
      BY <1>1, <1>3
    <3> HIDE DEF n
    <3>2. SubSeq(s, 1, n) \in Seq(S) /\ Len(SubSeq(s, 1, n)) = n
      BY <3>1
    <3> QED
      BY <3>2 DEF n
  <2> QED
    BY <1>1, <1>3, <2>1
<1> QED
  BY <1>1, <1>2, <1>3

(* What reassemble makes of the frames of one request, if it accepts them.   *)
LEMMA LedzJoinedExact ==
    ASSUME Ledz!TypeOK, NEW r \in Resource, NEW frames \in Seq(Ledz!Wire),
           \A k \in 1..Len(frames) : frames[k].id = r,
           \A k \in DOMAIN frames : Ledz!Decodes(frames[k]),
           Ledz!Reassembles(frames), ~frames[1].note
    PROVE  Ledz!Joined(frames) = Ledz!RowsOf(r)
<1> DEFINE p == Ledz!RowsOf(r)
           q == [k \in DOMAIN frames |-> Ledz!Ordered(frames)[k].payload]
<1>1. p \in Seq(LedzRow) /\ Len(p) \in Nat
  BY LedzRows
<1>2. /\ DOMAIN frames = 1..Len(frames) /\ Len(frames) \in Nat \ {0}
      /\ \A k \in 1..Len(frames) : frames[k] \in Ledz!Wire
  <2>1. frames # <<>>
    BY DEF Ledz!Reassembles
  <2> QED
    BY <2>1
<1>3. Ledz!Joined(frames) = FlattenSeq(q)
  BY LedzFlattenSeq DEF Ledz!Joined
<1>4. CASE Len(frames) = 1 /\ ~Ledz!Fragmented(frames[1])
  <2> DEFINE f == frames[1]
  <2>1. LedzTells(f) /\ f.id = r /\ ~f.flagged
    <3>1. LedzTells(f) /\ f.id = r
      BY <1>2, <1>4, LedzWireTells
    <3> QED
      BY <1>4, <3>1 DEF LedzTells
  <2>2. f.index = 0 /\ (f.payload = p \/ f.payload = Ledz!Front(p)) /\ Len(f.payload) = Len(p)
    <3>1. Ledz!Decodes(f)
      BY <1>2, <1>4
    <3>2. Len(f.payload) = f.declared
      BY <2>1, <3>1 DEF Ledz!Decodes
    <3> QED
      BY <2>1, <3>2 DEF LedzTells
  <2>3. f.payload = p
    BY <1>1, <2>2, LedzFront
  <2>4. Ledz!Ordered(frames)[1] = f
    <3>1. Ledz!Indices(frames) = 0..(Len(frames) - 1)
      <4>1. DOMAIN frames = {1}
        BY <1>2, <1>4
      <4>2. Ledz!Indices(frames) = {0}
        BY <2>2, <4>1 DEF Ledz!Indices
      <4>3. 0..(1 - 1) = {0}
        OBVIOUS
      <4> QED
        BY <1>4, <4>2, <4>3
    <3>2. \A k \in 1..Len(frames) : \E i \in 1..Len(frames) :
             Ledz!Ordered(frames)[k] = frames[i] /\ frames[i].index = k - 1
      BY <3>1, LedzOrdered
    <3>3. 1 \in 1..Len(frames) /\ \A i \in 1..Len(frames) : i = 1
      BY <1>4
    <3> QED
      BY <3>2, <3>3
  <2>5. q \in Seq(Seq(LedzRow)) /\ Len(q) = 1 /\ q[1] = p
    <3>1. q = <<p>>
      <4>1. DOMAIN frames = 1..1
        BY <1>2, <1>4
      <4>2. q = [k \in 1..1 |-> p]
        BY <2>3, <2>4, <4>1
      <4> QED
        BY <4>2
    <3> QED
      BY <1>1, <3>1
  <2> HIDE DEF q, p
  <2>6. PICK h \in [0..Len(q) -> Seq(LedzRow)] : FlattenSeq(q) = h[Len(q)] /\ IsFlattening(h, q)
    <3>1. Len(q) > 0
      BY <2>5
    <3> QED
      BY <2>5, <3>1, FlattenUnfolds
  <2>7. h[1] = <<>> \o p
    <3>1. h[0 + 1] = h[0] \o q[0 + 1] /\ h[0] = <<>>
      <4>1. 0 \in 0..(Len(q) - 1)
        BY <2>5
      <4> QED
        BY <2>6, <4>1 DEF IsFlattening
    <3> QED
      BY <2>5, <3>1
  <2>8. <<>> \o p = p
    BY <1>1
  <2> QED
    BY <1>3, <2>5, <2>6, <2>7, <2>8 DEF p
<1>5. CASE ~(Len(frames) = 1 /\ ~Ledz!Fragmented(frames[1]))
  <2> DEFINE n == Len(frames)
             c == [k \in 0..n |-> LedzEnd(p, k)]
  <2>1. /\ \A k \in DOMAIN frames : Ledz!Fragmented(frames[k]) /\ frames[k].note = frames[1].note
        /\ n = frames[1].count /\ Ledz!Indices(frames) = 0..(n - 1)
        /\ Len(Ledz!Joined(frames)) = frames[1].declared
    BY <1>5 DEF Ledz!Reassembles
  <2>2. \A k \in 1..n : LedzTells(frames[k]) /\ frames[k].id = r /\ frames[k].flagged
    <3>1. \A k \in 1..n : LedzTells(frames[k]) /\ frames[k].id = r
      BY <1>2, <2>1, LedzWireTells
    <3>2. \A k \in 1..n : frames[k].count > 1
      BY <1>2, <2>1 DEF Ledz!Fragmented
    <3> QED
      BY <3>1, <3>2 DEF LedzTells
  <2>3. n = Ledz!Fragments(p) /\ frames[1].declared = Len(p)
    <3>1. 1 \in 1..n
      BY <1>2
    <3> QED
      BY <2>1, <2>2, <3>1 DEF LedzTells
  <2>4. /\ n \in Nat \ {0} /\ LedzEnd(p, 0) = 0 /\ LedzEnd(p, n) = Len(p)
        /\ \A k \in 0..n : LedzEnd(p, k) \in 0..Len(p)
        /\ \A k \in 0..(n - 1) :
             /\ LedzEnd(p, k) < LedzEnd(p, k + 1)
             /\ LedzPart(p, k) = SubSeq(p, LedzEnd(p, k) + 1, LedzEnd(p, k + 1))
    <3>1. n > 0
      BY <1>2
    <3> HIDE DEF n, p
    <3> QED
      BY <1>1, <2>3, <3>1, LedzParts
  <2>5. ASSUME NEW k \in 0..(n - 1)
        PROVE  /\ q[k + 1] \in Seq(LedzRow)
               /\ \/ q[k + 1] = SubSeq(p, c[k] + 1, c[k + 1])
                  \/ Len(q[k + 1]) < c[k + 1] - c[k]
    <3>1. k + 1 \in 1..n /\ (k + 1) - 1 = k /\ k \in 0..n /\ k + 1 \in 0..n
      BY <2>4
    <3>2. PICK i \in 1..n : Ledz!Ordered(frames)[k + 1] = frames[i] /\ frames[i].index = k
      <4>1. \A j \in 1..n : \E i \in 1..n :
               Ledz!Ordered(frames)[j] = frames[i] /\ frames[i].index = j - 1
        BY <2>1, LedzOrdered
      <4> QED
        BY <3>1, <4>1
    <3>3. q[k + 1] = frames[i].payload
      BY <1>2, <3>1, <3>2
    <3>4. q[k + 1] = LedzPart(p, k) \/ q[k + 1] = Ledz!Front(LedzPart(p, k))
      BY <2>2, <3>2, <3>3 DEF LedzTells
    <3>5. c[k] = LedzEnd(p, k) /\ c[k + 1] = LedzEnd(p, k + 1)
      BY <3>1
    <3> DEFINE x == c[k]
               y == c[k + 1]
               t == q[k + 1]
               u == LedzPart(p, k)
    <3>6. /\ x \in 0..Len(p) /\ y \in 0..Len(p) /\ x < y
          /\ u = SubSeq(p, x + 1, y) /\ (t = u \/ t = Ledz!Front(u))
      BY <2>4, <3>1, <3>4, <3>5
    <3> HIDE DEF x, y, t, u, p
    <3>7. u \in Seq(LedzRow) /\ Len(u) = y - x
      BY <1>1, <3>6
    <3>8. t \in Seq(LedzRow) /\ (t = SubSeq(p, x + 1, y) \/ Len(t) < y - x)
      <4>1. Ledz!Front(u) \in Seq(LedzRow) /\ Len(Ledz!Front(u)) = Len(u) - 1
        <5>1. Len(u) > 0
          BY <3>6, <3>7
        <5> QED
          BY <3>7, <5>1, LedzFront
      <4>2. CASE t = u
        BY <3>6, <3>7, <4>2
      <4>3. CASE t = Ledz!Front(u)
        <5>1. Len(t) < y - x
          BY <3>6, <3>7, <4>1, <4>3
        <5> QED
          BY <4>1, <4>3, <5>1
      <4> QED
        BY <3>6, <4>2, <4>3
    <3> QED
      BY <3>8 DEF x, y, t
  <2>6. c \in [0..n -> 0..Len(p)] /\ c[0] = 0 /\ c[n] = Len(p)
        /\ \A k \in 0..(n - 1) : c[k] <= c[k + 1]
    <3>1. 0 \in 0..n /\ n \in 0..n /\ \A k \in 0..(n - 1) : k \in 0..n /\ k + 1 \in 0..n
      BY <2>4
    <3>2. c \in [0..n -> 0..Len(p)] /\ c[0] = 0 /\ c[n] = Len(p)
      BY <2>4, <3>1
    <3>3. ASSUME NEW k \in 0..(n - 1) PROVE c[k] <= c[k + 1]
      BY <2>4, <3>1
    <3> QED
      BY <3>2, <3>3
  <2>7. q \in Seq(Seq(LedzRow)) /\ Len(q) = n
    <3>1. \A k \in 1..n : q[k] \in Seq(LedzRow)
      <4> TAKE k \in 1..n
      <4>1. k - 1 \in 0..(n - 1) /\ (k - 1) + 1 = k
        BY <2>4
      <4> HIDE DEF q
      <4> QED
        BY <2>5, <4>1
    <3>2. q \in [1..n -> Seq(LedzRow)]
      <4>1. DOMAIN q = 1..n /\ q = [k \in 1..n |-> q[k]]
        BY <1>2
      <4> HIDE DEF q
      <4> QED
        BY <3>1, <4>1
    <3> HIDE DEF q, n
    <3> QED
      BY <2>4, <3>2
  <2>8. Len(FlattenSeq(q)) = Len(p)
    BY <1>3, <2>1, <2>3
  <2>9. n \in Nat \ {0}
    BY <2>4
  <2>10. \A k \in 0..(n - 1) : /\ c[k] <= c[k + 1]
                               /\ \/ q[k + 1] = SubSeq(p, c[k] + 1, c[k + 1])
                                  \/ Len(q[k + 1]) < c[k + 1] - c[k]
    BY <2>5, <2>6
  <2> HIDE DEF p, q, n, c
  <2>11. FlattenSeq(q) = p
    BY <1>1, <2>6, <2>7, <2>8, <2>9, <2>10, PiecesMakeWhole
  <2> QED
    BY <1>3, <2>11 DEF p
<1> QED
  BY <1>4, <1>5

(* What AnswersAreExact says of one answer and the rows normalized from it.  *)
LedzExact(r, norm) ==
    LET told == Ledz!RowsOf(r) IN
    /\ Ledz!ToSet(norm.items) = {row \in Ledz!ToSet(told) : row.kind = "usable"}
    /\ \A j, k \in DOMAIN norm.items : j < k => norm.items[j].place < norm.items[k].place
    /\ norm.quality = "good" =>
         \A k \in DOMAIN told : told[k].kind \in {"usable", "hidden"}

LEMMA LedzNormalizes ==
    ASSUME Ledz!TypeOK, NEW r \in Resource
    PROVE  LedzExact(r, Ledz!Normalize(Ledz!RowsOf(r)))
<1> DEFINE p == Ledz!RowsOf(r)
           a == answers[r]
           norm == Ledz!Normalize(p)
           usable == {row \in Ledz!ToSet(p) : row.kind = "usable"}
           kinds == [k \in DOMAIN p |-> p[k].kind]
<1>1. /\ p \in Seq(LedzRow) /\ Len(p) \in Nat /\ DOMAIN p = 1..Len(p)
      /\ \A i \in 1..Len(p) : p[i] = [of |-> r, place |-> i, kind |-> a[i]]
      /\ a \in Seq(Ledz!RowKind) \/ a = <<"refused">>
      /\ Len(a) = Len(p)
  <2>1. p \in Seq(LedzRow)
    BY LedzRows
  <2>2. Len(p) \in Nat /\ DOMAIN p = 1..Len(p)
    <3> HIDE DEF p
    <3> QED
      BY <2>1
  <2> QED
    BY <2>1, <2>2, LedzRows
<1>2. \A i \in 1..Len(p) : p[i].place = i /\ p[i].kind = a[i]
  <2> HIDE DEF p, a
  <2> QED
    BY <1>1
<1>3. Ledz!ToSet(p) = {p[i] : i \in 1..Len(p)}
  BY <1>1 DEF Ledz!ToSet
<1>4. CASE kinds = Ledz!Refused
  <2>1. norm.items = <<>> /\ norm.quality = "unknown"
    BY <1>4 DEF Ledz!Normalize
  <2>2. \A i \in 1..Len(p) : p[i].kind = "refused"
    <3>1. DOMAIN kinds = 1..Len(p) /\ \A i \in 1..Len(p) : kinds[i] = p[i].kind
      BY <1>1
    <3>2. kinds = <<"refused">>
      BY <1>4 DEF Ledz!Refused
    <3>3. DOMAIN <<"refused">> = {1} /\ <<"refused">>[1] = "refused"
      OBVIOUS
    <3> HIDE DEF kinds, p
    <3> QED
      BY <3>1, <3>2, <3>3
  <2>3. usable = {}
    <3> HIDE DEF p
    <3> QED
      BY <1>3, <2>2
  <2>4. Ledz!ToSet(norm.items) = {} /\ DOMAIN norm.items = {}
    <3> HIDE DEF norm
    <3> QED
      BY <2>1 DEF Ledz!ToSet
  <2> HIDE DEF norm
  <2>5. LedzExact(r, norm)
    BY <2>1, <2>3, <2>4 DEF LedzExact
  <2> QED
    BY <2>5 DEF norm
<1>5. CASE kinds # Ledz!Refused
  <2> DEFINE items == Ledz!Picked(p, usable)
             invalid == Ledz!Count(p, "invalid")
             unmapped == Ledz!Count(p, "unmapped")
  <2>1. /\ norm.items = items
        /\ norm.quality = (CASE invalid > 0 -> "invalid"
                          [] invalid = 0 /\ unmapped > 0 -> "unknown"
                          [] OTHER -> "good")
    BY <1>5 DEF Ledz!Normalize, Ledz!Items
  <2>2. items \in Seq(LedzRow) /\ IsPickedFrom(items, p, Len(p), usable)
    <3> HIDE DEF p, usable
    <3> QED
      BY <1>1, LedzPicked
  <2> HIDE DEF items, norm, p
  <2>3. DOMAIN items = 1..Len(items)
    BY <2>2
  <2>4. Ledz!ToSet(items) = usable
    <3>1. \A i \in 1..Len(p) : p[i] \in usable => \E j \in 1..Len(items) : items[j] = p[i]
      BY <2>2 DEF IsPickedFrom, IsIn
    <3>2. \A j \in 1..Len(items) : items[j] \in usable
      BY <2>2 DEF IsPickedFrom
    <3>3. \A x \in usable : \E i \in 1..Len(p) : x = p[i]
      BY <1>3
    <3> HIDE DEF usable
    <3>4. \A x \in usable : \E j \in 1..Len(items) : items[j] = x
      BY <3>1, <3>3
    <3> QED
      BY <2>3, <3>2, <3>4 DEF Ledz!ToSet
  <2>5. ASSUME NEW j \in 1..Len(items), NEW k \in 1..Len(items), j < k
        PROVE  items[j].place < items[k].place
    <3>1. PICK i \in 1..Len(p), m \in 1..Len(p) : i < m /\ items[j] = p[i] /\ items[k] = p[m]
      BY <2>2, <2>5 DEF IsPickedFrom
    <3> QED
      BY <1>2, <3>1
  <2>6. ASSUME norm.quality = "good", NEW k \in 1..Len(p)
        PROVE  p[k].kind \in {"usable", "hidden"}
    <3>1. /\ \A kind : IsFiniteSet({i \in DOMAIN p : p[i].kind = kind})
          /\ \A kind : Ledz!Count(p, kind) = Cardinality({i \in DOMAIN p : p[i].kind = kind})
      <4>1. IsFiniteSet(1..Len(p))
        BY <1>1, FS_Interval
      <4>2. \A kind : {i \in DOMAIN p : p[i].kind = kind} \subseteq 1..Len(p)
        BY <1>1
      <4> QED
        BY <4>1, <4>2, FS_Subset, LedzCardinality DEF Ledz!Count
    <3>2. \A kind : /\ Ledz!Count(p, kind) \in Nat
                    /\ Ledz!Count(p, kind) = 0 => ~\E i \in DOMAIN p : p[i].kind = kind
      <4> TAKE kind
      <4> DEFINE places == {i \in DOMAIN p : p[i].kind = kind}
      <4>1. IsFiniteSet(places) /\ Ledz!Count(p, kind) = Cardinality(places)
        BY <3>1
      <4>2. Cardinality(places) \in Nat /\ (Cardinality(places) = 0 => places = {})
        <5> HIDE DEF places
        <5> QED
          BY <4>1, FS_CardinalityType, FS_EmptySet
      <4> QED
        BY <4>1, <4>2
    <3>3. invalid = 0 /\ unmapped = 0
      <4>1. invalid \in Nat /\ unmapped \in Nat
        BY <3>2
      <4> HIDE DEF invalid, unmapped
      <4> QED
        BY <2>1, <2>6, <4>1
    <3>4. p[k].kind # "invalid" /\ p[k].kind # "unmapped"
      BY <1>1, <3>2, <3>3
    <3>5. a \in Seq(Ledz!RowKind)
      <4> SUFFICES ASSUME a = <<"refused">> PROVE FALSE
        BY <1>1
      <4>1. Len(a) = 1 /\ a[1] = "refused"
        OBVIOUS
      <4> HIDE DEF a
      <4>2. DOMAIN p = 1..1 /\ p[1].kind = "refused"
        BY <1>1, <1>2, <4>1
      <4>3. kinds = [i \in 1..1 |-> "refused"]
        BY <4>2
      <4>4. kinds = <<"refused">>
        BY <4>3
      <4> QED
        BY <1>5, <4>4 DEF Ledz!Refused
    <3>6. p[k].kind \in Ledz!RowKind
      <4>1. p[k].kind = a[k] /\ k \in 1..Len(a)
        BY <1>1, <1>2
      <4> HIDE DEF a
      <4> QED
        BY <3>5, <4>1
    <3> QED
      BY <3>4, <3>6 DEF Ledz!RowKind
  <2>7. LedzExact(r, norm)
    <3>1. /\ Ledz!ToSet(norm.items) = usable
          /\ \A j, k \in DOMAIN norm.items : j < k => norm.items[j].place < norm.items[k].place
          /\ norm.quality = "good" => \A k \in DOMAIN p : p[k].kind \in {"usable", "hidden"}
      <4> HIDE DEF usable
      <4> QED
        BY <1>1, <2>1, <2>3, <2>4, <2>5, <2>6
    <3> QED
      BY <3>1, Zenon DEF LedzExact, p
  <2> QED
    BY <2>7 DEF norm, p
<1> QED
  BY <1>4, <1>5

(* The frames of an ID are some of those that came, in an order.            *)
LEMMA LedzFramesOf ==
    ASSUME Ledz!TypeOK, IsFiniteSet(received), NEW r,
           NEW order \in Ledz!SetToSeqs(received)
    PROVE  /\ Ledz!FramesOf(r, order) \in Seq(Ledz!Wire)
           /\ \A k \in 1..Len(Ledz!FramesOf(r, order)) : Ledz!FramesOf(r, order)[k].id = r
<1> DEFINE mine == {m \in received : m.frame.id = r}
           found == Ledz!Picked(order, mine)
           frames == Ledz!FramesOf(r, order)
<1>1. order \in Seq(received)
  <2>1. Cardinality(received) \in Nat
    BY FS_CardinalityType
  <2>2. order \in [1..Cardinality(received) -> received]
    BY LedzCardinality DEF Ledz!SetToSeqs
  <2> QED
    BY <2>1, <2>2
<1>2. found \in Seq(received) /\ IsPickedFrom(found, order, Len(order), mine)
  <2> HIDE DEF mine
  <2> QED
    BY <1>1, LedzPicked
<1>3. frames = [k \in DOMAIN found |-> found[k].frame]
  BY DEF Ledz!FramesOf
<1> HIDE DEF found, frames
<1>4. \A k \in 1..Len(found) : found[k] \in mine /\ found[k].frame \in Ledz!Wire
  <2> TAKE k \in 1..Len(found)
  <2>1. found[k] \in mine
    BY <1>2 DEF IsPickedFrom
  <2>2. found[k] \in received
    BY <2>1
  <2>3. found[k].frame \in Ledz!Wire
    BY <2>2 DEF Ledz!TypeOK
  <2> QED
    BY <2>1, <2>3
<1>5. DOMAIN found = 1..Len(found) /\ Len(found) \in Nat
  BY <1>2
<1>6. frames \in [1..Len(found) -> Ledz!Wire]
  BY <1>3, <1>4, <1>5
<1>7. frames \in Seq(Ledz!Wire) /\ Len(frames) = Len(found)
  BY <1>5, <1>6
<1>8. \A k \in 1..Len(frames) : frames[k].id = r
  BY <1>3, <1>4, <1>5, <1>7
<1> QED
  BY <1>7, <1>8 DEF frames

(* What was normalized is exact as long as the batch is.                    *)
LedzInv ==
    /\ Ledz!TypeOK
    /\ IsFiniteSet(received)
    /\ reading = "accepted" => \A r \in Resource : LedzExact(r, normalized[r])

LEMMA LedzInvReceive == ASSUME LedzInv, Ledz!Receive PROVE LedzInv'
<1>1. PICK f \in Ledz!Wire :
        received' = received \cup
          {[frame |-> f, copy |-> IF [frame |-> f, copy |-> 1] \in received THEN 2 ELSE 1]}
  BY DEF Ledz!Receive
<1>2. reading = "open" /\ UNCHANGED <<answers, reading, normalized>>
  BY DEF Ledz!Receive
<1>3. Ledz!Wire' = Ledz!Wire
  BY <1>2 DEF Ledz!Wire, Ledz!AnswerFrames, Ledz!NoticeFrames, Ledz!RowsOf
<1>4. received' \subseteq [frame : Ledz!Wire, copy : 1..2]
  BY <1>1 DEF LedzInv, Ledz!TypeOK
<1>5. IsFiniteSet(received')
  BY <1>1, FS_AddElement DEF LedzInv
<1> QED
  BY <1>2, <1>3, <1>4, <1>5 DEF LedzInv, Ledz!TypeOK

LEMMA LedzInvRead == ASSUME LedzInv, Ledz!Read PROVE LedzInv'
<1>1. reading = "open" /\ UNCHANGED <<answers, received>>
  BY DEF Ledz!Read
<1>2. Ledz!Wire' = Ledz!Wire /\ \A r : Ledz!RowsOf(r)' = Ledz!RowsOf(r)
  BY <1>1 DEF Ledz!Wire, Ledz!AnswerFrames, Ledz!NoticeFrames, Ledz!RowsOf
<1>3. PICK order \in Ledz!SetToSeqs(received) :
        LET frames == [r \in Resource |-> Ledz!FramesOf(r, order)] IN
        IF Ledz!Correlates(frames)
        THEN /\ reading' = "accepted"
             /\ normalized' = [r \in Resource |-> Ledz!Normalize(Ledz!Joined(frames[r]))]
        ELSE reading' = "rejected" /\ UNCHANGED normalized
  BY DEF Ledz!Read, Ledz!Handovers
<1> DEFINE frames == [r \in Resource |-> Ledz!FramesOf(r, order)]
<1>4. CASE Ledz!Correlates(frames)
  <2>1. /\ reading' = "accepted"
        /\ normalized' = [r \in Resource |-> Ledz!Normalize(Ledz!Joined(frames[r]))]
    BY <1>3, <1>4
  <2>2. ASSUME NEW r \in Resource PROVE Ledz!Joined(frames[r]) = Ledz!RowsOf(r)
    <3> DEFINE mine == frames[r]
    <3>1. mine = Ledz!FramesOf(r, order)
      OBVIOUS
    <3>2. /\ \A k \in DOMAIN mine : Ledz!Decodes(mine[k])
          /\ Ledz!Reassembles(mine) /\ ~mine[1].note
      <4> HIDE DEF frames
      <4> QED
        BY <1>4 DEF Ledz!Correlates
    <3> HIDE DEF mine
    <3>3. mine \in Seq(Ledz!Wire) /\ \A k \in 1..Len(mine) : mine[k].id = r
      BY <3>1, LedzFramesOf DEF LedzInv
    <3>4. Ledz!Joined(mine) = Ledz!RowsOf(r)
      BY <3>2, <3>3, LedzJoinedExact DEF LedzInv
    <3> QED
      BY <3>4 DEF mine
  <2>3. normalized' = [r \in Resource |-> Ledz!Normalize(Ledz!RowsOf(r))]
    <3> HIDE DEF frames
    <3> QED
      BY <2>1, <2>2
  <2>4. \A r \in Resource : LedzExact(r, normalized'[r])
    BY <2>3, LedzNormalizes DEF LedzInv
  <2>5. \A r \in Resource : LedzExact(r, normalized[r])'
    BY <1>2, <2>4 DEF LedzExact
  <2> QED
    BY <1>1, <1>2, <2>1, <2>3, <2>5 DEF LedzInv, Ledz!TypeOK
<1>5. CASE ~Ledz!Correlates(frames)
  <2>1. reading' = "rejected" /\ UNCHANGED normalized
    BY <1>3, <1>5
  <2> QED
    BY <1>1, <1>2, <2>1 DEF LedzInv, Ledz!TypeOK
<1> QED
  BY <1>4, <1>5

LEMMA LedzInvNext == LedzInv /\ [Ledz!Next]_(Ledz!vars) => LedzInv'
<1> SUFFICES ASSUME LedzInv, [Ledz!Next]_(Ledz!vars) PROVE LedzInv'
  OBVIOUS
<1>1. CASE Ledz!NextBatch
  <2>1. /\ answers' \in [Resource -> Answer] /\ received' = {} /\ reading' = "open"
        /\ normalized' = [r \in {} |-> <<>>]
    BY <1>1 DEF Ledz!NextBatch
  <2>2. IsFiniteSet({})
    BY FS_EmptySet
  <2> QED
    BY <2>1, <2>2 DEF LedzInv, Ledz!TypeOK
<1>2. CASE UNCHANGED Ledz!vars
  <2>1. UNCHANGED <<answers, received, reading, normalized>>
    BY <1>2 DEF Ledz!vars
  <2>2. Ledz!Wire' = Ledz!Wire /\ \A r : Ledz!RowsOf(r)' = Ledz!RowsOf(r)
    BY <2>1 DEF Ledz!Wire, Ledz!AnswerFrames, Ledz!NoticeFrames, Ledz!RowsOf
  <2> QED
    BY <2>1, <2>2 DEF LedzInv, Ledz!TypeOK, LedzExact
<1> QED
  BY <1>1, <1>2, LedzInvReceive, LedzInvRead DEF Ledz!Next

LEMMA LedzInvariant == Spec => []LedzInv
<1>1. Ledz!Init => LedzInv
  <2> SUFFICES ASSUME Ledz!Init PROVE LedzInv
    OBVIOUS
  <2>1. IsFiniteSet({})
    BY FS_EmptySet
  <2> QED
    BY <2>1 DEF Ledz!Init, LedzInv, Ledz!TypeOK
<1> QED
  BY <1>1, LedzInvNext, LedzBehaves, PTL

(* The frames that came for a batch are of the wire, and only a batch that   *)
(* was accepted has normalized answers.                                     *)
THEOREM LedzTypeCorrect == Spec => []Ledz!TypeOK
<1>1. LedzInv => Ledz!TypeOK
  BY DEF LedzInv
<1> QED
  BY <1>1, LedzInvariant, PTL

(* A batch of the lighting gateway is rejected or every resource gets the    *)
(* rows of its own answer, each once and in order, whatever frames were      *)
(* lost, repeated, mixed up or damaged.                                     *)
THEOREM LedzCorrect == Spec => []Ledz!AnswersAreExact
<1>1. LedzInv => Ledz!AnswersAreExact
  BY DEF LedzInv, LedzExact, Ledz!AnswersAreExact
<1> QED
  BY <1>1, LedzInvariant, PTL
=============================================================================
