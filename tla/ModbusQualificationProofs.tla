--------------------- MODULE ModbusQualificationProofs ---------------------
(***************************************************************************)
(* An identifier of the continuity state names one boot of the host, and a *)
(* run stores one snapshot, for every window, retry budget and bound.       *)
(***************************************************************************)
EXTENDS ModbusQualification, TLAPS, FiniteSetTheorems

(* The state is well-typed in every reachable state of the specification.  *)
THEOREM TypeCorrect == Spec => []TypeOK
<1>1. Init => TypeOK
  BY AttemptsAssumption, BoundsAssumption
  DEF Init, TypeOK, NoState, NoEvidence, Snapshot
<1>2. TypeOK /\ [Next]_vars => TypeOK'
  <2> SUFFICES ASSUME TypeOK, [Next]_vars PROVE TypeOK'
    OBVIOUS
  <2> USE AttemptsAssumption, BoundsAssumption
  <2>0. ASSUME StartRun
        PROVE due' \in BOOLEAN /\ run' \in Nat /\ attempt' \in 0..MaxAttempts
    <3>1. due' = FALSE /\ run' = run + 1 /\ attempt' = 1
      BY <2>0, Zenon DEF StartRun
    <3>2. due' \in BOOLEAN
      BY <3>1, Zenon
    <3>3. run' \in Nat /\ attempt' \in 0..MaxAttempts
      BY <3>1 DEF TypeOK
    <3> QED
      BY <3>2, <3>3
  <2>1. ASSUME NEW marker \in Nat, WriteState(marker)
        PROVE /\ state' \in [id : Nat, at : Nat, boot : Nat]
              /\ nextId' \in Nat \ {0}
    BY <2>1 DEF TypeOK, WriteState, Identifier
  <2>a. ASSUME NEW marker \in Nat, PrepareWith(marker)
        PROVE evidence' \in [id : Nat, reason : Reasons \cup {"none"}]
    <3>1. ReasonFor(marker) \in Reasons
      BY DEF ReasonFor, Reasons
    <3>2. Identifier(marker) \in Nat
      BY DEF TypeOK, Identifier
    <3> QED
      BY <2>a, <3>1, <3>2 DEF PrepareWith
  <2>b. ASSUME StartRun, NEW marker \in Nat, PrepareWith(marker), pc' = "read",
               faults' \in 0..MaxFaults, streak' \in Nat,
               UNCHANGED <<now, boot, raw, recs>>
        PROVE TypeOK'
    BY <2>0, <2>1, <2>a, <2>b DEF TypeOK, PrepareWith
  <2>2. CASE Tick
    BY <2>2 DEF TypeOK, Tick
  <2>3. CASE Reboot
    BY <2>3 DEF TypeOK, Reboot, Fault, EndRun, NoEvidence
  <2>4. CASE LoseState
    BY <2>4 DEF TypeOK, LoseState, Fault, NoState
  <2>5. CASE Prepare
    BY <2>b, <2>5 DEF TypeOK, Prepare
  <2>6. CASE PrepareWithoutMarker
    BY <2>b, <2>6 DEF TypeOK, PrepareWithoutMarker, Fault, NoMarker
  <2>7. CASE PrepareFails
    BY <2>0, <2>1, <2>7 DEF TypeOK, PrepareFails, Fault, NoEvidence
  <2>8. CASE TransportError
    BY <2>8 DEF TypeOK, TransportError
  <2>9. CASE CommandEnds
    BY <2>9 DEF TypeOK, CommandEnds, Fault, EndRun, NoEvidence
  <2>10. CASE SaveRawData
    BY <2>10 DEF TypeOK, SaveRawData, Snapshot
  <2>11. CASE SaveRecords
    BY <2>11 DEF TypeOK, SaveRecords, EndRun, NoEvidence
  <2>12. CASE UNCHANGED vars
    BY <2>12 DEF TypeOK, vars
  <2> QED
    BY <2>2, <2>3, <2>4, <2>5, <2>6, <2>7, <2>8, <2>9, <2>10, <2>11, <2>12 DEF Next
<1> QED
  BY <1>1, <1>2, PTL DEF Spec

-----------------------------------------------------------------------------
(* The invariant behind the identifiers *)

\* No identifier is in use before it is handed out.
IdsAreFresh ==
    /\ state.id < nextId
    /\ evidence.id < nextId
    /\ \A s \in raw : s.id < nextId

\* The snapshots that carry the identifier of the state file were taken in the
\* boot the file names, if it names one.
FileNamesBoot ==
    state.boot # NoMarker =>
        \A s \in raw : s.id = state.id /\ s.id # NoEvidence.id => s.boot = state.boot

\* A run collects in the boot in which it was given its identifier.
RunIsInBoot ==
    evidence.id # NoEvidence.id =>
        /\ \A s \in raw : s.id = evidence.id => s.boot = boot
        /\ state.id = evidence.id => state.boot \in {NoMarker, boot}

IdInv == TypeOK /\ IdsAreFresh /\ FileNamesBoot /\ RunIsInBoot /\ IdentifierNamesOneBoot

\* An identifier is kept only when the state file names the boot of the run.
LEMMA KeptIdentifier ==
    ASSUME NEW marker, ~Renew(ReasonFor(marker))
    PROVE  marker # NoMarker /\ state.boot = marker
BY DEF Renew, ReasonFor

\* Replacing the state keeps the identifiers apart; what it names is the boot
\* of the run or nothing.
LEMMA StateKeepsIds ==
    ASSUME IdInv, NEW marker \in {NoMarker, boot}, WriteState(marker),
           UNCHANGED <<raw, boot>>,
           evidence' \in {NoEvidence,
                          [id |-> Identifier(marker), reason |-> ReasonFor(marker)]}
    PROVE  IdsAreFresh' /\ FileNamesBoot' /\ RunIsInBoot'
<1> USE DEF IdInv, TypeOK, IdsAreFresh, FileNamesBoot, RunIsInBoot, WriteState,
            Identifier, Snapshot, NoEvidence, NoMarker
<1>1. CASE Renew(ReasonFor(marker))
  <2>1. /\ state' = [id |-> nextId, at |-> now, boot |-> marker]
        /\ evidence'.id \in {0, nextId}
        /\ nextId' = nextId + 1
    BY <1>1
  <2>2. \A s \in raw : s.id \in Nat /\ s.id < nextId
    OBVIOUS
  <2> QED
    BY <2>1, <2>2
<1>2. CASE ~Renew(ReasonFor(marker))
  <2>1. marker # NoMarker /\ state.boot = marker
    BY <1>2, KeptIdentifier
  <2>2. /\ state' = [id |-> state.id, at |-> now, boot |-> marker]
        /\ evidence'.id \in {0, state.id}
        /\ nextId' = nextId
    BY <1>2
  <2> QED
    BY <2>1, <2>2
<1> QED
  BY <1>1, <1>2

LEMMA IdInvCorrect == Spec => []IdInv
<1>1. Init => IdInv
  BY AttemptsAssumption, BoundsAssumption
  DEF Init, IdInv, TypeOK, IdsAreFresh, FileNamesBoot, RunIsInBoot,
      IdentifierNamesOneBoot, NoState, NoEvidence, NoMarker, Snapshot
<1>2. IdInv /\ TypeOK' /\ [Next]_vars => IdInv'
  <2> SUFFICES ASSUME IdInv, TypeOK', [Next]_vars PROVE IdInv'
    OBVIOUS
  <2> USE DEF IdInv
  <2>1. ASSUME UNCHANGED <<raw, boot>>
        PROVE IdentifierNamesOneBoot'
    BY <2>1 DEF IdentifierNamesOneBoot
  <2>2. ASSUME UNCHANGED <<raw, boot, state, nextId>>,
               evidence' \in {evidence, NoEvidence}
        PROVE IdInv'
    BY <2>1, <2>2 DEF TypeOK, IdsAreFresh, FileNamesBoot, RunIsInBoot, NoEvidence
  <2>3. CASE Tick
    BY <2>2, <2>3 DEF Tick
  <2>4. CASE Reboot
    BY <2>4 DEF Reboot, EndRun, TypeOK, IdsAreFresh, FileNamesBoot, RunIsInBoot,
                IdentifierNamesOneBoot, NoEvidence
  <2>5. CASE LoseState
    BY <2>1, <2>5 DEF LoseState, NoState, TypeOK, IdsAreFresh, FileNamesBoot,
                      RunIsInBoot, NoEvidence, NoMarker
  <2>6. CASE Prepare
    BY <2>1, <2>6, StateKeepsIds DEF Prepare, PrepareWith
  <2>7. CASE PrepareWithoutMarker
    BY <2>1, <2>7, StateKeepsIds DEF PrepareWithoutMarker, PrepareWith
  <2>8. CASE PrepareFails
    BY <2>1, <2>2, <2>8, StateKeepsIds DEF PrepareFails
  <2>9. CASE TransportError
    BY <2>2, <2>9 DEF TransportError
  <2>10. CASE CommandEnds
    BY <2>2, <2>10 DEF CommandEnds, EndRun
  <2>11. CASE SaveRawData
    <3> DEFINE s == [at |-> now, run |-> run, id |-> evidence.id,
                     reason |-> evidence.reason, boot |-> boot]
    <3>1. raw' = raw \cup {s} /\ s.id = evidence.id /\ s.boot = boot
      BY <2>11 DEF SaveRawData
    <3> HIDE DEF s
    <3>2. UNCHANGED <<boot, state, nextId, evidence>>
      BY <2>11 DEF SaveRawData
    <3>3. IdsAreFresh' /\ RunIsInBoot' /\ IdentifierNamesOneBoot'
      BY <3>1, <3>2 DEF IdsAreFresh, RunIsInBoot, IdentifierNamesOneBoot, NoEvidence
    <3>4. FileNamesBoot'
      BY <3>1, <3>2 DEF FileNamesBoot, RunIsInBoot, NoEvidence, NoMarker
    <3> QED
      BY <3>3, <3>4
  <2>12. CASE SaveRecords
    BY <2>2, <2>12 DEF SaveRecords, EndRun
  <2>13. CASE UNCHANGED vars
    BY <2>2, <2>13 DEF vars
  <2> QED
    BY <2>3, <2>4, <2>5, <2>6, <2>7, <2>8, <2>9, <2>10, <2>11, <2>12, <2>13 DEF Next
<1> QED
  BY <1>1, <1>2, TypeCorrect, PTL DEF Spec

\* docs/integrations/fusionsolar/modbus-cutover.md: the time before and after a
\* reboot is never joined.  Whatever is lost or fails in between, the
\* identifiers that prepare hands out separate the boots.
THEOREM IdentifiersSeparateBoots == Spec => []IdentifierNamesOneBoot
<1>1. IdInv => IdentifierNamesOneBoot
  BY DEF IdInv
<1> QED
  BY <1>1, IdInvCorrect, PTL

\* What qualify-modbus accepts was observed in one boot of the host.
THEOREM QualifiedWithoutReboot == Spec => []QualifiedIsUnbroken
<1>1. IdentifierNamesOneBoot => QualifiedIsUnbroken
  BY DEF IdentifierNamesOneBoot, QualifiedIsUnbroken, Qualified, Current, Epoch
<1> QED
  BY <1>1, IdentifiersSeparateBoots, PTL

-----------------------------------------------------------------------------
(* A run that may still collect has stored nothing *)

RunInv ==
    /\ TypeOK
    /\ \A s \in raw : s.run <= run
    /\ pc = "read" => \A s \in raw : s.run # run
    /\ OneSnapshotPerRun

LEMMA RunInvCorrect == Spec => []RunInv
<1>1. Init => RunInv
  BY AttemptsAssumption, BoundsAssumption
  DEF Init, RunInv, TypeOK, OneSnapshotPerRun, NoState, NoEvidence, Snapshot
<1>2. RunInv /\ TypeOK' /\ [Next]_vars => RunInv'
  <2> SUFFICES ASSUME RunInv, TypeOK', [Next]_vars PROVE RunInv'
    OBVIOUS
  <2> USE DEF RunInv, OneSnapshotPerRun
  <2>1. \A s \in raw : s.run \in Nat
    BY DEF TypeOK, Snapshot
  <2>2. ASSUME StartRun, raw' = raw PROVE RunInv'
    BY <2>1, <2>2 DEF StartRun, TypeOK
  <2>3. ASSUME UNCHANGED <<raw, run>>, pc' # "read" \/ pc' = pc PROVE RunInv'
    BY <2>3
  <2>4. CASE Prepare \/ PrepareWithoutMarker \/ PrepareFails
    BY <2>2, <2>4 DEF Prepare, PrepareWithoutMarker, PrepareFails
  <2>5. CASE SaveRawData
    <3> DEFINE t == [at |-> now, run |-> run, id |-> evidence.id,
                     reason |-> evidence.reason, boot |-> boot]
    <3>1. raw' = raw \cup {t} /\ t.run = run
      BY <2>5 DEF SaveRawData
    <3> HIDE DEF t
    <3>2. pc = "read" /\ pc' = "build" /\ run' = run /\ run \in Nat
      BY <2>5 DEF SaveRawData, TypeOK
    <3> QED
      BY <2>1, <3>1, <3>2
  <2>6. CASE Tick \/ Reboot \/ LoseState \/ TransportError \/ CommandEnds \/ SaveRecords
    BY <2>3, <2>6 DEF Tick, Reboot, LoseState, TransportError, CommandEnds,
                      SaveRecords, EndRun
  <2>7. CASE UNCHANGED vars
    BY <2>3, <2>7 DEF vars
  <2> QED
    BY <2>4, <2>5, <2>6, <2>7 DEF Next
<1> QED
  BY <1>1, <1>2, TypeCorrect, PTL DEF Spec

\* run_modbus_realtime.sh repeats an attempt only when nothing was persisted,
\* so that a run stores one snapshot at most.
THEOREM RunsStoreOnce == Spec => []OneSnapshotPerRun
<1>1. RunInv => OneSnapshotPerRun
  BY DEF RunInv
<1> QED
  BY <1>1, RunInvCorrect, PTL

-----------------------------------------------------------------------------
(* The gate can be passed *)

\* The last run that is over, and the interval it fell into, while a streak
\* lasts.
LastRun == IF pc = "idle" THEN run ELSE run - 1
LastAt == IF pc = "idle" /\ ~due THEN now ELSE now - 1

NoBootEvidence == {"none", "boot_evidence_unavailable"}

\* Snapshots are taken in the order of their runs.
Ordered ==
    /\ \A s \in raw : s.at <= now
    /\ \A s, t \in raw : s.run < t.run => s.at <= t.at

\* An identifier that was handed out without boot evidence is never kept.
MarkedIds ==
    /\ state.boot # NoMarker =>
         /\ state.id # NoEvidence.id
         /\ \A s \in raw : s.id = state.id => s.reason # "boot_evidence_unavailable"
    /\ evidence.reason = "boot_evidence_unavailable" => state.boot = NoMarker

\* The snapshot of a run that is still to store its Records.
Built ==
    pc = "build" =>
        \E s \in raw : /\ s.run = run
                       /\ s.id = evidence.id
                       /\ s.reason = evidence.reason
                       /\ ~due => s.at = now

\* The run of a streak i intervals before its last one.
Member(i) ==
    \E s \in raw : /\ s.run = LastRun - i
                   /\ s.at = LastAt - i
                   /\ s.run \in recs
                   /\ s.reason \notin NoBootEvidence
                   /\ i < streak - 1 => s.id = state.id

\* From the second run of a streak on the state file is the one its last run
\* wrote; a run in progress has the identifier of the file.
FileOfStreak ==
    /\ streak > 0 /\ pc # "idle" =>
         /\ ~due
         /\ state.at = now /\ state.boot = boot
         /\ evidence.id = state.id
    /\ streak > 1 /\ pc = "idle" => state.at = LastAt /\ state.boot = boot

StreakInv ==
    /\ Ordered
    /\ MarkedIds
    /\ Built
    /\ FileOfStreak
    /\ \A i \in 0..(streak - 1) : Member(i)


\* Time goes on, and a snapshot is stored under the latest run.
LEMMA OrderedKept ==
    ASSUME RunInv, Ordered, [Next]_vars
    PROVE  Ordered'
<1>1. now \in Nat /\ raw \subseteq Snapshot
  BY DEF RunInv, TypeOK
<1>2. ASSUME raw' = raw, now' \in {now, now + 1}  PROVE Ordered'
  BY <1>1, <1>2 DEF Ordered, Snapshot
<1>3. CASE SaveRawData
  <2> DEFINE t == [at |-> now, run |-> run, id |-> evidence.id,
                   reason |-> evidence.reason, boot |-> boot]
  <2>1. raw' = raw \cup {t} /\ t.run = run /\ t.at = now /\ now' = now
    BY <1>3 DEF SaveRawData
  <2> HIDE DEF t
  <2>2. \A s \in raw : s.run <= run /\ s.run # run /\ s.run \in Nat
    BY <1>3 DEF SaveRawData, RunInv, TypeOK, Snapshot
  <2>3. \A s \in raw : s.at <= now
    BY DEF Ordered
  <2>4. run \in Nat
    BY DEF RunInv, TypeOK
  <2>5. \A s \in raw' : s.at <= now'
    BY <1>1, <2>1, <2>3
  <2>6. \A s, u \in raw' : s.run < u.run => s.at <= u.at
    <3> SUFFICES ASSUME NEW s \in raw', NEW u \in raw', s.run < u.run
                 PROVE  s.at <= u.at
      OBVIOUS
    <3>1. s # t
      BY <2>1, <2>2, <2>4
    <3>2. CASE u = t
      BY <2>1, <2>3, <3>1, <3>2
    <3>3. CASE u # t
      BY <2>1, <3>1, <3>3 DEF Ordered
    <3> QED
      BY <3>2, <3>3
  <2> QED
    BY <2>5, <2>6 DEF Ordered
<1>4. CASE Tick \/ Reboot \/ LoseState \/ Prepare \/ PrepareWithoutMarker
             \/ PrepareFails \/ TransportError \/ CommandEnds \/ SaveRecords
  BY <1>2, <1>4 DEF Tick, Reboot, LoseState, Prepare, PrepareWithoutMarker,
                    PrepareFails, TransportError, CommandEnds, SaveRecords
<1>5. CASE UNCHANGED vars
  BY <1>2, <1>5 DEF vars
<1> QED
  BY <1>3, <1>4, <1>5 DEF Next

\* A state file that names a boot was written with evidence of it.
LEMMA StateKeepsMarks ==
    ASSUME IdInv, MarkedIds, NEW marker \in {NoMarker, boot}, WriteState(marker),
           raw' = raw,
           evidence' \in {NoEvidence,
                          [id |-> Identifier(marker), reason |-> ReasonFor(marker)]}
    PROVE  MarkedIds'
<1>0. nextId \in Nat \ {0} /\ \A s \in raw : s.id \in Nat /\ s.id < nextId
  BY DEF IdInv, TypeOK, IdsAreFresh, Snapshot
<1>1. state'.boot = marker /\ state'.id = Identifier(marker)
  BY DEF WriteState
<1>2. evidence'.reason = "boot_evidence_unavailable" => marker = NoMarker
  BY DEF ReasonFor, NoEvidence
<1>3. CASE Renew(ReasonFor(marker))
  <2>1. state'.id = nextId
    BY <1>1, <1>3 DEF Identifier
  <2> QED
    BY <1>0, <1>1, <1>2, <2>1 DEF MarkedIds, NoEvidence
<1>4. CASE ~Renew(ReasonFor(marker))
  <2>1. state'.id = state.id /\ marker # NoMarker /\ state.boot = marker
    BY <1>1, <1>4, KeptIdentifier DEF Identifier
  <2> QED
    BY <1>1, <1>2, <2>1 DEF MarkedIds
<1> QED
  BY <1>3, <1>4

LEMMA MarkedKept ==
    ASSUME IdInv, MarkedIds, [Next]_vars
    PROVE  MarkedIds'
<1>1. ASSUME raw' = raw, state' \in {state, NoState},
             evidence' \in {evidence, NoEvidence}
      PROVE  MarkedIds'
  BY <1>1 DEF MarkedIds, NoState, NoEvidence, NoMarker
<1>2. CASE Tick \/ Reboot \/ LoseState \/ TransportError \/ CommandEnds
             \/ SaveRecords
  BY <1>1, <1>2 DEF Tick, Reboot, LoseState, TransportError, CommandEnds,
                    SaveRecords, EndRun
<1>3. CASE Prepare
  BY <1>3, StateKeepsMarks DEF Prepare, PrepareWith
<1>4. CASE PrepareWithoutMarker
  BY <1>4, StateKeepsMarks DEF PrepareWithoutMarker, PrepareWith
<1>5. CASE PrepareFails
  BY <1>1, <1>5, StateKeepsMarks DEF PrepareFails
<1>6. CASE SaveRawData
  <2> DEFINE t == [at |-> now, run |-> run, id |-> evidence.id,
                   reason |-> evidence.reason, boot |-> boot]
  <2>1. raw' = raw \cup {t} /\ t.reason = evidence.reason
    BY <1>6 DEF SaveRawData
  <2> HIDE DEF t
  <2>2. UNCHANGED <<state, evidence>>
    BY <1>6 DEF SaveRawData
  <2> QED
    BY <2>1, <2>2 DEF MarkedIds
<1>7. CASE UNCHANGED vars
  BY <1>1, <1>7 DEF vars
<1> QED
  BY <1>2, <1>3, <1>4, <1>5, <1>6, <1>7 DEF Next

LEMMA BuiltKept ==
    ASSUME TypeOK, Built, [Next]_vars
    PROVE  Built'
<1>1. CASE Tick
  BY <1>1 DEF Tick, Built
<1>2. CASE Reboot \/ Prepare \/ PrepareWithoutMarker \/ PrepareFails
             \/ CommandEnds \/ SaveRecords
  BY <1>2 DEF Reboot, Prepare, PrepareWithoutMarker, PrepareFails, CommandEnds,
              SaveRecords, EndRun, Built
<1>3. CASE LoseState \/ TransportError
  BY <1>3 DEF LoseState, TransportError, Built
<1>4. CASE SaveRawData
  <2> DEFINE t == [at |-> now, run |-> run, id |-> evidence.id,
                   reason |-> evidence.reason, boot |-> boot]
  <2>1. /\ t \in raw' /\ t.run = run /\ t.id = evidence.id
        /\ t.reason = evidence.reason /\ t.at = now
        /\ UNCHANGED <<run, evidence, now, due>>
    BY <1>4 DEF SaveRawData
  <2> HIDE DEF t
  <2> QED
    BY <2>1 DEF Built
<1>5. CASE UNCHANGED vars
  BY <1>5 DEF vars, Built
<1> QED
  BY <1>1, <1>2, <1>3, <1>4, <1>5 DEF Next

-----------------------------------------------------------------------------
\* What is known of the streak stays true while its runs, its intervals and,
\* from the second run on, its identifier stay the same.
LEMMA MembersStay ==
    ASSUME \A i \in 0..(streak - 1) : Member(i), streak \in Nat,
           raw \subseteq raw', recs \subseteq recs', streak' = streak,
           LastRun' = LastRun, LastAt' = LastAt,
           streak > 1 => state'.id = state.id
    PROVE  \A i \in 0..(streak' - 1) : Member(i)'
<1> SUFFICES ASSUME NEW i \in 0..(streak - 1)  PROVE Member(i)'
  OBVIOUS
<1>1. PICK s \in raw : /\ s.run = LastRun - i
                       /\ s.at = LastAt - i
                       /\ s.run \in recs
                       /\ s.reason \notin NoBootEvidence
                       /\ i < streak - 1 => s.id = state.id
  BY DEF Member
<1>2. i < streak - 1 => streak > 1
  OBVIOUS
<1> QED
  BY <1>1, <1>2 DEF Member

Streaking == FileOfStreak /\ \A i \in 0..(streak - 1) : Member(i)

LEMMA NoStreak ==
    ASSUME streak' = 0
    PROVE  Streaking'
BY DEF Streaking, FileOfStreak

\* In a streak the identifier is kept: the last run wrote the file in the
\* interval before, in the same boot.
LEMMA StreakKeepsId ==
    ASSUME TypeOK, FileOfStreak, streak > 1, pc = "idle", due
    PROVE  ~Renew(ReasonFor(boot))
<1>1. state.at = now - 1 /\ state.boot = boot /\ boot # NoMarker
  BY DEF FileOfStreak, LastAt, TypeOK, NoMarker
<1>2. state # NoState
  BY <1>1 DEF NoState, NoMarker
<1>3. now - state.at <= GapLimit
  BY <1>1 DEF GapLimit, TypeOK
<1>4. ReasonFor(boot) = "continuous"
  BY <1>1, <1>2, <1>3 DEF ReasonFor, TypeOK, GapLimit, NoMarker
<1> QED
  BY <1>4 DEF Renew

LEMMA StreakKept ==
    ASSUME TypeOK, Built, Streaking, [Next]_vars
    PROVE  Streaking'
<1> USE DEF Streaking
<1>0. streak \in Nat /\ now \in Nat /\ run \in Nat /\ due \in BOOLEAN
  BY DEF TypeOK
<1>1. CASE Tick
  <2>1. CASE due \/ pc # "idle"
    BY <1>1, <2>1, NoStreak DEF Tick
  <2>2. CASE ~(due \/ pc # "idle")
    <3>1. /\ UNCHANGED <<raw, recs, streak, state, pc, run, boot>>
          /\ now' = now + 1 /\ due' = TRUE
      BY <1>1, <2>2 DEF Tick
    <3>2. LastRun' = LastRun /\ LastAt' = LastAt /\ LastAt = now
      BY <1>0, <2>2, <3>1 DEF LastRun, LastAt
    <3>3. \A i \in 0..(streak' - 1) : Member(i)'
      BY <1>0, <3>1, <3>2, MembersStay
    <3>4. FileOfStreak'
      BY <2>2, <3>1, <3>2 DEF FileOfStreak
    <3> QED
      BY <3>3, <3>4
  <2> QED
    BY <2>1, <2>2
<1>2. CASE Reboot \/ LoseState \/ PrepareWithoutMarker \/ PrepareFails
             \/ CommandEnds
  BY <1>2, NoStreak DEF Reboot, LoseState, PrepareWithoutMarker, PrepareFails,
                        CommandEnds, Fault
<1>3. CASE Prepare
  <2>1. /\ pc = "idle" /\ due = TRUE /\ pc' = "read" /\ due' = FALSE
        /\ run' = run + 1
        /\ UNCHANGED <<now, boot, raw, recs, streak>>
        /\ state' = [id |-> Identifier(boot), at |-> now, boot |-> boot]
        /\ evidence'.id = Identifier(boot)
    BY <1>0, <1>3 DEF Prepare, StartRun, PrepareWith, WriteState
  <2>2. LastRun' = LastRun /\ LastAt' = LastAt
    BY <1>0, <2>1 DEF LastRun, LastAt
  <2>3. streak > 1 => state'.id = state.id
    BY <2>1, StreakKeepsId DEF Identifier
  <2>4. \A i \in 0..(streak' - 1) : Member(i)'
    BY <1>0, <2>1, <2>2, <2>3, MembersStay
  <2>5. FileOfStreak'
    BY <2>1 DEF FileOfStreak
  <2> QED
    BY <2>4, <2>5
<1>4. CASE TransportError
  <2>1. UNCHANGED <<now, due, boot, state, run, pc, evidence, raw, recs, streak>>
    BY <1>4 DEF TransportError
  <2>2. LastRun' = LastRun /\ LastAt' = LastAt
    BY <2>1 DEF LastRun, LastAt
  <2> QED
    BY <1>0, <2>1, <2>2, MembersStay DEF FileOfStreak
<1>5. CASE SaveRawData
  <2>1. /\ UNCHANGED <<now, due, boot, state, run, evidence, recs, streak>>
        /\ raw \subseteq raw' /\ pc = "read" /\ pc' = "build"
    BY <1>5 DEF SaveRawData
  <2>2. LastRun' = LastRun /\ LastAt' = LastAt
    BY <2>1 DEF LastRun, LastAt
  <2>3. \A i \in 0..(streak' - 1) : Member(i)'
    BY <1>0, <2>1, <2>2, MembersStay
  <2> QED
    BY <2>1, <2>3 DEF FileOfStreak
<1>6. CASE SaveRecords
  <2>1. CASE streak' = 0
    BY <2>1, NoStreak
  <2>2. CASE streak' # 0
    <3>1. /\ pc = "build" /\ pc' = "idle" /\ recs' = recs \cup {run}
          /\ UNCHANGED <<now, due, boot, state, run, raw>>
          /\ ~due /\ evidence.reason \notin NoBootEvidence
          /\ streak' = streak + 1
      BY <1>6, <2>2 DEF SaveRecords, EndRun, NoBootEvidence
    <3>2. /\ LastRun = run - 1 /\ LastRun' = run
          /\ LastAt = now - 1 /\ LastAt' = now
      BY <1>0, <3>1 DEF LastRun, LastAt
    <3>3. streak > 0 => state.at = now /\ state.boot = boot /\ evidence.id = state.id
      BY <3>1 DEF FileOfStreak
    <3>4. Member(0)'
      <4>1. PICK s \in raw : /\ s.run = run /\ s.id = evidence.id
                             /\ s.reason = evidence.reason /\ s.at = now
        BY <3>1 DEF Built
      <4>2. 0 < streak' - 1 => s.id = state'.id
        BY <1>0, <3>1, <3>3, <4>1
      <4> QED
        BY <1>0, <3>1, <3>2, <4>1, <4>2 DEF Member
    <3>5. ASSUME NEW i \in 1..streak  PROVE Member(i)'
      <4>1. i - 1 \in 0..(streak - 1)
        BY <1>0
      <4>2. Member(i - 1)
        BY <4>1
      <4>3. PICK s \in raw : /\ s.run = LastRun - (i - 1)
                             /\ s.at = LastAt - (i - 1)
                             /\ s.run \in recs
                             /\ s.reason \notin NoBootEvidence
                             /\ i - 1 < streak - 1 => s.id = state.id
        BY <4>2 DEF Member
      <4>4. s.run = LastRun' - i /\ s.at = LastAt' - i
        BY <1>0, <3>2, <4>3
      <4>5. i < streak' - 1 => s.id = state'.id
        BY <1>0, <3>1, <4>3
      <4> QED
        BY <3>1, <4>3, <4>4, <4>5 DEF Member
    <3>6. \A i \in 0..(streak' - 1) : Member(i)'
      <4>1. \A i \in 0..(streak' - 1) : i = 0 \/ i \in 1..streak
        BY <1>0, <3>1
      <4> QED
        BY <3>4, <3>5, <4>1
    <3>7. FileOfStreak'
      BY <1>0, <3>1, <3>2, <3>3 DEF FileOfStreak
    <3> QED
      BY <3>6, <3>7
  <2> QED
    BY <2>1, <2>2
<1>7. CASE UNCHANGED vars
  <2>1. UNCHANGED <<now, due, boot, state, run, pc, evidence, raw, recs, streak>>
    BY <1>7 DEF vars
  <2>2. LastRun' = LastRun /\ LastAt' = LastAt
    BY <2>1 DEF LastRun, LastAt
  <2> QED
    BY <1>0, <2>1, <2>2, MembersStay DEF FileOfStreak
<1> QED
  BY <1>1, <1>2, <1>3, <1>4, <1>5, <1>6, <1>7 DEF Next

LEMMA StreakInvCorrect == Spec => []StreakInv
<1>1. Init => StreakInv
  BY DEF Init, StreakInv, Ordered, MarkedIds, Built, FileOfStreak, NoState,
         NoEvidence, NoMarker
<1>2. IdInv /\ RunInv /\ StreakInv /\ [Next]_vars => StreakInv'
  <2> SUFFICES ASSUME IdInv, RunInv, StreakInv, [Next]_vars
               PROVE  StreakInv'
    OBVIOUS
  <2>1. TypeOK /\ Ordered /\ MarkedIds /\ Built /\ Streaking
    BY DEF IdInv, StreakInv, Streaking
  <2> QED
    BY <2>1, OrderedKept, MarkedKept, BuiltKept, StreakKept
    DEF StreakInv, Streaking
<1> QED
  BY <1>1, <1>2, IdInvCorrect, RunInvCorrect, PTL DEF Spec

-----------------------------------------------------------------------------
\* The gate judges by the snapshot of the last run.
LEMMA LatestOfStreak ==
    ASSUME RunInv, StreakInv, streak > 0, pc # "build",
           NEW s \in raw, s.run = LastRun
    PROVE  Latest = s
<1>1. \A t \in raw : t.run <= LastRun
  BY DEF RunInv, TypeOK, Snapshot, LastRun
<1>2. \A t \in raw : (\A u \in raw : u.run <= t.run) => t = s
  <2> SUFFICES ASSUME NEW t \in raw, \A u \in raw : u.run <= t.run
               PROVE  t = s
    OBVIOUS
  <2>1. t.run <= s.run /\ s.run <= t.run /\ s.run \in Nat /\ t.run \in Nat
    BY <1>1 DEF RunInv, TypeOK, Snapshot
  <2>2. t.run = s.run
    BY <2>1
  <2> QED
    BY <2>2 DEF RunInv, OneSnapshotPerRun
<1>3. \A u \in raw : u.run <= s.run
  BY <1>1
<1> QED
  BY <1>2, <1>3 DEF Latest

\* After as many good intervals in a row as the window has and one on either
\* side, qualify-modbus accepts, whatever the earlier rows are.
THEOREM UndisturbedIsQualified == Spec => []UndisturbedQualifies
<1>1. IdInv /\ RunInv /\ StreakInv => UndisturbedQualifies
  <2> SUFFICES ASSUME IdInv, RunInv, StreakInv, streak > Window + 1, pc # "build"
               PROVE  Qualified
    BY DEF UndisturbedQualifies
  <2>0. /\ streak \in Nat /\ now \in Nat /\ run \in Nat /\ Window \in Nat \ {0}
        /\ raw \subseteq Snapshot /\ recs \subseteq Nat /\ boot \in Nat \ {0}
        /\ LastRun \in Int /\ LastAt \in Int
    BY WindowAssumption DEF RunInv, TypeOK, LastRun, LastAt
  <2>1. ASSUME NEW i \in 0..(streak - 2)
        PROVE  \E s \in raw : /\ s.run = LastRun - i
                              /\ s.at = LastAt - i
                              /\ s.run \in recs
                              /\ s.id = state.id
    <3>1. i \in 0..(streak - 1) /\ i < streak - 1
      BY <2>0
    <3> QED
      BY <3>1 DEF StreakInv, Member
  <2>2. \A i \in 0..Window : i \in 0..(streak - 2)
    BY <2>0
  <2>3. PICK s0 \in raw : s0.run = LastRun /\ s0.at = LastAt /\ s0.id = state.id
    <3>1. 0 \in 0..(streak - 2)
      BY <2>0
    <3>2. LastRun - 0 = LastRun /\ LastAt - 0 = LastAt
      BY <2>0
    <3> QED
      BY <2>1, <3>1, <3>2
  <2>4. Latest = s0
    BY <2>0, <2>3, LatestOfStreak
  <2>5. state.boot # NoMarker
    BY <2>0 DEF StreakInv, FileOfStreak, NoMarker, RunInv, TypeOK
  <2>6. Epoch = {s \in raw : s.id = state.id}
    BY <2>3, <2>4 DEF Epoch
  <2>7. Current = {s \in raw : s.id = state.id /\ s.at >= LastAt - Window}
    BY <2>3, <2>4, <2>6 DEF Current
  <2>8. ASSUME NEW i \in 0..Window
        PROVE  \E s \in Current : s.run = LastRun - i /\ s.at = LastAt - i
    <3>1. PICK s \in raw : /\ s.run = LastRun - i
                           /\ s.at = LastAt - i
                           /\ s.id = state.id
      BY <2>1, <2>2
    <3>2. s.at >= LastAt - Window
      BY <2>0, <3>1
    <3> QED
      BY <2>7, <3>1, <3>2
  <2>9. ASSUME NEW s \in Current
        PROVE  /\ s.run \in (LastRun - Window)..LastRun
               /\ s.at = LastAt - (LastRun - s.run)
               /\ s.run \in recs
    <3>1. s \in raw /\ s.run \in Nat /\ s.at \in Nat /\ s.at >= LastAt - Window
      BY <2>0, <2>7 DEF Snapshot
    <3>2. s.run <= LastRun
      BY <3>1 DEF RunInv, TypeOK, LastRun
    <3>3. s.run >= LastRun - Window
      <4> SUFFICES ASSUME s.run < LastRun - Window  PROVE FALSE
        BY <2>0, <3>1
      <4>1. Window + 1 \in 0..(streak - 1)
        BY <2>0
      <4>2. PICK t \in raw : /\ t.run = LastRun - (Window + 1)
                             /\ t.at = LastAt - (Window + 1)
        BY <4>1 DEF StreakInv, Member
      <4>3. s.run <= t.run
        BY <2>0, <3>1, <4>2
      <4>4. CASE s.run = t.run
        <5>1. s = t
          BY <3>1, <4>4 DEF RunInv, OneSnapshotPerRun
        <5> QED
          BY <2>0, <3>1, <4>2, <5>1
      <4>5. CASE s.run < t.run
        <5>1. s.at <= t.at
          BY <3>1, <4>5 DEF StreakInv, Ordered
        <5> QED
          BY <2>0, <3>1, <4>2, <5>1
      <4>6. t.run \in Nat
        BY <2>0 DEF Snapshot
      <4> QED
        BY <3>1, <4>3, <4>4, <4>5, <4>6
    <3>4. LastRun - s.run \in 0..(streak - 2)
      BY <2>0, <3>1, <3>2, <3>3
    <3>5. PICK t \in raw : /\ t.run = LastRun - (LastRun - s.run)
                           /\ t.at = LastAt - (LastRun - s.run)
                           /\ t.run \in recs
      BY <2>1, <3>4
    <3>6. t.run = s.run
      BY <2>0, <3>1, <3>5
    <3>7. t = s
      BY <3>1, <3>6 DEF RunInv, OneSnapshotPerRun
    <3> QED
      BY <2>0, <3>1, <3>2, <3>3, <3>5, <3>7
  <2>10. raw # {} /\ Latest.id # NoEvidence.id
    BY <2>3, <2>4, <2>5 DEF StreakInv, MarkedIds
  <2>11. \E s \in Epoch : Latest.at - s.at >= Window
    <3>1. PICK s \in Current : s.at = LastAt - Window
      BY <2>0, <2>8
    <3>2. s \in Epoch
      BY <2>6, <2>7
    <3>3. Latest.at - s.at >= Window
      BY <2>0, <2>3, <2>4, <3>1
    <3> QED
      BY <3>2, <3>3
  <2>12. Cardinality(Slots) >= MinSlots
    <3>1. Slots = (LastAt - Window + 1)..LastAt
      <4>1. ASSUME NEW x \in (LastAt - Window + 1)..LastAt
            PROVE  \E s \in Current : s.at = x
        <5>1. LastAt - x \in 0..Window
          BY <2>0
        <5>2. PICK s \in Current : s.at = LastAt - (LastAt - x)
          BY <2>8, <5>1
        <5> QED
          BY <2>0, <5>2
      <4>2. Latest.at = LastAt
        BY <2>3, <2>4
      <4> QED
        BY <4>1, <4>2 DEF Slots
    <3>2. LastAt - Window + 1 \in Int /\ ~(LastAt - Window + 1 > LastAt)
      BY <2>0
    <3>3. Cardinality(Slots) = LastAt - (LastAt - Window + 1) + 1
      BY <2>0, <3>1, <3>2, FS_Interval
    <3> QED
      BY <2>0, <3>3, MinSlotsAssumption
  <2>13. ASSUME NEW s \in Current, NEW t \in Current, Neighbours(s, t)
         PROVE  t.at - s.at <= MaximumGap
    <3>1. /\ s.run \in (LastRun - Window)..LastRun /\ s.at = LastAt - (LastRun - s.run)
          /\ t.run \in (LastRun - Window)..LastRun /\ t.at = LastAt - (LastRun - t.run)
      BY <2>9
    <3>2. t.run = s.run + 1
      <4> SUFFICES ASSUME t.run > s.run + 1  PROVE FALSE
        BY <2>0, <2>13, <3>1 DEF Neighbours
      <4>1. LastRun - (s.run + 1) \in 0..Window
        BY <2>0, <3>1
      <4>2. PICK u \in Current : u.run = LastRun - (LastRun - (s.run + 1))
        BY <2>8, <4>1
      <4>3. u.run = s.run + 1
        BY <2>0, <3>1, <4>2
      <4> QED
        BY <2>0, <2>13, <3>1, <4>3 DEF Neighbours
    <3> QED
      BY <2>0, <3>1, <3>2 DEF MaximumGap
  <2>14. \A s \in Current : Complete(s)
    BY <2>9 DEF Complete
  <2>15. now - Latest.at <= Freshness
    BY <2>0, <2>3, <2>4 DEF LastAt, Freshness
  <2>16. HasBootEvidence
    BY <2>5, <2>6 DEF HasBootEvidence, StreakInv, MarkedIds
  <2> QED
    BY <2>10, <2>11, <2>12, <2>13, <2>14, <2>15, <2>16 DEF Qualified
<1> QED
  BY <1>1, IdInvCorrect, RunInvCorrect, StreakInvCorrect, PTL
=============================================================================
