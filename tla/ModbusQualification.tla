------------------------ MODULE ModbusQualification ------------------------
(***************************************************************************)
(* The five-minute Modbus collection and the gate that judges it.  Each run *)
(* first renews a continuity identifier in a private state file, then reads *)
(* the register ranges, stores one RawData and its Records.  The checker    *)
(* looks at the stored rows alone and says whether the last 24 hours were   *)
(* continuous.  The unit of time is the interval of the job.                *)
(***************************************************************************)
EXTENDS Integers, FiniteSets

CONSTANTS
    Window,        \* required_hours, in intervals
    MinSlots,      \* 99% of them
    MaxAttempts,   \* SUMICORE_MODBUS_MAX_ATTEMPTS
    LastTick,      \* bound: the clock stops there
    MaxFaults      \* bound: reboots, kills, lost evidence and failed runs

ASSUME WindowAssumption == Window \in Nat \ {0}
ASSUME MinSlotsAssumption == MinSlots \in 1..Window
ASSUME AttemptsAssumption == MaxAttempts \in Nat \ {0}
ASSUME BoundsAssumption == LastTick \in Nat /\ MaxFaults \in Nat

GapLimit == 2     \* interval_seconds * gap_multiplier
MaximumGap == 3   \* maximum_gap_seconds
Freshness == 3    \* freshness_seconds

VARIABLES
    now,       \* the clock
    due,       \* launchd has not started this interval's run yet
    boot,      \* which boot of the host this is
    state,     \* modbus-continuity.json
    nextId,    \* identifiers handed out; each is drawn afresh
    run,       \* runs started
    pc,        \* where the run is
    evidence,  \* the identifier and reason in its environment
    attempt,   \* its collect-modbus attempts
    raw,       \* stored snapshots, with the boot they were taken in (history)
    recs,      \* runs whose Records are stored
    streak,    \* intervals in a row that went well (history)
    faults     \* faults so far

vars == <<now, due, boot, state, nextId, run, pc, evidence, attempt, raw,
          recs, streak, faults>>

NoState == [id |-> 0, at |-> 0, boot |-> 0]
NoMarker == 0                            \* sysctl gave no boot time
NoEvidence == [id |-> 0, reason |-> "none"]

Reasons == {"initial", "continuous", "boot_changed", "scheduling_gap",
            "boot_evidence_unavailable", "boot_evidence_recovered"}

Init ==
    /\ now = 1
    /\ due = TRUE
    /\ boot = 1
    /\ state = NoState
    /\ nextId = 1
    /\ run = 0
    /\ pc = "idle"
    /\ evidence = NoEvidence
    /\ attempt = 0
    /\ raw = {}
    /\ recs = {}
    /\ streak = 0
    /\ faults = 0

\* Accidents are bounded and end the streak.
Fault ==
    /\ faults < MaxFaults
    /\ faults' = faults + 1
    /\ streak' = 0

EndRun ==
    /\ pc' = "idle"
    /\ evidence' = NoEvidence
    /\ attempt' = 0

-----------------------------------------------------------------------------
(* Time *)

\* An interval without a complete run ends the streak.  The clock may go on
\* in the middle of a run: a retry waits, a host sleeps.
Tick ==
    /\ now < LastTick
    /\ now' = now + 1
    /\ due' = TRUE
    /\ streak' = IF due \/ pc # "idle" THEN 0 ELSE streak
    /\ UNCHANGED <<boot, state, nextId, run, pc, evidence, attempt, raw,
                   recs, faults>>

Reboot ==
    /\ Fault
    /\ boot' = boot + 1
    /\ due' = TRUE          \* RunAtLoad
    /\ EndRun
    /\ UNCHANGED <<now, state, nextId, run, raw, recs>>

\* The state file is lost; it is written by rename, so never in part.
LoseState ==
    /\ Fault
    /\ state' = NoState
    /\ UNCHANGED <<now, due, boot, nextId, run, pc, evidence, attempt,
                   raw, recs>>

-----------------------------------------------------------------------------
(* modbus_continuity.py *)

\* The reason that prepare gives, by the previous state and the boot marker.
ReasonFor(marker) ==
    CASE marker = NoMarker -> "boot_evidence_unavailable"
      [] marker # NoMarker /\ state = NoState -> "initial"
      [] marker # NoMarker /\ state # NoState /\ state.boot = NoMarker ->
           "boot_evidence_recovered"
      [] marker # NoMarker /\ state.boot \notin {NoMarker, marker} -> "boot_changed"
      [] marker # NoMarker /\ state.boot = marker /\ now - state.at > GapLimit ->
           "scheduling_gap"
      [] OTHER -> "continuous"

\* Variant: a missing boot marker leaves the identifier as it is.
RenewUnlessUnknown(reason) ==
    state = NoState \/ reason \notin {"continuous", "boot_evidence_unavailable"}

\* Variant: the state file remembers neither gap nor boot.
RenewNever(reason) == state = NoState

\* Variant: every run gets an identifier of its own.
RenewAlways(reason) == TRUE

\* Any reason but "continuous" comes with a new identifier.
Renew(reason) == reason # "continuous"

StartRun ==
    /\ pc = "idle"
    /\ due
    /\ due' = FALSE
    /\ run' = run + 1
    /\ attempt' = 1

Identifier(marker) == IF Renew(ReasonFor(marker)) THEN nextId ELSE state.id

\* The state file is replaced in one step, before anything is collected.
WriteState(marker) ==
    /\ state' = [id |-> Identifier(marker), at |-> now, boot |-> marker]
    /\ nextId' = IF Renew(ReasonFor(marker)) THEN nextId + 1 ELSE nextId

\* prepare, with the marker it gets.
PrepareWith(marker) ==
    /\ WriteState(marker)
    /\ evidence' = [id |-> Identifier(marker), reason |-> ReasonFor(marker)]

Prepare ==
    /\ StartRun
    /\ PrepareWith(boot)
    /\ pc' = "read"
    /\ UNCHANGED <<now, boot, raw, recs, streak, faults>>

PrepareWithoutMarker ==
    /\ StartRun
    /\ Fault
    /\ PrepareWith(NoMarker)
    /\ pc' = "read"
    /\ UNCHANGED <<now, boot, raw, recs>>

\* It fails before or after its state is replaced.  The script collects without
\* evidence, or ends where an old bash takes the empty array for an unset
\* variable.
PrepareFails ==
    /\ StartRun
    /\ Fault
    /\ UNCHANGED <<state, nextId>> \/ WriteState(boot)
    /\ evidence' = NoEvidence
    /\ pc' \in {"read", "idle"}
    /\ UNCHANGED <<now, boot, raw, recs>>

-----------------------------------------------------------------------------
(* hedp collect-modbus *)

\* Variant: transport errors are retried without limit.
TransportErrorUnlimited ==
    /\ pc = "read"
    /\ attempt <= MaxAttempts
    /\ attempt' = attempt + 1
    /\ UNCHANGED <<now, due, boot, state, nextId, run, pc, evidence, raw, recs,
                   streak, faults>>

\* Name resolution, connection or socket fails in any of the ranges: exit 75,
\* nothing is stored and the script tries again.
TransportError ==
    /\ pc = "read"
    /\ attempt < MaxAttempts
    /\ attempt' = attempt + 1
    /\ UNCHANGED <<now, due, boot, state, nextId, run, pc, evidence, raw, recs,
                   streak, faults>>

\* Variant: the attempt is repeated whatever it ended with.
CommandEndsRetried ==
    /\ pc \in {"read", "build"}
    /\ Fault
    /\ IF attempt < MaxAttempts
       THEN /\ attempt' = attempt + 1
                    /\ pc' = "read"
            /\ UNCHANGED evidence
       ELSE EndRun
    /\ UNCHANGED <<now, due, boot, state, nextId, run, raw, recs>>

\* The last transport error, a protocol or storage error, a value the builder
\* cannot decode, the wall-clock limit or a kill: no further attempt.
CommandEnds ==
    /\ pc \in {"read", "build"}
    /\ Fault
    /\ EndRun
    /\ UNCHANGED <<now, due, boot, state, nextId, run, raw, recs>>

\* The register ranges are read one after the other; then the snapshot is
\* stamped and stored.  An attempt that ends before leaves nothing behind.
SaveRawData ==
    /\ pc = "read"
    /\ raw' = raw \cup {[at |-> now, run |-> run, id |-> evidence.id,
                         reason |-> evidence.reason, boot |-> boot]}
    /\ pc' = "build"
    /\ UNCHANGED <<now, due, boot, state, nextId, run, evidence, attempt,
                   recs, streak, faults>>

\* The snapshot of this run is complete.  The interval went well if the run
\* ends in it and had evidence.
SaveRecords ==
    /\ pc = "build"
    /\ recs' = recs \cup {run}
    /\ streak' = IF due \/ evidence.reason \in {"none", "boot_evidence_unavailable"}
                 THEN 0 ELSE streak + 1
    /\ EndRun
    /\ UNCHANGED <<now, due, boot, state, nextId, run, raw, faults>>

-----------------------------------------------------------------------------
Next ==
    \/ Tick
    \/ Reboot
    \/ LoseState
    \/ Prepare
    \/ PrepareWithoutMarker
    \/ PrepareFails
    \/ TransportError
    \/ CommandEnds
    \/ SaveRawData
    \/ SaveRecords

Spec == Init /\ [][Next]_vars

-----------------------------------------------------------------------------
(* hedp qualify-modbus *)

Latest == CHOOSE s \in raw : \A t \in raw : t.run <= s.run

\* The snapshots that carry the identifier of the latest one.
Epoch == {s \in raw : s.id = Latest.id}

\* Those of the last 24 hours.
Current == {s \in Epoch : s.at >= Latest.at - Window}

Slots == {s.at : s \in Current} \cap ((Latest.at - Window + 1)..Latest.at)

Neighbours(s, t) ==
    s.run < t.run /\ \A u \in Current : u.run <= s.run \/ u.run >= t.run

\* Its Records are those that its payload decodes to.
Complete(s) == s.run \in recs

HasBootEvidence == \A s \in Epoch : s.reason # "boot_evidence_unavailable"

Qualified ==
    /\ raw # {}
    /\ Latest.id # NoEvidence.id
    /\ \E s \in Epoch : Latest.at - s.at >= Window
    /\ Cardinality(Slots) >= MinSlots
    /\ \A s, t \in Current : Neighbours(s, t) => t.at - s.at <= MaximumGap
    /\ \A s \in Current : Complete(s)
    /\ now - Latest.at <= Freshness
    /\ HasBootEvidence

-----------------------------------------------------------------------------
(* Properties *)

Snapshot == [at : Nat, run : Nat, id : Nat, reason : Reasons \cup {"none"}, boot : Nat]

TypeOK ==
    /\ now \in Nat
    /\ due \in BOOLEAN
    /\ boot \in Nat \ {0}
    /\ state \in [id : Nat, at : Nat, boot : Nat]
    /\ nextId \in Nat \ {0}
    /\ run \in Nat
    /\ pc \in {"idle", "read", "build"}
    /\ evidence \in [id : Nat, reason : Reasons \cup {"none"}]
    /\ attempt \in 0..MaxAttempts
    /\ raw \subseteq Snapshot
    /\ recs \subseteq Nat
    /\ streak \in Nat
    /\ faults \in 0..MaxFaults

\* docs/integrations/fusionsolar/modbus-cutover.md: the hours before and after
\* a reboot are never joined into one window.  All the snapshots that carry one
\* identifier were taken in one boot of the host, whatever becomes of the state
\* file, the boot marker and the runs in between.
IdentifierNamesOneBoot ==
    \A s, t \in raw : s.id = t.id /\ s.id # NoEvidence.id => s.boot = t.boot

\* What is qualified was observed without a reboot in between and with the
\* boot known throughout.
QualifiedIsUnbroken ==
    Qualified => \A s, t \in Current : s.boot = t.boot

\* The gate can be passed: after as many good intervals in a row as the window
\* has, and one on either side of it, nothing that went before stands in the
\* way: no failed run, lost state file, unknown boot or late snapshot.  (Between
\* a snapshot and its Records the checker may come too early.)
UndisturbedQualifies == streak > Window + 1 /\ pc # "build" => Qualified

\* A run stores one snapshot at most: only an attempt that has stored nothing
\* is repeated.
OneSnapshotPerRun == \A s, t \in raw : s.run = t.run => s = t
=============================================================================
