----------------------------- MODULE ShadowGate -----------------------------
(***************************************************************************)
(* The gate of operations/shadow_execution.py: it assesses an intent with   *)
(* the evidence of a state and answers whether it would dispatch it.  Its   *)
(* registry remembers the operations it has assessed, so that none passes a *)
(* second time; the registry lives in the process and a restart empties it. *)
(***************************************************************************)
EXTENDS Integers

CONSTANTS
    Operation,   \* operation ids
    LastTime,    \* bound: the clock goes up to here
    MaxAge,      \* maximum_state_age of the capability
    Cooldown     \* manual_override_cooldown

GateAssumption ==
    LastTime \in Nat /\ MaxAge \in Nat \ {0} /\ Cooldown \in Nat

VARIABLES
    now,        \* evaluated_at
    registry,   \* operation_ids
    assessed,   \* every id this process was asked about
    passed      \* ids that would have been dispatched by this process

vars == <<now, registry, assessed, passed>>

Time == 0..LastTime
Never == -1

\* How the intent relates to the registered capability.
Contract == {"matches", "unknown_capability", "target_mismatch",
             "owner_mismatch", "desired_state_invalid"}

\* An intent is given with expires_at later than requested_at.
Intent == {i \in [operation : Operation, contract : Contract,
                  requested : Time, expires : 1..(LastTime + 1)] :
             i.expires > i.requested}

NoEvidence == [quality |-> "none", observed |-> Never, override |-> Never]
Evidence == [quality : {"accepted", "insufficient"}, observed : Time,
             override : Time \cup {Never}] \cup {NoEvidence}

TypeOK ==
    /\ now \in Time
    /\ registry \subseteq Operation
    /\ assessed \subseteq Operation
    /\ passed \subseteq Operation

Init ==
    /\ now = 0
    /\ registry = {}
    /\ assessed = {}
    /\ passed = {}

\* The reasons in the order in which assess looks for them.
Order == <<"unknown_capability", "target_mismatch", "owner_mismatch",
           "desired_state_invalid", "request_time_invalid", "intent_expired",
           "state_missing", "state_quality_insufficient", "state_time_invalid",
           "state_not_fresh", "manual_override_active", "duplicate_operation_id">>

Applies(reason, i, e) ==
    \/ reason = i.contract
    \/ reason = "request_time_invalid" /\ i.requested > now
    \/ reason = "intent_expired" /\ now >= i.expires
    \/ reason = "state_missing" /\ e = NoEvidence
    \/ reason = "state_quality_insufficient" /\ e.quality = "insufficient"
    \/ reason = "state_time_invalid" /\ e.observed > now
    \/ reason = "state_not_fresh" /\ now - e.observed > MaxAge
    \/ /\ reason = "manual_override_active"
       /\ e.override # Never
       /\ now - e.override < Cooldown
    \/ reason = "duplicate_operation_id" /\ i.operation \in registry

Verdict(i, e) ==
    IF \A k \in DOMAIN Order : ~Applies(Order[k], i, e)
    THEN "conditions_satisfied"
    ELSE Order[CHOOSE k \in DOMAIN Order :
                  Applies(Order[k], i, e) /\ \A j \in 1..(k - 1) : ~Applies(Order[j], i, e)]

Unavailable == {"state_missing", "state_quality_insufficient",
                "state_time_invalid", "state_not_fresh"}

Result(reason) ==
    CASE reason = "conditions_satisfied" -> "would_dispatch"
      [] reason \in Unavailable -> "indeterminate"
      [] OTHER -> "would_block"

\* Variant: what could not be judged is not remembered.
RecordedJudged(i, reason) ==
    IF reason \in Unavailable \cup {"duplicate_operation_id"} THEN {} ELSE {i.operation}

\* Only a duplicate is not recorded; it has been already.
Recorded(i, reason) ==
    IF reason = "duplicate_operation_id" THEN {} ELSE {i.operation}

Assess ==
    /\ \E i \in Intent, e \in Evidence :
         LET reason == Verdict(i, e) IN
         /\ registry' = registry \cup Recorded(i, reason)
         /\ assessed' = assessed \cup {i.operation}
         /\ passed' = passed \cup
               IF Result(reason) = "would_dispatch" THEN {i.operation} ELSE {}
    /\ UNCHANGED now

Tick ==
    /\ now < LastTime
    /\ now' = now + 1
    /\ UNCHANGED <<registry, assessed, passed>>

\* A new process has an empty registry.
Restart ==
    /\ registry' = {}
    /\ assessed' = {}
    /\ passed' = {}
    /\ UNCHANGED now

Next == Assess \/ Tick \/ Restart

Spec == Init /\ [][Next]_vars

-----------------------------------------------------------------------------
\* An operation passes only the first time it is assessed in a process: one
\* that was blocked, had expired or could not be judged does not pass later
\* either, when the same id comes with better evidence.
PassesFirstOrNever ==
    [][\A o \in passed' \ passed : o \notin assessed]_vars
=============================================================================
