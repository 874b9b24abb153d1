-------------------------- MODULE RealtimeSnapshot --------------------------
(***************************************************************************)
(* One run of collect-realtime: Modbus, then the devices, the battery       *)
(* modules and the alarms from the cloud.  Every part catches its own       *)
(* errors, every target of a part those of its request, and what a part     *)
(* has collected is stored when the part has asked for all its targets.     *)
(* When the cloud wants a person to log in, the run ends with the devices.  *)
(***************************************************************************)
EXTENDS FiniteSets, Integers

CONSTANT Target   \* for each part of the run, what it asks for

Parts == <<"modbus", "device", "battery", "alarm">>
Part == {Parts[i] : i \in DOMAIN Parts}

TargetAssumption == DOMAIN Target = Part

VARIABLES
    at,         \* number of the running part; 0 before, 5 after the last
    todo,       \* targets it has still to ask for
    collected,  \* targets that have answered, with their part
    failures,   \* [part, code] of the requests that failed
    errors,     \* parts that raised as a whole
    saved,      \* answers stored in this run
    exit        \* "running" or how the command ended

vars == <<at, todo, collected, failures, errors, saved, exit>>

\* The vocabulary of ExternalErrorReport, as far as the run tells it apart.
Code == {"authentication_action_required", "authentication_failed", "other"}

TypeOK ==
    /\ at \in 0..5
    /\ \A r \in collected \cup saved : r[1] \in Part /\ r[2] \in Target[r[1]]
    /\ failures \subseteq Part \X Code
    /\ errors \subseteq Part
    /\ exit \in {"running", "ok", "error"}
    /\ todo \subseteq UNION {Target[p] : p \in Part}

Init ==
    /\ at = 0 /\ todo = {} /\ collected = {} /\ failures = {}
    /\ errors = {} /\ saved = {} /\ exit = "ok"

Running == Parts[at]
Unsaved == {r \in collected : r[1] = Running} \ saved

Enter(n) ==
    /\ at' = n
    /\ todo' = IF n \in DOMAIN Parts THEN Target[Parts[n]] ELSE {}

StartSnapshot ==
    /\ exit # "running"
    /\ Enter(1)
    /\ collected' = {} /\ failures' = {} /\ errors' = {} /\ saved' = {}
    /\ exit' = "running"

\* The next target of collect_devices, collect_modules or of the alarms, or
\* the one snapshot of Modbus.
TargetAnswers ==
    /\ exit = "running"
    /\ \E t \in todo : todo' = todo \ {t} /\ collected' = collected \cup {<<Running, t>>}
    /\ UNCHANGED <<at, failures, errors, saved, exit>>

\* normalize_external_error turns the error into a report, and the loop goes on.
TargetFails ==
    /\ exit = "running" /\ at > 1
    /\ \E t \in todo, c \in Code :
         todo' = todo \ {t} /\ failures' = failures \cup {<<Running, c>>}
    /\ UNCHANGED <<at, collected, errors, saved, exit>>

\* save_rawdata commits every row by itself.
SaveAnswer ==
    /\ exit = "running" /\ at \in DOMAIN Parts /\ todo = {}
    /\ \E r \in Unsaved : saved' = saved \cup {r}
    /\ UNCHANGED <<at, todo, collected, failures, errors, exit>>

\* Variant: every failure of the login ends the run, and the wrong one is
\* looked for.
WantsPersonByMessage == <<"device", "authentication_failed">> \in failures

\* _authentication_failed, of what run_device_realtime has returned.
WantsPerson ==
    /\ "device" \notin errors
    /\ <<"device", "authentication_action_required">> \in failures

NextPart ==
    IF Running = "device" /\ WantsPerson' THEN Enter(5) ELSE Enter(at + 1)

PartEnds ==
    /\ exit = "running" /\ at \in DOMAIN Parts
    /\ todo = {} /\ Unsaved = {}
    /\ UNCHANGED <<collected, failures, errors, saved, exit>>
    /\ NextPart

\* Modbus does not answer, or a row cannot be stored: the part is given up.
PartFails ==
    /\ exit = "running" /\ at \in DOMAIN Parts
    /\ \/ Running = "modbus" /\ todo # {}
       \/ todo = {} /\ Unsaved # {}
    /\ errors' = errors \cup {Running}
    /\ UNCHANGED <<collected, failures, saved, exit>>
    /\ NextPart

\* A part that is not listed as an error failed if nothing of it was collected.
Failed(p) ==
    \/ p \in errors
    \/ /\ \E c \in Code : <<p, c>> \in failures
       /\ \A r \in collected : r[1] # p

EndSnapshot ==
    /\ exit = "running" /\ at = 5
    /\ exit' = IF \E p \in Part : Failed(p) THEN "error" ELSE "ok"
    /\ UNCHANGED <<at, todo, collected, failures, errors, saved>>

KillSnapshot ==
    /\ exit = "running"
    /\ exit' = "error"
    /\ UNCHANGED <<at, todo, collected, failures, errors, saved>>

Next ==
    \/ StartSnapshot
    \/ TargetAnswers
    \/ TargetFails
    \/ SaveAnswer
    \/ PartEnds
    \/ PartFails
    \/ EndSnapshot
    \/ KillSnapshot

Spec == Init /\ [][Next]_vars

-----------------------------------------------------------------------------
\* Once a device request was told that a person has to act, the run that
\* could store its device rows asks the cloud for nothing more; and whatever
\* fails in one part, the answers of every other part are stored.
PartsAreIsolated ==
    LET asked == {r[1] : r \in collected} \cup {f[1] : f \in failures}
        person == /\ <<"device", "authentication_action_required">> \in failures
                  /\ "device" \notin errors
    IN at = 5 =>
        /\ \A r \in collected : r[1] \in errors \/ r \in saved
        /\ person => asked \subseteq {"modbus", "device"}
        /\ ~person => \A p \in Part \ errors : \A t \in Target[p] :
               \/ <<p, t>> \in saved
               \/ \E c \in Code : <<p, c>> \in failures
=============================================================================
