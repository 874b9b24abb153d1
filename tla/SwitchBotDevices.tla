-------------------------- MODULE SwitchBotDevices --------------------------
(***************************************************************************)
(* SwitchBotService: refresh_devices copies the cloud's device list into    *)
(* the tables of devices and of their names, one transaction per device,    *)
(* and collect then stores one observation and one event per device, with   *)
(* a commit after each.  The household renames, adds and removes devices    *)
(* between two lists, and the process may die between any two commits.      *)
(***************************************************************************)
EXTENDS Integers, FiniteSets

CONSTANTS
    Device,     \* device ids
    Name,       \* names they may have
    Household,  \* [device, name, from, to] of the local name history
    LastTime    \* bound: readings of the clock

\* The household names itself as the source, and no time of it is exactly that
\* of a list; which time it is matters to nobody else, so 0 stands for any.
HouseholdAssumption ==
    /\ LastTime \in Nat
    /\ Household \subseteq [device : Device, name : Name, from : {0}, to : 0..LastTime,
                            source : {"household"}]

VARIABLES
    clock,     \* readings of the clock so far; times start at 1
    devices,   \* rows of switchbot_devices, Unknown where there is none
    names,     \* rows of switchbot_device_names
    observed,  \* [device, at] of the status observations
    events,    \* [device, at, success] of switchbot_collection_events
    stage,     \* "idle", "upsert", "reconcile", "history" or "collect"
    collects,  \* whether this is collect or the refresh alone
    listing,   \* the device list of this process: the part still to do
    listed,    \* all of it
    answered,  \* the device whose status is stored and whose event is not yet
    seenAt     \* now, or collected_at

db == <<devices, names, observed, events>>
process == <<stage, collects, listing, listed, answered, seenAt>>
vars == <<clock, devices, names, observed, events, stage, collects, listing, listed, answered, seenAt>>

Open == 0
Unknown == [name |-> "none", status |-> "unknown", enabled |-> FALSE]
Known(d) == devices[d] # Unknown
Time == 1..LastTime
Listing == SUBSET [device : Device, name : Name]

TypeOK ==
    /\ clock \in 0..LastTime
    /\ devices \in [Device -> [name : Name, status : {"present", "missing"},
                               enabled : BOOLEAN] \cup {Unknown}]
    /\ names \subseteq [device : Device, name : Name, from : 0..LastTime,
                        to : 0..LastTime, source : {"api", "household"}]
    /\ observed \subseteq [device : Device, at : Time]
    /\ events \subseteq [device : Device, at : Time, success : BOOLEAN]
    /\ stage \in {"idle", "upsert", "reconcile", "history", "collect"}
    /\ collects \in BOOLEAN
    /\ listing \in Listing /\ listed \in Listing /\ answered \subseteq Device
    /\ seenAt \in 0..LastTime

Init ==
    /\ clock = 0
    /\ devices = [d \in Device |-> Unknown]
    /\ names = {} /\ observed = {} /\ events = {}
    /\ stage = "idle" /\ collects = FALSE
    /\ listing = {} /\ listed = {} /\ answered = {} /\ seenAt = 0

SetEnabled ==
    /\ \E d \in Device, enabled \in BOOLEAN :
         /\ Known(d)
         /\ devices' = [devices EXCEPT ![d].enabled = enabled]
    /\ UNCHANGED <<clock, names, observed, events, process>>

ReadClock ==
    /\ clock < LastTime
    /\ clock' = clock + 1
    /\ seenAt' = clock + 1

-----------------------------------------------------------------------------
(* refresh_devices *)

\* The devices of the cloud now; between two lists a device may have come,
\* gone or been renamed.
DeviceList ==
    /\ stage = "idle"
    /\ ReadClock
    /\ collects' \in BOOLEAN
    /\ listed' \in Listing
    /\ \A k, l \in listed' : k.device = l.device => k = l
    /\ listing' = listed'
    /\ stage' = "upsert"
    /\ UNCHANGED <<db, answered>>

\* Variant: only a device that is new gets a name.
OpensNameOfNew(d, n) == ~Known(d)

OpensName(d, n) == ~Known(d) \/ devices[d].name # n

\* The open names of the device are closed, whoever has entered them.
ClosedNames(d, n) ==
    IF Known(d) /\ devices[d].name # n
    THEN {IF r.device = d /\ r.to = Open THEN [r EXCEPT !.to = seenAt] ELSE r : r \in names}
    ELSE names

\* INSERT OR IGNORE into the names.
WithName(rows, row) ==
    IF \E r \in rows : r.device = row.device /\ r.name = row.name /\ r.from = row.from
    THEN rows ELSE rows \cup {row}

UpsertDevice ==
    /\ stage = "upsert"
    /\ \E l \in listing :
         LET d == l.device  n == l.name IN
         /\ names' = IF OpensName(d, n)
                     THEN WithName(ClosedNames(d, n),
                                   [device |-> d, name |-> n, from |-> seenAt,
                                    to |-> Open, source |-> "api"])
                     ELSE ClosedNames(d, n)
         /\ devices' = [devices EXCEPT ![d] =
                          [name |-> n, status |-> "present",
                           enabled |-> IF Known(d) THEN @.enabled ELSE TRUE]]
         /\ listing' = listing \ {l}
    /\ UNCHANGED <<clock, observed, events, stage, collects, listed, answered, seenAt>>

\* A device that is not listed is missing, unless it was disabled.
Reconcile ==
    /\ stage = "upsert" /\ listing = {}
    /\ devices' = [d \in Device |->
                     IF devices[d].enabled /\ \A l \in listed : l.device # d
                     THEN [devices[d] EXCEPT !.status = "missing"] ELSE devices[d]]
    /\ stage' = "history"
    /\ UNCHANGED <<clock, names, observed, events, collects, listing, listed, answered, seenAt>>

\* _ensure_household_history commits one row after the other.
EnsureHistory ==
    /\ stage = "history"
    /\ \E h \in Household :
         /\ WithName(names, h) # names
         /\ names' = WithName(names, h)
    /\ UNCHANGED <<clock, devices, observed, events, process>>

EndRefresh ==
    /\ stage = "history"
    /\ \A h \in Household : WithName(names, h) = names
    /\ IF collects
       THEN stage' = "collect" /\ listing' = listed /\ ReadClock
       ELSE stage' = "idle" /\ UNCHANGED <<listing, seenAt, clock>>
    /\ UNCHANGED <<db, collects, listed, answered>>

-----------------------------------------------------------------------------
(* collect, of every device of the list, enabled or not *)

\* Variant: an observation that cannot be stored does not end the collection.
StoreStatusIfPossible ==
    /\ stage = "collect" /\ answered = {}
    /\ \E l \in listing :
         /\ observed' \in {observed, observed \cup {[device |-> l.device, at |-> seenAt]}}
         /\ answered' = {l.device}
         /\ listing' = listing \ {l}
    /\ UNCHANGED <<clock, devices, names, events, stage, collects, listed, seenAt>>

\* The status of a device came with success: its observation is committed
\* before its event.
StoreStatus ==
    /\ stage = "collect" /\ answered = {}
    /\ \E l \in listing :
         /\ observed' = observed \cup {[device |-> l.device, at |-> seenAt]}
         /\ answered' = {l.device}
         /\ listing' = listing \ {l}
    /\ UNCHANGED <<clock, devices, names, events, stage, collects, listed, seenAt>>

Event(d, success) == [device |-> d, at |-> seenAt, success |-> success]

\* The success of a device whose status is stored, or the failure of one whose
\* request failed or was refused.
RecordEvent ==
    /\ stage = "collect"
    /\ \/ /\ \E d \in answered : events' = events \cup {Event(d, TRUE)}
          /\ answered' = {} /\ UNCHANGED listing
       \/ /\ answered = {}
          /\ \E l \in listing : /\ events' = events \cup {Event(l.device, FALSE)}
                               /\ listing' = listing \ {l}
          /\ UNCHANGED answered
    /\ UNCHANGED <<clock, devices, names, observed, stage, collects, listed, seenAt>>

EndCollect ==
    /\ stage = "collect" /\ listing = {} /\ answered = {}
    /\ stage' = "idle"
    /\ UNCHANGED <<clock, db, collects, listing, listed, answered, seenAt>>

CollectDies ==
    /\ stage # "idle"
    /\ stage' = "idle" /\ listing' = {} /\ answered' = {}
    /\ UNCHANGED <<clock, db, collects, listed, seenAt>>

Next ==
    \/ SetEnabled
    \/ DeviceList
    \/ UpsertDevice
    \/ Reconcile
    \/ EnsureHistory
    \/ EndRefresh
    \/ StoreStatus
    \/ RecordEvent
    \/ EndCollect
    \/ CollectDies

Spec == Init /\ [][Next]_vars

-----------------------------------------------------------------------------
ApiNames(d) == {r \in names : r.device = d /\ r.source = "api"}

\* Between any two commits the names the cloud gave a device follow each
\* other without a hole or an overlap, and the last one, still open, is the
\* name in the table of devices; and an event calls a collection a success
\* only if its observation is stored.
NamesFollowTheApi ==
    /\ \A d \in Device : Known(d) =>
         /\ {r.name : r \in {s \in ApiNames(d) : s.to = Open}} = {devices[d].name}
         /\ \A r, s \in ApiNames(d) :
              r.from < s.from => r.to # Open /\ r.from < r.to /\ r.to <= s.from
         /\ \A r \in ApiNames(d) : r.to # Open => \E s \in ApiNames(d) : s.from = r.to
    /\ \A e \in events : e.success => [device |-> e.device, at |-> e.at] \in observed
=============================================================================
