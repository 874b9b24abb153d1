----------------------------- MODULE AlarmPages -----------------------------
(***************************************************************************)
(* The alarm collector asks for the alarms of a device page by page while   *)
(* the cloud's list changes under it: new alarms come in at the front,      *)
(* others are cleared.  It stops at the page it takes for the last one.     *)
(* The cloud may leave the total, the pages and the offset out, and may     *)
(* answer with something that is no page at all.                            *)
(***************************************************************************)
EXTENDS Integers, Sequences, FiniteSets

CONSTANTS
    PageSize,   \* page_size
    MaxPages,   \* MAX_PAGES, 1000 in the code
    MaxAlarm    \* bound: alarms ever raised, the three at first among them

AlarmAssumption ==
    /\ PageSize \in Nat \ {0}
    /\ MaxPages \in Nat \ {0}
    /\ MaxAlarm \in Nat /\ MaxAlarm >= 3

VARIABLES
    alarms,      \* the cloud's list, the newest first
    raised,      \* alarms raised so far, numbered from 1
    phase,       \* "idle", "paging", "complete" or "failed"
    detail,      \* the fields the answers of this collection carry
    pageNo,      \* page_number
    seenPages,   \* contents of the pages so far
    hits,        \* collected_hits
    kept,        \* alarms of the pages so far
    atStart,     \* alarms in the list when the collection began
    cleared      \* alarms cleared since then

list == <<alarms, raised>>
vars == <<alarms, raised, phase, detail, pageNo, seenPages, hits, kept, atStart, cleared>>

Alarm == 1..MaxAlarm
AlarmSeq == UNION {[1..n -> Alarm] : n \in 0..MaxAlarm}
Detail == {"none", "total", "pages", "offset"}

\* What an answer is: a page, one whose hits are no list, or one without the
\* data of a page, such as an error in a body with status 200.
Body == {"page", "no_hits", "no_data"}

Entries(s) == {s[i] : i \in DOMAIN s}

TypeOK ==
    /\ alarms \in AlarmSeq
    /\ raised \in 0..MaxAlarm
    /\ phase \in {"idle", "paging", "complete", "failed"}
    /\ detail \in Detail
    /\ pageNo \in 1..(MaxPages + 1)
    /\ hits \in 0..(MaxPages * PageSize)
    /\ kept \subseteq Alarm
    /\ atStart \subseteq Alarm
    /\ cleared \in 0..MaxAlarm
    /\ \A p \in seenPages : Len(p.hits) <= PageSize

Init ==
    /\ alarms \in {<<>>, <<3, 2, 1>>}
    /\ raised = Len(alarms)
    /\ phase = "idle" /\ detail = "none" /\ pageNo = 1
    /\ seenPages = {} /\ hits = 0 /\ kept = {}
    /\ atStart = {} /\ cleared = 0

-----------------------------------------------------------------------------
(* The cloud *)

Raise ==
    /\ raised < MaxAlarm
    /\ raised' = raised + 1
    /\ alarms' = <<raised + 1>> \o alarms
    /\ UNCHANGED <<phase, detail, pageNo, seenPages, hits, kept, atStart, cleared>>

Clear ==
    /\ \E i \in DOMAIN alarms :
         alarms' = SubSeq(alarms, 1, i - 1) \o SubSeq(alarms, i + 1, Len(alarms))
    /\ cleared' = IF phase = "paging" THEN cleared + 1 ELSE cleared
    /\ UNCHANGED <<raised, phase, detail, pageNo, seenPages, hits, kept, atStart>>

First(n) == (n - 1) * PageSize
Least(a, b) == IF a < b THEN a ELSE b

Page(n) == SubSeq(alarms, First(n) + 1, Least(First(n) + PageSize, Len(alarms)))

\* The answer for page n, as much of it as is compared.
PageAnswer(n, body) ==
    LET shown == IF body = "no_data" THEN "none" ELSE detail IN
    [body |-> body,
     hits |-> IF body = "page" THEN Page(n) ELSE <<>>,
     total |-> IF shown \in {"total", "offset"} THEN Len(alarms) ELSE -1,
     pages |-> IF shown = "pages" THEN (Len(alarms) + PageSize - 1) \div PageSize ELSE -1,
     offset |-> IF shown = "offset" THEN First(n) ELSE -1]

-----------------------------------------------------------------------------
(* The collector *)

StartAlarms ==
    /\ phase # "paging"
    /\ phase' = "paging"
    /\ detail' \in Detail
    /\ pageNo' = 1 /\ seenPages' = {} /\ hits' = 0 /\ kept' = {}
    /\ atStart' = Entries(alarms)
    /\ cleared' = 0
    /\ UNCHANGED list

\* Variant: the offset is taken to start at one.
IsLastPageFromOne(p, n, collected) ==
    \/ p.body = "no_data"
    \/ p.hits = <<>>
    \/ p.offset >= 0 /\ p.offset + 1 + PageSize >= p.total
    \/ Len(p.hits) < PageSize

\* _is_last_page: no page, nothing on the page, as many hits as the total, the
\* last of the pages, an offset that reaches the total, or a page that is not
\* full.
IsLastPage(p, n, collected) ==
    \/ p.body = "no_data"
    \/ p.hits = <<>>
    \/ p.total >= 0 /\ collected >= p.total
    \/ p.pages >= 0 /\ n >= p.pages
    \/ p.offset >= 0 /\ p.offset + PageSize >= p.total
    \/ Len(p.hits) < PageSize

CollectPage ==
    /\ phase = "paging"
    /\ pageNo <= MaxPages
    /\ \E body \in Body :
       LET p == PageAnswer(pageNo, body)
           collected == hits + Len(p.hits) IN
       /\ p \notin seenPages
       /\ seenPages' = seenPages \cup {p}
       /\ hits' = collected
       /\ kept' = kept \cup Entries(p.hits)
       /\ IF IsLastPage(p, pageNo, collected)
          THEN phase' = "complete" /\ UNCHANGED pageNo
          ELSE pageNo' = pageNo + 1 /\ UNCHANGED phase
    /\ UNCHANGED <<alarms, raised, detail, atStart, cleared>>

\* _collect_devices drops the pages of a device whose collection fails: a
\* request that fails, a page like an earlier one, a page too many.
DeviceFails ==
    /\ phase = "paging"
    /\ phase' = "failed"
    /\ kept' = {}
    /\ UNCHANGED <<alarms, raised, detail, pageNo, seenPages, hits, atStart, cleared>>

Next ==
    \/ Raise
    \/ Clear
    \/ StartAlarms
    \/ CollectPage
    \/ DeviceFails

Spec == Init /\ [][Next]_vars

-----------------------------------------------------------------------------
\* A collection that completes misses no alarm that was in the list when it
\* began, however many came in meanwhile and moved the others to later pages,
\* as long as none is cleared; and it misses at most as many as are cleared.
\* Only an answer that is no page ends one sooner, and stays among its pages.
MissedAtMostCleared ==
    phase = "complete" /\ (\A p \in seenPages : p.body = "page") =>
        Cardinality(atStart \ kept) <= cleared
=============================================================================
