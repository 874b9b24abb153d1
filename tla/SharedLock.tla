----------------------------- MODULE SharedLock -----------------------------
(***************************************************************************)
(* What ADR 001 promises of the shared lock of the database jobs: one      *)
(* client at a time holds it, and only its holder gives it back.  A holder *)
(* that dies abandons it; an abandoned lock is never handed to anybody, it *)
(* has to be cleared first.                                                *)
(***************************************************************************)
CONSTANT Client

VARIABLE holder

Free == "free"
Abandoned == "abandoned"

Init == holder = Free

Acquire(c) ==
    /\ holder = Free
    /\ holder' = c

Release(c) ==
    /\ holder = c
    /\ holder' = Free

Abandon(c) ==
    /\ holder = c
    /\ holder' = Abandoned

Clear ==
    /\ holder = Abandoned
    /\ holder' = Free

Next ==
    \/ \E c \in Client : Acquire(c) \/ Release(c) \/ Abandon(c)
    \/ Clear

Spec == Init /\ [][Next]_holder
=============================================================================
