---------------------------- MODULE MCWriterLock ----------------------------
(* The daily list, the Modbus retry loop and the health check: the three    *)
(* ways a script treats its command's result.  A plain cloud collection is  *)
(* the health check without the special meaning of 1; it takes the place of *)
(* the latter in the runs with two jobs.                                    *)
EXTENDS WriterLock

MCJob == {"daily", "modbus_realtime", "daily_health"}

MCKindOf(j) ==
    CASE j = "daily" -> "list"
      [] j = "modbus_realtime" -> "retry"
      [] j = "daily_health" -> "health"
      [] OTHER -> "single"

\* Two commands and two attempts: enough for a failure followed by a success.
MCStepsOf(j) == IF MCKindOf(j) \in {"list", "retry"} THEN 2 ELSE 1

MCKind == [j \in MCJob |-> MCKindOf(j)]
MCSteps == [j \in MCJob |-> MCStepsOf(j)]

MCTwoJobs == {"daily", "equipment"}
MCTwoKind == [j \in MCTwoJobs |-> MCKindOf(j)]
MCTwoSteps == [j \in MCTwoJobs |-> MCStepsOf(j)]
=============================================================================
