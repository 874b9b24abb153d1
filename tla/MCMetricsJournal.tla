-------------------------- MODULE MCMetricsJournal --------------------------
(* Two jobs that end at the same time, two rotated files as in the code, one *)
(* record to a file: the third rotation is the first to lose a record.       *)
EXTENDS MetricsJournal

MCTwoJobs == {"daily", "equipment"}
=============================================================================
