---------------------------- MODULE MCCollection ----------------------------
(* A calendar of two or three days, a day of two hours, the first of which  *)
(* is there when the job runs on the day itself.  The cloud queue holds the *)
(* answers of the first day.  Where the question is whether each day of the *)
(* window is stored in the end, the calendar stands on its last day and two *)
(* days are missing from the start, so that one may stand in the way of the *)
(* other.                                                                   *)
EXTENDS Collection

MCAllOddities == {NoData, Malformed}
MCMalformed == {Malformed}
MCNoOddity == {}
MCOldestDay == {1}
MCNoDay == {}
=============================================================================
