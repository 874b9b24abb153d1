--------------------------- MODULE MCDailyBackup ---------------------------
(* Three backups: one to keep, one that fails half-way or is made by hand,  *)
(* and one after the recovery.  With a retention of two, up to six names.   *)
EXTENDS DailyBackup
=============================================================================
