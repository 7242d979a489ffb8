----------------------------- MODULE MCSchedule -----------------------------
(* Schedule for TLC: a backup that is due twice and a retention once. *)
EXTENDS Schedule

AfterBackup == <<"forget", "backup">>

Twice == [op \in {"backup", "forget"} |-> IF op = "backup" THEN {1, 3} ELSE {1}]
=============================================================================
