----------------------------- MODULE MCReporting ------------------------------
(* Instances of Reporting for TLC. *)
EXTENDS Reporting, TLC

\* Run 1 is retention by command, run 2 a scheduled backup.
MCInventory == 1 :> 1 @@ 2 :> 0

\* One run, a backup.
MCBackup == 1 :> 0
=============================================================================
