----------------------------- MODULE MCRetention -----------------------------
(* Instances of Retention for TLC. *)
EXTENDS Retention

\* The control plane holds nothing, or the whole of run 0.
WholeRun == {{}, {0} \X Parts}

=============================================================================
