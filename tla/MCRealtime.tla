------------------------------ MODULE MCRealtime ------------------------------
(* A Realtime client that loses or replaces its connection. *)
EXTENDS Realtime

===============================================================================
