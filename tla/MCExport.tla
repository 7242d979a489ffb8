------------------------------ MODULE MCExport ------------------------------
(* Export for TLC. *)
EXTENDS Export
=============================================================================
