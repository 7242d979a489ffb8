-------------------------- MODULE MCConfiguration --------------------------
(* A second revision that the agent does not accept, and a third it does. *)
EXTENDS Configuration

BadRevisions == {2}
=============================================================================
