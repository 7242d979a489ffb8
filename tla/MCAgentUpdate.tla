---------------------------- MODULE MCAgentUpdate -----------------------------
(* Instances of AgentUpdate for TLC. *)
EXTENDS AgentUpdate, TLC

CONSTANTS u1

\* One update to version 2, of an agent that is older, equal or newer.
MCTarget == [u \in Updates |-> 2]
=============================================================================
