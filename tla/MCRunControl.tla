----------------------------- MODULE MCRunControl -----------------------------
(* Instances of RunControl for TLC. *)
EXTENDS RunControl, TLC

CONSTANTS b1, m1, s1, u1, i1, j1, p1, r1,
    Scheduled  \* which of b1 and m1 are occurrences; the others are polled

\* A job that is backed up to p1 and replicated to r1, with a backup,
\* maintenance that is deferred until after it, and polled commands.
MCKinds ==
    b1 :> "backup" @@ m1 :> "maintenance" @@ s1 :> "sync" @@ i1 :> "inspect"
        @@ u1 :> "update"
MCKind == [c \in Commands |-> MCKinds[c]]
MCTrigger ==
    [c \in Commands |-> IF c \in Scheduled THEN "scheduled" ELSE "manual"]
MCDeferred == [c \in Commands |-> c = m1]
MCJobOf == [c \in Commands |-> j1]
MCPrimary == [j \in Jobs |-> p1]
MCReplicas == [j \in Jobs |-> {r1}]
MCSetups == [j \in Jobs |-> {}]
MCSyncTarget == [c \in Commands |-> r1]
=============================================================================
