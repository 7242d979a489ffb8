------------------------------ MODULE Retention ------------------------------
(***************************************************************************)
(* Backups, retention and maintenance of one job: which snapshots its      *)
(* primary repository and its replica hold, what the agent remembers of    *)
(* them (MaintenanceRuntime), and what it tells the control plane.         *)
(*                                                                         *)
(* RunControl shows that at most one operation of a job works on its       *)
(* repositories at a time, so one operation, op, is in flight here.  A     *)
(* crash can leave operations behind that are journaled as running;        *)
(* reconcileInterrupted gives them an outcome, possibly while the          *)
(* scheduler has already started the next operation.                       *)
(*                                                                         *)
(* A snapshot is a pair: the run that made it (its backupchief-run tag)    *)
(* and the part, the database it holds.  A directory job has one part.     *)
(***************************************************************************)
EXTENDS Naturals, FiniteSets, FiniteSetsExt

CONSTANTS
    MaxOps,      \* how many operations the job starts
    LastPart,    \* a backup has the parts 1 .. LastPart
    DataParts,   \* job.Integrity.DataParts
    MaxAttempts, \* 1 + len(retryDelays)
    MaxTroubles, \* bound: calls and saves that fail, and crashes
    Holds,       \* what the control plane may protect, sets of snapshots
    AnyTarget    \* may the control plane ask to expire a protected run?

ASSUME ParametersAreNumbers ==
    /\ MaxOps \in Nat /\ MaxTroubles \in Nat
    /\ LastPart \in Nat \ {0} /\ DataParts \in Nat \ {0}
    /\ MaxAttempts \in Nat \ {0}
    /\ AnyTarget \in BOOLEAN

Ops == 1 .. MaxOps

Parts == 1 .. LastPart

\* The job starts with one complete backup, run 0, in both repositories.
Snapshots == (0 .. MaxOps) \X Parts

ASSUME HoldsAreSnapshots == \A hold \in Holds : hold \subseteq Snapshots

VARIABLES
    repo,        \* the snapshots each repository holds
    anchored,    \* the snapshots that carry the run-anchor tag
    runtime,     \* daemon.state.Maintenance of the primary repository
    op,          \* the operation in flight
    started,     \* how many operations have been started
    interrupted, \* operations a crash left in the journal as running
    config,      \* HasUnresolvedRuns of the accepted configuration
    unreported,  \* unresolved outcomes the control plane does not know yet
    known,       \* unresolved outcomes it knows and has not resolved
    open,        \* unresolved outcomes nobody has resolved
    recorded,    \* every unresolved outcome so far
    last,        \* the result journaled since the last start
    troubles

vars == <<repo, anchored, runtime, op, started, interrupted, config,
          unreported, known, open, recorded, last, troubles>>

-----------------------------------------------------------------------------
(* Plans, operations and results *)

Repositories == {"primary", "replica"}

\* MaintenancePlan of a forget: PruneAfterForget stands for a combined
\* retention whose prune is due.
Plans == [planned : BOOLEAN, candidates : SUBSET Snapshots,
          runs : SUBSET (0 .. MaxOps), prune : BOOLEAN,
          pruneStarted : BOOLEAN, pruneCompleted : BOOLEAN]

NoPlan == [planned |-> FALSE, candidates |-> {}, runs |-> {}, prune |-> FALSE,
           pruneStarted |-> FALSE, pruneCompleted |-> FALSE]

Kinds == {"backup", "forget", "prune", "snapshot_inventory", "check_data"}

Steps == {"write", "attempt", "delete", "relist", "prune", "pruning", "ended",
          "call", "finish"}

Statuses == {"", "complete", "partial", "failed", "skipped", "cancelled",
             "unresolved"}

\* One operation.  proof, held, refused and open are what the job's copy and
\* the runtime state said when it started; plan is currentPlan in memory and
\* saved is the plan in the database.
NoOp == [kind |-> "none", id |-> 0, step |-> "finish", status |-> "",
         part |-> 1, made |-> {}, failed |-> FALSE,
         repository |-> "primary", target |-> "policy", asked |-> {},
         proof |-> 0, held |-> {}, refused |-> FALSE, open |-> {},
         plan |-> NoPlan, saved |-> NoPlan, candidates |-> {},
         attempts |-> 1, primary |-> "", pruned |-> {}]

\* A result as the control plane is told of it.
NoResult == [kind |-> "none", status |-> "", reconciled |-> FALSE,
             plan |-> NoPlan, pruneCompleted |-> FALSE, pruned |-> {}]

TypeOK ==
    /\ repo \in [Repositories -> SUBSET Snapshots]
    /\ anchored \subseteq Snapshots
    /\ runtime.latest \in 0 .. MaxOps
    /\ runtime.unresolved \in BOOLEAN /\ runtime.confirmed \in BOOLEAN
    /\ runtime.confirmed => runtime.unresolved
    /\ runtime.nextDataPart \in 1 .. DataParts
    /\ op.kind \in Kinds \cup {"none"} /\ op.step \in Steps
    /\ op.status \in Statuses /\ op.primary \in Statuses
    /\ op.plan \in Plans /\ op.saved \in Plans
    /\ op.attempts \in 1 .. MaxAttempts
    /\ op.candidates \subseteq Snapshots
    /\ started \in 0 .. MaxOps
    /\ \A i \in interrupted : i.kind \in Kinds /\ i.plan \in Plans
    /\ config \in BOOLEAN
    /\ known \subseteq recorded /\ unreported \subseteq recorded \ known
    /\ open \subseteq recorded /\ recorded \subseteq Ops
    /\ troubles \in 0 .. MaxTroubles

Init ==
    /\ repo = [r \in Repositories |-> {0} \X Parts]
    /\ anchored = {<<0, 1>>}
    /\ runtime = [latest |-> 0, unresolved |-> FALSE, confirmed |-> FALSE,
                  nextDataPart |-> 1]
    /\ op = NoOp /\ started = 0 /\ interrupted = {}
    /\ config = FALSE
    /\ unreported = {} /\ known = {} /\ open = {} /\ recorded = {}
    /\ last = NoResult
    /\ troubles = 0

Trouble ==
    /\ troubles < MaxTroubles
    /\ troubles' = troubles + 1

serverVars == <<config, unreported, known, open, recorded>>
recordVars == <<anchored, runtime, started, interrupted, last>>

-----------------------------------------------------------------------------
(* Recording an outcome *)

\* Mutant: the next data part is not wrapped around.
RecordedOutcomeUnwrapped(kind, status, id) ==
    [latest |-> IF kind = "backup" /\ status = "complete"
                THEN id ELSE runtime.latest,
     unresolved |-> status = "unresolved" \/ runtime.unresolved,
     confirmed |-> runtime.confirmed /\ status # "unresolved",
     nextDataPart |-> IF kind = "check_data" /\ status = "complete"
                      THEN runtime.nextDataPart + 1 ELSE runtime.nextDataPart]

\* recordOutcomeLocked on the runtime state; it is saved before the journal is.
RecordedOutcome(kind, status, id) ==
    [latest |-> IF kind = "backup" /\ status = "complete"
                THEN id ELSE runtime.latest,
     unresolved |-> \/ status = "unresolved"
                    \/ /\ runtime.unresolved
                       /\ ~(kind = "snapshot_inventory" /\ status = "complete"),
     confirmed |-> /\ runtime.confirmed
                   /\ status # "unresolved"
                   /\ ~(kind = "snapshot_inventory" /\ status = "complete"),
     nextDataPart |-> IF kind = "check_data" /\ status = "complete"
                      THEN (runtime.nextDataPart % DataParts) + 1
                      ELSE runtime.nextDataPart]

\* A complete inventory accounts for every snapshot, whatever the runs before
\* it left behind.
StillOpen(kind, status) ==
    IF kind = "snapshot_inventory" /\ status = "complete" THEN {} ELSE open

\* What the outcome leaves to be resolved.
RecordOutcome(kind, status, id) ==
    /\ runtime' = RecordedOutcome(kind, status, id)
    /\ unreported' = IF status = "unresolved" THEN unreported \cup {id} ELSE unreported
    /\ open' = IF status = "unresolved" THEN open \cup {id}
               ELSE StillOpen(kind, status)
    /\ recorded' = IF status = "unresolved" THEN recorded \cup {id} ELSE recorded
    /\ UNCHANGED <<known, config>>

-----------------------------------------------------------------------------
(* Starting *)

\* startOperation.  Exclusion of other operations is RunControl's subject.
Start ==
    /\ op.kind = "none"
    /\ started < MaxOps
    /\ started' = started + 1
    /\ last' = NoResult
    /\ UNCHANGED <<repo, anchored, interrupted, serverVars, troubles>>

StartBackup ==
    /\ Start
    /\ op' = [NoOp EXCEPT !.kind = "backup", !.id = started + 1, !.step = "write"]
    /\ UNCHANGED runtime

\* prepareMaintenanceLocked merges the configuration into the runtime state and
\* the runtime state into the job's copy.
Prepare ==
    runtime' = [runtime EXCEPT !.unresolved = @ \/ config]

Refused == runtime.unresolved \/ config

StartForget(target, asked, hold, prune) ==
    /\ Start
    /\ Prepare
    /\ target = "snapshots" => ~prune
    /\ op' = [NoOp EXCEPT !.kind = "forget", !.id = started + 1, !.step = "attempt",
                          !.target = target, !.asked = asked,
                          !.proof = runtime.latest, !.held = hold,
                          !.refused = Refused, !.open = open,
                          !.plan = [NoPlan EXCEPT !.prune = prune],
                          !.saved = [NoPlan EXCEPT !.prune = prune]]

StartOther(kind) ==
    /\ Start
    /\ Prepare
    /\ op' = [NoOp EXCEPT !.kind = kind, !.id = started + 1, !.step = "call",
                          !.refused = Refused, !.open = open]

-----------------------------------------------------------------------------
(* Backups: executeMySQLBackup, executePostgreSQLBackup and executeBackup *)

Snapshot(part) == <<op.id, part>>

\* The snapshot of one part is written.  The first one the agent hears of, and
\* any before it that it does not hear of, carries the anchor tag.
WriteSnapshot ==
    /\ repo' = [repo EXCEPT !["primary"] = @ \cup {Snapshot(op.part)}]
    /\ anchored' = IF op.made = {} THEN anchored \cup {Snapshot(op.part)} ELSE anchored

NextPart(o) ==
    IF op.part = LastPart THEN [o EXCEPT !.step = "finish"]
                          ELSE [o EXCEPT !.part = @ + 1]

PartSucceeds ==
    /\ op.step = "write"
    /\ WriteSnapshot
    /\ op' = NextPart([op EXCEPT !.made = @ \cup {op.part}])
    /\ UNCHANGED <<runtime, started, interrupted, last, serverVars, troubles>>

\* The dump or Restic fails: the snapshot may have been written all the same.
\* A failure of the repository ends the run, any other one skips the part.
PartFails ==
    /\ op.step = "write"
    /\ Trouble
    /\ WriteSnapshot \/ UNCHANGED <<repo, anchored>>
    /\ \/ op' = NextPart([op EXCEPT !.failed = TRUE])
       \/ op' = [op EXCEPT !.step = "finish", !.status = "failed"]
    /\ UNCHANGED <<runtime, started, interrupted, last, serverVars>>

\* The tools, the credentials or the list of databases cannot be had, or a
\* configured path is not there: nothing is written.
SourceUnavailable ==
    /\ op.step = "write"
    /\ op.part = 1
    /\ Trouble
    /\ op' = [op EXCEPT !.step = "finish", !.status = "failed"]
    /\ UNCHANGED <<repo, serverVars, recordVars>>

\* The run's context is done before the next part.
BackupCancelled ==
    /\ op.step = "write"
    /\ Trouble
    /\ op' = [op EXCEPT !.step = "finish", !.status = "cancelled"]
    /\ UNCHANGED <<repo, serverVars, recordVars>>

BackupStatus ==
    IF op.status # "" THEN op.status
    ELSE IF op.made = {} THEN "failed"
    ELSE IF op.failed THEN "partial"
    ELSE "complete"

-----------------------------------------------------------------------------
(* Forget on one repository: executeForget *)

SnapshotsOf(runs, inventory) == {s \in inventory : s[1] \in runs}

RunsOf(snapshots) == {s[1] : s \in snapshots}

Inventory == repo[op.repository]

\* The snapshots of the proof's run, or the proof's own when none carries the run's
\* tag.
ProofSnapshots ==
    LET tagged == SnapshotsOf({op.proof}, Inventory)
    IN  IF tagged # {} THEN tagged ELSE {op.proof} \X Parts

\* They must be in the inventory.  A hold on a run means what is there of it.
Protected == ProofSnapshots \cup (op.held \cap Inventory)

Attempting == op.kind = "forget" /\ op.step = "attempt"

EndAttempt(status) ==
    op' = [op EXCEPT !.step = "ended", !.status = status]

\* An unresolved run, or a snapshot that is not there: of the proof, or one that
\* is held by its ID and not by its run.
ForgetSkipped ==
    /\ Attempting
    /\ op.refused \/ ~(Protected \cup op.held \subseteq Inventory)
    /\ EndAttempt("skipped")
    /\ UNCHANGED <<repo, serverVars, recordVars, troubles>>

\* The snapshots cannot be listed, or the policy cannot be evaluated.
InventoryFails ==
    /\ Attempting
    /\ ~op.refused
    /\ Trouble
    /\ \E status \in {"failed", "cancelled"} : EndAttempt(status)
    /\ UNCHANGED <<repo, serverVars, recordVars>>

\* The snapshots asked for, and every snapshot of their runs.
AskedSnapshots == op.asked \cup SnapshotsOf(RunsOf(op.asked \cap Inventory), Inventory)

ForgetProtected ==
    /\ Attempting
    /\ ~op.refused /\ Protected \subseteq Inventory
    /\ ~op.plan.planned
    /\ op.target = "snapshots"
    /\ AskedSnapshots \cap Protected # {}
    /\ EndAttempt("skipped")
    /\ UNCHANGED <<repo, serverVars, recordVars, troubles>>

\* Mutant: the policy's candidates are expanded to their runs and no longer
\* filtered.
SelectionsUnfiltered ==
    IF op.target = "policy"
    THEN {SnapshotsOf(RunsOf(chosen), Inventory) :
              chosen \in SUBSET (anchored \cap Inventory)}
    ELSE {}

\* What a fresh plan may select.  Restic's policy selects some of the anchors.
Selections ==
    CASE op.target = "policy" ->
             {SnapshotsOf(RunsOf(chosen), Inventory) \ Protected :
                  chosen \in SUBSET (anchored \cap Inventory)}
      [] op.target = "snapshots" ->
             IF AskedSnapshots \cap Protected = {}
             THEN {AskedSnapshots \cap Inventory} ELSE {}
      [] op.target = "runs" -> {SnapshotsOf(RunsOf(op.asked), Inventory)}

\* What a plan that already exists selects in this repository.
PlannedSelection ==
    IF op.plan.runs # {} THEN SnapshotsOf(op.plan.runs, Inventory)
    ELSE IF op.repository = "primary" THEN op.plan.candidates ELSE {}

\* Nothing to remove counts as removed: the attempt goes on to the prune.
Selected(candidates, plan) ==
    [op EXCEPT !.plan = plan, !.candidates = candidates, !.failed = FALSE,
               !.step = IF candidates # {} THEN "delete" ELSE "prune"]

FollowPlan ==
    /\ Attempting
    /\ ~op.refused /\ Protected \subseteq Inventory
    /\ op.plan.planned
    /\ op' = Selected(PlannedSelection, op.plan)
    /\ UNCHANGED <<repo, serverVars, recordVars, troubles>>

FreshPlan(candidates) ==
    [op.plan EXCEPT !.planned = TRUE, !.candidates = candidates,
                    !.runs = RunsOf(candidates)]

\* capturePlan keeps the plan in memory even when it cannot be saved; the
\* attempt has then failed.
MakePlan ==
    /\ Attempting
    /\ ~op.refused /\ Protected \subseteq Inventory
    /\ ~op.plan.planned
    /\ \E candidates \in Selections :
         LET plan == FreshPlan(candidates) IN
         \/ /\ op' = [Selected(candidates, plan) EXCEPT !.saved = plan]
            /\ UNCHANGED troubles
         \/ /\ Trouble
            /\ op' = [op EXCEPT !.plan = plan, !.step = "ended", !.status = "failed"]
    /\ UNCHANGED <<repo, serverVars, recordVars>>

\* The forget calls: each removes what it names, or fails after some of it.
Remove(gone) ==
    repo' = [repo EXCEPT ![op.repository] = @ \ gone]

DeleteSucceeds ==
    /\ op.step = "delete"
    /\ Remove(op.candidates)
    /\ op' = [op EXCEPT !.step = "relist"]
    /\ UNCHANGED <<serverVars, recordVars, troubles>>

DeleteFails ==
    /\ op.step = "delete"
    /\ Trouble
    /\ \E gone \in SUBSET (op.candidates \cap Inventory) : Remove(gone)
    /\ op' = [op EXCEPT !.step = "relist", !.failed = TRUE]
    /\ UNCHANGED <<serverVars, recordVars>>

RelistFails ==
    /\ op.step = "relist"
    /\ Trouble
    /\ EndAttempt("unresolved")
    /\ UNCHANGED <<repo, serverVars, recordVars>>

\* What is left decides, not what the calls returned.
Relist ==
    /\ op.step = "relist"
    /\ LET remaining == op.candidates \cap Inventory IN
         \/ /\ remaining = {}
            /\ op' = [op EXCEPT !.step = "prune"]
         \/ /\ remaining # {} /\ remaining # op.candidates
            /\ EndAttempt("partial")
         \/ /\ remaining # {} /\ remaining = op.candidates
            /\ \E status \in {"failed", "cancelled"} : EndAttempt(status)
    /\ UNCHANGED <<repo, serverVars, recordVars, troubles>>

-----------------------------------------------------------------------------
(* The prune of a combined retention: finishRetention *)

\* Only the primary's plan is saved; a replica's goes nowhere.
SavedPlan(plan) == IF op.repository = "primary" THEN plan ELSE op.saved

NoPruneDue ==
    /\ op.step = "prune"
    /\ ~op.plan.prune
    /\ EndAttempt("complete")
    /\ UNCHANGED <<repo, serverVars, recordVars, troubles>>

PruneStarts ==
    /\ op.step = "prune"
    /\ op.plan.prune
    /\ LET plan == [op.plan EXCEPT !.pruneStarted = TRUE] IN
         \/ /\ op' = [op EXCEPT !.plan = plan, !.saved = SavedPlan(plan),
                                !.step = "pruning"]
            /\ UNCHANGED troubles
         \/ /\ op.repository = "primary"
            /\ Trouble
            /\ op' = [op EXCEPT !.plan = plan, !.step = "ended", !.status = "failed"]
    /\ UNCHANGED <<repo, serverVars, recordVars>>

PruneFails ==
    /\ op.step = "pruning"
    /\ Trouble
    /\ \E status \in {"failed", "cancelled"} : EndAttempt(status)
    /\ UNCHANGED <<repo, serverVars, recordVars>>

PruneCompletes ==
    /\ op.step = "pruning"
    /\ LET plan == [op.plan EXCEPT !.pruneCompleted = TRUE]
           done == [op EXCEPT !.plan = plan, !.pruned = @ \cup {op.repository},
                              !.step = "ended"] IN
         \/ /\ op' = [done EXCEPT !.saved = SavedPlan(plan), !.status = "complete"]
            /\ UNCHANGED troubles
         \/ /\ op.repository = "primary"
            /\ Trouble
            /\ op' = [done EXCEPT !.status = "unresolved"]
    /\ UNCHANGED <<repo, serverVars, recordVars>>

-----------------------------------------------------------------------------
(* Retries, the replica and the result: executeMaintenanceRepositories *)

Ended == op.kind = "forget" /\ op.step = "ended"

\* A failed attempt is tried again unless its code says that would not help.
Retry ==
    /\ Ended
    /\ op.status = "failed"
    /\ op.attempts < MaxAttempts
    /\ op' = [op EXCEPT !.step = "attempt", !.status = "", !.attempts = @ + 1]
    /\ UNCHANGED <<repo, serverVars, recordVars, troubles>>

\* The replica follows the primary's plan, by run.
NextRepository ==
    /\ Ended
    /\ op.repository = "primary" /\ op.status = "complete"
    /\ op' = [op EXCEPT !.step = "attempt", !.status = "", !.attempts = 1,
                        !.repository = "replica", !.primary = op.status]
    /\ UNCHANGED <<repo, serverVars, recordVars, troubles>>

\* A forget is over when the primary did not complete or the replica is done.
ForgetEnds ==
    /\ Ended
    /\ op.repository = "replica" \/ op.status # "complete"
    /\ op' = [op EXCEPT !.step = "finish"]
    /\ UNCHANGED <<repo, serverVars, recordVars, troubles>>

\* Mutant: the replica's outcome does not count.
ForgetStatusOfPrimary ==
    IF op.repository = "primary" THEN op.status ELSE op.primary

ForgetStatus ==
    IF op.repository = "primary" THEN op.status
    ELSE IF op.status = "complete" THEN "complete" ELSE "partial"

\* prune, snapshot_inventory, check_metadata and check_data change no
\* snapshot: one step stands for the calls on the two repositories.
OtherCall ==
    /\ op.step = "call"
    /\ \/ /\ op.kind = "prune" /\ op.refused
          /\ op' = [op EXCEPT !.step = "finish", !.status = "skipped"]
          /\ UNCHANGED troubles
       \/ /\ op.kind = "prune" => ~op.refused
          /\ op' = [op EXCEPT !.step = "finish", !.status = "complete"]
          /\ UNCHANGED troubles
       \/ /\ op.kind = "prune" => ~op.refused
          /\ Trouble
          /\ \E status \in {"partial", "failed", "cancelled"} :
               op' = [op EXCEPT !.step = "finish", !.status = status]
    /\ UNCHANGED <<repo, serverVars, recordVars>>

FinalStatus ==
    CASE op.kind = "backup" -> BackupStatus
      [] op.kind = "forget" -> ForgetStatus
      [] OTHER -> op.status

\* Every repository has been pruned.
AllPruned ==
    /\ op.repository = "replica" /\ op.status = "complete"
    /\ op.plan.prune /\ op.pruned = Repositories

Finished == op.kind # "none" /\ op.step = "finish"

\* finishOperation records the outcome, then saves the journal.
Finish ==
    /\ Finished
    /\ RecordOutcome(op.kind, FinalStatus, op.id)
    /\ last' = [kind |-> op.kind, status |-> FinalStatus, reconciled |-> FALSE,
                plan |-> op.plan, pruneCompleted |-> AllPruned, pruned |-> op.pruned]
    /\ op' = NoOp
    /\ UNCHANGED <<repo, anchored, started, interrupted, troubles>>

\* A backup's snapshots are copied to the replica, all of them or, when the
\* copy fails, some.
Copy ==
    /\ op.kind = "none"
    /\ LET missing == repo["primary"] \ repo["replica"] IN
         /\ missing # {}
         /\ \/ /\ repo' = [repo EXCEPT !["replica"] = @ \cup missing]
               /\ UNCHANGED troubles
            \/ /\ Trouble
               /\ \E some \in (SUBSET missing) \ {{}, missing} :
                    repo' = [repo EXCEPT !["replica"] = @ \cup some]
    /\ UNCHANGED <<op, serverVars, recordVars>>

-----------------------------------------------------------------------------
(* Crashes and reconciliation *)

\* The plan in the database is the one saved last, or the one in memory when
\* somebody else has saved the journal since.
Left == {[kind |-> op.kind, id |-> op.id, plan |-> plan, pruned |-> op.pruned] :
            plan \in {op.saved, op.plan}}

Crash ==
    /\ op.kind # "none"
    /\ Trouble
    /\ \E left \in Left : interrupted' = interrupted \cup {left}
    /\ op' = NoOp
    \* A crash inside finishOperation, after the runtime state was saved.
    /\ \/ UNCHANGED <<runtime, serverVars>>
       \/ /\ Finished
          /\ runtime' = RecordedOutcome(op.kind, FinalStatus, op.id)
          /\ open' = StillOpen(op.kind, FinalStatus)
          /\ UNCHANGED <<config, unreported, known, recorded>>
    /\ UNCHANGED <<repo, anchored, started, last>>

\* reconciledResult: any snapshot with the run's tag makes a backup complete.
ReconciledBackup(i) ==
    IF SnapshotsOf({i.id}, repo["primary"]) # {} THEN "complete" ELSE "unresolved"

\* reconciledMaintenance: only a forget whose plan was saved can be proved.
ReconciledForget(i) ==
    LET remaining == i.plan.candidates \cap repo["primary"] IN
    IF ~i.plan.planned \/ (i.plan.pruneStarted /\ ~i.plan.pruneCompleted)
    THEN "unresolved"
    ELSE IF remaining = {} THEN "complete"
    ELSE IF remaining # i.plan.candidates THEN "partial"
    ELSE "failed"

ReconciledStatus(i) ==
    CASE i.kind = "backup" -> ReconciledBackup(i)
      [] i.kind = "forget" -> ReconciledForget(i)
      [] OTHER -> "unresolved"

\* reconcileOne; the repository may not answer.
ReconcileOne(i) ==
    /\ \E status \in {ReconciledStatus(i), "unresolved"} :
         /\ IF status = ReconciledStatus(i) THEN UNCHANGED troubles ELSE Trouble
         /\ RecordOutcome(i.kind, status, i.id)
         /\ last' = [kind |-> i.kind, status |-> status, reconciled |-> TRUE,
                     plan |-> i.plan, pruned |-> i.pruned,
                     pruneCompleted |-> i.plan.pruneCompleted /\ status # "unresolved"]
    /\ interrupted' = interrupted \ {i}
    /\ UNCHANGED <<repo, anchored, op, started>>

-----------------------------------------------------------------------------
(* The control plane *)

\* The outcome is reported.
Report(id) ==
    /\ id \in unreported
    /\ unreported' = unreported \ {id}
    /\ known' = known \cup {id}
    /\ UNCHANGED <<repo, op, config, open, recorded, recordVars, troubles>>

\* Somebody settles an unresolved run.
Resolve(id) ==
    /\ id \in known
    /\ known' = known \ {id}
    /\ open' = open \ {id}
    /\ UNCHANGED <<repo, op, config, unreported, recorded, recordVars, troubles>>

\* Mutant: a configuration without unresolved runs clears the mark, whether or
\* not the control plane had heard of the outcome.
AcceptConfigUnconfirmed ==
    /\ config' = (known # {})
    /\ runtime' = [runtime EXCEPT !.unresolved = known # {}, !.confirmed = known # {}]
    /\ UNCHANGED <<repo, anchored, op, started, interrupted, unreported, known,
                   open, recorded, last, troubles>>

\* acceptMaintenanceConfigLocked.  Only a newer revision is accepted, so the
\* comparison with UnresolvedAtRevision holds.
AcceptConfig ==
    /\ config' = (known # {})
    /\ runtime' =
         IF known # {} THEN [runtime EXCEPT !.unresolved = TRUE, !.confirmed = TRUE]
         ELSE IF runtime.confirmed
         THEN [runtime EXCEPT !.unresolved = FALSE, !.confirmed = FALSE]
         ELSE runtime
    /\ UNCHANGED <<repo, anchored, op, started, interrupted, unreported, known,
                   open, recorded, last, troubles>>

-----------------------------------------------------------------------------
\* What a command may ask a forget to remove: what the policy selects, one
\* snapshot, or one run.
Asked(hold) ==
    {<<"policy", {}>>}
    \cup {<<"snapshots", {s}>> : s \in repo["primary"]}
    \cup {<<"runs", {r} \X Parts>> :
             r \in {q \in RunsOf(repo["primary"]) :
                      \/ AnyTarget
                      \/ q # runtime.latest /\ q \notin RunsOf(hold)}}

ForgetStep ==
    \/ ForgetSkipped \/ InventoryFails \/ ForgetProtected \/ FollowPlan
    \/ MakePlan \/ DeleteSucceeds \/ DeleteFails \/ RelistFails \/ Relist
    \/ NoPruneDue \/ PruneStarts \/ PruneFails \/ PruneCompletes
    \/ Retry \/ NextRepository \/ ForgetEnds

Next ==
    \/ StartBackup
    \/ \E hold \in Holds : \E asked \in Asked(hold) : \E prune \in BOOLEAN :
          StartForget(asked[1], asked[2], hold, prune)
    \/ \E kind \in Kinds \ {"backup", "forget"} : StartOther(kind)
    \/ PartSucceeds \/ PartFails \/ SourceUnavailable \/ BackupCancelled
    \/ ForgetStep
    \/ OtherCall \/ Finish \/ Copy \/ Crash
    \/ \E i \in interrupted : ReconcileOne(i)
    \/ \E id \in Ops : Report(id) \/ Resolve(id)
    \/ AcceptConfig

Spec == Init /\ [][Next]_vars

-----------------------------------------------------------------------------
(* Properties *)

Removed(r) == repo[r] \ repo'[r]

\* A forget never removes, from the primary or from the replica, by a fresh
\* plan, a retry or a plan made for another repository, a snapshot of the
\* complete recovery point that was the latest when it started, or one the
\* control plane holds (maintenance.go:214-232, maintenance_repositories.go:60-66).
RecoveryPointKept ==
    [][\A r \in Repositories : \A s \in Removed(r) :
          s[1] # op.proof /\ s \notin op.held]_vars

\* A forget reported complete has left none of its candidates on the primary
\* nor, unless the report is a reconciliation, any snapshot of their runs on
\* the replica; and a prune reported complete ran on every repository the
\* report speaks for (maintenance.go:364-382, maintenance_repositories.go:48-90,
\* commands.go:1332-1407).
HonestOutcome ==
    /\ last.kind = "forget" /\ last.status = "complete" =>
         /\ last.plan.candidates \cap repo["primary"] = {}
         /\ ~last.reconciled => SnapshotsOf(last.plan.runs, repo["replica"]) = {}
    /\ last.pruneCompleted =>
         IF last.reconciled THEN "primary" \in last.pruned
                            ELSE last.pruned = Repositories

\* While only one run of the job has come out unresolved, a forget that starts
\* after that was recorded removes nothing until an inventory or the control
\* plane has settled it, whatever configurations arrive in between and however
\* often the agent restarts (maintenance.go:108-113, maintenance_state.go:21-70,
\* 84-94, 154-163).
RefusesUnresolved ==
    [][\A r \in Repositories :
          Removed(r) # {} /\ Cardinality(recorded) <= 1 => op.open = {}]_vars

\* Retention leaves one complete recovery point on the primary: a run all of
\* whose databases are there (CHANGELOG.md:291).
CompletePointRemains ==
    \E run \in 0 .. MaxOps : {run} \X Parts \subseteq repo["primary"]

=============================================================================
