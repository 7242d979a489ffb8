------------------------------ MODULE RunControl ------------------------------
(***************************************************************************)
(* The run control of the managed daemon: how commands and scheduled       *)
(* occurrences become runs, which repositories a run holds, and what of    *)
(* this survives a restart (agent/commands.go, scheduler.go,               *)
(* replication.go, replica_sync.go, daemon.go).                            *)
(*                                                                         *)
(* Nine loops and one goroutine per run share the state under daemon.mu.   *)
(* One action below is one critical section of that mutex; what a          *)
(* goroutine read in one critical section and uses in a later one is kept  *)
(* in a variable of its own (handed, cancelQueue, copy, reconcile...).      *)
(*                                                                         *)
(* The journal is kept twice: journal is daemon.journal in memory, disk is *)
(* what the last successful SaveCommandJournal transaction wrote.  A       *)
(* restart reloads the memory from the disk and loses everything else.     *)
(***************************************************************************)
EXTENDS Naturals, FiniteSets

CONSTANTS
    Commands,         \* identities of commands and scheduled occurrences
    Jobs,
    Repositories,
    Kind,             \* what a command asks for: a member of Kinds
    Trigger,          \* "manual" (polled) or "scheduled"
    Deferred,         \* the scheduled maintenance that waits for a backup
    JobOf,            \* the job of a command; of no meaning for an update
    Primary,          \* the repository a job backs up to
    Replicas,         \* the attached replicas of a job
    Setups,           \* the replicas of a job that are being provisioned
    SyncTarget,       \* the replica a sync_replica command copies to
    None,             \* no command, no repository
    MaxCrashes,       \* bound: restarts of the daemon
    MaxSaveFailures,  \* bound: failed journal transactions
    MaxConfigs        \* bound: accepted configurations

Kinds == {"backup", "maintenance", "sync", "update", "inspect"}

JobRepositories(j) == {Primary[j]} \cup Replicas[j] \cup Setups[j]

ASSUME CommandAssumption ==
    /\ Kind \in [Commands -> Kinds]
    /\ Trigger \in [Commands -> {"manual", "scheduled"}]
    /\ Deferred \in [Commands -> BOOLEAN]
    /\ \A c \in Commands : Deferred[c] => Kind[c] = "maintenance"
    /\ JobOf \in [Commands -> Jobs]
    /\ None \notin Commands \cup Repositories

ASSUME JobAssumption ==
    /\ Primary \in [Jobs -> Repositories]
    /\ Replicas \in [Jobs -> SUBSET Repositories]
    /\ Setups \in [Jobs -> SUBSET Repositories]
    /\ SyncTarget \in [Commands -> Repositories]
    /\ \A c \in Commands : Kind[c] = "sync" =>
            SyncTarget[c] \in Replicas[JobOf[c]] \cup Setups[JobOf[c]]

\* A job backs up "into its own Restic repository" (README.md), and so do its
\* replicas: two jobs never name the same repository.
ASSUME OwnRepositories ==
    \A i, j \in Jobs : i # j => JobRepositories(i) \cap JobRepositories(j) = {}

ASSUME BoundAssumption ==
    /\ MaxCrashes \in Nat
    /\ MaxSaveFailures \in Nat
    /\ MaxConfigs \in Nat

VARIABLES
    journal,            \* daemon.journal.Commands
    disk,               \* the journal in the state database
    active,             \* daemon.active: the runs whose goroutine lives
    syncing,            \* the sync_replica commands whose goroutine lives
    repositories,       \* daemon.repositories: the busy set
    replicationActive,  \* daemon.replicationActive: jobs that are copying
    copy,               \* the replication goroutine of each job
    agentUpdate,        \* daemon.state.AgentUpdate: the update drained for
    configured,         \* how the accepted configuration lists a job
    cancelQueue,        \* queuedOperations of the configuration loops
    handed,             \* commands other goroutines hand to startOperation
    tails,              \* calls an ended goroutine still has to make
    reconcile,          \* the progress of reconcileInterrupted
    starts,             \* history: how often a command's run was started
    crashes, saveFailures, configs

jobVars == <<active, syncing, repositories, replicationActive, copy>>
loopVars == <<cancelQueue, handed, tails, reconcile>>
vars == <<journal, disk, active, syncing, repositories, replicationActive,
          copy, agentUpdate, configured, cancelQueue, handed,
          tails, reconcile, starts, crashes, saveFailures, configs>>

-----------------------------------------------------------------------------
(* Types *)

States == {"unknown", "received", "running", "finished", "removed"}

\* How the outcome of an entry came about: by its goroutine, by reconciliation
\* after a restart, or without execution.
Outcomes == {"none", "executed", "interrupted", "not_executed"}

\* What an entry that is received waits for: WaitForBackup of deferred
\* maintenance, CatchUpBackup of a backup that met maintenance or a copy.
Waits == {"nothing", "backup", "catchup"}

Entry == [state : States, acked : BOOLEAN, waits : Waits, outcome : Outcomes,
          pending : SUBSET Repositories]

NoEntry == [state |-> "unknown", acked |-> FALSE, waits |-> "nothing",
            outcome |-> "none", pending |-> {}]

Removed == [NoEntry EXCEPT !.state = "removed"]

Phases == {"idle", "select", "acquire", "copy", "verify", "ending"}

Copies == [phase : Phases, target : Repositories \cup {None},
           batch : SUBSET Commands]

Idle == [phase |-> "idle", target |-> None, batch |-> {}]

Reconciles == [phase : {"due", "working", "done"},
               ids : SUBSET Commands, jobs : SUBSET Jobs]

ReconcileDue == [phase |-> "due", ids |-> {}, jobs |-> {}]

Listings == {"enabled", "disabled", "absent"}

TailCalls == {"replicate", "maintenance", "catchup"}

\* A copy that has chosen its batch copies to a replica of the job.
CopyTargets ==
    \A j \in Jobs : copy[j].phase \in {"acquire", "copy", "verify"} =>
                        copy[j].target \in Replicas[j]

TypeOK ==
    /\ journal \in [Commands -> Entry]
    /\ disk \in [Commands -> Entry]
    /\ active \in SUBSET Commands
    /\ syncing \in SUBSET Commands
    /\ repositories \in SUBSET Repositories
    /\ replicationActive \in SUBSET Jobs
    /\ copy \in [Jobs -> Copies]
    /\ CopyTargets
    /\ agentUpdate \in Commands \cup {None}
    /\ configured \in [Jobs -> Listings]
    /\ cancelQueue \in SUBSET Commands
    /\ handed \in SUBSET Commands
    /\ tails \in SUBSET (TailCalls \X Jobs)
    /\ reconcile \in Reconciles
    /\ starts \in [Commands -> Nat]
    /\ crashes \in Nat
    /\ saveFailures \in Nat
    /\ configs \in Nat

-----------------------------------------------------------------------------
(* The journal *)

Known(c) == journal[c].state \notin {"unknown", "removed"}

\* SaveCommandJournal writes the whole journal in one transaction.
SaveJournal(next) ==
    /\ journal' = next
    /\ disk' = next
    /\ UNCHANGED saveFailures

\* The transaction fails and memory is left at next.
SaveJournalFails(next) ==
    /\ saveFailures < MaxSaveFailures
    /\ saveFailures' = saveFailures + 1
    /\ journal' = next
    /\ UNCHANGED disk

\* A save whose error changes nothing else.
TrySaveJournal(next) == SaveJournal(next) \/ SaveJournalFails(next)

\* finishWithoutExecution: the entry is finished whatever its state was.
FinishedWithoutExecution(c) ==
    IF Known(c)
    THEN [journal EXCEPT ![c].state = "finished", ![c].outcome = "not_executed"]
    ELSE journal

HasPendingReplication(j) ==
    \E c \in Commands : /\ Kind[c] # "update"
                        /\ JobOf[c] = j
                        /\ journal[c].pending # {}

HasActiveMaintenance(j) ==
    \E c \in Commands : /\ Kind[c] \in {"maintenance", "sync"}
                        /\ JobOf[c] = j
                        /\ journal[c].state = "running"

-----------------------------------------------------------------------------
(* Commands and occurrences enter the journal *)

\* receiveCommand.  A redelivered command changes nothing.  A failed save takes
\* the entry back; for an update the runtime state is saved as well, and when
\* that fails the entry is taken back by a second save whose error is ignored.
ReceiveCommand(c) ==
    /\ Trigger[c] = "manual"
    /\ journal[c].state = "unknown"
    /\ LET received == [journal EXCEPT ![c] = [NoEntry EXCEPT !.state = "received"]]
       IN  \/ /\ SaveJournal(received)
              /\ agentUpdate' = IF Kind[c] = "update" THEN c ELSE agentUpdate
           \/ /\ SaveJournalFails(journal)
              /\ UNCHANGED agentUpdate
           \/ /\ Kind[c] = "update"
              /\ saveFailures < MaxSaveFailures
              /\ saveFailures' = saveFailures + 1
              /\ disk' \in {journal, received}
              /\ UNCHANGED <<journal, agentUpdate>>
    /\ UNCHANGED <<jobVars, loopVars, configured, starts, crashes, configs>>

\* The ways scheduleBackups journals an occurrence that is due.  The overlap
\* is decided on a copy of the busy set taken when the pass began, so it may
\* disagree with the busy set of this moment: both outcomes are possible.
Hows == {"start", "overlap", "deferred", "catchup", "drain"}

ScheduledEntry(how) ==
    [NoEntry EXCEPT !.state = IF how = "overlap" THEN "finished" ELSE "received",
                    !.acked = TRUE,
                    !.waits = CASE how = "deferred" -> "backup"
                                [] how = "catchup" -> "catchup"
                                [] OTHER -> "nothing",
                    !.outcome = IF how = "overlap" THEN "not_executed" ELSE "none"]

ScheduleOccurrence(c, how) ==
    /\ Trigger[c] = "scheduled"
    /\ Kind[c] \in {"backup", "maintenance"}
    /\ configured[JobOf[c]] = "enabled"
    /\ journal[c].state = "unknown"
    /\ (how = "deferred") <=> Deferred[c]
    /\ how = "catchup" => /\ Kind[c] = "backup"
                          /\ \/ HasActiveMaintenance(JobOf[c])
                             \/ JobOf[c] \in replicationActive
    /\ how = "drain" => agentUpdate # None
    /\ \/ /\ SaveJournal([journal EXCEPT ![c] = ScheduledEntry(how)])
          /\ handed' = IF how = "start" THEN handed \cup {c} ELSE handed
       \/ /\ SaveJournalFails(journal)
          /\ UNCHANGED handed
    /\ UNCHANGED <<jobVars, agentUpdate, configured, cancelQueue, tails, reconcile, starts, crashes, configs>>

-----------------------------------------------------------------------------
(* The dispatch loop.  reconcileInterrupted comes first in every pass, so   *)
(* no command is advanced until it has succeeded once since the restart.    *)

DispatchIdle == reconcile.phase = "done"

\* discardExpiredUnacknowledgedCommand.
DiscardExpired(c) ==
    /\ DispatchIdle
    /\ Trigger[c] = "manual"
    /\ Known(c)
    /\ ~journal[c].acked
    /\ \/ /\ SaveJournal([journal EXCEPT ![c] = Removed])
          /\ agentUpdate' = IF agentUpdate = c THEN None ELSE agentUpdate
       \/ /\ SaveJournalFails(journal)
          /\ UNCHANGED agentUpdate
    /\ UNCHANGED <<jobVars, loopVars, configured, starts, crashes, configs>>

\* advanceCommand: the control plane accepted the acknowledgement.
Acknowledge(c) ==
    /\ DispatchIdle
    /\ Known(c)
    /\ ~journal[c].acked
    /\ TrySaveJournal([journal EXCEPT ![c].acked = TRUE])
    /\ UNCHANGED <<jobVars, loopVars, agentUpdate, configured, starts,
                   crashes, configs>>

\* What advanceCommand lets through to execution.  Between this and the start
\* it resolves the job without the mutex, which may take a request to the
\* control plane; startOperation and startReplicaSync then look at all of it
\* again, so the two are one step here.
Dispatchable(c) ==
    /\ DispatchIdle
    /\ agentUpdate = None
    /\ journal[c].state = "received"
    /\ journal[c].acked
    /\ journal[c].waits # "backup"

\* advanceCommand: a polled command has expired, its job or replica is missing
\* or disabled in the required configuration, or the saved job of an
\* occurrence cannot be decoded.
SkipDispatched(c) ==
    /\ Dispatchable(c)
    /\ Kind[c] \in {"backup", "maintenance", "sync"}
    /\ TrySaveJournal(FinishedWithoutExecution(c))
    /\ UNCHANGED <<jobVars, loopVars, agentUpdate, configured, starts,
                   crashes, configs>>

\* advanceCommand runs an inspection itself, before it looks at other commands.
InspectSource(c) ==
    /\ Dispatchable(c)
    /\ Kind[c] = "inspect"
    /\ TrySaveJournal([journal EXCEPT ![c].state = "finished",
                                      ![c].outcome = "executed"])
    /\ UNCHANGED <<jobVars, loopVars, agentUpdate, configured, starts,
                   crashes, configs>>

\* cancel_run for a polled run that is still queued.  For a run that lives,
\* cancelRun only cancels its context, and the run ends as any run may.
CancelRun(c) ==
    /\ DispatchIdle
    /\ Trigger[c] = "manual"
    /\ Kind[c] \in {"backup", "maintenance"}
    /\ journal[c].state = "received"
    /\ TrySaveJournal(FinishedWithoutExecution(c))
    /\ UNCHANGED <<jobVars, loopVars, agentUpdate, configured, starts,
                   crashes, configs>>

-----------------------------------------------------------------------------
(* startOperation *)

BackupSlots == 2
MaintenanceSlots == 1

ActiveOf(kind) == {c \in active : Kind[c] = kind}

\* What a run holds: a backup its primary, maintenance the replicas as well.
RunRepositories(c) ==
    CASE Kind[c] = "backup" -> {Primary[JobOf[c]]}
      [] Kind[c] = "maintenance" -> {Primary[JobOf[c]]} \cup Replicas[JobOf[c]]
      [] Kind[c] = "sync" -> {Primary[JobOf[c]], SyncTarget[c]}
      [] OTHER -> {}

HasSlot(c) ==
    Cardinality(ActiveOf(Kind[c])) <
        IF Kind[c] = "backup" THEN BackupSlots ELSE MaintenanceSlots

\* Maintenance waits for the copies of the job, the one that runs and the ones
\* its backups owe.
CopiesDone(c) ==
    Kind[c] # "backup" => /\ JobOf[c] \notin replicationActive
                          /\ ~HasPendingReplication(JobOf[c])

RepositoriesFree(c) == RunRepositories(c) \cap repositories = {}

\* Mutant: startOperation does not look at the busy set.
CanStartWhenBusy(c) ==
    /\ agentUpdate = None
    /\ journal[c].state = "received"
    /\ HasSlot(c) /\ CopiesDone(c)

\* Mutant: maintenance does not wait for the copies that are owing.
CanStartBeforeCopies(c) ==
    /\ agentUpdate = None
    /\ journal[c].state = "received"
    /\ HasSlot(c) /\ RepositoriesFree(c)

CanStart(c) ==
    /\ agentUpdate = None
    /\ journal[c].state = "received"
    /\ HasSlot(c) /\ CopiesDone(c) /\ RepositoriesFree(c)

\* Mutant: the goroutine is started before the journal is saved.
StartRunUnsaved(c) ==
    /\ CanStart(c)
    /\ journal' = [journal EXCEPT ![c].state = "running"]
    /\ active' = active \cup {c}
    /\ repositories' = repositories \cup RunRepositories(c)
    /\ starts' = [starts EXCEPT ![c] = @ + 1]
    /\ UNCHANGED <<disk, saveFailures, syncing, replicationActive, copy>>

\* The entry is saved as running before the goroutine exists.
StartRun(c) ==
    /\ CanStart(c)
    /\ SaveJournal([journal EXCEPT ![c].state = "running"])
    /\ active' = active \cup {c}
    /\ repositories' = repositories \cup RunRepositories(c)
    /\ starts' = [starts EXCEPT ![c] = @ + 1]
    /\ UNCHANGED <<syncing, replicationActive, copy>>

\* The save fails and the entry is received again.
StartFails(c) ==
    /\ CanStart(c)
    /\ SaveJournalFails(journal)
    /\ UNCHANGED <<jobVars, starts>>

\* A guard or the pressure on the spool (canAcceptWork) refuses the start; the
\* dispatch loop will come back to the entry.
StartRefused == UNCHANGED <<journal, disk, saveFailures, jobVars, starts>>

StartOperation(c) == StartRun(c) \/ StartFails(c) \/ StartRefused

DispatchedStart(c) ==
    /\ Dispatchable(c)
    /\ Kind[c] \in {"backup", "maintenance"}
    /\ StartOperation(c)
    /\ UNCHANGED <<agentUpdate, configured, loopVars, crashes, configs>>

\* The scheduler, startNextDeferredMaintenance or startCatchUpBackup.
HandedStart(c) ==
    /\ c \in handed
    /\ StartOperation(c)
    /\ handed' = handed \ {c}
    /\ UNCHANGED <<agentUpdate, configured, cancelQueue, tails,
                   reconcile, crashes, configs>>

-----------------------------------------------------------------------------
(* finishOperation *)

\* finishOperation releases the primary and every attached replica, also for a
\* backup, which took only the primary.
ReleasedRepositories(c) == {Primary[JobOf[c]]} \cup Replicas[JobOf[c]]

Results == {"complete", "partial", "failed"}

NeedsReplication(c, result) ==
    /\ Kind[c] = "backup"
    /\ result \in {"complete", "partial"}
    /\ Replicas[JobOf[c]] # {}

FinishedEntry(c, result) ==
    [journal[c] EXCEPT !.state = "finished",
                       !.outcome = "executed",
                       !.pending = IF NeedsReplication(c, result)
                                   THEN Replicas[JobOf[c]] ELSE @]

FinishTails(c, result) ==
    {t \in TailCalls \X {JobOf[c]} :
        \/ t[1] = "replicate" /\ FinishedEntry(c, result).pending # {}
        \/ /\ t[1] = "maintenance"
           /\ Kind[c] = "backup" /\ Trigger[c] = "scheduled"
           /\ result = "complete" /\ FinishedEntry(c, result).pending = {}
        \/ t[1] = "catchup" /\ Kind[c] # "backup"}

\* The error of the last save is ignored: the next save repeats it.
FinishOperation(c, result) ==
    /\ c \in active
    /\ active' = active \ {c}
    /\ repositories' = repositories \ ReleasedRepositories(c)
    /\ IF Known(c)
       THEN /\ TrySaveJournal([journal EXCEPT ![c] = FinishedEntry(c, result)])
            /\ tails' = tails \cup FinishTails(c, result)
       ELSE UNCHANGED <<journal, disk, saveFailures, tails>>
    /\ UNCHANGED <<syncing, replicationActive, copy, agentUpdate, configured,
                   cancelQueue, handed, reconcile, starts,
                   crashes, configs>>

\* Mutant: a deferral that expires is forgotten.
ReleaseDeferredByRunsOnly(c) ==
    /\ agentUpdate = None
    /\ Deferred[c]
    /\ journal[c].state = "received"
    /\ <<"maintenance", JobOf[c]>> \in tails
    /\ SaveJournal([journal EXCEPT ![c].waits = "nothing"])
    /\ handed' = handed \cup {c}
    /\ tails' = tails \ {<<"maintenance", JobOf[c]>>}
    /\ UNCHANGED <<jobVars, agentUpdate, configured, cancelQueue,
                   reconcile, starts, crashes, configs>>

\* startNextDeferredMaintenance, called with a job when a run or a replication
\* of it ended, or without one by the scheduler for a deferral that expired.
ReleaseDeferred(c) ==
    /\ agentUpdate = None
    /\ Deferred[c]
    /\ journal[c].state = "received"
    /\ \/ /\ SaveJournal([journal EXCEPT ![c].waits = "nothing"])
          /\ handed' = handed \cup {c}
       \/ /\ SaveJournalFails(journal)
          /\ UNCHANGED handed
    /\ tails' \in {tails, tails \ {<<"maintenance", JobOf[c]>>}}
    /\ UNCHANGED <<jobVars, agentUpdate, configured, cancelQueue, reconcile, starts, crashes, configs>>

\* startCatchUpBackup finds a queued catch-up backup of the job.
StartCatchUp(c) ==
    /\ <<"catchup", JobOf[c]>> \in tails
    /\ agentUpdate = None
    /\ journal[c].state = "received"
    /\ journal[c].waits = "catchup"
    /\ handed' = handed \cup {c}
    /\ tails' = tails \ {<<"catchup", JobOf[c]>>}
    /\ UNCHANGED <<journal, disk, jobVars, agentUpdate, configured,
                   cancelQueue, reconcile, starts, crashes,
                   saveFailures, configs>>

\* Either call finds nothing to start, or an update that drains the agent.
TailFindsNothing(t) ==
    /\ t \in tails
    /\ t[1] # "replicate"
    /\ \/ agentUpdate # None
       \/ ~\E c \in Commands :
              /\ journal[c].state = "received"
              /\ JobOf[c] = t[2]
              /\ IF t[1] = "catchup" THEN journal[c].waits = "catchup" ELSE Deferred[c]
    /\ tails' = tails \ {t}
    /\ UNCHANGED <<journal, disk, jobVars, agentUpdate, configured,
                   cancelQueue, handed, reconcile, starts,
                   crashes, saveFailures, configs>>

-----------------------------------------------------------------------------
(* Replication: one goroutine per job copies the snapshots of its finished *)
(* backups from the primary to the replicas.                               *)

CopyRepositories(j) == {Primary[j], copy[j].target}

BeginReplication(j) ==
    /\ IF agentUpdate = None /\ j \notin replicationActive
       THEN /\ replicationActive' = replicationActive \cup {j}
            /\ copy' = [copy EXCEPT ![j] = [Idle EXCEPT !.phase = "select"]]
       ELSE UNCHANGED <<replicationActive, copy>>
    /\ UNCHANGED <<journal, disk, active, syncing, repositories, agentUpdate,
                   configured, cancelQueue, handed, reconcile,
                   starts, crashes, saveFailures, configs>>

\* startReplication as the last call of finishOperation or of reconciliation.
StartReplication(j) ==
    /\ <<"replicate", j>> \in tails
    /\ tails' = tails \ {<<"replicate", j>>}
    /\ BeginReplication(j)

\* resumeReplications at the end of a dispatch pass.
ResumeReplication(j) ==
    /\ DispatchIdle
    /\ configured[j] # "absent"
    /\ HasPendingReplication(j)
    /\ BeginReplication(j)
    /\ UNCHANGED tails

\* The finished backups of a job that still owe a copy to replica r.
Owing(j, r) ==
    {c \in Commands : /\ Kind[c] = "backup" /\ JobOf[c] = j
                      /\ journal[c].state = "finished"
                      /\ r \in journal[c].pending}

\* nextReplicationBatch.  A backup whose last copy failed is left out until
\* its retry time, so the batch may be any part of what is owing.
SelectBatch(j, r, batch) ==
    /\ copy[j].phase = "select"
    /\ r \in Replicas[j]
    /\ batch # {} /\ batch \subseteq Owing(j, r)
    /\ copy' = [copy EXCEPT ![j] = [phase |-> "acquire", target |-> r,
                                    batch |-> batch]]
    /\ UNCHANGED <<journal, disk, active, syncing, repositories,
                   replicationActive, agentUpdate, configured, loopVars,
                   starts, crashes, saveFailures, configs>>

CopySome(j) ==
    \E r \in Replicas[j], batch \in SUBSET Commands : SelectBatch(j, r, batch)

\* Nothing is owing that may be retried now.
NothingToCopy(j) ==
    /\ copy[j].phase = "select"
    /\ copy' = [copy EXCEPT ![j] = [Idle EXCEPT !.phase = "ending"]]
    /\ UNCHANGED <<journal, disk, active, syncing, repositories,
                   replicationActive, agentUpdate, configured, loopVars,
                   starts, crashes, saveFailures, configs>>

\* The copy takes both repositories or gives up.
AcquireForCopy(j) ==
    /\ copy[j].phase = "acquire"
    /\ IF CopyRepositories(j) \cap repositories = {}
       THEN /\ repositories' = repositories \cup CopyRepositories(j)
            /\ copy' = [copy EXCEPT ![j].phase = "copy"]
       ELSE /\ UNCHANGED repositories
            /\ copy' = [copy EXCEPT ![j] = [Idle EXCEPT !.phase = "ending"]]
    /\ UNCHANGED <<journal, disk, active, syncing, replicationActive,
                   agentUpdate, configured, loopVars, starts, crashes,
                   saveFailures, configs>>

\* Mutant: the replica stays busy.
CopyEndsKeepingTarget(j) ==
    /\ copy[j].phase = "copy"
    /\ repositories' = repositories \ {Primary[j]}
    /\ copy' = [copy EXCEPT ![j].phase = "verify"]
    /\ UNCHANGED <<journal, disk, active, syncing, replicationActive,
                   agentUpdate, configured, loopVars, starts, crashes,
                   saveFailures, configs>>

\* restic copy has returned; the inventory is read without the repositories.
CopyEnds(j) ==
    /\ copy[j].phase = "copy"
    /\ repositories' = repositories \ CopyRepositories(j)
    /\ copy' = [copy EXCEPT ![j].phase = "verify"]
    /\ UNCHANGED <<journal, disk, active, syncing, replicationActive,
                   agentUpdate, configured, loopVars, starts, crashes,
                   saveFailures, configs>>

\* finishReplicationBatch; a failed batch ends the goroutine.
FinishBatch(j, ok) ==
    /\ copy[j].phase = "verify"
    /\ TrySaveJournal(
         IF ok
         THEN [c \in Commands |->
                 IF c \in copy[j].batch
                 THEN [journal[c] EXCEPT !.pending = @ \ {copy[j].target}]
                 ELSE journal[c]]
         ELSE journal)
    /\ copy' = [copy EXCEPT ![j] =
                  [Idle EXCEPT !.phase = IF ok THEN "select" ELSE "ending"]]
    /\ UNCHANGED <<active, syncing, repositories, replicationActive,
                   agentUpdate, configured, loopVars, starts, crashes,
                   configs>>

\* The deferred function of replicateJob.
EndReplication(j) ==
    /\ copy[j].phase = "ending"
    /\ replicationActive' = replicationActive \ {j}
    /\ copy' = [copy EXCEPT ![j] = Idle]
    /\ tails' = tails \cup {<<"maintenance", j>>, <<"catchup", j>>}
    /\ UNCHANGED <<journal, disk, active, syncing, repositories, agentUpdate,
                   configured, cancelQueue, handed, reconcile,
                   starts, crashes, saveFailures, configs>>

-----------------------------------------------------------------------------
(* sync_replica *)

\* Mutant: a sync only asks for free repositories.
CanSyncDuringReplication(c) ==
    /\ agentUpdate = None
    /\ journal[c].state = "received"
    /\ RepositoriesFree(c)

\* startReplicaSync.  It counts against no slot and waits for no pending
\* replication.
CanSync(c) ==
    /\ agentUpdate = None
    /\ journal[c].state = "received"
    /\ JobOf[c] \notin replicationActive
    /\ RepositoriesFree(c)

StartReplicaSync(c) ==
    /\ Dispatchable(c)
    /\ Kind[c] = "sync"
    /\ CanSync(c)
    /\ \/ /\ SaveJournal([journal EXCEPT ![c].state = "running"])
          /\ syncing' = syncing \cup {c}
          /\ replicationActive' = replicationActive \cup {JobOf[c]}
          /\ repositories' = repositories \cup RunRepositories(c)
          /\ starts' = [starts EXCEPT ![c] = @ + 1]
          /\ UNCHANGED <<active, copy>>
       \/ /\ SaveJournalFails(journal)
          /\ UNCHANGED <<jobVars, starts>>
    /\ UNCHANGED <<agentUpdate, configured, loopVars, crashes, configs>>

\* The end of runReplicaSync.
FinishReplicaSync(c) ==
    /\ c \in syncing
    /\ syncing' = syncing \ {c}
    /\ replicationActive' = replicationActive \ {JobOf[c]}
    /\ repositories' = repositories \ RunRepositories(c)
    /\ IF Known(c)
       THEN TrySaveJournal([journal EXCEPT ![c].state = "finished",
                                           ![c].outcome = "executed"])
       ELSE UNCHANGED <<journal, disk, saveFailures>>
    /\ tails' = tails \cup {<<"catchup", JobOf[c]>>}
    /\ UNCHANGED <<active, copy, agentUpdate, configured, cancelQueue, handed, reconcile, starts, crashes, configs>>

-----------------------------------------------------------------------------
(* update_agent: the request is handed to the updater once nothing runs.    *)

\* Mutant: an update waits for the busy set only, not for a replication that is
\* between two copies.
StartAgentUpdateBetweenCopies(c) ==
    /\ DispatchIdle
    /\ Kind[c] = "update"
    /\ journal[c].state = "received"
    /\ journal[c].acked
    /\ agentUpdate # None
    /\ active = {} /\ repositories = {}
    /\ SaveJournal([journal EXCEPT ![c].state = "running"])
    /\ UNCHANGED <<jobVars, loopVars, agentUpdate, configured, starts,
                   crashes, configs>>

\* The journal says running before the mutex is released and the request is
\* written.
StartAgentUpdate(c) ==
    /\ DispatchIdle
    /\ Kind[c] = "update"
    /\ journal[c].state = "received"
    /\ journal[c].acked
    /\ agentUpdate # None
    /\ active = {} /\ repositories = {} /\ replicationActive = {}
    /\ \/ SaveJournal([journal EXCEPT ![c].state = "running"])
       \/ SaveJournalFails(journal)
    /\ UNCHANGED <<jobVars, loopVars, agentUpdate, configured, starts,
                   crashes, configs>>

\* The request cannot be written: the entry is received again and saved, the
\* error of that save ignored.  Which updates have a request is known to
\* AgentUpdate only.
UpdateRequestFails(c) ==
    /\ DispatchIdle
    /\ Kind[c] = "update"
    /\ journal[c].state = "running"
    /\ TrySaveJournal([journal EXCEPT ![c].state = "received"])
    /\ UNCHANGED <<jobVars, loopVars, agentUpdate, configured, starts,
                   crashes, configs>>

\* consumeAgentUpdateResult, the first step of a dispatch pass, accepts only
\* the result of the update the agent is drained for.
ConsumeUpdateResult(c) ==
    /\ reconcile.phase # "working"
    /\ agentUpdate = c
    /\ journal[c].state = "running"
    /\ TrySaveJournal([journal EXCEPT ![c].state = "finished",
                                      ![c].outcome = "executed"])
    /\ agentUpdate' = None
    /\ UNCHANGED <<jobVars, loopVars, configured, starts, crashes, configs>>

-----------------------------------------------------------------------------
(* The configuration loops (refreshConfig, reloadLocalConfig)               *)

\* acceptMaintenanceConfigLocked lists the queued work of jobs that are not
\* enabled any more.  The runs it cancels end as any run may.  When refreshConfig
\* cannot save the runtime state, the list is dropped.
AcceptConfig(listing) ==
    /\ configs < MaxConfigs
    /\ configs' = configs + 1
    /\ configured' = listing
    /\ \/ /\ cancelQueue' = cancelQueue \cup
               {c \in Commands : /\ Kind[c] \in {"backup", "maintenance", "sync"}
                                 /\ Kind[c] = "backup" => journal[c].waits = "catchup"
                                 /\ listing[JobOf[c]] # "enabled"
                                 /\ journal[c].state = "received"}
          /\ UNCHANGED saveFailures
       \/ /\ saveFailures < MaxSaveFailures
          /\ saveFailures' = saveFailures + 1
          /\ UNCHANGED cancelQueue
    /\ UNCHANGED <<journal, disk, jobVars, agentUpdate, handed, tails,
                   reconcile, starts, crashes>>

\* After the mutex was released, finishWithoutExecution is called for each of
\* them; an error ends the loop.
CancelQueued(c) ==
    /\ c \in cancelQueue
    /\ \/ /\ SaveJournal(FinishedWithoutExecution(c))
          /\ cancelQueue' = cancelQueue \ {c}
       \/ /\ SaveJournalFails(FinishedWithoutExecution(c))
          /\ cancelQueue' = {}
    /\ UNCHANGED <<jobVars, agentUpdate, configured, handed,
                   tails, reconcile, starts, crashes, configs>>

-----------------------------------------------------------------------------
(* The report loop *)

\* flushJournal saves the whole journal first.
FlushJournal ==
    /\ SaveJournal(journal)
    /\ UNCHANGED <<jobVars, loopVars, agentUpdate, configured, starts,
                   crashes, configs>>

\* flushCommand removes an entry once everything of it has been reported.
ReportAndRemove(c) ==
    /\ journal[c].state = "finished"
    /\ journal[c].acked
    /\ journal[c].pending = {}
    /\ TrySaveJournal([journal EXCEPT ![c] = Removed])
    /\ UNCHANGED <<jobVars, loopVars, agentUpdate, configured, starts,
                   crashes, configs>>

-----------------------------------------------------------------------------
(* Restart *)

UnfinishedUpdates ==
    {c \in Commands : Kind[c] = "update" /\ disk[c].state \in {"received", "running"}}

\* The process dies and starts again.  restoreAgentUpdateState drains again
\* for an update the journal has not finished.
CrashAndRestart ==
    /\ crashes < MaxCrashes
    /\ crashes' = crashes + 1
    /\ journal' = disk
    /\ active' = {} /\ syncing' = {}
    /\ repositories' = {} /\ replicationActive' = {}
    /\ copy' = [j \in Jobs |-> Idle]
    /\ agentUpdate' \in IF UnfinishedUpdates = {} THEN {None} ELSE UnfinishedUpdates
    /\ cancelQueue' = {} /\ handed' = {} /\ tails' = {}
    /\ reconcile' = ReconcileDue
    /\ UNCHANGED <<disk, configured, starts, saveFailures, configs>>

\* reconcileInterrupted collects every entry that is running and every job
\* whose copies are still owing.
CollectInterrupted ==
    /\ reconcile.phase = "due"
    /\ reconcile' =
         [phase |-> "working",
          ids   |-> {c \in Commands : Kind[c] # "update" /\ journal[c].state = "running"},
          jobs  |-> {j \in Jobs : \E r \in Replicas[j] : Owing(j, r) # {}}]
    /\ UNCHANGED <<journal, disk, jobVars, agentUpdate, configured,
                   cancelQueue, handed, tails, starts, crashes,
                   saveFailures, configs>>

\* reconcileOne gives a run that is still running the outcome it can prove.  A
\* replica sync has no saved job: when its job is gone from the configuration,
\* it is finished whatever its state is now.
Reconciled(c) ==
    IF \/ journal[c].state = "running"
       \/ Known(c) /\ Kind[c] = "sync" /\ configured[JobOf[c]] = "absent"
    THEN [journal EXCEPT ![c].state = "finished", ![c].outcome = "interrupted"]
    ELSE journal

\* When its job cannot be resolved, or the save fails, the next dispatch pass
\* starts over.
ReconcileOne(c) ==
    /\ reconcile.phase = "working"
    /\ c \in reconcile.ids
    /\ \/ /\ SaveJournal(Reconciled(c))
          /\ reconcile' = [reconcile EXCEPT !.ids = @ \ {c}]
       \/ /\ SaveJournalFails(Reconciled(c))
          /\ reconcile' = ReconcileDue
       \/ /\ reconcile' = ReconcileDue
          /\ UNCHANGED <<journal, disk, saveFailures>>
    /\ UNCHANGED <<jobVars, agentUpdate, configured, cancelQueue, handed,
                   tails, starts, crashes, configs>>

FinishReconcile ==
    /\ reconcile.phase = "working"
    /\ reconcile.ids = {}
    /\ reconcile' = [ReconcileDue EXCEPT !.phase = "done"]
    /\ tails' = tails \cup ({"replicate"} \X reconcile.jobs)
    /\ UNCHANGED <<journal, disk, jobVars, agentUpdate, configured,
                   cancelQueue, handed, starts, crashes,
                   saveFailures, configs>>

-----------------------------------------------------------------------------
Init ==
    /\ journal = [c \in Commands |-> NoEntry]
    /\ disk = [c \in Commands |-> NoEntry]
    /\ active = {} /\ syncing = {}
    /\ repositories = {} /\ replicationActive = {}
    /\ copy = [j \in Jobs |-> Idle]
    /\ agentUpdate = None
    /\ configured = [j \in Jobs |-> "enabled"]
    /\ cancelQueue = {} /\ handed = {} /\ tails = {}
    /\ reconcile = ReconcileDue
    /\ starts = [c \in Commands |-> 0]
    /\ crashes = 0 /\ saveFailures = 0 /\ configs = 0

CommandStep(c) ==
    \/ ReceiveCommand(c)
    \/ \E how \in Hows :
           ScheduleOccurrence(c, how)
    \/ DiscardExpired(c)
    \/ Acknowledge(c)
    \/ SkipDispatched(c)
    \/ InspectSource(c)
    \/ CancelRun(c)
    \/ DispatchedStart(c)
    \/ HandedStart(c)
    \/ \E result \in Results : FinishOperation(c, result)
    \/ ReleaseDeferred(c)
    \/ StartCatchUp(c)
    \/ StartReplicaSync(c)
    \/ FinishReplicaSync(c)
    \/ StartAgentUpdate(c)
    \/ UpdateRequestFails(c)
    \/ ConsumeUpdateResult(c)
    \/ CancelQueued(c)
    \/ ReportAndRemove(c)
    \/ ReconcileOne(c)

JobStep(j) ==
    \/ StartReplication(j)
    \/ ResumeReplication(j)
    \/ CopySome(j)
    \/ NothingToCopy(j)
    \/ AcquireForCopy(j)
    \/ CopyEnds(j)
    \/ \E ok \in BOOLEAN : FinishBatch(j, ok)
    \/ EndReplication(j)

Next ==
    \/ \E c \in Commands : CommandStep(c)
    \/ \E j \in Jobs : JobStep(j)
    \/ \E t \in TailCalls \X Jobs : TailFindsNothing(t)
    \/ \E listing \in [Jobs -> Listings] : AcceptConfig(listing)
    \/ FlushJournal
    \/ CrashAndRestart
    \/ CollectInterrupted
    \/ FinishReconcile

Spec == Init /\ [][Next]_vars

(* Fairness.  Every loop wakes up again after each pass and after each      *)
(* error (runTriggeredAgentLoop), so what a pass would do is done if it     *)
(* stays possible, or becomes possible again and again.  restic has a       *)
(* timeout in every request, so a run, a sync and a copy end.  Of what may  *)
(* fail - a save, the acknowledgement, a copy, the resolution of a job, a   *)
(* request to the updater, a start under spool pressure - it is assumed     *)
(* that it does not fail for ever.  Nothing is assumed of the control plane *)
(* sending or expiring commands, of new configurations or of restarts.      *)
Fairness ==
    /\ WF_vars(CollectInterrupted)
    /\ WF_vars(FinishReconcile)
    /\ \A t \in TailCalls \X Jobs : WF_vars(TailFindsNothing(t))
    /\ \A c \in Commands :
          /\ WF_vars(Acknowledge(c))
          /\ WF_vars(InspectSource(c))
          /\ WF_vars(HandedStart(c))
          /\ WF_vars(\E result \in Results : FinishOperation(c, result))
          /\ WF_vars(ReleaseDeferred(c))
          /\ WF_vars(StartCatchUp(c))
          /\ WF_vars(FinishReplicaSync(c))
          /\ WF_vars(StartAgentUpdate(c) /\ journal' # journal)
          /\ SF_vars(ConsumeUpdateResult(c))
    /\ \A j \in Jobs :
          /\ WF_vars(StartReplication(j))
          /\ WF_vars(ResumeReplication(j))
          /\ WF_vars(NothingToCopy(j) \/ CopySome(j))
          /\ WF_vars(AcquireForCopy(j))
          /\ WF_vars(CopyEnds(j))
          /\ WF_vars(EndReplication(j))
          /\ SF_vars(CopySome(j))
          /\ SF_vars(FinishBatch(j, TRUE))
    /\ SF_vars(\E c \in Commands : ReconcileOne(c) /\ reconcile'.phase = "working")
    /\ SF_vars(\E c \in Commands : /\ DispatchedStart(c) \/ StartReplicaSync(c)
                                   /\ starts' # starts)

FairSpec == Spec /\ Fairness

-----------------------------------------------------------------------------
(* Safety *)

\* The goroutines that use repositories: runs, replica syncs and copies.
Live == active \cup syncing
Copying == {j \in Jobs : copy[j].phase = "copy"}

\* "Serialized replica copies and maintenance for each backup job"
\* (CHANGELOG 0.10.0): no two goroutines use the same repository, whichever of
\* startOperation, startReplicaSync and replicateJob started them.
RepositoryExclusion ==
    /\ \A c, d \in Live :
          c # d => RunRepositories(c) \cap RunRepositories(d) = {}
    /\ \A c \in Live, j \in Copying :
          RunRepositories(c) \cap CopyRepositories(j) = {}
    /\ \A i, j \in Copying :
          i # j => CopyRepositories(i) \cap CopyRepositories(j) = {}

\* The busy set is what the live goroutines hold: a mark that outlived its
\* goroutine would block the job and every agent update until a restart, a
\* mark that went too early would let a second run in.
BusyMeansHeld ==
    repositories = UNION ({RunRepositories(c) : c \in Live}
                          \cup {CopyRepositories(j) : j \in Copying})

\* A job has at most one transfer at a time, the copies of its backups or one
\* sync_replica, and replicationActive says so for as long as it lives: an end
\* that cleared the mark of the other transfer would let an update start, or a
\* second transfer, while restic still copies.
OneTransferPerJob ==
    /\ \A j \in Jobs : copy[j].phase # "idle" => j \in replicationActive
    /\ \A c \in syncing : /\ JobOf[c] \in replicationActive
                          /\ copy[JobOf[c]].phase = "idle"
    /\ \A c, d \in syncing : c # d => JobOf[c] # JobOf[d]

\* Maintenance waits until the backups of the job are on every replica
\* (startOperation's hasPendingReplicationLocked): while it runs, no backup
\* of the job owes a copy.
MaintenanceAfterReplication ==
    \A m \in ActiveOf("maintenance"), b \in Commands :
        Kind[b] = "backup" /\ JobOf[b] = JobOf[m] => journal[b].pending = {}

\* An interrupted run "was not rerun" (reconciledResult,
\* reconciledMaintenance): a command is started at most once, across restarts
\* and failed saves.
StartedAtMostOnce == \A c \in Commands : starts[c] <= 1

\* An update waits "for active backups, maintenance, source inspections, and
\* replica transfers to finish before changing the installed package"
\* (CHANGELOG 0.11.0): while the updater works, nothing runs.
UpdateIsQuiescent ==
    (\E u \in Commands : Kind[u] = "update" /\ journal[u].state = "running") =>
        /\ Live = {}
        /\ replicationActive = {}

-----------------------------------------------------------------------------
(* Liveness *)

\* Whatever is queued - behind a busy repository, a pending replication, a
\* backup it waits for, or an update the agent drains for - ends: nothing in
\* the journal waits for ever.
QueuedWorkEnds ==
    \A c \in Commands :
        journal[c].state = "received" ~> journal[c].state \in {"finished", "removed"}
=============================================================================
