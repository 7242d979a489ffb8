# Backup Chief agent: verification project

TLA+ modules for the managed daemon of the Backup Chief agent and for its
exports, the TLC configurations that check them on small instances, and TLAPS proofs of their
main properties for every instance. `PROJECT.json` maps every definition that
models code to the lines it models.

## 1. The system

The agent backs up the directories and databases of a server with restic. In
managed mode a daemon (`agent/daemon.go`, `Run`) polls a control plane for
commands, follows cron schedules of its own, runs restic, copies snapshots to
replicas, and reports what happened. Nine loops and one goroutine per run share
one mutex, `daemon.mu`, and a bbolt database in which the journal of commands is
rewritten in one transaction.

| Component | State | Operations | Correct when |
|---|---|---|---|
| Run control (`commands.go`, `scheduler.go`, `replication.go`, `replica_sync.go`, `maintenance_state.go`) | journal in memory and on disk, `active`, `repositories`, `replicationActive`, `reconciled` | receive, acknowledge, discard, start, finish, defer, release, catch up, replicate, sync, cancel, reconcile | no repository is used twice; nothing is started twice; every mark is released; what is queued ends |
| Agent update (`commands.go`, `updater/`) | `state.AgentUpdate`, request/readiness/result files, the updater's durable phase | drain, request, install, restart, roll back, result, resume | nothing runs during an install; each request has one result; the drain ends |
| Journal reporting (`commands.go`, `journal.go`, `retired.go`) | events, log chunks, result flags of an entry; log files; records of retired enrollments | flush, retry, reject, strike, remove, purge a retired generation | what leaves the journal has been accepted; outcomes and logs arrive; a gap is told |
| Enrollment (`enroll.go`, `retired.go`) | bootstrap, pending file, retired enrollments | stop, settle the journal, retire, enroll, start | the journal of the old enrollment is still reported, by one reporter |
| Scheduler (`scheduler.go`) | `lastScheduleMinute`, occurrence records, spool gap | one pass per minute | an occurrence at most once; a look-back answers every minute; what was refused or left to a queued run stays marked until that run started or the gap was told |
| Retention and maintenance (`maintenance*.go`) | unresolved flag, latest complete proof, prune marker, next data part | plan, forget, prune, check | no destructive retention while an outcome is unresolved; protected snapshots stay |
| State database (`state_db.go`, `storage.go`) | bbolt file, reserve file | transactions, compaction, legacy import | a transaction is all or nothing; a full disk can still record an outcome |
| Configuration (`daemon.go`, `config.go`, `config_update.go`) | file, document in force, ETag, rejection, pause, revocation | fetch, reject, save, accept, reload, report, pause, revoke | the published document is in force in the end; a rejected one changes nothing; a revoked agent stays down |
| Realtime (`pusher/client.go`) | connection, subscription, timers, generation | connect, replace, subscribe, fail, reconnect, stop | one connection; stale callbacks do nothing; never stranded or deaf; news arrive |
| Part upload (`partupload/uploader.go`, `cmd/restic_export.go`) | buffers, slots, parts, first error | write, submit, retry, close, abandon | bounded memory; parts complete and in order, or one error; it ends |
| Parallel deflate (`restic/parallel_deflate.go`) | ordered jobs, workers | write, close | output in input order; close never hangs |
| Restic runner (`restic/runner.go`) | lock files, child process | lock, run, cancel | copies hold two locks without deadlock |
| Database dumps (`execution.go`, `mysql.go`, `postgresql.go`) | one snapshot per database | dump, continue after a failure | status says what was made |
| Restore and export (`restic/export.go`, `restic/scratch_export.go`) | scratch directory, archive | stream, restore and zip | a result is the whole archive |
| Encoding of requests, terminal browser, egress proxy, support packages, command line, packaging | | | see `PROJECT.json` |

How they interact: the poll loop and the scheduler put entries into the
journal; the dispatch loop, the scheduler and the ends of runs start them; the
report loop sends and removes finished entries; the configuration loops cancel
queued and running work; an update drains all of it. All of these are calls
under `daemon.mu`, released between the steps that talk to the network, to
restic, or to the updater. The Realtime client wakes the poll and configuration
loops and has a mutex and goroutines of its own. An export is a process of its
own: a producer, several compressors, a writer and several uploads.

What makes it hard: state read under the mutex and used after it was released
(the list of queued operations to cancel, the busy set of a scheduler pass, the
entries to reconcile); goroutines that end and still have calls to make; a
restart between any two steps, with a journal on disk that may lag the memory
when a save failed; chains of waiting (deferred maintenance waits for a backup,
the backup for a copy, the copy for repositories, an update for all of them).
`PROJECT.json` lists these hazards at their lines.

## 2. The modules

### RunControl

One action is one critical section of `daemon.mu`, or several when only one
goroutine can come between them. What a goroutine carries from one critical
section to a later one is a variable:

| Variable | Code |
|---|---|
| `journal`, `disk` | `daemon.journal.Commands` in memory; the journal of the last successful `SaveCommandJournal` |
| `active`, `syncing` | the goroutines of `runBackup`/`runMaintenance` (`daemon.active`) and of `runReplicaSync` |
| `repositories`, `replicationActive` | the fields of the same name |
| `copy` | the position of each job's `replicateJob` goroutine, its target and its batch |
| `agentUpdate` | `daemon.state.AgentUpdate`, the command the agent is drained for |
| `configured` | whether the accepted configuration lists a job as enabled, as disabled, or not at all |
| `cancelQueue` | `queuedOperations` of `reloadLocalConfig` and `refreshConfig`, after the mutex was released |
| `handed` | entries that the scheduler, `startNextDeferredMaintenance` or `startCatchUpBackup` pass to `startOperation` |
| `tails` | calls that `finishOperation`, `runReplicaSync` and `replicateJob` make after they released the mutex |
| `reconcile` | the progress of `reconcileInterrupted` |
| `starts` | history: how often a command's goroutine was started |

An entry keeps of `JournalCommand` what the control depends on: its state,
`Acknowledged`, what it waits for (`WaitForBackup`, `CatchUpBackup`), how its
outcome came about, and `ReplicationPending`.

Abstractions, all towards more behaviour or without loss for the properties:

- The overlap of an occurrence is decided on a copy of the busy set taken when
  the scheduler's pass began. The model lets both outcomes happen.
- Expiry, retry times and cron expressions are left out: whatever time may allow
  can happen.
- The batch of a copy may be any part of what is owing to a replica (a backup
  whose last copy failed is left out until its retry time), and any replica may
  come first.
- Between `advanceCommand`'s checks and the start the job is resolved without
  the mutex. `startOperation` and `startReplicaSync` check everything again and
  polled commands are started by the dispatch loop only, so it is one step.
- A cancelled context lets a run end, and runs may end at any time anyway.
- A pause for authentication only keeps loops from doing anything.
- A `cancel_run` command is the cancellation it performs; its own journal entry
  is not kept. Removed entries are not redelivered.
- A job's repositories are constants: a configuration enables, disables or
  removes jobs. `OwnRepositories` states README.md's "into its own Restic
  repository": two jobs share none.

`MaxCrashes`, `MaxSaveFailures` and `MaxConfigs` bound restarts, failed journal
transactions and accepted configurations. The proofs hold for every value.

### MCRunControl

The instance: one job with a primary and one replica; a backup (polled or scheduled),
maintenance deferred until after it, a replica sync, an inspection and an
update command, of which each configuration takes some.

### AgentUpdate

An update from the command to its result, with the root updater as a second
process. The two share four files, and every file write and every critical
section of the daemon is one action, so that either process can die between any
two of them:

| Variable | Code |
|---|---|
| `journal`, `disk` | as in `RunControl`, update commands only |
| `agentUpdate`, `runtimeDisk` | `daemon.state.AgentUpdate` in memory and in the state database |
| `dispatch` | where a pass of `dispatchCommands` is, between two critical sections |
| `running` | the version of the daemon's process, `None` while it is down |
| `installed` | `CurrentVersion` of the package manager |
| `requestFile`, `stateFile`, `readinessFile`, `resultFile` | the files of `updater/state.go` |
| `updater` | where `updater.Run` is, the version it changes to (`aim`), the one it returns to (`previous`), the result it is about to write |
| `answered`, `stops` | history: updates with a result; restarts of the daemon |

`StartAgentUpdate` and `WriteRequest`, `ConsumeResult` and `RemoveResult`,
`WriteResult`, `RemoveRequest` and `CleanUp` are the pairs and triples of steps
that the code does not make atomic. `Unpack` and `RestartAgent` are the two
halves of what the package manager and `packaging/postinstall.sh` do.
`UpdaterFails` is the death of the updater, or a file it could not write.

Abstractions:

- The updater is started by the systemd path unit whenever a request exists.
  Under SysV init the daemon starts it, at fewer moments.
- The daemon's other work is left to `RunControl`: see the refinement below.
- The control plane sends an update when it knows of no other that has not
  ended; section 4 says what `RunControl` shows of two at a time.
- Nobody else changes the package, so the branch of `Run` for an unexpected
  version is unreachable (`RollbackIsKnown` says so for every instance).
- Versions are numbers, compared as `compareVersions` compares them.
- The version of the package manager may be unknown, preflights, installations
  and downgrades may fail, before or after the package changed, and readiness
  may time out: all of it at any time.

`Runs == INSTANCE RunControl WITH ...` maps this state to that of `RunControl`
with updates for commands and nothing else to do: `ImplementsRunControl` says
that with the updater, its files and every restart it causes, each step of the
daemon is one that `RunControl` allows. What `RunControl` takes for one step or
for an unexplained result (`ConsumeUpdateResult`, `UpdateRequestFails`,
`CrashAndRestart`) is what happens here in several.

### MCAgentUpdate

One update to version 2 of an agent whose version is 1, 2 or 3.

### Reporting

What happens to the events, the log and the result of a run between the journal
and the control plane. Two reporters do it: `flushJournal` for the current
enrollment and `reportRetiredJournal` for an enrollment that a new setup
replaced. Each copies an entry under the mutex, sends without it, and changes
the entry in later critical sections. Runs, copies and reconciliation append to
the same entries meanwhile.

| Variable | Code |
|---|---|
| `generation`, `retired` | the generation of the saved bootstrap; the generations of `retired_enrollments` |
| `setup`, `up` | how far `Enroll` is; whether the daemon runs |
| `journal`, `disk`, `active` | as in `RunControl`, with the reporting half of an entry: `Events`, `Sequence`, `ResultReported`, `NextLogChunk`, `LogCompleted`, whether it has a log and a pending copy |
| `logs` | the files of `WriteRunLog` |
| `loop` | the locals of `flushCommand` and `flushRetiredCommand`, and where each reporter is |
| `gap`, `beat` | `SpoolGapDetected` and `SpoolGapVersion` in memory and in the state database; the heartbeat under way |
| `server` | external: the events, chunks, completed logs and results the control plane has |
| `accepted`, `purged`, `untold` | history: entries ever journaled; entries given up with their enrollment; a gap no heartbeat has told |

Each request has four ends: it fails (`RequestFails`), it is taken and its
answer lost (`AnswerLost`), it is answered (`Answered`), and for events some are
rejected (`Rejected`). `Update` is a reporter's critical section with its save,
which may fail.

Abstractions:

- Only acknowledged entries are here; `RunControl` has the way there.
- `progress` stands for `run_started`, `clock_skew` and `run_progress`; nothing
  treats them differently. `complete` stands for every status a run can end with
  that is neither unresolved nor cancelled, and several replicas for one.
- A run ends once: that reconciliation may end a live one (section 4) is left to
  `RunControl`.
- The day after which a retired enrollment is given up may be over at any time.
- The control plane knows an event by its identity and accepts it again.
- Saves of the runtime state succeed. A save of the journal can fail where the
  code goes on after it (`SaveMayFail`); where the code takes the change back, a
  failed save is a step that changes nothing.
- The results of an inspection, an update or a sync are the same step as a run's.
- After `SaveBootstrap` a setup is one step: repeated with the same token it only
  finishes what is left, with the generation already advanced.
- The daemon does not start while a setup works. After a failed one it starts only
  with `RestartsAfterFailedSetup`, which the runs leave FALSE: the service is
  stopped and not disabled, so the next boot starts it. Section 4 says what
  happens then.

### MCReporting

Two runs (retention by command with one inventory chunk, and a scheduled backup),
or one run, a replicated backup.
`BatchSize` 2 or 3 and one or two `LogChunks` stand for 30 events and pieces of 256 KiB.

### Realtime

One client of `pusher/client.go`. Its fields are guarded by one mutex, but each
goroutine that works for it takes the mutex several times, with a dial, a close
or a request in between, and the goroutines of a replaced connection go on:

| Variable | Code |
|---|---|
| `config`, `stopped`, `generation`, `conn` | `c.config`, `c.stopChan` closed, `c.generation`, `c.conn` |
| `isConnecting`, `isConnected`, `isSubscribed` | the fields of the same name |
| `pinger`, `timer`, `delay` | the connection of `c.pingTicker`, the generation of the armed `c.reconnectTimer`, the doublings in `c.reconnectDelay` |
| `attempt` | the goroutines that are in `Connect` or about to call it, and where |
| `socket` | every connection ever dialed: its state, who is about to close it and what follows, its reader, subscriber and watchdog, and what the server has done |
| `unseen` | history: published, and no loop of the daemon woken since |

Abstractions: a timer may fire whenever it is armed; jitter and durations are
left out. Pongs and read deadlines are part of `ConnectionLost`. Events are all
alike: each wakes a loop. `MaxTroubles` bounds failures and changes of the
configuration together, `MaxNews` what is published.

`MCRealtime`: two configurations, one of which has no channel, three connections,
any two failures or changes, one event.

### Retention

Backups, retention and maintenance of one job. `RunControl` shows that one
operation of a job works on its repositories at a time, so one, `op`, is in
flight; a crash leaves operations behind that reconciliation settles, possibly
while the next one runs.

| Variable | Code |
|---|---|
| `repo`, `anchored` | external: the snapshots of the primary and the replica, pairs of a run (its `backupchief-run` tag) and a part (a database); those with the run-anchor tag |
| `runtime` | `MaintenanceRuntime` of the repository: `LatestComplete`, `Unresolved`, `UnresolvedConfirmed`, `NextDataPart` |
| `op` | the operation: its kind and step, the copy of the job it was started with, its plan in memory and on disk, the repository it is at |
| `started`, `interrupted` | how many were started; those a crash left in the journal as running |
| `config`, `unreported`, `known` | `HasUnresolvedRuns` of the accepted configuration; unresolved outcomes the control plane does not know, and does know |
| `open`, `recorded`, `last` | history: unresolved outcomes nobody has settled; all of them; the result journaled last |

A forget is a step per call to restic (inventory, delete, inventory again,
prune), on the primary and then on the replica, each of which may fail before or
after it had an effect, and is retried up to `MaxAttempts`.

Abstractions:

- What a policy keeps is any choice of runs: the arithmetic of keep-rules is
  restic's. Times are left out; a prune is due or not.
- Two repositories. Further replicas repeat the second.
- `prune`, checks and inventories are one call. Which data part is checked rotates.
- A copy to the replica is one step between operations, whole or in part.
- A hold by snapshot ID that is missing refuses a forget; a hold by run protects
  whatever is left of the run. Both are in `op.held`.
- A command that names runs names none that is protected unless `AnyTarget`:
  the code leaves that check to the control plane (section 4).

`MCRetention`: backups of two databases, three operations, two attempts, any two
failures or crashes, a control plane that holds nothing or all of run 0.

### Export

One `restic export` that uploads its archive: `uploadExport`, the uploader of
parts and the parallel compressor.

| Variable | Code |
|---|---|
| `kind`, `scratch`, `started` | who makes the archive: restic, or the ZIP writer with one compressor or several; the snapshot is restored to a scratch directory first; this entry has filled a chunk |
| `main` | where the goroutine of `uploadExport` is |
| `produced`, `rest`, `failed` | what the source has yielded, a last chunk that is not full, and whether it ended with an error |
| `jobs`, `ordered`, `working`, `results`, `writer`, `deflateErr` | the two channels of `parallelDeflater`, its workers, the filled result channels, its writing goroutine and its error |
| `submit`, `buffer`, `pool`, `slots`, `uploads` | the uploader's buffers, slots and upload goroutines |
| `err`, `cancelled` | its first error and its context |
| `stream`, `report` | history: what was written to it; the result or the failure code |

Abstractions:

- A compressed chunk is one unit, and so is all that the ZIP writer adds at the
  end; a part is `PartUnits` units. The buffered writer between ZIP and uploader
  only changes how units are grouped.
- Compression does not fail (`flate` fails only when its writer does).
- That the archive begins with a ZIP header is checked where it can be wrong,
  for an archive that restic makes. Close may find an archive of one write that
  fills no part shorter than a header.
- `part > len(PartURLs)` is unreachable for the targets that `Host` accepts
  (`TargetIsValid`); `TypeOK` says so.
- The progress ticker, which only reads, is left out.

`MCExport`: two compressors, two slots, parts of two units, at most 7 units, two
attempts and one failed request or signal. The queues fill up at five chunks in
flight, so six chunks with a rest reach every wait.

### Schedule

A pass of `scheduleBackups` on the state database, for one job. `RunControl` has
what starts when; this module has minutes, occurrences and a disk that fills up.

| Variable | Code |
|---|---|
| `clock`, `up`, `last` | the minute, whether the daemon runs, `daemon.lastScheduleMinute` |
| `mem`, `disk` | the journal, `AgentUpdate.LastScheduleMinute` and `SpoolGapDetected`, in memory and in the database; there also whether the journal has an unfinished `update_agent` command, and the bucket of occurrences |
| `pass` | the call of `scheduleBackups` in progress: its minute, its look-back, the operation it is at; history: what was recorded when it began (`known`) |
| `reserve`, `released` | the reserve file, `reserveReleased` |
| `crowded`, `slack`, `over` | external: others have filled the disk; what the reserve occupied is free; the spool exceeds its limit |
| `made` | history: runs journaled for an occurrence |
| `owed` | history: occurrences that were left to a queued run, or refused, and for which no such run has started and no gap was told yet |
| `left` | history: what the last pass that came to its end looked at and did not answer |
| `disturbed` | history: the clock was set back, or the end of an update was not saved |

A pass decides under `daemon.mu` what becomes of an occurrence (`FindQueued`,
`RefuseForPressure`, `Admit`) and writes it in a later step (`Coalesce`, `Refuse`,
`JournalRun`): between the two a queued run may start, a heartbeat may clear the
gap, the disk may fill up. `owed` begins with the decision where memory has a run
that stands for the occurrence, and with the write where there is none.

Abstractions:

- A cron expression is the set of minutes it names (`Due`), with a distance of
  two; parsing is left out.
- Whether the job is busy, and what overlap and catch-up make of it, is chosen
  freely: `RunControl` has it. A run is worked on in one step and then deleted.
- Of an update there are its command and its drain, which `receiveCommand` and
  `consumeAgentUpdateResult` save in two transactions. The process may die between
  them and the second may fail; a restart decides by the command and takes the
  minute of the runtime state (`Restored`), which may be that of an earlier update.
- A pause for authentication is chosen freely in every pass. It ends the pass after
  the minute was counted; what was due then gets no answer and is in no history
  variable (section 4).
- The heartbeat clears the gap in one step; `Reporting` has the race with a new one.
- Compaction replaces the database by a copy with the same contents in one rename
  under the store's lock: it may bring the spool under its limit and does nothing
  else. The import of the files of older releases is left out.

What counts as unanswered (`Unanswered`): an occurrence the pass looks at that is
not recorded, unless the same pass recorded an earlier minute of the operation,
which is the one run that catches up on all of them.

`MCSchedule`: a backup due twice and retention due once, deferred until after the
backup; any two crashes, steps back of the clock or changes of the disk.

### Configuration

How a document gets from the control plane into force, and what the control plane
thinks of the credential into the runtime state. One action is one request, one
access to the file or one critical section of `daemon.mu`.

| Variable | Code |
|---|---|
| `published`, `credential`, `told` | the control plane: its revision, its verdict on the credential, the rejection it was last told of |
| `file` | `Paths.ManagedConfig`: the revision its metadata give (0 if they cannot be read), and whether `LoadConfig` accepts it |
| `disk`, `mem` | `RuntimeState` in the database and in `daemon.state`: rejected revision, error, pause, revocation |
| `phase` | the daemon's process |
| `config`, `etag`, `realtime` | `daemon.config` with `daemon.metadata`, `daemon.etag`, the configuration of `daemon.realtimeClient` |
| `refresh`, `reload`, `beat`, `update` | what `refreshConfig`, `reloadLocalConfig`, `sendHeartbeat` and the two callers of `UpdateConfig` carry from one step to the next |
| `overtaken`, `astray` | history: the command wrote an older document than the daemon's; the Realtime client was not replaced, or may be by an older one |

- `refreshConfig` is `RefreshBegins` (ETag and metadata read under the mutex),
  `FetchConfig`, then `RefreshRefused`, `ConfigRejected`, `NothingNew`,
  `SaveConfigFails`, or `SaveConfig`, `RefreshAccepts`, `RefreshReplacesRealtime`.
- `reloadLocalConfig` is `ReloadLoads`, `ReloadCompares`, `ReloadAccepts`,
  `ReloadReplacesRealtime`: what was loaded may be old when it is accepted.
- `UpdateConfig` runs as the command of an operator, at any time, and within `Run`
  when the file is invalid.
- `handleRequestError` and `clearAuthenticationPause` are parts of the actions that
  call them, with a save that may fail. The other loops treat a refusal in the same
  way.

A document is its revision: digest, ETag and contents go with it, and `Bad` names
the revisions that `DecodeConfig` refuses. Two documents of one revision, for two
protocol revisions or in conflict (`ErrConfigConflict`), are left out. Wake-ups
only shorten a wait and every wait ends, so they do not appear. The missing file,
with which `Run` ends, is left out. Other writers of the runtime state save what
`mem` has, which is no more than a failed save that succeeded.

### The proofs

`RunControlProofs`, `AgentUpdateProofs`, `ReportingProofs`, `RealtimeProofs`,
`ScheduleProofs`, `ConfigurationProofs`, `RetentionProofs` and `ExportProofs` each
extend the module they are named after; section 5 says what they show.

## 3. The runs

| Run | Instance | Shows |
|---|---|---|
| `repositories` | polled backup, deferred maintenance, sync; 1 crash, 1 configuration | `RepositoryExclusion`, `BusyMeansHeld`, `OneTransferPerJob`, `MaintenanceAfterReplication` |
| `restart` | scheduled backup, deferred maintenance, update, inspection; 1 crash, 1 failed save | `StartedAtMostOnce`, `UpdateIsQuiescent` |
| `progress` | backup, deferred maintenance, update; no crash | `QueuedWorkEnds` under `FairSpec` |
| `update` | one update from version 1, 2 or 3 to 2; 1 crash of the daemon, 1 death of the updater, 1 failed save, 1 failed write | `RollbackIsKnown`, `ReportedVersionRuns`, `ChangesWhileDrained`, `ImplementsRunControl`, `RequestAnswered`, `UndisturbedWorkResumes` under `FairSpec` |
| `reporting` | a retention command and a scheduled backup; 1 rejection, logs that fail, 1 re-enrollment | `TypeOK`, `BatchIsPrefix`, `GapStaysMarked`, `DurableUntilAccepted`, `ForgottenWhenReported` |
| `arrives` | a replicated backup with a log of two chunks; 1 crash, 1 failed save, 1 re-enrollment | `LogWhole`, `LogFileKept`, and `OutcomeArrives` under `FairSpec` |
| `realtime` | 3 connections, 2 configurations, any 2 failures or changes, a stop | `TypeOK`, `NoLeakedSocket`, `ConnectionIsCurrent`, `NeverStranded`, `NeverDeaf`, and `NewsArrives` under fairness |
| `retention` | 3 operations on 2 databases and 2 repositories, any 2 failures or crashes | `TypeOK`, `HonestOutcome`, `RecoveryPointKept`, `RefusesUnresolved` |
| `reconciled_proof` | violation; 2 operations, 1 crash | `CompletePointRemains`: a partial backup replaces the last complete one |
| `export` | 2 compressors, 2 slots, 7 chunks or entries of a scratch restore, 1 failed request or signal | `TypeOK`, `BuffersBounded`, `ArchiveWhole`, and `ExportEnds` under fairness |
| `schedule` | 3 minutes, 2 operations, any 2 crashes, clock steps or disk changes, drains | `OncePerOccurrence`, `NothingDroppedSilently`, `LookBackComplete` |
| `configuration` | 3 revisions of which the second is not accepted; any 2 crashes, failed or stale requests, failed writes, refused credentials, spoilt files or uses of `config update`; a revocation | `TypeOK`, and `Settles` under fairness |

Why these bounds: each hazard of run control needs one job, at most four
commands and one failure of a kind, because two goroutines meet on one
repository; a second crash only repeats the first from another reachable disk.
Two jobs never share a repository, so a second job adds nothing to exclusion;
the proofs cover any number of jobs, replicas, commands and failures.
For an update, one failure of each of the four kinds lets every file be left
behind in every phase; three initial versions give an update, a repeated one and
a refused one. For reporting, one run is enough for one
reporter against the goroutines that append, and two for a reporter that has a
pass over several; a batch smaller than the events of a run and a log of two
chunks give every position between two requests. A failed save together with a
rejection, of which the run has one each but not in the same configuration, is
the one combination left out. `MaxStops` is only the bound on restarts that `RunControl` has as
a constant; the run never reaches it.

The five newer instances bound all their faults by one number, `MaxTroubles`, so
that any two of them meet (one for `export`, where a second failure finds the
uploader cancelled already). Three connections let one be in use while two that it
replaced still have goroutines. Three operations are a backup that goes wrong, a
forget, and a third that meets what they left. Three minutes are two occurrences
of one operation and a drain or a gap between them. Three revisions are one that is
rejected and one that is accepted after it; two troubles are a command and a slow
loop, a spoilt file and a crash, or a refused credential and a failed save.

`CHECK_DEADLOCK FALSE` throughout: the environment runs out of commands, minutes
or events, or the process ends, and then nothing is left to do.

Fairness (`Fairness` in `RunControl`): `runTriggeredAgentLoop` calls a loop's
pass again after every pass and every error, so a step of a loop that stays
possible is taken; `HandedStart`, `TailFindsNothing` and the like are the next
statement of a goroutine. Every restic request carries a timeout, so runs and
copies end. Strong fairness is assumed only where a pass may try and fail many
times: a copy that succeeds some day, reconciliation whose job can be resolved
some day, and a start that finds its repositories free again and again.
Nothing is assumed of the control plane, of configurations or of restarts, and
the run has no crash or failed save. The write of an update's request may fail;
its result is consumed under strong fairness, as a failed write makes it due
again.

Fairness of `AgentUpdate`: a started updater goes on (its package commands and
its wait for readiness have timeouts), the path unit starts one while a request
exists, and the service manager restarts a daemon that died (`Restart=on-failure`).
`VersionUnknown` is left out of it, so that no property rests on a failure
happening. Strong fairness is for what a pass tries again and again: the
acknowledgement, the save that starts an update, the write of the request, the
removal of the result.

Fairness of `Reporting`: the loops repeat their passes and a step between two
requests is the next statement, so weak fairness is enough for them. Strong
fairness is for `Answered`: a request that is made again and again is answered
some day (nothing is assumed of when, and it may fail or lose its answer before).
The operator repeats a failed setup until it succeeds, a copy that fails is tried
again, and the service manager starts the daemon. No run is assumed to end: the
property is about runs that have.

Fairness of `Realtime`: the Go runtime runs every goroutine and every timer, and
the dial, the close and the authorisation request end by their own timeouts, so
weak fairness of each goroutine's next step. Failures, configurations and the
stop are left out of it.

Fairness of `Export`: weak fairness of the process as a whole. As long as any
goroutine can go on, one does; a request ends with an answer, an error or a timeout.
This is a little more than the transport guarantees: it has timeouts for the TLS
handshake and the headers of an answer (`cmd/restic_export.go:142`), but a body
whose write stalls on an open connection ends only when the connection is given up
by the kernel or the proxy, or a signal comes. `ExportEnds` is about the program's
own waits. A signal need not come. Nothing is assumed about which goroutine goes on:
every step but a failed request uses up something finite.

Fairness of `Configuration`: weak fairness of each of the three loops and of a start
that has begun. The service manager starts the daemon at boot and after a crash; the
unit says `RestartPreventExitStatus=2`, and every error that `Run` returns ends the
process with 2 (`cmd/exit.go`), so nothing is assumed after such an end. Nothing is
assumed of the command, of publications, or that a refused credential is accepted
again.

## 4. Findings

- `reconciled_proof`: reconciliation takes one tagged snapshot for the whole run.
  A backup of several databases that a crash interrupts becomes the latest
  complete recovery point, and retention removes the one that was complete.
  `RecoveryPointKept` is what remains true: what is recorded as the latest
  complete one stays.

Disagreements without a run of their own. The first eleven are traces that TLC
gives for these modules when a bound or a constant is changed or a stronger
property is stated; the others were met while modelling.

- An update command is saved as running before its request is written
  (`commands.go:1187`). A crash in between leaves a drain that nothing ends:
  `advanceCommand` starts only received updates, reconciliation skips updates, an
  acknowledged command does not expire, and the updater has no request
  (`AgentUpdate`: `WorkResumes`). CHANGELOG.md:211 says that work is resumed.
  `UndisturbedWorkResumes` is what remains true. The same happens when the runtime
  state cannot be saved or the result not be removed after a result was consumed
  and the report loop removes the entry first.
- While an update drains, a pass saves its minute as `LastScheduleMinute`
  (`scheduler.go:74`) before it sees that the agent is paused for authentication and
  returns without an error (`scheduler.go:83`). The next pass looks back to this
  minute only: what was due up to it gets no run and no gap (`Schedule` with what a
  paused pass does not answer in `left`: `LookBackComplete`). CHANGELOG.md:211 says
  that scheduled occurrences are kept while an update drains.
- `firstDueSchedule` returns the first due minute of the look-back, and the operation
  is skipped when that one is recorded (`scheduler.go:157`-`171`): what was due after
  it gets no run and no gap (`Schedule`: `LookBackComplete` without `disturbed`). It
  takes a recorded minute within the look-back: because the clock was set back, or,
  without that, because the end of one update was not saved on a full disk and the
  beginning of the next only in part, so that a restart takes the minute of the first
  (`commands.go:1103`; five minutes and a backup due in three of them). With neither
  of the two, a pass that comes to its end has answered all it looks at.
- A published document may never come into force, or not wholly (`Configuration`:
  `Settles` without one of its exceptions). `reloadLocalConfig` leaves
  `daemon.etag` alone (`daemon.go:278`), so an older document that a slow
  `config update` wrote over a newer one stays in force: the refresh loop is told
  that nothing was modified. `replaceRealtime` runs without the mutex, so the
  refresh and the reload of two documents may install their clients in the other
  order, and it is skipped when the runtime state cannot be saved
  (`daemon.go:426`). A daemon with an invalid file ends with exit status 2 when the
  control plane cannot be reached or serves a document it does not accept, and also
  when the file's metadata are those of the published document (`SaveConfig`
  finds it unchanged); the service manager does not restart it.
- A document was rejected, and the next one is accepted by the reload, or by a
  refresh that dies between the save of the file and that of the state
  (`daemon.go:393`-`424`): nothing clears the rejection, and the heartbeat reports
  the old revision as rejected until the next document.
- Reconciliation collects every entry in state running without looking at
  `daemon.active` (`commands.go:1036`). The scheduler starts runs before the
  first dispatch pass, and a pass that failed is repeated, so a live run of this
  process is declared interrupted (`RunControl`).
- A second `update_agent` overwrites the drain (`commands.go:111`). When it
  expires before it is acknowledged, work starts again while the updater is at
  work for the first. CHANGELOG.md:205 says updates wait (`RunControl` with two
  update commands: `UpdateIsQuiescent`).
- `writeTerminal` writes the result before it removes the request
  (`updater.go:209`). An updater that dies in between leaves both: the daemon goes
  back to work after a failed update, and the path unit starts the updater again,
  which installs the package under it. `ChangesWhileDrained` is what remains true.
- `flushRetiredCommand` sends one batch and returns nil when events are left
  (`retired.go:274`); the record of the enrollment is dropped, and the rest, of
  which the outcome is the last, is never sent (`Reporting` with more terminal
  events than `BatchSize`: `OutcomeArrives`).
- `Enroll` retires the enrollment before the new one exists (`retired.go:162`).
  When the request then fails and the service starts again, both reporters send
  the same entry, and the second strike removes events that nobody sent
  (`Reporting` with `RestartsAfterFailedSetup`: `DurableUntilAccepted`).
- A forget of given runs checks no protection (`maintenance.go:249`) and relies on
  the control plane (`Retention` with `AnyTarget`: `RecoveryPointKept`). A plan
  followed by its runs removes every snapshot of them, also one held singly.
- The configuration loops cancel queued work after they released the mutex, and
  `finishWithoutExecution` does not look at the state, so a run that started in
  between is reported as cancelled in the queue (`daemon.go:287`).
- An outcome whose save failed between the save of `flushJournal` and the copy of
  its entry is reported before it is durable (`commands.go:663`).
- README.md:21: destructive retention is refused "while a run outcome is
  unresolved". Two unresolved runs share one mark, which the settlement of one
  clears, and a forget that the scheduler starts before reconciliation reaches an
  interrupted run is not refused. `RefusesUnresolved` is what remains true. The
  other way round, a job copy that still says `HasUnresolvedRuns` sets the mark
  again after an inventory cleared it (`maintenance_state.go:64`, CHANGELOG.md:347).
- A forget that dies between the primary and the replica is reconciled from the
  primary alone. `HonestOutcome` is weaker for reconciled results for this reason.
- The subscription watchdog looks in one critical section and fails the connection
  in the next (`client.go:484`): a subscription confirmed in between is torn down.
- `Abandon` cancels the uploads under way, each of which then records
  `artifact_storage_failed`; `uploadExport` may report that in place of
  `source_unavailable`, which `cmd/restic_export_test.go:94` expects.
- The scheduler counts a minute as done before its occurrences are journaled
  (`scheduler.go:74`): an error or a crash loses the rest of the minute, and so does
  a pause for authentication, which is looked at next (`scheduler.go:83`). A drain
  whose update ends before the first pass of the restarted agent loses the
  look-back, which CHANGELOG.md:211 promises.
- A sync that is cancelled while it waits for a retry has exit code 0 and is
  reported as complete (`replica_sync.go:80`).
- After the reserve was released, work is refused until a restart even when the
  disk has room again (`state_db.go:454`), and a restart on a full disk without
  the reserve cannot open the database (`state_db.go:430`).

## 5. The proofs

| Theorem | States | Rests on |
|---|---|---|
| `TypeCorrect` | `Spec => []TypeOK` of `RunControl` | `TypeOK` is inductive; `CopyTargets` is the part that is not a mere type |
| `AtMostOneStart` | `[]StartedAtMostOnce` | `Journaled`: a command that was started is neither unknown nor received, in memory and on disk |
| `Exclusion`, `BusySetIsExact` | `[]RepositoryExclusion`, `[]BusyMeansHeld` | each other: the busy check of a start is worth something because the set is exact, and a release is exact because no one else holds what is released |
| `OneTransfer` | `[]OneTransferPerJob` | the two users of `replicationActive` exclude each other by it |
| `MaintenanceWaits` | `[]MaintenanceAfterReplication` | while maintenance runs it holds the primary, so no backup of the job runs that could owe a copy at its end |
| `QuietUpdate` | `[]UpdateIsQuiescent`, assuming `OneUpdate` | `Drained`: an update that is running is the one the agent is drained for |
| `UpdateTypes`, `RollbackAlwaysKnown` | `[]TypeOK`, `[]RollbackIsKnown` of `AgentUpdate` | `Known` |
| `TheReportedVersionRuns` | the action property `ReportedVersionRuns` | `Versioned` |
| `PackageChangesWhileDrained` | the action property `ChangesWhileDrained` | `Drained` |
| `UpdateImplementsRunControl` | the refinement `ImplementsRunControl`, in every behaviour with at most `MaxStops` stops of the daemon | `Known`, `Drained` |
| `ReportingTypeCorrect`, `GapMarked`, `FileKept` | `[]TypeOK`, `[]GapStaysMarked`, `[]LogFileKept` of `Reporting` | `Basics` |
| `BatchPrefix`, `LogsWhole`, `Durable`, `Forgotten` | `BatchIsPrefix`, `LogWhole`, `DurableUntilAccepted`, `ForgottenWhenReported`, assuming `~RestartsAfterFailedSetup` | `Inv` |
| `RealtimeTypeCorrect`, `NoSocketIsLeaked`, `TheConnectionIsCurrent`, `TheClientIsNeverStranded`, `TheConnectionIsNeverDeaf` | the five invariants of the run `realtime` | `DialedIsOwned`, `DialIsCurrent`, `HandshakeInOrder` |
| `OneDialAtATime` | at most one `Connect` dials for the generation in force | `DialIsCurrent` |
| `DisconnectIsFinal` | a stopped client stays stopped and takes no connection, not even one whose dial returns late | `StoppedForGood` |
| `ScheduleTypeCorrect`, `EveryOccurrenceOnce`, `NoSilentGap`, `LookBackIsComplete` | `[]TypeOK` of `Schedule` and the three invariants of the run `schedule` | `InStep`; `OccurrencesKept`; `PassInOrder`; `Steady` |
| `OnlyValidDocuments` | `[]TypeOK` of `Configuration`: only documents that were accepted are in force or usable in the file | `DocumentsValid` |
| `RevokedForGood` | a saved revocation stays saved, and no start gets past it | `RevocationKept`, `LoopsRun` |
| `RetentionTypeCorrect`, `OutcomesAreHonest` | `[]TypeOK`, `[]HonestOutcome` of `Retention`, assuming `SaneRequests` | `WholePlan`, `Removing`, `PrunedFirst`, `LastResult` |
| `TheRecoveryPointIsKept`, `UnresolvedIsRefused` | the action properties `RecoveryPointKept`, `RefusesUnresolved`, assuming `SaneRequests` | `Spared`; `Marked` |
| `ExportTypeCorrect`, `BuffersNeverExceed`, `ResultsAreWhole` | the three invariants of the run `export` | `SlotsHeld`; `InOrder`, `Parts`, `Etags` |

**Run control.** The inductive invariant is `Safe` (type, `Journaled`,
`OperationKinds`, `OneTransferPerJob`, `Locked`). The interesting step is the end
of a backup: `finishOperation` releases every replica of the job although a backup
took only the primary. `ReleasedIsOwn` shows that this takes no mark from anyone,
because whoever holds a replica of the job holds its primary too, and the primary
is held by the backup. This argument is what a change of a job's repositories
between the start and the end of a run would break.

**Agent update.** The inductive invariant is `Known`. `RollbackIsKnown` alone is
not inductive: `Unpack` installs the version the updater remembers, and
`Rollback` records the one it remembers, so `AtWork` ties what a working updater
remembers to its durable state; `AtResult` does it for one that is writing a
result. The types need it too: a request carries the version of a daemon that
is up, and only such a daemon is in a dispatch pass.

`ReportedVersionRuns` relates a result that is written to files and processes
that may have died and come back since. `Versioned` says what carries it over:
before `Unpack` the installed version is not the one the updater works towards,
afterwards it is; a readiness file that names the installed version means that no
daemon of another version is up; and a readiness left from before the package was
changed names an older version, so the updater cannot take it for an answer.

`Drained` is the part about the journal, in memory and on disk, which a failed save
lets differ. At most one update is open; what the updater was asked for had begun;
an update it was asked for and has not answered is still running in both; a
request that is being written is the first of its update, so that no old result
answers it. This makes the drain hold for the update that the updater works on.

The refinement is proved step by step: an action of the daemon on the journal is the
action of `RunControl` for the same function, the beginning and the end of the
reconciliation are two steps of a dispatch pass, whose other steps change nothing
`RunControl` knows of. Neither does the updater, except that a restart it orders is
a crash. `MaxStops` is only what `RunControl`'s bound on crashes is instantiated
with. The run never reaches it, and a behaviour that did would only leave the
behaviours `RunControl` has been cut to. Unlike the run, which has one update, all
these theorems are about any number of updates.

**Reporting.** Types, gaps and files need only `Basics`: what is in memory was
once saved, what is about to be unlinked has no entry left, and a heartbeat under
way covers what is marked as long as no gap was marked since. The other four need
`Inv`.

`Generations` and `Apart` say that the live reporter and the retired one share no
entry: the runs of one have the current generation, those of the other an older
one, and no retired generation is current while the daemon runs. `Pending` and
`Sent` follow a batch over the request: its events are still the first of the
entry, and each was accepted, is put back, or is one that may go. The filter of
rejected events is stated without recursion (`Selected`), by the places it keeps.

`Sound` holds for an entry in memory as well as for one on disk: what it says was
reported was reported. `Paired` relates the two: memory is ahead of the disk only
by what the control plane has. It cannot be avoided, because the removal of an
entry whose save failed is saved by whichever save comes next, of any loop; that
one must be harmless too. `Uploading` ties the reporter's place in a log to the
counter in the entry, which is saved between the uploads and may be behind.

`~RestartsAfterFailedSetup` is needed: with a daemon that is started after a setup
failed halfway, a retired generation is the current one, both reporters send the
same entry, and one strikes what the other has not sent (section 4).

**Realtime.** `NoLeakedSocket` and `ConnectionIsCurrent` speak of the connection
in use, but a connection comes into use from a dial that ran without the mutex.
`DialedIsOwned` says that what was dialed is untouched and known to one `Connect`
only; `DialIsCurrent` that the dial of the current generation owns `isConnecting`,
is the only one, and uses the configuration in force, so that a dial that was
overtaken sees another generation and closes what it has. `HandshakeInOrder`
says which goroutines can work for a connection at each stage of its handshake;
without it the subscriber or the watchdog of one that was never greeted could
fail it. `TimerIsPast` makes a stale reconnect timer harmless.

**Scheduler.** `OccurrencesKept` relates every journaled run and every gap to the
record of its occurrence in the database, which is written in the same
transaction and never removed. `NoSilentGap` rests on `InStep`: a run that the pass
finds queued in memory is in the database too, and so is the mark of a gap,
although memory may be ahead of the database in other things (a deleted run, the
end of a drain). So an occurrence is covered from the moment it is left to a
queued run, and every later save, of any loop, keeps the run or has started it.
`PassInOrder` says that a pass has answered the first due minute of each operation
behind it, and that what it is about to write is still unrecorded.

`LookBackIsComplete` needs more: that first minute may have been recorded before
the pass, and then nothing follows for the later ones. `Steady` excludes it: nothing
is recorded of minutes after the last pass, neither for this process nor for what a
restart will take from the database, so that what a pass finds recorded is older
than its look-back. A clock that is set back breaks this, and so does an end of an
update that was not saved; these two are `disturbed`, and with them the property is
false (section 4).

The catch-up run is that of the earliest due minute: that a set of minutes has an
earliest one is taken from the library's well-foundedness theorem (`FirstMinute`),
which is a fact about a set and not an induction.

**Configuration.** `DocumentsValid` follows a document through each of the three
callers from the answer to its acceptance; `RevocationKept` says that whoever
saves the runtime state already knows of a revocation, which is why no save of
another loop undoes it.

**Retention.** `WholePlan` says that a plan in use names whole runs and was made
with the protection of the operation that uses it; `Removing` and `Pruning` what
has been removed and pruned at each step of an operation; `Spared` that what is
protected is disjoint from what remains to be removed, also in the plan that a
retry or the replica takes over. `Marked` is the one for `RefusesUnresolved`:
while one run is unresolved the mark is set or a configuration that still names
the run is in force, in memory as well as after a restart. The proof of it failed
first for a good reason: a crash inside `finishOperation`, after the outcome of a
complete inventory was saved, settles the unresolved run, but the history variable
`open` kept it, and the property was false from four operations on, one more than
the run has. `StillOpen` is the correction, a complete inventory settles what was
open also then, and TLC agrees with four operations.

**Export.** `InOrder` is the pipeline in one formula: as long as nothing failed,
what was written, what the writer waits for, what is queued and what the producer
is about to queue are the chunks 1 to `produced` in this order. The workers do not
appear in it, which is why their order does not matter. `Sealed` marks that the
archive's end was written. `IdlePipeline` says that nothing is queued unless
several compressors work on an entry: the producer's own writes rely on it.
`Parts` cuts the stream into full parts and the buffer, and bounds the parts by
the number of URLs; `Etags` that whatever went wrong left an error behind, which
Close reads after the uploads have ended. For `BuffersBounded`, a buffer is held
only by a goroutine that still holds its slot, and `SlotsHeld` counts these; this
is why the buffer must be given back before the slot.

Assumptions: the named `ASSUME`s of the modules, which TLC evaluates in every run:
the types of the constants; `OwnRepositories` of `RunControl`; that `None` is no
version, connection or configuration; `ValidSchedule`; `FirstIsGood` (the document
an enrollment ends with is one it has validated); `HoldsAreSnapshots`;
`ValidTarget` (what `Host` checks of an export's target); `EntryAssumption` (`None` is
no entry of the journal) and `FileAssumption` (a file that is missing has no
contents). Four hypotheses of theorems are not assumptions of a module:

- `OneUpdate`, for `QuietUpdate`;
- `SaneRequests`, for `Retention`: the control plane asks for no protected run, and
  a hold names all snapshots of a run;
- `~RestartsAfterFailedSetup`, for four theorems about `Reporting`;
- `[](stops <= MaxStops)`, for `UpdateImplementsRunControl`.

The first three say what the program relies on without checking it (section 4); the
last is a bound. The runs' instances satisfy all four.

Every inductive invariant was checked by TLC on the instance of its run before
it was proved.

Only model-checked: `QueuedWorkEnds`, `RequestAnswered`, `UndisturbedWorkResumes`,
`OutcomeArrives`, `NewsArrives`, `ExportEnds` and `Settles`, because liveness under
fairness is outside of the prover's reach, and the violation of
`CompletePointRemains`, which is a counterexample. Every safety property that a
passing run checks is a theorem. The types of `RunControl`, `AgentUpdate` and
`Schedule` are proved and not part of a run.

## 6. The plan

Done: the models of all parts listed in section 2, and the proofs of every safety
property of `RunControl`, `AgentUpdate` with its refinement, `Reporting`, `Realtime`,
`Retention`, `Export`, `Schedule` and `Configuration`.

Left: a run of `AgentUpdate` with two updates one after the other (the theorems
cover it), and replica sets that change with the configuration in `RunControl`.

## 7. Not modelled

- Validation of documents (`normalizeConfig` and what it calls), encoding of
  requests, the protocol revision chosen for them, cron expressions, keep-rules,
  command lines: pure functions of one input.
- The restic runner, dump programs, package managers and file systems beyond what
  they answer: external processes.
- The terminal browser, the restore command, standalone and manual mode: one
  goroutine that does one thing after another and keeps nothing.
- The import of the files of older releases: it runs once, before the loops start.
- Egress proxy, init systems, log rotation, packaging: stateless, or I/O only.
