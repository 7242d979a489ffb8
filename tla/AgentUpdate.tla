------------------------------ MODULE AgentUpdate ------------------------------
(***************************************************************************)
(* An agent update from the command to its result: the daemon, which       *)
(* drains, writes a request and later consumes a result (agent/commands.go,*)
(* daemon.go), and the root updater, which installs the package, waits for *)
(* the restarted daemon to be ready and rolls back (updater/updater.go,    *)
(* state.go, launch.go).                                                   *)
(*                                                                         *)
(* The two share four files, each replaced atomically (writeJSON): the     *)
(* request, the updater's own durable state, the readiness of a restarted  *)
(* daemon, and the result.  Either process may die between two writes; the *)
(* systemd path unit starts the updater whenever a request exists and none *)
(* runs.                                                                   *)
(*                                                                         *)
(* That nothing else runs when an update starts is the subject of          *)
(* RunControl, which this module implements: Runs below.                   *)
(***************************************************************************)
EXTENDS Naturals, FiniteSets

CONSTANTS
    Updates,             \* identities of update_agent commands
    Target,              \* the version an update asks for
    InitialVersions,     \* the versions that may be installed at first
    None,                \* no update, no version, no file
    MaxCrashes,          \* bound: crashes of the daemon
    MaxUpdaterFailures,  \* bound: updater runs that end without finishing
    MaxSaveFailures,     \* bound: failed journal transactions
    MaxFileFailures,     \* bound: other failed writes of the daemon
    MaxStops             \* bound on restarts, of Runs only

ASSUME UpdateAssumption ==
    /\ InitialVersions \subseteq Nat
    /\ Target \in [Updates -> Nat]
    /\ None \notin Updates \cup Nat

ASSUME UpdateBounds ==
    /\ MaxCrashes \in Nat
    /\ MaxUpdaterFailures \in Nat
    /\ MaxSaveFailures \in Nat
    /\ MaxFileFailures \in Nat
    /\ MaxStops \in Nat

VARIABLES
    journal,        \* daemon.journal: the entries of update commands
    disk,           \* the journal in the state database
    agentUpdate,    \* daemon.state.AgentUpdate: the update drained for
    runtimeDisk,    \* AgentUpdate in the state database
    dispatch,       \* the position of the dispatch loop
    reconciled,     \* daemon.reconciled
    running,        \* the version of the daemon process, None if it is down
    installed,      \* the version the package manager reports
    requestFile, stateFile, readinessFile, resultFile,
    updater,        \* the updater process: its step and what it remembers
    answered,       \* history: updates the updater has written a result for
    stops,          \* history: how often the daemon went down
    crashes, saveFailures, fileFailures, updaterFailures

daemonVars == <<journal, disk, agentUpdate, runtimeDisk, dispatch, reconciled,
                running, stops, crashes, saveFailures, fileFailures>>
updaterVars == <<installed, stateFile, updater, answered, updaterFailures>>
fileVars == <<requestFile, readinessFile, resultFile>>
vars == <<daemonVars, updaterVars, fileVars>>

-----------------------------------------------------------------------------
(* Types *)

Versions == InitialVersions \cup {Target[u] : u \in Updates}

Entry == [state : {"unknown", "received", "running", "finished", "removed"},
          acked : BOOLEAN]

NoEntry == [state |-> "unknown", acked |-> FALSE]

Requests == [update : Updates, previous : Versions]

DurableStates == [update : Updates, previous : Versions,
                  phase : {"preflight", "installing", "rolling_back"}]

Readinesses == [update : Updates, version : Versions]

Codes == {"success", "already_installed", "target_not_newer",
          "preflight_failed", "installation_failed", "rollback_failed",
          "readiness_failed_rolled_back"}

UpdateResults == [update : Updates, code : Codes, installed : Versions]

\* A file that is missing has no contents.
ASSUME FileAssumption == None \notin Readinesses \cup UpdateResults

\* Where a dispatch pass is: before it looked for a result, removing one,
\* before reconciliation, advancing commands, or between the save of an
\* update as running and the write of its request.
Dispatches == [step : {"idle", "remove", "reconcile", "advance", "request"},
               update : Updates \cup {None}]

At(step) == [step |-> step, update |-> None]

\* Where the updater is: off, in preflight, about to install or downgrade, the
\* package unpacked but the agent not restarted, before the first look at the
\* readiness, waiting for it, and writing the result in three steps.  aim is
\* the version it is changing to, previous the one to roll back to, and
\* outcome the result it is about to write.
Updaters ==
    [step : {"off", "preflight", "package", "unpacked", "check", "wait",
             "result", "request", "clean"},
     update : Updates \cup {None}, aim : Versions \cup {None},
     previous : Versions \cup {None}, outcome : UpdateResults \cup {None}]

Off == [step |-> "off", update |-> None, aim |-> None, previous |-> None,
        outcome |-> None]

TypeOK ==
    /\ journal \in [Updates -> Entry]
    /\ disk \in [Updates -> Entry]
    /\ agentUpdate \in Updates \cup {None}
    /\ runtimeDisk \in Updates \cup {None}
    /\ dispatch \in Dispatches
    /\ reconciled \in BOOLEAN
    /\ running \in Versions \cup {None}
    /\ installed \in Versions
    /\ requestFile \in Requests \cup {None}
    /\ stateFile \in DurableStates \cup {None}
    /\ readinessFile \in Readinesses \cup {None}
    /\ resultFile \in UpdateResults \cup {None}
    /\ updater \in Updaters
    /\ answered \in SUBSET Updates
    /\ stops \in Nat
    /\ crashes \in Nat
    /\ saveFailures \in Nat
    /\ fileFailures \in Nat
    /\ updaterFailures \in Nat

-----------------------------------------------------------------------------
(* The daemon: journal and runtime state *)

Up == running # None

SaveJournal(next) ==
    /\ journal' = next
    /\ disk' = next
    /\ UNCHANGED saveFailures

SaveJournalFails(next) ==
    /\ saveFailures < MaxSaveFailures
    /\ saveFailures' = saveFailures + 1
    /\ journal' = next
    /\ UNCHANGED disk

TrySaveJournal(next) == SaveJournal(next) \/ SaveJournalFails(next)

\* A write of the runtime state, of the request or the removal of the result
\* fails.
FileFails ==
    /\ fileFailures < MaxFileFailures
    /\ fileFailures' = fileFailures + 1

With(u, state) == [journal EXCEPT ![u].state = state]

Without(u) == [journal EXCEPT ![u] = [NoEntry EXCEPT !.state = "removed"]]

\* receiveCommand.  The control plane sends an update when it knows of no other
\* that has not ended.
ReceiveUpdate(u) ==
    /\ Up
    /\ journal[u].state = "unknown"
    /\ \A v \in Updates : journal[v].state \in {"unknown", "removed"}
    /\ \/ /\ SaveJournal(With(u, "received"))
          /\ agentUpdate' = u
          /\ runtimeDisk' = u
       \/ /\ SaveJournalFails(journal)
          /\ UNCHANGED <<agentUpdate, runtimeDisk>>
       \/ /\ saveFailures < MaxSaveFailures
          /\ saveFailures' = saveFailures + 1
          /\ disk' \in {journal, With(u, "received")}
          /\ UNCHANGED <<journal, agentUpdate, runtimeDisk>>
    /\ UNCHANGED <<dispatch, reconciled, running, stops, crashes, fileFailures>>
    /\ UNCHANGED <<updaterVars, fileVars>>

\* The report loop submits a result and removes the entry.
ReportAndRemove(u) ==
    /\ Up
    /\ journal[u].state = "finished"
    /\ TrySaveJournal(Without(u))
    /\ UNCHANGED <<agentUpdate, runtimeDisk, dispatch, reconciled, running,
                   stops, crashes, fileFailures>>
    /\ UNCHANGED <<updaterVars, fileVars>>

\* Other loops save the journal (flushJournal) and the runtime state
\* (recordRun, sendHeartbeat, refreshConfig...) whenever they please.
FlushJournal ==
    /\ Up
    /\ SaveJournal(journal)
    /\ UNCHANGED <<agentUpdate, runtimeDisk, dispatch, reconciled, running,
                   stops, crashes, fileFailures>>
    /\ UNCHANGED <<updaterVars, fileVars>>

FlushRuntime ==
    /\ Up
    /\ runtimeDisk' = agentUpdate
    /\ UNCHANGED <<journal, disk, agentUpdate, dispatch, reconciled, running,
                   stops, crashes, saveFailures, fileFailures>>
    /\ UNCHANGED <<updaterVars, fileVars>>

-----------------------------------------------------------------------------
(* The daemon: a dispatch pass *)

\* consumeAgentUpdateResult finds no result.
PassBegins ==
    /\ Up
    /\ dispatch.step = "idle"
    /\ resultFile = None
    /\ dispatch' = At("reconcile")
    /\ UNCHANGED <<journal, disk, agentUpdate, runtimeDisk, reconciled,
                   running, stops, crashes, saveFailures, fileFailures>>
    /\ UNCHANGED <<updaterVars, fileVars>>

\* consumeAgentUpdateResult: the entry is finished and the drain ends in memory
\* before either is saved; a save that fails ends the pass.
ConsumeResult(u) ==
    /\ Up
    /\ dispatch.step = "idle"
    /\ resultFile # None
    /\ resultFile.update = u
    /\ agentUpdate = u
    /\ journal[u].state \notin {"unknown", "removed"}
    /\ agentUpdate' = None
    /\ \/ /\ SaveJournal(With(u, "finished"))
          /\ runtimeDisk' = None
          /\ dispatch' = At("remove")
          /\ UNCHANGED fileFailures
       \/ /\ SaveJournal(With(u, "finished"))
          /\ FileFails
          /\ UNCHANGED <<runtimeDisk, dispatch>>
       \/ /\ SaveJournalFails(With(u, "finished"))
          /\ UNCHANGED <<runtimeDisk, dispatch, fileFailures>>
    /\ UNCHANGED <<reconciled, running, stops, crashes>>
    /\ UNCHANGED <<updaterVars, fileVars>>

\* The result of an update that is finished in memory is only removed.  Any
\* other result is an error that ends the pass: no step.
ConsumedBefore ==
    /\ Up
    /\ dispatch.step = "idle"
    /\ resultFile # None
    /\ agentUpdate = None
    /\ journal[resultFile.update].state = "finished"
    /\ dispatch' = At("remove")
    /\ UNCHANGED <<journal, disk, agentUpdate, runtimeDisk, reconciled,
                   running, stops, crashes, saveFailures, fileFailures>>
    /\ UNCHANGED <<updaterVars, fileVars>>

\* RemoveResult, after the mutex was released.
RemoveResult ==
    /\ dispatch.step = "remove"
    /\ \/ /\ resultFile' = None
          /\ dispatch' = At("reconcile")
          /\ UNCHANGED fileFailures
       \/ /\ FileFails
          /\ dispatch' = At("idle")
          /\ UNCHANGED resultFile
    /\ UNCHANGED <<journal, disk, agentUpdate, runtimeDisk, reconciled,
                   running, stops, crashes, saveFailures>>
    /\ UNCHANGED <<updaterVars, requestFile, readinessFile>>

\* reconcileInterrupted skips updates; it must have succeeded once.
Reconcile ==
    /\ dispatch.step = "reconcile"
    /\ dispatch' = At("advance")
    /\ reconciled' = TRUE
    /\ UNCHANGED <<journal, disk, agentUpdate, runtimeDisk, running, stops,
                   crashes, saveFailures, fileFailures>>
    /\ UNCHANGED <<updaterVars, fileVars>>

\* Mutant: an expired update is discarded although it was acknowledged.
DiscardExpiredAnyway(u) ==
    /\ dispatch.step = "advance"
    /\ journal[u].state \notin {"unknown", "removed"}
    /\ SaveJournal(Without(u))
    /\ agentUpdate' = IF agentUpdate = u THEN None ELSE agentUpdate
    /\ runtimeDisk' = agentUpdate'
    /\ UNCHANGED <<dispatch, reconciled, running, stops, crashes, fileFailures>>
    /\ UNCHANGED <<updaterVars, fileVars>>

\* discardExpiredUnacknowledgedCommand.  When the runtime state cannot be saved
\* the drain has ended in memory only.
DiscardExpired(u) ==
    /\ dispatch.step = "advance"
    /\ journal[u].state \notin {"unknown", "removed"}
    /\ ~journal[u].acked
    /\ \/ /\ SaveJournal(Without(u))
          /\ agentUpdate' = IF agentUpdate = u THEN None ELSE agentUpdate
          /\ \/ runtimeDisk' = agentUpdate' /\ UNCHANGED fileFailures
             \/ UNCHANGED runtimeDisk /\ FileFails
       \/ /\ SaveJournalFails(journal)
          /\ UNCHANGED <<agentUpdate, runtimeDisk, fileFailures>>
    /\ UNCHANGED <<dispatch, reconciled, running, stops, crashes>>
    /\ UNCHANGED <<updaterVars, fileVars>>

Acknowledge(u) ==
    /\ dispatch.step = "advance"
    /\ journal[u].state \notin {"unknown", "removed"}
    /\ ~journal[u].acked
    /\ TrySaveJournal([journal EXCEPT ![u].acked = TRUE])
    /\ UNCHANGED <<agentUpdate, runtimeDisk, dispatch, reconciled, running,
                   stops, crashes, fileFailures>>
    /\ UNCHANGED <<updaterVars, fileVars>>

\* startAgentUpdate, up to where it releases the mutex.
StartAgentUpdate(u) ==
    /\ dispatch.step = "advance"
    /\ journal[u].state = "received"
    /\ journal[u].acked
    /\ agentUpdate # None
    /\ \/ /\ SaveJournal(With(u, "running"))
          /\ dispatch' = [step |-> "request", update |-> u]
       \/ /\ SaveJournalFails(journal)
          /\ UNCHANGED dispatch
    /\ UNCHANGED <<agentUpdate, runtimeDisk, reconciled, running, stops,
                   crashes, fileFailures>>
    /\ UNCHANGED <<updaterVars, fileVars>>

\* The rest of startAgentUpdate.
WriteRequest ==
    /\ dispatch.step = "request"
    /\ requestFile' = [update |-> dispatch.update, previous |-> running]
    /\ dispatch' = At("advance")
    /\ UNCHANGED <<journal, disk, agentUpdate, runtimeDisk, reconciled,
                   running, stops, crashes, saveFailures, fileFailures>>
    /\ UNCHANGED <<updaterVars, readinessFile, resultFile>>

WriteRequestFails ==
    /\ dispatch.step = "request"
    /\ FileFails
    /\ TrySaveJournal(With(dispatch.update, "received"))
    /\ dispatch' = At("advance")
    /\ UNCHANGED <<agentUpdate, runtimeDisk, reconciled, running, stops,
                   crashes>>
    /\ UNCHANGED <<updaterVars, fileVars>>

PassEnds ==
    /\ dispatch.step = "advance"
    /\ dispatch' = At("idle")
    /\ UNCHANGED <<journal, disk, agentUpdate, runtimeDisk, reconciled,
                   running, stops, crashes, saveFailures, fileFailures>>
    /\ UNCHANGED <<updaterVars, fileVars>>

-----------------------------------------------------------------------------
(* The daemon: stop and start *)

Unfinished == {u \in Updates : disk[u].state \in {"received", "running"}}

\* Mutant: only an update that has not been started is restored.
RestoredIfReceived ==
    LET received == {u \in Updates : disk[u].state = "received"}
    IN  IF received = {} THEN {None} ELSE received

\* restoreAgentUpdateState: the update of the runtime state if the journal has
\* not finished it, or else another one the journal has not finished.
Restored ==
    IF Unfinished = {} THEN {None}
    ELSE IF runtimeDisk \in Unfinished THEN {runtimeDisk}
    ELSE Unfinished

\* The process dies; journal and agentUpdate are what the next one will load.
StopDaemon ==
    /\ running' = None
    /\ journal' = disk
    /\ agentUpdate' \in Restored
    /\ dispatch' = At("idle")
    /\ reconciled' = FALSE
    /\ stops' = stops + 1
    /\ UNCHANGED <<disk, runtimeDisk, saveFailures, fileFailures>>

Crash ==
    /\ Up
    /\ crashes < MaxCrashes
    /\ crashes' = crashes + 1
    /\ StopDaemon
    /\ UNCHANGED <<updaterVars, fileVars>>

\* Run: the daemon of the installed version starts, saves the restored runtime
\* state and, when it is drained for an update, says that it is ready.
StartDaemon ==
    /\ ~Up
    /\ running' = installed
    /\ runtimeDisk' = agentUpdate
    /\ readinessFile' = IF agentUpdate = None THEN readinessFile
                        ELSE [update |-> agentUpdate, version |-> installed]
    /\ UNCHANGED <<journal, disk, agentUpdate, dispatch, reconciled, stops,
                   crashes, saveFailures, fileFailures>>
    /\ UNCHANGED <<updaterVars, requestFile, resultFile>>

-----------------------------------------------------------------------------
(* The updater *)

Terminal(u, code, version) ==
    [Off EXCEPT !.step = "result", !.update = u,
                !.outcome = [update |-> u, code |-> code, installed |-> version]]

Changing(u, step, aim, previous) ==
    [Off EXCEPT !.step = step, !.update = u, !.aim = aim, !.previous = previous]

\* Mutant: the version that is installed is recorded as the one to restore.
RollbackFromInstalled(u, previous) ==
    /\ readinessFile' = None
    /\ stateFile' = [update |-> u, previous |-> installed,
                      phase |-> "rolling_back"]
    /\ updater' = Changing(u, "package", previous, previous)

\* rollback: from here on a new updater resumes the rollback.
Rollback(u, previous) ==
    /\ readinessFile' = None
    /\ stateFile' = [update |-> u, previous |-> previous, phase |-> "rolling_back"]
    /\ updater' = Changing(u, "package", previous, previous)

\* The updater holds its lock and has read a request.
Starting(u) ==
    /\ updater.step = "off"
    /\ requestFile # None
    /\ requestFile.update = u

\* Run: the package manager cannot tell the installed version.
VersionUnknown(u) ==
    /\ Starting(u)
    /\ updater' = Terminal(u, "preflight_failed", requestFile.previous)
    /\ UNCHANGED <<installed, stateFile, answered, updaterFailures>>
    /\ UNCHANGED <<daemonVars, fileVars>>

\* Run finds the durable state of this request in a phase.  A durable state of
\* another request is an error: the updater ends without a step.
Resuming(u, phase) ==
    /\ Starting(u)
    /\ stateFile # None
    /\ stateFile.update = u
    /\ stateFile.phase = phase

\* Run: the installation was interrupted after the package had changed.
ResumeInstalled(u) ==
    /\ Resuming(u, "installing")
    /\ installed = Target[u]
    /\ updater' = Changing(u, "check", Target[u], stateFile.previous)
    /\ UNCHANGED <<installed, stateFile, answered, updaterFailures>>
    /\ UNCHANGED <<daemonVars, fileVars>>

\* resumeRollback.
ResumeRollback(u) ==
    /\ Resuming(u, "rolling_back")
    /\ IF installed # stateFile.previous
       THEN /\ updater' = Changing(u, "package", stateFile.previous,
                                   stateFile.previous)
            /\ readinessFile' = None
       ELSE /\ updater' = Changing(u, "check", stateFile.previous,
                                   stateFile.previous)
            /\ UNCHANGED readinessFile
    /\ UNCHANGED <<installed, stateFile, answered, updaterFailures>>
    /\ UNCHANGED <<daemonVars, requestFile, resultFile>>

\* Mutant: a state left by an interrupted preflight is not resumed.
BeginUpdateAfresh(u) ==
    /\ Starting(u)
    /\ \/ stateFile = None
       \/ Resuming(u, "installing") /\ installed = stateFile.previous
    /\ IF installed = Target[u]
       THEN /\ updater' = Terminal(u, "already_installed", installed)
            /\ UNCHANGED stateFile
       ELSE IF Target[u] < installed
       THEN /\ updater' = Terminal(u, "target_not_newer", installed)
            /\ UNCHANGED stateFile
       ELSE /\ updater' = Changing(u, "preflight", Target[u], installed)
            /\ stateFile' = [update |-> u, previous |-> installed,
                              phase |-> "preflight"]
    /\ UNCHANGED <<installed, answered, updaterFailures>>
    /\ UNCHANGED <<daemonVars, fileVars>>

\* Run: a new request, or one interrupted before the package changed.  The
\* version to roll back to is recorded before anything is touched.
BeginUpdate(u) ==
    /\ Starting(u)
    /\ \/ stateFile = None
       \/ Resuming(u, "preflight")
       \/ Resuming(u, "installing") /\ installed = stateFile.previous
    /\ IF installed = Target[u]
       THEN /\ updater' = Terminal(u, "already_installed", installed)
            /\ UNCHANGED stateFile
       ELSE IF Target[u] < installed
       THEN /\ updater' = Terminal(u, "target_not_newer", installed)
            /\ UNCHANGED stateFile
       ELSE /\ updater' = Changing(u, "preflight", Target[u], installed)
            /\ stateFile' = [update |-> u, previous |-> installed,
                              phase |-> "preflight"]
    /\ UNCHANGED <<installed, answered, updaterFailures>>
    /\ UNCHANGED <<daemonVars, fileVars>>

\* Both versions are available: the readiness of an earlier start is removed
\* before the state says installing.
Preflight ==
    /\ updater.step = "preflight"
    /\ readinessFile' = None
    /\ stateFile' = [stateFile EXCEPT !.phase = "installing"]
    /\ updater' = [updater EXCEPT !.step = "package"]
    /\ UNCHANGED <<installed, answered, updaterFailures>>
    /\ UNCHANGED <<daemonVars, requestFile, resultFile>>

PreflightFails ==
    /\ updater.step = "preflight"
    /\ updater' = Terminal(updater.update, "preflight_failed", updater.previous)
    /\ UNCHANGED <<installed, stateFile, answered, updaterFailures>>
    /\ UNCHANGED <<daemonVars, fileVars>>

\* Install and Downgrade: the package manager unpacks the package...
Unpack ==
    /\ updater.step = "package"
    /\ installed' = updater.aim
    /\ updater' = [updater EXCEPT !.step = "unpacked"]
    /\ UNCHANGED <<stateFile, answered, updaterFailures>>
    /\ UNCHANGED <<daemonVars, fileVars>>

\* ...and its script restarts the agent, if it is up (try-restart).
RestartAgent ==
    /\ updater.step = "unpacked"
    /\ updater' = [updater EXCEPT !.step = "check"]
    /\ IF Up THEN StopDaemon ELSE UNCHANGED <<journal, disk, agentUpdate,
              runtimeDisk, dispatch, reconciled, running, stops, saveFailures,
              fileFailures>>
    /\ UNCHANGED crashes
    /\ UNCHANGED <<installed, stateFile, answered, updaterFailures>>
    /\ UNCHANGED fileVars

RollingBack == updater.aim = updater.previous

\* Install or Downgrade fails and has changed nothing.  A rollback that fails
\* reports the version it meant to leave.
PackageFails ==
    /\ updater.step = "package"
    /\ updater' = IF RollingBack
                  THEN Terminal(updater.update, "rollback_failed", installed)
                  ELSE Terminal(updater.update, "installation_failed",
                                updater.previous)
    /\ UNCHANGED <<installed, stateFile, answered, updaterFailures>>
    /\ UNCHANGED <<daemonVars, fileVars>>

\* Install fails after it changed the package: Run rolls back, unless the
\* package manager cannot tell the version now.  A Downgrade that fails reports
\* the target as installed.
UnpackedFails ==
    /\ updater.step = "unpacked"
    /\ \/ /\ ~RollingBack
          /\ Rollback(updater.update, updater.previous)
       \/ /\ ~RollingBack
          /\ updater' = Terminal(updater.update, "installation_failed",
                                 updater.previous)
          /\ UNCHANGED <<stateFile, readinessFile>>
       \/ /\ RollingBack
          /\ updater' = Terminal(updater.update, "rollback_failed",
                                 Target[updater.update])
          /\ UNCHANGED <<stateFile, readinessFile>>
    /\ UNCHANGED <<installed, answered, updaterFailures>>
    /\ UNCHANGED <<daemonVars, requestFile, resultFile>>

\* Mutant: a daemon that is ready for the update, whatever its version.
IsReadyInAnyVersion ==
    readinessFile # None /\ readinessFile.update = updater.update

IsReady == readinessFile = [update |-> updater.update, version |-> updater.aim]

\* waitForReadiness looks once before it waits.
NotReadyYet ==
    /\ updater.step = "check"
    /\ ~IsReady
    /\ updater' = [updater EXCEPT !.step = "wait"]
    /\ UNCHANGED <<installed, stateFile, answered, updaterFailures>>
    /\ UNCHANGED <<daemonVars, fileVars>>

Ready ==
    /\ updater.step \in {"check", "wait"}
    /\ IsReady
    /\ updater' = Terminal(updater.update,
                           IF RollingBack THEN "readiness_failed_rolled_back"
                                          ELSE "success",
                           updater.aim)
    /\ UNCHANGED <<installed, stateFile, answered, updaterFailures>>
    /\ UNCHANGED <<daemonVars, fileVars>>

\* The time is up, perhaps just as the readiness is written.
Timeout ==
    /\ updater.step = "wait"
    /\ \/ /\ ~RollingBack
          /\ Rollback(updater.update, updater.previous)
       \/ /\ RollingBack
          /\ updater' = Terminal(updater.update, "rollback_failed",
                                 updater.previous)
          /\ UNCHANGED <<stateFile, readinessFile>>
    /\ UNCHANGED <<installed, answered, updaterFailures>>
    /\ UNCHANGED <<daemonVars, requestFile, resultFile>>

\* Mutant: a rollback that failed leaves no result.
WriteResultUnlessFailed ==
    /\ updater.step = "result"
    /\ resultFile' = IF updater.outcome.code = "rollback_failed"
                     THEN resultFile ELSE updater.outcome
    /\ answered' = answered \cup {updater.update}
    /\ updater' = [updater EXCEPT !.step = "request"]
    /\ UNCHANGED <<installed, stateFile, updaterFailures>>
    /\ UNCHANGED <<daemonVars, requestFile, readinessFile>>

\* writeTerminal: the result, then the end of the request, then the rest.
WriteResult ==
    /\ updater.step = "result"
    /\ resultFile' = updater.outcome
    /\ answered' = answered \cup {updater.update}
    /\ updater' = [updater EXCEPT !.step = "request"]
    /\ UNCHANGED <<installed, stateFile, updaterFailures>>
    /\ UNCHANGED <<daemonVars, requestFile, readinessFile>>

RemoveRequest ==
    /\ updater.step = "request"
    /\ requestFile' = None
    /\ updater' = [updater EXCEPT !.step = "clean"]
    /\ UNCHANGED <<installed, stateFile, answered, updaterFailures>>
    /\ UNCHANGED <<daemonVars, readinessFile, resultFile>>

CleanUp ==
    /\ updater.step = "clean"
    /\ readinessFile' = None
    /\ stateFile' = None
    /\ updater' = Off
    /\ UNCHANGED <<installed, answered, updaterFailures>>
    /\ UNCHANGED <<daemonVars, requestFile, resultFile>>

\* The updater dies, or ends with an error because a file could not be written
\* or removed.  Where it removes the readiness and then writes its state, it
\* may have done only the first.
UpdaterFails ==
    /\ updater.step # "off"
    /\ updaterFailures < MaxUpdaterFailures
    /\ updaterFailures' = updaterFailures + 1
    /\ updater' = Off
    /\ readinessFile' \in {readinessFile} \cup
           (IF updater.step \in {"preflight", "unpacked", "wait", "clean"}
            THEN {None} ELSE {})
    /\ UNCHANGED <<installed, stateFile, answered>>
    /\ UNCHANGED <<daemonVars, requestFile, resultFile>>

-----------------------------------------------------------------------------
Init ==
    /\ journal = [u \in Updates |-> NoEntry]
    /\ disk = [u \in Updates |-> NoEntry]
    /\ agentUpdate = None
    /\ runtimeDisk = None
    /\ dispatch = At("idle")
    /\ reconciled = FALSE
    /\ installed \in InitialVersions
    /\ running = installed
    /\ requestFile = None /\ stateFile = None
    /\ readinessFile = None /\ resultFile = None
    /\ updater = Off
    /\ answered = {}
    /\ stops = 0
    /\ crashes = 0 /\ saveFailures = 0 /\ updaterFailures = 0
    /\ fileFailures = 0

DispatchStep ==
    \/ PassBegins
    \/ \E u \in Updates : ConsumeResult(u)
    \/ ConsumedBefore
    \/ RemoveResult
    \/ Reconcile
    \/ \E u \in Updates : DiscardExpired(u)
    \/ \E u \in Updates : Acknowledge(u)
    \/ \E u \in Updates : StartAgentUpdate(u)
    \/ WriteRequest
    \/ WriteRequestFails
    \/ PassEnds

DaemonStep ==
    \/ \E u \in Updates : ReceiveUpdate(u)
    \/ \E u \in Updates : ReportAndRemove(u)
    \/ FlushJournal
    \/ FlushRuntime
    \/ DispatchStep
    \/ Crash
    \/ StartDaemon

StartKnowingVersion(u) ==
    \/ ResumeInstalled(u)
    \/ ResumeRollback(u)
    \/ BeginUpdate(u)

StartUpdater(u) == VersionUnknown(u) \/ StartKnowingVersion(u)

\* What a started updater does next.
UpdaterStep ==
    \/ Preflight
    \/ PreflightFails
    \/ Unpack
    \/ PackageFails
    \/ RestartAgent
    \/ UnpackedFails
    \/ NotReadyYet
    \/ Ready
    \/ Timeout
    \/ WriteResult
    \/ RemoveRequest
    \/ CleanUp

Next ==
    \/ DaemonStep
    \/ \E u \in Updates : StartUpdater(u)
    \/ UpdaterStep
    \/ UpdaterFails

Spec == Init /\ [][Next]_vars

(* Fairness.  A step of a started updater is its next statement, and its    *)
(* waits have timeouts; the path unit starts an updater while a request     *)
(* exists.  The daemon is restarted by its service manager, and its loops   *)
(* are repeated (runTriggeredAgentLoop): a pass begins and goes on.  What a *)
(* pass tries each time - the acknowledgement, the saves, the write of the  *)
(* request, the removal of the result - does not fail for ever.             *)
Fairness ==
    /\ \A u \in Updates : WF_vars(StartKnowingVersion(u))
    /\ WF_vars(UpdaterStep)
    /\ WF_vars(StartDaemon)
    /\ WF_vars(PassBegins)
    /\ WF_vars(ConsumedBefore)
    /\ WF_vars(Reconcile)
    /\ WF_vars(PassEnds)
    /\ SF_vars(RemoveResult /\ resultFile' = None)
    /\ SF_vars(WriteRequest)
    /\ \A u \in Updates :
          /\ WF_vars(ConsumeResult(u))
          /\ SF_vars(Acknowledge(u))
          /\ SF_vars(StartAgentUpdate(u) /\ journal' # journal)

FairSpec == Spec /\ Fairness

-----------------------------------------------------------------------------
(* Safety *)

\* "automatic rollback when the updated agent does not become ready" (CHANGELOG
\* 0.11.0): as soon as the updater records that it is changing the package, it
\* knows an older version to return to, and the package is at that version or
\* at the target, over crashes of the updater at any point of the change.
RollbackIsKnown ==
    stateFile # None =>
        /\ stateFile.previous < Target[stateFile.update]
        /\ installed \in {stateFile.previous, Target[stateFile.update]}

\* "restart readiness verification": a result that says an agent became ready,
\* after an update or after a rollback, names the installed version, and no
\* agent of another version is running when it is written, whichever of the
\* two processes died before.
ReportedVersionRuns ==
    [][\A r \in UpdateResults :
          /\ resultFile' = r /\ resultFile # r
          /\ r.code \in {"success", "readiness_failed_rolled_back"}
          => /\ installed = r.installed
             /\ running \in {r.installed, None}
             /\ (r.code = "success") <=> (installed = Target[r.update])]_vars

\* The package changes only while the agent is drained for the update, or is
\* down and will drain when it starts, over crashes of both processes - as long
\* as no result of the update has been written.
ChangesWhileDrained ==
    [][installed' # installed /\ updater.update \notin answered =>
           agentUpdate = updater.update]_vars

-----------------------------------------------------------------------------
(* RunControl *)

\* Where RunControl has reconcileInterrupted, this module has one step of a pass.
ReconcilePhase ==
    IF reconciled THEN "done"
    ELSE IF dispatch.step = "reconcile" THEN "working"
    ELSE "due"

RunEntries(entries) ==
    [u \in Updates |->
        [state |-> entries[u].state, acked |-> entries[u].acked,
         waits |-> "nothing", pending |-> {},
         outcome |-> IF entries[u].state = "finished" THEN "executed" ELSE "none"]]

\* RunControl with updates for commands and one job that nothing is done for.
Runs == INSTANCE RunControl WITH
    Commands <- Updates,
    Jobs <- {"job"},
    Repositories <- {"repository"},
    Kind <- [u \in Updates |-> "update"],
    Trigger <- [u \in Updates |-> "manual"],
    Deferred <- [u \in Updates |-> FALSE],
    JobOf <- [u \in Updates |-> "job"],
    Primary <- [j \in {"job"} |-> "repository"],
    Replicas <- [j \in {"job"} |-> {}],
    Setups <- [j \in {"job"} |-> {}],
    SyncTarget <- [u \in Updates |-> "repository"],
    MaxCrashes <- MaxStops,
    MaxConfigs <- 0,
    journal <- RunEntries(journal),
    disk <- RunEntries(disk),
    active <- {}, syncing <- {}, repositories <- {}, replicationActive <- {},
    copy <- [j \in {"job"} |->
                [phase |-> "idle", target |-> None, batch |-> {}]],
    configured <- [j \in {"job"} |-> "enabled"],
    cancelQueue <- {}, handed <- {}, tails <- {},
    reconcile <- [phase |-> ReconcilePhase, ids |-> {}, jobs |-> {}],
    starts <- [u \in Updates |-> 0],
    crashes <- stops,
    configs <- 0

\* What RunControl assumes of an update is what happens: with the updater, its
\* files and every restart it causes, each step of the daemon is a step that
\* RunControl allows or changes nothing it knows of.
ImplementsRunControl == Runs!Spec

-----------------------------------------------------------------------------
(* Liveness *)

\* "durable recovery" (CHANGELOG 0.11.0): the updater answers every request,
\* over crashes of both processes, failed installations and failed rollbacks.
RequestAnswered == requestFile # None ~> requestFile = None

\* The agent dispatches work: it is not drained, and no result makes
\* consumeAgentUpdateResult fail.
Dispatching == agentUpdate = None /\ resultFile = None

\* Commands are kept "while an update is draining, then resumed" (CHANGELOG
\* 0.11.0): whatever the updater meets, the agent dispatches work again.  It does
\* not after a crash between the save of a running update and its request.
WorkResumes == ~Dispatching ~> Dispatching

\* The same for an update during which no process dies and no save fails.
UndisturbedWorkResumes ==
    [](crashes + updaterFailures + saveFailures + fileFailures = 0) => WorkResumes
=============================================================================
