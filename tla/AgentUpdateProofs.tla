--------------------------- MODULE AgentUpdateProofs ---------------------------
(***************************************************************************)
(* Every safety property of AgentUpdate, for any number of updates,        *)
(* versions, crashes and failures: its types, that the version to roll     *)
(* back to is known at every point of a change (Known), that a result      *)
(* says the truth of the version that runs (Versioned), that the package   *)
(* changes only while the agent is drained for it (Drained), and that      *)
(* every step is one that RunControl allows.                               *)
(***************************************************************************)
EXTENDS AgentUpdate, TLAPS

Journals == [Updates -> Entry]

Working == {"preflight", "package", "unpacked", "check", "wait"}
Writing == {"result", "request", "clean"}
DurablePhases == {"preflight", "installing", "rolling_back"}

\* The daemon: its types, and that only a daemon that is up is in a dispatch
\* pass, and knows the update whose request it is about to write.
DaemonKnown ==
    /\ journal \in Journals
    /\ disk \in Journals
    /\ agentUpdate \in Updates \cup {None}
    /\ runtimeDisk \in Updates \cup {None}
    /\ dispatch \in Dispatches
    /\ reconciled \in BOOLEAN
    /\ running \in Versions \cup {None}
    /\ stops \in Nat /\ crashes \in Nat
    /\ saveFailures \in Nat /\ fileFailures \in Nat
    /\ dispatch.step # "idle" => running # None
    /\ dispatch.step = "request" => dispatch.update # None

FilesKnown ==
    /\ requestFile \in Requests \cup {None}
    /\ readinessFile \in Readinesses \cup {None}
    /\ resultFile \in UpdateResults \cup {None}

\* An updater at work is changing the package between the two versions of its
\* durable state.
AtWork ==
    updater.step \in Working =>
        /\ stateFile \in DurableStates
        /\ stateFile.previous < Target[stateFile.update]
        /\ installed \in {stateFile.previous, Target[stateFile.update]}
        /\ updater.update = stateFile.update
        /\ updater.previous = stateFile.previous
        /\ updater.aim \in {stateFile.previous, Target[stateFile.update]}

\* One that is writing a result knows for which update, and the result.
AtResult ==
    /\ updater.step \in Writing => updater.update \in Updates
    /\ updater.step = "result" => /\ updater.outcome \in UpdateResults
                                  /\ updater.outcome.update = updater.update

UpdaterKnown ==
    /\ installed \in Versions
    /\ stateFile \in DurableStates \cup {None}
    /\ updater \in Updaters
    /\ answered \in SUBSET Updates
    /\ updaterFailures \in Nat
    /\ AtWork
    /\ AtResult
    /\ RollbackIsKnown

Known == DaemonKnown /\ FilesKnown /\ UpdaterKnown

-----------------------------------------------------------------------------
(* The constants and the operators *)

\* Versions are numbers, the targets are versions, and None is neither.
LEMMA VersionFacts ==
    /\ Versions \subseteq Nat
    /\ None \notin Versions
    /\ None \notin Updates
    /\ \A u \in Updates : Target[u] \in Versions
BY UpdateAssumption DEF Versions

\* The changes the actions make to a journal keep its type.
LEMMA JournalFacts ==
    ASSUME NEW J \in Journals, NEW u \in Updates
    PROVE  /\ \A s \in {"received", "running", "finished"} :
                 [J EXCEPT ![u].state = s] \in Journals
           /\ [J EXCEPT ![u].acked = TRUE] \in Journals
           /\ [J EXCEPT ![u] = [NoEntry EXCEPT !.state = "removed"]] \in Journals
<1> USE DEF Journals, Entry, NoEntry
<1>1. \A s \in {"received", "running", "finished"} :
         [J EXCEPT ![u].state = s] \in Journals
  OBVIOUS
<1>2. [J EXCEPT ![u].acked = TRUE] \in Journals
  OBVIOUS
<1>3. [J EXCEPT ![u] = [NoEntry EXCEPT !.state = "removed"]] \in Journals
  OBVIOUS
<1>4. QED
  BY <1>1, <1>2, <1>3

\* A save, successful or not, keeps the types of the journal and its disk.
LEMMA SaveFacts ==
    ASSUME DaemonKnown, NEW next \in Journals, TrySaveJournal(next)
    PROVE  journal' \in Journals /\ disk' \in Journals /\ saveFailures' \in Nat
BY DEF DaemonKnown, TrySaveJournal, SaveJournal, SaveJournalFails

\* The positions of the dispatch loop.
LEMMA DispatchFacts ==
    /\ \A s \in {"idle", "remove", "reconcile", "advance"} :
          At(s) \in Dispatches /\ At(s).step = s
    /\ \A u \in Updates : [step |-> "request", update |-> u] \in Dispatches
BY DEF At, Dispatches

\* What an updater remembers that is about to write a result.
LEMMA TerminalFacts ==
    ASSUME NEW u \in Updates, NEW code \in Codes, NEW v \in Versions
    PROVE  /\ Terminal(u, code, v) \in Updaters
           /\ Terminal(u, code, v).step = "result"
           /\ Terminal(u, code, v).update = u
           /\ Terminal(u, code, v).outcome \in UpdateResults
           /\ Terminal(u, code, v).outcome.update = u
BY DEF Terminal, Off, Updaters, UpdateResults

\* What an updater remembers that is changing the package.
LEMMA ChangingFacts ==
    ASSUME NEW u \in Updates, NEW step \in Working, NEW aim \in Versions,
           NEW previous \in Versions
    PROVE  /\ Changing(u, step, aim, previous) \in Updaters
           /\ Changing(u, step, aim, previous).step = step
           /\ Changing(u, step, aim, previous).update = u
           /\ Changing(u, step, aim, previous).aim = aim
           /\ Changing(u, step, aim, previous).previous = previous
BY DEF Changing, Off, Updaters, Working

\* An updater that goes on forgets nothing.
LEMMA StepFacts ==
    ASSUME NEW x \in Updaters, NEW s \in Working \cup Writing
    PROVE  /\ [x EXCEPT !.step = s] \in Updaters
           /\ [x EXCEPT !.step = s].step = s
           /\ [x EXCEPT !.step = s].update = x.update
           /\ [x EXCEPT !.step = s].aim = x.aim
           /\ [x EXCEPT !.step = s].previous = x.previous
           /\ [x EXCEPT !.step = s].outcome = x.outcome
BY DEF Updaters, Working, Writing

\* An updater that is off remembers nothing.
LEMMA OffFacts == Off \in Updaters /\ Off.step = "off"
BY DEF Off, Updaters

-----------------------------------------------------------------------------
(* The steps of the updater *)

\* An updater decides on a result.
LEMMA TerminalKnown ==
    ASSUME UpdaterKnown, NEW u \in Updates, NEW code \in Codes,
           NEW v \in Versions, updater' = Terminal(u, code, v),
           UNCHANGED <<installed, stateFile, answered, updaterFailures>>
    PROVE  UpdaterKnown'
<1>1. /\ updater' \in Updaters
      /\ updater'.step = "result"
      /\ updater'.update = u
      /\ updater'.outcome \in UpdateResults
      /\ updater'.outcome.update = u
  BY TerminalFacts
<1>2. AtWork' /\ AtResult'
  BY <1>1 DEF AtWork, AtResult, Working, Writing
<1>3. RollbackIsKnown'
  BY DEF UpdaterKnown, RollbackIsKnown
<1> QED
  BY <1>1, <1>2, <1>3 DEF UpdaterKnown

\* An updater begins or resumes a change whose two versions it has recorded.
LEMMA ChangingKnown ==
    ASSUME UpdaterKnown, NEW u \in Updates, NEW step \in Working,
           NEW aim \in Versions,
           stateFile' \in DurableStates,
           stateFile'.update = u,
           updater' = Changing(u, step, aim, stateFile'.previous),
           stateFile'.previous < Target[u],
           aim \in {stateFile'.previous, Target[u]},
           installed \in {stateFile'.previous, Target[u]},
           UNCHANGED <<installed, answered, updaterFailures>>
    PROVE  UpdaterKnown'
<1>1. stateFile'.previous \in Versions
  BY DEF DurableStates
<1>2. /\ updater' \in Updaters
      /\ updater'.step = step
      /\ updater'.update = u
      /\ updater'.aim = aim
      /\ updater'.previous = stateFile'.previous
  BY <1>1, ChangingFacts
<1>3. AtWork' /\ RollbackIsKnown'
  BY <1>2 DEF AtWork, RollbackIsKnown
<1>4. AtResult'
  BY <1>2 DEF AtResult, Working, Writing
<1> QED
  BY <1>2, <1>3, <1>4 DEF UpdaterKnown

\* An updater at work goes on, perhaps having changed the package to its aim.
LEMMA StepKnown ==
    ASSUME UpdaterKnown, updater.step \in Working, NEW s \in Working,
           updater' = [updater EXCEPT !.step = s],
           installed' \in {installed, updater.aim},
           stateFile' \in {stateFile, [stateFile EXCEPT !.phase = "installing"]},
           UNCHANGED <<answered, updaterFailures>>
    PROVE  UpdaterKnown'
<1>1. stateFile \in DurableStates
  BY DEF UpdaterKnown, AtWork
<1>2. /\ stateFile' \in DurableStates
      /\ stateFile'.update = stateFile.update
      /\ stateFile'.previous = stateFile.previous
  BY <1>1 DEF DurableStates
<1>3. stateFile.previous \in Versions /\ stateFile.update \in Updates
  BY <1>1 DEF DurableStates
<1>4. /\ updater.aim \in {stateFile.previous, Target[stateFile.update]}
      /\ stateFile.previous < Target[stateFile.update]
      /\ installed' \in {stateFile.previous, Target[stateFile.update]}
      /\ updater.update = stateFile.update
      /\ updater.previous = stateFile.previous
  BY DEF UpdaterKnown, AtWork
<1>5. installed' \in Versions
  BY <1>3, <1>4, VersionFacts
<1>6. /\ updater' \in Updaters
      /\ updater'.step = s
      /\ updater'.update = updater.update
      /\ updater'.aim = updater.aim
      /\ updater'.previous = updater.previous
  BY StepFacts DEF UpdaterKnown
<1>7. AtWork' /\ RollbackIsKnown'
  BY <1>2, <1>4, <1>6 DEF AtWork, RollbackIsKnown
<1>8. AtResult'
  BY <1>6 DEF AtResult, Working, Writing
<1> QED
  BY <1>2, <1>5, <1>6, <1>7, <1>8 DEF UpdaterKnown

-----------------------------------------------------------------------------
(* One lemma per process *)

\* What a step leaves alone keeps what is known of it.
LEMMA Untouched ==
    ASSUME Known
    PROVE  /\ UNCHANGED daemonVars => DaemonKnown'
           /\ UNCHANGED updaterVars => UpdaterKnown'
           /\ UNCHANGED fileVars => FilesKnown'
<1>1. UNCHANGED daemonVars => DaemonKnown'
  BY DEF Known, DaemonKnown, daemonVars
<1>2. UNCHANGED updaterVars => UpdaterKnown'
  BY DEF Known, UpdaterKnown, AtWork, AtResult, RollbackIsKnown, updaterVars
<1>3. UNCHANGED fileVars => FilesKnown'
  BY DEF Known, FilesKnown, fileVars
<1> QED
  BY <1>1, <1>2, <1>3

\* A daemon that stops leaves what the next one can load.
LEMMA StopKnown ==
    ASSUME DaemonKnown, StopDaemon, crashes' \in Nat
    PROVE  DaemonKnown'
<1>1. agentUpdate' \in Updates \cup {None}
  BY DEF DaemonKnown, StopDaemon, Restored, Unfinished
<1>2. dispatch' \in Dispatches /\ dispatch'.step = "idle"
  BY DispatchFacts DEF StopDaemon
<1>3. stops' \in Nat /\ saveFailures' \in Nat /\ fileFailures' \in Nat
  BY DEF DaemonKnown, StopDaemon
<1>4. /\ journal' \in Journals
      /\ disk' \in Journals
      /\ runtimeDisk' \in Updates \cup {None}
      /\ reconciled' \in BOOLEAN
      /\ running' = None
  BY DEF DaemonKnown, StopDaemon
<1> QED
  BY <1>1, <1>2, <1>3, <1>4 DEF DaemonKnown

\* Every step of the daemon keeps its own state in order.
LEMMA DaemonStepKnown ==
    ASSUME Known, DaemonStep
    PROVE  DaemonKnown'
<1> USE DEF Known
<1>1. ASSUME NEW u \in Updates, ReceiveUpdate(u) PROVE DaemonKnown'
  <2>1. With(u, "received") \in Journals
    BY JournalFacts DEF With, DaemonKnown
  <2>2. journal' \in Journals /\ disk' \in Journals /\ saveFailures' \in Nat
    BY <1>1, <2>1 DEF ReceiveUpdate, DaemonKnown, SaveJournal, SaveJournalFails
  <2> QED
    BY <1>1, <2>2 DEF ReceiveUpdate, DaemonKnown
<1>2. ASSUME NEW u \in Updates, ReportAndRemove(u) PROVE DaemonKnown'
  <2>1. Without(u) \in Journals
    BY JournalFacts DEF Without, DaemonKnown
  <2>2. journal' \in Journals /\ disk' \in Journals /\ saveFailures' \in Nat
    BY <1>2, <2>1, SaveFacts DEF ReportAndRemove
  <2> QED
    BY <1>2, <2>2 DEF ReportAndRemove, DaemonKnown
<1>3. CASE FlushJournal
  BY <1>3 DEF FlushJournal, SaveJournal, DaemonKnown
<1>4. CASE FlushRuntime
  BY <1>4 DEF FlushRuntime, DaemonKnown
<1>5. CASE PassBegins
  BY <1>5, DispatchFacts DEF PassBegins, Up, DaemonKnown
<1>6. ASSUME NEW u \in Updates, ConsumeResult(u) PROVE DaemonKnown'
  <2>1. With(u, "finished") \in Journals
    BY JournalFacts DEF With, DaemonKnown
  <2>2. journal' \in Journals /\ disk' \in Journals /\ saveFailures' \in Nat
    BY <1>6, <2>1 DEF ConsumeResult, DaemonKnown, SaveJournal, SaveJournalFails
  <2>3. /\ dispatch' \in Dispatches
        /\ dispatch'.step \in {"idle", "remove"}
        /\ runtimeDisk' \in Updates \cup {None}
        /\ fileFailures' \in Nat
    BY <1>6, DispatchFacts DEF ConsumeResult, FileFails, DaemonKnown
  <2> QED
    BY <1>6, <2>2, <2>3 DEF ConsumeResult, Up, DaemonKnown
<1>7. CASE ConsumedBefore
  BY <1>7, DispatchFacts DEF ConsumedBefore, Up, DaemonKnown
<1>8. CASE RemoveResult
  <2>1. dispatch' \in Dispatches /\ dispatch'.step \in {"idle", "reconcile"}
    BY <1>8, DispatchFacts DEF RemoveResult
  <2> QED
    BY <1>8, <2>1 DEF RemoveResult, FileFails, DaemonKnown
<1>9. CASE Reconcile
  BY <1>9, DispatchFacts DEF Reconcile, DaemonKnown
<1>10. ASSUME NEW u \in Updates, DiscardExpired(u) PROVE DaemonKnown'
  <2>1. Without(u) \in Journals
    BY JournalFacts DEF Without, DaemonKnown
  <2>2. journal' \in Journals /\ disk' \in Journals /\ saveFailures' \in Nat
    BY <1>10, <2>1 DEF DiscardExpired, DaemonKnown, SaveJournal, SaveJournalFails
  <2>3. /\ agentUpdate' \in Updates \cup {None}
        /\ runtimeDisk' \in Updates \cup {None}
        /\ fileFailures' \in Nat
    BY <1>10 DEF DiscardExpired, FileFails, DaemonKnown
  <2> QED
    BY <1>10, <2>2, <2>3 DEF DiscardExpired, DaemonKnown
<1>11. ASSUME NEW u \in Updates, Acknowledge(u) PROVE DaemonKnown'
  <2>1. [journal EXCEPT ![u].acked = TRUE] \in Journals
    BY JournalFacts DEF DaemonKnown
  <2>2. journal' \in Journals /\ disk' \in Journals /\ saveFailures' \in Nat
    BY <1>11, <2>1, SaveFacts DEF Acknowledge
  <2> QED
    BY <1>11, <2>2 DEF Acknowledge, DaemonKnown
<1>12. ASSUME NEW u \in Updates, StartAgentUpdate(u) PROVE DaemonKnown'
  <2>1. With(u, "running") \in Journals
    BY JournalFacts DEF With, DaemonKnown
  <2>2. journal' \in Journals /\ disk' \in Journals /\ saveFailures' \in Nat
    BY <1>12, <2>1 DEF StartAgentUpdate, DaemonKnown, SaveJournal, SaveJournalFails
  <2>3. \/ UNCHANGED dispatch
        \/ /\ dispatch' \in Dispatches
           /\ dispatch'.update \in Updates
    BY <1>12, DispatchFacts DEF StartAgentUpdate
  <2> QED
    BY <1>12, <2>2, <2>3, VersionFacts DEF StartAgentUpdate, DaemonKnown
<1>13. CASE WriteRequest
  BY <1>13, DispatchFacts DEF WriteRequest, DaemonKnown
<1>14. CASE WriteRequestFails
  <2>1. dispatch.update \in Updates
    BY <1>14 DEF WriteRequestFails, DaemonKnown, Dispatches
  <2>2. With(dispatch.update, "received") \in Journals
    BY <2>1, JournalFacts DEF With, DaemonKnown
  <2>3. journal' \in Journals /\ disk' \in Journals /\ saveFailures' \in Nat
    BY <1>14, <2>2, SaveFacts DEF WriteRequestFails
  <2> QED
    BY <1>14, <2>3, DispatchFacts DEF WriteRequestFails, FileFails, DaemonKnown
<1>15. CASE PassEnds
  BY <1>15, DispatchFacts DEF PassEnds, DaemonKnown
<1>16. CASE Crash
  BY <1>16, StopKnown DEF Crash, DaemonKnown
<1>17. CASE StartDaemon
  BY <1>17 DEF StartDaemon, Up, DaemonKnown, UpdaterKnown
<1> QED
  BY <1>1, <1>2, <1>3, <1>4, <1>5, <1>6, <1>7, <1>8, <1>9, <1>10, <1>11,
     <1>12, <1>13, <1>14, <1>15, <1>16, <1>17
  DEF DaemonStep, DispatchStep

\* The daemon writes the request and the readiness and removes the result; it
\* touches nothing of the updater.
LEMMA DaemonStepElsewhere ==
    ASSUME Known, DaemonStep
    PROVE  FilesKnown' /\ UpdaterKnown'
<1>1. CASE WriteRequest
  <2>1. dispatch.update \in Updates /\ running \in Versions
    BY <1>1 DEF WriteRequest, Known, DaemonKnown, Dispatches
  <2>2. requestFile' \in Requests
    BY <1>1, <2>1 DEF WriteRequest, Requests
  <2> QED
    BY <1>1, <2>2, Untouched DEF WriteRequest, Known, FilesKnown
<1>2. CASE StartDaemon
  <2>1. readinessFile' \in Readinesses \cup {None}
    BY <1>2 DEF StartDaemon, Known, DaemonKnown, FilesKnown, UpdaterKnown,
                Readinesses
  <2> QED
    BY <1>2, <2>1, Untouched DEF StartDaemon, Known, FilesKnown
<1>3. CASE RemoveResult
  BY <1>3, Untouched DEF RemoveResult, Known, FilesKnown
<1>4. CASE ~(WriteRequest \/ StartDaemon \/ RemoveResult)
  <2>1. UNCHANGED <<updaterVars, fileVars>>
    BY <1>4 DEF DaemonStep, DispatchStep, ReceiveUpdate, ReportAndRemove,
       FlushJournal, FlushRuntime, PassBegins, ConsumeResult, ConsumedBefore,
       Reconcile, DiscardExpired, Acknowledge, StartAgentUpdate,
       WriteRequestFails, PassEnds, Crash
  <2> QED
    BY <2>1, Untouched
<1> QED
  BY <1>1, <1>2, <1>3, <1>4

\* An updater that starts decides on a result, or resumes or begins a change
\* whose versions its durable state has.
LEMMA StartUpdaterKnown ==
    ASSUME Known, NEW u \in Updates, StartUpdater(u)
    PROVE  Known'
<1> USE DEF Known
<1>1. Starting(u)
  BY DEF StartUpdater, StartKnowingVersion, VersionUnknown, ResumeInstalled,
         ResumeRollback, BeginUpdate, Resuming
<1>2. requestFile \in Requests
  BY <1>1 DEF Starting, FilesKnown
<1>3. ASSUME NEW phase, Resuming(u, phase)
      PROVE  /\ stateFile \in DurableStates
             /\ stateFile.update = u
             /\ stateFile.previous \in Versions
             /\ stateFile.previous < Target[u]
             /\ installed \in {stateFile.previous, Target[u]}
  BY <1>3 DEF Resuming, UpdaterKnown, RollbackIsKnown, DurableStates
<1>4. Target[u] \in Versions
  BY VersionFacts
<1>5. installed \in Versions /\ installed \in Nat /\ Target[u] \in Nat
  BY <1>4, VersionFacts DEF UpdaterKnown
<1>6. CASE VersionUnknown(u)
  <2>1. requestFile.previous \in Versions
    BY <1>2 DEF Requests
  <2>2. UpdaterKnown'
    BY <1>6, <2>1, TerminalKnown DEF VersionUnknown, Codes
  <2> QED
    BY <1>6, <2>2, Untouched DEF VersionUnknown
<1>7. CASE ResumeInstalled(u)
  <2>1. Resuming(u, "installing")
    BY <1>7 DEF ResumeInstalled
  <2>2. UpdaterKnown'
    BY <1>7, <2>1, <1>3, <1>4, ChangingKnown DEF ResumeInstalled, Working
  <2> QED
    BY <1>7, <2>2, Untouched DEF ResumeInstalled
<1>8. CASE ResumeRollback(u)
  <2>1. Resuming(u, "rolling_back")
    BY <1>8 DEF ResumeRollback
  <2>2. UpdaterKnown'
    BY <1>8, <2>1, <1>3, ChangingKnown DEF ResumeRollback, Working
  <2>3. FilesKnown'
    BY <1>8 DEF ResumeRollback, FilesKnown
  <2> QED
    BY <1>8, <2>2, <2>3, Untouched DEF ResumeRollback
<1>9. CASE BeginUpdate(u)
  <2>1. ASSUME installed = Target[u] \/ Target[u] < installed
        PROVE  UpdaterKnown'
    <3>1. PICK code \in Codes :
             /\ updater' = Terminal(u, code, installed)
             /\ UNCHANGED <<installed, stateFile, answered, updaterFailures>>
      BY <1>9, <2>1 DEF BeginUpdate, Codes
    <3> QED
      BY <3>1, <1>5, TerminalKnown
  <2>2. ASSUME ~(installed = Target[u] \/ Target[u] < installed)
        PROVE  UpdaterKnown'
    <3>1. installed < Target[u]
      BY <2>2, <1>5
    <3>2. /\ updater' = Changing(u, "preflight", Target[u], installed)
          /\ stateFile' = [update |-> u, previous |-> installed,
                           phase |-> "preflight"]
          /\ UNCHANGED <<installed, answered, updaterFailures>>
      BY <1>9, <2>2 DEF BeginUpdate
    <3>3. stateFile' \in DurableStates
      BY <3>2 DEF DurableStates, UpdaterKnown
    <3>4. stateFile'.update = u /\ stateFile'.previous = installed
      BY <3>2
    <3> QED
      BY <3>1, <3>2, <3>3, <3>4, <1>4, ChangingKnown DEF Working
  <2> QED
    BY <1>9, <2>1, <2>2, Untouched DEF BeginUpdate
<1> QED
  BY <1>6, <1>7, <1>8, <1>9 DEF StartUpdater, StartKnowingVersion

\* An updater at work that gives the update up begins to roll back.
LEMMA RollbackKnown ==
    ASSUME Known, updater.step \in Working,
           Rollback(updater.update, updater.previous),
           UNCHANGED <<installed, answered, updaterFailures>>
    PROVE  UpdaterKnown'
<1>1. /\ stateFile \in DurableStates
      /\ stateFile.previous < Target[stateFile.update]
      /\ installed \in {stateFile.previous, Target[stateFile.update]}
      /\ updater.update = stateFile.update
      /\ updater.previous = stateFile.previous
  BY DEF Known, UpdaterKnown, AtWork
<1>2. stateFile.update \in Updates /\ stateFile.previous \in Versions
  BY <1>1 DEF DurableStates
<1>3. stateFile' = [update |-> stateFile.update, previous |-> stateFile.previous,
                    phase |-> "rolling_back"]
  BY <1>1 DEF Rollback
<1>4. stateFile' \in DurableStates
  BY <1>2, <1>3 DEF DurableStates
<1> QED
  BY <1>1, <1>2, <1>3, <1>4, ChangingKnown DEF Known, Rollback, Working

\* The steps of an updater that has begun.
LEMMA UpdaterStepKnown ==
    ASSUME Known, UpdaterStep
    PROVE  Known'
<1> USE DEF Known
<1>1. ASSUME updater.step \in Working
      PROVE  /\ updater.update \in Updates
             /\ updater.previous \in Versions
             /\ updater.aim \in Versions
             /\ Target[updater.update] \in Versions
  BY <1>1, VersionFacts DEF UpdaterKnown, AtWork, DurableStates
<1>2. CASE Preflight
  <2>1. UpdaterKnown'
    BY <1>2, StepKnown DEF Preflight, Working
  <2> QED
    BY <1>2, <2>1, Untouched DEF Preflight, FilesKnown
<1>3. CASE PreflightFails
  <2>1. UpdaterKnown'
    BY <1>3, <1>1, TerminalKnown DEF PreflightFails, Working, Codes
  <2> QED
    BY <1>3, <2>1, Untouched DEF PreflightFails
<1>4. CASE Unpack
  <2>1. UpdaterKnown'
    BY <1>4, StepKnown DEF Unpack, Working
  <2> QED
    BY <1>4, <2>1, Untouched DEF Unpack
<1>5. CASE PackageFails
  <2>1. updater.step \in Working
    BY <1>5 DEF PackageFails, Working
  <2>2. PICK code \in Codes, v \in Versions :
           /\ updater' = Terminal(updater.update, code, v)
           /\ UNCHANGED <<installed, stateFile, answered, updaterFailures>>
    BY <1>5, <1>1, <2>1 DEF PackageFails, Codes, UpdaterKnown
  <2>3. UpdaterKnown'
    BY <1>1, <2>1, <2>2, TerminalKnown
  <2> QED
    BY <1>5, <2>3, Untouched DEF PackageFails
<1>6. CASE RestartAgent
  <2>1. UpdaterKnown'
    BY <1>6, StepKnown DEF RestartAgent, Working
  <2>2. DaemonKnown'
    BY <1>6, StopKnown, Untouched DEF RestartAgent, daemonVars, DaemonKnown
  <2> QED
    BY <1>6, <2>1, <2>2, Untouched DEF RestartAgent
<1>7. CASE UnpackedFails
  <2>1. updater.step \in Working
    BY <1>7 DEF UnpackedFails, Working
  <2>2. CASE Rollback(updater.update, updater.previous)
    <3>1. UpdaterKnown'
      BY <1>7, <2>1, <2>2, RollbackKnown DEF UnpackedFails
    <3>2. FilesKnown'
      BY <1>7, <2>2 DEF UnpackedFails, Rollback, FilesKnown
    <3> QED
      BY <1>7, <3>1, <3>2, Untouched DEF UnpackedFails
  <2>3. CASE ~Rollback(updater.update, updater.previous)
    <3>1. PICK code \in Codes, v \in Versions :
             /\ updater' = Terminal(updater.update, code, v)
             /\ UNCHANGED <<installed, stateFile, answered, updaterFailures>>
             /\ UNCHANGED <<daemonVars, fileVars>>
      BY <1>7, <1>1, <2>1, <2>3 DEF UnpackedFails, Codes, fileVars
    <3>2. UpdaterKnown'
      BY <1>1, <2>1, <3>1, TerminalKnown
    <3> QED
      BY <3>1, <3>2, Untouched
  <2> QED
    BY <2>2, <2>3
<1>8. CASE NotReadyYet
  <2>1. UpdaterKnown'
    BY <1>8, StepKnown DEF NotReadyYet, Working
  <2> QED
    BY <1>8, <2>1, Untouched DEF NotReadyYet
<1>9. CASE Ready
  <2>1. updater.step \in Working
    BY <1>9 DEF Ready, Working
  <2>2. PICK code \in Codes :
           /\ updater' = Terminal(updater.update, code, updater.aim)
           /\ UNCHANGED <<installed, stateFile, answered, updaterFailures>>
    BY <1>9 DEF Ready, Codes
  <2>3. UpdaterKnown'
    BY <1>1, <2>1, <2>2, TerminalKnown
  <2> QED
    BY <1>9, <2>3, Untouched DEF Ready
<1>10. CASE Timeout
  <2>1. updater.step \in Working
    BY <1>10 DEF Timeout, Working
  <2>2. CASE Rollback(updater.update, updater.previous)
    <3>1. UpdaterKnown'
      BY <1>10, <2>1, <2>2, RollbackKnown DEF Timeout
    <3>2. FilesKnown'
      BY <1>10, <2>2 DEF Timeout, Rollback, FilesKnown
    <3> QED
      BY <1>10, <3>1, <3>2, Untouched DEF Timeout
  <2>3. CASE ~Rollback(updater.update, updater.previous)
    <3>1. /\ updater' = Terminal(updater.update, "rollback_failed",
                                 updater.previous)
          /\ UNCHANGED <<installed, stateFile, answered, updaterFailures>>
          /\ UNCHANGED <<daemonVars, fileVars>>
      BY <1>10, <2>3 DEF Timeout, fileVars
    <3>2. UpdaterKnown'
      BY <1>1, <2>1, <3>1, TerminalKnown DEF Codes
    <3> QED
      BY <3>1, <3>2, Untouched
  <2> QED
    BY <2>2, <2>3
<1>11. CASE WriteResult
  <2>1. updater.update \in Updates /\ updater.outcome \in UpdateResults
    BY <1>11 DEF WriteResult, UpdaterKnown, AtResult, Writing
  <2>2. /\ updater' \in Updaters
        /\ updater'.step = "request"
        /\ updater'.update = updater.update
    BY <1>11, StepFacts DEF WriteResult, Writing, UpdaterKnown
  <2>3. AtWork' /\ AtResult'
    BY <2>1, <2>2 DEF AtWork, AtResult, Working
  <2>4. UpdaterKnown'
    BY <1>11, <2>1, <2>2, <2>3 DEF WriteResult, UpdaterKnown, RollbackIsKnown
  <2> QED
    BY <1>11, <2>1, <2>4, Untouched DEF WriteResult, FilesKnown
<1>12. CASE RemoveRequest
  <2>1. updater.update \in Updates
    BY <1>12 DEF RemoveRequest, UpdaterKnown, AtResult, Writing
  <2>2. /\ updater' \in Updaters
        /\ updater'.step = "clean"
        /\ updater'.update = updater.update
    BY <1>12, StepFacts DEF RemoveRequest, Writing, UpdaterKnown
  <2>3. AtWork' /\ AtResult'
    BY <2>1, <2>2 DEF AtWork, AtResult, Working
  <2>4. UpdaterKnown'
    BY <1>12, <2>2, <2>3 DEF RemoveRequest, UpdaterKnown, RollbackIsKnown
  <2> QED
    BY <1>12, <2>4, Untouched DEF RemoveRequest, FilesKnown
<1>13. CASE CleanUp
  <2>1. updater' \in Updaters /\ updater'.step = "off"
    BY <1>13, OffFacts DEF CleanUp
  <2>2. AtWork' /\ AtResult'
    BY <2>1 DEF AtWork, AtResult, Working, Writing
  <2>3. UpdaterKnown'
    BY <1>13, <2>1, <2>2 DEF CleanUp, UpdaterKnown, RollbackIsKnown
  <2> QED
    BY <1>13, <2>3, Untouched DEF CleanUp, FilesKnown
<1> QED
  BY <1>2, <1>3, <1>4, <1>5, <1>6, <1>7, <1>8, <1>9, <1>10, <1>11, <1>12,
     <1>13 DEF UpdaterStep

\* An updater that dies at any point has recorded enough.
LEMMA UpdaterFailsKnown ==
    ASSUME Known, UpdaterFails
    PROVE  Known'
<1>1. updater' \in Updaters /\ updater'.step = "off"
  BY OffFacts DEF UpdaterFails
<1>2. AtWork' /\ AtResult'
  BY <1>1 DEF AtWork, AtResult, Working, Writing
<1>3. updaterFailures' \in Nat
  BY DEF UpdaterFails, Known, UpdaterKnown
<1>4. UpdaterKnown'
  BY <1>1, <1>2, <1>3 DEF UpdaterFails, Known, UpdaterKnown, RollbackIsKnown
<1>5. FilesKnown'
  BY DEF UpdaterFails, Known, FilesKnown
<1> QED
  BY <1>4, <1>5, Untouched DEF UpdaterFails, Known

-----------------------------------------------------------------------------
(* The invariant *)

\* Before the first update.
LEMMA InitKnown == Init => Known
<1> SUFFICES ASSUME Init PROVE Known
  OBVIOUS
<1>1. journal \in Journals /\ disk \in Journals
  BY DEF Init, Journals, Entry, NoEntry
<1>2. dispatch \in Dispatches /\ dispatch.step = "idle"
  BY DispatchFacts DEF Init
<1>3. updater \in Updaters /\ updater.step = "off"
  BY OffFacts DEF Init
<1>4. installed \in Versions
  BY DEF Init, Versions
<1>5. DaemonKnown
  BY <1>1, <1>2, <1>4 DEF Init, DaemonKnown
<1>6. FilesKnown
  BY DEF Init, FilesKnown
<1>7. AtWork /\ AtResult
  BY <1>3 DEF AtWork, AtResult, Working, Writing
<1>8. UpdaterKnown
  BY <1>3, <1>4, <1>7 DEF Init, UpdaterKnown, RollbackIsKnown
<1> QED
  BY <1>5, <1>6, <1>8 DEF Known

\* Every step of either process keeps what is known of both.
LEMMA NextKnown == Known /\ [Next]_vars => Known'
<1> SUFFICES ASSUME Known, [Next]_vars PROVE Known'
  OBVIOUS
<1>1. CASE DaemonStep
  BY <1>1, DaemonStepKnown, DaemonStepElsewhere DEF Known
<1>2. ASSUME NEW u \in Updates, StartUpdater(u) PROVE Known'
  BY <1>2, StartUpdaterKnown
<1>3. CASE UpdaterStep
  BY <1>3, UpdaterStepKnown
<1>4. CASE UpdaterFails
  BY <1>4, UpdaterFailsKnown
<1>5. CASE UNCHANGED vars
  BY <1>5, Untouched DEF vars, Known
<1> QED
  BY <1>1, <1>2, <1>3, <1>4, <1>5 DEF Next

\* The inductive invariant.
LEMMA AlwaysKnown == Spec => []Known
BY InitKnown, NextKnown, PTL DEF Spec

\* Every reachable state of the daemon, the updater and their files is well
\* typed, for any updates, versions, crashes and failures.
THEOREM UpdateTypes == Spec => []TypeOK
<1>1. Known => TypeOK
  BY DEF Known, DaemonKnown, FilesKnown, UpdaterKnown, TypeOK, Journals
<1> QED
  BY <1>1, AlwaysKnown, PTL

\* Whenever the updater has a durable state, it has an older version to return
\* to, and the package is at that version or at the target: wherever Run or
\* rollback is interrupted, and for any number of updates in a row.
THEOREM RollbackAlwaysKnown == Spec => []RollbackIsKnown
<1>1. Known => RollbackIsKnown
  BY DEF Known, UpdaterKnown
<1> QED
  BY <1>1, AlwaysKnown, PTL

-----------------------------------------------------------------------------
(* What a result says of the installed version *)

Good == {"success", "readiness_failed_rolled_back"}

\* An updater has changed the package to its aim or has it still to do.
AtVersion ==
    /\ updater.step \in {"preflight", "package"} => installed # updater.aim
    /\ updater.step \in {"unpacked", "check", "wait"} => installed = updater.aim

\* A readiness of the installed version is of the daemon that runs, or of one
\* that is down; one from before the package changed is of the older version.
ReadinessIsNew ==
    /\ updater.step = "package" /\ readinessFile # None =>
          readinessFile.version = installed
    /\ readinessFile # None /\ readinessFile.version = installed =>
          running \in {installed, None}

\* What an updater is about to write is true of the package and the daemon.
OutcomeIsTrue ==
    updater.step = "result" /\ updater.outcome.code \in Good =>
        /\ updater.outcome.installed = installed
        /\ running \in {installed, None}
        /\ (updater.outcome.code = "success") <=>
              (installed = Target[updater.outcome.update])

Versioned == AtVersion /\ ReadinessIsNew /\ OutcomeIsTrue

\* The result an updater has decided on.
LEMMA TerminalOutcome ==
    ASSUME NEW u, NEW code, NEW v
    PROVE  /\ Terminal(u, code, v).step = "result"
           /\ Terminal(u, code, v).outcome =
                 [update |-> u, code |-> code, installed |-> v]
BY DEF Terminal, Off

\* An updater decides on a result that does not say that an agent is ready.
LEMMA FailureVersioned ==
    ASSUME Versioned, NEW u, NEW code, code \notin Good, NEW v,
           updater' = Terminal(u, code, v),
           UNCHANGED <<installed, readinessFile, running>>
    PROVE  Versioned'
<1>1. updater'.step = "result" /\ updater'.outcome.code = code
  BY DEF Terminal, Off
<1> QED
  BY <1>1 DEF Versioned, AtVersion, ReadinessIsNew, OutcomeIsTrue

\* An updater begins to change the package, having removed the readiness.
LEMMA ChangeVersioned ==
    ASSUME Versioned, NEW u \in Updates, NEW aim \in Versions,
           NEW previous \in Versions, NEW step \in {"preflight", "package"},
           updater' = Changing(u, step, aim, previous), installed # aim,
           readinessFile' \in {readinessFile, None},
           step = "package" => readinessFile' = None,
           UNCHANGED <<installed, running>>
    PROVE  Versioned'
<1>1. updater'.step = step /\ updater'.aim = aim
  BY ChangingFacts DEF Working
<1> QED
  BY <1>1 DEF Versioned, AtVersion, ReadinessIsNew, OutcomeIsTrue

\* Nothing that matters here changes.
LEMMA VersionedKept ==
    ASSUME Versioned, UNCHANGED <<updater, installed, readinessFile, running>>
    PROVE  Versioned'
BY DEF Versioned, AtVersion, ReadinessIsNew, OutcomeIsTrue

\* The daemon: it stops, or the daemon of the installed version starts.
LEMMA DaemonStepVersioned ==
    ASSUME Versioned, DaemonStep
    PROVE  Versioned'
<1>1. CASE StartDaemon
  <2>1. readinessFile' = readinessFile \/ readinessFile'.version = installed
    BY <1>1 DEF StartDaemon
  <2> QED
    BY <1>1, <2>1 DEF StartDaemon, Versioned, AtVersion, ReadinessIsNew,
                      OutcomeIsTrue, updaterVars
<1>2. CASE Crash
  BY <1>2 DEF Crash, StopDaemon, Versioned, AtVersion, ReadinessIsNew,
              OutcomeIsTrue, updaterVars, fileVars
<1>3. CASE ~(StartDaemon \/ Crash)
  <2>1. UNCHANGED <<updater, installed, readinessFile, running>>
    BY <1>3 DEF DaemonStep, DispatchStep, ReceiveUpdate, ReportAndRemove,
       FlushJournal, FlushRuntime, PassBegins, ConsumeResult, ConsumedBefore,
       RemoveResult, Reconcile, DiscardExpired, Acknowledge, StartAgentUpdate,
       WriteRequest, WriteRequestFails, PassEnds, updaterVars, fileVars
  <2> QED
    BY <2>1, VersionedKept
<1> QED
  BY <1>1, <1>2, <1>3

\* An updater that starts.
LEMMA StartUpdaterVersioned ==
    ASSUME Known, Versioned, NEW u \in Updates, StartUpdater(u)
    PROVE  Versioned'
<1>1. Target[u] \in Versions /\ installed \in Versions
  BY VersionFacts DEF Known, UpdaterKnown
<1>2. ASSUME NEW phase, Resuming(u, phase) PROVE stateFile.previous \in Versions
  BY <1>2 DEF Resuming, Known, UpdaterKnown, DurableStates
<1>3. CASE VersionUnknown(u)
  BY <1>3, FailureVersioned DEF VersionUnknown, Good, daemonVars, fileVars
<1>4. CASE ResumeInstalled(u)
  <2>1. updater'.step = "check" /\ updater'.aim = Target[u]
    BY <1>1, <1>2, <1>4, ChangingFacts DEF ResumeInstalled, Working
  <2> QED
    BY <1>4, <2>1 DEF ResumeInstalled, Versioned, AtVersion, ReadinessIsNew,
                      OutcomeIsTrue, daemonVars, fileVars
<1>5. CASE ResumeRollback(u)
  <2>1. stateFile.previous \in Versions
    BY <1>2, <1>5 DEF ResumeRollback
  <2>2. CASE installed # stateFile.previous
    BY <1>5, <2>1, <2>2, ChangeVersioned DEF ResumeRollback, daemonVars
  <2>3. CASE installed = stateFile.previous
    <3>1. updater'.step = "check" /\ updater'.aim = installed
      BY <1>5, <2>1, <2>3, ChangingFacts DEF ResumeRollback, Working
    <3> QED
      BY <1>5, <2>3, <3>1 DEF ResumeRollback, Versioned, AtVersion,
                              ReadinessIsNew, OutcomeIsTrue, daemonVars
  <2> QED
    BY <2>2, <2>3
<1>6. CASE BeginUpdate(u)
  <2>1. CASE installed = Target[u] \/ Target[u] < installed
    <3>1. PICK code \in {"already_installed", "target_not_newer"} :
             updater' = Terminal(u, code, installed)
      BY <1>6, <2>1 DEF BeginUpdate
    <3>2. code \notin Good
      BY DEF Good
    <3> QED
      BY <1>6, <3>1, <3>2, FailureVersioned DEF BeginUpdate, daemonVars, fileVars
  <2>2. CASE ~(installed = Target[u] \/ Target[u] < installed)
    BY <1>1, <1>6, <2>2, ChangeVersioned DEF BeginUpdate, daemonVars, fileVars
  <2> QED
    BY <2>1, <2>2
<1> QED
  BY <1>3, <1>4, <1>5, <1>6 DEF StartUpdater, StartKnowingVersion

\* An updater at work gives an update up.
LEMMA RollbackVersioned ==
    ASSUME Known, Versioned, updater.step \in {"unpacked", "wait"}, ~RollingBack,
           Rollback(updater.update, updater.previous),
           UNCHANGED <<installed, running>>
    PROVE  Versioned'
<1>1. updater.update \in Updates /\ updater.previous \in Versions
  BY DEF Known, UpdaterKnown, AtWork, Working, DurableStates
<1>2. installed # updater.previous
  BY DEF Versioned, AtVersion, RollingBack
<1> QED
  BY <1>1, <1>2, ChangeVersioned DEF Rollback

\* The steps of an updater that has begun.
LEMMA UpdaterStepVersioned ==
    ASSUME Known, Versioned, UpdaterStep
    PROVE  Versioned'
<1>0. updater \in Updaters
  BY DEF Known, UpdaterKnown
<1>1. CASE Preflight
  <2>1. updater'.step = "package" /\ updater'.aim = updater.aim
    BY <1>0, <1>1, StepFacts DEF Preflight, Working
  <2> QED
    BY <1>1, <2>1 DEF Preflight, Versioned, AtVersion, ReadinessIsNew,
                      OutcomeIsTrue, daemonVars
<1>2. CASE PreflightFails
  BY <1>2, FailureVersioned DEF PreflightFails, Good, daemonVars, fileVars
<1>3. CASE Unpack
  <2>1. updater'.step = "unpacked" /\ updater'.aim = updater.aim
    BY <1>0, <1>3, StepFacts DEF Unpack, Working
  <2> QED
    BY <1>3, <2>1 DEF Unpack, Versioned, AtVersion, ReadinessIsNew,
                      OutcomeIsTrue, daemonVars, fileVars
<1>4. CASE PackageFails
  <2>1. CASE RollingBack
    BY <1>4, <2>1, FailureVersioned DEF PackageFails, Good, daemonVars, fileVars
  <2>2. CASE ~RollingBack
    BY <1>4, <2>2, FailureVersioned DEF PackageFails, Good, daemonVars, fileVars
  <2> QED
    BY <2>1, <2>2
<1>5. CASE RestartAgent
  <2>1. updater'.step = "check" /\ updater'.aim = updater.aim
    BY <1>0, <1>5, StepFacts DEF RestartAgent, Working
  <2>2. running' = None \/ running' = running
    BY <1>5 DEF RestartAgent, StopDaemon
  <2> QED
    BY <1>5, <2>1, <2>2 DEF RestartAgent, Versioned, AtVersion, ReadinessIsNew,
                            OutcomeIsTrue, fileVars
<1>6. CASE UnpackedFails
  <2>1. CASE ~RollingBack /\ Rollback(updater.update, updater.previous)
    BY <1>6, <2>1, RollbackVersioned DEF UnpackedFails, daemonVars
  <2>2. CASE ~RollingBack /\ ~Rollback(updater.update, updater.previous)
    BY <1>6, <2>2, FailureVersioned DEF UnpackedFails, Good, daemonVars
  <2>3. CASE RollingBack
    BY <1>6, <2>3, FailureVersioned DEF UnpackedFails, Good, daemonVars
  <2> QED
    BY <2>1, <2>2, <2>3
<1>7. CASE NotReadyYet
  <2>1. updater'.step = "wait" /\ updater'.aim = updater.aim
    BY <1>0, <1>7, StepFacts DEF NotReadyYet, Working
  <2> QED
    BY <1>7, <2>1 DEF NotReadyYet, Versioned, AtVersion, ReadinessIsNew,
                      OutcomeIsTrue, daemonVars, fileVars
<1>8. CASE Ready
  <2> DEFINE code == IF RollingBack THEN "readiness_failed_rolled_back"
                                    ELSE "success"
  <2>1. /\ updater'.step = "result"
        /\ updater'.outcome = [update |-> updater.update, code |-> code,
                               installed |-> updater.aim]
    BY <1>8, TerminalOutcome DEF Ready
  <2>2. installed = updater.aim
    BY <1>8 DEF Ready, Versioned, AtVersion
  <2>3. readinessFile.version = installed
    BY <1>8, <2>2 DEF Ready, IsReady
  <2>4. running \in {installed, None}
    <3>1. updater.update \in Updates /\ updater.aim \in Versions
      BY <1>8, VersionFacts DEF Ready, Known, UpdaterKnown, AtWork, Working,
                                DurableStates
    <3>2. readinessFile \in Readinesses
      BY <1>8, <3>1 DEF Ready, IsReady, Readinesses
    <3> QED
      BY <2>3, <3>2, FileAssumption DEF Versioned, ReadinessIsNew
  <2>5. /\ updater.aim \in {updater.previous, Target[updater.update]}
        /\ updater.previous < Target[updater.update]
        /\ updater.previous \in Nat /\ Target[updater.update] \in Nat
    BY <1>8, VersionFacts DEF Ready, Known, UpdaterKnown, AtWork, Working,
                              DurableStates
  <2>6. (code = "success") <=> (installed = Target[updater.update])
    BY <2>2, <2>5 DEF RollingBack
  <2> QED
    BY <1>8, <2>1, <2>2, <2>3, <2>4, <2>6 DEF Ready, Versioned, AtVersion,
       ReadinessIsNew, OutcomeIsTrue, daemonVars, fileVars
<1>9. CASE Timeout
  <2>1. CASE ~RollingBack
    BY <1>9, <2>1, RollbackVersioned DEF Timeout, daemonVars
  <2>2. CASE RollingBack
    <3>1. /\ updater' = Terminal(updater.update, "rollback_failed", updater.previous)
          /\ UNCHANGED <<installed, readinessFile, running>>
      BY <1>9, <2>2 DEF Timeout, daemonVars
    <3>2. "rollback_failed" \notin Good
      BY DEF Good
    <3> QED
      BY <3>1, <3>2, FailureVersioned
  <2> QED
    BY <2>1, <2>2
<1>10. CASE WriteResult \/ RemoveRequest
  <2>1. updater'.step \in {"request", "clean"}
    BY <1>0, <1>10 DEF WriteResult, RemoveRequest, Updaters
  <2> QED
    BY <1>10, <2>1 DEF WriteResult, RemoveRequest, Versioned, AtVersion,
                       ReadinessIsNew, OutcomeIsTrue, daemonVars
<1>11. CASE CleanUp
  <2>1. updater'.step = "off"
    BY <1>11, OffFacts DEF CleanUp
  <2> QED
    BY <1>11, <2>1 DEF CleanUp, Versioned, AtVersion, ReadinessIsNew,
                       OutcomeIsTrue, daemonVars
<1> QED
  BY <1>1, <1>2, <1>3, <1>4, <1>5, <1>6, <1>7, <1>8, <1>9, <1>10, <1>11
  DEF UpdaterStep

\* An updater that dies may have removed the readiness.
LEMMA UpdaterFailsVersioned ==
    ASSUME Versioned, UpdaterFails
    PROVE  Versioned'
<1>1. updater'.step = "off"
  BY OffFacts DEF UpdaterFails
<1>2. readinessFile' \in {readinessFile, None}
  BY DEF UpdaterFails
<1> QED
  BY <1>1, <1>2 DEF UpdaterFails, Versioned, AtVersion, ReadinessIsNew,
                    OutcomeIsTrue, daemonVars

\* The result that is written is the outcome of an updater that writes one.
LEMMA ResultIsOutcome ==
    ASSUME Next, NEW r \in UpdateResults, resultFile' = r, resultFile # r
    PROVE  updater.step = "result" /\ r = updater.outcome
<1>1. resultFile' # None
  BY FileAssumption
<1>2. CASE WriteResult
  BY <1>2 DEF WriteResult
<1>3. CASE ~WriteResult
  <2>1. ASSUME NEW u \in Updates, StartUpdater(u) PROVE UNCHANGED resultFile
    BY <2>1 DEF StartUpdater, StartKnowingVersion, VersionUnknown,
       ResumeInstalled, ResumeRollback, BeginUpdate, fileVars
  <2>2. DaemonStep => UNCHANGED resultFile \/ resultFile' = None
    BY DEF DaemonStep, DispatchStep, ReceiveUpdate, ReportAndRemove,
       FlushJournal, FlushRuntime, PassBegins, ConsumeResult, ConsumedBefore,
       RemoveResult, Reconcile, DiscardExpired, Acknowledge, StartAgentUpdate,
       WriteRequest, WriteRequestFails, PassEnds, Crash, StartDaemon, fileVars
  <2>3. UpdaterStep \/ UpdaterFails => UNCHANGED resultFile
    BY <1>3 DEF UpdaterStep, Preflight, PreflightFails, Unpack, PackageFails,
       RestartAgent, UnpackedFails, NotReadyYet, Ready, Timeout, RemoveRequest,
       CleanUp, UpdaterFails, fileVars
  <2> QED
    BY <1>1, <2>1, <2>2, <2>3 DEF Next
<1> QED
  BY <1>2, <1>3

\* A result that says that an agent became ready names the installed version,
\* and no agent of another version runs when writeTerminal writes it.
THEOREM TheReportedVersionRuns == Spec => ReportedVersionRuns
<1>1. Init => Versioned
  BY OffFacts DEF Init, Versioned, AtVersion, ReadinessIsNew, OutcomeIsTrue
<1>2. Known /\ Versioned /\ [Next]_vars => Versioned'
  <2> SUFFICES ASSUME Known, Versioned, [Next]_vars PROVE Versioned'
    OBVIOUS
  <2>1. ASSUME NEW u \in Updates, StartUpdater(u) PROVE Versioned'
    BY <2>1, StartUpdaterVersioned
  <2>2. CASE UNCHANGED vars
    BY <2>2, VersionedKept DEF vars, daemonVars, updaterVars, fileVars
  <2> QED
    BY <2>1, <2>2, DaemonStepVersioned, UpdaterStepVersioned,
       UpdaterFailsVersioned DEF Next
<1>3. Versioned /\ [Next]_vars =>
        [\A r \in UpdateResults :
            /\ resultFile' = r /\ resultFile # r
            /\ r.code \in {"success", "readiness_failed_rolled_back"}
            => /\ installed = r.installed
               /\ running \in {r.installed, None}
               /\ (r.code = "success") <=> (installed = Target[r.update])]_vars
  BY ResultIsOutcome DEF Versioned, OutcomeIsTrue, Good
<1> QED
  BY <1>1, <1>2, <1>3, AlwaysKnown, PTL DEF Spec, ReportedVersionRuns

-----------------------------------------------------------------------------
(* The drain *)

\* The updates the updater was asked for: those it has answered, and those a
\* request, or an updater that has read one, names.
Asked ==
    {u \in Updates : \/ u \in answered
                     \/ requestFile # None /\ requestFile.update = u
                     \/ updater.step # "off" /\ updater.update = u}

Open == {"received", "running", "finished"}
Begun == {"running", "finished", "removed"}

\* At most one update is open, it runs only when it was acknowledged, and what
\* the updater was asked for had begun.
InOrder(entries, asked) ==
    /\ \A u, v \in Updates :
          entries[u].state \in Open /\ entries[v].state \in Open => u = v
    /\ \A u \in Updates :
          /\ entries[u].state \in {"running", "finished"} => entries[u].acked
          /\ entries[u].state = "unknown" => ~entries[u].acked
          /\ u \in asked => entries[u].state \in Begun

\* The agent drains for the update that is received or running.  One that is
\* running is so on disk as well, and stays so until its result is written.
DrainedForIt ==
    \A u \in Updates :
        /\ journal[u].state \in {"received", "running"} <=> agentUpdate = u
        /\ journal[u].state = "running" => disk[u].state = "running"
        /\ u \in Asked /\ u \notin answered => journal[u].state = "running"

\* A request that is being written is the first one of its update.
FirstRequest ==
    dispatch.step = "request" =>
        journal[dispatch.update].state = "running" /\ dispatch.update \notin Asked

\* Results are those of updates that were answered, and no command is advanced
\* before the reconciliation.
PassInOrder ==
    /\ resultFile # None => resultFile.update \in answered
    /\ dispatch.step \in {"advance", "request"} => reconciled

Drained ==
    /\ InOrder(journal, Asked) /\ InOrder(disk, Asked)
    /\ DrainedForIt
    /\ FirstRequest
    /\ PassInOrder

\* An entry after each of the changes of the journal.
LEMMA EntryAfter ==
    ASSUME journal \in Journals, NEW u \in Updates
    PROVE  /\ \A s \in {"received", "running", "finished"}, v \in Updates :
                /\ With(u, s)[v].state = IF v = u THEN s ELSE journal[v].state
                /\ With(u, s)[v].acked = journal[v].acked
           /\ \A v \in Updates :
                /\ [journal EXCEPT ![u].acked = TRUE][v].state = journal[v].state
                /\ v # u => [journal EXCEPT ![u].acked = TRUE][v].acked = journal[v].acked
           /\ [journal EXCEPT ![u].acked = TRUE][u].acked
           /\ \A v \in Updates :
                /\ Without(u)[v].state = IF v = u THEN "removed" ELSE journal[v].state
                /\ v # u => Without(u)[v].acked = journal[v].acked
<1> USE DEF Journals, Entry, NoEntry, With, Without
<1>1. ASSUME NEW s \in {"received", "running", "finished"}, NEW v \in Updates
      PROVE  /\ With(u, s)[v].state = IF v = u THEN s ELSE journal[v].state
             /\ With(u, s)[v].acked = journal[v].acked
  OBVIOUS
<1>2. ASSUME NEW v \in Updates
      PROVE  /\ [journal EXCEPT ![u].acked = TRUE][v].state = journal[v].state
             /\ v # u => [journal EXCEPT ![u].acked = TRUE][v].acked = journal[v].acked
  OBVIOUS
<1>3. [journal EXCEPT ![u].acked = TRUE][u].acked
  OBVIOUS
<1>4. ASSUME NEW v \in Updates
      PROVE  /\ Without(u)[v].state = IF v = u THEN "removed" ELSE journal[v].state
             /\ v # u => Without(u)[v].acked = journal[v].acked
  OBVIOUS
<1> QED
  BY <1>1, <1>2, <1>3, <1>4

\* A journal in order stays in order when the entry of one update changes to
\* what the updates asked for allow.
LEMMA InOrderAfter ==
    ASSUME NEW J \in Journals, NEW K \in Journals, NEW u \in Updates, NEW asked,
           InOrder(J, asked),
           \A v \in Updates : v # u => K[v].state = J[v].state /\ K[v].acked = J[v].acked,
           K[u].state \in Open =>
              J[u].state \in Open \/ \A v \in Updates : J[v].state \notin Open,
           K[u].state \in {"running", "finished"} => K[u].acked,
           K[u].state = "unknown" => ~K[u].acked,
           u \in asked => K[u].state \in Begun
    PROVE  InOrder(K, asked)
<1>1. ASSUME NEW v \in Updates, NEW w \in Updates,
             K[v].state \in Open, K[w].state \in Open
      PROVE  v = w
  BY <1>1 DEF InOrder
<1>2. \A v \in Updates :
          /\ K[v].state \in {"running", "finished"} => K[v].acked
          /\ K[v].state = "unknown" => ~K[v].acked
          /\ v \in asked => K[v].state \in Begun
  BY DEF InOrder
<1> QED
  BY <1>1, <1>2 DEF InOrder

\* What the updater was asked for is asked for no less because of a step that
\* leaves requests, results and the updater alone.
LEMMA AskedKept ==
    ASSUME UNCHANGED <<answered, requestFile, updater>>
    PROVE  Asked' = Asked
BY DEF Asked

\* A journal in order is so in memory and on disk after a save that may fail.
LEMMA SavedInOrder ==
    ASSUME Drained, NEW K, InOrder(K, Asked), TrySaveJournal(K), Asked' = Asked
    PROVE  /\ journal' = K /\ disk' \in {disk, K}
           /\ InOrder(journal', Asked') /\ InOrder(disk', Asked')
BY DEF Drained, TrySaveJournal, SaveJournal, SaveJournalFails

\* The agent drains for an update it receives; nothing was asked of it before.
LEMMA ReceiveDrained ==
    ASSUME Known, Drained, NEW u \in Updates, ReceiveUpdate(u)
    PROVE  Drained'
<1> DEFINE K == With(u, "received")
<1>1. journal \in Journals /\ K \in Journals
  BY JournalFacts DEF Known, DaemonKnown, With
<1>2. \A v \in Updates : /\ K[v].state = IF v = u THEN "received" ELSE journal[v].state
                         /\ K[v].acked = journal[v].acked
  BY <1>1, EntryAfter
<1> HIDE DEF K
<1>3. journal[u].state = "unknown" /\ \A v \in Updates : journal[v].state \notin Open
  BY DEF ReceiveUpdate, Open
<1>4. u \notin Asked
  BY <1>3 DEF Drained, InOrder, Begun
<1>5. InOrder(K, Asked)
  BY <1>1, <1>2, <1>3, <1>4, InOrderAfter DEF Drained
<1>6. Asked' = Asked
  BY AskedKept DEF ReceiveUpdate, updaterVars, fileVars
<1>7. InOrder(journal', Asked') /\ InOrder(disk', Asked')
  BY <1>5, <1>6 DEF Drained, ReceiveUpdate, SaveJournal, SaveJournalFails, K
<1>8. \A v \in Updates : agentUpdate # v /\ (v \in Asked => v \in answered)
  BY <1>3 DEF Drained, DrainedForIt, Open
<1>9. DrainedForIt'
  <2>1. CASE journal' = K /\ disk' = K /\ agentUpdate' = u
    BY <1>2, <1>3, <1>6, <1>8, <2>1 DEF ReceiveUpdate, DrainedForIt, Open, updaterVars
  <2>2. CASE journal' = journal /\ agentUpdate' = agentUpdate
    BY <1>3, <1>6, <1>8, <2>2 DEF ReceiveUpdate, DrainedForIt, Open, updaterVars
  <2> QED
    BY <2>1, <2>2 DEF ReceiveUpdate, SaveJournal, SaveJournalFails, K
<1>10. dispatch.step # "request"
  BY <1>3 DEF Drained, FirstRequest, Known, DaemonKnown, Dispatches, Open
<1>11. FirstRequest' /\ PassInOrder'
  BY <1>10 DEF ReceiveUpdate, FirstRequest, PassInOrder, Drained, updaterVars, fileVars
<1> QED
  BY <1>7, <1>9, <1>11 DEF Drained

\* A finished update is removed.
LEMMA ReportDrained ==
    ASSUME Known, Drained, NEW u \in Updates, ReportAndRemove(u)
    PROVE  Drained'
<1> DEFINE K == Without(u)
<1>1. journal \in Journals /\ K \in Journals
  BY JournalFacts DEF Known, DaemonKnown, Without
<1>2. \A v \in Updates : /\ K[v].state = IF v = u THEN "removed" ELSE journal[v].state
                         /\ v # u => K[v].acked = journal[v].acked
  BY <1>1, EntryAfter
<1> HIDE DEF K
<1>3. InOrder(K, Asked)
  BY <1>1, <1>2, InOrderAfter DEF Drained, Open, Begun
<1>4. Asked' = Asked
  BY AskedKept DEF ReportAndRemove, updaterVars, fileVars
<1>5. /\ journal' = K /\ disk' \in {disk, K}
      /\ InOrder(journal', Asked') /\ InOrder(disk', Asked')
  BY <1>3, <1>4, SavedInOrder DEF ReportAndRemove, K
<1>6. DrainedForIt'
  BY <1>2, <1>4, <1>5 DEF ReportAndRemove, Drained, DrainedForIt, updaterVars
<1>7. FirstRequest' /\ PassInOrder'
  BY <1>2, <1>4, <1>5 DEF ReportAndRemove, FirstRequest, PassInOrder, Drained,
     Known, DaemonKnown, Dispatches, updaterVars, fileVars
<1> QED
  BY <1>5, <1>6, <1>7 DEF Drained

\* A result is one of the running update the agent is drained for.
LEMMA ConsumeDrained ==
    ASSUME Known, Drained, NEW u \in Updates, ConsumeResult(u)
    PROVE  Drained'
<1> DEFINE K == With(u, "finished")
<1>1. journal \in Journals /\ K \in Journals
  BY JournalFacts DEF Known, DaemonKnown, With
<1>2. \A v \in Updates : /\ K[v].state = IF v = u THEN "finished" ELSE journal[v].state
                         /\ K[v].acked = journal[v].acked
  BY <1>1, EntryAfter
<1> HIDE DEF K
<1>3. u \in answered /\ u \in Asked
  BY DEF ConsumeResult, Drained, PassInOrder, Asked
<1>4. journal[u].state = "running"
  BY <1>3 DEF ConsumeResult, Drained, DrainedForIt, InOrder, Begun
<1>5. InOrder(K, Asked)
  BY <1>1, <1>2, <1>4, InOrderAfter DEF Drained, InOrder, Open, Begun
<1>6. Asked' = Asked
  BY AskedKept DEF ConsumeResult, updaterVars, fileVars
<1>7. TrySaveJournal(K)
  BY DEF ConsumeResult, TrySaveJournal, K
<1>8. /\ journal' = K /\ disk' \in {disk, K}
      /\ InOrder(journal', Asked') /\ InOrder(disk', Asked')
  BY <1>5, <1>6, <1>7, SavedInOrder
<1>9. \A v \in Updates : v # u => journal[v].state \notin {"received", "running"}
  BY DEF ConsumeResult, Drained, DrainedForIt
<1>10. DrainedForIt'
  BY <1>2, <1>3, <1>6, <1>8, <1>9, VersionFacts
  DEF ConsumeResult, Drained, DrainedForIt, updaterVars
<1>11. dispatch'.step \in {"idle", "remove"}
  BY DispatchFacts DEF ConsumeResult
<1>12. FirstRequest' /\ PassInOrder'
  BY <1>11 DEF ConsumeResult, FirstRequest, PassInOrder, Drained, updaterVars, fileVars
<1> QED
  BY <1>8, <1>10, <1>12 DEF Drained

\* What expires unacknowledged was never started.
LEMMA DiscardDrained ==
    ASSUME Known, Drained, NEW u \in Updates, DiscardExpired(u)
    PROVE  Drained'
<1> DEFINE K == Without(u)
<1>1. journal \in Journals /\ K \in Journals
  BY JournalFacts DEF Known, DaemonKnown, Without
<1>2. \A v \in Updates : /\ K[v].state = IF v = u THEN "removed" ELSE journal[v].state
                         /\ v # u => K[v].acked = journal[v].acked
  BY <1>1, EntryAfter
<1> HIDE DEF K
<1>3. InOrder(K, Asked)
  BY <1>1, <1>2, InOrderAfter DEF Drained, Open, Begun
<1>4. Asked' = Asked
  BY AskedKept DEF DiscardExpired, updaterVars, fileVars
<1>5. dispatch' = dispatch /\ dispatch.step = "advance"
  BY DEF DiscardExpired
<1>6. FirstRequest' /\ PassInOrder'
  BY <1>5 DEF DiscardExpired, FirstRequest, PassInOrder, Drained, updaterVars, fileVars
<1>7. journal[u].state = "received"
  BY <1>1 DEF DiscardExpired, Drained, InOrder, Journals, Entry
<1>8. CASE SaveJournal(K) /\ agentUpdate' = IF agentUpdate = u THEN None ELSE agentUpdate
  <2>1. InOrder(journal', Asked') /\ InOrder(disk', Asked')
    BY <1>3, <1>4, <1>8 DEF SaveJournal
  <2>2. agentUpdate = u
    BY <1>7 DEF Drained, DrainedForIt
  <2>3. DrainedForIt'
    BY <1>2, <1>4, <1>7, <1>8, <2>2, VersionFacts
    DEF SaveJournal, DiscardExpired, Drained, DrainedForIt, updaterVars
  <2> QED
    BY <1>6, <2>1, <2>3 DEF Drained
<1>9. CASE SaveJournalFails(journal) /\ UNCHANGED agentUpdate
  BY <1>4, <1>6, <1>9 DEF SaveJournalFails, DiscardExpired, Drained, DrainedForIt,
                          updaterVars
<1> QED
  BY <1>8, <1>9 DEF DiscardExpired, K

\* The acknowledgement changes no state.
LEMMA AcknowledgeDrained ==
    ASSUME Known, Drained, NEW u \in Updates, Acknowledge(u)
    PROVE  Drained'
<1> DEFINE K == [journal EXCEPT ![u].acked = TRUE]
<1>1. journal \in Journals /\ K \in Journals
  BY JournalFacts DEF Known, DaemonKnown
<1>2. /\ \A v \in Updates : /\ K[v].state = journal[v].state
                            /\ v # u => K[v].acked = journal[v].acked
      /\ K[u].acked
  BY <1>1, EntryAfter
<1> HIDE DEF K
<1>3. journal[u].state \in Open
  BY <1>1 DEF Acknowledge, Journals, Entry, Open
<1>4. InOrder(K, Asked)
  BY <1>1, <1>2, <1>3, InOrderAfter DEF Drained, InOrder, Open
<1>5. Asked' = Asked
  BY AskedKept DEF Acknowledge, updaterVars, fileVars
<1>6. /\ journal' = K /\ disk' \in {disk, K}
      /\ InOrder(journal', Asked') /\ InOrder(disk', Asked')
  BY <1>4, <1>5, SavedInOrder DEF Acknowledge, K
<1>7. DrainedForIt'
  BY <1>2, <1>5, <1>6 DEF Acknowledge, Drained, DrainedForIt, updaterVars
<1>8. FirstRequest' /\ PassInOrder'
  BY DEF Acknowledge, FirstRequest, PassInOrder, Drained, updaterVars, fileVars
<1> QED
  BY <1>6, <1>7, <1>8 DEF Drained

\* An update that starts was not asked for yet.
LEMMA StartDrained ==
    ASSUME Known, Drained, NEW u \in Updates, StartAgentUpdate(u)
    PROVE  Drained'
<1> DEFINE K == With(u, "running")
<1>1. journal \in Journals /\ K \in Journals
  BY JournalFacts DEF Known, DaemonKnown, With
<1>2. \A v \in Updates : /\ K[v].state = IF v = u THEN "running" ELSE journal[v].state
                         /\ K[v].acked = journal[v].acked
  BY <1>1, EntryAfter
<1> HIDE DEF K
<1>3. journal[u].state = "received" /\ journal[u].acked
  BY DEF StartAgentUpdate
<1>4. u \notin Asked
  BY <1>3 DEF Drained, InOrder, Begun
<1>5. InOrder(K, Asked)
  BY <1>1, <1>2, <1>3, <1>4, InOrderAfter DEF Drained, Open
<1>6. Asked' = Asked
  BY AskedKept DEF StartAgentUpdate, updaterVars, fileVars
<1>7. PassInOrder'
  BY DEF StartAgentUpdate, Drained, PassInOrder, updaterVars, fileVars
<1>8. CASE SaveJournal(K) /\ dispatch' = [step |-> "request", update |-> u]
  <2>1. InOrder(journal', Asked') /\ InOrder(disk', Asked')
    BY <1>5, <1>6, <1>8 DEF SaveJournal
  <2>2. DrainedForIt'
    BY <1>2, <1>3, <1>6, <1>8 DEF SaveJournal, StartAgentUpdate, Drained,
                                  DrainedForIt, updaterVars
  <2>3. FirstRequest'
    BY <1>2, <1>4, <1>6, <1>8 DEF SaveJournal, FirstRequest
  <2> QED
    BY <1>7, <2>1, <2>2, <2>3 DEF Drained
<1>9. CASE SaveJournalFails(journal) /\ UNCHANGED dispatch
  BY <1>6, <1>7, <1>9 DEF SaveJournalFails, StartAgentUpdate, Drained, DrainedForIt,
                          FirstRequest, updaterVars
<1> QED
  BY <1>8, <1>9 DEF StartAgentUpdate, K

\* A request that is not written leaves the updater without one.
LEMMA RequestFailsDrained ==
    ASSUME Known, Drained, WriteRequestFails
    PROVE  Drained'
<1> DEFINE u == dispatch.update
           K == With(u, "received")
<1>1. u \in Updates /\ journal[u].state = "running" /\ u \notin Asked
  BY DEF WriteRequestFails, Known, DaemonKnown, Dispatches, Drained, FirstRequest
<1> HIDE DEF u
<1>2. journal \in Journals /\ K \in Journals
  BY <1>1, JournalFacts DEF Known, DaemonKnown, With
<1>3. \A v \in Updates : /\ K[v].state = IF v = u THEN "received" ELSE journal[v].state
                         /\ K[v].acked = journal[v].acked
  BY <1>1, <1>2, EntryAfter
<1> HIDE DEF K
<1>4. InOrder(K, Asked)
  BY <1>1, <1>2, <1>3, InOrderAfter DEF Drained, Open
<1>5. Asked' = Asked
  BY AskedKept DEF WriteRequestFails, updaterVars, fileVars
<1>6. /\ journal' = K /\ disk' \in {disk, K}
      /\ InOrder(journal', Asked') /\ InOrder(disk', Asked')
  BY <1>4, <1>5, SavedInOrder DEF WriteRequestFails, K, u
<1>7. DrainedForIt'
  BY <1>1, <1>3, <1>5, <1>6 DEF WriteRequestFails, Drained, DrainedForIt, updaterVars
<1>8. dispatch'.step = "advance"
  BY DispatchFacts DEF WriteRequestFails
<1>9. FirstRequest' /\ PassInOrder'
  BY <1>8 DEF WriteRequestFails, FirstRequest, PassInOrder, Drained, updaterVars,
              fileVars
<1> QED
  BY <1>6, <1>7, <1>9 DEF Drained

\* The request of a running update is written.
LEMMA RequestDrained ==
    ASSUME Known, Drained, WriteRequest
    PROVE  Drained'
<1> DEFINE u == dispatch.update
<1>1. u \in Updates /\ journal[u].state = "running" /\ u \notin Asked
  BY DEF WriteRequest, Known, DaemonKnown, Dispatches, Drained, FirstRequest
<1>2. requestFile'.update = u
  BY DEF WriteRequest
<1> HIDE DEF u
<1>3. Asked' \subseteq Asked \cup {u}
  BY <1>2 DEF Asked, WriteRequest, updaterVars
<1>4. disk[u].state = "running"
  BY <1>1 DEF Drained, DrainedForIt
<1>5. InOrder(journal, Asked') /\ InOrder(disk, Asked')
  BY <1>1, <1>3, <1>4 DEF Drained, InOrder, Begun
<1>6. DrainedForIt'
  BY <1>1, <1>3 DEF WriteRequest, Drained, DrainedForIt, updaterVars
<1>7. dispatch'.step = "advance"
  BY DispatchFacts DEF WriteRequest
<1>8. FirstRequest' /\ PassInOrder'
  BY <1>7 DEF WriteRequest, FirstRequest, PassInOrder, Drained, updaterVars
<1> QED
  BY <1>5, <1>6, <1>8 DEF Drained, WriteRequest

\* The daemon stops: the next one drains for what its journal has not finished.
LEMMA StopDrained ==
    ASSUME Known, Drained, StopDaemon, Asked' \subseteq Asked,
           UNCHANGED <<answered, resultFile>>
    PROVE  Drained'
<1>1. InOrder(journal', Asked') /\ InOrder(disk', Asked')
  BY DEF StopDaemon, Drained, InOrder
<1>2. DrainedForIt'
  <2>1. \A u, v \in Unfinished : u = v
    BY DEF Drained, InOrder, Unfinished, Open
  <2>2. \A u \in Updates : u \in Unfinished <=> agentUpdate' = u
    BY <2>1, VersionFacts DEF StopDaemon, Restored, Unfinished
  <2> QED
    BY <2>2 DEF StopDaemon, Drained, DrainedForIt, Unfinished
<1>3. dispatch'.step = "idle"
  BY DispatchFacts DEF StopDaemon
<1>4. FirstRequest' /\ PassInOrder'
  BY <1>3 DEF FirstRequest, PassInOrder, Drained
<1> QED
  BY <1>1, <1>2, <1>4 DEF Drained

\* Steps that change neither the journal nor what the updater was asked for more
\* than by forgetting it.
LEMMA DrainedKept ==
    ASSUME Drained, Asked' \subseteq Asked, answered \subseteq answered',
           UNCHANGED <<journal, disk, agentUpdate, dispatch, reconciled>>,
           resultFile' # None => resultFile'.update \in answered'
    PROVE  Drained'
<1>1. InOrder(journal, Asked') /\ InOrder(disk, Asked')
  BY DEF Drained, InOrder
<1>2. DrainedForIt'
  BY DEF Drained, DrainedForIt
<1>3. FirstRequest' /\ PassInOrder'
  BY DEF Drained, FirstRequest, PassInOrder
<1> QED
  BY <1>1, <1>2, <1>3 DEF Drained

\* Every step of the daemon.
LEMMA DaemonStepDrained ==
    ASSUME Known, Drained, DaemonStep
    PROVE  Drained'
<1>1. CASE FlushJournal
  <2>1. Asked' = Asked
    BY <1>1, AskedKept DEF FlushJournal, updaterVars, fileVars
  <2> QED
    BY <1>1, <2>1 DEF FlushJournal, SaveJournal, Drained, DrainedForIt, FirstRequest,
                      PassInOrder, updaterVars, fileVars
<1>2. CASE FlushRuntime \/ StartDaemon
  <2>1. Asked' = Asked
    BY <1>2, AskedKept DEF FlushRuntime, StartDaemon, updaterVars, fileVars
  <2> QED
    BY <1>2, <2>1, DrainedKept DEF FlushRuntime, StartDaemon, Drained, PassInOrder,
                                   updaterVars, fileVars
<1>3. CASE PassBegins \/ ConsumedBefore \/ RemoveResult \/ Reconcile \/ PassEnds
  <2>1. Asked' = Asked
    BY <1>3, AskedKept DEF PassBegins, ConsumedBefore, RemoveResult, Reconcile,
                           PassEnds, updaterVars, fileVars
  <2>2. /\ dispatch'.step \in {"idle", "remove", "reconcile"} \/ Reconcile
        /\ Reconcile => dispatch'.step = "advance" /\ reconciled'
    BY <1>3, DispatchFacts DEF PassBegins, ConsumedBefore, RemoveResult, Reconcile,
                               PassEnds
  <2>3. FirstRequest' /\ PassInOrder'
    BY <1>3, <2>2 DEF PassBegins, ConsumedBefore, RemoveResult, Reconcile, PassEnds,
       Drained, FirstRequest, PassInOrder, updaterVars, fileVars
  <2>4. UNCHANGED <<journal, disk, agentUpdate, answered>>
    BY <1>3 DEF PassBegins, ConsumedBefore, RemoveResult, Reconcile, PassEnds,
                updaterVars
  <2> QED
    BY <2>1, <2>3, <2>4 DEF Drained, DrainedForIt
<1>4. CASE Crash
  <2>1. Asked' = Asked
    BY <1>4, AskedKept DEF Crash, updaterVars, fileVars
  <2> QED
    BY <1>4, <2>1, StopDrained DEF Crash, updaterVars, fileVars
<1> QED
  BY <1>1, <1>2, <1>3, <1>4, ReceiveDrained, ReportDrained, ConsumeDrained,
     DiscardDrained, AcknowledgeDrained, StartDrained, RequestDrained,
     RequestFailsDrained DEF DaemonStep, DispatchStep

\* An updater that goes on works for the same update.
LEMMA UpdaterGoesOn ==
    ASSUME Known, UpdaterStep
    PROVE  /\ updater.step # "off" /\ updater.update \in Updates
           /\ updater'.step = "off" \/ updater'.update = updater.update
<1>1. updater \in Updaters /\ updater.step # "off"
  BY DEF Known, UpdaterKnown, UpdaterStep, Preflight, PreflightFails, Unpack,
     PackageFails, RestartAgent, UnpackedFails, NotReadyYet, Ready, Timeout,
     WriteResult, RemoveRequest, CleanUp
<1>2. updater.update \in Updates
  BY <1>1 DEF Known, UpdaterKnown, AtWork, AtResult, Working, Writing, Updaters,
              DurableStates
<1> SUFFICES updater'.step = "off" \/ updater'.update = updater.update
  BY <1>1, <1>2
<1>3. ASSUME NEW s \in Working \cup Writing
      PROVE  [updater EXCEPT !.step = s].update = updater.update
  BY <1>1, <1>3, StepFacts
<1>4. \A code, v : Terminal(updater.update, code, v).update = updater.update
  BY DEF Terminal, Off
<1>5. \A step, aim, previous :
         Changing(updater.update, step, aim, previous).update = updater.update
  BY DEF Changing, Off
<1>6. CASE Preflight \/ Unpack \/ RestartAgent \/ NotReadyYet \/ WriteResult \/ RemoveRequest
  BY <1>3, <1>6 DEF Preflight, Unpack, RestartAgent, NotReadyYet, WriteResult,
                    RemoveRequest, Working, Writing
<1>7. CASE PreflightFails \/ PackageFails \/ Ready
  BY <1>4, <1>7 DEF PreflightFails, PackageFails, Ready
<1>8. CASE UnpackedFails \/ Timeout
  BY <1>4, <1>5, <1>8 DEF UnpackedFails, Timeout, Rollback
<1>9. CASE CleanUp
  BY <1>9, OffFacts DEF CleanUp
<1> QED
  BY <1>6, <1>7, <1>8, <1>9 DEF UpdaterStep

\* Every step of the updater: it answers what it was asked for.
LEMMA UpdaterStepDrained ==
    ASSUME Known, Drained, UpdaterStep
    PROVE  Drained'
<1>1. Asked' \subseteq Asked /\ answered \subseteq answered'
  <2>1. requestFile' \in {requestFile, None} /\ answered' \subseteq answered \cup {updater.update}
        /\ answered \subseteq answered'
    BY DEF UpdaterStep, Preflight, PreflightFails, Unpack, PackageFails, RestartAgent,
       UnpackedFails, NotReadyYet, Ready, Timeout, WriteResult, RemoveRequest,
       CleanUp, updaterVars, fileVars
  <2> QED
    BY <2>1, UpdaterGoesOn DEF Asked
<1>2. CASE RestartAgent /\ Up
  BY <1>1, <1>2, StopDrained DEF RestartAgent, fileVars
<1>3. CASE WriteResult
  <2>1. updater.outcome.update = updater.update
    BY <1>3 DEF WriteResult, Known, UpdaterKnown, AtResult
  <2> QED
    BY <1>1, <1>3, <2>1, DrainedKept DEF WriteResult, daemonVars
<1>4. CASE ~(RestartAgent /\ Up) /\ ~WriteResult
  <2>1. UNCHANGED <<journal, disk, agentUpdate, dispatch, reconciled, resultFile, answered>>
    BY <1>4 DEF UpdaterStep, Preflight, PreflightFails, Unpack, PackageFails,
       RestartAgent, UnpackedFails, NotReadyYet, Ready, Timeout, RemoveRequest,
       CleanUp, daemonVars, fileVars
  <2> QED
    BY <1>1, <2>1, DrainedKept DEF Drained, PassInOrder
<1> QED
  BY <1>2, <1>3, <1>4

\* An updater that starts was asked for, and one that dies is forgotten.
LEMMA UpdaterElseDrained ==
    ASSUME Known, Drained,
           UpdaterFails \/ \E u \in Updates : StartUpdater(u)
    PROVE  Drained'
<1>1. CASE UpdaterFails
  <2>1. Asked' \subseteq Asked
    BY <1>1, OffFacts DEF UpdaterFails, Asked
  <2> QED
    BY <1>1, <2>1, DrainedKept DEF UpdaterFails, Drained, PassInOrder, daemonVars
<1>2. ASSUME NEW u \in Updates, StartUpdater(u) PROVE Drained'
  <2>1. Starting(u)
    BY <1>2 DEF StartUpdater, StartKnowingVersion, VersionUnknown, ResumeInstalled,
                ResumeRollback, BeginUpdate, Resuming
  <2>2. \A code, v : Terminal(u, code, v).update = u
    BY DEF Terminal, Off
  <2>3. \A step, aim, previous : Changing(u, step, aim, previous).update = u
    BY DEF Changing, Off
  <2>4. updater'.update = u
    BY <1>2, <2>2, <2>3 DEF StartUpdater, StartKnowingVersion, VersionUnknown,
       ResumeInstalled, ResumeRollback, BeginUpdate
  <2>5. UNCHANGED <<journal, disk, agentUpdate, dispatch, reconciled, answered,
                    requestFile, resultFile>>
    BY <1>2 DEF StartUpdater, StartKnowingVersion, VersionUnknown, ResumeInstalled,
       ResumeRollback, BeginUpdate, daemonVars, fileVars
  <2>6. Asked' \subseteq Asked
    BY <2>1, <2>4, <2>5 DEF Asked, Starting
  <2> QED
    BY <2>5, <2>6, DrainedKept DEF Drained, PassInOrder
<1> QED
  BY <1>1, <1>2

\* Before the first update.
LEMMA InitDrained == Init => Drained
<1> SUFFICES ASSUME Init PROVE Drained
  OBVIOUS
<1>1. \A u \in Updates : journal[u] = NoEntry /\ disk[u] = NoEntry
  BY DEF Init
<1>2. \A u \in Updates : /\ journal[u].state = "unknown" /\ ~journal[u].acked
                         /\ disk[u].state = "unknown" /\ ~disk[u].acked
  BY <1>1 DEF NoEntry
<1>3. Asked = {}
  BY OffFacts DEF Init, Asked
<1>4. dispatch.step = "idle"
  BY DispatchFacts DEF Init
<1>5. InOrder(journal, Asked) /\ InOrder(disk, Asked)
  BY <1>2, <1>3 DEF InOrder, Open
<1>6. DrainedForIt
  BY <1>2, <1>3, VersionFacts DEF Init, DrainedForIt
<1>7. FirstRequest /\ PassInOrder
  BY <1>4 DEF Init, FirstRequest, PassInOrder
<1> QED
  BY <1>5, <1>6, <1>7 DEF Drained

\* Every step of either process keeps the drain in order.
LEMMA NextDrained == Known /\ Drained /\ [Next]_vars => Drained'
<1> SUFFICES ASSUME Known, Drained, [Next]_vars PROVE Drained'
  OBVIOUS
<1>1. CASE UNCHANGED vars
  <2>1. Asked' = Asked
    BY <1>1, AskedKept DEF vars, updaterVars, fileVars
  <2> QED
    BY <1>1, <2>1, DrainedKept DEF Drained, PassInOrder, vars, daemonVars,
                                   updaterVars, fileVars
<1> QED
  BY <1>1, DaemonStepDrained, UpdaterStepDrained, UpdaterElseDrained DEF Next

\* The second inductive invariant; it rests on the first.
LEMMA AlwaysDrained == Spec => []Drained
BY InitDrained, NextDrained, AlwaysKnown, PTL DEF Spec

\* Only the updater changes the package, in the step in which it unpacks it.
LEMMA OnlyUnpackChanges ==
    ASSUME [Next]_vars, installed' # installed
    PROVE  Unpack
<1>1. DaemonStep => UNCHANGED installed
  BY DEF DaemonStep, DispatchStep, ReceiveUpdate, ReportAndRemove,
     FlushJournal, FlushRuntime, PassBegins, ConsumeResult, ConsumedBefore,
     RemoveResult, Reconcile, DiscardExpired, Acknowledge, StartAgentUpdate,
     WriteRequest, WriteRequestFails, PassEnds, Crash, StartDaemon, updaterVars
<1>2. ASSUME NEW u \in Updates, StartUpdater(u) PROVE UNCHANGED installed
  BY <1>2 DEF StartUpdater, StartKnowingVersion, VersionUnknown, ResumeInstalled,
              ResumeRollback, BeginUpdate
<1>3. UpdaterStep \/ UpdaterFails => Unpack \/ UNCHANGED installed
  BY DEF UpdaterStep, Preflight, PreflightFails, PackageFails, RestartAgent,
     UnpackedFails, NotReadyYet, Ready, Timeout, WriteResult, RemoveRequest,
     CleanUp, UpdaterFails
<1> QED
  BY <1>1, <1>2, <1>3 DEF Next, vars, updaterVars

\* Until the result of an update is written, the package changes only while the
\* agent is drained for it, over crashes of both processes and failed saves.
THEOREM PackageChangesWhileDrained == Spec => ChangesWhileDrained
<1>1. Known /\ Drained /\ [Next]_vars =>
        [installed' # installed /\ updater.update \notin answered =>
            agentUpdate = updater.update]_vars
  <2> SUFFICES ASSUME Known, Drained, [Next]_vars, installed' # installed,
                      updater.update \notin answered
               PROVE  agentUpdate = updater.update
    OBVIOUS
  <2>1. Unpack
    BY OnlyUnpackChanges
  <2>2. updater.step = "package" /\ updater.update \in Updates
    BY <2>1, UpdaterGoesOn DEF Unpack, UpdaterStep
  <2>3. updater.update \in Asked
    BY <2>2 DEF Asked
  <2> QED
    BY <2>2, <2>3 DEF Drained, DrainedForIt
<1> QED
  BY <1>1, AlwaysKnown, AlwaysDrained, PTL DEF Spec, ChangesWhileDrained

-----------------------------------------------------------------------------
(* RunControl *)

\* The changes of the journal are changes that RunControl makes.
LEMMA RunEntriesAfter ==
    ASSUME journal \in Journals, NEW u \in Updates
    PROVE  LET R == RunEntries(journal)
           IN  /\ journal[u].state = "unknown" /\ ~journal[u].acked =>
                     RunEntries(With(u, "received")) =
                        [R EXCEPT ![u] = [Runs!NoEntry EXCEPT !.state = "received"]]
               /\ journal[u].state = "received" =>
                     RunEntries(With(u, "running")) = [R EXCEPT ![u].state = "running"]
               /\ journal[u].state = "running" =>
                     RunEntries(With(u, "received")) = [R EXCEPT ![u].state = "received"]
               /\ RunEntries(With(u, "finished")) =
                     [R EXCEPT ![u].state = "finished", ![u].outcome = "executed"]
               /\ RunEntries(Without(u)) = [R EXCEPT ![u] = Runs!Removed]
               /\ RunEntries([journal EXCEPT ![u].acked = TRUE]) =
                     [R EXCEPT ![u].acked = TRUE]
<1> USE DEF Journals, Entry, NoEntry, RunEntries, Runs!NoEntry, Runs!Removed, With, Without
<1> DEFINE R == RunEntries(journal)
<1>1. journal[u].state = "unknown" /\ ~journal[u].acked =>
         RunEntries(With(u, "received")) =
            [R EXCEPT ![u] = [Runs!NoEntry EXCEPT !.state = "received"]]
  OBVIOUS
<1>2. journal[u].state = "received" =>
         RunEntries(With(u, "running")) = [R EXCEPT ![u].state = "running"]
  OBVIOUS
<1>3. journal[u].state = "running" =>
         RunEntries(With(u, "received")) = [R EXCEPT ![u].state = "received"]
  OBVIOUS
<1>4. RunEntries(With(u, "finished")) =
         [R EXCEPT ![u].state = "finished", ![u].outcome = "executed"]
  BY ZenonT(60)
<1>5. RunEntries(Without(u)) = [R EXCEPT ![u] = Runs!Removed]
  OBVIOUS
<1>6. RunEntries([journal EXCEPT ![u].acked = TRUE]) = [R EXCEPT ![u].acked = TRUE]
  OBVIOUS
<1> QED
  BY <1>1, <1>2, <1>3, <1>4, <1>5, <1>6

\* receiveCommand.
LEMMA ReceiveImplements ==
    ASSUME Known, Drained, NEW u \in Updates, ReceiveUpdate(u)
    PROVE  Runs!ReceiveCommand(u)
<1>1. journal \in Journals
  BY DEF Known, DaemonKnown
<1>2. journal[u].state = "unknown" /\ ~journal[u].acked
  BY DEF ReceiveUpdate, Drained, InOrder
<1>3. RunEntries(With(u, "received")) =
         [RunEntries(journal) EXCEPT ![u] = [Runs!NoEntry EXCEPT !.state = "received"]]
  BY <1>1, <1>2, RunEntriesAfter
<1>4. RunEntries(journal)[u].state = "unknown"
  BY <1>2 DEF RunEntries
<1>5. UNCHANGED <<dispatch, reconciled, stops>>
  BY DEF ReceiveUpdate
<1> QED
  BY <1>3, <1>4, <1>5 DEF ReceiveUpdate, SaveJournal, SaveJournalFails,
     Runs!ReceiveCommand, Runs!SaveJournal, Runs!SaveJournalFails, Runs!jobVars,
     Runs!loopVars, ReconcilePhase

\* Where the reconciliation is at each step of a pass.
LEMMA PhaseFacts ==
    /\ reconciled => ReconcilePhase = "done"
    /\ ~reconciled /\ dispatch.step = "reconcile" => ReconcilePhase = "working"
    /\ ~reconciled /\ dispatch.step # "reconcile" => ReconcilePhase = "due"
BY DEF ReconcilePhase

\* RunControl sees nothing of a step that leaves the journal, the drain and the
\* phase of the reconciliation alone.
LEMMA Unseen ==
    ASSUME UNCHANGED <<journal, disk, agentUpdate, stops, saveFailures>>,
           ReconcilePhase' = ReconcilePhase
    PROVE  UNCHANGED Runs!vars
BY DEF Runs!vars

\* The report loop removes what it has reported.
LEMMA ReportImplements ==
    ASSUME Known, Drained, NEW u \in Updates, ReportAndRemove(u)
    PROVE  Runs!ReportAndRemove(u)
<1>1. RunEntries(Without(u)) = [RunEntries(journal) EXCEPT ![u] = Runs!Removed]
  BY RunEntriesAfter DEF Known, DaemonKnown
<1>2. journal[u].state = "finished" /\ journal[u].acked
  BY DEF ReportAndRemove, Drained, InOrder
<1>3. /\ RunEntries(journal)[u].state = "finished"
      /\ RunEntries(journal)[u].acked
      /\ RunEntries(journal)[u].pending = {}
  BY <1>2 DEF RunEntries
<1>4. UNCHANGED <<dispatch, reconciled, stops, agentUpdate>>
  BY DEF ReportAndRemove
<1> QED
  BY <1>1, <1>3, <1>4 DEF ReportAndRemove, TrySaveJournal, SaveJournal,
     SaveJournalFails, Runs!ReportAndRemove, Runs!TrySaveJournal, Runs!SaveJournal,
     Runs!SaveJournalFails, Runs!jobVars, Runs!loopVars, ReconcilePhase

\* flushJournal.
LEMMA FlushImplements ==
    ASSUME FlushJournal
    PROVE  Runs!FlushJournal
BY DEF FlushJournal, SaveJournal, Runs!FlushJournal, Runs!SaveJournal, Runs!jobVars,
       Runs!loopVars, ReconcilePhase

\* consumeAgentUpdateResult.
LEMMA ConsumeImplements ==
    ASSUME Known, Drained, NEW u \in Updates, ConsumeResult(u)
    PROVE  Runs!ConsumeUpdateResult(u)
<1>1. RunEntries(With(u, "finished")) =
         [RunEntries(journal) EXCEPT ![u].state = "finished", ![u].outcome = "executed"]
  BY RunEntriesAfter DEF Known, DaemonKnown
<1>2. u \in Asked
  BY DEF ConsumeResult, Drained, PassInOrder, Asked
<1>3. journal[u].state = "running"
  BY <1>2 DEF ConsumeResult, Drained, DrainedForIt, InOrder, Begun
<1>4. RunEntries(journal)[u].state = "running"
  BY <1>3 DEF RunEntries
<1>5. dispatch.step = "idle" /\ dispatch'.step \in {"idle", "remove"}
  BY DispatchFacts DEF ConsumeResult
<1>6. ReconcilePhase # "working" /\ ReconcilePhase' = ReconcilePhase
  BY <1>5 DEF ConsumeResult, ReconcilePhase
<1>7. /\ agentUpdate = u /\ agentUpdate' = None /\ UNCHANGED stops
      /\ TrySaveJournal(With(u, "finished"))
  BY DEF ConsumeResult, TrySaveJournal
<1> QED
  BY <1>1, <1>4, <1>6, <1>7 DEF TrySaveJournal, SaveJournal, SaveJournalFails,
     Runs!ConsumeUpdateResult, Runs!TrySaveJournal, Runs!SaveJournal,
     Runs!SaveJournalFails, Runs!jobVars, Runs!loopVars

\* A pass that advances commands has reconciled.
LEMMA AdvanceFacts ==
    ASSUME Drained, dispatch.step \in {"advance", "request"}, UNCHANGED reconciled
    PROVE  ReconcilePhase = "done" /\ ReconcilePhase' = "done"
BY DEF Drained, PassInOrder, ReconcilePhase

\* discardExpiredUnacknowledgedCommand.
LEMMA DiscardImplements ==
    ASSUME Known, Drained, NEW u \in Updates, DiscardExpired(u)
    PROVE  Runs!DiscardExpired(u)
<1>1. RunEntries(Without(u)) = [RunEntries(journal) EXCEPT ![u] = Runs!Removed]
  BY RunEntriesAfter DEF Known, DaemonKnown
<1>2. ReconcilePhase = "done" /\ ReconcilePhase' = "done"
  BY AdvanceFacts DEF DiscardExpired
<1>3. /\ RunEntries(journal)[u].state \notin {"unknown", "removed"}
      /\ ~RunEntries(journal)[u].acked
  BY DEF DiscardExpired, RunEntries
<1> QED
  BY <1>1, <1>2, <1>3 DEF DiscardExpired, SaveJournal, SaveJournalFails,
     Runs!DiscardExpired, Runs!DispatchIdle, Runs!Known, Runs!SaveJournal,
     Runs!SaveJournalFails, Runs!jobVars, Runs!loopVars

\* advanceCommand acknowledges.
LEMMA AcknowledgeImplements ==
    ASSUME Known, Drained, NEW u \in Updates, Acknowledge(u)
    PROVE  Runs!Acknowledge(u)
<1>1. RunEntries([journal EXCEPT ![u].acked = TRUE]) =
         [RunEntries(journal) EXCEPT ![u].acked = TRUE]
  BY RunEntriesAfter DEF Known, DaemonKnown
<1>2. ReconcilePhase = "done" /\ ReconcilePhase' = "done"
  BY AdvanceFacts DEF Acknowledge
<1>3. /\ RunEntries(journal)[u].state \notin {"unknown", "removed"}
      /\ ~RunEntries(journal)[u].acked
  BY DEF Acknowledge, RunEntries
<1> QED
  BY <1>1, <1>2, <1>3 DEF Acknowledge, TrySaveJournal, SaveJournal, SaveJournalFails,
     Runs!Acknowledge, Runs!DispatchIdle, Runs!Known, Runs!TrySaveJournal,
     Runs!SaveJournal, Runs!SaveJournalFails, Runs!jobVars, Runs!loopVars

\* startAgentUpdate, up to the request.
LEMMA StartImplements ==
    ASSUME Known, Drained, NEW u \in Updates, StartAgentUpdate(u)
    PROVE  Runs!StartAgentUpdate(u)
<1>1. RunEntries(With(u, "running")) = [RunEntries(journal) EXCEPT ![u].state = "running"]
  BY RunEntriesAfter DEF Known, DaemonKnown, StartAgentUpdate
<1>2. ReconcilePhase = "done" /\ ReconcilePhase' = "done"
  BY AdvanceFacts DEF StartAgentUpdate
<1>3. RunEntries(journal)[u].state = "received" /\ RunEntries(journal)[u].acked
  BY DEF StartAgentUpdate, RunEntries
<1> QED
  BY <1>1, <1>2, <1>3 DEF StartAgentUpdate, SaveJournal, SaveJournalFails,
     Runs!StartAgentUpdate, Runs!DispatchIdle, Runs!SaveJournal,
     Runs!SaveJournalFails, Runs!jobVars, Runs!loopVars

\* startAgentUpdate, when the request cannot be written.
LEMMA RequestFailsImplements ==
    ASSUME Known, Drained, WriteRequestFails
    PROVE  \E u \in Updates : Runs!UpdateRequestFails(u)
<1> DEFINE u == dispatch.update
<1>1. u \in Updates /\ journal[u].state = "running"
  BY DEF WriteRequestFails, Known, DaemonKnown, Dispatches, Drained, FirstRequest
<1>2. TrySaveJournal(With(u, "received"))
  BY DEF WriteRequestFails
<1>3. ReconcilePhase = "done" /\ ReconcilePhase' = "done"
  BY AdvanceFacts DEF WriteRequestFails
<1> HIDE DEF u
<1>4. RunEntries(With(u, "received")) = [RunEntries(journal) EXCEPT ![u].state = "received"]
  BY <1>1, RunEntriesAfter DEF Known, DaemonKnown
<1>5. RunEntries(journal)[u].state = "running"
  BY <1>1 DEF RunEntries
<1>6. Runs!UpdateRequestFails(u)
  BY <1>1, <1>2, <1>3, <1>4, <1>5 DEF WriteRequestFails, TrySaveJournal, SaveJournal,
     SaveJournalFails, Runs!UpdateRequestFails, Runs!DispatchIdle,
     Runs!TrySaveJournal, Runs!SaveJournal, Runs!SaveJournalFails, Runs!jobVars,
     Runs!loopVars
<1> QED
  BY <1>1, <1>6

\* The process dies, or the package's script restarts it.
LEMMA StopImplements ==
    ASSUME Known, StopDaemon, stops < MaxStops
    PROVE  Runs!CrashAndRestart
<1>1. Runs!UnfinishedUpdates = Unfinished
  BY DEF Runs!UnfinishedUpdates, Unfinished, RunEntries
<1>2. agentUpdate' \in IF Unfinished = {} THEN {None} ELSE Unfinished
  BY DEF StopDaemon, Restored
<1>3. ReconcilePhase' = "due"
  BY DispatchFacts DEF StopDaemon, ReconcilePhase
<1> QED
  BY <1>1, <1>2, <1>3 DEF StopDaemon, Runs!CrashAndRestart, Runs!ReconcileDue, Runs!Idle

\* A pass that comes to the reconciliation for the first time.
LEMMA CollectImplements ==
    ASSUME ReconcilePhase = "due", ReconcilePhase' = "working",
           UNCHANGED <<journal, disk, agentUpdate, stops, saveFailures>>
    PROVE  Runs!CollectInterrupted
BY DEF Runs!CollectInterrupted, Runs!jobVars

\* The reconciliation ends: of updates it has nothing to do.
LEMMA FinishImplements ==
    ASSUME ReconcilePhase = "working", ReconcilePhase' = "done",
           UNCHANGED <<journal, disk, agentUpdate, stops, saveFailures>>
    PROVE  Runs!FinishReconcile
<1>1. {"replicate"} \X {} = {}
  OBVIOUS
<1> QED
  BY <1>1 DEF Runs!FinishReconcile, Runs!ReconcileDue, Runs!jobVars

\* What a step of this module is to RunControl.
Mapped == Runs!Next \/ UNCHANGED Runs!vars

\* The steps of a dispatch pass that change no entry.
LEMMA PassImplements ==
    ASSUME Known, Drained,
           PassBegins \/ ConsumedBefore \/ RemoveResult \/ Reconcile \/ PassEnds
    PROVE  Mapped
<1>1. UNCHANGED <<journal, disk, agentUpdate, stops, saveFailures>>
  BY DEF PassBegins, ConsumedBefore, RemoveResult, Reconcile, PassEnds
<1>2. CASE Reconcile
  <2>1. ReconcilePhase \in {"working", "done"} /\ ReconcilePhase' = "done"
    BY <1>2 DEF Reconcile, ReconcilePhase
  <2> QED
    BY <1>1, <2>1, FinishImplements, Unseen DEF Mapped, Runs!Next
<1>3. CASE ~Reconcile
  <2>1. /\ dispatch.step # "reconcile" /\ UNCHANGED reconciled
        /\ dispatch'.step \in {"idle", "remove", "reconcile"}
    BY <1>3, DispatchFacts DEF PassBegins, ConsumedBefore, RemoveResult, PassEnds
  <2>2. \/ ReconcilePhase' = ReconcilePhase
        \/ ReconcilePhase = "due" /\ ReconcilePhase' = "working"
    BY <2>1 DEF ReconcilePhase
  <2> QED
    BY <1>1, <2>2, CollectImplements, Unseen DEF Mapped, Runs!Next
<1> QED
  BY <1>2, <1>3

\* Every step of the daemon, as long as RunControl's bound on restarts allows.
LEMMA DaemonStepImplements ==
    ASSUME Known, Drained, DaemonStep, stops' <= MaxStops
    PROVE  Mapped
<1>1. CASE \E u \in Updates : \/ ReceiveUpdate(u) \/ ReportAndRemove(u)
                              \/ ConsumeResult(u) \/ DiscardExpired(u)
                              \/ Acknowledge(u) \/ StartAgentUpdate(u)
  <2>1. PICK u \in Updates : \/ ReceiveUpdate(u) \/ ReportAndRemove(u)
                             \/ ConsumeResult(u) \/ DiscardExpired(u)
                             \/ Acknowledge(u) \/ StartAgentUpdate(u)
    BY <1>1
  <2>2. Runs!CommandStep(u)
    BY <2>1, ReceiveImplements, ReportImplements, ConsumeImplements,
       DiscardImplements, AcknowledgeImplements, StartImplements
    DEF Runs!CommandStep
  <2> QED
    BY <2>2 DEF Mapped, Runs!Next
<1>2. CASE WriteRequestFails
  BY <1>2, RequestFailsImplements DEF Mapped, Runs!Next, Runs!CommandStep
<1>3. CASE FlushJournal
  BY <1>3, FlushImplements DEF Mapped, Runs!Next
<1>4. CASE Crash
  <2>1. StopDaemon
    BY <1>4 DEF Crash
  <2>2. stops < MaxStops
    BY <2>1, UpdateBounds DEF StopDaemon, Known, DaemonKnown
  <2> QED
    BY <2>1, <2>2, StopImplements DEF Mapped, Runs!Next
<1>5. CASE FlushRuntime \/ StartDaemon
  <2>1. UNCHANGED <<journal, disk, agentUpdate, stops, saveFailures, dispatch, reconciled>>
    BY <1>5 DEF FlushRuntime, StartDaemon
  <2> QED
    BY <2>1, Unseen DEF Mapped, ReconcilePhase
<1>6. CASE WriteRequest
  <2>1. UNCHANGED <<journal, disk, agentUpdate, stops, saveFailures, reconciled>>
    BY <1>6 DEF WriteRequest
  <2>2. ReconcilePhase' = ReconcilePhase
    BY <1>6, <2>1, AdvanceFacts DEF WriteRequest
  <2> QED
    BY <2>1, <2>2, Unseen DEF Mapped
<1> QED
  BY <1>1, <1>2, <1>3, <1>4, <1>5, <1>6, PassImplements DEF DaemonStep, DispatchStep

\* Of the updater RunControl sees only that it restarts the agent.
LEMMA UpdaterImplements ==
    ASSUME Known, stops' <= MaxStops,
           \/ UpdaterStep \/ UpdaterFails
           \/ \E u \in Updates : StartUpdater(u)
    PROVE  Mapped
<1>1. CASE RestartAgent /\ Up
  <2>1. StopDaemon
    BY <1>1 DEF RestartAgent
  <2>2. stops < MaxStops
    BY <2>1, UpdateBounds DEF StopDaemon, Known, DaemonKnown
  <2> QED
    BY <2>1, <2>2, StopImplements DEF Mapped, Runs!Next
<1>2. CASE ~(RestartAgent /\ Up)
  <2>1. UNCHANGED <<journal, disk, agentUpdate, stops, saveFailures, dispatch, reconciled>>
    <3>1. ASSUME UpdaterStep \/ UpdaterFails
          PROVE  UNCHANGED <<journal, disk, agentUpdate, stops, saveFailures,
                             dispatch, reconciled>>
      BY <1>2, <3>1 DEF UpdaterStep, Preflight, PreflightFails, Unpack, PackageFails,
         RestartAgent, UnpackedFails, NotReadyYet, Ready, Timeout, WriteResult,
         RemoveRequest, CleanUp, UpdaterFails, daemonVars
    <3>2. ASSUME NEW u \in Updates, StartUpdater(u)
          PROVE  UNCHANGED <<journal, disk, agentUpdate, stops, saveFailures,
                             dispatch, reconciled>>
      BY <3>2 DEF StartUpdater, StartKnowingVersion, VersionUnknown,
         ResumeInstalled, ResumeRollback, BeginUpdate, daemonVars
    <3> QED
      BY <3>1, <3>2
  <2> QED
    BY <2>1, Unseen DEF Mapped, ReconcilePhase
<1> QED
  BY <1>1, <1>2

\* A daemon that has just been enrolled.
LEMMA InitImplements == Init => Runs!Init
<1> SUFFICES ASSUME Init PROVE Runs!Init
  OBVIOUS
<1>1. RunEntries(journal) = [u \in Updates |-> Runs!NoEntry]
  BY DEF Init, RunEntries, NoEntry, Runs!NoEntry
<1>2. RunEntries(disk) = [u \in Updates |-> Runs!NoEntry]
  BY DEF Init, RunEntries, NoEntry, Runs!NoEntry
<1>3. ReconcilePhase = "due"
  BY DispatchFacts DEF Init, ReconcilePhase
<1> QED
  BY <1>1, <1>2, <1>3 DEF Init, Runs!Init, Runs!Idle, Runs!ReconcileDue

\* Every step of the daemon, the updater and their crashes is a step of RunControl
\* or changes nothing it knows of, in every behaviour in which the daemon goes down
\* no more often than the bound that RunControl puts on its restarts.
THEOREM UpdateImplementsRunControl ==
    Spec /\ [](stops <= MaxStops) => ImplementsRunControl
<1>1. Known /\ Drained /\ (stops <= MaxStops)' /\ [Next]_vars =>
         [Runs!Next]_Runs!vars
  <2> SUFFICES ASSUME Known, Drained, stops' <= MaxStops, [Next]_vars
               PROVE  Mapped
    BY DEF Mapped
  <2>1. CASE UNCHANGED vars
    <3>1. UNCHANGED <<journal, disk, agentUpdate, stops, saveFailures, dispatch,
                      reconciled>>
      BY <2>1 DEF vars, daemonVars
    <3> QED
      BY <3>1, Unseen DEF Mapped, ReconcilePhase
  <2> QED
    BY <2>1, DaemonStepImplements, UpdaterImplements DEF Next
<1> QED
  BY <1>1, InitImplements, AlwaysKnown, AlwaysDrained, PTL
  DEF Spec, ImplementsRunControl, Runs!Spec

=============================================================================
