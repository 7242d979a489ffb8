--------------------------- MODULE RunControlProofs ---------------------------
(***************************************************************************)
(* Proofs about RunControl, for every set of commands, jobs and            *)
(* repositories and for every bound.                                       *)
(***************************************************************************)
EXTENDS RunControl, TLAPS

Journals == [Commands -> Entry]

JournalTypes ==
    /\ journal \in Journals
    /\ disk \in Journals
    /\ saveFailures \in Nat

-----------------------------------------------------------------------------
(* Facts about journals *)

\* The constant names are members of the sets they are drawn from.
LEMMA Names ==
    /\ {"unknown", "received", "running", "finished", "removed"} \subseteq States
    /\ {"none", "executed", "interrupted", "not_executed"} \subseteq Outcomes
    /\ "nothing" \in Waits
BY DEF States, Outcomes, Waits

\* The entries the actions build are entries.
LEMMA EntryTypes ==
    /\ NoEntry \in Entry
    /\ Removed \in Entry
    /\ [NoEntry EXCEPT !.state = "received"] \in Entry
    /\ \A how \in Hows : ScheduledEntry(how) \in Entry
BY DEF NoEntry, Removed, Entry, States, Outcomes, Waits, ScheduledEntry

\* Changing a field of an entry leaves an entry.
LEMMA EntryUpdates ==
    ASSUME NEW e \in Entry
    PROVE  /\ \A s \in States : [e EXCEPT !.state = s] \in Entry
           /\ \A s \in States, o \in Outcomes :
                 [e EXCEPT !.state = s, !.outcome = o] \in Entry
           /\ [e EXCEPT !.acked = TRUE] \in Entry
           /\ \A w \in Waits : [e EXCEPT !.waits = w] \in Entry
           /\ \A p \in SUBSET Repositories : [e EXCEPT !.pending = p] \in Entry
BY DEF Entry

\* Changing one entry of a journal leaves a journal.
LEMMA JournalUpdates ==
    ASSUME NEW J \in Journals, NEW c \in Commands
    PROVE  /\ \A e \in Entry : [J EXCEPT ![c] = e] \in Journals
           /\ \A s \in States : [J EXCEPT ![c].state = s] \in Journals
           /\ \A s \in States, o \in Outcomes :
                 [J EXCEPT ![c].state = s, ![c].outcome = o] \in Journals
           /\ [J EXCEPT ![c].acked = TRUE] \in Journals
           /\ \A w \in Waits : [J EXCEPT ![c].waits = w] \in Journals
BY EntryUpdates DEF Journals

\* Whether a transaction succeeds or fails, memory ends at next and the disk at
\* next or where it was.
LEMMA SaveTypes ==
    ASSUME TypeOK, NEW next \in Journals, TrySaveJournal(next)
    PROVE  JournalTypes'
BY DEF TypeOK, TrySaveJournal, SaveJournal, SaveJournalFails, Journals, JournalTypes

-----------------------------------------------------------------------------
(* Type correctness *)

\* What runs hold are repositories.
LEMMA RunTypes ==
    ASSUME NEW c \in Commands
    PROVE  RunRepositories(c) \in SUBSET Repositories
BY CommandAssumption, JobAssumption DEF RunRepositories

\* The records the replication goroutine is given.
LEMMA CopyTypes ==
    /\ Idle \in Copies
    /\ [Idle EXCEPT !.phase = "select"] \in Copies
    /\ [Idle EXCEPT !.phase = "ending"] \in Copies
    /\ \A k \in Copies, p \in Phases : [k EXCEPT !.phase = p] \in Copies
    /\ \A r \in Repositories, b \in SUBSET Commands :
          [phase |-> "acquire", target |-> r, batch |-> b] \in Copies
    /\ \A k \in Copies : k.target \in Repositories \cup {None} /\ k.batch \in SUBSET Commands
    /\ {"copy", "verify", "select", "ending"} \subseteq Phases
BY DEF Idle, Copies, Phases

\* The records reconcileInterrupted goes through.
LEMMA ReconcileTypes ==
    /\ ReconcileDue \in Reconciles
    /\ [ReconcileDue EXCEPT !.phase = "done"] \in Reconciles
    /\ \A k \in Reconciles, s \in SUBSET Commands : [k EXCEPT !.ids = s] \in Reconciles
    /\ \A k \in Reconciles : k.ids \in SUBSET Commands /\ k.jobs \in SUBSET Jobs
    /\ \A s \in SUBSET Commands, q \in SUBSET Jobs :
          [phase |-> "working", ids |-> s, jobs |-> q] \in Reconciles
BY DEF ReconcileDue, Reconciles

\* finishOperation leaves an entry, whatever the result of the run.
LEMMA FinishedTypes ==
    ASSUME TypeOK, NEW c \in Commands, NEW result
    PROVE  FinishedEntry(c, result) \in Entry
<1>1. journal[c] \in Entry /\ Replicas[JobOf[c]] \in SUBSET Repositories
  BY CommandAssumption, JobAssumption DEF TypeOK
<1>2. QED
  BY <1>1, Names DEF FinishedEntry, Entry

\* finishReplicationBatch leaves a journal.
LEMMA CopiedTypes ==
    ASSUME journal \in [Commands -> Entry], NEW batch, NEW r
    PROVE  [d \in Commands |->
              IF d \in batch THEN [journal[d] EXCEPT !.pending = @ \ {r}]
                             ELSE journal[d]] \in Journals
<1>1. \A d \in Commands : /\ journal[d] \in Entry
                          /\ journal[d].pending \in SUBSET Repositories
  BY DEF Entry
<1>2. QED
  BY <1>1, EntryUpdates DEF Journals

\* Every step keeps the types.
LEMMA NextTypes ==
    ASSUME TypeOK, [Next]_vars
    PROVE  TypeOK'
<1>1. ASSUME NEW c \in Commands, ReceiveCommand(c) PROVE TypeOK'
  <2>1. \A J \in Journals : [J EXCEPT ![c] = [NoEntry EXCEPT !.state = "received"]] \in Journals
    BY JournalUpdates, EntryTypes
  <2>2. JournalTypes'
    BY <1>1, <2>1
    DEF TypeOK, ReceiveCommand, SaveJournal, SaveJournalFails, Journals,
        JournalTypes
  <2> QED
    BY <1>1, <2>2
    DEF TypeOK, CopyTargets, ReceiveCommand, Journals, JournalTypes, jobVars,
        loopVars
<1>2. ASSUME NEW c \in Commands, NEW how \in Hows, ScheduleOccurrence(c, how)
      PROVE TypeOK'
  <2>1. [journal EXCEPT ![c] = ScheduledEntry(how)] \in Journals
    BY JournalUpdates, EntryTypes DEF TypeOK, Journals
  <2>2. JournalTypes'
    BY <1>2, <2>1
    DEF TypeOK, ScheduleOccurrence, SaveJournal, SaveJournalFails, Journals,
        JournalTypes
  <2> QED
    BY <1>2, <2>2
    DEF TypeOK, CopyTargets, ScheduleOccurrence, Journals, JournalTypes,
        jobVars, loopVars
<1>3. ASSUME NEW c \in Commands, DiscardExpired(c) PROVE TypeOK'
  <2>1. [journal EXCEPT ![c] = Removed] \in Journals
    BY JournalUpdates, EntryTypes DEF TypeOK, Journals
  <2>2. JournalTypes'
    BY <1>3, <2>1
    DEF TypeOK, DiscardExpired, SaveJournal, SaveJournalFails, Journals,
        JournalTypes
  <2> QED
    BY <1>3, <2>2
    DEF TypeOK, CopyTargets, DiscardExpired, Journals, JournalTypes, jobVars,
        loopVars
<1>4. ASSUME NEW c \in Commands, Acknowledge(c) PROVE TypeOK'
  <2> DEFINE next == [journal EXCEPT ![c].acked = TRUE]
  <2>1. next \in Journals
    BY JournalUpdates DEF TypeOK, Journals
  <2>2. TrySaveJournal(next)
    BY <1>4 DEF Acknowledge
  <2> HIDE DEF next
  <2>3. JournalTypes'
    BY <2>1, <2>2, SaveTypes
  <2> QED
    BY <1>4, <2>3
    DEF TypeOK, CopyTargets, Acknowledge, Journals, JournalTypes, jobVars,
        loopVars
<1>5. ASSUME NEW c \in Commands, SkipDispatched(c) PROVE TypeOK'
  <2> DEFINE next == FinishedWithoutExecution(c)
  <2>1. next \in Journals
    BY JournalUpdates, Names DEF TypeOK, Journals, FinishedWithoutExecution
  <2>2. TrySaveJournal(next)
    BY <1>5 DEF SkipDispatched
  <2> HIDE DEF next
  <2>3. JournalTypes'
    BY <2>1, <2>2, SaveTypes
  <2> QED
    BY <1>5, <2>3
    DEF TypeOK, CopyTargets, SkipDispatched, Journals, JournalTypes, jobVars,
        loopVars
<1>6. ASSUME NEW c \in Commands, InspectSource(c) PROVE TypeOK'
  <2> DEFINE next == [journal EXCEPT ![c].state = "finished", ![c].outcome = "executed"]
  <2>1. next \in Journals
    BY JournalUpdates, Names DEF TypeOK, Journals
  <2>2. TrySaveJournal(next)
    BY <1>6 DEF InspectSource
  <2> HIDE DEF next
  <2>3. JournalTypes'
    BY <2>1, <2>2, SaveTypes
  <2> QED
    BY <1>6, <2>3
    DEF TypeOK, CopyTargets, InspectSource, Journals, JournalTypes, jobVars,
        loopVars
<1>7. ASSUME NEW c \in Commands, CancelRun(c) PROVE TypeOK'
  <2> DEFINE next == FinishedWithoutExecution(c)
  <2>1. next \in Journals
    BY JournalUpdates, Names DEF TypeOK, Journals, FinishedWithoutExecution
  <2>2. TrySaveJournal(next)
    BY <1>7 DEF CancelRun
  <2> HIDE DEF next
  <2>3. JournalTypes'
    BY <2>1, <2>2, SaveTypes
  <2> QED
    BY <1>7, <2>3
    DEF TypeOK, CopyTargets, CancelRun, Journals, JournalTypes, jobVars,
        loopVars
<1>8. ASSUME NEW c \in Commands, DispatchedStart(c) PROVE TypeOK'
  <2>1. [journal EXCEPT ![c].state = "running"] \in Journals
    BY JournalUpdates, Names DEF TypeOK, Journals
  <2>2. JournalTypes'
    BY <1>8, <2>1
    DEF TypeOK, DispatchedStart, StartOperation, StartRun, StartFails,
        StartRefused, SaveJournal, SaveJournalFails, Journals, JournalTypes
  <2> QED
    BY <1>8, <2>2, RunTypes
    DEF TypeOK, CopyTargets, DispatchedStart, StartOperation, StartRun,
        StartFails, StartRefused, Journals, JournalTypes, jobVars, loopVars
<1>9. ASSUME NEW c \in Commands, HandedStart(c) PROVE TypeOK'
  <2>1. [journal EXCEPT ![c].state = "running"] \in Journals
    BY JournalUpdates, Names DEF TypeOK, Journals
  <2>2. JournalTypes'
    BY <1>9, <2>1
    DEF TypeOK, HandedStart, StartOperation, StartRun, StartFails, StartRefused,
        SaveJournal, SaveJournalFails, Journals, JournalTypes
  <2> QED
    BY <1>9, <2>2, RunTypes
    DEF TypeOK, CopyTargets, HandedStart, StartOperation, StartRun, StartFails,
        StartRefused, Journals, JournalTypes, jobVars, loopVars
<1>10. ASSUME NEW c \in Commands, NEW result \in Results, FinishOperation(c, result)
       PROVE TypeOK'
  <2>1. FinishedEntry(c, result) \in Entry
    BY FinishedTypes
  <2> DEFINE next == [journal EXCEPT ![c] = FinishedEntry(c, result)]
  <2>2. next \in Journals
    BY <2>1, JournalUpdates DEF TypeOK, Journals
  <2>3. TrySaveJournal(next) \/ UNCHANGED <<journal, disk, saveFailures>>
    BY <1>10 DEF FinishOperation
  <2> HIDE DEF next
  <2>4. JournalTypes'
    BY <2>2, <2>3, SaveTypes DEF TypeOK, Journals, JournalTypes
  <2>5. FinishTails(c, result) \in SUBSET (TailCalls \X Jobs)
    BY CommandAssumption DEF FinishTails
  <2>6. tails' \in SUBSET (TailCalls \X Jobs)
    BY <1>10, <2>5 DEF TypeOK, FinishOperation
  <2> QED
    BY <1>10, <2>4, <2>6
    DEF TypeOK, CopyTargets, FinishOperation, Journals, JournalTypes
<1>11. ASSUME NEW c \in Commands, ReleaseDeferred(c) PROVE TypeOK'
  <2> DEFINE next == [journal EXCEPT ![c].waits = "nothing"]
  <2>1. next \in Journals
    BY JournalUpdates, Names DEF TypeOK, Journals
  <2>2. TrySaveJournal(next) \/ TrySaveJournal(journal)
    BY <1>11 DEF ReleaseDeferred, TrySaveJournal
  <2> HIDE DEF next
  <2>3. JournalTypes'
    BY <2>1, <2>2, SaveTypes DEF TypeOK, Journals, JournalTypes
  <2>4. handed' \in SUBSET Commands /\ tails' \in SUBSET (TailCalls \X Jobs)
    BY <1>11 DEF TypeOK, ReleaseDeferred
  <2> QED
    BY <1>11, <2>3, <2>4
    DEF TypeOK, CopyTargets, ReleaseDeferred, Journals, JournalTypes, jobVars
<1>12. ASSUME NEW c \in Commands, StartCatchUp(c) PROVE TypeOK'
  BY <1>12
  DEF TypeOK, CopyTargets, StartCatchUp, jobVars, loopVars
<1>13. ASSUME NEW c \in Commands, StartReplicaSync(c) PROVE TypeOK'
  <2>1. [journal EXCEPT ![c].state = "running"] \in Journals
    BY JournalUpdates, Names DEF TypeOK, Journals
  <2>2. JournalTypes'
    BY <1>13, <2>1
    DEF TypeOK, StartReplicaSync, SaveJournal, SaveJournalFails, Journals,
        JournalTypes
  <2> QED
    BY <1>13, <2>2, RunTypes, CommandAssumption
    DEF TypeOK, CopyTargets, StartReplicaSync, Journals, JournalTypes, jobVars,
        loopVars
<1>14. ASSUME NEW c \in Commands, FinishReplicaSync(c) PROVE TypeOK'
  <2> DEFINE next == [journal EXCEPT ![c].state = "finished",
                                    ![c].outcome = "executed"]
  <2>1. next \in Journals
    BY JournalUpdates, Names DEF TypeOK, Journals
  <2>2. TrySaveJournal(next) \/ UNCHANGED <<journal, disk, saveFailures>>
    BY <1>14 DEF FinishReplicaSync
  <2> HIDE DEF next
  <2>3. JournalTypes'
    BY <2>1, <2>2, SaveTypes DEF TypeOK, Journals, JournalTypes
  <2>4. tails' \in SUBSET (TailCalls \X Jobs)
    BY <1>14, CommandAssumption DEF TypeOK, FinishReplicaSync, TailCalls
  <2> QED
    BY <1>14, <2>3, <2>4
    DEF TypeOK, CopyTargets, FinishReplicaSync, Journals, JournalTypes
<1>15. ASSUME NEW c \in Commands, StartAgentUpdate(c) PROVE TypeOK'
  <2>1. [journal EXCEPT ![c].state = "running"] \in Journals
    BY JournalUpdates, Names DEF TypeOK, Journals
  <2>2. JournalTypes'
    BY <1>15, <2>1
    DEF TypeOK, StartAgentUpdate, SaveJournal, SaveJournalFails, Journals,
        JournalTypes
  <2> QED
    BY <1>15, <2>2
    DEF TypeOK, CopyTargets, StartAgentUpdate, Journals, JournalTypes, jobVars,
        loopVars
<1>15a. ASSUME NEW c \in Commands, UpdateRequestFails(c) PROVE TypeOK'
  <2> DEFINE next == [journal EXCEPT ![c].state = "received"]
  <2>1. next \in Journals
    BY JournalUpdates, Names DEF TypeOK, Journals
  <2>2. TrySaveJournal(next)
    BY <1>15a DEF UpdateRequestFails
  <2> HIDE DEF next
  <2>3. JournalTypes'
    BY <2>1, <2>2, SaveTypes
  <2> QED
    BY <1>15a, <2>3
    DEF TypeOK, CopyTargets, UpdateRequestFails, Journals, JournalTypes,
        jobVars, loopVars
<1>16. ASSUME NEW c \in Commands, ConsumeUpdateResult(c) PROVE TypeOK'
  <2> DEFINE next == [journal EXCEPT ![c].state = "finished", ![c].outcome = "executed"]
  <2>1. next \in Journals
    BY JournalUpdates, Names DEF TypeOK, Journals
  <2>2. TrySaveJournal(next)
    BY <1>16 DEF ConsumeUpdateResult
  <2> HIDE DEF next
  <2>3. JournalTypes'
    BY <2>1, <2>2, SaveTypes
  <2> QED
    BY <1>16, <2>3
    DEF TypeOK, CopyTargets, ConsumeUpdateResult, Journals, JournalTypes,
        jobVars, loopVars
<1>17. ASSUME NEW c \in Commands, CancelQueued(c) PROVE TypeOK'
  <2>1. FinishedWithoutExecution(c) \in Journals
    BY JournalUpdates, Names DEF TypeOK, Journals, FinishedWithoutExecution
  <2>2. JournalTypes'
    BY <1>17, <2>1
    DEF TypeOK, CancelQueued, SaveJournal, SaveJournalFails, Journals, JournalTypes
  <2> QED
    BY <1>17, <2>2
    DEF TypeOK, CopyTargets, CancelQueued, Journals, JournalTypes, jobVars, loopVars
<1>18. ASSUME NEW c \in Commands, ReportAndRemove(c) PROVE TypeOK'
  <2> DEFINE next == [journal EXCEPT ![c] = Removed]
  <2>1. next \in Journals
    BY JournalUpdates, EntryTypes DEF TypeOK, Journals
  <2>2. TrySaveJournal(next)
    BY <1>18 DEF ReportAndRemove
  <2> HIDE DEF next
  <2>3. JournalTypes'
    BY <2>1, <2>2, SaveTypes
  <2> QED
    BY <1>18, <2>3
    DEF TypeOK, CopyTargets, ReportAndRemove, Journals, JournalTypes, jobVars,
        loopVars
<1>19. ASSUME NEW c \in Commands, ReconcileOne(c) PROVE TypeOK'
  <2>1. Reconciled(c) \in Journals
    BY JournalUpdates, Names DEF TypeOK, Journals, Reconciled
  <2>2. JournalTypes'
    BY <1>19, <2>1
    DEF TypeOK, ReconcileOne, SaveJournal, SaveJournalFails, Journals, JournalTypes
  <2>3. reconcile' \in Reconciles
    <3>1. reconcile.ids \ {c} \in SUBSET Commands
      BY ReconcileTypes DEF TypeOK
    <3>2. reconcile' \in {[reconcile EXCEPT !.ids = reconcile.ids \ {c}], ReconcileDue}
      BY <1>19 DEF ReconcileOne
    <3>3. [reconcile EXCEPT !.ids = reconcile.ids \ {c}] \in Reconciles
      BY <3>1 DEF TypeOK, Reconciles
    <3> QED
      BY <3>2, <3>3, ReconcileTypes
  <2> QED
    BY <1>19, <2>2, <2>3
    DEF TypeOK, CopyTargets, ReconcileOne, Journals, JournalTypes, jobVars, loopVars
<1>20. ASSUME NEW j \in Jobs, StartReplication(j) PROVE TypeOK'
  BY <1>20, CopyTypes
  DEF TypeOK, CopyTargets, StartReplication, BeginReplication, Idle, jobVars,
      loopVars
<1>21. ASSUME NEW j \in Jobs, ResumeReplication(j) PROVE TypeOK'
  BY <1>21, CopyTypes
  DEF TypeOK, CopyTargets, ResumeReplication, BeginReplication, Idle, jobVars,
      loopVars
<1>22. ASSUME NEW j \in Jobs, CopySome(j) PROVE TypeOK'
  <2>1. PICK r \in Replicas[j], batch \in SUBSET Commands : SelectBatch(j, r, batch)
    BY <1>22 DEF CopySome
  <2> DEFINE chosen == [phase |-> "acquire", target |-> r, batch |-> batch]
  <2>2. chosen \in Copies /\ chosen.target = r
    BY JobAssumption, CopyTypes
  <2>3. copy' = [copy EXCEPT ![j] = chosen]
    BY <2>1 DEF SelectBatch
  <2> HIDE DEF chosen
  <2>4. copy' \in [Jobs -> Copies] /\ CopyTargets'
    BY <2>2, <2>3 DEF TypeOK, CopyTargets
  <2> QED
    BY <2>1, <2>4 DEF TypeOK, SelectBatch, loopVars
<1>23. ASSUME NEW j \in Jobs, NothingToCopy(j) PROVE TypeOK'
  BY <1>23, CopyTypes
  DEF TypeOK, CopyTargets, NothingToCopy, Idle, jobVars, loopVars
<1>24. ASSUME NEW j \in Jobs, AcquireForCopy(j) PROVE TypeOK'
  <2>1. CASE CopyRepositories(j) \cap repositories = {}
    <3>1. copy[j].target \in Replicas[j] /\ CopyRepositories(j) \in SUBSET Repositories
      BY <1>24, JobAssumption
      DEF TypeOK, CopyTargets, AcquireForCopy, CopyRepositories
    <3>2. copy' \in [Jobs -> Copies]
      BY <1>24, <2>1, CopyTypes DEF TypeOK, AcquireForCopy
    <3>3. CopyTargets'
      BY <1>24, <2>1, <3>1 DEF TypeOK, CopyTargets, AcquireForCopy, Copies
    <3> QED
      BY <1>24, <2>1, <3>1, <3>2, <3>3 DEF TypeOK, AcquireForCopy, loopVars
  <2>2. CASE CopyRepositories(j) \cap repositories # {}
    BY <1>24, <2>2, CopyTypes
    DEF TypeOK, CopyTargets, AcquireForCopy, Idle, loopVars
  <2> QED
    BY <2>1, <2>2
<1>25. ASSUME NEW j \in Jobs, CopyEnds(j) PROVE TypeOK'
  BY <1>25, CopyTypes
  DEF TypeOK, CopyTargets, CopyEnds, CopyRepositories, jobVars, loopVars
<1>26. ASSUME NEW j \in Jobs, NEW ok \in BOOLEAN, FinishBatch(j, ok) PROVE TypeOK'
  <2> DEFINE copied == [d \in Commands |->
                          IF d \in copy[j].batch
                          THEN [journal[d] EXCEPT !.pending = @ \ {copy[j].target}]
                          ELSE journal[d]]
  <2>1. copied \in Journals
    BY CopiedTypes DEF TypeOK
  <2>2. TrySaveJournal(copied) \/ TrySaveJournal(journal)
    BY <1>26 DEF FinishBatch
  <2> HIDE DEF copied
  <2>3. JournalTypes'
    BY <2>1, <2>2, SaveTypes DEF TypeOK, Journals, JournalTypes
  <2> QED
    BY <1>26, <2>3, CopyTypes
    DEF TypeOK, CopyTargets, FinishBatch, Journals, JournalTypes, Idle, loopVars
<1>27. ASSUME NEW j \in Jobs, EndReplication(j) PROVE TypeOK'
  BY <1>27, CopyTypes
  DEF TypeOK, CopyTargets, EndReplication, TailCalls, Idle, jobVars, loopVars
<1>28. ASSUME NEW t \in TailCalls \X Jobs, TailFindsNothing(t) PROVE TypeOK'
  BY <1>28
  DEF TypeOK, CopyTargets, TailFindsNothing, jobVars, loopVars
<1>29. ASSUME NEW listing \in [Jobs -> Listings], AcceptConfig(listing)
       PROVE TypeOK'
  BY <1>29
  DEF TypeOK, CopyTargets, AcceptConfig, jobVars, loopVars
<1>30. ASSUME FlushJournal PROVE TypeOK'
  BY <1>30
  DEF TypeOK, CopyTargets, FlushJournal, SaveJournal, jobVars, loopVars
<1>31. ASSUME CrashAndRestart PROVE TypeOK'
  BY <1>31, ReconcileTypes, CopyTypes
  DEF TypeOK, CopyTargets, CrashAndRestart, UnfinishedUpdates, Idle, jobVars,
      loopVars
<1>32. ASSUME CollectInterrupted PROVE TypeOK'
  BY <1>32, ReconcileTypes
  DEF TypeOK, CopyTargets, CollectInterrupted, jobVars, loopVars
<1>33. ASSUME FinishReconcile PROVE TypeOK'
  BY <1>33, ReconcileTypes
  DEF TypeOK, CopyTargets, FinishReconcile, TailCalls, jobVars, loopVars
<1>34. CASE UNCHANGED vars
  BY <1>34 DEF TypeOK, CopyTargets, vars, jobVars, loopVars
<1>35. QED
  BY <1>1, <1>2, <1>3, <1>4, <1>5, <1>6, <1>7, <1>8, <1>9, <1>10, <1>11, <1>12,
      <1>13, <1>14, <1>15, <1>15a, <1>16, <1>17, <1>18, <1>19, <1>20, <1>21, <1>22,
      <1>23, <1>24, <1>25, <1>26, <1>27, <1>28, <1>29, <1>30, <1>31, <1>32,
      <1>33, <1>34
  DEF Next, CommandStep, JobStep

\* The initial state is well typed.
LEMMA InitTypes == Init => TypeOK
BY EntryTypes, CopyTypes, ReconcileTypes, CommandAssumption
DEF Init, TypeOK, CopyTargets, Idle, Listings

\* Type correctness: the journal in memory and on disk, the busy set and the
\* progress of every goroutine stay well formed, and a copy goes to a replica
\* of its own job.
THEOREM TypeCorrect == Spec => []TypeOK
BY InitTypes, NextTypes, PTL DEF Spec
-----------------------------------------------------------------------------
(* Which commands the goroutines work on *)

Operations == {c \in Commands : Kind[c] \in {"backup", "maintenance"}}
Syncs == {c \in Commands : Kind[c] = "sync"}

\* A journal never has a catch-up that is not a backup, and an update is marked
\* running only after it was acknowledged.
GoodJournal(J) ==
    \A d \in Commands :
        /\ J[d].waits = "catchup" => Kind[d] = "backup"
        /\ Kind[d] = "update" /\ J[d].state = "running" => J[d].acked

\* st[d] counts the starts of d: what was started is never queued again, and
\* only an update, which has no goroutine, goes from running to received.
Settled(J, st) ==
    \A d \in Commands :
        st[d] > 0 => /\ Kind[d] # "update"
                     /\ J[d].state \notin {"unknown", "received"}

Journaled ==
    /\ GoodJournal(journal) /\ GoodJournal(disk)
    /\ Settled(journal, starts) /\ Settled(disk, starts)
    /\ StartedAtMostOnce

OperationKinds ==
    /\ handed \subseteq Operations
    /\ active \subseteq Operations
    /\ syncing \subseteq Syncs

\* The changes the actions make to a journal keep it good.
LEMMA GoodUpdates ==
    ASSUME NEW J \in Journals, GoodJournal(J), NEW c \in Commands
    PROVE  /\ GoodJournal([J EXCEPT ![c] = Removed])
           /\ GoodJournal([J EXCEPT ![c] = [NoEntry EXCEPT !.state = "received"]])
           /\ \A o \in Outcomes :
                 GoodJournal([J EXCEPT ![c].state = "finished", ![c].outcome = o])
           /\ Kind[c] # "update" => GoodJournal([J EXCEPT ![c].state = "running"])
           /\ J[c].acked => GoodJournal([J EXCEPT ![c].state = "running"])
           /\ GoodJournal([J EXCEPT ![c].acked = TRUE])
           /\ GoodJournal([J EXCEPT ![c].waits = "nothing"])
           /\ GoodJournal([J EXCEPT ![c].state = "received"])
<1> USE DEF Journals, Entry, GoodJournal
<1>1. GoodJournal([J EXCEPT ![c] = Removed])
  BY DEF Removed, NoEntry
<1>2. GoodJournal([J EXCEPT ![c] = [NoEntry EXCEPT !.state = "received"]])
  BY DEF NoEntry
<1>3. \A o \in Outcomes :
         GoodJournal([J EXCEPT ![c].state = "finished", ![c].outcome = o])
  OBVIOUS
<1>4. Kind[c] # "update" => GoodJournal([J EXCEPT ![c].state = "running"])
  OBVIOUS
<1>5. J[c].acked => GoodJournal([J EXCEPT ![c].state = "running"])
  OBVIOUS
<1>6. GoodJournal([J EXCEPT ![c].acked = TRUE])
  OBVIOUS
<1>7. GoodJournal([J EXCEPT ![c].waits = "nothing"])
  OBVIOUS
<1>8. GoodJournal([J EXCEPT ![c].state = "received"])
  OBVIOUS
<1>9. QED
  BY <1>1, <1>2, <1>3, <1>4, <1>5, <1>6, <1>7, <1>8

\* The changes the actions make to a journal keep what was started settled.
LEMMA SettledUpdates ==
    ASSUME NEW J \in Journals, NEW st \in [Commands -> Nat], Settled(J, st),
           NEW c \in Commands
    PROVE  /\ Settled([J EXCEPT ![c] = Removed], st)
           /\ st[c] = 0 => \A e \in Entry : Settled([J EXCEPT ![c] = e], st)
           /\ \A o \in Outcomes :
                 Settled([J EXCEPT ![c].state = "finished", ![c].outcome = o], st)
           /\ Settled([J EXCEPT ![c].state = "running"], st)
           /\ Settled([J EXCEPT ![c].acked = TRUE], st)
           /\ Settled([J EXCEPT ![c].waits = "nothing"], st)
           /\ Kind[c] = "update" => Settled([J EXCEPT ![c].state = "received"], st)
<1> USE DEF Journals, Entry, Settled
<1>1. Settled([J EXCEPT ![c] = Removed], st)
  BY DEF Removed, NoEntry
<1>2. st[c] = 0 => \A e \in Entry : Settled([J EXCEPT ![c] = e], st)
  OBVIOUS
<1>3. \A o \in Outcomes :
         Settled([J EXCEPT ![c].state = "finished", ![c].outcome = o], st)
  OBVIOUS
<1>4. Settled([J EXCEPT ![c].state = "running"], st)
  OBVIOUS
<1>5. Settled([J EXCEPT ![c].acked = TRUE], st)
  OBVIOUS
<1>6. Settled([J EXCEPT ![c].waits = "nothing"], st)
  OBVIOUS
<1>7. Kind[c] = "update" => Settled([J EXCEPT ![c].state = "received"], st)
  OBVIOUS
<1>8. QED
  BY <1>1, <1>2, <1>3, <1>4, <1>5, <1>6, <1>7

\* A save, successful or not, keeps what the new journal keeps.
LEMMA SaveKeeps ==
    ASSUME TypeOK, Journaled, NEW next \in Journals, GoodJournal(next),
           Settled(next, starts), journal' \in {journal, next, disk},
           disk' \in {disk, journal, next}, UNCHANGED starts
    PROVE  Journaled'
BY DEF Journaled, GoodJournal, Settled, StartedAtMostOnce

\* A start: the entry was queued, so it is the first one, and it is running in
\* memory and on disk.
LEMMA StartKeeps ==
    ASSUME TypeOK, Journaled, NEW c \in Commands, Kind[c] # "update",
           journal[c].state = "received",
           SaveJournal([journal EXCEPT ![c].state = "running"]),
           starts' = [starts EXCEPT ![c] = @ + 1]
    PROVE  Journaled'
<1> DEFINE next == [journal EXCEPT ![c].state = "running"]
<1>1. GoodJournal(next) /\ Settled(next, starts)
  BY GoodUpdates, SettledUpdates DEF TypeOK, Journaled, Journals
<1>2. next[c].state = "running" /\ journal' = next /\ disk' = next
  BY DEF SaveJournal, TypeOK, Entry
<1>3. starts[c] = 0
  BY DEF TypeOK, Journaled, Settled
<1> HIDE DEF next
<1>4. Settled(next, starts')
  BY <1>1, <1>2 DEF Settled, TypeOK
<1>5. StartedAtMostOnce'
  BY <1>3 DEF TypeOK, Journaled, StartedAtMostOnce
<1>6. QED
  BY <1>1, <1>2, <1>4, <1>5 DEF Journaled, GoodJournal, Settled

\* Every step keeps Journaled.
LEMMA NextJournaled ==
    ASSUME TypeOK, OperationKinds, Journaled, [Next]_vars
    PROVE  Journaled'
<1>1. ASSUME NEW c \in Commands, ReceiveCommand(c) PROVE Journaled'
  <2>0. starts[c] = 0
    BY <1>1 DEF ReceiveCommand, TypeOK, Journaled, Settled
  <2> DEFINE next == [journal EXCEPT ![c] = [NoEntry EXCEPT !.state = "received"]]
  <2>1. next \in Journals /\ GoodJournal(next) /\ Settled(next, starts)
    BY <2>0, JournalUpdates, GoodUpdates, SettledUpdates, EntryTypes, Names
    DEF TypeOK, Journaled, Journals
  <2>2. /\ journal' \in {journal, next}
        /\ disk' \in {disk, journal, next}
        /\ UNCHANGED starts
    BY <1>1 DEF ReceiveCommand, TrySaveJournal, SaveJournal, SaveJournalFails
  <2> HIDE DEF next
  <2> QED
    BY <2>1, <2>2, SaveKeeps
<1>2. ASSUME NEW c \in Commands, NEW how \in Hows, ScheduleOccurrence(c, how)
      PROVE Journaled'
  <2>0. starts[c] = 0
    BY <1>2 DEF ScheduleOccurrence, TypeOK, Journaled, Settled
  <2>a. ScheduledEntry(how).waits = "catchup" => Kind[c] = "backup"
    BY <1>2 DEF ScheduleOccurrence, ScheduledEntry, NoEntry
  <2>b. Kind[c] # "update"
    BY <1>2 DEF ScheduleOccurrence
  <2>c. GoodJournal([journal EXCEPT ![c] = ScheduledEntry(how)])
    BY <2>a, <2>b DEF TypeOK, Journaled, GoodJournal
  <2> DEFINE next == [journal EXCEPT ![c] = ScheduledEntry(how)]
  <2>1. next \in Journals /\ GoodJournal(next) /\ Settled(next, starts)
    BY <2>0, <2>c, JournalUpdates, SettledUpdates, EntryTypes
    DEF TypeOK, Journaled, Journals
  <2>2. /\ journal' \in {journal, next}
        /\ disk' \in {disk, journal, next}
        /\ UNCHANGED starts
    BY <1>2 DEF ScheduleOccurrence, TrySaveJournal, SaveJournal, SaveJournalFails
  <2> HIDE DEF next
  <2> QED
    BY <2>1, <2>2, SaveKeeps
<1>3. ASSUME NEW c \in Commands, DiscardExpired(c) PROVE Journaled'
  <2> DEFINE next == [journal EXCEPT ![c] = Removed]
  <2>1. next \in Journals /\ GoodJournal(next) /\ Settled(next, starts)
    BY JournalUpdates, GoodUpdates, SettledUpdates, EntryTypes, Names
    DEF TypeOK, Journaled, Journals
  <2>2. /\ journal' \in {journal, next}
        /\ disk' \in {disk, journal, next}
        /\ UNCHANGED starts
    BY <1>3 DEF DiscardExpired, TrySaveJournal, SaveJournal, SaveJournalFails
  <2> HIDE DEF next
  <2> QED
    BY <2>1, <2>2, SaveKeeps
<1>4. ASSUME NEW c \in Commands, Acknowledge(c) PROVE Journaled'
  <2> DEFINE next == [journal EXCEPT ![c].acked = TRUE]
  <2>1. next \in Journals /\ GoodJournal(next) /\ Settled(next, starts)
    BY JournalUpdates, GoodUpdates, SettledUpdates, EntryTypes, Names
    DEF TypeOK, Journaled, Journals
  <2>2. /\ journal' \in {journal, next}
        /\ disk' \in {disk, journal, next}
        /\ UNCHANGED starts
    BY <1>4 DEF Acknowledge, TrySaveJournal, SaveJournal, SaveJournalFails
  <2> HIDE DEF next
  <2> QED
    BY <2>1, <2>2, SaveKeeps
<1>5. ASSUME NEW c \in Commands, SkipDispatched(c) PROVE Journaled'
  <2> DEFINE next == FinishedWithoutExecution(c)
  <2>1. next \in Journals /\ GoodJournal(next) /\ Settled(next, starts)
    BY JournalUpdates, GoodUpdates, SettledUpdates, EntryTypes, Names
    DEF TypeOK, Journaled, Journals, FinishedWithoutExecution
  <2>2. /\ journal' \in {journal, next}
        /\ disk' \in {disk, journal, next}
        /\ UNCHANGED starts
    BY <1>5 DEF SkipDispatched, TrySaveJournal, SaveJournal, SaveJournalFails
  <2> HIDE DEF next
  <2> QED
    BY <2>1, <2>2, SaveKeeps
<1>6. ASSUME NEW c \in Commands, InspectSource(c) PROVE Journaled'
  <2> DEFINE next == [journal EXCEPT ![c].state = "finished", ![c].outcome = "executed"]
  <2>1. next \in Journals /\ GoodJournal(next) /\ Settled(next, starts)
    BY JournalUpdates, GoodUpdates, SettledUpdates, EntryTypes, Names
    DEF TypeOK, Journaled, Journals
  <2>2. /\ journal' \in {journal, next}
        /\ disk' \in {disk, journal, next}
        /\ UNCHANGED starts
    BY <1>6 DEF InspectSource, TrySaveJournal, SaveJournal, SaveJournalFails
  <2> HIDE DEF next
  <2> QED
    BY <2>1, <2>2, SaveKeeps
<1>7. ASSUME NEW c \in Commands, CancelRun(c) PROVE Journaled'
  <2> DEFINE next == FinishedWithoutExecution(c)
  <2>1. next \in Journals /\ GoodJournal(next) /\ Settled(next, starts)
    BY JournalUpdates, GoodUpdates, SettledUpdates, EntryTypes, Names
    DEF TypeOK, Journaled, Journals, FinishedWithoutExecution
  <2>2. /\ journal' \in {journal, next}
        /\ disk' \in {disk, journal, next}
        /\ UNCHANGED starts
    BY <1>7 DEF CancelRun, TrySaveJournal, SaveJournal, SaveJournalFails
  <2> HIDE DEF next
  <2> QED
    BY <2>1, <2>2, SaveKeeps
<1>8. ASSUME NEW c \in Commands, DispatchedStart(c) PROVE Journaled'
  <2>0. Kind[c] # "update"
    BY <1>8 DEF DispatchedStart
  <2>1. CASE StartRun(c)
    BY <2>0, <2>1, StartKeeps DEF StartRun, CanStart
  <2>2. CASE StartFails(c) \/ StartRefused
    BY <2>2 DEF StartFails, StartRefused, SaveJournalFails, Journaled, GoodJournal,
                Settled, StartedAtMostOnce
  <2> QED
    BY <1>8, <2>1, <2>2 DEF DispatchedStart, StartOperation
<1>9. ASSUME NEW c \in Commands, HandedStart(c) PROVE Journaled'
  <2>0. Kind[c] # "update"
    BY <1>9 DEF HandedStart, OperationKinds, Operations
  <2>1. CASE StartRun(c)
    BY <2>0, <2>1, StartKeeps DEF StartRun, CanStart
  <2>2. CASE StartFails(c) \/ StartRefused
    BY <2>2 DEF StartFails, StartRefused, SaveJournalFails, Journaled, GoodJournal,
                Settled, StartedAtMostOnce
  <2> QED
    BY <1>9, <2>1, <2>2 DEF HandedStart, StartOperation
<1>10. ASSUME NEW c \in Commands, NEW result \in Results, FinishOperation(c, result)
       PROVE Journaled'
  <2> DEFINE next == [journal EXCEPT ![c] = FinishedEntry(c, result)]
  <2>1. journal[c] \in Entry
    BY DEF TypeOK
  <2>2. /\ FinishedEntry(c, result).state = "finished"
        /\ FinishedEntry(c, result).waits = journal[c].waits
    BY <2>1 DEF FinishedEntry, Entry
  <2>3. next \in Journals
    BY FinishedTypes, JournalUpdates DEF TypeOK, Journals
  <2>4. GoodJournal(next) /\ Settled(next, starts)
    BY <2>2 DEF TypeOK, Journaled, GoodJournal, Settled
  <2>5. /\ journal' \in {journal, next}
        /\ disk' \in {disk, journal, next}
        /\ UNCHANGED starts
    BY <1>10 DEF FinishOperation, TrySaveJournal, SaveJournal, SaveJournalFails
  <2> HIDE DEF next
  <2> QED
    BY <2>3, <2>4, <2>5, SaveKeeps
<1>11. ASSUME NEW c \in Commands, ReleaseDeferred(c) PROVE Journaled'
  <2> DEFINE next == [journal EXCEPT ![c].waits = "nothing"]
  <2>1. next \in Journals /\ GoodJournal(next) /\ Settled(next, starts)
    BY JournalUpdates, GoodUpdates, SettledUpdates, EntryTypes, Names
    DEF TypeOK, Journaled, Journals
  <2>2. /\ journal' \in {journal, next}
        /\ disk' \in {disk, journal, next}
        /\ UNCHANGED starts
    BY <1>11 DEF ReleaseDeferred, TrySaveJournal, SaveJournal, SaveJournalFails
  <2> HIDE DEF next
  <2> QED
    BY <2>1, <2>2, SaveKeeps
<1>12. ASSUME NEW c \in Commands, StartCatchUp(c) PROVE Journaled'
  BY <1>12 DEF StartCatchUp, Journaled, GoodJournal, Settled, StartedAtMostOnce
<1>13. ASSUME NEW c \in Commands, StartReplicaSync(c) PROVE Journaled'
  <2>1. CASE SaveJournalFails(journal) /\ UNCHANGED starts
    BY <2>1 DEF SaveJournalFails, Journaled, GoodJournal, Settled, StartedAtMostOnce
  <2>2. CASE /\ SaveJournal([journal EXCEPT ![c].state = "running"])
             /\ starts' = [starts EXCEPT ![c] = @ + 1]
    BY <1>13, <2>2, StartKeeps DEF StartReplicaSync, CanSync
  <2> QED
    BY <1>13, <2>1, <2>2 DEF StartReplicaSync
<1>14. ASSUME NEW c \in Commands, FinishReplicaSync(c) PROVE Journaled'
  <2> DEFINE next == [journal EXCEPT ![c].state = "finished", ![c].outcome = "executed"]
  <2>1. next \in Journals /\ GoodJournal(next) /\ Settled(next, starts)
    BY JournalUpdates, GoodUpdates, SettledUpdates, EntryTypes, Names
    DEF TypeOK, Journaled, Journals
  <2>2. /\ journal' \in {journal, next}
        /\ disk' \in {disk, journal, next}
        /\ UNCHANGED starts
    BY <1>14 DEF FinishReplicaSync, TrySaveJournal, SaveJournal, SaveJournalFails
  <2> HIDE DEF next
  <2> QED
    BY <2>1, <2>2, SaveKeeps
<1>15. ASSUME NEW c \in Commands, StartAgentUpdate(c) PROVE Journaled'
  <2>0. journal[c].acked
    BY <1>15 DEF StartAgentUpdate
  <2> DEFINE next == [journal EXCEPT ![c].state = "running"]
  <2>1. next \in Journals /\ GoodJournal(next) /\ Settled(next, starts)
    BY <2>0, JournalUpdates, GoodUpdates, SettledUpdates, EntryTypes, Names
    DEF TypeOK, Journaled, Journals
  <2>2. /\ journal' \in {journal, next}
        /\ disk' \in {disk, journal, next}
        /\ UNCHANGED starts
    BY <1>15 DEF StartAgentUpdate, TrySaveJournal, SaveJournal, SaveJournalFails
  <2> HIDE DEF next
  <2> QED
    BY <2>1, <2>2, SaveKeeps
<1>15a. ASSUME NEW c \in Commands, UpdateRequestFails(c) PROVE Journaled'
  <2> DEFINE next == [journal EXCEPT ![c].state = "received"]
  <2>0. Kind[c] = "update"
    BY <1>15a DEF UpdateRequestFails
  <2>1. next \in Journals /\ GoodJournal(next) /\ Settled(next, starts)
    BY <2>0, JournalUpdates, GoodUpdates, SettledUpdates, EntryTypes, Names
    DEF TypeOK, Journaled, Journals
  <2>2. /\ journal' \in {journal, next}
        /\ disk' \in {disk, journal, next}
        /\ UNCHANGED starts
    BY <1>15a DEF UpdateRequestFails, TrySaveJournal, SaveJournal, SaveJournalFails
  <2> HIDE DEF next
  <2> QED
    BY <2>1, <2>2, SaveKeeps
<1>16. ASSUME NEW c \in Commands, ConsumeUpdateResult(c) PROVE Journaled'
  <2> DEFINE next == [journal EXCEPT ![c].state = "finished", ![c].outcome = "executed"]
  <2>1. next \in Journals /\ GoodJournal(next) /\ Settled(next, starts)
    BY JournalUpdates, GoodUpdates, SettledUpdates, EntryTypes, Names
    DEF TypeOK, Journaled, Journals
  <2>2. /\ journal' \in {journal, next}
        /\ disk' \in {disk, journal, next}
        /\ UNCHANGED starts
    BY <1>16 DEF ConsumeUpdateResult, TrySaveJournal, SaveJournal, SaveJournalFails
  <2> HIDE DEF next
  <2> QED
    BY <2>1, <2>2, SaveKeeps
<1>17. ASSUME NEW c \in Commands, CancelQueued(c) PROVE Journaled'
  <2> DEFINE next == FinishedWithoutExecution(c)
  <2>1. next \in Journals /\ GoodJournal(next) /\ Settled(next, starts)
    BY JournalUpdates, GoodUpdates, SettledUpdates, EntryTypes, Names
    DEF TypeOK, Journaled, Journals, FinishedWithoutExecution
  <2>2. /\ journal' \in {journal, next}
        /\ disk' \in {disk, journal, next}
        /\ UNCHANGED starts
    BY <1>17 DEF CancelQueued, TrySaveJournal, SaveJournal, SaveJournalFails
  <2> HIDE DEF next
  <2> QED
    BY <2>1, <2>2, SaveKeeps
<1>18. ASSUME NEW c \in Commands, ReportAndRemove(c) PROVE Journaled'
  <2> DEFINE next == [journal EXCEPT ![c] = Removed]
  <2>1. next \in Journals /\ GoodJournal(next) /\ Settled(next, starts)
    BY JournalUpdates, GoodUpdates, SettledUpdates, EntryTypes, Names
    DEF TypeOK, Journaled, Journals
  <2>2. /\ journal' \in {journal, next}
        /\ disk' \in {disk, journal, next}
        /\ UNCHANGED starts
    BY <1>18 DEF ReportAndRemove, TrySaveJournal, SaveJournal, SaveJournalFails
  <2> HIDE DEF next
  <2> QED
    BY <2>1, <2>2, SaveKeeps
<1>19. ASSUME NEW c \in Commands, ReconcileOne(c) PROVE Journaled'
  <2> DEFINE next == Reconciled(c)
  <2>1. next \in Journals /\ GoodJournal(next) /\ Settled(next, starts)
    BY JournalUpdates, GoodUpdates, SettledUpdates, EntryTypes, Names
    DEF TypeOK, Journaled, Journals, Reconciled
  <2>2. /\ journal' \in {journal, next}
        /\ disk' \in {disk, journal, next}
        /\ UNCHANGED starts
    BY <1>19 DEF ReconcileOne, TrySaveJournal, SaveJournal, SaveJournalFails
  <2> HIDE DEF next
  <2> QED
    BY <2>1, <2>2, SaveKeeps
<1>20. ASSUME NEW j \in Jobs, StartReplication(j) PROVE Journaled'
  BY <1>20
  DEF StartReplication, BeginReplication, Journaled, GoodJournal, Settled,
      StartedAtMostOnce
<1>21. ASSUME NEW j \in Jobs, ResumeReplication(j) PROVE Journaled'
  BY <1>21
  DEF ResumeReplication, BeginReplication, Journaled, GoodJournal, Settled,
      StartedAtMostOnce
<1>22. ASSUME NEW j \in Jobs, CopySome(j) PROVE Journaled'
  BY <1>22
  DEF CopySome, SelectBatch, Journaled, GoodJournal, Settled, StartedAtMostOnce
<1>23. ASSUME NEW j \in Jobs, NothingToCopy(j) PROVE Journaled'
  BY <1>23 DEF NothingToCopy, Journaled, GoodJournal, Settled, StartedAtMostOnce
<1>24. ASSUME NEW j \in Jobs, AcquireForCopy(j) PROVE Journaled'
  BY <1>24 DEF AcquireForCopy, Journaled, GoodJournal, Settled, StartedAtMostOnce
<1>25. ASSUME NEW j \in Jobs, CopyEnds(j) PROVE Journaled'
  BY <1>25 DEF CopyEnds, Journaled, GoodJournal, Settled, StartedAtMostOnce
<1>26. ASSUME NEW j \in Jobs, NEW ok \in BOOLEAN, FinishBatch(j, ok)
       PROVE Journaled'
  <2> DEFINE copied == [d \in Commands |->
                          IF d \in copy[j].batch
                          THEN [journal[d] EXCEPT !.pending = @ \ {copy[j].target}]
                          ELSE journal[d]]
  <2>1. copied \in Journals
    BY CopiedTypes DEF TypeOK
  <2>2. \A d \in Commands : /\ copied[d].waits = journal[d].waits
                            /\ copied[d].state = journal[d].state
                            /\ copied[d].acked = journal[d].acked
    BY DEF TypeOK, Entry
  <2>3. /\ journal' \in {journal, copied}
        /\ disk' \in {disk, journal, copied}
        /\ UNCHANGED starts
    BY <1>26 DEF FinishBatch, TrySaveJournal, SaveJournal, SaveJournalFails
  <2> HIDE DEF copied
  <2>4. GoodJournal(copied) /\ Settled(copied, starts)
    BY <2>2 DEF Journaled, GoodJournal, Settled
  <2> QED
    BY <2>1, <2>3, <2>4, SaveKeeps
<1>27. ASSUME NEW j \in Jobs, EndReplication(j) PROVE Journaled'
  BY <1>27 DEF EndReplication, Journaled, GoodJournal, Settled, StartedAtMostOnce
<1>28. ASSUME NEW t \in TailCalls \X Jobs, TailFindsNothing(t) PROVE Journaled'
  BY <1>28 DEF TailFindsNothing, Journaled, GoodJournal, Settled, StartedAtMostOnce
<1>29. ASSUME NEW listing \in [Jobs -> Listings], AcceptConfig(listing)
       PROVE Journaled'
  BY <1>29 DEF AcceptConfig, Journaled, GoodJournal, Settled, StartedAtMostOnce
<1>30. ASSUME FlushJournal PROVE Journaled'
  BY <1>30
  DEF FlushJournal, SaveJournal, Journaled, GoodJournal, Settled,
      StartedAtMostOnce
<1>31. ASSUME CrashAndRestart PROVE Journaled'
  BY <1>31
  DEF CrashAndRestart, SaveJournal, Journaled, GoodJournal, Settled,
      StartedAtMostOnce
<1>32. ASSUME CollectInterrupted PROVE Journaled'
  BY <1>32
  DEF CollectInterrupted, Journaled, GoodJournal, Settled, StartedAtMostOnce
<1>33. ASSUME FinishReconcile PROVE Journaled'
  BY <1>33 DEF FinishReconcile, Journaled, GoodJournal, Settled, StartedAtMostOnce
<1>34. CASE UNCHANGED vars
  BY <1>34 DEF vars, Journaled, GoodJournal, Settled, StartedAtMostOnce
<1>35. QED
  BY <1>1, <1>2, <1>3, <1>4, <1>5, <1>6, <1>7, <1>8, <1>9, <1>10,
     <1>11, <1>12, <1>13, <1>14, <1>15, <1>15a, <1>16, <1>17, <1>18, <1>19, <1>20,
     <1>21, <1>22, <1>23, <1>24, <1>25, <1>26, <1>27, <1>28, <1>29, <1>30,
     <1>31, <1>32, <1>33, <1>34
  DEF Next, CommandStep, JobStep

\* Only backups and maintenance are handed to startOperation.
LEMMA NextKinds ==
    ASSUME TypeOK, Journaled, OperationKinds, [Next]_vars
    PROVE  OperationKinds'
<1>1. ASSUME NEW c \in Commands, ReceiveCommand(c) PROVE OperationKinds'
  BY <1>1 DEF ReceiveCommand, OperationKinds, Operations, Syncs, jobVars, loopVars
<1>2. ASSUME NEW c \in Commands, NEW how \in Hows, ScheduleOccurrence(c, how)
      PROVE OperationKinds'
  BY <1>2
  DEF ScheduleOccurrence, OperationKinds, Operations, Syncs, jobVars, loopVars
<1>3. ASSUME NEW c \in Commands, DiscardExpired(c) PROVE OperationKinds'
  BY <1>3 DEF DiscardExpired, OperationKinds, Operations, Syncs, jobVars, loopVars
<1>4. ASSUME NEW c \in Commands, Acknowledge(c) PROVE OperationKinds'
  BY <1>4 DEF Acknowledge, OperationKinds, Operations, Syncs, jobVars, loopVars
<1>5. ASSUME NEW c \in Commands, SkipDispatched(c) PROVE OperationKinds'
  BY <1>5 DEF SkipDispatched, OperationKinds, Operations, Syncs, jobVars, loopVars
<1>6. ASSUME NEW c \in Commands, InspectSource(c) PROVE OperationKinds'
  BY <1>6 DEF InspectSource, OperationKinds, Operations, Syncs, jobVars, loopVars
<1>7. ASSUME NEW c \in Commands, CancelRun(c) PROVE OperationKinds'
  BY <1>7 DEF CancelRun, OperationKinds, Operations, Syncs, jobVars, loopVars
<1>8. ASSUME NEW c \in Commands, DispatchedStart(c) PROVE OperationKinds'
  BY <1>8
  DEF DispatchedStart, StartOperation, StartRun, StartFails, StartRefused,
      OperationKinds, Operations, Syncs, jobVars, loopVars
<1>9. ASSUME NEW c \in Commands, HandedStart(c) PROVE OperationKinds'
  BY <1>9
  DEF HandedStart, StartOperation, StartRun, StartFails, StartRefused,
      OperationKinds, Operations, Syncs, jobVars, loopVars
<1>10. ASSUME NEW c \in Commands, NEW result \in Results, FinishOperation(c, result)
       PROVE OperationKinds'
  BY <1>10 DEF FinishOperation, OperationKinds, Operations, Syncs, jobVars, loopVars
<1>11. ASSUME NEW c \in Commands, ReleaseDeferred(c) PROVE OperationKinds'
  BY <1>11, CommandAssumption
  DEF ReleaseDeferred, OperationKinds, Operations, Syncs, jobVars, loopVars
<1>12. ASSUME NEW c \in Commands, StartCatchUp(c) PROVE OperationKinds'
  BY <1>12
  DEF StartCatchUp, Journaled, GoodJournal, OperationKinds, Operations, Syncs,
      jobVars, loopVars
<1>13. ASSUME NEW c \in Commands, StartReplicaSync(c) PROVE OperationKinds'
  BY <1>13
  DEF StartReplicaSync, OperationKinds, Operations, Syncs, jobVars, loopVars
<1>14. ASSUME NEW c \in Commands, FinishReplicaSync(c) PROVE OperationKinds'
  BY <1>14
  DEF FinishReplicaSync, OperationKinds, Operations, Syncs, jobVars, loopVars
<1>15. ASSUME NEW c \in Commands, StartAgentUpdate(c) PROVE OperationKinds'
  BY <1>15
  DEF StartAgentUpdate, OperationKinds, Operations, Syncs, jobVars, loopVars
<1>15a. ASSUME NEW c \in Commands, UpdateRequestFails(c) PROVE OperationKinds'
  BY <1>15a
  DEF UpdateRequestFails, OperationKinds, Operations, Syncs, jobVars, loopVars
<1>16. ASSUME NEW c \in Commands, ConsumeUpdateResult(c) PROVE OperationKinds'
  BY <1>16
  DEF ConsumeUpdateResult, OperationKinds, Operations, Syncs, jobVars, loopVars
<1>17. ASSUME NEW c \in Commands, CancelQueued(c) PROVE OperationKinds'
  BY <1>17 DEF CancelQueued, OperationKinds, Operations, Syncs, jobVars, loopVars
<1>18. ASSUME NEW c \in Commands, ReportAndRemove(c) PROVE OperationKinds'
  BY <1>18 DEF ReportAndRemove, OperationKinds, Operations, Syncs, jobVars, loopVars
<1>19. ASSUME NEW c \in Commands, ReconcileOne(c) PROVE OperationKinds'
  BY <1>19 DEF ReconcileOne, OperationKinds, Operations, Syncs, jobVars, loopVars
<1>20. ASSUME NEW j \in Jobs, StartReplication(j) PROVE OperationKinds'
  BY <1>20
  DEF StartReplication, BeginReplication, OperationKinds, Operations, Syncs,
      jobVars, loopVars
<1>21. ASSUME NEW j \in Jobs, ResumeReplication(j) PROVE OperationKinds'
  BY <1>21
  DEF ResumeReplication, BeginReplication, OperationKinds, Operations, Syncs,
      jobVars, loopVars
<1>22. ASSUME NEW j \in Jobs, CopySome(j) PROVE OperationKinds'
  BY <1>22
  DEF CopySome, SelectBatch, OperationKinds, Operations, Syncs, jobVars,
      loopVars
<1>23. ASSUME NEW j \in Jobs, NothingToCopy(j) PROVE OperationKinds'
  BY <1>23 DEF NothingToCopy, OperationKinds, Operations, Syncs, jobVars, loopVars
<1>24. ASSUME NEW j \in Jobs, AcquireForCopy(j) PROVE OperationKinds'
  BY <1>24 DEF AcquireForCopy, OperationKinds, Operations, Syncs, jobVars, loopVars
<1>25. ASSUME NEW j \in Jobs, CopyEnds(j) PROVE OperationKinds'
  BY <1>25 DEF CopyEnds, OperationKinds, Operations, Syncs, jobVars, loopVars
<1>26. ASSUME NEW j \in Jobs, NEW ok \in BOOLEAN, FinishBatch(j, ok)
       PROVE OperationKinds'
  BY <1>26 DEF FinishBatch, OperationKinds, Operations, Syncs, jobVars, loopVars
<1>27. ASSUME NEW j \in Jobs, EndReplication(j) PROVE OperationKinds'
  BY <1>27 DEF EndReplication, OperationKinds, Operations, Syncs, jobVars, loopVars
<1>28. ASSUME NEW t \in TailCalls \X Jobs, TailFindsNothing(t) PROVE OperationKinds'
  BY <1>28
  DEF TailFindsNothing, OperationKinds, Operations, Syncs, jobVars, loopVars
<1>29. ASSUME NEW listing \in [Jobs -> Listings], AcceptConfig(listing)
       PROVE OperationKinds'
  BY <1>29 DEF AcceptConfig, OperationKinds, Operations, Syncs, jobVars, loopVars
<1>30. ASSUME FlushJournal PROVE OperationKinds'
  BY <1>30 DEF FlushJournal, OperationKinds, Operations, Syncs, jobVars, loopVars
<1>31. ASSUME CrashAndRestart PROVE OperationKinds'
  BY <1>31 DEF CrashAndRestart, OperationKinds, Operations, Syncs, jobVars, loopVars
<1>32. ASSUME CollectInterrupted PROVE OperationKinds'
  BY <1>32
  DEF CollectInterrupted, OperationKinds, Operations, Syncs, jobVars, loopVars
<1>33. ASSUME FinishReconcile PROVE OperationKinds'
  BY <1>33 DEF FinishReconcile, OperationKinds, Operations, Syncs, jobVars, loopVars
<1>34. CASE UNCHANGED vars
  BY <1>34 DEF vars, OperationKinds, Operations, Syncs, jobVars, loopVars
<1>35. QED
  BY <1>1, <1>2, <1>3, <1>4, <1>5, <1>6, <1>7, <1>8, <1>9, <1>10,
     <1>11, <1>12, <1>13, <1>14, <1>15, <1>15a, <1>16, <1>17, <1>18, <1>19, <1>20,
     <1>21, <1>22, <1>23, <1>24, <1>25, <1>26, <1>27, <1>28, <1>29, <1>30,
     <1>31, <1>32, <1>33, <1>34
  DEF Next, CommandStep, JobStep

\* Nothing is journaled and nothing lives initially.
LEMMA InitSafe == Init => Journaled /\ OperationKinds
BY DEF Init, Journaled, GoodJournal, Settled, StartedAtMostOnce, NoEntry,
    OperationKinds

\* A command is started at most once, across restarts and failed saves: the
\* journal says running on disk before the goroutine of a run exists, and
\* nothing brings a command that was started back into the queue.
THEOREM AtMostOneStart == Spec => []StartedAtMostOnce
<1>1. Init => TypeOK /\ Journaled /\ OperationKinds
  BY InitTypes, InitSafe
<1>2. TypeOK /\ Journaled /\ OperationKinds /\ [Next]_vars
        => (TypeOK /\ Journaled /\ OperationKinds)'
  BY NextTypes, NextJournaled, NextKinds
<1>3. Journaled => StartedAtMostOnce
  BY DEF Journaled
<1>4. QED
  BY <1>1, <1>2, <1>3, PTL DEF Spec

-----------------------------------------------------------------------------
(* Repositories *)

\* The busy set as a lock: exact, and never held twice.
Locked == BusyMeansHeld /\ RepositoryExclusion

\* A run uses repositories of its own job only, and always the primary: two
\* goroutines that hold disjoint repositories work for different jobs.
LEMMA RunJobs ==
    ASSUME NEW c \in Operations \cup Syncs
    PROVE  /\ Primary[JobOf[c]] \in RunRepositories(c)
           /\ RunRepositories(c) \subseteq JobRepositories(JobOf[c])
BY CommandAssumption, JobAssumption
DEF Operations, Syncs, RunRepositories, JobRepositories

\* A copy uses repositories of its own job only.
LEMMA CopyJobs ==
    ASSUME TypeOK, NEW j \in Copying
    PROVE  /\ j \in Jobs
           /\ Primary[j] \in CopyRepositories(j)
           /\ CopyRepositories(j) \subseteq JobRepositories(j)
BY JobAssumption DEF TypeOK, CopyTargets, Copying, CopyRepositories, JobRepositories

\* finishOperation releases more than a backup took.  It is safe because the
\* run holds the primary, and so no other goroutine of the job holds anything.
LEMMA ReleasedIsOwn ==
    ASSUME TypeOK, OperationKinds, RepositoryExclusion, NEW c \in active
    PROVE  /\ RunRepositories(c) \subseteq ReleasedRepositories(c)
           /\ \A d \in Live \ {c} : RunRepositories(d) \cap ReleasedRepositories(c) = {}
           /\ \A j \in Copying : CopyRepositories(j) \cap ReleasedRepositories(c) = {}
<1>1. c \in Operations /\ c \in Live /\ JobOf[c] \in Jobs
  BY CommandAssumption DEF OperationKinds, Live, Operations
<1>2. ReleasedRepositories(c) \subseteq JobRepositories(JobOf[c])
  BY DEF ReleasedRepositories, JobRepositories
<1>3. RunRepositories(c) \subseteq ReleasedRepositories(c)
  BY <1>1 DEF Operations, RunRepositories, ReleasedRepositories
<1>4. ASSUME NEW d \in Live \ {c}
      PROVE  RunRepositories(d) \cap ReleasedRepositories(c) = {}
  <2>1. d \in Operations \cup Syncs /\ JobOf[d] \in Jobs
    BY CommandAssumption DEF Live, OperationKinds, Operations, Syncs
  <2>2. RunRepositories(c) \cap RunRepositories(d) = {}
    BY <1>1 DEF RepositoryExclusion
  <2>3. JobOf[d] # JobOf[c]
    BY <1>1, <2>1, <2>2, RunJobs
  <2> QED
    BY <1>1, <1>2, <2>1, <2>3, RunJobs, OwnRepositories
<1>5. ASSUME NEW j \in Copying
      PROVE  CopyRepositories(j) \cap ReleasedRepositories(c) = {}
  <2>1. RunRepositories(c) \cap CopyRepositories(j) = {}
    BY <1>1 DEF RepositoryExclusion
  <2>2. j # JobOf[c]
    BY <1>1, <2>1, RunJobs, CopyJobs
  <2> QED
    BY <1>1, <1>2, <2>2, CopyJobs, OwnRepositories
<1>6. QED
  BY <1>3, <1>4, <1>5

\* BusyMeansHeld, repository by repository.
LEMMA BusyByElement ==
    BusyMeansHeld <=>
        \A r : r \in repositories <=> \/ \E c \in Live : r \in RunRepositories(c)
                                      \/ \E j \in Copying : r \in CopyRepositories(j)
BY DEF BusyMeansHeld

\* The same of the next state.
LEMMA BusyByElementNext ==
    BusyMeansHeld' <=>
        \A r : r \in repositories' <=> \/ \E c \in Live' : r \in RunRepositories(c)
                                       \/ \E j \in Copying' : r \in CopyRepositories(j)'
BY DEF BusyMeansHeld

\* Exclusion in the next state, with the next state's sets spelled out.
LEMMA ExclusionNext ==
    RepositoryExclusion' <=>
        /\ \A c, d \in Live' : c # d => RunRepositories(c) \cap RunRepositories(d) = {}
        /\ \A c \in Live', j \in Copying' : RunRepositories(c) \cap CopyRepositories(j)' = {}
        /\ \A i, j \in Copying' : i # j => CopyRepositories(i)' \cap CopyRepositories(j)' = {}
BY DEF RepositoryExclusion

\* A step that leaves the copies alone leaves what they hold alone.
LEMMA CopiesUnchanged ==
    ASSUME UNCHANGED copy
    PROVE  Copying' = Copying /\ \A j : CopyRepositories(j)' = CopyRepositories(j)
BY DEF Copying, CopyRepositories

\* A run that takes free repositories.
LEMMA TakingIsSafe ==
    ASSUME Locked, NEW c, RepositoriesFree(c), Live' = Live \cup {c},
           repositories' = repositories \cup RunRepositories(c), UNCHANGED copy
    PROVE  Locked'
<1>1. BusyMeansHeld'
  BY CopiesUnchanged, BusyByElement, BusyByElementNext DEF Locked
<1>2. \A d \in Live : RunRepositories(c) \cap RunRepositories(d) = {}
  BY BusyByElement DEF Locked, RepositoriesFree
<1>3. \A j \in Copying : RunRepositories(c) \cap CopyRepositories(j) = {}
  BY BusyByElement DEF Locked, RepositoriesFree
<1>4. RepositoryExclusion'
  BY <1>2, <1>3, CopiesUnchanged, ExclusionNext DEF Locked, RepositoryExclusion
<1>5. QED
  BY <1>1, <1>4 DEF Locked

\* A run that releases what it holds and nothing another goroutine holds.
LEMMA ReleasingIsSafe ==
    ASSUME Locked, NEW c \in Live, NEW released, Live' = Live \ {c},
           RunRepositories(c) \subseteq released,
           \A d \in Live \ {c} : RunRepositories(d) \cap released = {},
           \A j \in Copying : CopyRepositories(j) \cap released = {},
           repositories' = repositories \ released, UNCHANGED copy
    PROVE  Locked'
<1>1. BusyMeansHeld'
  BY CopiesUnchanged, BusyByElement, BusyByElementNext DEF Locked
<1>2. RepositoryExclusion'
  BY CopiesUnchanged, ExclusionNext DEF Locked, RepositoryExclusion
<1>3. QED
  BY <1>1, <1>2 DEF Locked

\* A step that touches neither the runs nor the copies nor the busy set.
LEMMA QuietIsSafe ==
    ASSUME Locked, UNCHANGED <<active, syncing, repositories, copy>>
    PROVE  Locked'
<1>1. Live' = Live
  BY DEF Live
<1>2. QED
  BY <1>1, CopiesUnchanged, BusyByElement, BusyByElementNext, ExclusionNext
  DEF Locked, RepositoryExclusion

\* A step of a copy that holds nothing, before and after it.
LEMMA IdleCopyIsSafe ==
    ASSUME TypeOK, Locked, NEW j \in Jobs, NEW k, copy[j].phase # "copy",
           k.phase # "copy", copy' = [copy EXCEPT ![j] = k],
           UNCHANGED <<active, syncing, repositories>>
    PROVE  Locked'
<1>1. Live' = Live
  BY DEF Live
<1>2. Copying' = Copying /\ \A i \in Copying : CopyRepositories(i)' = CopyRepositories(i)
  BY DEF TypeOK, Copying, CopyRepositories
<1>3. QED
  BY <1>1, <1>2, BusyByElement, BusyByElementNext, ExclusionNext
  DEF Locked, RepositoryExclusion

\* startReplication finds no goroutine of the job, so nothing it holds is lost.
LEMMA BeginIsSafe ==
    ASSUME TypeOK, OneTransferPerJob, Locked, NEW j \in Jobs, BeginReplication(j)
    PROVE  Locked'
<1>1. CASE agentUpdate = None /\ j \notin replicationActive
  <2>1. copy[j].phase # "copy"
    BY <1>1 DEF OneTransferPerJob
  <2>2. [Idle EXCEPT !.phase = "select"].phase # "copy"
    BY DEF Idle
  <2> QED
    BY <1>1, <2>1, <2>2, IdleCopyIsSafe DEF BeginReplication
<1>2. CASE ~(agentUpdate = None /\ j \notin replicationActive)
  BY <1>2, QuietIsSafe DEF BeginReplication
<1>3. QED
  BY <1>1, <1>2

\* The copy takes both repositories, which are free.
LEMMA AcquireIsSafe ==
    ASSUME TypeOK, Locked, NEW j \in Jobs, AcquireForCopy(j)
    PROVE  Locked'
<1>1. Live' = Live
  BY DEF AcquireForCopy, Live
<1>2. CASE CopyRepositories(j) \cap repositories = {}
  <2>1. /\ repositories' = repositories \cup CopyRepositories(j)
        /\ copy' = [copy EXCEPT ![j].phase = "copy"]
    BY <1>2 DEF AcquireForCopy
  <2>2. j \notin Copying
    BY DEF AcquireForCopy, Copying
  <2>3. /\ Copying' = Copying \cup {j}
        /\ \A i \in Jobs : CopyRepositories(i)' = CopyRepositories(i)
    BY <2>1 DEF TypeOK, Copies, Copying, CopyRepositories
  <2>4. Copying \subseteq Jobs
    BY DEF Copying
  <2>5. BusyMeansHeld'
    BY <1>1, <2>1, <2>3, <2>4, BusyByElement, BusyByElementNext DEF Locked
  <2>6. /\ \A c \in Live : RunRepositories(c) \cap CopyRepositories(j) = {}
        /\ \A i \in Copying : CopyRepositories(i) \cap CopyRepositories(j) = {}
    BY <1>2, BusyByElement DEF Locked
  <2>7. RepositoryExclusion'
    BY <1>1, <2>3, <2>4, <2>6, ExclusionNext DEF Locked, RepositoryExclusion
  <2> QED
    BY <2>5, <2>7 DEF Locked
<1>3. CASE CopyRepositories(j) \cap repositories # {}
  <2>1. copy[j].phase # "copy"
    BY DEF AcquireForCopy
  <2>2. [Idle EXCEPT !.phase = "ending"].phase # "copy"
    BY DEF Idle
  <2> QED
    BY <1>3, <2>1, <2>2, IdleCopyIsSafe DEF AcquireForCopy
<1>4. QED
  BY <1>2, <1>3

\* The copy releases both repositories.
LEMMA CopyEndsIsSafe ==
    ASSUME TypeOK, Locked, NEW j \in Jobs, CopyEnds(j)
    PROVE  Locked'
<1>1. Live' = Live
  BY DEF CopyEnds, Live
<1>2. /\ repositories' = repositories \ CopyRepositories(j)
      /\ copy' = [copy EXCEPT ![j].phase = "verify"]
      /\ j \in Copying
  BY DEF CopyEnds, Copying
<1>3. /\ Copying' = Copying \ {j}
      /\ \A i \in Jobs : CopyRepositories(i)' = CopyRepositories(i)
  BY <1>2 DEF TypeOK, Copies, Copying, CopyRepositories
<1>4. Copying \subseteq Jobs
  BY DEF Copying
<1>5. BusyMeansHeld'
  BY <1>1, <1>2, <1>3, <1>4, BusyByElement, BusyByElementNext
  DEF Locked, RepositoryExclusion
<1>6. RepositoryExclusion'
  BY <1>1, <1>3, <1>4, ExclusionNext DEF Locked, RepositoryExclusion
<1>7. QED
  BY <1>5, <1>6 DEF Locked

\* After a restart nothing runs and nothing is busy.
LEMMA RestartIsSafe ==
    ASSUME CrashAndRestart
    PROVE  Locked'
<1>1. Live' = {} /\ Copying' = {} /\ repositories' = {}
  BY DEF CrashAndRestart, Live, Copying, Idle
<1>2. QED
  BY <1>1, BusyByElementNext, ExclusionNext DEF Locked

\* Every step keeps the busy set exact and the goroutines apart.
LEMMA NextLocked ==
    ASSUME TypeOK, OperationKinds, OneTransferPerJob, Locked, [Next]_vars
    PROVE  Locked'
<1>1. ASSUME NEW c \in Commands, ReceiveCommand(c) PROVE Locked'
  BY <1>1, QuietIsSafe DEF ReceiveCommand, jobVars
<1>2. ASSUME NEW c \in Commands, NEW how \in Hows, ScheduleOccurrence(c, how)
      PROVE Locked'
  BY <1>2, QuietIsSafe DEF ScheduleOccurrence, jobVars
<1>3. ASSUME NEW c \in Commands, DiscardExpired(c) PROVE Locked'
  BY <1>3, QuietIsSafe DEF DiscardExpired, jobVars
<1>4. ASSUME NEW c \in Commands, Acknowledge(c) PROVE Locked'
  BY <1>4, QuietIsSafe DEF Acknowledge, jobVars
<1>5. ASSUME NEW c \in Commands, SkipDispatched(c) PROVE Locked'
  BY <1>5, QuietIsSafe DEF SkipDispatched, jobVars
<1>6. ASSUME NEW c \in Commands, InspectSource(c) PROVE Locked'
  BY <1>6, QuietIsSafe DEF InspectSource, jobVars
<1>7. ASSUME NEW c \in Commands, CancelRun(c) PROVE Locked'
  BY <1>7, QuietIsSafe DEF CancelRun, jobVars
<1>8. ASSUME NEW c \in Commands, DispatchedStart(c) PROVE Locked'
  <2>1. CASE StartRun(c)
    <3>1. Live' = Live \cup {c}
      BY <2>1 DEF StartRun, Live
    <3> QED
      BY <2>1, <3>1, TakingIsSafe DEF StartRun, CanStart
  <2>2. CASE StartFails(c) \/ StartRefused
    BY <2>2, QuietIsSafe DEF StartFails, StartRefused, jobVars
  <2> QED
    BY <1>8, <2>1, <2>2 DEF DispatchedStart, StartOperation
<1>9. ASSUME NEW c \in Commands, HandedStart(c) PROVE Locked'
  <2>1. CASE StartRun(c)
    <3>1. Live' = Live \cup {c}
      BY <2>1 DEF StartRun, Live
    <3> QED
      BY <2>1, <3>1, TakingIsSafe DEF StartRun, CanStart
  <2>2. CASE StartFails(c) \/ StartRefused
    BY <2>2, QuietIsSafe DEF StartFails, StartRefused, jobVars
  <2> QED
    BY <1>9, <2>1, <2>2 DEF HandedStart, StartOperation
<1>10. ASSUME NEW c \in Commands, NEW result \in Results, FinishOperation(c, result)
       PROVE Locked'
  <2>1. c \in active /\ c \in Live /\ Live' = Live \ {c}
    BY <1>10 DEF FinishOperation, Live, OperationKinds, Operations, Syncs
  <2> QED
    BY <1>10, <2>1, ReleasedIsOwn, ReleasingIsSafe DEF FinishOperation, Locked
<1>11. ASSUME NEW c \in Commands, ReleaseDeferred(c) PROVE Locked'
  BY <1>11, QuietIsSafe DEF ReleaseDeferred, jobVars
<1>12. ASSUME NEW c \in Commands, StartCatchUp(c) PROVE Locked'
  BY <1>12, QuietIsSafe DEF StartCatchUp, jobVars
<1>13. ASSUME NEW c \in Commands, StartReplicaSync(c) PROVE Locked'
  <2>1. CASE UNCHANGED jobVars
    BY <2>1, QuietIsSafe DEF jobVars
  <2>2. CASE /\ syncing' = syncing \cup {c}
             /\ repositories' = repositories \cup RunRepositories(c)
             /\ UNCHANGED <<active, copy>>
    <3>1. Live' = Live \cup {c}
      BY <2>2 DEF Live
    <3> QED
      BY <1>13, <2>2, <3>1, TakingIsSafe DEF StartReplicaSync, CanSync
  <2> QED
    BY <1>13, <2>1, <2>2 DEF StartReplicaSync
<1>14. ASSUME NEW c \in Commands, FinishReplicaSync(c) PROVE Locked'
  <2>1. c \in Live /\ Live' = Live \ {c}
    BY <1>14 DEF FinishReplicaSync, Live, OperationKinds, Operations, Syncs
  <2>2. /\ \A d \in Live \ {c} : RunRepositories(d) \cap RunRepositories(c) = {}
        /\ \A j \in Copying : CopyRepositories(j) \cap RunRepositories(c) = {}
    BY <2>1 DEF Locked, RepositoryExclusion
  <2> QED
    BY <1>14, <2>1, <2>2, ReleasingIsSafe DEF FinishReplicaSync
<1>15. ASSUME NEW c \in Commands, StartAgentUpdate(c) PROVE Locked'
  BY <1>15, QuietIsSafe DEF StartAgentUpdate, jobVars
<1>15a. ASSUME NEW c \in Commands, UpdateRequestFails(c) PROVE Locked'
  BY <1>15a, QuietIsSafe DEF UpdateRequestFails, jobVars
<1>16. ASSUME NEW c \in Commands, ConsumeUpdateResult(c) PROVE Locked'
  BY <1>16, QuietIsSafe DEF ConsumeUpdateResult, jobVars
<1>17. ASSUME NEW c \in Commands, CancelQueued(c) PROVE Locked'
  BY <1>17, QuietIsSafe DEF CancelQueued, jobVars
<1>18. ASSUME NEW c \in Commands, ReportAndRemove(c) PROVE Locked'
  BY <1>18, QuietIsSafe DEF ReportAndRemove, jobVars
<1>19. ASSUME NEW c \in Commands, ReconcileOne(c) PROVE Locked'
  BY <1>19, QuietIsSafe DEF ReconcileOne, jobVars
<1>20. ASSUME NEW j \in Jobs, StartReplication(j) PROVE Locked'
  BY <1>20, BeginIsSafe DEF StartReplication
<1>21. ASSUME NEW j \in Jobs, ResumeReplication(j) PROVE Locked'
  BY <1>21, BeginIsSafe DEF ResumeReplication
<1>22. ASSUME NEW j \in Jobs, CopySome(j) PROVE Locked'
  <2>1. PICK r \in Replicas[j], batch \in SUBSET Commands : SelectBatch(j, r, batch)
    BY <1>22 DEF CopySome
  <2> QED
    BY <2>1, IdleCopyIsSafe DEF SelectBatch
<1>23. ASSUME NEW j \in Jobs, NothingToCopy(j) PROVE Locked'
  <2>1. [Idle EXCEPT !.phase = "ending"].phase # "copy"
    BY DEF Idle
  <2> QED
    BY <1>23, <2>1, IdleCopyIsSafe DEF NothingToCopy
<1>24. ASSUME NEW j \in Jobs, AcquireForCopy(j) PROVE Locked'
  BY <1>24, AcquireIsSafe
<1>25. ASSUME NEW j \in Jobs, CopyEnds(j) PROVE Locked'
  BY <1>25, CopyEndsIsSafe
<1>26. ASSUME NEW j \in Jobs, NEW ok \in BOOLEAN, FinishBatch(j, ok) PROVE Locked'
  <2>1. [Idle EXCEPT !.phase = IF ok THEN "select" ELSE "ending"].phase # "copy"
    BY DEF Idle
  <2> QED
    BY <1>26, <2>1, IdleCopyIsSafe DEF FinishBatch
<1>27. ASSUME NEW j \in Jobs, EndReplication(j) PROVE Locked'
  <2>1. Idle.phase # "copy"
    BY DEF Idle
  <2> QED
    BY <1>27, <2>1, IdleCopyIsSafe DEF EndReplication
<1>28. ASSUME NEW t \in TailCalls \X Jobs, TailFindsNothing(t) PROVE Locked'
  BY <1>28, QuietIsSafe DEF TailFindsNothing, jobVars
<1>29. ASSUME NEW listing \in [Jobs -> Listings], AcceptConfig(listing)
       PROVE Locked'
  BY <1>29, QuietIsSafe DEF AcceptConfig, jobVars
<1>30. ASSUME FlushJournal PROVE Locked'
  BY <1>30, QuietIsSafe DEF FlushJournal, jobVars
<1>31. ASSUME CrashAndRestart PROVE Locked'
  BY <1>31, RestartIsSafe
<1>32. ASSUME CollectInterrupted PROVE Locked'
  BY <1>32, QuietIsSafe DEF CollectInterrupted, jobVars
<1>33. ASSUME FinishReconcile PROVE Locked'
  BY <1>33, QuietIsSafe DEF FinishReconcile, jobVars
<1>34. CASE UNCHANGED vars
  BY <1>34, QuietIsSafe DEF vars
<1>35. QED
  BY <1>1, <1>2, <1>3, <1>4, <1>5, <1>6, <1>7, <1>8, <1>9, <1>10,
     <1>11, <1>12, <1>13, <1>14, <1>15, <1>15a, <1>16, <1>17, <1>18, <1>19, <1>20,
     <1>21, <1>22, <1>23, <1>24, <1>25, <1>26, <1>27, <1>28, <1>29, <1>30,
     <1>31, <1>32, <1>33, <1>34
  DEF Next, CommandStep, JobStep

\* Every step keeps the transfers of a job apart.
LEMMA NextTransfers ==
    ASSUME TypeOK, OperationKinds, OneTransferPerJob, [Next]_vars
    PROVE  OneTransferPerJob'
<1> USE CommandAssumption DEF OneTransferPerJob
<1>1. ASSUME NEW c \in Commands, ReceiveCommand(c) PROVE OneTransferPerJob'
  BY <1>1 DEF ReceiveCommand, jobVars
<1>2. ASSUME NEW c \in Commands, NEW how \in Hows, ScheduleOccurrence(c, how)
      PROVE OneTransferPerJob'
  BY <1>2 DEF ScheduleOccurrence, jobVars
<1>3. ASSUME NEW c \in Commands, DiscardExpired(c) PROVE OneTransferPerJob'
  BY <1>3 DEF DiscardExpired, jobVars
<1>4. ASSUME NEW c \in Commands, Acknowledge(c) PROVE OneTransferPerJob'
  BY <1>4 DEF Acknowledge, jobVars
<1>5. ASSUME NEW c \in Commands, SkipDispatched(c) PROVE OneTransferPerJob'
  BY <1>5 DEF SkipDispatched, jobVars
<1>6. ASSUME NEW c \in Commands, InspectSource(c) PROVE OneTransferPerJob'
  BY <1>6 DEF InspectSource, jobVars
<1>7. ASSUME NEW c \in Commands, CancelRun(c) PROVE OneTransferPerJob'
  BY <1>7 DEF CancelRun, jobVars
<1>8. ASSUME NEW c \in Commands, DispatchedStart(c) PROVE OneTransferPerJob'
  BY <1>8
  DEF DispatchedStart, StartOperation, StartRun, StartFails, StartRefused,
      jobVars
<1>9. ASSUME NEW c \in Commands, HandedStart(c) PROVE OneTransferPerJob'
  BY <1>9
  DEF HandedStart, StartOperation, StartRun, StartFails, StartRefused, jobVars
<1>10. ASSUME NEW c \in Commands, NEW result \in Results, FinishOperation(c, result)
       PROVE OneTransferPerJob'
  BY <1>10 DEF FinishOperation
<1>11. ASSUME NEW c \in Commands, ReleaseDeferred(c) PROVE OneTransferPerJob'
  BY <1>11 DEF ReleaseDeferred, jobVars
<1>12. ASSUME NEW c \in Commands, StartCatchUp(c) PROVE OneTransferPerJob'
  BY <1>12 DEF StartCatchUp, jobVars
<1>13. ASSUME NEW c \in Commands, StartReplicaSync(c) PROVE OneTransferPerJob'
  BY <1>13 DEF TypeOK, StartReplicaSync, CanSync, jobVars
<1>14. ASSUME NEW c \in Commands, FinishReplicaSync(c) PROVE OneTransferPerJob'
  BY <1>14 DEF TypeOK, FinishReplicaSync
<1>15. ASSUME NEW c \in Commands, StartAgentUpdate(c) PROVE OneTransferPerJob'
  BY <1>15 DEF StartAgentUpdate, jobVars
<1>15a. ASSUME NEW c \in Commands, UpdateRequestFails(c) PROVE OneTransferPerJob'
  BY <1>15a DEF UpdateRequestFails, jobVars
<1>16. ASSUME NEW c \in Commands, ConsumeUpdateResult(c) PROVE OneTransferPerJob'
  BY <1>16 DEF ConsumeUpdateResult, jobVars
<1>17. ASSUME NEW c \in Commands, CancelQueued(c) PROVE OneTransferPerJob'
  BY <1>17 DEF CancelQueued, jobVars
<1>18. ASSUME NEW c \in Commands, ReportAndRemove(c) PROVE OneTransferPerJob'
  BY <1>18 DEF ReportAndRemove, jobVars
<1>19. ASSUME NEW c \in Commands, ReconcileOne(c) PROVE OneTransferPerJob'
  BY <1>19 DEF ReconcileOne, jobVars
<1>20. ASSUME NEW j \in Jobs, StartReplication(j) PROVE OneTransferPerJob'
  BY <1>20 DEF TypeOK, StartReplication, BeginReplication, Idle
<1>21. ASSUME NEW j \in Jobs, ResumeReplication(j) PROVE OneTransferPerJob'
  BY <1>21 DEF TypeOK, ResumeReplication, BeginReplication, Idle
<1>22. ASSUME NEW j \in Jobs, CopySome(j) PROVE OneTransferPerJob'
  BY <1>22 DEF TypeOK, CopySome, SelectBatch
<1>23. ASSUME NEW j \in Jobs, NothingToCopy(j) PROVE OneTransferPerJob'
  BY <1>23 DEF TypeOK, NothingToCopy, Idle
<1>24. ASSUME NEW j \in Jobs, AcquireForCopy(j) PROVE OneTransferPerJob'
  BY <1>24 DEF TypeOK, Copies, AcquireForCopy, Idle
<1>25. ASSUME NEW j \in Jobs, CopyEnds(j) PROVE OneTransferPerJob'
  BY <1>25 DEF TypeOK, Copies, CopyEnds
<1>26. ASSUME NEW j \in Jobs, NEW ok \in BOOLEAN, FinishBatch(j, ok)
       PROVE OneTransferPerJob'
  BY <1>26 DEF TypeOK, FinishBatch, Idle
<1>27. ASSUME NEW j \in Jobs, EndReplication(j) PROVE OneTransferPerJob'
  BY <1>27 DEF TypeOK, EndReplication, Idle
<1>28. ASSUME NEW t \in TailCalls \X Jobs, TailFindsNothing(t)
       PROVE OneTransferPerJob'
  BY <1>28 DEF TailFindsNothing, jobVars
<1>29. ASSUME NEW listing \in [Jobs -> Listings], AcceptConfig(listing)
       PROVE OneTransferPerJob'
  BY <1>29 DEF AcceptConfig, jobVars
<1>30. ASSUME FlushJournal PROVE OneTransferPerJob'
  BY <1>30 DEF FlushJournal, jobVars
<1>31. ASSUME CrashAndRestart PROVE OneTransferPerJob'
  BY <1>31 DEF CrashAndRestart, Idle
<1>32. ASSUME CollectInterrupted PROVE OneTransferPerJob'
  BY <1>32 DEF CollectInterrupted, jobVars
<1>33. ASSUME FinishReconcile PROVE OneTransferPerJob'
  BY <1>33 DEF FinishReconcile, jobVars
<1>34. CASE UNCHANGED vars
  BY <1>34 DEF vars
<1>35. QED
  BY <1>1, <1>2, <1>3, <1>4, <1>5, <1>6, <1>7, <1>8, <1>9, <1>10,
     <1>11, <1>12, <1>13, <1>14, <1>15, <1>15a, <1>16, <1>17, <1>18, <1>19, <1>20,
     <1>21, <1>22, <1>23, <1>24, <1>25, <1>26, <1>27, <1>28, <1>29, <1>30,
     <1>31, <1>32, <1>33, <1>34
  DEF Next, CommandStep, JobStep

\* The inductive invariant.
Safe == TypeOK /\ Journaled /\ OperationKinds /\ OneTransferPerJob /\ Locked

\* The parts together are inductive.
LEMMA SafeInvariant == Spec => []Safe
<1>1. Init => Safe
  <2>1. Init => OneTransferPerJob
    BY DEF Init, OneTransferPerJob, Idle
  <2>2. Init => Live = {} /\ Copying = {} /\ repositories = {}
    BY DEF Init, Live, Copying, Idle
  <2>3. Init => Locked
    BY <2>2, BusyByElement DEF Locked, RepositoryExclusion
  <2> QED
    BY <2>1, <2>3, InitTypes, InitSafe DEF Safe
<1>2. Safe /\ [Next]_vars => Safe'
  BY NextTypes, NextJournaled, NextKinds, NextTransfers, NextLocked DEF Safe
<1>3. QED
  BY <1>1, <1>2, PTL DEF Spec

\* No two goroutines - backups, maintenance, replica syncs or copies - use the
\* same repository.
THEOREM Exclusion == Spec => []RepositoryExclusion
<1>1. Safe => RepositoryExclusion
  BY DEF Safe, Locked
<1>2. QED
  BY <1>1, SafeInvariant, PTL

\* The busy set is exactly what the goroutines that live hold: no mark is lost
\* and none is left behind.
THEOREM BusySetIsExact == Spec => []BusyMeansHeld
<1>1. Safe => BusyMeansHeld
  BY DEF Safe, Locked
<1>2. QED
  BY <1>1, SafeInvariant, PTL

\* A job has at most one transfer at a time, and replicationActive says so.
THEOREM OneTransfer == Spec => []OneTransferPerJob
<1>1. Safe => OneTransferPerJob
  BY DEF Safe
<1>2. QED
  BY <1>1, SafeInvariant, PTL

-----------------------------------------------------------------------------
(* Maintenance and pending replication *)

\* No copy is owing in K that is not owing in J.
OwesNoMore(J, K) == \A d \in Commands : K[d].pending \subseteq J[d].pending

\* No change to a journal other than the end of a backup makes a copy owing.
LEMMA PendingUpdates ==
    ASSUME NEW J \in Journals, NEW c \in Commands
    PROVE  /\ OwesNoMore(J, J)
           /\ OwesNoMore(J, [J EXCEPT ![c] = Removed])
           /\ OwesNoMore(J, [J EXCEPT ![c] = [NoEntry EXCEPT !.state = "received"]])
           /\ \A how \in Hows : OwesNoMore(J, [J EXCEPT ![c] = ScheduledEntry(how)])
           /\ \A s \in States, o \in Outcomes :
                 OwesNoMore(J, [J EXCEPT ![c].state = s, ![c].outcome = o])
           /\ \A s \in States : OwesNoMore(J, [J EXCEPT ![c].state = s])
           /\ OwesNoMore(J, [J EXCEPT ![c].acked = TRUE])
           /\ \A w \in Waits : OwesNoMore(J, [J EXCEPT ![c].waits = w])
<1> USE DEF Journals, Entry, OwesNoMore
<1>1. OwesNoMore(J, J) /\ OwesNoMore(J, [J EXCEPT ![c] = Removed])
  BY DEF Removed, NoEntry
<1>2. OwesNoMore(J, [J EXCEPT ![c] = [NoEntry EXCEPT !.state = "received"]])
  BY DEF NoEntry
<1>3. \A how \in Hows : OwesNoMore(J, [J EXCEPT ![c] = ScheduledEntry(how)])
  <2>1. \A how \in Hows : ScheduledEntry(how).pending = {}
    BY DEF ScheduledEntry, NoEntry
  <2> QED
    BY <2>1
<1>4. \A s \in States, o \in Outcomes :
         OwesNoMore(J, [J EXCEPT ![c].state = s, ![c].outcome = o])
  OBVIOUS
<1>5. \A s \in States : OwesNoMore(J, [J EXCEPT ![c].state = s])
  OBVIOUS
<1>6. OwesNoMore(J, [J EXCEPT ![c].acked = TRUE])
  OBVIOUS
<1>7. \A w \in Waits : OwesNoMore(J, [J EXCEPT ![c].waits = w])
  OBVIOUS
<1>8. QED
  BY <1>1, <1>2, <1>3, <1>4, <1>5, <1>6, <1>7

\* A step that starts no maintenance and adds nothing that is owing keeps it.
LEMMA PendingShrinks ==
    ASSUME MaintenanceAfterReplication, active' \subseteq active,
           OwesNoMore(journal, journal')
    PROVE  MaintenanceAfterReplication'
BY DEF OwesNoMore, MaintenanceAfterReplication, ActiveOf

\* Maintenance starts when no copy is owing.
LEMMA StartAfterCopies ==
    ASSUME TypeOK, MaintenanceAfterReplication, NEW c \in Commands, StartRun(c)
    PROVE  MaintenanceAfterReplication'
<1>1. OwesNoMore(journal, journal')
  BY PendingUpdates, Names DEF StartRun, SaveJournal, TypeOK, Journals
<1>2. active' = active \cup {c}
  BY DEF StartRun
<1>3. Kind[c] # "backup" => ~HasPendingReplication(JobOf[c])
  BY DEF StartRun, CanStart, CopiesDone
<1>4. QED
  BY <1>1, <1>2, <1>3
  DEF OwesNoMore, MaintenanceAfterReplication, ActiveOf, HasPendingReplication

\* A backup that ends owes copies, but then no maintenance of its job runs: both
\* would hold the primary.
LEMMA BackupEndsAlone ==
    ASSUME Safe, MaintenanceAfterReplication, NEW c \in Commands, NEW result,
           FinishOperation(c, result)
    PROVE  MaintenanceAfterReplication'
<1>1. c \in active /\ active' = active \ {c}
  BY DEF FinishOperation
<1>2. ASSUME NEW m \in ActiveOf("maintenance"), m # c, Kind[c] = "backup"
      PROVE  JobOf[m] # JobOf[c]
  <2>1. m \in Operations /\ c \in Operations /\ m \in Live /\ c \in Live
    BY <1>1 DEF Safe, OperationKinds, ActiveOf, Live
  <2>2. RunRepositories(m) \cap RunRepositories(c) = {}
    BY <1>2, <2>1 DEF Safe, Locked, RepositoryExclusion
  <2> QED
    BY <2>1, <2>2, RunJobs
<1>3. \A d \in Commands \ {c} : journal'[d] = journal[d]
  BY DEF Safe, TypeOK, FinishOperation, TrySaveJournal, SaveJournal,
      SaveJournalFails
<1>4. QED
  BY <1>1, <1>2, <1>3 DEF MaintenanceAfterReplication, ActiveOf

\* Every step keeps MaintenanceAfterReplication.
LEMMA NextAfterReplication ==
    ASSUME Safe, MaintenanceAfterReplication, [Next]_vars
    PROVE  MaintenanceAfterReplication'
<1> TypeOK /\ journal \in Journals /\ OwesNoMore(journal, journal)
  BY DEF Safe, TypeOK, Journals, OwesNoMore
<1>1. ASSUME NEW c \in Commands, ReceiveCommand(c)
      PROVE MaintenanceAfterReplication'
  <2> DEFINE next == [journal EXCEPT ![c] = [NoEntry EXCEPT !.state = "received"]]
  <2>1. OwesNoMore(journal, next)
    BY PendingUpdates, Names
  <2>2. journal' \in {journal, next}
    BY <1>1 DEF ReceiveCommand, TrySaveJournal, SaveJournal, SaveJournalFails
  <2> HIDE DEF next
  <2> QED
    BY <1>1, <2>1, <2>2, PendingShrinks DEF ReceiveCommand, jobVars
<1>2. ASSUME NEW c \in Commands, NEW how \in Hows, ScheduleOccurrence(c, how)
      PROVE MaintenanceAfterReplication'
  <2> DEFINE next == [journal EXCEPT ![c] = ScheduledEntry(how)]
  <2>1. OwesNoMore(journal, next)
    BY PendingUpdates, Names
  <2>2. journal' \in {journal, next}
    BY <1>2 DEF ScheduleOccurrence, TrySaveJournal, SaveJournal, SaveJournalFails
  <2> HIDE DEF next
  <2> QED
    BY <1>2, <2>1, <2>2, PendingShrinks DEF ScheduleOccurrence, jobVars
<1>3. ASSUME NEW c \in Commands, DiscardExpired(c)
      PROVE MaintenanceAfterReplication'
  <2> DEFINE next == [journal EXCEPT ![c] = Removed]
  <2>1. OwesNoMore(journal, next)
    BY PendingUpdates, Names
  <2>2. journal' \in {journal, next}
    BY <1>3 DEF DiscardExpired, TrySaveJournal, SaveJournal, SaveJournalFails
  <2> HIDE DEF next
  <2> QED
    BY <1>3, <2>1, <2>2, PendingShrinks DEF DiscardExpired, jobVars
<1>4. ASSUME NEW c \in Commands, Acknowledge(c) PROVE MaintenanceAfterReplication'
  <2> DEFINE next == [journal EXCEPT ![c].acked = TRUE]
  <2>1. OwesNoMore(journal, next)
    BY PendingUpdates, Names
  <2>2. journal' \in {journal, next}
    BY <1>4 DEF Acknowledge, TrySaveJournal, SaveJournal, SaveJournalFails
  <2> HIDE DEF next
  <2> QED
    BY <1>4, <2>1, <2>2, PendingShrinks DEF Acknowledge, jobVars
<1>5. ASSUME NEW c \in Commands, SkipDispatched(c)
      PROVE MaintenanceAfterReplication'
  <2> DEFINE next == FinishedWithoutExecution(c)
  <2>1. OwesNoMore(journal, next)
    BY PendingUpdates, Names DEF FinishedWithoutExecution
  <2>2. journal' \in {journal, next}
    BY <1>5 DEF SkipDispatched, TrySaveJournal, SaveJournal, SaveJournalFails
  <2> HIDE DEF next
  <2> QED
    BY <1>5, <2>1, <2>2, PendingShrinks DEF SkipDispatched, jobVars
<1>6. ASSUME NEW c \in Commands, InspectSource(c) PROVE MaintenanceAfterReplication'
  <2> DEFINE next == [journal EXCEPT ![c].state = "finished", ![c].outcome = "executed"]
  <2>1. OwesNoMore(journal, next)
    BY PendingUpdates, Names
  <2>2. journal' \in {journal, next}
    BY <1>6 DEF InspectSource, TrySaveJournal, SaveJournal, SaveJournalFails
  <2> HIDE DEF next
  <2> QED
    BY <1>6, <2>1, <2>2, PendingShrinks DEF InspectSource, jobVars
<1>7. ASSUME NEW c \in Commands, CancelRun(c) PROVE MaintenanceAfterReplication'
  <2> DEFINE next == FinishedWithoutExecution(c)
  <2>1. OwesNoMore(journal, next)
    BY PendingUpdates, Names DEF FinishedWithoutExecution
  <2>2. journal' \in {journal, next}
    BY <1>7 DEF CancelRun, TrySaveJournal, SaveJournal, SaveJournalFails
  <2> HIDE DEF next
  <2> QED
    BY <1>7, <2>1, <2>2, PendingShrinks DEF CancelRun, jobVars
<1>8. ASSUME NEW c \in Commands, DispatchedStart(c)
      PROVE MaintenanceAfterReplication'
  <2>1. CASE StartRun(c)
    BY <2>1, StartAfterCopies
  <2>2. CASE StartFails(c) \/ StartRefused
    BY <2>2, PendingShrinks DEF StartFails, StartRefused, SaveJournalFails, jobVars
  <2> QED
    BY <1>8, <2>1, <2>2 DEF DispatchedStart, StartOperation
<1>9. ASSUME NEW c \in Commands, HandedStart(c) PROVE MaintenanceAfterReplication'
  <2>1. CASE StartRun(c)
    BY <2>1, StartAfterCopies
  <2>2. CASE StartFails(c) \/ StartRefused
    BY <2>2, PendingShrinks DEF StartFails, StartRefused, SaveJournalFails, jobVars
  <2> QED
    BY <1>9, <2>1, <2>2 DEF HandedStart, StartOperation
<1>10. ASSUME NEW c \in Commands, NEW result \in Results, FinishOperation(c, result)
       PROVE MaintenanceAfterReplication'
  BY <1>10, BackupEndsAlone
<1>11. ASSUME NEW c \in Commands, ReleaseDeferred(c)
       PROVE MaintenanceAfterReplication'
  <2> DEFINE next == [journal EXCEPT ![c].waits = "nothing"]
  <2>1. OwesNoMore(journal, next)
    BY PendingUpdates, Names
  <2>2. journal' \in {journal, next}
    BY <1>11 DEF ReleaseDeferred, TrySaveJournal, SaveJournal, SaveJournalFails
  <2> HIDE DEF next
  <2> QED
    BY <1>11, <2>1, <2>2, PendingShrinks DEF ReleaseDeferred, jobVars
<1>12. ASSUME NEW c \in Commands, StartCatchUp(c) PROVE MaintenanceAfterReplication'
  BY <1>12, PendingShrinks DEF StartCatchUp, jobVars
<1>13. ASSUME NEW c \in Commands, StartReplicaSync(c)
       PROVE MaintenanceAfterReplication'
  <2> DEFINE next == [journal EXCEPT ![c].state = "running"]
  <2>1. OwesNoMore(journal, next)
    BY PendingUpdates, Names
  <2>2. journal' \in {journal, next}
    BY <1>13 DEF StartReplicaSync, TrySaveJournal, SaveJournal, SaveJournalFails
  <2> HIDE DEF next
  <2> QED
    BY <1>13, <2>1, <2>2, PendingShrinks DEF StartReplicaSync, jobVars
<1>14. ASSUME NEW c \in Commands, FinishReplicaSync(c)
       PROVE MaintenanceAfterReplication'
  <2> DEFINE next == [journal EXCEPT ![c].state = "finished", ![c].outcome = "executed"]
  <2>1. OwesNoMore(journal, next)
    BY PendingUpdates, Names
  <2>2. journal' \in {journal, next}
    BY <1>14 DEF FinishReplicaSync, TrySaveJournal, SaveJournal, SaveJournalFails
  <2> HIDE DEF next
  <2> QED
    BY <1>14, <2>1, <2>2, PendingShrinks DEF FinishReplicaSync
<1>15. ASSUME NEW c \in Commands, StartAgentUpdate(c)
       PROVE MaintenanceAfterReplication'
  <2> DEFINE next == [journal EXCEPT ![c].state = "running"]
  <2>1. OwesNoMore(journal, next)
    BY PendingUpdates, Names
  <2>2. journal' \in {journal, next}
    BY <1>15 DEF StartAgentUpdate, TrySaveJournal, SaveJournal, SaveJournalFails
  <2> HIDE DEF next
  <2> QED
    BY <1>15, <2>1, <2>2, PendingShrinks DEF StartAgentUpdate, jobVars
<1>15a. ASSUME NEW c \in Commands, UpdateRequestFails(c)
       PROVE MaintenanceAfterReplication'
  <2> DEFINE next == [journal EXCEPT ![c].state = "received"]
  <2>1. OwesNoMore(journal, next)
    BY PendingUpdates, Names
  <2>2. journal' \in {journal, next}
    BY <1>15a DEF UpdateRequestFails, TrySaveJournal, SaveJournal, SaveJournalFails
  <2> HIDE DEF next
  <2> QED
    BY <1>15a, <2>1, <2>2, PendingShrinks DEF UpdateRequestFails, jobVars
<1>16. ASSUME NEW c \in Commands, ConsumeUpdateResult(c)
       PROVE MaintenanceAfterReplication'
  <2> DEFINE next == [journal EXCEPT ![c].state = "finished", ![c].outcome = "executed"]
  <2>1. OwesNoMore(journal, next)
    BY PendingUpdates, Names
  <2>2. journal' \in {journal, next}
    BY <1>16 DEF ConsumeUpdateResult, TrySaveJournal, SaveJournal, SaveJournalFails
  <2> HIDE DEF next
  <2> QED
    BY <1>16, <2>1, <2>2, PendingShrinks DEF ConsumeUpdateResult, jobVars
<1>17. ASSUME NEW c \in Commands, CancelQueued(c) PROVE MaintenanceAfterReplication'
  <2> DEFINE next == FinishedWithoutExecution(c)
  <2>1. OwesNoMore(journal, next)
    BY PendingUpdates, Names DEF FinishedWithoutExecution
  <2>2. journal' \in {journal, next}
    BY <1>17 DEF CancelQueued, TrySaveJournal, SaveJournal, SaveJournalFails
  <2> HIDE DEF next
  <2> QED
    BY <1>17, <2>1, <2>2, PendingShrinks DEF CancelQueued, jobVars
<1>18. ASSUME NEW c \in Commands, ReportAndRemove(c)
       PROVE MaintenanceAfterReplication'
  <2> DEFINE next == [journal EXCEPT ![c] = Removed]
  <2>1. OwesNoMore(journal, next)
    BY PendingUpdates, Names
  <2>2. journal' \in {journal, next}
    BY <1>18 DEF ReportAndRemove, TrySaveJournal, SaveJournal, SaveJournalFails
  <2> HIDE DEF next
  <2> QED
    BY <1>18, <2>1, <2>2, PendingShrinks DEF ReportAndRemove, jobVars
<1>19. ASSUME NEW c \in Commands, ReconcileOne(c) PROVE MaintenanceAfterReplication'
  <2> DEFINE next == Reconciled(c)
  <2>1. OwesNoMore(journal, next)
    BY PendingUpdates, Names DEF Reconciled
  <2>2. journal' \in {journal, next}
    BY <1>19 DEF ReconcileOne, TrySaveJournal, SaveJournal, SaveJournalFails
  <2> HIDE DEF next
  <2> QED
    BY <1>19, <2>1, <2>2, PendingShrinks DEF ReconcileOne, jobVars
<1>20. ASSUME NEW j \in Jobs, StartReplication(j) PROVE MaintenanceAfterReplication'
  BY <1>20, PendingShrinks DEF StartReplication, BeginReplication, jobVars
<1>21. ASSUME NEW j \in Jobs, ResumeReplication(j)
       PROVE MaintenanceAfterReplication'
  BY <1>21, PendingShrinks DEF ResumeReplication, BeginReplication, jobVars
<1>22. ASSUME NEW j \in Jobs, CopySome(j) PROVE MaintenanceAfterReplication'
  BY <1>22, PendingShrinks DEF CopySome, SelectBatch, jobVars
<1>23. ASSUME NEW j \in Jobs, NothingToCopy(j) PROVE MaintenanceAfterReplication'
  BY <1>23, PendingShrinks DEF NothingToCopy, jobVars
<1>24. ASSUME NEW j \in Jobs, AcquireForCopy(j) PROVE MaintenanceAfterReplication'
  BY <1>24, PendingShrinks DEF AcquireForCopy, jobVars
<1>25. ASSUME NEW j \in Jobs, CopyEnds(j) PROVE MaintenanceAfterReplication'
  BY <1>25, PendingShrinks DEF CopyEnds, jobVars
<1>26. ASSUME NEW j \in Jobs, NEW ok \in BOOLEAN, FinishBatch(j, ok)
       PROVE MaintenanceAfterReplication'
  <2>1. OwesNoMore(journal, journal')
    BY <1>26
    DEF OwesNoMore, Journals, Entry, FinishBatch, TrySaveJournal, SaveJournal,
        SaveJournalFails
  <2> QED
    BY <1>26, <2>1, PendingShrinks DEF FinishBatch
<1>27. ASSUME NEW j \in Jobs, EndReplication(j) PROVE MaintenanceAfterReplication'
  BY <1>27, PendingShrinks DEF EndReplication, jobVars
<1>28. ASSUME NEW t \in TailCalls \X Jobs, TailFindsNothing(t)
       PROVE MaintenanceAfterReplication'
  BY <1>28, PendingShrinks DEF TailFindsNothing, jobVars
<1>29. ASSUME NEW listing \in [Jobs -> Listings], AcceptConfig(listing)
       PROVE MaintenanceAfterReplication'
  BY <1>29, PendingShrinks DEF AcceptConfig, jobVars
<1>30. ASSUME FlushJournal PROVE MaintenanceAfterReplication'
  BY <1>30, PendingShrinks DEF FlushJournal, SaveJournal, jobVars
<1>31. ASSUME CrashAndRestart PROVE MaintenanceAfterReplication'
  BY <1>31 DEF CrashAndRestart, MaintenanceAfterReplication, ActiveOf
<1>32. ASSUME CollectInterrupted PROVE MaintenanceAfterReplication'
  BY <1>32, PendingShrinks DEF CollectInterrupted, jobVars
<1>33. ASSUME FinishReconcile PROVE MaintenanceAfterReplication'
  BY <1>33, PendingShrinks DEF FinishReconcile, jobVars
<1>34. CASE UNCHANGED vars
  BY <1>34, PendingShrinks DEF vars
<1>35. QED
  BY <1>1, <1>2, <1>3, <1>4, <1>5, <1>6, <1>7, <1>8, <1>9, <1>10,
     <1>11, <1>12, <1>13, <1>14, <1>15, <1>15a, <1>16, <1>17, <1>18, <1>19, <1>20,
     <1>21, <1>22, <1>23, <1>24, <1>25, <1>26, <1>27, <1>28, <1>29, <1>30,
     <1>31, <1>32, <1>33, <1>34
  DEF Next, CommandStep, JobStep

\* While maintenance of a job runs, none of the backups of the job owes a copy.
THEOREM MaintenanceWaits == Spec => []MaintenanceAfterReplication
<1>1. Init => MaintenanceAfterReplication
  BY DEF Init, MaintenanceAfterReplication, ActiveOf
<1>2. Safe /\ MaintenanceAfterReplication /\ [Next]_vars => MaintenanceAfterReplication'
  BY NextAfterReplication
<1>3. QED
  BY <1>1, <1>2, SafeInvariant, PTL DEF Spec

-----------------------------------------------------------------------------
(* Agent updates *)

\* The control plane has sent at most one update command.
OneUpdate == \A u, v \in Commands : Kind[u] = "update" /\ Kind[v] = "update" => u = v

\* While an update is with the updater, the agent is drained for that update.
Drained ==
    /\ agentUpdate # None => Kind[agentUpdate] = "update"
    /\ \A u \in Commands : Kind[u] = "update" /\ journal[u].state = "running" =>
          agentUpdate = u /\ Live = {} /\ replicationActive = {}

\* No update is with the updater in K that is not in J.
UpdatesNoMore(J, K) ==
    \A d \in Commands : Kind[d] = "update" /\ K[d].state = "running" => J[d].state = "running"

\* The changes the actions make to a journal start no update.
LEMMA UpdateUpdates ==
    ASSUME NEW J \in Journals, NEW c \in Commands
    PROVE  /\ UpdatesNoMore(J, J)
           /\ UpdatesNoMore(J, [J EXCEPT ![c] = Removed])
           /\ UpdatesNoMore(J, [J EXCEPT ![c] = [NoEntry EXCEPT !.state = "received"]])
           /\ \A how \in Hows : UpdatesNoMore(J, [J EXCEPT ![c] = ScheduledEntry(how)])
           /\ \A o \in Outcomes :
                 UpdatesNoMore(J, [J EXCEPT ![c].state = "finished", ![c].outcome = o])
           /\ Kind[c] # "update" => UpdatesNoMore(J, [J EXCEPT ![c].state = "running"])
           /\ UpdatesNoMore(J, [J EXCEPT ![c].acked = TRUE])
           /\ \A w \in Waits : UpdatesNoMore(J, [J EXCEPT ![c].waits = w])
           /\ UpdatesNoMore(J, [J EXCEPT ![c].state = "received"])
<1> USE DEF Journals, Entry, UpdatesNoMore
<1>1. UpdatesNoMore(J, J) /\ UpdatesNoMore(J, [J EXCEPT ![c] = Removed])
  BY DEF Removed, NoEntry
<1>2. UpdatesNoMore(J, [J EXCEPT ![c] = [NoEntry EXCEPT !.state = "received"]])
  BY DEF NoEntry
<1>3. \A how \in Hows : UpdatesNoMore(J, [J EXCEPT ![c] = ScheduledEntry(how)])
  <2>1. \A how \in Hows : ScheduledEntry(how).state # "running"
    BY DEF ScheduledEntry, NoEntry
  <2> QED
    BY <2>1
<1>4. \A o \in Outcomes :
         UpdatesNoMore(J, [J EXCEPT ![c].state = "finished", ![c].outcome = o])
  OBVIOUS
<1>5. Kind[c] # "update" => UpdatesNoMore(J, [J EXCEPT ![c].state = "running"])
  OBVIOUS
<1>6. UpdatesNoMore(J, [J EXCEPT ![c].acked = TRUE])
  OBVIOUS
<1>7. \A w \in Waits : UpdatesNoMore(J, [J EXCEPT ![c].waits = w])
  OBVIOUS
<1>8. UpdatesNoMore(J, [J EXCEPT ![c].state = "received"])
  OBVIOUS
<1>9. QED
  BY <1>1, <1>2, <1>3, <1>4, <1>5, <1>6, <1>7, <1>8

\* A step that starts nothing and leaves the drain alone.
LEMMA NothingStarts ==
    ASSUME Drained, UNCHANGED agentUpdate, UpdatesNoMore(journal, journal'),
           Live' \subseteq Live, replicationActive' \subseteq replicationActive
    PROVE  Drained'
BY DEF Drained, UpdatesNoMore

\* A step when no update is with the updater, and none is after it.
LEMMA NoUpdateRuns ==
    ASSUME UpdatesNoMore(journal, journal'),
           \A u \in Commands : Kind[u] = "update" => journal[u].state # "running",
           agentUpdate' # None => Kind[agentUpdate'] = "update"
    PROVE  Drained'
BY DEF Drained, UpdatesNoMore

\* Every step keeps Drained.
LEMMA NextDrained ==
    ASSUME OneUpdate, Safe, Drained, [Next]_vars
    PROVE  Drained'
<1> /\ TypeOK /\ journal \in Journals
    /\ UpdatesNoMore(journal, journal)
  BY DEF Safe, TypeOK, Journals, UpdatesNoMore
<1>0. ASSUME agentUpdate = None
      PROVE  \A u \in Commands : Kind[u] = "update" => journal[u].state # "running"
  BY <1>0, CommandAssumption DEF Drained
<1>1. ASSUME NEW c \in Commands, ReceiveCommand(c) PROVE Drained'
  <2> DEFINE next == [journal EXCEPT ![c] = [NoEntry EXCEPT !.state = "received"]]
  <2>1. UpdatesNoMore(journal, next)
    BY UpdateUpdates
  <2>2. journal' \in {journal, next} /\ UNCHANGED jobVars
    BY <1>1 DEF ReceiveCommand, SaveJournal, SaveJournalFails
  <2>3. CASE Kind[c] = "update"
    <3>1. \A u \in Commands : Kind[u] = "update" => journal[u].state # "running"
      BY <1>1, <2>3 DEF ReceiveCommand, OneUpdate
    <3>2. agentUpdate' # None => Kind[agentUpdate'] = "update"
      BY <1>1, <2>3 DEF ReceiveCommand, Drained
    <3> HIDE DEF next
    <3> QED
      BY <2>1, <2>2, <3>1, <3>2, NoUpdateRuns
  <2>4. CASE Kind[c] # "update"
    <3>1. UNCHANGED agentUpdate
      BY <1>1, <2>4 DEF ReceiveCommand
    <3> HIDE DEF next
    <3> QED
      BY <2>1, <2>2, <3>1, NothingStarts DEF Live, jobVars
  <2> QED
    BY <2>3, <2>4
<1>2. ASSUME NEW c \in Commands, NEW how \in Hows, ScheduleOccurrence(c, how)
      PROVE Drained'
  <2> DEFINE next == [journal EXCEPT ![c] = ScheduledEntry(how)]
  <2>1. UpdatesNoMore(journal, next)
    BY UpdateUpdates, Names
  <2>2. journal' \in {journal, next}
    BY <1>2 DEF ScheduleOccurrence, TrySaveJournal, SaveJournal, SaveJournalFails
  <2> HIDE DEF next
  <2> QED
    BY <1>2, <2>1, <2>2, NothingStarts DEF ScheduleOccurrence, jobVars, Live
<1>3. ASSUME NEW c \in Commands, DiscardExpired(c) PROVE Drained'
  <2> DEFINE next == [journal EXCEPT ![c] = Removed]
  <2>1. UpdatesNoMore(journal, next)
    BY UpdateUpdates
  <2>2. journal' \in {journal, next} /\ UNCHANGED jobVars
    BY <1>3 DEF DiscardExpired, SaveJournal, SaveJournalFails
  <2> HIDE DEF next
  <2>3. CASE UNCHANGED agentUpdate
    BY <2>1, <2>2, <2>3, NothingStarts DEF Live, jobVars
  <2>4. CASE agentUpdate = c /\ agentUpdate' = None
    <3>1. Kind[c] = "update" /\ journal[c].state # "running"
      BY <1>3, <2>4, CommandAssumption
      DEF DiscardExpired, Drained, Safe, Journaled, GoodJournal
    <3>2. \A u \in Commands : Kind[u] = "update" => journal[u].state # "running"
      BY <3>1 DEF OneUpdate
    <3> QED
      BY <2>1, <2>2, <2>4, <3>2, NoUpdateRuns
  <2> QED
    BY <1>3, <2>3, <2>4 DEF DiscardExpired
<1>4. ASSUME NEW c \in Commands, Acknowledge(c) PROVE Drained'
  <2> DEFINE next == [journal EXCEPT ![c].acked = TRUE]
  <2>1. UpdatesNoMore(journal, next)
    BY UpdateUpdates, Names
  <2>2. journal' \in {journal, next}
    BY <1>4 DEF Acknowledge, TrySaveJournal, SaveJournal, SaveJournalFails
  <2> HIDE DEF next
  <2> QED
    BY <1>4, <2>1, <2>2, NothingStarts DEF Acknowledge, jobVars, Live
<1>5. ASSUME NEW c \in Commands, SkipDispatched(c) PROVE Drained'
  <2> DEFINE next == FinishedWithoutExecution(c)
  <2>1. UpdatesNoMore(journal, next)
    BY UpdateUpdates, Names DEF FinishedWithoutExecution
  <2>2. journal' \in {journal, next}
    BY <1>5 DEF SkipDispatched, TrySaveJournal, SaveJournal, SaveJournalFails
  <2> HIDE DEF next
  <2> QED
    BY <1>5, <2>1, <2>2, NothingStarts DEF SkipDispatched, jobVars, Live
<1>6. ASSUME NEW c \in Commands, InspectSource(c) PROVE Drained'
  <2> DEFINE next == [journal EXCEPT ![c].state = "finished", ![c].outcome = "executed"]
  <2>1. UpdatesNoMore(journal, next)
    BY UpdateUpdates, Names
  <2>2. journal' \in {journal, next}
    BY <1>6 DEF InspectSource, TrySaveJournal, SaveJournal, SaveJournalFails
  <2> HIDE DEF next
  <2> QED
    BY <1>6, <2>1, <2>2, NothingStarts DEF InspectSource, jobVars, Live
<1>7. ASSUME NEW c \in Commands, CancelRun(c) PROVE Drained'
  <2> DEFINE next == FinishedWithoutExecution(c)
  <2>1. UpdatesNoMore(journal, next)
    BY UpdateUpdates, Names DEF FinishedWithoutExecution
  <2>2. journal' \in {journal, next}
    BY <1>7 DEF CancelRun, TrySaveJournal, SaveJournal, SaveJournalFails
  <2> HIDE DEF next
  <2> QED
    BY <1>7, <2>1, <2>2, NothingStarts DEF CancelRun, jobVars, Live
<1>8. ASSUME NEW c \in Commands, DispatchedStart(c) PROVE Drained'
  <2>0. Kind[c] # "update" /\ UNCHANGED agentUpdate
    BY <1>8 DEF DispatchedStart
  <2>1. CASE StartRun(c)
    <3>1. agentUpdate = None
      BY <2>1 DEF StartRun, CanStart
    <3>2. UpdatesNoMore(journal, journal')
      BY <2>0, <2>1, UpdateUpdates DEF StartRun, SaveJournal
    <3> QED
      BY <1>0, <2>0, <3>1, <3>2, NoUpdateRuns
  <2>2. CASE StartFails(c) \/ StartRefused
    BY <2>0, <2>2, NothingStarts
    DEF StartFails, StartRefused, SaveJournalFails, jobVars, Live
  <2> QED
    BY <1>8, <2>1, <2>2 DEF DispatchedStart, StartOperation
<1>9. ASSUME NEW c \in Commands, HandedStart(c) PROVE Drained'
  <2>0. Kind[c] # "update" /\ UNCHANGED agentUpdate
    BY <1>9 DEF HandedStart, Safe, OperationKinds, Operations
  <2>1. CASE StartRun(c)
    <3>1. agentUpdate = None
      BY <2>1 DEF StartRun, CanStart
    <3>2. UpdatesNoMore(journal, journal')
      BY <2>0, <2>1, UpdateUpdates DEF StartRun, SaveJournal
    <3> QED
      BY <1>0, <2>0, <3>1, <3>2, NoUpdateRuns
  <2>2. CASE StartFails(c) \/ StartRefused
    BY <2>0, <2>2, NothingStarts
    DEF StartFails, StartRefused, SaveJournalFails, jobVars, Live
  <2> QED
    BY <1>9, <2>1, <2>2 DEF HandedStart, StartOperation
<1>10. ASSUME NEW c \in Commands, NEW result \in Results, FinishOperation(c, result)
       PROVE Drained'
  <2>1. FinishedEntry(c, result).state = "finished"
    BY DEF FinishedEntry, Journals, Entry
  <2>2. UpdatesNoMore(journal, journal')
    BY <1>10, <2>1
    DEF FinishOperation, TrySaveJournal, SaveJournal, SaveJournalFails,
                      UpdatesNoMore, Journals
  <2>3. Live' \subseteq Live
    BY <1>10 DEF FinishOperation, Live
  <2> QED
    BY <1>10, <2>2, <2>3, NothingStarts DEF FinishOperation
<1>11. ASSUME NEW c \in Commands, ReleaseDeferred(c) PROVE Drained'
  <2> DEFINE next == [journal EXCEPT ![c].waits = "nothing"]
  <2>1. UpdatesNoMore(journal, next)
    BY UpdateUpdates, Names
  <2>2. journal' \in {journal, next}
    BY <1>11 DEF ReleaseDeferred, TrySaveJournal, SaveJournal, SaveJournalFails
  <2> HIDE DEF next
  <2> QED
    BY <1>11, <2>1, <2>2, NothingStarts DEF ReleaseDeferred, jobVars, Live
<1>12. ASSUME NEW c \in Commands, StartCatchUp(c) PROVE Drained'
  BY <1>12, NothingStarts DEF StartCatchUp, jobVars, Live
<1>13. ASSUME NEW c \in Commands, StartReplicaSync(c) PROVE Drained'
  <2>1. agentUpdate = None /\ UNCHANGED agentUpdate
    BY <1>13 DEF StartReplicaSync, CanSync
  <2>2. UpdatesNoMore(journal, journal')
    <3>1. Kind[c] # "update"
      BY <1>13 DEF StartReplicaSync
    <3>2. journal' \in {journal, [journal EXCEPT ![c].state = "running"]}
      BY <1>13 DEF StartReplicaSync, SaveJournal, SaveJournalFails
    <3> QED
      BY <3>1, <3>2, UpdateUpdates
  <2> QED
    BY <1>0, <2>1, <2>2, NoUpdateRuns
<1>14. ASSUME NEW c \in Commands, FinishReplicaSync(c) PROVE Drained'
  <2> DEFINE next == [journal EXCEPT ![c].state = "finished", ![c].outcome = "executed"]
  <2>1. UpdatesNoMore(journal, next)
    BY UpdateUpdates, Names
  <2>2. journal' \in {journal, next}
    BY <1>14 DEF FinishReplicaSync, TrySaveJournal, SaveJournal, SaveJournalFails
  <2> HIDE DEF next
  <2> QED
    BY <1>14, <2>1, <2>2, NothingStarts DEF FinishReplicaSync, jobVars, Live
<1>15. ASSUME NEW c \in Commands, StartAgentUpdate(c) PROVE Drained'
  <2>1. UNCHANGED <<agentUpdate, jobVars>>
    BY <1>15 DEF StartAgentUpdate
  <2>2. CASE journal' = journal
    BY <2>1, <2>2, NothingStarts DEF jobVars, Live
  <2>3. CASE journal' = [journal EXCEPT ![c].state = "running"]
    <3>1. agentUpdate = c
      BY <1>15 DEF StartAgentUpdate, Drained, OneUpdate, TypeOK
    <3>2. Live = {}
      <4>1. repositories = {}
        BY <1>15 DEF StartAgentUpdate
      <4>2. \A d \in Live : d \in Operations \cup Syncs
        BY DEF Safe, OperationKinds, Live
      <4> QED
        BY <4>1, <4>2, RunJobs, BusyByElement DEF Safe, Locked
    <3>3. replicationActive = {} /\ Live' = Live
      BY <1>15, <2>1 DEF StartAgentUpdate, jobVars, Live
    <3> QED
      BY <1>15, <2>1, <3>1, <3>2, <3>3
      DEF StartAgentUpdate, Drained, OneUpdate, jobVars
  <2> QED
    BY <1>15, <2>2, <2>3 DEF StartAgentUpdate, SaveJournal, SaveJournalFails
<1>15a. ASSUME NEW c \in Commands, UpdateRequestFails(c) PROVE Drained'
  <2> DEFINE next == [journal EXCEPT ![c].state = "received"]
  <2>1. UpdatesNoMore(journal, next)
    BY UpdateUpdates, Names
  <2>2. journal' \in {journal, next}
    BY <1>15a DEF UpdateRequestFails, TrySaveJournal, SaveJournal, SaveJournalFails
  <2> HIDE DEF next
  <2> QED
    BY <1>15a, <2>1, <2>2, NothingStarts DEF UpdateRequestFails, jobVars, Live
<1>16. ASSUME NEW c \in Commands, ConsumeUpdateResult(c) PROVE Drained'
  <2> DEFINE next == [journal EXCEPT ![c].state = "finished", ![c].outcome = "executed"]
  <2>1. Kind[c] = "update" /\ agentUpdate' = None
    BY <1>16, CommandAssumption DEF ConsumeUpdateResult, Drained
  <2>2. next[c].state = "finished"
    BY DEF Journals, Entry
  <2>3. journal' = next
    BY <1>16 DEF ConsumeUpdateResult, TrySaveJournal, SaveJournal, SaveJournalFails
  <2> HIDE DEF next
  <2> QED
    BY <2>1, <2>2, <2>3 DEF Drained, OneUpdate
<1>17. ASSUME NEW c \in Commands, CancelQueued(c) PROVE Drained'
  <2> DEFINE next == FinishedWithoutExecution(c)
  <2>1. UpdatesNoMore(journal, next)
    BY UpdateUpdates, Names DEF FinishedWithoutExecution
  <2>2. journal' \in {journal, next}
    BY <1>17 DEF CancelQueued, TrySaveJournal, SaveJournal, SaveJournalFails
  <2> HIDE DEF next
  <2> QED
    BY <1>17, <2>1, <2>2, NothingStarts DEF CancelQueued, jobVars, Live
<1>18. ASSUME NEW c \in Commands, ReportAndRemove(c) PROVE Drained'
  <2> DEFINE next == [journal EXCEPT ![c] = Removed]
  <2>1. UpdatesNoMore(journal, next)
    BY UpdateUpdates, Names
  <2>2. journal' \in {journal, next}
    BY <1>18 DEF ReportAndRemove, TrySaveJournal, SaveJournal, SaveJournalFails
  <2> HIDE DEF next
  <2> QED
    BY <1>18, <2>1, <2>2, NothingStarts DEF ReportAndRemove, jobVars, Live
<1>19. ASSUME NEW c \in Commands, ReconcileOne(c) PROVE Drained'
  <2> DEFINE next == Reconciled(c)
  <2>1. UpdatesNoMore(journal, next)
    BY UpdateUpdates, Names DEF Reconciled
  <2>2. journal' \in {journal, next}
    BY <1>19 DEF ReconcileOne, TrySaveJournal, SaveJournal, SaveJournalFails
  <2> HIDE DEF next
  <2> QED
    BY <1>19, <2>1, <2>2, NothingStarts DEF ReconcileOne, jobVars, Live
<1>20. ASSUME NEW j \in Jobs, StartReplication(j) PROVE Drained'
  <2>1. UNCHANGED <<agentUpdate, journal>> /\ Live' = Live
    BY <1>20 DEF StartReplication, BeginReplication, Live
  <2>2. CASE agentUpdate = None
    BY <1>0, <2>1, <2>2, NoUpdateRuns
  <2>3. CASE agentUpdate # None
    BY <1>20, <2>1, <2>3, NothingStarts DEF StartReplication, BeginReplication
  <2> QED
    BY <2>2, <2>3
<1>21. ASSUME NEW j \in Jobs, ResumeReplication(j) PROVE Drained'
  <2>1. UNCHANGED <<agentUpdate, journal>> /\ Live' = Live
    BY <1>21 DEF ResumeReplication, BeginReplication, Live
  <2>2. CASE agentUpdate = None
    BY <1>0, <2>1, <2>2, NoUpdateRuns
  <2>3. CASE agentUpdate # None
    BY <1>21, <2>1, <2>3, NothingStarts DEF ResumeReplication, BeginReplication
  <2> QED
    BY <2>2, <2>3
<1>22. ASSUME NEW j \in Jobs, CopySome(j) PROVE Drained'
  BY <1>22, NothingStarts DEF CopySome, SelectBatch, jobVars, Live
<1>23. ASSUME NEW j \in Jobs, NothingToCopy(j) PROVE Drained'
  BY <1>23, NothingStarts DEF NothingToCopy, jobVars, Live
<1>24. ASSUME NEW j \in Jobs, AcquireForCopy(j) PROVE Drained'
  BY <1>24, NothingStarts DEF AcquireForCopy, jobVars, Live
<1>25. ASSUME NEW j \in Jobs, CopyEnds(j) PROVE Drained'
  BY <1>25, NothingStarts DEF CopyEnds, jobVars, Live
<1>26. ASSUME NEW j \in Jobs, NEW ok \in BOOLEAN, FinishBatch(j, ok) PROVE Drained'
  <2>1. UpdatesNoMore(journal, journal')
    BY <1>26
    DEF UpdatesNoMore, Journals, Entry, FinishBatch, TrySaveJournal,
        SaveJournal, SaveJournalFails
  <2> QED
    BY <1>26, <2>1, NothingStarts DEF FinishBatch, Live
<1>27. ASSUME NEW j \in Jobs, EndReplication(j) PROVE Drained'
  BY <1>27, NothingStarts DEF EndReplication, jobVars, Live
<1>28. ASSUME NEW t \in TailCalls \X Jobs, TailFindsNothing(t) PROVE Drained'
  BY <1>28, NothingStarts DEF TailFindsNothing, jobVars, Live
<1>29. ASSUME NEW listing \in [Jobs -> Listings], AcceptConfig(listing)
       PROVE Drained'
  BY <1>29, NothingStarts DEF AcceptConfig, jobVars, Live
<1>30. ASSUME FlushJournal PROVE Drained'
  BY <1>30, NothingStarts DEF FlushJournal, SaveJournal, jobVars, Live
<1>31. ASSUME CrashAndRestart PROVE Drained'
  <2>1. Live' = {} /\ replicationActive' = {} /\ journal' = disk
    BY <1>31 DEF CrashAndRestart, Live
  <2>2. agentUpdate' # None =>
           agentUpdate' \in Commands /\ Kind[agentUpdate'] = "update"
    BY <1>31 DEF CrashAndRestart, UnfinishedUpdates
  <2>3. ASSUME NEW u \in Commands, Kind[u] = "update", disk[u].state = "running"
        PROVE  agentUpdate' = u
    BY <1>31, <2>3 DEF CrashAndRestart, UnfinishedUpdates, OneUpdate
  <2> QED
    BY <2>1, <2>2, <2>3 DEF Drained
<1>32. ASSUME CollectInterrupted PROVE Drained'
  BY <1>32, NothingStarts DEF CollectInterrupted, jobVars, Live
<1>33. ASSUME FinishReconcile PROVE Drained'
  BY <1>33, NothingStarts DEF FinishReconcile, jobVars, Live
<1>34. CASE UNCHANGED vars
  BY <1>34, NothingStarts DEF vars, Live
<1>35. QED
  BY <1>1, <1>2, <1>3, <1>4, <1>5, <1>6, <1>7, <1>8, <1>9, <1>10,
     <1>11, <1>12, <1>13, <1>14, <1>15, <1>15a, <1>16, <1>17, <1>18, <1>19, <1>20,
     <1>21, <1>22, <1>23, <1>24, <1>25, <1>26, <1>27, <1>28, <1>29, <1>30,
     <1>31, <1>32, <1>33, <1>34
  DEF Next, CommandStep, JobStep

\* While the updater changes the installed package nothing runs, if there is one
\* update command.  With two the property does not hold.
THEOREM QuietUpdate ==
    ASSUME OneUpdate
    PROVE  Spec => []UpdateIsQuiescent
<1>1. Init => Drained
  BY DEF Init, Drained, NoEntry
<1>2. Safe /\ Drained /\ [Next]_vars => Drained'
  BY NextDrained
<1>3. Drained => UpdateIsQuiescent
  BY DEF Drained, UpdateIsQuiescent
<1>4. QED
  BY <1>1, <1>2, <1>3, SafeInvariant, PTL DEF Spec
=============================================================================
