------------------------------ MODULE Reporting -------------------------------
(***************************************************************************)
(* How the daemon reports its runs: the journal of events, logs and        *)
(* results, the reporter that replays it to the control plane, the second  *)
(* reporter that does so for an enrollment that was replaced, and the      *)
(* re-enrollment that hands the journal from one to the other              *)
(* (agent/commands.go, retired.go, enroll.go, replication.go, daemon.go).  *)
(*                                                                         *)
(* Both reporters and the goroutines of the runs share the journal under   *)
(* daemon.mu.  A reporter copies an entry in one critical section, sends   *)
(* requests without the mutex, and strikes what was accepted in later      *)
(* ones: each critical section and each request is an action, and what a   *)
(* reporter carries from one to the next is in loop.                       *)
(*                                                                         *)
(* An entry is here from the moment it is acknowledged.  RunControl says   *)
(* how it gets there and what its run may do meanwhile; of the run only    *)
(* the events it journals are kept here.                                   *)
(***************************************************************************)
EXTENDS Naturals, Sequences, FiniteSets

CONSTANTS
    Runs,             \* runs in the order of their command identities
    Scheduled,        \* the runs of the agent's own schedule: no result
    Replicated,       \* the backups that leave snapshots to copy to a replica
    Inventory,        \* snapshot_inventory_chunk events a retention run ends with
    LogChunks,        \* chunks of a run log
    BatchSize,        \* maximumEventBatch
    SaveMayFail,      \* the saves that can fail: see Saves
    RestartsAfterFailedSetup, \* may the service start after a failed setup?
    None,             \* no entry, no run
    MaxProgress,      \* bound: no progress event beyond this sequence
    MaxCopyFailures,  \* bound: no failed copy beyond this sequence
    MaxGenerations,   \* bound: enrollments
    MaxCrashes,       \* bound: stops of the daemon
    MaxSaveFailures,  \* bound: failed saves
    MaxRejections     \* bound: answers that reject an event

\* finishOperation's save of an outcome, WriteRunLog, and a reporter's saves.
Saves == {"finish", "log", "report"}

ASSUME RunAssumption ==
    /\ Runs \subseteq Nat
    /\ Scheduled \subseteq Runs
    /\ Replicated \subseteq Runs
    /\ None \notin Runs

ASSUME SizeAssumption ==
    /\ Inventory \in [Runs -> Nat]
    /\ \A r \in Replicated : Inventory[r] = 0   \* only backups are copied
    /\ LogChunks \in Nat \ {0}
    /\ BatchSize \in Nat \ {0}
    /\ SaveMayFail \subseteq Saves
    /\ RestartsAfterFailedSetup \in BOOLEAN

ASSUME ReportingBounds ==
    /\ MaxProgress \in Nat
    /\ MaxCopyFailures \in Nat
    /\ MaxGenerations \in Nat \ {0}
    /\ MaxCrashes \in Nat
    /\ MaxSaveFailures \in Nat
    /\ MaxRejections \in Nat

VARIABLES
    generation,   \* bootstrap.Generation on disk
    setup,        \* how far `backupchief setup` is
    up,           \* the daemon runs
    journal,      \* daemon.journal.Commands
    disk,         \* the journal in the state database
    active,       \* the runs whose goroutine lives
    logs,         \* the run logs on disk
    retired,      \* generations of the saved retired enrollments
    loop,         \* the two reporters
    gap,          \* the reporting gap in daemon.state, and in its file
    beat,         \* the heartbeat that reports a gap
    server,       \* what the control plane has accepted
    accepted,     \* history: runs that were ever journaled
    purged,       \* history: runs given up with their retired enrollment
    untold,       \* history: a gap that no accepted heartbeat has reported
    crashes, saveFailures, rejections

runVars == <<journal, disk, active, logs>>
setupVars == <<generation, setup, up, retired>>
gapVars == <<gap, beat, untold>>
bounds == <<crashes, saveFailures, rejections>>
vars == <<generation, setup, up, journal, disk, active, logs, retired, loop,
          gap, beat, server, accepted, purged, untold, crashes,
          saveFailures, rejections>>

-----------------------------------------------------------------------------
(* Types *)

\* Event kinds.  "progress" stands for run_started, clock_skew and
\* run_progress; the run_finished event is named by the status it carries.
Outcomes == {"complete", "unresolved", "cancelled"}
Kinds == {"progress", "gap", "inventory", "replication"} \cup Outcomes

Event == [sequence : Nat, kind : Kinds]

\* Mutant: a rejected outcome is dropped like a progress event.
RetainedEvidence == {"inventory", "replication"}

\* flushCommand keeps these for another attempt when they are rejected.
RetainedKinds == {"inventory", "replication"} \cup Outcomes

\* prepareRetiredGeneration keeps these for the retired enrollment.
TerminalKinds == {"inventory"} \cup Outcomes

TerminalEvents == [sequence : Nat, kind : TerminalKinds]

Entry == [state : {"received", "running", "finished"}, generation : Nat,
          sequence : Nat, events : Seq(Event), reported : BOOLEAN,
          log : BOOLEAN, next : Nat, completed : BOOLEAN, pending : BOOLEAN]

ASSUME EntryAssumption == None \notin Entry

Loops == {"live", "retired"}

Steps == {"idle", "generation", "next", "events", "strike", "chunk",
          "advance", "complete", "completed", "result", "reported", "remove",
          "unlink"}

\* A reporter: the generations and runs of this pass it has not come to, the
\* run at hand, and what it copied of the entry: the batch, whether events
\* remain beyond it, the log and its progress, and whether a result is owed.
\* kept, rejected and dropped are the answer to the batch; unlink are the logs
\* to remove.
Loop == [step : Steps, generations : SUBSET Nat, todo : SUBSET Runs,
         run : Runs \cup {None}, batch : Seq(Event), more : BOOLEAN,
         log : BOOLEAN, completed : BOOLEAN, next : Nat, owes : BOOLEAN,
         kept : Seq(Event), rejected : BOOLEAN, dropped : BOOLEAN, unlink : SUBSET Runs]

IdleLoop == [step |-> "idle", generations |-> {}, todo |-> {}, run |-> None,
             batch |-> <<>>, more |-> FALSE, log |-> FALSE,
             completed |-> FALSE, next |-> 0, owes |-> FALSE, kept |-> <<>>,
             rejected |-> FALSE, dropped |-> FALSE, unlink |-> {}]

Setups == {"none", "stopped", "settled", "enrolling", "failed"}

NoGap == [detected |-> FALSE, version |-> 0]

Gap == [detected : BOOLEAN, version : Nat]

\* The heartbeat: the gap version it read; covers is a history, TRUE as long
\* as no gap was marked since.
Beat == [step : {"idle", "sent", "answered"}, version : Nat, covers : BOOLEAN]

IdleBeat == [step |-> "idle", version |-> 0, covers |-> FALSE]

Server == [events : SUBSET (Runs \X Event), chunks : [Runs -> SUBSET Nat],
           complete : SUBSET (Runs \X Nat), results : SUBSET Runs]

TypeOK ==
    /\ generation \in Nat
    /\ setup \in Setups
    /\ up \in BOOLEAN
    /\ journal \in [Runs -> Entry \cup {None}]
    /\ disk \in [Runs -> Entry \cup {None}]
    /\ active \in SUBSET Runs
    /\ logs \in SUBSET Runs
    /\ retired \in SUBSET Nat
    /\ loop \in [Loops -> Loop]
    /\ gap \in [memory : Gap, disk : Gap]
    /\ beat \in Beat
    /\ server \in Server
    /\ accepted \in SUBSET Runs
    /\ purged \in SUBSET Runs
    /\ untold \in BOOLEAN
    /\ crashes \in Nat
    /\ saveFailures \in Nat
    /\ rejections \in Nat

-----------------------------------------------------------------------------
(* Helpers *)

Known(r) == journal[r] # None

First(S) == CHOOSE n \in S : \A m \in S : n <= m

EventSet(e) == {e.events[i] : i \in 1..Len(e.events)}

\* The events of a sequence that are in keep, in their order: the k-th of them
\* is the one up to which there are k.
Selected(events, keep) ==
    LET places == {i \in 1..Len(events) : events[i] \in keep}
        Place(k) == CHOOSE i \in places :
                       Cardinality({j \in places : j <= i}) = k
    IN  [k \in 1..Cardinality(places) |-> events[Place(k)]]

\* An entry with the next event of the given kind.
Append1(e, kind) ==
    [e EXCEPT !.sequence = @ + 1,
              !.events = Append(@, [sequence |-> e.sequence + 1,
                                    kind |-> kind])]

\* The snapshot_inventory_chunk events of appendSnapshotEvidenceEvents.
AppendInventory(e, chunks) ==
    [e EXCEPT !.sequence = @ + chunks,
              !.events = @ \o [i \in 1..chunks |->
                                  [sequence |-> e.sequence + i,
                                   kind |-> "inventory"]]]

\* SaveCommandJournal writes the whole journal in one transaction.
SaveJournal(j) ==
    /\ journal' = j
    /\ disk' = j
    /\ UNCHANGED saveFailures

SaveFails(kind, j) ==
    /\ kind \in SaveMayFail
    /\ saveFailures < MaxSaveFailures
    /\ saveFailures' = saveFailures + 1
    /\ journal' = j
    /\ UNCHANGED disk

\* markSpoolGapLocked, and the SaveRuntimeState that follows it.
Marked == [detected |-> TRUE, version |-> gap.memory.version + 1]

MarkGap ==
    /\ gap' = [memory |-> Marked, disk |-> Marked]
    /\ untold' = TRUE
    /\ beat' = [beat EXCEPT !.covers = FALSE]

\* The save of an outcome.  When it fails the change stays in memory and is
\* left to the next save of the journal.
SaveOutcome(j) == SaveJournal(j) \/ SaveFails("finish", j)

\* The mark when the journal's save failed: SaveRuntimeState is not reached.
MarkGapInMemory ==
    /\ gap' = [gap EXCEPT !.memory = Marked]
    /\ untold' = TRUE
    /\ beat' = [beat EXCEPT !.covers = FALSE]

-----------------------------------------------------------------------------
(* The runs *)

\* A scheduled occurrence is journaled acknowledged (scheduleBackups); a
\* command when its acknowledgement was accepted (advanceCommand).
Accept(r) ==
    /\ up
    /\ r \notin accepted
    /\ SaveJournal([journal EXCEPT ![r] =
            [state |-> "received", generation |-> generation,
             sequence |-> 0, events |-> <<>>, reported |-> FALSE,
             log |-> FALSE, next |-> 0, completed |-> FALSE,
             pending |-> FALSE]])
    /\ accepted' = accepted \cup {r}
    /\ UNCHANGED <<setupVars, active, logs, loop, gapVars, server, purged,
                   crashes, rejections>>

\* startOperation: when the save fails the entry is put back as it was.
Start(r) ==
    /\ up
    /\ Known(r)
    /\ journal[r].state = "received"
    /\ SaveJournal([journal EXCEPT ![r] =
            Append1([@ EXCEPT !.state = "running"], "progress")])
    /\ active' = active \cup {r}
    /\ UNCHANGED <<setupVars, logs, loop, gapVars, server, accepted, purged,
                   crashes, rejections>>

\* finishWithoutExecution of an entry that was cancelled, expired or has no
\* configuration.
FinishWithoutExecution(r) ==
    /\ up
    /\ Known(r)
    /\ journal[r].state = "received"
    /\ SaveOutcome([journal EXCEPT ![r] =
            Append1([@ EXCEPT !.state = "finished",
                              !.reported = r \in Scheduled], "cancelled")])
    /\ UNCHANGED <<setupVars, active, logs, loop, gapVars, server, accepted,
                   purged, crashes, rejections>>

\* databaseBackupProgress: when the save fails the event is taken back.
Progress(r) ==
    /\ up
    /\ r \in active
    /\ Known(r)
    /\ journal[r].state = "running"
    /\ journal[r].sequence < MaxProgress
    /\ SaveJournal([journal EXCEPT ![r] = Append1(@, "progress")])
    /\ UNCHANGED <<setupVars, active, logs, loop, gapVars, server, accepted,
                   purged, crashes, rejections>>

\* The entry finishOperation leaves: the inventory, the outcome, and the log
\* or, when WriteRunLog failed, the reporting_gap event.
Finished(e, r, logged) ==
    LET done == Append1(AppendInventory(
                    [e EXCEPT !.state = "finished",
                              !.reported = r \in Scheduled,
                              !.pending = r \in Replicated,
                              !.log = logged], Inventory[r]), "complete")
    IN  IF logged THEN done ELSE Append1(done, "gap")

\* finishOperation writes the log before it takes the mutex.
LogWritten(r) ==
    /\ logs' = logs \cup {r}
    /\ UNCHANGED gapVars

LogUnavailable ==
    /\ "log" \in SaveMayFail
    /\ MarkGap
    /\ UNCHANGED logs

\* finishOperation: the run's goroutine ends.
FinishOperation(r) ==
    /\ up
    /\ r \in active
    /\ active' = active \ {r}
    /\ IF ~Known(r)
       THEN LogWritten(r) /\ UNCHANGED <<journal, disk, saveFailures>>
       ELSE \E logged \in BOOLEAN :
               /\ IF logged THEN LogWritten(r) ELSE LogUnavailable
               /\ LET j == [journal EXCEPT ![r] = Finished(@, r, logged)]
                  IN  SaveOutcome(j)
    /\ UNCHANGED <<setupVars, loop, server, accepted, purged, crashes,
                   rejections>>

\* reconcileOne of an entry found running: the repository proves its outcome
\* or it stays unresolved, with or without an inventory.  That it may also
\* meet a run of this process, which then ends twice, is left
\* to RunControl; here a run ends once.
ReconcileOne(r) ==
    /\ up
    /\ Known(r)
    /\ journal[r].state = "running"
    /\ r \notin active
    /\ \E kind \in {"complete", "unresolved"}, chunks \in {0, Inventory[r]} :
          SaveOutcome([journal EXCEPT ![r] =
             Append1(AppendInventory(
                [@ EXCEPT !.state = "finished",
                          !.reported = r \in Scheduled], chunks), kind)])
    /\ UNCHANGED <<setupVars, active, logs, loop, gapVars, server, accepted,
                   purged, crashes, rejections>>

\* finishReplicationBatch: a copy that failed is tried again later.
FinishReplication(r) ==
    /\ up
    /\ Known(r)
    /\ journal[r].pending
    /\ \E complete \in BOOLEAN :
          /\ complete \/ journal[r].sequence < MaxCopyFailures
          /\ SaveOutcome([journal EXCEPT ![r] =
                Append1([@ EXCEPT !.pending = ~complete], "replication")])
    /\ UNCHANGED <<setupVars, active, logs, loop, gapVars, server, accepted,
                   purged, crashes, rejections>>

-----------------------------------------------------------------------------
(* A pass of a reporter *)

\* The reporter at the next run of its pass, or at the end of the pass.
AtNext(l) == [IdleLoop EXCEPT !.step = "next",
                              !.generations = loop[l].generations,
                              !.todo = loop[l].todo]

\* flushJournal goes on with the next command after an error; an error ends
\* the pass of reportRetiredJournal, which saves the records unchanged.
AfterError(l) == IF l = "live" THEN AtNext(l) ELSE IdleLoop

Goto(l, s) == loop' = [loop EXCEPT ![l] = s]

\* flushJournal saves the journal and lists the commands of this enrollment.
FlushJournal ==
    /\ up
    /\ loop["live"].step = "idle"
    /\ \/ /\ SaveJournal(journal)
          /\ Goto("live", [IdleLoop EXCEPT !.step = "next",
                !.todo = {r \in Runs : /\ Known(r)
                                       /\ journal[r].generation = generation}])
       \/ /\ SaveFails("report", journal)
          /\ UNCHANGED loop
    /\ UNCHANGED <<setupVars, active, logs, gapVars, server, accepted,
                   purged, crashes, rejections>>

\* reportRetiredJournal loads the retired enrollments.
LoadRetired ==
    /\ up
    /\ loop["retired"].step = "idle"
    /\ retired # {}
    /\ Goto("retired", [IdleLoop EXCEPT !.step = "generation",
                                        !.generations = retired])
    /\ UNCHANGED <<setupVars, runVars, gapVars, server, accepted, purged,
                   bounds>>

\* Mutant: the retired reporter also takes the commands of this enrollment.
CollectEverything ==
    /\ up
    /\ loop["retired"].step = "generation"
    /\ loop["retired"].generations # {}
    /\ Goto("retired", [loop["retired"] EXCEPT !.step = "next",
                            !.todo = {r \in Runs : Known(r)}])
    /\ UNCHANGED <<setupVars, runVars, gapVars, server, accepted, purged,
                   bounds>>

\* The next retired generation, in order: flushRetiredGeneration lists its
\* commands.
CollectRetired ==
    /\ up
    /\ loop["retired"].step = "generation"
    /\ loop["retired"].generations # {}
    /\ LET g == First(loop["retired"].generations)
       IN  Goto("retired", [loop["retired"] EXCEPT !.step = "next",
                !.todo = {r \in Runs : Known(r) /\ journal[r].generation = g}])
    /\ UNCHANGED <<setupVars, runVars, gapVars, server, accepted, purged,
                   bounds>>

\* purgeRetiredGeneration and purgeRetiredCommand delete the entries, save,
\* and remove their logs.
Purge(gone, s) ==
    LET j == [r \in Runs |-> IF r \in gone THEN None ELSE journal[r]]
    IN  /\ purged' = purged \cup gone
        /\ \/ /\ SaveJournal(j)
              /\ Goto("retired", [s EXCEPT !.unlink =
                                     {r \in gone : journal[r].log}])
           \/ /\ SaveFails("report", j)
              /\ Goto("retired", IdleLoop)

\* The enrollment's day is over: what it still has to report is given up.
ExpireRetired ==
    /\ up
    /\ loop["retired"].step = "generation"
    /\ loop["retired"].generations # {}
    /\ LET g == First(loop["retired"].generations)
       IN  Purge({r \in Runs : Known(r) /\ journal[r].generation = g},
                 [IdleLoop EXCEPT !.step = "unlink",
                    !.generations = loop["retired"].generations \ {g}])
    /\ UNCHANGED <<setupVars, active, logs, gapVars, server, accepted,
                   crashes, rejections>>

\* The pass came to its end.  flushRetiredGeneration calls every generation
\* it went through complete, so no record is kept.
ForgetRetired ==
    /\ up
    /\ loop["retired"].step = "generation"
    /\ loop["retired"].generations = {}
    /\ retired' = {}
    /\ Goto("retired", IdleLoop)
    /\ UNCHANGED <<generation, setup, up, runVars, gapVars, server, accepted,
                   purged, bounds>>

EndOfPass(l) ==
    /\ up
    /\ loop[l].step = "next"
    /\ loop[l].todo = {}
    /\ Goto(l, IF l = "live" THEN IdleLoop
               ELSE [IdleLoop EXCEPT !.step = "generation",
                        !.generations = loop[l].generations \
                                           {First(loop[l].generations)}])
    /\ UNCHANGED <<setupVars, runVars, gapVars, server, accepted, purged,
                   bounds>>

-----------------------------------------------------------------------------
(* One command of a pass: flushCommand and flushRetiredCommand *)

\* Where a reporter goes from the log: s is what it copied of the entry.
AfterLog(s) == [s EXCEPT !.step = IF s.owes THEN "result" ELSE "remove"]

\* Mutant: the chunk is recorded before it is sent.
AfterEventsEager(l, s) ==
    IF ~s.log \/ s.completed
    THEN AfterLog(s)
    ELSE IF s.run \notin logs
         THEN AfterError(l)
         ELSE [s EXCEPT !.step = IF s.next < LogChunks THEN "advance"
                                                       ELSE "complete"]

\* Where it goes from the events.
AfterEvents(l, s) ==
    IF ~s.log \/ s.completed
    THEN AfterLog(s)
    ELSE IF s.run \notin logs   \* ReadChecksummedRunLog fails
         THEN AfterError(l)
         ELSE [s EXCEPT !.step = IF s.next < LogChunks THEN "chunk"
                                                       ELSE "complete"]

\* What a reporter copies of the entry under the mutex.
Copied(l, r) ==
    LET e == journal[r]
        size == IF Len(e.events) < BatchSize THEN Len(e.events) ELSE BatchSize
    IN  [IdleLoop EXCEPT !.step = "events",
            !.generations = loop[l].generations,
            !.todo = loop[l].todo \ {r},
            !.run = r,
            !.batch = SubSeq(e.events, 1, size),
            !.more = Len(e.events) > size,
            !.log = e.log,
            !.completed = e.completed,
            !.next = e.next,
            !.owes = l = "live" /\ e.state = "finished" /\ ~e.reported]

Take(l) ==
    /\ up
    /\ loop[l].step = "next"
    /\ loop[l].todo # {}
    /\ LET r == First(loop[l].todo)
       IN  Goto(l,
             IF ~Known(r) THEN [AtNext(l) EXCEPT !.todo = @ \ {r}]
             ELSE IF journal[r].events # <<>> THEN Copied(l, r)
             ELSE AfterEvents(l, Copied(l, r)))
    /\ UNCHANGED <<setupVars, runVars, gapVars, server, accepted, purged,
                   bounds>>

Waiting(l, step) == up /\ loop[l].step = step

\* A request that does not reach the control plane, or is refused.
RequestFails(l) ==
    /\ up
    /\ loop[l].step \in {"events", "chunk", "complete", "result"}
    /\ Goto(l, AfterError(l))
    /\ UNCHANGED <<setupVars, runVars, gapVars, server, accepted, purged,
                   bounds>>

\* The chunk count of a LogCompletion: flushCommand counts the chunks it
\* recorded, flushRetiredCommand divides the log's size.
ChunkCount(l, r) ==
    IF l = "live" /\ Known(r) THEN journal[r].next ELSE LogChunks

\* What the control plane has after the reporter's request, when it accepts
\* all of it.  It knows an event again by its identity.
Requested(l) ==
    LET s == loop[l]
        r == s.run
    IN  CASE s.step = "events" ->
                [server EXCEPT !.events = @ \cup
                    {<<r, s.batch[i]>> : i \in 1..Len(s.batch)}]
          [] s.step = "chunk" ->
                [server EXCEPT !.chunks[r] = @ \cup {s.next}]
          [] s.step = "complete" ->
                [server EXCEPT !.complete = @ \cup {<<r, ChunkCount(l, r)>>}]
          [] s.step = "result" ->
                [server EXCEPT !.results = @ \cup {r}]

\* The control plane took the request and its answer was lost.
AnswerLost(l) ==
    /\ up
    /\ loop[l].step \in {"events", "chunk", "complete", "result"}
    /\ server' = Requested(l)
    /\ Goto(l, AfterError(l))
    /\ UNCHANGED <<setupVars, runVars, gapVars, accepted, purged, bounds>>

Answer(step) ==
    CASE step = "events" -> "strike"
      [] step = "chunk" -> "advance"
      [] step = "complete" -> "completed"
      [] step = "result" -> "reported"

\* The request was answered, and every event accepted or known already.
Answered(l) ==
    /\ up
    /\ loop[l].step \in {"events", "chunk", "complete", "result"}
    /\ server' = Requested(l)
    /\ Goto(l, [loop[l] EXCEPT !.step = Answer(loop[l].step)])
    /\ UNCHANGED <<setupVars, runVars, gapVars, accepted, purged, bounds>>

\* The answer rejects some new events.  flushCommand keeps the ones of
\* RetainedKinds; flushRetiredCommand returns an error.
Rejected(l) ==
    /\ Waiting(l, "events")
    /\ rejections < MaxRejections
    /\ rejections' = rejections + 1
    /\ LET s == loop[l]
           sent == {<<s.run, s.batch[i]>> : i \in 1..Len(s.batch)}
       IN  \E bad \in SUBSET (sent \ server.events) \ {{}} :
              LET retained == {x \in bad : x[2].kind \in RetainedKinds}
              IN  /\ server' = [server EXCEPT !.events = @ \cup (sent \ bad)]
                  /\ Goto(l, IF l = "retired" THEN IdleLoop
                             ELSE [s EXCEPT !.step = "strike",
                                     !.rejected = TRUE,
                                     !.kept = Selected(s.batch,
                                                {x[2] : x \in retained}),
                                     !.dropped = bad # retained])
    /\ UNCHANGED <<setupVars, runVars, gapVars, accepted, purged, crashes,
                   saveFailures>>

\* A critical section that changes the entry of the run at hand, if it is
\* still there, and saves the journal.
Update(l, j, s) ==
    \/ /\ IF Known(loop[l].run) THEN SaveJournal(j)
                                ELSE UNCHANGED <<journal, disk, saveFailures>>
       /\ Goto(l, s)
    \/ /\ Known(loop[l].run)
       /\ SaveFails("report", j)
       /\ Goto(l, AfterError(l))

\* The events without the batch, which are the first of them, and with the
\* rejected ones to try again.
Struck(e, s) ==
    [e EXCEPT !.events = s.kept \o SubSeq(@, Len(s.batch) + 1, Len(@))]

Strike(l) ==
    /\ Waiting(l, "strike")
    /\ LET s == loop[l]
           sent == [s EXCEPT !.batch = <<>>, !.kept = <<>>]
       IN  /\ Update(l, [journal EXCEPT ![s.run] =
                            IF Known(s.run) THEN Struck(@, s) ELSE @],
                     IF s.rejected \/ s.more THEN AtNext(l)
                                             ELSE AfterEvents(l, sent))
           /\ IF ~s.dropped \/ ~Known(s.run) THEN UNCHANGED gapVars
              ELSE IF disk' = journal' THEN MarkGap ELSE MarkGapInMemory
    /\ UNCHANGED <<setupVars, active, logs, server, accepted, purged,
                   crashes, rejections>>

\* The chunk was taken: NextLogChunk.
Advance(l) ==
    /\ Waiting(l, "advance")
    /\ LET s == loop[l]
           n == s.next + 1
       IN  Update(l, [journal EXCEPT ![s.run] =
                         IF Known(s.run) THEN [@ EXCEPT !.next = n] ELSE @],
                  [s EXCEPT !.next = n,
                            !.step = IF n < LogChunks THEN "chunk"
                                                      ELSE "complete"])
    /\ UNCHANGED <<setupVars, active, logs, gapVars, server, accepted,
                   purged, crashes, rejections>>

\* Mutant: the file is removed as soon as the log is complete.
LogCompletedUnlinks(l) ==
    /\ Waiting(l, "completed")
    /\ LET s == loop[l]
       IN  /\ Update(l, [journal EXCEPT ![s.run] =
                            IF Known(s.run) THEN [@ EXCEPT !.completed = TRUE]
                                            ELSE @],
                     AfterLog(s))
           /\ logs' = logs \ {s.run}
    /\ UNCHANGED <<setupVars, active, gapVars, server, accepted, purged,
                   crashes, rejections>>

\* The log is complete: LogCompleted.
LogCompleted(l) ==
    /\ Waiting(l, "completed")
    /\ LET s == loop[l]
       IN  Update(l, [journal EXCEPT ![s.run] =
                         IF Known(s.run) THEN [@ EXCEPT !.completed = TRUE]
                                         ELSE @],
                  AfterLog(s))
    /\ UNCHANGED <<setupVars, active, logs, gapVars, server, accepted,
                   purged, crashes, rejections>>

ResultReported ==
    /\ Waiting("live", "reported")
    /\ LET s == loop["live"]
       IN  Update("live", [journal EXCEPT ![s.run] =
                              IF Known(s.run) THEN [@ EXCEPT !.reported = TRUE]
                                              ELSE @],
                  [s EXCEPT !.step = "remove"])
    /\ UNCHANGED <<setupVars, active, logs, gapVars, server, accepted,
                   purged, crashes, rejections>>

\* Mutant: events that were appended meanwhile are not looked at.
SettledWhateverEvents(l, r) ==
    LET e == journal[r]
    IN  /\ Known(r)
        /\ e.log => e.completed
        /\ l = "live" => e.reported /\ ~e.pending

\* The entry as it is now, not as it was copied, owes nothing any more.
Settled(l, r) ==
    LET e == journal[r]
    IN  /\ Known(r)
        /\ e.events = <<>>
        /\ e.log => e.completed
        /\ l = "live" => e.reported /\ ~e.pending

Remove(l) ==
    /\ Waiting(l, "remove")
    /\ LET s == loop[l]
       IN  IF Settled(l, s.run)
           THEN Update(l, [journal EXCEPT ![s.run] = None],
                       [s EXCEPT !.step = "unlink",
                                 !.unlink = IF s.log THEN {s.run} ELSE {}])
           ELSE /\ Goto(l, AtNext(l))
                /\ UNCHANGED <<journal, disk, saveFailures>>
    /\ UNCHANGED <<setupVars, active, logs, gapVars, server, accepted,
                   purged, crashes, rejections>>

\* RemoveRunLog, after the entry is gone from the saved journal.
Unlink(l) ==
    /\ Waiting(l, "unlink")
    /\ logs' = logs \ loop[l].unlink
    /\ Goto(l, IF loop[l].run = None
               THEN [loop[l] EXCEPT !.step = "generation", !.unlink = {}]
               ELSE AtNext(l))
    /\ UNCHANGED <<setupVars, journal, disk, active, gapVars, server,
                   accepted, purged, bounds>>

\* The control plane does not know the run of a retired enrollment
\* (enrollment_revoked): purgeRetiredCommand gives it up.
RetiredUnknown ==
    /\ up
    /\ loop["retired"].step \in {"events", "chunk", "complete"}
    /\ Purge({r \in {loop["retired"].run} : Known(r)},
             [loop["retired"] EXCEPT !.step = "unlink"])
    /\ UNCHANGED <<setupVars, active, logs, gapVars, server, accepted,
                   crashes, rejections>>

-----------------------------------------------------------------------------
(* The heartbeat's part in reporting a gap: sendHeartbeat *)

SendGap ==
    /\ up
    /\ beat.step = "idle"
    /\ gap.memory.detected
    /\ beat' = [step |-> "sent", version |-> gap.memory.version,
                covers |-> TRUE]
    /\ UNCHANGED <<setupVars, runVars, loop, gap, untold, server, accepted,
                   purged, bounds>>

GapAnswered ==
    /\ up
    /\ beat.step = "sent"
    /\ beat' = [beat EXCEPT !.step = "answered"]
    /\ untold' = (untold /\ ~beat.covers)
    /\ UNCHANGED <<setupVars, runVars, loop, gap, server, accepted, purged,
                   bounds>>

HeartbeatFails ==
    /\ up
    /\ beat.step = "sent"
    /\ beat' = IdleBeat
    /\ UNCHANGED <<setupVars, runVars, loop, gap, untold, server, accepted,
                   purged, bounds>>

\* Mutant: the version is not compared.
AcknowledgedAnyGap ==
    LET told == [gap.memory EXCEPT !.detected = FALSE]
    IN  [memory |-> told, disk |-> told]

\* The gap is acknowledged unless it was marked again since it was read.
AcknowledgedGap ==
    IF gap.memory.detected /\ gap.memory.version = beat.version
    THEN LET told == [gap.memory EXCEPT !.detected = FALSE]
         IN  [memory |-> told, disk |-> told]
    ELSE gap

AcknowledgeGap ==
    /\ up
    /\ beat.step = "answered"
    /\ gap' = AcknowledgedGap
    /\ beat' = IdleBeat
    /\ UNCHANGED <<setupVars, runVars, loop, untold, server, accepted,
                   purged, bounds>>

-----------------------------------------------------------------------------
(* Stops, starts and re-enrollment *)

\* What is lost when the daemon stops: everything that is not on disk.
Down ==
    /\ up' = FALSE
    /\ journal' = disk
    /\ active' = {}
    /\ loop' = [l \in Loops |-> IdleLoop]
    /\ beat' = IdleBeat
    /\ gap' = [gap EXCEPT !.memory = gap.disk]
    /\ untold' = (untold /\ gap.disk.detected)

Stop ==
    /\ up
    /\ crashes < MaxCrashes
    /\ crashes' = crashes + 1
    /\ Down
    /\ UNCHANGED <<generation, setup, retired, disk, logs, server, accepted,
                   purged, saveFailures, rejections>>

\* The service manager starts the daemon: not during a setup.
Run ==
    /\ ~up
    /\ setup = "none" \/ (setup = "failed" /\ RestartsAfterFailedSetup)
    /\ up' = TRUE
    /\ UNCHANGED <<generation, setup, retired, runVars, loop, gapVars,
                   server, accepted, purged, bounds>>

\* `backupchief setup` with a new token, or again after it failed: Enroll
\* stops the service.
BeginSetup ==
    /\ setup \in {"none", "failed"}
    /\ generation < MaxGenerations
    /\ setup' = "stopped"
    /\ Down
    /\ UNCHANGED <<generation, retired, disk, logs, server, accepted, purged,
                   bounds>>

\* Mutant: the unfinished runs are retired without an outcome.
RetireSilently(e) ==
    [e EXCEPT !.state = "finished", !.events = Selected(@, TerminalEvents),
              !.reported = TRUE]

\* Mutant: a state the journal does not have.
RetireUnlisted(e) == [e EXCEPT !.state = "retired"]

\* prepareRetiredGeneration ends what the old enrollment has not finished,
\* keeps its terminal events, and calls every result reported.
Retire(e) ==
    LET ended ==
          CASE e.state = "received" ->
                  Append1([e EXCEPT !.state = "finished"], "cancelled")
            [] e.state = "running" ->
                  Append1([e EXCEPT !.state = "finished"], "unresolved")
            [] OTHER -> e
    IN  [ended EXCEPT !.events = Selected(@, TerminalEvents),
                      !.reported = TRUE]

SettleJournal ==
    /\ setup = "stopped"
    /\ setup' = "settled"
    /\ disk' = [r \in Runs |->
                  IF disk[r] # None /\ disk[r].generation = generation
                  THEN Retire(disk[r]) ELSE disk[r]]
    /\ journal' = disk'
    /\ UNCHANGED <<generation, up, retired, active, logs, loop, gapVars,
                   server, accepted, purged, bounds>>

\* rotateRetiredEnrollments.
RetireEnrollment ==
    /\ setup = "settled"
    /\ setup' = "enrolling"
    /\ retired' = retired \cup {generation}
    /\ UNCHANGED <<generation, up, runVars, loop, gapVars, server, accepted,
                   purged, bounds>>

\* The control plane enrolls the server again: SaveBootstrap, and a fresh
\* runtime state, which forgets a gap.
EnrollSucceeds ==
    /\ setup = "enrolling"
    /\ setup' = "none"
    /\ generation' = generation + 1
    /\ gap' = [memory |-> NoGap, disk |-> NoGap]
    /\ untold' = FALSE
    /\ UNCHANGED <<up, retired, runVars, loop, beat, server, accepted,
                   purged, bounds>>

\* The setup is killed, cannot reach the control plane or is refused.
SetupFails ==
    /\ setup \in {"stopped", "settled", "enrolling"}
    /\ setup' = "failed"
    /\ UNCHANGED <<generation, up, retired, runVars, loop, gapVars, server,
                   accepted, purged, bounds>>

-----------------------------------------------------------------------------
(* The specification *)

Init ==
    /\ generation = 1
    /\ setup = "none"
    /\ up = TRUE
    /\ journal = [r \in Runs |-> None]
    /\ disk = [r \in Runs |-> None]
    /\ active = {}
    /\ logs = {}
    /\ retired = {}
    /\ loop = [l \in Loops |-> IdleLoop]
    /\ gap = [memory |-> NoGap, disk |-> NoGap]
    /\ beat = IdleBeat
    /\ server = [events |-> {}, chunks |-> [r \in Runs |-> {}],
                 complete |-> {}, results |-> {}]
    /\ accepted = {}
    /\ purged = {}
    /\ untold = FALSE
    /\ crashes = 0
    /\ saveFailures = 0
    /\ rejections = 0

RunStep(r) ==
    \/ Accept(r)
    \/ Start(r)
    \/ FinishWithoutExecution(r)
    \/ Progress(r)
    \/ FinishOperation(r)
    \/ ReconcileOne(r)
    \/ FinishReplication(r)

LoopStep(l) ==
    \/ EndOfPass(l)
    \/ Take(l)
    \/ RequestFails(l)
    \/ AnswerLost(l)
    \/ Answered(l)
    \/ Rejected(l)
    \/ Strike(l)
    \/ Advance(l)
    \/ LogCompleted(l)
    \/ Remove(l)
    \/ Unlink(l)

RetiredStep ==
    \/ LoadRetired
    \/ CollectRetired
    \/ ExpireRetired
    \/ ForgetRetired
    \/ RetiredUnknown

HeartbeatStep ==
    \/ SendGap
    \/ GapAnswered
    \/ HeartbeatFails
    \/ AcknowledgeGap

SetupStep ==
    \/ BeginSetup
    \/ SettleJournal
    \/ RetireEnrollment
    \/ EnrollSucceeds
    \/ SetupFails

Next ==
    \/ \E r \in Runs : RunStep(r)
    \/ \E l \in Loops : LoopStep(l)
    \/ FlushJournal
    \/ ResultReported
    \/ RetiredStep
    \/ HeartbeatStep
    \/ SetupStep
    \/ Stop
    \/ Run

Spec == Init /\ [][Next]_vars

\* A reporter's own steps between two requests.
LoopProgress(l) ==
    \/ EndOfPass(l)
    \/ Take(l)
    \/ Strike(l)
    \/ Advance(l)
    \/ LogCompleted(l)
    \/ Remove(l)
    \/ Unlink(l)

\* The loops run forever and retry; the network works now and then; the
\* service manager restarts the daemon; the operator repeats a failed setup;
\* a replica is copied to again until it is complete.
Fairness ==
    /\ WF_vars(Run)
    /\ WF_vars(FlushJournal)
    /\ WF_vars(ResultReported)
    /\ WF_vars(LoadRetired)
    /\ WF_vars(CollectRetired)
    /\ WF_vars(ForgetRetired)
    /\ \A l \in Loops : WF_vars(LoopProgress(l)) /\ SF_vars(Answered(l))
    /\ \A r \in Runs : WF_vars(FinishReplication(r))
    /\ WF_vars(setup = "failed" /\ BeginSetup)
    /\ SF_vars(SettleJournal)
    /\ SF_vars(RetireEnrollment)
    /\ SF_vars(EnrollSucceeds)

FairSpec == Spec /\ Fairness

-----------------------------------------------------------------------------
(* Properties *)

OutcomesOf(r) == {x \in server.events : x[1] = r /\ x[2].kind \in Outcomes}

\* The events a reporter is about to strike are still the first ones of the
\* entry: current.Events[len(batch):] drops exactly what was sent, whatever
\* was appended to the entry, by the run or by a copy, while the request was
\* under way.
BatchIsPrefix ==
    \A l \in Loops :
        LET s == loop[l]
        IN  s.step \in {"events", "strike"} /\ Known(s.run) =>
               /\ Len(s.batch) <= Len(journal[s.run].events)
               /\ s.batch = SubSeq(journal[s.run].events, 1, Len(s.batch))

\* A log the control plane was told is complete is there as a whole, and the
\* count it was told is right, although the chunk counter is saved between
\* the uploads and may be behind after a restart.
LogWhole ==
    \A x \in server.complete :
        x[2] = LogChunks /\ server.chunks[x[1]] = 0..(LogChunks - 1)

\* A saved entry whose log is still to be uploaded has its file: the file is
\* written before the entry refers to it and removed after the entry is gone.
LogFileKept ==
    \A r \in Runs : disk[r] # None /\ disk[r].log /\ ~disk[r].completed
                        => r \in logs

\* A gap that no accepted heartbeat has reported is still marked: a heartbeat
\* acknowledges the gap it read, not one that was marked meanwhile.
GapStaysMarked == untold => gap.memory.detected

\* "replaying it until the control plane accepts it" (README.md): an outcome
\* or inventory event leaves the saved journal only when the control plane
\* has it, or with a run that is given up.
DurableUntilAccepted ==
    [][\A r \in Runs : disk[r] # None =>
          \A e \in EventSet(disk[r]) : e.kind \in TerminalKinds =>
             \/ disk'[r] # None /\ e \in EventSet(disk'[r])
             \/ <<r, e>> \in server.events
             \/ r \in purged']_vars

\* A run leaves the saved journal only when the control plane has its
\* outcome, its whole log and, for a command of this enrollment, its result.
ForgottenWhenReported ==
    [][\A r \in Runs : disk[r] # None /\ disk'[r] = None =>
          \/ r \in purged'
          \/ /\ OutcomesOf(r) # {}
             /\ disk[r].log => <<r, LogChunks>> \in server.complete
             /\ disk[r].generation = generation /\ r \notin Scheduled
                   => r \in server.results]_vars

\* The outcome of a finished run, and its log, reach the control plane through
\* restarts, lost requests, failed saves and a re-enrollment, unless the run is
\* given up with its enrollment: "replaying it until the control plane accepts
\* it" (README.md).
OutcomeArrives ==
    \A r \in Runs :
        (disk[r] # None /\ disk[r].state = "finished")
            ~> \/ r \in purged
               \/ /\ OutcomesOf(r) # {}
                  /\ disk[r] # None /\ disk[r].log
                        => <<r, LogChunks>> \in server.complete
=============================================================================
