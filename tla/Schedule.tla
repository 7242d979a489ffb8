------------------------------ MODULE Schedule ------------------------------
(***************************************************************************)
(* The scheduler (agent/scheduler.go) on the state database                *)
(* (agent/state_db.go): every minute a pass looks which operations are due *)
(* and journals a run for each, records that a queued run stands for it,   *)
(* or refuses it because the spool is full.  The record of an occurrence   *)
(* outlives its run, the process and changes of the clock.                 *)
(*                                                                         *)
(* While an update drains, nothing starts; a pass then looks back to the   *)
(* last one, over a restart too.  The database keeps a reserve file, whose *)
(* removal makes room for the record of a refusal when the disk is full.   *)
(*                                                                         *)
(* One job.  RunControl models what starts when; here a run is received,   *)
(* worked on in one step, and deleted once it is reported.  Of an update   *)
(* there is its command in the journal and its drain in the runtime state, *)
(* two transactions.                                                       *)
(***************************************************************************)
EXTENDS Naturals, Sequences, FiniteSets

CONSTANTS
    Operations,  \* the job's operations, sorted by priority
    Deferred,    \* those that wait for a backup
    Due,         \* [operation -> the minutes its cron expression names]
    MaxMinute,   \* bound: the last minute
    MaxTroubles  \* bound: crashes, steps back of the clock, full disks

Ops == {Operations[i] : i \in DOMAIN Operations}

\* What parseFixedUTCSchedule accepts.
ValidSchedule ==
    /\ MaxMinute \in Nat /\ MaxTroubles \in Nat
    /\ Operations \in Seq(STRING)
    /\ Deferred \subseteq Ops \ {"backup"}
    \* parseFixedUTCSchedule wants some distance; here it is one minute.
    /\ \A op \in Ops : \A m \in Due[op] : m \in 1 .. MaxMinute /\ m + 1 \notin Due[op]

ASSUME ScheduleIsValid == ValidSchedule

VARIABLES
    clock,
    up,       \* the process runs
    last,     \* daemon.lastScheduleMinute
    mem,      \* daemon.journal and daemon.state
    disk,     \* the database: both, an unfinished update_agent command, and the
              \* bucket of occurrences
    pass,     \* the call of scheduleBackups in progress
    reserve,  \* the reserve file exists
    released, \* store.reserveReleased
    crowded,  \* others have filled the disk
    slack,    \* what the reserve occupied is free
    over,     \* the spool exceeds its limit
    made,     \* how many runs were journaled for an occurrence
    owed,     \* occurrences without a run of their own that are owed one, or a gap
    left,     \* occurrences that the last pass looked at and did not answer
    disturbed, \* the clock was set back, or the end of an update was not saved
    troubles

storeVars == <<disk, reserve, released, slack>>
history == <<made, owed, left, disturbed>>
vars == <<clock, up, last, mem, pass, storeVars, crowded, over, history, troubles>>

Minutes == 0 .. MaxMinute

Occurrences == Ops \X (Minutes \ {0})

\* Of AgentUpdate: there is none; its LastScheduleMinute is empty.
NoMinute == MaxMinute + 1

Blank == MaxMinute + 2

Update == Minutes \cup {NoMinute, Blank}

\* The values of the bucket: nothing, the run's ID, or "gap".
NoRun == 0

RunIds == 1 .. 2

Gap == 3

Run == [occ : Occurrences, id : RunIds, state : {"received", "finished"},
        catchUp : BOOLEAN]

NoPass == [step |-> "idle"]

\* known are the occurrences that were recorded before the pass: history.
Pass == [step : {"scan", "coalesce", "refuse", "again", "admit"},
         minute : Minutes, after : Minutes, draining : BOOLEAN,
         at : 1 .. Len(Operations) + 1, known : SUBSET Occurrences]

TypeOK ==
    /\ clock \in Minutes /\ last \in Minutes /\ up \in BOOLEAN
    /\ mem.journal \subseteq Run /\ disk.journal \subseteq Run
    /\ mem.update \in Update /\ disk.update \in Update
    /\ disk.command \in BOOLEAN
    /\ mem.gap \in BOOLEAN /\ disk.gap \in BOOLEAN
    /\ disk.occ \in [Occurrences -> {NoRun, Gap} \cup RunIds]
    /\ pass \in Pass \cup {NoPass}
    /\ {reserve, released, crowded, slack, over} \subseteq BOOLEAN
    /\ made \in [Occurrences -> Nat] /\ disturbed \in BOOLEAN
    /\ owed \subseteq Occurrences /\ left \subseteq Occurrences
    /\ troubles \in 0 .. MaxTroubles
    \* The reserve is never on disk once it was released.
    /\ released => ~reserve

\* The memory of no process.
Off == [journal |-> {}, update |-> NoMinute, gap |-> FALSE]

Init ==
    /\ clock = 0 /\ up = TRUE /\ last = 0
    /\ mem = Off
    /\ disk = [journal |-> {}, update |-> NoMinute, gap |-> FALSE,
               command |-> FALSE, occ |-> [o \in Occurrences |-> NoRun]]
    /\ pass = NoPass
    /\ reserve = TRUE /\ released = FALSE /\ crowded = FALSE /\ slack = FALSE
    /\ over = FALSE
    /\ made = [o \in Occurrences |-> 0] /\ owed = {} /\ troubles = 0
    /\ left = {} /\ disturbed = FALSE

-----------------------------------------------------------------------------
(* The state database *)

DiskFull == crowded /\ ~slack

\* updateState commits.
Commit(contents) == disk' = contents /\ UNCHANGED <<reserve, released, slack>>

\* releaseReserve: from now on this process accepts no work.
ReleaseReserve ==
    /\ released' = TRUE
    /\ reserve' = FALSE
    /\ slack' = (slack \/ (reserve /\ crowded))

\* The disk is full when it commits: ErrSpoolCapacity.
CommitFull ==
    /\ DiskFull
    /\ ReleaseReserve
    /\ UNCHANGED disk

\* Of two transactions the first commits and the second finds the disk full.
CommitPartly(contents) ==
    /\ DiskFull
    /\ ReleaseReserve
    /\ disk' = contents

CanAcceptWork == ~released /\ ~over

\* Mutant: a run leaves no record of its occurrence.
RecordedNever(journal) == disk.occ

\* saveCommandJournal records the occurrence of every run in the journal.
Recorded(journal) ==
    [o \in Occurrences |->
        IF \E r \in journal : r.occ = o
        THEN (CHOOSE r \in journal : r.occ = o).id
        ELSE disk.occ[o]]

\* It would fail if an occurrence were another run's.  That never happens:
\* see OncePerOccurrence.
Conflicts(journal) ==
    \/ \E r \in journal : disk.occ[r.occ] \notin {NoRun, r.id}
    \/ \E r, s \in journal : r.occ = s.occ /\ r.id # s.id

\* The command of an update is unfinished for as long as the daemon drains.
WithJournal(state) ==
    [disk EXCEPT !.journal = state.journal, !.occ = Recorded(state.journal),
                 !.command = state.update # NoMinute]

WithState(state) == [disk EXCEPT !.update = state.update, !.gap = state.gap]

WithBoth(state) ==
    [WithJournal(state) EXCEPT !.update = state.update, !.gap = state.gap]

-----------------------------------------------------------------------------
(* The pass *)

environment == <<clock, up, crowded, over, troubles>>

Trouble == troubles < MaxTroubles /\ troubles' = troubles + 1

\* A minute that is not later is only remembered: the clock went back.
ClockWentBack ==
    /\ up /\ pass = NoPass
    /\ clock < last
    /\ last' = clock
    /\ UNCHANGED <<environment, mem, pass, storeVars, history>>

DueIn(op, after, through) == {m \in Due[op] : after < m /\ m <= through}

\* The occurrences that the pass p looks at and nothing answers: they are not
\* recorded, and p has recorded no earlier one, for which it looked back.
Unanswered(p) ==
    {o \in Occurrences :
        LET due == DueIn(o[1], p.after, p.minute)
        IN /\ o[2] \in due /\ disk.occ[o] = NoRun
           /\ \A m \in due : m < o[2] =>
                 disk.occ[<<o[1], m>>] = NoRun \/ <<o[1], m>> \in p.known}

\* Mutant: LastScheduleMinute stays at the beginning of the drain.
DoneForgotten(minute) == mem

\* A draining daemon remembers the minute for its next start.
Done(minute) ==
    IF mem.update # NoMinute THEN [mem EXCEPT !.update = minute] ELSE mem

\* The minute counts as done from here on.  A draining daemon saves it first.  One
\* that is paused for authentication stops here, and what is due gets no answer.
StartPass ==
    /\ up /\ pass = NoPass
    /\ clock > last
    /\ last' = clock
    /\ mem' = Done(clock)
    /\ LET draining == mem.update # NoMinute
           begun == [step |-> "scan", minute |-> clock, draining |-> draining,
                     after |-> IF draining THEN last ELSE clock - 1, at |-> 1,
                     known |-> {o \in Occurrences : disk.occ[o] # NoRun}]
       IN \/ /\ IF draining THEN Commit(WithState(mem')) ELSE UNCHANGED storeVars
             /\ pass' \in {begun, NoPass}
          \/ draining /\ CommitFull /\ UNCHANGED pass
    /\ UNCHANGED <<environment, history>>

Current == Operations[pass.at]

\* firstDueSchedule
FirstDue(op) ==
    CHOOSE m \in DueIn(op, pass.after, pass.minute) :
        \A n \in DueIn(op, pass.after, pass.minute) : m <= n

Scanning ==
    /\ pass.step = "scan"
    /\ pass.at <= Len(Operations)

IsDue == DueIn(Current, pass.after, pass.minute) # {}

Occurrence == <<Current, FirstDue(Current)>>

\* hasQueuedScheduledOperation
Queued(op, catchUpOnly) ==
    \E r \in mem.journal :
        r.occ[1] = op /\ r.state = "received" /\ (catchUpOnly => r.catchUp)

NextOperation == pass' = [pass EXCEPT !.step = "scan", !.at = @ + 1]

\* scheduleBackups returns an error; the loop calls it again, but not for this
\* minute.
Abort == pass' = NoPass

NotDue ==
    /\ Scanning
    /\ IsDue => disk.occ[Occurrence] # NoRun
    /\ NextOperation
    /\ UNCHANGED <<environment, last, mem, storeVars, history>>

IsNew ==
    /\ Scanning
    /\ IsDue
    /\ disk.occ[Occurrence] = NoRun

\* Mutant: any queued run of the job stands for the occurrence.
StandsForAny ==
    \/ pass.draining /\ \E op \in Ops : Queued(op, FALSE)
    \/ Current \in Deferred /\ Queued(Current, FALSE)
    \/ Current = "backup" /\ Queued(Current, TRUE)

\* A queued run stands for the occurrence.
StandsFor ==
    \/ (pass.draining \/ Current \in Deferred) /\ Queued(Current, FALSE)
    \/ Current = "backup" /\ Queued(Current, TRUE)

\* What the pass decides under the mutex it does later: the queued run may have
\* started by then, and the spool may have filled up.
Decide(step) ==
    /\ IsNew
    /\ pass' = [pass EXCEPT !.step = step]
    /\ UNCHANGED <<environment, last, mem, storeVars, made, left, disturbed>>

FindQueued ==
    /\ Decide("coalesce")
    /\ StandsFor
    /\ owed' = owed \cup {Occurrence}

RefuseForPressure ==
    /\ Decide("refuse")
    /\ ~StandsFor
    /\ ~CanAcceptWork
    /\ UNCHANGED owed

Admit ==
    /\ Decide("admit")
    /\ ~StandsFor
    /\ CanAcceptWork
    /\ UNCHANGED owed

\* recordSkippedOccurrence, alone or with the runtime state.
RecordGap(state) == Commit([WithState(state) EXCEPT !.occ[Occurrence] = Gap])

Coalesce ==
    /\ pass.step = "coalesce"
    /\ \/ RecordGap(disk) /\ NextOperation
       \/ CommitFull /\ Abort
    /\ UNCHANGED <<environment, last, mem, history>>

\* finishScheduledOverlap
Overlap(run) == [run EXCEPT !.state = "finished"]

\* What becomes of a new run: it is queued, to be started or to catch up, or it
\* is finished as an overlap, which a draining daemon and a deferred operation
\* do not look for.
NewRuns ==
    LET run == [occ |-> Occurrence, id |-> made[Occurrence] + 1,
                state |-> "received", catchUp |-> FALSE]
    IN {run} \cup (IF Current = "backup" THEN {[run EXCEPT !.catchUp = TRUE]} ELSE {})
             \cup (IF pass.draining \/ Current \in Deferred THEN {}
                   ELSE {Overlap(run)})

\* The run is journaled.  When that fails it is taken back.
JournalRun ==
    /\ pass.step = "admit"
    /\ \E run \in NewRuns :
        LET more == [mem EXCEPT !.journal = @ \cup {run}]
        IN \/ /\ Commit(WithJournal(more))
              /\ mem' = more
              /\ made' = [made EXCEPT ![Occurrence] = @ + 1]
              /\ NextOperation
           \/ /\ CommitFull
              /\ pass' = [pass EXCEPT !.step = "refuse"]
              /\ UNCHANGED <<mem, made>>
    /\ UNCHANGED <<environment, last, owed, left, disturbed>>

\* refuseOccurrenceForPressure records the occurrence and the gap together, and
\* tries a second time when the first has released the reserve.
Refuse ==
    /\ pass.step \in {"refuse", "again"}
    /\ LET marked == [mem EXCEPT !.gap = TRUE]
       IN \/ /\ RecordGap(marked)
             /\ mem' = marked
             /\ owed' = owed \cup {Occurrence}
             /\ NextOperation
          \/ /\ CommitFull
             /\ pass' = IF pass.step = "refuse" THEN [pass EXCEPT !.step = "again"]
                                                ELSE NoPass
             /\ UNCHANGED <<mem, owed>>
    /\ UNCHANGED <<environment, last, made, left, disturbed>>

EndPass ==
    /\ pass.step = "scan"
    /\ pass.at > Len(Operations)
    /\ left' = Unanswered(pass)
    /\ pass' = NoPass
    /\ UNCHANGED <<environment, last, mem, storeVars, made, owed, disturbed>>

-----------------------------------------------------------------------------
(* The runs, the reports and the update: what else changes the database *)

\* A queued run starts and ends.  It does what every occurrence of its operation
\* that was due before it is owed.
Work(r) ==
    /\ up
    /\ r.state = "received"
    /\ mem.update = NoMinute
    /\ CanAcceptWork
    /\ LET worked == [mem EXCEPT !.journal =
                         (@ \ {r}) \cup {[r EXCEPT !.state = "finished"]}]
       IN \/ /\ Commit(WithJournal(worked))
             /\ mem' = worked
             /\ owed' = {o \in owed : o[1] # r.occ[1]}
          \/ CommitFull /\ UNCHANGED <<mem, owed>>
    /\ UNCHANGED <<environment, last, pass, made, left, disturbed>>

\* WriteRunLog.  A log that does not fit releases the reserve.
WriteRunLog ==
    /\ up
    /\ \E r \in mem.journal : r.state = "finished"
    /\ \/ /\ CanAcceptWork
          /\ over' = TRUE
          /\ UNCHANGED <<reserve, released, slack>>
       \/ /\ ~CanAcceptWork \/ DiskFull
          /\ ReleaseReserve
          /\ UNCHANGED over
    /\ UNCHANGED <<clock, up, last, mem, disk, pass, crowded, history, troubles>>

\* The database is copied into a new file that replaces the old one at once;
\* a crash or an error on the way leaves the old one.
CompactIfPressured == over' \in {over, FALSE}

\* A reported run is deleted, in memory even when the save fails.
Delete(r) ==
    /\ up
    /\ r.state = "finished"
    /\ mem' = [mem EXCEPT !.journal = @ \ {r}]
    /\ \/ Commit(WithJournal(mem')) /\ CompactIfPressured
       \/ CommitFull /\ UNCHANGED over
    /\ UNCHANGED <<clock, up, crowded, troubles, last, pass, history>>

\* A queued run of the operation is in the database.
Saved(op) == \E r \in disk.journal : r.occ[1] = op /\ r.state = "received"

\* A heartbeat has told the control plane of the gap.
ClearGap ==
    /\ up
    /\ mem.gap
    /\ LET cleared == [mem EXCEPT !.gap = FALSE]
       IN \/ /\ Commit(WithState(cleared))
             /\ mem' = cleared
             /\ owed' = {o \in owed : Saved(o[1])}
          \/ CommitFull /\ UNCHANGED <<mem, owed>>
    /\ UNCHANGED <<environment, last, pass, made, left, disturbed>>

MemoryIsLost ==
    /\ up' = FALSE /\ released' = FALSE
    /\ mem' = Off /\ last' = 0 /\ pass' = NoPass

\* The process dies between two transactions of one critical section.
DiesBetween(contents) ==
    /\ disk' = contents
    /\ MemoryIsLost
    /\ UNCHANGED <<reserve, slack, clock, crowded, over>>

\* receiveCommand saves the command and then the drain.  When the second fails
\* it takes both back, and saves that if it can.
BeginUpdate ==
    /\ up
    /\ mem.update = NoMinute
    /\ LET draining == [mem EXCEPT !.update = last]
       IN \/ /\ \/ Commit(WithBoth(draining)) /\ mem' = draining
                \/ CommitFull /\ UNCHANGED mem
                \/ /\ \E state \in {mem, draining} : CommitPartly(WithJournal(state))
                   /\ UNCHANGED mem
             /\ UNCHANGED <<environment, last, pass>>
          \/ DiesBetween(WithJournal(draining)) /\ Trouble
    /\ UNCHANGED history

\* consumeAgentUpdateResult saves that the command is finished and then that the
\* drain has ended, which it has in memory whatever fails.
EndUpdate ==
    /\ up
    /\ mem.update # NoMinute
    /\ LET ended == [mem EXCEPT !.update = NoMinute]
       IN \/ /\ \/ Commit(WithBoth(ended)) /\ UNCHANGED disturbed
                \/ /\ CommitFull \/ CommitPartly(WithJournal(ended))
                   /\ disturbed' = TRUE
             /\ mem' = ended
             /\ UNCHANGED <<environment, last, pass>>
          \/ DiesBetween(WithJournal(ended)) /\ UNCHANGED <<troubles, disturbed>>
    /\ UNCHANGED <<made, owed, left>>

-----------------------------------------------------------------------------
(* Restarts, the clock and the disk *)

\* The process ends.  An update ends it in the ordinary course.
Stop ==
    /\ up
    /\ IF mem.update # NoMinute THEN UNCHANGED troubles ELSE Trouble
    /\ MemoryIsLost
    /\ UNCHANGED <<clock, disk, reserve, slack, crowded, over, history>>

\* ensureReserve: the database opens only with its reserve.
EnsureReserve ==
    /\ reserve \/ ~DiskFull
    /\ reserve' = TRUE
    /\ slack' = (slack /\ reserve)

\* loadRuntimeState and loadCommandJournal.
Loaded == [journal |-> disk.journal, update |-> disk.update, gap |-> disk.gap]

\* restoreAgentUpdateState: what drains is decided by the journal.  The minute is
\* that of the runtime state, also of the update before.
Restored ==
    [Loaded EXCEPT !.update =
        CASE ~disk.command -> NoMinute
          [] disk.command /\ @ = NoMinute -> Blank
          [] OTHER -> @]

\* runManaged.  A drain goes on from the minute that was saved with it.
Start ==
    /\ ~up
    /\ up' = TRUE
    /\ EnsureReserve
    /\ released' = FALSE
    /\ mem' = Restored
    /\ disk' = WithState(Restored)
    /\ last' = IF Restored.update \in Minutes THEN Restored.update ELSE clock
    /\ UNCHANGED <<clock, pass, crowded, over, history, troubles>>

\* The reserve fills the disk, and what was restored cannot be saved.
StartFails ==
    /\ ~up
    /\ Restored.update # disk.update
    /\ crowded /\ slack # reserve
    /\ reserve' = FALSE
    /\ slack' = TRUE
    /\ UNCHANGED <<clock, up, last, mem, pass, disk, released, crowded, over, history,
                   troubles>>

Tick ==
    /\ clock < MaxMinute
    /\ clock' = clock + 1
    /\ UNCHANGED <<up, last, mem, pass, storeVars, crowded, over, history, troubles>>

SetBack ==
    /\ Trouble
    /\ clock' \in 0 .. clock - 1
    /\ disturbed' = TRUE
    /\ UNCHANGED <<up, last, mem, pass, storeVars, crowded, over, made, owed, left>>

\* Other processes fill the disk, or what the reserve has freed, or make room.
DiskChanges ==
    /\ \/ ~crowded /\ Trouble /\ crowded' = TRUE /\ UNCHANGED slack
       \/ crowded /\ slack /\ Trouble /\ slack' = FALSE /\ UNCHANGED crowded
       \/ crowded /\ crowded' = FALSE /\ slack' = FALSE /\ UNCHANGED troubles
    /\ UNCHANGED <<clock, up, last, mem, disk, pass, reserve, released, over, history>>

-----------------------------------------------------------------------------

ScheduleBackups ==
    \/ ClockWentBack \/ StartPass \/ NotDue \/ FindQueued \/ Coalesce
    \/ RefuseForPressure \/ Refuse \/ Admit \/ JournalRun \/ EndPass

Others ==
    \/ \E r \in mem.journal : Work(r) \/ Delete(r)
    \/ WriteRunLog \/ ClearGap \/ BeginUpdate \/ EndUpdate

Next ==
    \/ ScheduleBackups \/ Others
    \/ Stop \/ Start \/ StartFails \/ Tick \/ SetBack \/ DiskChanges

Spec == Init /\ [][Next]_vars

-----------------------------------------------------------------------------
(* Properties *)

\* An occurrence gets at most one run, ever, and one that was recorded as a gap
\* gets none: over restarts, a clock that goes back, a drain that looks back,
\* and runs that were reported and deleted (scheduleBackups, occurrenceExists,
\* saveCommandJournal).
OncePerOccurrence ==
    /\ \A o \in Occurrences :
        /\ made[o] <= 1
        /\ disk.occ[o] = Gap => made[o] = 0
        /\ made[o] = 1 => disk.occ[o] = 1
    /\ up => ~Conflicts(mem.journal)

\* An occurrence that the scheduler gives to a queued run, or refuses because the
\* spool or the disk is full, is not forgotten: until such a run has started, or the
\* control plane was told of a gap, the database has the run or the mark, whatever
\* other loops save, fails or dies (recordSkippedOccurrence,
\* refuseOccurrenceForPressure, hasQueuedScheduledOperation).
NothingDroppedSilently == \A o \in owed : disk.gap \/ Saved(o[1])

\* A pass that comes to its end leaves no due occurrence unanswered, also one that
\* looks back over a drain, a restart and what was recorded before: unless the
\* clock was set back, or the end of an update was not saved (scheduleBackups,
\* firstDueSchedule, restoreAgentUpdateState).  One that finds the agent paused for
\* authentication answers nothing.
LookBackComplete == left # {} => disturbed

=============================================================================
