---------------------------- MODULE ScheduleProofs ----------------------------
(***************************************************************************)
(* The safety of Schedule for any schedule, any number of operations, and  *)
(* any number of crashes, steps back of the clock and full disks: an       *)
(* occurrence gets at most one run, one that is given to a queued run or   *)
(* refused stays marked, and a pass answers every occurrence it looks at.  *)
(***************************************************************************)
EXTENDS Schedule, WellFoundedInduction, TLAPS

Memory == [journal : SUBSET Run, update : Update, gap : BOOLEAN]

Database == [journal : SUBSET Run, update : Update, gap : BOOLEAN,
             command : BOOLEAN, occ : [Occurrences -> {NoRun, Gap} \cup RunIds]]

\* The variables that are neither a journal nor a record of occurrences.
Scalars ==
    /\ clock \in Minutes /\ last \in Minutes /\ up \in BOOLEAN
    /\ reserve \in BOOLEAN /\ released \in BOOLEAN /\ crowded \in BOOLEAN
    /\ slack \in BOOLEAN /\ over \in BOOLEAN
    /\ troubles \in 0 .. MaxTroubles
    /\ released => ~reserve
    /\ disturbed \in BOOLEAN

Typed ==
    /\ Scalars
    /\ pass \in Pass \cup {NoPass}
    /\ made \in [Occurrences -> Nat]
    /\ owed \subseteq Occurrences
    /\ left \subseteq Occurrences
    /\ mem \in Memory
    /\ disk \in Database

Received(journal) == {r \in journal : r.state = "received"}

\* Only a process that is up is in a pass.  What it holds of the gap mark and
\* of the queued runs is what the database holds, and the command of the update
\* for which it drains is there.
InStep ==
    /\ pass # NoPass => up
    /\ up => /\ mem.gap = disk.gap
             /\ Received(mem.journal) = Received(disk.journal)
             /\ mem.update # NoMinute => disk.command

\* Every run in a journal is the only one that was ever made for its
\* occurrence.
TheOnlyRun(journal) == \A r \in journal : r.id = 1 /\ made[r.occ] = 1

OccurrencesKept ==
    /\ \A o \in Occurrences :
        /\ made[o] <= 1
        /\ disk.occ[o] = Gap => made[o] = 0
        /\ made[o] = 1 => disk.occ[o] = 1
    /\ TheOnlyRun(mem.journal)
    /\ TheOnlyRun(disk.journal)

\* The first minute at which the operation is due for the pass is recorded.
Answered(op) ==
    \A m \in DueIn(op, pass.after, pass.minute) :
        \/ \E n \in DueIn(op, pass.after, pass.minute) : n < m
        \/ disk.occ[<<op, m>>] # NoRun

\* The pass has left no operation behind without an answer, and the occurrence
\* for which it has decided something was not recorded meanwhile.
PassInOrder ==
    pass # NoPass =>
        /\ \A i \in 1 .. Len(Operations) : i < pass.at => Answered(Operations[i])
        /\ pass.step # "scan" =>
              /\ pass.at <= Len(Operations)
              /\ IsDue
              /\ disk.occ[Occurrence] = NoRun

RecordedUpTo(minute) ==
    \A o \in Occurrences : disk.occ[o] # NoRun => o[2] <= minute

\* While the clock is not set back and the end of every update is saved, nothing
\* is recorded of the minutes after the last pass, also after a restart: so what
\* a pass finds recorded is older than what it looks at.
Steady ==
    ~disturbed =>
        /\ RecordedUpTo(clock)
        /\ disk.update \in Minutes =>
              /\ disk.update <= clock
              /\ disk.command => RecordedUpTo(disk.update)
        /\ up => /\ last <= clock
                 /\ RecordedUpTo(last)
                 /\ mem.update \in Minutes => mem.update = last
                 /\ mem.update = NoMinute => disk.update = NoMinute
        /\ pass # NoPass =>
              /\ pass.minute = last
              /\ \A o \in pass.known : o[2] <= pass.after
              /\ disk.command /\ disk.update \in Minutes => last <= disk.update

Kept ==
    /\ Typed
    /\ InStep
    /\ OccurrencesKept
    /\ PassInOrder
    /\ NothingDroppedSilently

Inv ==
    /\ Kept
    /\ Steady
    /\ LookBackComplete

-----------------------------------------------------------------------------
(* The schedule and the occurrence a pass looks at *)

\* What ValidSchedule says of the constants.
LEMMA ScheduleFacts ==
    /\ MaxMinute \in Nat /\ MaxTroubles \in Nat /\ Len(Operations) \in Nat
    /\ Minutes \subseteq Nat
    /\ 0 \in Minutes
    /\ \A i \in 1 .. Len(Operations) : Operations[i] \in Ops
    /\ \A op \in Ops : Due[op] \subseteq Minutes \ {0}
<1>1. MaxMinute \in Nat /\ MaxTroubles \in Nat /\ Operations \in Seq(STRING)
  BY ScheduleIsValid DEF ValidSchedule
<1>2. /\ Len(Operations) \in Nat
      /\ \A i \in 1 .. Len(Operations) : Operations[i] \in Ops
  BY <1>1 DEF Ops
<1>3. Minutes \subseteq Nat /\ 0 \in Minutes
  BY <1>1 DEF Minutes
<1>4. ASSUME NEW op \in Ops PROVE Due[op] \subseteq Minutes \ {0}
  <2>1. \A m \in Due[op] : m \in 1 .. MaxMinute
    BY ScheduleIsValid DEF ValidSchedule
  <2>2. QED
    BY <1>1, <2>1 DEF Minutes
<1>5. QED
  BY <1>1, <1>2, <1>3, <1>4

\* A set of minutes that is not empty has a first one.
LEMMA FirstMinute ==
    ASSUME NEW S, S \subseteq Nat, S # {}
    PROVE  \E m \in S : \A n \in S : m <= n
<1>1. PICK m \in S : \A n \in S : ~(<<n, m>> \in OpToRel(<, Nat))
  BY NatLessThanWellFounded, WFMin
<1>2. \A n \in S : ~(n < m)
  BY <1>1 DEF OpToRel
<1>3. QED
  BY <1>2

\* firstDueSchedule finds the first minute when there is one that is due.
LEMMA OccurrenceFacts ==
    ASSUME pass \in Pass, pass.at <= Len(Operations), IsDue
    PROVE  /\ Current \in Ops
           /\ FirstDue(Current) \in DueIn(Current, pass.after, pass.minute)
           /\ \A n \in DueIn(Current, pass.after, pass.minute) :
                 FirstDue(Current) <= n
           /\ Occurrence = <<Current, FirstDue(Current)>>
           /\ Occurrence \in Occurrences
           /\ Occurrence[2] <= pass.minute
<1>1. pass.at \in 1 .. Len(Operations)
  BY ScheduleFacts DEF Pass
<1>2. Current \in Ops
  BY <1>1, ScheduleFacts DEF Current
<1> DEFINE S == DueIn(Current, pass.after, pass.minute)
<1>3. S # {} /\ S \subseteq Minutes \ {0}
  BY <1>2, ScheduleFacts DEF IsDue, DueIn
<1>4. \E m \in S : \A n \in S : m <= n
  <2> HIDE DEF S
  <2>1. QED
    BY <1>3, FirstMinute, ScheduleFacts
<1>5. FirstDue(Current) \in S /\ \A n \in S : FirstDue(Current) <= n
  BY <1>4 DEF FirstDue
<1>6. Occurrence \in Occurrences /\ Occurrence[2] <= pass.minute
  BY <1>2, <1>3, <1>5 DEF Occurrence, Occurrences, DueIn
<1>7. QED
  BY <1>2, <1>5, <1>6 DEF Occurrence

\* The pass that is no pass is none of the passes.
LEMMA PassFacts ==
    /\ NoPass.step = "idle"
    /\ NoPass \notin Pass
    /\ \A p \in Pass :
          p.step \in {"scan", "coalesce", "refuse", "again", "admit"}
BY DEF NoPass, Pass

\* A pass that decides or tries again looks at the same occurrence.
LEMMA StepChanges ==
    ASSUME pass \in Pass, PassInOrder, disk'.occ = disk.occ,
           pass.at <= Len(Operations), IsDue, disk.occ[Occurrence] = NoRun,
           NEW step \in {"coalesce", "refuse", "again", "admit"},
           pass' = [pass EXCEPT !.step = step]
    PROVE  /\ pass' \in Pass
           /\ PassInOrder'
<1>1. /\ pass' \in Pass /\ pass'.at = pass.at /\ pass'.after = pass.after
      /\ pass'.minute = pass.minute
  BY DEF Pass
<1>2. pass # NoPass
  BY PassFacts
<1>3. QED
  BY <1>1, <1>2
     DEF PassInOrder, Answered, IsDue, Occurrence, FirstDue, Current

-----------------------------------------------------------------------------
(* The database *)

\* A save of the runtime state changes neither the journal nor the
\* occurrences.
LEMMA WithStateFacts ==
    ASSUME disk \in Database, NEW state,
           state.update \in Update, state.gap \in BOOLEAN
    PROVE  /\ WithState(state) \in Database
           /\ WithState(state).journal = disk.journal
           /\ WithState(state).occ = disk.occ
           /\ WithState(state).command = disk.command
           /\ WithState(state).update = state.update
           /\ WithState(state).gap = state.gap
BY DEF WithState, Database

\* A save of the journal changes neither the minute of the update nor the gap.
LEMMA WithJournalFacts ==
    ASSUME disk \in Database, NEW state, state.journal \in SUBSET Run,
           Recorded(state.journal) \in [Occurrences -> {NoRun, Gap} \cup RunIds]
    PROVE  /\ WithJournal(state) \in Database
           /\ WithJournal(state).journal = state.journal
           /\ WithJournal(state).occ = Recorded(state.journal)
           /\ WithJournal(state).command = (state.update # NoMinute)
           /\ WithJournal(state).update = disk.update
           /\ WithJournal(state).gap = disk.gap
BY DEF WithJournal, Database

\* Saving a journal of runs that were recorded before records nothing new.
LEMMA RecordedBefore ==
    ASSUME Kept, NEW J \in SUBSET Run, TheOnlyRun(J)
    PROVE  Recorded(J) = disk.occ
<1>1. disk.occ \in [Occurrences -> {NoRun, Gap} \cup RunIds]
  BY DEF Kept, Typed, Database
<1>2. ASSUME NEW o \in Occurrences, \E r \in J : r.occ = o
      PROVE  (CHOOSE r \in J : r.occ = o).id = disk.occ[o]
  <2> DEFINE r == CHOOSE r \in J : r.occ = o
  <2>1. r \in J /\ r.occ = o
    BY <1>2
  <2>2. r.id = 1 /\ made[o] = 1
    BY <2>1 DEF TheOnlyRun
  <2>3. QED
    BY <2>2 DEF Kept, OccurrencesKept
<1>3. QED
  BY <1>1, <1>2 DEF Recorded

\* Saving it with a first run for an occurrence records that one.
LEMMA RecordedFirst ==
    ASSUME Kept, NEW J \in SUBSET Run, TheOnlyRun(J), NEW run \in Run,
           run.id = 1
    PROVE  Recorded(J \cup {run}) = [disk.occ EXCEPT ![run.occ] = 1]
<1>1. /\ disk.occ \in [Occurrences -> {NoRun, Gap} \cup RunIds]
      /\ run.occ \in Occurrences
  BY DEF Kept, Typed, Database, Run
<1>2. ASSUME NEW o \in Occurrences, \E r \in J \cup {run} : r.occ = o
      PROVE  /\ (CHOOSE r \in J \cup {run} : r.occ = o).id = 1
             /\ o # run.occ => disk.occ[o] = 1
  <2> DEFINE r == CHOOSE r \in J \cup {run} : r.occ = o
  <2>1. r \in J \cup {run} /\ r.occ = o
    BY <1>2
  <2>2. r.id = 1 /\ (o # run.occ => made[o] = 1)
    BY <2>1 DEF TheOnlyRun
  <2>3. QED
    BY <2>2 DEF Kept, OccurrencesKept
<1>3. QED
  BY <1>1, <1>2 DEF Recorded

\* The contents hold the runs of this process, and no occurrence more.
Harmless(contents) ==
    /\ contents \in Database
    /\ TheOnlyRun(contents.journal)
    /\ Received(contents.journal) = Received(mem.journal)
    /\ contents.occ = disk.occ
    /\ contents.gap = disk.gap

\* The process saves the journal it has and a state that goes with it.
LEMMA SavesOwnJournal ==
    ASSUME Kept, up, NEW state, state.journal = mem.journal,
           state.update \in Update, state.gap = mem.gap
    PROVE  /\ Harmless(disk)
           /\ Harmless(WithState(state))
           /\ WithState(state).update = state.update
           /\ WithState(state).command = disk.command
           /\ Harmless(WithJournal(state))
           /\ WithJournal(state).update = disk.update
           /\ WithJournal(state).command = (state.update # NoMinute)
           /\ Harmless(WithBoth(state))
           /\ WithBoth(state).update = state.update
           /\ WithBoth(state).command = (state.update # NoMinute)
<1>1. /\ disk \in Database /\ mem.journal \in SUBSET Run /\ mem.gap \in BOOLEAN
      /\ mem.gap = disk.gap /\ Received(mem.journal) = Received(disk.journal)
      /\ TheOnlyRun(mem.journal) /\ TheOnlyRun(disk.journal)
  BY DEF Kept, Typed, Memory, InStep, OccurrencesKept
<1>2. /\ Recorded(state.journal) = disk.occ
      /\ disk.occ \in [Occurrences -> {NoRun, Gap} \cup RunIds]
  BY <1>1, RecordedBefore DEF Database
<1>3. Harmless(disk)
  BY <1>1 DEF Harmless
<1>4. /\ Harmless(WithState(state))
      /\ WithState(state).update = state.update
      /\ WithState(state).command = disk.command
  BY <1>1, WithStateFacts DEF Harmless
<1>5. /\ Harmless(WithJournal(state))
      /\ WithJournal(state).update = disk.update
      /\ WithJournal(state).command = (state.update # NoMinute)
  BY <1>1, <1>2, WithJournalFacts DEF Harmless
<1>6. /\ Harmless(WithBoth(state))
      /\ WithBoth(state).update = state.update
      /\ WithBoth(state).command = (state.update # NoMinute)
  <2> DEFINE w == WithJournal(state)
             b == WithBoth(state)
  <2>1. /\ w \in Database /\ w.journal = mem.journal /\ w.occ = disk.occ
        /\ w.command = (state.update # NoMinute)
    BY <1>1, <1>2, WithJournalFacts
  <2>2. b = [w EXCEPT !.update = state.update, !.gap = state.gap]
    BY DEF WithBoth
  <2> HIDE DEF w, b
  <2>3. /\ b \in Database /\ b.journal = mem.journal /\ b.occ = disk.occ
        /\ b.gap = disk.gap /\ b.update = state.update /\ b.command = w.command
    BY <1>1, <2>1, <2>2 DEF Database
  <2>4. Harmless(b) /\ b.command = (state.update # NoMinute)
    BY <1>1, <2>1, <2>3 DEF Harmless
  <2>5. QED
    BY <2>3, <2>4 DEF b
<1>7. QED
  BY <1>3, <1>4, <1>5, <1>6

-----------------------------------------------------------------------------
(* What the steps have in common *)

\* What is owed stays owed while the marks and the queued runs are kept.
LEMMA MarksKept ==
    ASSUME NothingDroppedSilently, owed' \subseteq owed,
           disk.gap => disk'.gap,
           Received(disk'.journal) = Received(disk.journal)
    PROVE  NothingDroppedSilently'
<1>1. ASSUME NEW o \in owed, Saved(o[1]) PROVE Saved(o[1])'
  <2>1. PICK r \in Received(disk.journal) : r.occ[1] = o[1]
    BY <1>1 DEF Saved, Received
  <2>2. r \in disk'.journal /\ r.state = "received"
    BY <2>1 DEF Received
  <2>3. QED
    BY <2>1, <2>2 DEF Saved
<1>2. QED
  BY <1>1 DEF NothingDroppedSilently

\* A step that records no occurrence and goes on with the pass, or ends it.
LEMMA NothingRecorded ==
    ASSUME Kept, Scalars', mem' \in Memory, disk' \in Database, left' \subseteq Occurrences,
           disk'.occ = disk.occ, made' = made, pass' \in {pass, NoPass},
           TheOnlyRun(mem'.journal), TheOnlyRun(disk'.journal),
           owed' \subseteq owed, InStep', NothingDroppedSilently'
    PROVE  Kept'
<1> USE DEF Kept
<1>1. Typed'
  BY DEF Typed
<1>2. OccurrencesKept'
  BY DEF OccurrencesKept, TheOnlyRun
<1>3. PassInOrder'
  BY DEF PassInOrder, Answered, IsDue, Occurrence, FirstDue, Current
<1>4. QED
  BY <1>1, <1>2, <1>3

\* The operation the pass is at got its answer, and the pass goes on.
LEMMA PassMoves ==
    ASSUME Kept, pass # NoPass, pass.at <= Len(Operations), NextOperation,
           \A o \in Occurrences : disk.occ[o] # NoRun => disk'.occ[o] # NoRun,
           IsDue => disk'.occ[Occurrence] # NoRun
    PROVE  /\ pass' \in Pass
           /\ PassInOrder'
<1>1. pass \in Pass
  BY DEF Kept, Typed
<1>2. /\ pass' \in Pass
      /\ pass'.step = "scan" /\ pass'.at = pass.at + 1
      /\ pass'.after = pass.after /\ pass'.minute = pass.minute
  <2>1. pass.at + 1 \in 1 .. Len(Operations) + 1
    BY <1>1, ScheduleFacts DEF Pass
  <2>2. pass' = [pass EXCEPT !.step = "scan", !.at = pass.at + 1]
    BY DEF NextOperation
  <2>3. QED
    BY <1>1, <2>1, <2>2 DEF Pass
<1>3. ASSUME NEW i \in 1 .. Len(Operations), i < pass'.at
      PROVE  Answered(Operations[i])'
  <2> DEFINE due == DueIn(Operations[i], pass.after, pass.minute)
  <2>1. ASSUME NEW m \in due
        PROVE  <<Operations[i], m>> \in Occurrences /\ m \in Nat
    BY ScheduleFacts DEF DueIn, Occurrences
  <2>2. CASE i < pass.at
    <3>1. Answered(Operations[i])
      BY <1>1, <2>2, PassFacts DEF Kept, PassInOrder
    <3>2. ASSUME NEW m \in due
          PROVE  \/ \E n \in due : n < m
                 \/ disk'.occ[<<Operations[i], m>>] # NoRun
      BY <2>1, <3>1 DEF Answered
    <3>3. QED
      BY <1>2, <3>2 DEF Answered
  <2>3. CASE i = pass.at
    <3>1. Operations[i] = Current
      BY <2>3 DEF Current
    <3>2. ASSUME NEW m \in due
          PROVE  \/ \E n \in due : n < m
                 \/ disk'.occ[<<Operations[i], m>>] # NoRun
      <4>1. IsDue
        BY <3>1 DEF IsDue
      <4>2. /\ FirstDue(Current) \in due /\ FirstDue(Current) <= m
            /\ disk'.occ[<<Current, FirstDue(Current)>>] # NoRun
        BY <1>1, <3>1, <4>1, OccurrenceFacts
      <4>3. FirstDue(Current) = m \/ FirstDue(Current) < m
        <5>1. m \in Nat /\ FirstDue(Current) \in Nat
          BY <2>1, <4>2
        <5> DEFINE f == FirstDue(Current)
        <5> HIDE DEF f
        <5>2. f \in Nat /\ f <= m => f = m \/ f < m
          BY <5>1
        <5>3. QED
          BY <4>2, <5>1, <5>2 DEF f
      <4>4. QED
        BY <3>1, <4>2, <4>3
    <3>3. QED
      BY <1>2, <3>2 DEF Answered
  <2>4. QED
    BY <1>1, <1>2, <1>3, <2>2, <2>3, ScheduleFacts DEF Pass
<1>4. PassInOrder'
  BY <1>2, <1>3 DEF PassInOrder
<1>5. QED
  BY <1>2, <1>4

\* The reserve, whether a transaction commits or finds the disk full.
LEMMA ReserveFacts ==
    ASSUME Scalars,
           \/ UNCHANGED <<reserve, released, slack>>
           \/ ReleaseReserve
    PROVE  /\ reserve' \in BOOLEAN /\ released' \in BOOLEAN
           /\ slack' \in BOOLEAN
           /\ released' => ~reserve'
<1>1. CASE UNCHANGED <<reserve, released, slack>>
  BY <1>1 DEF Scalars
<1>2. CASE ReleaseReserve
  <2>1. released' = TRUE /\ reserve' = FALSE
    BY <1>2 DEF ReleaseReserve
  <2>2. slack' \in BOOLEAN
    BY <1>2 DEF ReleaseReserve
  <2>3. QED
    BY <2>1, <2>2
<1>3. QED
  BY <1>1, <1>2

\* The scalars keep their types in every step.
LEMMA ScalarsKept ==
    ASSUME Kept, Next
    PROVE  Scalars'
<1> USE DEF Kept, Typed
<1>1. CASE ClockWentBack \/ NotDue \/ FindQueued \/ RefuseForPressure \/ Admit \/ EndPass
  BY <1>1 DEF ClockWentBack, NotDue, FindQueued, RefuseForPressure, Admit, Decide,
              EndPass, environment, storeVars, history, Scalars
<1>2. CASE StartPass
  <2>1. /\ UNCHANGED environment
        /\ last' = clock /\ disturbed' = disturbed
        /\ UNCHANGED <<reserve, released, slack>> \/ ReleaseReserve
    BY <1>2 DEF StartPass, Commit, CommitFull, storeVars, history
  <2>2. QED
    BY <2>1, ReserveFacts DEF Scalars, environment
<1>3. CASE Coalesce \/ JournalRun \/ Refuse
  <2>1. /\ UNCHANGED environment
        /\ last' = last /\ disturbed' = disturbed
        /\ UNCHANGED <<reserve, released, slack>> \/ ReleaseReserve
    BY <1>3 DEF Coalesce, JournalRun, Refuse, RecordGap, Commit, CommitFull, history
  <2>2. QED
    BY <2>1, ReserveFacts DEF Scalars, environment
<1>4. ASSUME NEW r \in mem.journal, Work(r) \/ Delete(r)
      PROVE  Scalars'
  <2>1. /\ UNCHANGED <<clock, up, crowded, troubles, last, disturbed>>
        /\ over' \in {over, FALSE}
        /\ UNCHANGED <<reserve, released, slack>> \/ ReleaseReserve
    BY <1>4 DEF Work, Delete, CompactIfPressured, Commit, CommitFull,
                environment, history
  <2>2. QED
    BY <2>1, ReserveFacts DEF Scalars
<1>5. CASE WriteRunLog \/ ClearGap
  <2>1. /\ UNCHANGED <<clock, up, crowded, troubles, last, disturbed>>
        /\ over' \in {over, TRUE}
        /\ UNCHANGED <<reserve, released, slack>> \/ ReleaseReserve
    BY <1>5 DEF WriteRunLog, ClearGap, Commit, CommitFull, environment, history
  <2>2. QED
    BY <2>1, ReserveFacts DEF Scalars
<1>6. CASE BeginUpdate \/ EndUpdate
  <2>1. disturbed' \in {disturbed, TRUE} /\ crowded' = crowded /\ over' = over
    BY <1>6 DEF BeginUpdate, EndUpdate, DiesBetween, environment, history
  <2>2. CASE /\ UNCHANGED <<environment, last>>
             /\ UNCHANGED <<reserve, released, slack>> \/ ReleaseReserve
    BY <2>1, <2>2, ReserveFacts DEF Scalars, environment
  <2>3. CASE /\ MemoryIsLost /\ UNCHANGED <<reserve, slack, clock>>
             /\ troubles' = troubles \/ Trouble
    <3>1. troubles' \in 0 .. MaxTroubles /\ 0 \in Minutes
      BY <2>3, ScheduleFacts DEF Trouble, Scalars
    <3>2. QED
      BY <2>1, <2>3, <3>1 DEF MemoryIsLost, Scalars
  <2>4. \/ /\ UNCHANGED <<environment, last>>
           /\ UNCHANGED <<reserve, released, slack>> \/ ReleaseReserve
        \/ /\ MemoryIsLost /\ UNCHANGED <<reserve, slack, clock>>
           /\ troubles' = troubles \/ Trouble
    BY <1>6 DEF BeginUpdate, EndUpdate, DiesBetween, Commit, CommitFull, CommitPartly
  <2>5. QED
    BY <2>2, <2>3, <2>4
<1>7. CASE Stop
  <2>1. troubles' \in 0 .. MaxTroubles /\ 0 \in Minutes
    BY <1>7, ScheduleFacts DEF Stop, Trouble, Scalars
  <2>2. QED
    BY <1>7, <2>1 DEF Stop, MemoryIsLost, Scalars, history
<1>8. CASE Tick
  <2>1. clock' \in Minutes
    BY <1>8, ScheduleFacts DEF Tick, Scalars, Minutes
  <2>2. QED
    BY <1>8, <2>1 DEF Tick, Scalars, storeVars, history
<1>9. CASE SetBack
  <2>1. clock' \in Minutes /\ troubles' \in 0 .. MaxTroubles
    BY <1>9, ScheduleFacts DEF SetBack, Trouble, Scalars, Minutes
  <2>2. QED
    BY <1>9, <2>1 DEF SetBack, Scalars, storeVars
<1>10. CASE DiskChanges
  <2>1. troubles' \in 0 .. MaxTroubles
    BY <1>10, ScheduleFacts DEF DiskChanges, Trouble, Scalars
  <2>2. crowded' \in BOOLEAN /\ slack' \in BOOLEAN
    BY <1>10 DEF DiskChanges, Scalars
  <2>3. QED
    BY <1>10, <2>1, <2>2 DEF DiskChanges, Scalars, history
<1>11. CASE Start
  <2>1. /\ UNCHANGED <<clock, crowded, over, troubles, disturbed>>
        /\ slack' \in BOOLEAN /\ reserve' = TRUE /\ released' = FALSE
        /\ up' = TRUE /\ last' \in Minutes
    BY <1>11 DEF Start, EnsureReserve, Scalars, history
  <2>2. QED
    BY <2>1 DEF Scalars
<1>12. CASE StartFails
  BY <1>12 DEF StartFails, Scalars, history
<1>13. QED
  BY <1>1, <1>2, <1>3, <1>4, <1>5, <1>6, <1>7, <1>8, <1>9, <1>10, <1>11, <1>12
     DEF Next, ScheduleBackups, Others

-----------------------------------------------------------------------------
(* The pass *)

\* What a transaction that finds the disk full leaves as it was.
LEMMA DiskKept ==
    ASSUME CommitFull PROVE disk' = disk
BY DEF CommitFull

\* The pass that is about to begin: it has answered no operation.
Begun ==
    [step |-> "scan", minute |-> clock, draining |-> mem.update # NoMinute,
     after |-> IF mem.update # NoMinute THEN last ELSE clock - 1, at |-> 1,
     known |-> {o \in Occurrences : disk.occ[o] # NoRun}]

LEMMA BegunFacts ==
    ASSUME Scalars, clock > last
    PROVE  /\ Begun \in Pass /\ Begun # NoPass
           /\ Begun.step = "scan" /\ Begun.at = 1 /\ Begun.minute = clock
           /\ Begun.after = IF mem.update # NoMinute THEN last ELSE clock - 1
           /\ Begun.known = {o \in Occurrences : disk.occ[o] # NoRun}
<1>1. clock \in Minutes /\ (IF mem.update # NoMinute THEN last ELSE clock - 1) \in Minutes
  BY ScheduleFacts DEF Scalars, Minutes
<1>2. 1 \in 1 .. Len(Operations) + 1
  BY ScheduleFacts
<1>3. Begun \in Pass
  BY <1>1, <1>2 DEF Begun, Pass
<1>4. Begun # NoPass
  BY <1>3, PassFacts
<1>5. QED
  BY <1>3, <1>4 DEF Begun

\* What the beginning of a pass does.
LEMMA StartPassDoes ==
    ASSUME Kept, StartPass
    PROVE  /\ up /\ up' = up /\ pass = NoPass /\ clock > last /\ last' = clock
           /\ clock' = clock /\ made' = made /\ owed' = owed /\ disturbed' = disturbed
           /\ mem' \in Memory /\ mem'.journal = mem.journal /\ mem'.gap = mem.gap
           /\ mem'.update = IF mem.update # NoMinute THEN clock ELSE NoMinute
           /\ disk' \in Database /\ disk'.journal = disk.journal
           /\ disk'.occ = disk.occ /\ disk'.gap = disk.gap
           /\ disk'.command = disk.command
           /\ disk'.update \in {disk.update, mem'.update}
           /\ pass' = Begun => mem.update = NoMinute \/ disk'.update = clock
           /\ pass' \in {Begun, NoPass}
           /\ left' = left
<1>1. /\ up /\ up' = up /\ pass = NoPass /\ clock > last /\ last' = clock
      /\ clock' = clock /\ made' = made /\ owed' = owed /\ disturbed' = disturbed
      /\ left' = left /\ mem' = Done(clock)
  BY DEF StartPass, environment, history
<1>2. /\ clock \in Minutes /\ mem \in Memory /\ disk \in Database
      /\ mem.gap = disk.gap
  BY <1>1 DEF Kept, Typed, Scalars, InStep
<1>3. /\ mem' \in Memory /\ mem'.journal = mem.journal /\ mem'.gap = mem.gap
      /\ mem'.update = IF mem.update # NoMinute THEN clock ELSE NoMinute
  BY <1>1, <1>2 DEF Done, Memory, Update
<1>4. Begun # NoPass
  BY <1>1, BegunFacts DEF Kept, Typed
<1>5. CASE /\ pass' \in {Begun, NoPass}
           /\ IF mem.update # NoMinute THEN disk' = WithState(mem') ELSE disk' = disk
  <2>1. mem'.update \in Update /\ mem'.gap \in BOOLEAN
    BY <1>3 DEF Memory
  <2>2. QED
    BY <1>1, <1>2, <1>3, <1>4, <1>5, <2>1, WithStateFacts
<1>6. CASE pass' = pass /\ disk' = disk
  BY <1>1, <1>2, <1>3, <1>4, <1>6
<1>7. QED
  BY <1>5, <1>6, DiskKept DEF StartPass, Commit, Begun, storeVars

\* A pass that starts has to answer every operation, and has answered none.
LEMMA StartPassActs ==
    ASSUME Kept, StartPass, Scalars'
    PROVE  Kept'
<1> USE DEF Kept
<1>1. /\ up' /\ made' = made /\ owed' = owed
      /\ mem' \in Memory /\ mem'.journal = mem.journal /\ mem'.gap = mem.gap
      /\ mem'.update # NoMinute => mem.update # NoMinute
      /\ disk' \in Database /\ disk'.journal = disk.journal
      /\ disk'.occ = disk.occ /\ disk'.gap = disk.gap
      /\ disk'.command = disk.command
      /\ pass' \in {Begun, NoPass} /\ left' \subseteq Occurrences
  BY StartPassDoes DEF Typed
<1>2. Begun \in Pass /\ Begun # NoPass /\ Begun.step = "scan" /\ Begun.at = 1
  BY StartPassDoes, BegunFacts DEF Typed
<1>3. Typed'
  BY <1>1, <1>2 DEF Typed
<1>4. InStep'
  BY <1>1, StartPassDoes DEF InStep, Received
<1>5. OccurrencesKept'
  BY <1>1 DEF OccurrencesKept, TheOnlyRun
<1>6. PassInOrder'
  BY <1>1, <1>2 DEF PassInOrder
<1>7. NothingDroppedSilently'
  BY <1>1, MarksKept
<1>8. QED
  BY <1>3, <1>4, <1>5, <1>6, <1>7

\* A step of the pass that writes nothing.
LEMMA PassReadsActs ==
    ASSUME Kept, Scalars',
           NotDue \/ FindQueued \/ RefuseForPressure \/ Admit \/ EndPass
    PROVE  Kept'
<1> USE DEF Kept
<1>1. /\ UNCHANGED <<up, mem, disk, made>>
      /\ pass.step = "scan"
  BY DEF NotDue, FindQueued, RefuseForPressure, Admit, Decide, EndPass, IsNew,
         Scanning, environment, storeVars, history
<1>2. pass \in Pass /\ up /\ pass # NoPass
  BY <1>1, PassFacts DEF Typed, InStep
<1>3. CASE NotDue
  <2>1. NextOperation /\ owed' = owed /\ left' = left /\ pass.at <= Len(Operations)
    BY <1>3 DEF NotDue, Scanning, history
  <2>2. pass' \in Pass /\ PassInOrder'
    BY <1>1, <1>2, <1>3, <2>1, PassMoves DEF NotDue
  <2>3. QED
    BY <1>1, <1>2, <2>1, <2>2, MarksKept
       DEF Typed, InStep, OccurrencesKept, TheOnlyRun
<1>4. CASE FindQueued \/ RefuseForPressure \/ Admit
  <2>1. PICK step \in {"coalesce", "refuse", "admit"} : Decide(step)
    BY <1>4 DEF FindQueued, RefuseForPressure, Admit
  <2>2. /\ pass.at <= Len(Operations) /\ IsDue /\ disk.occ[Occurrence] = NoRun
        /\ left' = left /\ pass' = [pass EXCEPT !.step = step]
    BY <2>1 DEF Decide, IsNew, Scanning
  <2>3. pass' \in Pass /\ PassInOrder'
    <3>1. step \in {"coalesce", "refuse", "again", "admit"} /\ disk'.occ = disk.occ
      BY <1>1
    <3>2. QED
      BY <1>2, <2>2, <3>1, StepChanges
  <2>4. owed' \subseteq Occurrences /\ NothingDroppedSilently'
    <3>1. CASE owed' = owed
      BY <1>1, <3>1, MarksKept DEF Typed
    <3>2. CASE FindQueued
      <4>1. PICK r \in mem.journal : r.occ[1] = Current /\ r.state = "received"
        BY <3>2 DEF FindQueued, StandsFor, Queued
      <4>2. r \in disk.journal
        BY <1>2, <4>1 DEF InStep, Received
      <4>3. Occurrence \in Occurrences /\ Saved(Occurrence[1])
        BY <1>2, <2>2, <4>1, <4>2, OccurrenceFacts DEF Saved
      <4>4. owed' = owed \cup {Occurrence}
        BY <3>2 DEF FindQueued
      <4>5. QED
        BY <1>1, <4>3, <4>4 DEF Typed, NothingDroppedSilently, Saved
    <3>3. QED
      BY <1>4, <3>1, <3>2 DEF RefuseForPressure, Admit
  <2>5. QED
    BY <1>1, <1>2, <2>2, <2>3, <2>4 DEF Typed, InStep, OccurrencesKept, TheOnlyRun
<1>5. CASE EndPass
  <2>1. /\ owed' = owed /\ pass' = NoPass
        /\ left' = Unanswered(pass)
    BY <1>5 DEF EndPass
  <2>2. left' \subseteq Occurrences
    BY <2>1 DEF Unanswered
  <2>3. InStep'
    BY <1>1, <1>2, <2>1 DEF InStep
  <2>4. NothingDroppedSilently'
    BY <1>1, <2>1, MarksKept
  <2>5. QED
    BY <1>1, <2>1, <2>2, <2>3, <2>4, NothingRecorded DEF Typed, OccurrencesKept
<1>6. QED
  BY <1>3, <1>4, <1>5

\* The pass records the occurrence as a gap: one that has no run.
LEMMA RecordGapActs ==
    ASSUME Kept, Scalars', pass \in Pass, up' = up, made' = made, left' = left,
           pass.at <= Len(Operations), IsDue, disk.occ[Occurrence] = NoRun,
           NEW state, state.update \in Update, state.gap \in BOOLEAN,
           RecordGap(state), NextOperation,
           mem' \in Memory, mem'.journal = mem.journal, mem'.gap = state.gap,
           mem'.update = mem.update,
           disk.gap => state.gap,
           \/ owed' = owed
           \/ owed' = owed \cup {Occurrence} /\ state.gap
    PROVE  /\ Kept'
           /\ disk'.command = disk.command /\ disk'.update = state.update
           /\ \A o \in Occurrences :
                 disk'.occ[o] # NoRun => disk.occ[o] # NoRun \/ o[2] <= pass.minute
<1> USE DEF Kept
<1> DEFINE w == WithState(state)
           n == [w EXCEPT !.occ[Occurrence] = Gap]
<1>1. up /\ pass # NoPass
  BY PassFacts DEF InStep
<1>2. /\ Occurrence \in Occurrences /\ Occurrence[2] <= pass.minute
      /\ w \in Database /\ w.journal = disk.journal
      /\ w.occ = disk.occ /\ w.gap = state.gap
      /\ w.command = disk.command /\ w.update = state.update
  BY OccurrenceFacts, WithStateFacts DEF Typed
<1>3. disk' = n
  BY DEF RecordGap, Commit
<1> HIDE DEF w
<1>4. /\ n \in Database /\ n.journal = disk.journal /\ n.gap = state.gap
      /\ n.occ = [disk.occ EXCEPT ![Occurrence] = Gap]
      /\ n.command = disk.command /\ n.update = state.update
  BY <1>2 DEF Database
<1> HIDE DEF n
<1>5. /\ disk'.occ[Occurrence] = Gap
      /\ \A o \in Occurrences : o # Occurrence => disk'.occ[o] = disk.occ[o]
  BY <1>2, <1>3, <1>4 DEF Typed, Database
<1>6. pass' \in Pass /\ PassInOrder'
  <2>1. Gap # NoRun
    BY DEF Gap, NoRun
  <2>2. QED
    BY <1>1, <1>5, <2>1, PassMoves
<1>7. Typed'
  BY <1>2, <1>3, <1>4, <1>6 DEF Typed
<1>8. InStep'
  BY <1>1, <1>3, <1>4 DEF InStep
<1>9. OccurrencesKept'
  <2>1. made[Occurrence] = 0
    BY <1>2 DEF OccurrencesKept, Typed, NoRun
  <2>2. QED
    BY <1>2, <1>3, <1>4, <1>5, <2>1 DEF OccurrencesKept, TheOnlyRun
<1>10. NothingDroppedSilently'
  <2>1. CASE owed' = owed
    BY <1>3, <1>4, <2>1, MarksKept
  <2>2. CASE state.gap
    BY <1>3, <1>4, <2>2 DEF NothingDroppedSilently
  <2>3. QED
    BY <2>1, <2>2
<1>11. QED
  BY <1>2, <1>3, <1>4, <1>5, <1>6, <1>7, <1>8, <1>9, <1>10

\* A queued run stands for the occurrence, which is recorded as a gap.
LEMMA CoalesceActs ==
    ASSUME Kept, Scalars', Coalesce
    PROVE  /\ Kept'
           /\ mem'.update = mem.update
           /\ disk'.command = disk.command /\ disk'.update = disk.update
           /\ \A o \in Occurrences :
                 disk'.occ[o] # NoRun => disk.occ[o] # NoRun \/ o[2] <= pass.minute
<1> USE DEF Kept
<1>1. /\ pass.step = "coalesce"
      /\ UNCHANGED <<up, mem, made, owed, left>>
  BY DEF Coalesce, environment, history
<1>2. pass \in Pass /\ up
  BY <1>1, PassFacts DEF Typed, InStep
<1>3. pass.at <= Len(Operations) /\ IsDue /\ disk.occ[Occurrence] = NoRun
  BY <1>1, <1>2, PassFacts DEF PassInOrder
<1>4. CASE RecordGap(disk) /\ NextOperation
  <2>1. /\ disk.update \in Update /\ disk.gap \in BOOLEAN
        /\ mem.gap = disk.gap /\ mem \in Memory
    BY <1>2 DEF Typed, Database, InStep
  <2>2. QED
    BY <1>1, <1>2, <1>3, <1>4, <2>1, RecordGapActs
<1>5. CASE CommitFull /\ Abort
  <2>1. disk' = disk /\ pass' = NoPass
    BY <1>5, DiskKept DEF Abort
  <2>2. InStep' /\ NothingDroppedSilently'
    BY <1>1, <2>1, MarksKept DEF InStep
  <2>3. QED
    BY <1>1, <2>1, <2>2, NothingRecorded DEF Typed, OccurrencesKept
<1>6. QED
  BY <1>4, <1>5 DEF Coalesce

\* The refusal is recorded with the gap mark.
LEMMA RefuseActs ==
    ASSUME Kept, Scalars', Refuse
    PROVE  /\ Kept'
           /\ mem'.update = mem.update
           /\ disk'.command = disk.command
           /\ disk'.update \in {disk.update, mem.update}
           /\ \A o \in Occurrences :
                 disk'.occ[o] # NoRun => disk.occ[o] # NoRun \/ o[2] <= pass.minute
           /\ pass' # NoPass =>
                 /\ pass'.minute = pass.minute /\ pass'.after = pass.after
                 /\ pass'.known = pass.known
<1> USE DEF Kept
<1> DEFINE marked == [mem EXCEPT !.gap = TRUE]
<1>1. pass.step \in {"refuse", "again"} /\ UNCHANGED <<up, made, left>>
  BY DEF Refuse, environment
<1>2. pass \in Pass /\ up /\ pass # NoPass
  BY <1>1, PassFacts DEF Typed, InStep
<1>3. /\ pass.at <= Len(Operations) /\ IsDue /\ disk.occ[Occurrence] = NoRun
  BY <1>1, <1>2 DEF PassInOrder
<1>4. /\ marked \in Memory /\ marked.journal = mem.journal /\ marked.gap = TRUE
      /\ marked.update = mem.update /\ marked.update \in Update
  BY DEF Typed, Memory
<1>5. \/ /\ RecordGap(marked) /\ mem' = marked /\ NextOperation
         /\ owed' = owed \cup {Occurrence}
      \/ /\ CommitFull
         /\ pass' = IF pass.step = "refuse" THEN [pass EXCEPT !.step = "again"]
                                            ELSE NoPass
         /\ UNCHANGED <<mem, owed>>
  BY DEF Refuse
<1> HIDE DEF marked
<1>6. CASE /\ RecordGap(marked) /\ mem' = marked /\ NextOperation
           /\ owed' = owed \cup {Occurrence}
  <2>1. /\ pass'.minute = pass.minute /\ pass'.after = pass.after
        /\ pass'.known = pass.known
    BY <1>2, <1>6 DEF NextOperation, Pass
  <2>2. QED
    BY <1>1, <1>2, <1>3, <1>4, <1>6, <2>1, RecordGapActs
<1>7. CASE CommitFull /\ pass' = NoPass /\ UNCHANGED <<mem, owed>>
  <2>1. disk' = disk
    BY <1>7, DiskKept
  <2>2. InStep' /\ NothingDroppedSilently'
    BY <1>1, <1>7, <2>1, MarksKept DEF InStep
  <2>3. QED
    BY <1>1, <1>7, <2>1, <2>2, NothingRecorded DEF Typed, OccurrencesKept
<1>8. CASE /\ CommitFull /\ pass' = [pass EXCEPT !.step = "again"]
           /\ UNCHANGED <<mem, owed>>
  <2>1. disk' = disk
    BY <1>8, DiskKept
  <2>2. pass' \in Pass /\ PassInOrder'
    BY <1>2, <1>3, <1>8, <2>1, StepChanges
  <2>3. NothingDroppedSilently'
    BY <1>8, <2>1, MarksKept
  <2>4. /\ pass'.minute = pass.minute /\ pass'.after = pass.after
        /\ pass'.known = pass.known
    BY <1>2, <1>8 DEF Pass
  <2>5. QED
    BY <1>1, <1>2, <1>8, <2>1, <2>2, <2>3, <2>4
       DEF Typed, InStep, OccurrencesKept, TheOnlyRun
<1>9. QED
  BY <1>1, <1>5, <1>6, <1>7, <1>8

\* A run is made for an occurrence that has none, and recorded with it.
LEMMA JournalRunActs ==
    ASSUME Kept, Scalars', JournalRun
    PROVE  /\ Kept'
           /\ mem'.update = mem.update
           /\ disk'.command => disk.command
           /\ disk'.update = disk.update
           /\ \A o \in Occurrences :
                 disk'.occ[o] # NoRun => disk.occ[o] # NoRun \/ o[2] <= pass.minute
           /\ pass' # NoPass =>
                 /\ pass'.minute = pass.minute /\ pass'.after = pass.after
                 /\ pass'.known = pass.known
<1> USE DEF Kept
<1>1. /\ pass.step = "admit"
      /\ UNCHANGED <<up, owed, left>>
  BY DEF JournalRun, environment
<1>2. pass \in Pass /\ up /\ pass # NoPass
  BY <1>1, PassFacts DEF Typed, InStep
<1>3. pass.at <= Len(Operations) /\ IsDue /\ disk.occ[Occurrence] = NoRun
  BY <1>1, <1>2, PassFacts DEF PassInOrder
<1>4. Occurrence \in Occurrences /\ Occurrence[2] <= pass.minute
  BY <1>2, <1>3, OccurrenceFacts
<1>5. made[Occurrence] = 0
  BY <1>3, <1>4 DEF OccurrencesKept, Typed, NoRun
<1>6. ASSUME NEW run \in NewRuns
      PROVE  run \in Run /\ run.occ = Occurrence /\ run.id = 1
  <2> DEFINE new == [occ |-> Occurrence, id |-> made[Occurrence] + 1,
                     state |-> "received", catchUp |-> FALSE]
  <2>1. made[Occurrence] + 1 = 1 /\ 1 \in RunIds
    BY <1>5 DEF RunIds
  <2>2. new \in Run /\ new.occ = Occurrence /\ new.id = 1
    BY <1>4, <2>1 DEF Run
  <2>3. run \in {new, [new EXCEPT !.catchUp = TRUE], Overlap(new)}
    BY DEF NewRuns
  <2> HIDE DEF new
  <2>4. QED
    BY <2>2, <2>3 DEF Run, Overlap
<1>7. PICK run \in NewRuns :
         LET more == [mem EXCEPT !.journal = mem.journal \cup {run}]
         IN \/ /\ disk' = WithJournal(more)
               /\ mem' = more
               /\ made' = [made EXCEPT ![Occurrence] = @ + 1]
               /\ NextOperation
            \/ /\ disk' = disk
               /\ pass' = [pass EXCEPT !.step = "refuse"]
               /\ UNCHANGED <<mem, made>>
  BY DiskKept DEF JournalRun, Commit
<1>8. run \in Run /\ run.occ = Occurrence /\ run.id = 1
  BY <1>6
<1> DEFINE more == [mem EXCEPT !.journal = mem.journal \cup {run}]
<1>9. CASE /\ disk' = WithJournal(more)
           /\ mem' = more
           /\ made' = [made EXCEPT ![Occurrence] = @ + 1]
           /\ NextOperation
  <2> DEFINE J == mem.journal \cup {run}
  <2>1. J \in SUBSET Run /\ mem.journal \in SUBSET Run
    BY <1>8 DEF Typed, Memory
  <2>2. Recorded(J) = [disk.occ EXCEPT ![Occurrence] = 1]
    BY <1>8, <2>1, RecordedFirst DEF OccurrencesKept
  <2>3. J = mem.journal \cup {run}
    OBVIOUS
  <2> HIDE DEF J
  <2>4. /\ Recorded(J) \in [Occurrences -> {NoRun, Gap} \cup RunIds]
        /\ Recorded(J)[Occurrence] = 1
        /\ \A o \in Occurrences : o # Occurrence => Recorded(J)[o] = disk.occ[o]
    <3>1. /\ disk.occ \in [Occurrences -> {NoRun, Gap} \cup RunIds]
          /\ 1 \in RunIds
      BY DEF Typed, Database, RunIds
    <3>2. QED
      BY <1>4, <2>2, <3>1
  <2>5. /\ more \in Memory /\ more.journal = J /\ more.gap = mem.gap
        /\ more.update = mem.update
    BY <2>1, <2>3 DEF Typed, Memory
  <2> HIDE DEF more
  <2>6. /\ disk' \in Database /\ disk'.journal = J /\ disk'.gap = disk.gap
        /\ disk'.occ = Recorded(J) /\ disk'.update = disk.update
        /\ disk'.command = (mem.update # NoMinute)
    BY <1>9, <2>1, <2>4, <2>5, WithJournalFacts DEF Typed
  <2>7. /\ made' \in [Occurrences -> Nat] /\ made'[Occurrence] = 1
        /\ \A o \in Occurrences : o # Occurrence => made'[o] = made[o]
    BY <1>4, <1>5, <1>9 DEF Typed
  <2>8. pass' \in Pass /\ PassInOrder'
    <3>1. /\ disk'.occ[Occurrence] # NoRun
          /\ \A o \in Occurrences : disk.occ[o] # NoRun => disk'.occ[o] # NoRun
      BY <2>4, <2>6 DEF NoRun
    <3>2. QED
      BY <1>2, <1>3, <1>9, <3>1, PassMoves
  <2>9. Typed'
    BY <1>1, <1>9, <2>5, <2>6, <2>7, <2>8 DEF Typed
  <2>10. InStep'
    BY <1>1, <1>2, <1>9, <2>5, <2>6 DEF InStep
  <2>11. ASSUME NEW r \in J PROVE r.id = 1 /\ made'[r.occ] = 1
    <3>1. r = run \/ (r \in mem.journal /\ r.occ \in Occurrences)
      BY <2>1, <2>3 DEF Run
    <3>2. QED
      BY <1>8, <2>7, <3>1 DEF OccurrencesKept, TheOnlyRun
  <2>12. OccurrencesKept'
    <3>1. TheOnlyRun(mem.journal)' /\ TheOnlyRun(disk.journal)'
      BY <1>9, <2>5, <2>6, <2>11 DEF TheOnlyRun
    <3>2. ASSUME NEW o \in Occurrences
          PROVE  /\ made'[o] <= 1
                 /\ disk'.occ[o] = Gap => made'[o] = 0
                 /\ made'[o] = 1 => disk'.occ[o] = 1
      <4>1. CASE o = Occurrence
        BY <2>4, <2>6, <2>7, <4>1 DEF Gap
      <4>2. CASE o # Occurrence
        BY <2>4, <2>6, <2>7, <4>2 DEF OccurrencesKept
      <4>3. QED
        BY <4>1, <4>2
    <3>3. QED
      BY <3>1, <3>2 DEF OccurrencesKept
  <2>13. NothingDroppedSilently'
    <3>1. ASSUME NEW o \in owed, Saved(o[1]) PROVE Saved(o[1])'
      <4>1. PICK r \in Received(disk.journal) : r.occ[1] = o[1]
        BY <3>1 DEF Saved, Received
      <4>2. r \in disk'.journal /\ r.state = "received"
        BY <1>2, <2>3, <2>6, <4>1 DEF InStep, Received
      <4>3. QED
        BY <4>1, <4>2 DEF Saved
    <3>2. QED
      BY <1>1, <2>6, <3>1 DEF NothingDroppedSilently
  <2>14. /\ pass'.minute = pass.minute /\ pass'.after = pass.after
         /\ pass'.known = pass.known
    BY <1>2, <1>9 DEF NextOperation, Pass
  <2>15. disk'.command => disk.command
    BY <1>2, <2>6 DEF InStep
  <2>16. QED
    BY <1>4, <1>9, <2>4, <2>5, <2>6, <2>8, <2>9, <2>10, <2>12, <2>13, <2>14, <2>15
<1>10. CASE /\ disk' = disk
            /\ pass' = [pass EXCEPT !.step = "refuse"]
            /\ UNCHANGED <<mem, made>>
  <2>1. pass' \in Pass /\ PassInOrder'
    BY <1>2, <1>3, <1>10, StepChanges
  <2>2. /\ pass'.minute = pass.minute /\ pass'.after = pass.after
        /\ pass'.known = pass.known
    BY <1>2, <1>10 DEF Pass
  <2>3. NothingDroppedSilently'
    BY <1>1, <1>10, MarksKept
  <2>4. QED
    BY <1>1, <1>2, <1>10, <2>1, <2>2, <2>3
       DEF Typed, InStep, OccurrencesKept, TheOnlyRun
<1>11. QED
  BY <1>7, <1>9, <1>10

-----------------------------------------------------------------------------
(* The runs, the reports and the update *)

\* A save of the journal by a step of a run: the journal holds what it held,
\* finished or deleted, or the save failed.
LEMMA JournalSaved ==
    ASSUME Kept, Scalars', up, NEW state \in Memory, TheOnlyRun(state.journal),
           state.update = mem.update, state.gap = mem.gap,
           UNCHANGED <<up, made, left, pass>>, owed' \subseteq owed,
           \/ disk' = WithJournal(state) /\ mem' = state
           \/ /\ disk' = disk /\ mem' \in {mem, state} /\ owed' = owed
              /\ Received(mem'.journal) = Received(mem.journal),
           \A o \in owed' : Saved(o[1]) => Saved(o[1])'
    PROVE  /\ Kept'
           /\ disk'.occ = disk.occ /\ disk'.update = disk.update
           /\ mem'.update = mem.update /\ (disk'.command => disk.command)
<1> USE DEF Kept
<1>1. /\ state.journal \in SUBSET Run /\ disk \in Database /\ mem \in Memory
      /\ disk.occ \in [Occurrences -> {NoRun, Gap} \cup RunIds]
      /\ TheOnlyRun(disk.journal) /\ TheOnlyRun(mem.journal) /\ left' \subseteq Occurrences
  BY DEF Memory, Database, Typed, OccurrencesKept
<1>2. Recorded(state.journal) = disk.occ
  BY <1>1, RecordedBefore
<1>3. CASE disk' = WithJournal(state) /\ mem' = state
  <2>1. /\ disk' \in Database /\ disk'.journal = state.journal
        /\ disk'.occ = disk.occ /\ disk'.gap = disk.gap
        /\ disk'.update = disk.update /\ disk'.command = (mem.update # NoMinute)
    BY <1>1, <1>2, <1>3, WithJournalFacts
  <2>2. InStep'
    BY <1>3, <2>1 DEF InStep
  <2>3. NothingDroppedSilently'
    BY <2>1 DEF NothingDroppedSilently
  <2>4. TheOnlyRun(mem'.journal) /\ TheOnlyRun(disk'.journal)
    BY <1>3, <2>1
  <2>5. Kept'
    BY <1>1, <1>3, <2>1, <2>2, <2>3, <2>4, NothingRecorded
  <2>6. disk'.command => disk.command
    BY <2>1 DEF InStep
  <2>7. QED
    BY <1>3, <2>1, <2>5, <2>6
<1>4. CASE /\ disk' = disk /\ mem' \in {mem, state} /\ owed' = owed
           /\ Received(mem'.journal) = Received(mem.journal)
  <2>1. InStep'
    BY <1>4 DEF InStep
  <2>2. NothingDroppedSilently'
    BY <1>4, MarksKept
  <2>3. TheOnlyRun(mem'.journal) /\ TheOnlyRun(disk'.journal) /\ mem' \in Memory
    BY <1>1, <1>4
  <2>4. QED
    BY <1>1, <1>4, <2>1, <2>2, <2>3, NothingRecorded
<1>5. QED
  BY <1>3, <1>4

\* A run starts and ends: what other operations are owed stays.
LEMMA WorkActs ==
    ASSUME Kept, Scalars', NEW r \in mem.journal, Work(r)
    PROVE  /\ Kept'
           /\ disk'.occ = disk.occ /\ disk'.update = disk.update
           /\ mem'.update = mem.update /\ (disk'.command => disk.command)
<1> DEFINE f == [r EXCEPT !.state = "finished"]
           J == (mem.journal \ {r}) \cup {f}
           worked == [mem EXCEPT !.journal = J]
<1>1. /\ mem \in Memory /\ mem.journal \in SUBSET Run /\ r \in Run
      /\ TheOnlyRun(mem.journal)
  BY DEF Kept, Typed, Memory, OccurrencesKept
<1>2. /\ up /\ UNCHANGED <<up, made, left, pass>>
      /\ \/ /\ disk' = WithJournal(worked) /\ mem' = worked
            /\ owed' = {o \in owed : o[1] # r.occ[1]}
         \/ disk' = disk /\ mem' = mem /\ owed' = owed
  BY DiskKept DEF Work, environment, Commit
<1>3. f \in Run /\ f.id = r.id /\ f.occ = r.occ
  BY <1>1 DEF Run
<1> HIDE DEF f
<1>4. J \in SUBSET Run /\ TheOnlyRun(J)
  BY <1>1, <1>3 DEF TheOnlyRun
<1>5. \A s \in mem.journal : s.occ[1] # r.occ[1] => s \in J
  OBVIOUS
<1> HIDE DEF J
<1>6. /\ worked \in Memory /\ worked.journal = J
      /\ worked.update = mem.update /\ worked.gap = mem.gap
  BY <1>1, <1>4 DEF Memory
<1> HIDE DEF worked
<1>7. ASSUME NEW o \in owed', Saved(o[1]) PROVE Saved(o[1])'
  <2>1. CASE disk' = disk
    BY <1>7, <2>1 DEF Saved
  <2>2. CASE /\ disk' = WithJournal(worked)
             /\ owed' = {p \in owed : p[1] # r.occ[1]}
    <3>1. PICK s \in disk.journal : s.occ[1] = o[1] /\ s.state = "received"
      BY <1>7 DEF Saved
    <3>2. s \in mem.journal
      BY <1>2, <3>1 DEF Kept, InStep, Received
    <3>3. o[1] # r.occ[1]
      BY <1>7, <2>2
    <3>4. s \in worked.journal
      BY <1>5, <1>6, <3>1, <3>2, <3>3
    <3>5. disk'.journal = worked.journal
      BY <2>2 DEF WithJournal, Kept, Typed, Database
    <3>6. QED
      BY <3>1, <3>4, <3>5 DEF Saved
  <2>3. QED
    BY <1>2, <2>1, <2>2
<1>8. owed' \subseteq owed
  BY <1>2
<1>9. QED
  BY <1>2, <1>4, <1>6, <1>7, <1>8, JournalSaved

\* A finished run is deleted: the queued ones stay.
LEMMA DeleteActs ==
    ASSUME Kept, Scalars', NEW r \in mem.journal, Delete(r)
    PROVE  /\ Kept'
           /\ disk'.occ = disk.occ /\ disk'.update = disk.update
           /\ mem'.update = mem.update /\ (disk'.command => disk.command)
<1> DEFINE J == mem.journal \ {r}
           less == [mem EXCEPT !.journal = J]
<1>1. /\ mem \in Memory /\ mem.journal \in SUBSET Run
      /\ TheOnlyRun(mem.journal)
  BY DEF Kept, Typed, Memory, OccurrencesKept
<1>2. /\ up /\ UNCHANGED <<up, made, left, pass, owed>>
      /\ mem' = less
      /\ disk' = WithJournal(less) \/ disk' = disk
      /\ r.state = "finished"
  BY DiskKept DEF Delete, history, Commit
<1>3. J \in SUBSET Run /\ TheOnlyRun(J) /\ Received(J) = Received(mem.journal)
  BY <1>1, <1>2 DEF TheOnlyRun, Received
<1> HIDE DEF J
<1>4. /\ less \in Memory /\ less.journal = J
      /\ less.update = mem.update /\ less.gap = mem.gap
  BY <1>1, <1>3 DEF Memory
<1> HIDE DEF less
<1>5. ASSUME NEW o \in owed', Saved(o[1]) PROVE Saved(o[1])'
  <2>1. CASE disk' = disk
    BY <1>5, <2>1 DEF Saved
  <2>2. CASE disk' = WithJournal(less)
    <3>1. PICK s \in disk.journal : s.occ[1] = o[1] /\ s.state = "received"
      BY <1>5 DEF Saved
    <3>2. s \in less.journal
      BY <1>2, <1>3, <1>4, <3>1 DEF Kept, InStep, Received
    <3>3. disk'.journal = less.journal
      BY <2>2 DEF WithJournal, Kept, Typed, Database
    <3>4. QED
      BY <3>1, <3>2, <3>3 DEF Saved
  <2>3. QED
    BY <1>2, <2>1, <2>2
<1>6. QED
  BY <1>2, <1>3, <1>4, <1>5, JournalSaved

\* A save of the process's own journal, or a failed one.
LEMMA HarmlessActs ==
    ASSUME Kept, Scalars', up, up' = up, UNCHANGED <<made, left, pass>>,
           Harmless(disk'), owed' = owed,
           mem' \in Memory, mem'.journal = mem.journal, mem'.gap = mem.gap,
           mem'.update # NoMinute => disk'.command
    PROVE  Kept'
<1> USE DEF Kept
<1>1. /\ disk' \in Database /\ TheOnlyRun(disk'.journal) /\ disk'.occ = disk.occ
      /\ Received(disk'.journal) = Received(mem.journal) /\ disk'.gap = disk.gap
  BY DEF Harmless
<1>2. InStep'
  BY <1>1 DEF InStep
<1>3. NothingDroppedSilently'
  BY <1>1, MarksKept DEF InStep
<1>4. TheOnlyRun(mem'.journal) /\ left' \subseteq Occurrences
  BY DEF OccurrencesKept, Typed
<1>5. QED
  BY <1>1, <1>2, <1>3, <1>4, NothingRecorded

\* The process ends, after a save or not.
LEMMA MemoryIsLostActs ==
    ASSUME Kept, Scalars', up, MemoryIsLost, UNCHANGED <<made, left, owed>>,
           Harmless(disk')
    PROVE  Kept'
<1> USE DEF Kept
<1>1. /\ disk' \in Database /\ TheOnlyRun(disk'.journal) /\ disk'.occ = disk.occ
      /\ Received(disk'.journal) = Received(mem.journal) /\ disk'.gap = disk.gap
  BY DEF Harmless
<1>2. ~up' /\ pass' = NoPass /\ mem' = Off /\ mem' \in Memory /\ mem'.journal = {}
  BY DEF MemoryIsLost, Off, Memory, Update
<1>3. InStep'
  BY <1>2 DEF InStep
<1>4. NothingDroppedSilently'
  BY <1>1, MarksKept DEF InStep
<1>5. TheOnlyRun(mem'.journal) /\ left' \subseteq Occurrences
  BY <1>2 DEF TheOnlyRun, Typed
<1>6. QED
  BY <1>1, <1>2, <1>3, <1>4, <1>5, NothingRecorded

\* The heartbeat clears the mark, of what is no longer owed.
LEMMA ClearGapActs ==
    ASSUME Kept, Scalars', ClearGap
    PROVE  /\ Kept'
           /\ disk'.occ = disk.occ /\ disk'.command = disk.command
           /\ mem'.update = mem.update
           /\ disk'.update \in {disk.update, mem.update}
<1> USE DEF Kept
<1> DEFINE cleared == [mem EXCEPT !.gap = FALSE]
<1>1. /\ up /\ UNCHANGED <<up, made, left, pass>>
      /\ \/ /\ disk' = WithState(cleared) /\ mem' = cleared
            /\ owed' = {o \in owed : Saved(o[1])}
         \/ disk' = disk /\ mem' = mem /\ owed' = owed
  BY DiskKept DEF ClearGap, environment, Commit
<1>2. /\ cleared \in Memory /\ cleared.journal = mem.journal /\ cleared.gap = FALSE
      /\ cleared.update = mem.update /\ cleared.update \in Update
      /\ disk \in Database /\ mem \in Memory /\ left \subseteq Occurrences
  BY DEF Typed, Memory
<1> HIDE DEF cleared
<1>3. CASE /\ disk' = WithState(cleared) /\ mem' = cleared
           /\ owed' = {o \in owed : Saved(o[1])}
  <2>1. /\ disk' \in Database /\ disk'.journal = disk.journal
        /\ disk'.occ = disk.occ /\ disk'.command = disk.command
        /\ disk'.gap = FALSE /\ disk'.update = mem.update
    BY <1>2, <1>3, WithStateFacts
  <2>2. InStep'
    BY <1>1, <1>2, <1>3, <2>1 DEF InStep
  <2>3. NothingDroppedSilently'
    BY <1>3, <2>1 DEF NothingDroppedSilently, Saved
  <2>4. TheOnlyRun(mem'.journal) /\ TheOnlyRun(disk'.journal) /\ owed' \subseteq owed
    BY <1>2, <1>3, <2>1 DEF OccurrencesKept
  <2>5. QED
    BY <1>1, <1>2, <1>3, <2>1, <2>2, <2>3, <2>4, NothingRecorded
<1>4. CASE disk' = disk /\ mem' = mem /\ owed' = owed
  <2>1. InStep' /\ NothingDroppedSilently'
    BY <1>1, <1>4, MarksKept DEF InStep
  <2>2. QED
    BY <1>1, <1>2, <1>4, <2>1, NothingRecorded DEF OccurrencesKept
<1>5. QED
  BY <1>1, <1>3, <1>4

\* An update begins: saved, in part or in whole, or the process dies with it.
LEMMA BeginUpdateActs ==
    ASSUME Kept, Scalars', BeginUpdate
    PROVE  /\ Kept'
           /\ up /\ mem.update = NoMinute /\ disk'.occ = disk.occ
           /\ clock' = clock /\ disturbed' = disturbed /\ left' = left
           /\ \/ /\ UNCHANGED <<up, last, pass>>
                 /\ mem'.update = last /\ disk'.update = last
              \/ UNCHANGED <<up, last, pass, mem>> /\ disk'.update = disk.update
              \/ ~up' /\ pass' = NoPass /\ disk'.update = disk.update
<1> USE DEF Kept
<1> DEFINE draining == [mem EXCEPT !.update = last]
<1>1. /\ up /\ mem.update = NoMinute /\ clock' = clock
      /\ UNCHANGED <<made, owed, left, disturbed>>
  BY DEF BeginUpdate, history, environment, DiesBetween
<1>2. /\ mem \in Memory /\ last \in Minutes
      /\ draining \in Memory /\ draining.journal = mem.journal
      /\ draining.gap = mem.gap /\ draining.update = last
      /\ last # NoMinute /\ last \in Update /\ NoMinute \in Update
  BY ScheduleFacts DEF Typed, Memory, Scalars, Update, Minutes, NoMinute
<1>3. \/ /\ disk' = WithBoth(draining) /\ mem' = draining
         /\ UNCHANGED <<up, last, pass>>
      \/ /\ disk' \in {disk, WithJournal(mem), WithJournal(draining)} /\ mem' = mem
         /\ UNCHANGED <<up, last, pass>>
      \/ disk' = WithJournal(draining) /\ MemoryIsLost
  <2>1. CASE /\ \/ Commit(WithBoth(draining)) /\ mem' = draining
                \/ CommitFull /\ UNCHANGED mem
                \/ /\ \E state \in {mem, draining} : CommitPartly(WithJournal(state))
                   /\ UNCHANGED mem
             /\ UNCHANGED <<environment, last, pass>>
    BY <2>1, DiskKept DEF Commit, CommitPartly, environment
  <2>2. CASE DiesBetween(WithJournal(draining))
    BY <2>2 DEF DiesBetween
  <2>3. QED
    BY <2>1, <2>2 DEF BeginUpdate
<1> HIDE DEF draining
<1>4. /\ Harmless(WithBoth(draining)) /\ WithBoth(draining).update = last
      /\ WithBoth(draining).command
      /\ Harmless(WithJournal(draining)) /\ WithJournal(draining).update = disk.update
  BY <1>1, <1>2, SavesOwnJournal
<1>5. /\ Harmless(WithJournal(mem)) /\ WithJournal(mem).update = disk.update
      /\ Harmless(disk)
  BY <1>1, <1>2, SavesOwnJournal
<1>6. CASE /\ disk' = WithBoth(draining) /\ mem' = draining
           /\ UNCHANGED <<up, last, pass>>
  <2>1. Harmless(disk') /\ disk'.command /\ disk'.update = last
    BY <1>4, <1>6
  <2>2. Kept'
    BY <1>1, <1>2, <1>6, <2>1, HarmlessActs
  <2>3. QED
    BY <1>1, <1>2, <1>6, <2>1, <2>2 DEF Harmless
<1>7. CASE /\ disk' \in {disk, WithJournal(mem), WithJournal(draining)} /\ mem' = mem
           /\ UNCHANGED <<up, last, pass>>
  <2>1. Harmless(disk') /\ disk'.update = disk.update
    BY <1>4, <1>5, <1>7
  <2>2. Kept'
    BY <1>1, <1>2, <1>7, <2>1, HarmlessActs
  <2>3. QED
    BY <1>1, <1>7, <2>1, <2>2 DEF Harmless
<1>8. CASE disk' = WithJournal(draining) /\ MemoryIsLost
  <2>1. Harmless(disk') /\ disk'.update = disk.update
    BY <1>4, <1>8
  <2>2. Kept'
    BY <1>1, <1>8, <2>1, MemoryIsLostActs
  <2>3. ~up' /\ pass' = NoPass
    BY <1>8 DEF MemoryIsLost
  <2>4. QED
    BY <1>1, <2>1, <2>2, <2>3 DEF Harmless
<1>9. QED
  BY <1>3, <1>6, <1>7, <1>8

\* It ends: in memory always, in the database in part or in whole.
LEMMA EndUpdateActs ==
    ASSUME Kept, Scalars', EndUpdate
    PROVE  /\ Kept'
           /\ up /\ disk'.occ = disk.occ /\ clock' = clock /\ left' = left
           /\ \/ /\ UNCHANGED <<up, last, pass, disturbed>>
                 /\ mem'.update = NoMinute /\ disk'.update = NoMinute
              \/ disturbed'
              \/ /\ ~up' /\ pass' = NoPass /\ disturbed' = disturbed
                 /\ disk'.update = disk.update /\ ~disk'.command
<1> USE DEF Kept
<1> DEFINE ended == [mem EXCEPT !.update = NoMinute]
<1>1. up /\ clock' = clock /\ UNCHANGED <<made, owed, left>>
  BY DEF EndUpdate, environment, DiesBetween
<1>2. /\ mem \in Memory
      /\ ended \in Memory /\ ended.journal = mem.journal
      /\ ended.gap = mem.gap /\ ended.update = NoMinute
      /\ NoMinute \in Update
  BY DEF Typed, Memory, Update
<1>3. \/ /\ disk' = WithBoth(ended) /\ mem' = ended
         /\ UNCHANGED <<up, last, pass, disturbed>>
      \/ /\ disk' \in {disk, WithJournal(ended)} /\ mem' = ended
         /\ UNCHANGED <<up, last, pass>> /\ disturbed'
      \/ disk' = WithJournal(ended) /\ MemoryIsLost /\ disturbed' = disturbed
  <2>1. CASE /\ \/ Commit(WithBoth(ended)) /\ UNCHANGED disturbed
                \/ /\ CommitFull \/ CommitPartly(WithJournal(ended))
                   /\ disturbed' = TRUE
             /\ mem' = ended
             /\ UNCHANGED <<environment, last, pass>>
    BY <2>1, DiskKept DEF Commit, CommitPartly, environment
  <2>2. CASE DiesBetween(WithJournal(ended)) /\ disturbed' = disturbed
    BY <2>2 DEF DiesBetween
  <2>3. QED
    BY <2>1, <2>2 DEF EndUpdate
<1> HIDE DEF ended
<1>4. /\ Harmless(WithBoth(ended)) /\ WithBoth(ended).update = NoMinute
      /\ Harmless(WithJournal(ended)) /\ WithJournal(ended).update = disk.update
      /\ ~WithJournal(ended).command
      /\ Harmless(disk)
  BY <1>1, <1>2, SavesOwnJournal
<1>5. CASE /\ disk' = WithBoth(ended) /\ mem' = ended
           /\ UNCHANGED <<up, last, pass, disturbed>>
  <2>1. Harmless(disk') /\ disk'.update = NoMinute
    BY <1>4, <1>5
  <2>2. Kept'
    BY <1>1, <1>2, <1>5, <2>1, HarmlessActs
  <2>3. QED
    BY <1>1, <1>2, <1>5, <2>1, <2>2 DEF Harmless
<1>6. CASE /\ disk' \in {disk, WithJournal(ended)} /\ mem' = ended
           /\ UNCHANGED <<up, last, pass>> /\ disturbed'
  <2>1. Harmless(disk')
    BY <1>4, <1>6
  <2>2. Kept'
    BY <1>1, <1>2, <1>6, <2>1, HarmlessActs
  <2>3. QED
    BY <1>1, <1>6, <2>1, <2>2 DEF Harmless
<1>7. CASE disk' = WithJournal(ended) /\ MemoryIsLost /\ disturbed' = disturbed
  <2>1. Harmless(disk') /\ disk'.update = disk.update /\ ~disk'.command
    BY <1>4, <1>7
  <2>2. Kept'
    BY <1>1, <1>7, <2>1, MemoryIsLostActs
  <2>3. ~up' /\ pass' = NoPass
    BY <1>7 DEF MemoryIsLost
  <2>4. QED
    BY <1>1, <1>7, <2>1, <2>2, <2>3 DEF Harmless
<1>8. QED
  BY <1>3, <1>5, <1>6, <1>7

-----------------------------------------------------------------------------
(* The process, the clock and the disk *)

\* The process ends without a save.
LEMMA StopActs ==
    ASSUME Kept, Scalars', Stop
    PROVE  Kept' /\ up /\ ~up' /\ pass' = NoPass
<1>1. up /\ MemoryIsLost /\ UNCHANGED <<disk, made, left, owed>>
  BY DEF Stop, history
<1>2. Harmless(disk')
  BY <1>1 DEF Harmless, Kept, Typed, InStep, OccurrencesKept
<1>3. QED
  BY <1>1, <1>2, MemoryIsLostActs DEF MemoryIsLost

\* A step that touches neither the journal nor the runtime state.
LEMMA OutsideActs ==
    ASSUME Kept, Scalars',
           \/ ClockWentBack \/ WriteRunLog \/ StartFails
           \/ Tick \/ SetBack \/ DiskChanges
    PROVE  Kept' /\ UNCHANGED <<mem, disk, made, owed, left, up, pass>>
<1>1. UNCHANGED <<mem, disk, made, owed, left, up, pass>>
  BY DEF ClockWentBack, WriteRunLog, StartFails, Tick, SetBack, DiskChanges,
         storeVars, environment, history
<1>2. InStep' /\ NothingDroppedSilently'
  BY <1>1, MarksKept DEF Kept, InStep
<1>3. QED
  BY <1>1, <1>2, NothingRecorded DEF Kept, Typed, OccurrencesKept

\* The process starts with what the database holds; the journal decides whether
\* it drains.
LEMMA StartActs ==
    ASSUME Kept, Scalars', Start
    PROVE  /\ Kept'
           /\ ~up /\ pass' = NoPass /\ disk'.occ = disk.occ
           /\ clock' = clock /\ disturbed' = disturbed /\ left' = left
           /\ disk'.command = disk.command /\ disk'.update = mem'.update
           /\ \/ ~disk.command /\ mem'.update = NoMinute
              \/ disk.command /\ mem'.update = Blank
              \/ disk.command /\ mem'.update = disk.update
           /\ last' = IF mem'.update \in Minutes THEN mem'.update ELSE clock
<1> USE DEF Kept
<1>1. /\ ~up /\ mem' = Restored /\ disk' = WithState(Restored)
      /\ last' = IF Restored.update \in Minutes THEN Restored.update ELSE clock
      /\ UNCHANGED <<clock, pass, made, owed, left, disturbed>>
  BY DEF Start, history
<1>2. pass = NoPass /\ disk \in Database /\ left \subseteq Occurrences
  BY <1>1 DEF InStep, Typed
<1>3. /\ Loaded \in Memory /\ Loaded.journal = disk.journal
      /\ Loaded.update = disk.update /\ Loaded.gap = disk.gap
  BY <1>2 DEF Loaded, Memory, Database
<1>4. /\ Restored \in Memory /\ Restored.journal = disk.journal
      /\ Restored.gap = disk.gap
      /\ \/ ~disk.command /\ Restored.update = NoMinute
         \/ disk.command /\ Restored.update = Blank
         \/ disk.command /\ Restored.update = disk.update
      /\ Restored.update \in Update
  <2> DEFINE minute == CASE ~disk.command -> NoMinute
                         [] disk.command /\ disk.update = NoMinute -> Blank
                         [] OTHER -> disk.update
  <2>1. /\ minute \in Update
        /\ \/ ~disk.command /\ minute = NoMinute
           \/ disk.command /\ minute = Blank
           \/ disk.command /\ minute = disk.update
    BY <1>2 DEF Database, Update
  <2>2. Restored = [Loaded EXCEPT !.update = minute]
    BY <1>3 DEF Restored
  <2> HIDE DEF minute
  <2>3. QED
    BY <1>3, <2>1, <2>2 DEF Memory
<1>5. /\ disk' \in Database /\ disk'.journal = disk.journal /\ disk'.occ = disk.occ
      /\ disk'.command = disk.command /\ disk'.update = Restored.update
      /\ disk'.gap = disk.gap
  <2>1. Restored.gap \in BOOLEAN
    BY <1>4 DEF Memory
  <2>2. QED
    BY <1>1, <1>2, <1>4, <2>1, WithStateFacts
<1>6. mem'.update # NoMinute => disk'.command
  BY <1>1, <1>4, <1>5
<1>7. InStep' /\ NothingDroppedSilently'
  BY <1>1, <1>2, <1>4, <1>5, <1>6, MarksKept DEF InStep
<1>8. TheOnlyRun(mem'.journal) /\ TheOnlyRun(disk'.journal)
  BY <1>1, <1>4, <1>5 DEF OccurrencesKept
<1>9. Kept'
  BY <1>1, <1>2, <1>4, <1>5, <1>7, <1>8, NothingRecorded
<1>10. QED
  BY <1>1, <1>2, <1>4, <1>5, <1>9

-----------------------------------------------------------------------------
(* What is recorded is no later than the last pass *)

\* A running process saves and goes on with the pass: it records nothing of a
\* later minute, and knows of the update what it knew.
LEMMA SteadyWhileUp ==
    ASSUME Kept, Kept', Steady, up,
           UNCHANGED <<clock, last, up, disturbed>>,
           mem'.update = mem.update,
           disk'.update \in {disk.update, mem.update},
           disk'.command => disk.command,
           \A o \in Occurrences :
               \/ disk'.occ[o] # NoRun => disk.occ[o] # NoRun
               \/ pass # NoPass /\ o[2] <= pass.minute,
           pass' # NoPass =>
               /\ pass # NoPass
               /\ pass'.minute = pass.minute /\ pass'.after = pass.after
               /\ pass'.known = pass.known
    PROVE  Steady'
<1> SUFFICES ASSUME ~disturbed PROVE Steady'
  BY DEF Steady
<1>1. /\ clock \in Nat /\ last \in Nat /\ last <= clock
      /\ \A m \in Minutes : m \in Nat
      /\ \A o \in Occurrences : o[2] \in Nat
  BY ScheduleFacts DEF Kept, Typed, Scalars, Steady, Occurrences
<1>2. /\ RecordedUpTo(last)
      /\ mem.update \in Minutes => mem.update = last
      /\ mem.update = NoMinute => disk.update = NoMinute
      /\ disk.update \in Minutes =>
            disk.update <= clock /\ (disk.command => RecordedUpTo(disk.update))
      /\ pass # NoPass =>
            /\ pass.minute = last /\ \A o \in pass.known : o[2] <= pass.after
            /\ disk.command /\ disk.update \in Minutes => last <= disk.update
  BY DEF Steady
<1>3. ASSUME NEW o \in Occurrences, disk'.occ[o] # NoRun
      PROVE  disk.occ[o] # NoRun \/ (pass # NoPass /\ o[2] <= last)
  BY <1>2, <1>3
<1>4. RecordedUpTo(last)'
  BY <1>2, <1>3 DEF RecordedUpTo
<1>5. RecordedUpTo(clock)'
  BY <1>1, <1>4 DEF RecordedUpTo
<1>6. ASSUME disk'.update \in Minutes
      PROVE  /\ disk'.update <= clock
             /\ disk'.command => \A o \in Occurrences :
                   disk'.occ[o] # NoRun => o[2] <= disk'.update
             /\ disk'.command /\ pass' # NoPass => last <= disk'.update
  <2>1. CASE disk'.update = mem.update
    BY <1>1, <1>2, <1>4, <1>6, <2>1 DEF RecordedUpTo
  <2>2. CASE disk'.update = disk.update
    <3>1. disk.update <= clock /\ disk.update \in Nat
      BY <1>1, <1>2, <1>6, <2>2
    <3>2. ASSUME disk'.command, NEW o \in Occurrences, disk'.occ[o] # NoRun
          PROVE  o[2] <= disk.update
      <4>1. disk.command /\ RecordedUpTo(disk.update)
        BY <1>2, <1>6, <2>2, <3>2
      <4>2. CASE disk.occ[o] # NoRun
        BY <4>1, <4>2 DEF RecordedUpTo
      <4>3. CASE pass # NoPass /\ o[2] <= last
        <5>1. last <= disk.update
          BY <1>2, <1>6, <2>2, <4>1, <4>3
        <5>2. QED
          BY <1>1, <3>1, <4>3, <5>1
      <4>4. QED
        BY <1>3, <3>2, <4>2, <4>3
    <3>3. QED
      BY <1>2, <1>6, <2>2, <3>1, <3>2
  <2>3. QED
    BY <2>1, <2>2
<1>7. mem'.update = NoMinute => disk'.update = NoMinute
  BY <1>2
<1>8. QED
  BY <1>1, <1>2, <1>4, <1>5, <1>6, <1>7 DEF Steady, RecordedUpTo

\* A pass begins, and looks at what is later than all that is recorded.
LEMMA SteadyStartPass ==
    ASSUME Kept, Kept', Steady, StartPass
    PROVE  Steady'
<1> SUFFICES ASSUME ~disturbed PROVE Steady'
  BY StartPassDoes DEF Steady
<1>1. /\ up /\ clock > last /\ last' = clock /\ clock' = clock
      /\ mem'.update = IF mem.update # NoMinute THEN clock ELSE NoMinute
      /\ disk'.occ = disk.occ /\ disk'.command = disk.command
      /\ disk'.update \in {disk.update, mem'.update}
      /\ pass' = Begun => mem.update = NoMinute \/ disk'.update = clock
      /\ pass' \in {Begun, NoPass}
  BY StartPassDoes
<1>2. /\ clock \in Minutes /\ clock \in Nat /\ last \in Nat
      /\ \A m \in Minutes : m \in Nat
      /\ \A o \in Occurrences : o[2] \in Nat
      /\ NoMinute \notin Minutes
  BY ScheduleFacts DEF Kept, Typed, Scalars, Occurrences, NoMinute, Minutes
<1>3. /\ RecordedUpTo(last)
      /\ mem.update = NoMinute => disk.update = NoMinute
      /\ disk.update \in Minutes =>
            disk.update <= clock /\ (disk.command => RecordedUpTo(disk.update))
  BY <1>1 DEF Steady
<1>4. RecordedUpTo(clock)
  BY <1>1, <1>2, <1>3 DEF RecordedUpTo
<1>5. disk'.update \in Minutes =>
         /\ disk'.update <= clock
         /\ disk'.command => \A o \in Occurrences :
               disk'.occ[o] # NoRun => o[2] <= disk'.update
  BY <1>1, <1>2, <1>3, <1>4 DEF RecordedUpTo
<1>6. ASSUME pass' = Begun
      PROVE  /\ Begun.minute = clock
             /\ \A o \in Begun.known : o[2] <= Begun.after
             /\ disk'.update \in Minutes => disk'.update = clock
  <2>1. /\ Begun.minute = clock
        /\ Begun.after = IF mem.update # NoMinute THEN last ELSE clock - 1
        /\ Begun.known = {o \in Occurrences : disk.occ[o] # NoRun}
    BY <1>1, BegunFacts DEF Kept, Typed
  <2>2. last <= Begun.after /\ Begun.after \in Nat
    BY <1>1, <1>2, <2>1
  <2>3. \A o \in Begun.known : o[2] <= Begun.after
    BY <1>2, <1>3, <2>1, <2>2 DEF RecordedUpTo
  <2>4. disk'.update \in Minutes => disk'.update = clock
    BY <1>1, <1>2, <1>3, <1>6
  <2>5. QED
    BY <2>1, <2>3, <2>4
<1>7. mem'.update = NoMinute => disk'.update = NoMinute
  BY <1>1, <1>2, <1>3
<1>8. mem'.update \in Minutes => mem'.update = clock
  BY <1>1, <1>2
<1>9. \A o \in Occurrences : disk'.occ[o] # NoRun => o[2] <= clock
  BY <1>1, <1>4 DEF RecordedUpTo
<1>10. clock <= clock /\ (pass' # NoPass => pass' = Begun)
  BY <1>1, <1>2
<1>11. QED
  BY <1>1, <1>5, <1>6, <1>7, <1>8, <1>9, <1>10 DEF Steady, RecordedUpTo

\* The update begins and ends between two passes or in one.
LEMMA SteadyUpdate ==
    ASSUME Kept, Scalars', Steady, BeginUpdate \/ EndUpdate
    PROVE  Steady'
<1> SUFFICES ASSUME ~disturbed' PROVE Steady'
  BY DEF Steady
<1>1. ~disturbed /\ up /\ disk'.occ = disk.occ /\ clock' = clock
  BY BeginUpdateActs, EndUpdateActs DEF Kept, Typed, Scalars
<1>2. /\ clock \in Nat /\ last \in Minutes /\ last \in Nat /\ NoMinute \notin Minutes
  BY ScheduleFacts DEF Kept, Typed, Scalars, NoMinute, Minutes
<1>3. /\ last <= clock /\ RecordedUpTo(clock) /\ RecordedUpTo(last)
      /\ mem.update = NoMinute => disk.update = NoMinute
      /\ disk.update \in Minutes =>
            disk.update <= clock /\ (disk.command => RecordedUpTo(disk.update))
      /\ pass # NoPass =>
            pass.minute = last /\ \A o \in pass.known : o[2] <= pass.after
  BY <1>1 DEF Steady
<1>4. \A m : RecordedUpTo(m) => \A o \in Occurrences : disk'.occ[o] # NoRun => o[2] <= m
  BY <1>1 DEF RecordedUpTo
<1>5. CASE BeginUpdate
  <2>1. mem.update = NoMinute /\ disk.update = NoMinute
    BY <1>3, <1>5, BeginUpdateActs
  <2>2. CASE /\ UNCHANGED <<up, last, pass>>
             /\ mem'.update = last /\ disk'.update = last
    BY <1>1, <1>2, <1>3, <1>4, <2>2 DEF Steady, RecordedUpTo
  <2>3. CASE UNCHANGED <<up, last, pass, mem>> /\ disk'.update = disk.update
    BY <1>1, <1>2, <1>3, <1>4, <2>1, <2>3 DEF Steady, RecordedUpTo
  <2>4. CASE ~up' /\ pass' = NoPass /\ disk'.update = disk.update
    BY <1>1, <1>2, <1>3, <1>4, <2>1, <2>4 DEF Steady, RecordedUpTo
  <2>5. QED
    BY <1>5, <2>2, <2>3, <2>4, BeginUpdateActs
<1>6. CASE EndUpdate
  <2>1. CASE /\ UNCHANGED <<up, last, pass>>
             /\ mem'.update = NoMinute /\ disk'.update = NoMinute
    BY <1>1, <1>2, <1>3, <1>4, <2>1 DEF Steady, RecordedUpTo
  <2>2. CASE ~up' /\ pass' = NoPass /\ disk'.update = disk.update /\ ~disk'.command
    BY <1>1, <1>3, <1>4, <2>2 DEF Steady, RecordedUpTo
  <2>3. QED
    BY <1>6, <2>1, <2>2, EndUpdateActs
<1>7. QED
  BY <1>5, <1>6

\* The process starts from the minute of the update, or from the clock.
LEMMA SteadyStart ==
    ASSUME Kept, Scalars', Steady, Start
    PROVE  Steady'
<1> SUFFICES ASSUME ~disturbed PROVE Steady'
  BY StartActs DEF Steady
<1>1. /\ pass' = NoPass /\ disk'.occ = disk.occ /\ clock' = clock
      /\ disk'.command = disk.command /\ disk'.update = mem'.update
      /\ \/ ~disk.command /\ mem'.update = NoMinute
         \/ disk.command /\ mem'.update = Blank
         \/ disk.command /\ mem'.update = disk.update
      /\ last' = IF mem'.update \in Minutes THEN mem'.update ELSE clock
  BY StartActs
<1>2. clock \in Nat /\ NoMinute \notin Minutes /\ Blank \notin Minutes /\ clock <= clock
  BY ScheduleFacts DEF Kept, Typed, Scalars, NoMinute, Blank, Minutes
<1>3. /\ RecordedUpTo(clock)
      /\ disk.update \in Minutes =>
            disk.update <= clock /\ (disk.command => RecordedUpTo(disk.update))
  BY DEF Steady
<1>4. \A m : RecordedUpTo(m) => \A o \in Occurrences : disk'.occ[o] # NoRun => o[2] <= m
  BY <1>1 DEF RecordedUpTo
<1>5. CASE mem'.update \in Minutes
  <2>1. disk.command /\ mem'.update = disk.update /\ last' = disk.update
    BY <1>1, <1>2, <1>5
  <2>2. QED
    BY <1>1, <1>2, <1>3, <1>4, <1>5, <2>1 DEF Steady, RecordedUpTo
<1>6. CASE mem'.update \notin Minutes
  BY <1>1, <1>2, <1>3, <1>4, <1>6 DEF Steady, RecordedUpTo
<1>7. QED
  BY <1>5, <1>6

\* The process stops, time passes, the clock is set back, the disk changes.
LEMMA SteadyOutside ==
    ASSUME Kept, Kept', Steady,
           \/ ClockWentBack \/ WriteRunLog \/ StartFails \/ Stop
           \/ Tick \/ SetBack \/ DiskChanges
    PROVE  Steady'
<1> SUFFICES ASSUME ~disturbed' PROVE Steady'
  BY DEF Steady
<1>1. CASE WriteRunLog \/ StartFails \/ DiskChanges
  <2>1. UNCHANGED <<clock, up, last, mem, disk, pass, disturbed>>
    BY <1>1 DEF WriteRunLog, StartFails, DiskChanges, history
  <2>2. QED
    BY <2>1 DEF Steady, RecordedUpTo
<1>2. CASE ClockWentBack
  <2>1. up /\ clock < last /\ disturbed' = disturbed /\ clock \in Nat /\ last \in Nat
    BY <1>2, ScheduleFacts DEF ClockWentBack, history, Kept, Typed, Scalars
  <2>2. QED
    BY <2>1 DEF Steady
<1>3. CASE Stop
  <2>1. /\ ~up' /\ pass' = NoPass /\ UNCHANGED <<clock, disk, disturbed>>
    BY <1>3 DEF Stop, MemoryIsLost, history
  <2>2. QED
    BY <2>1 DEF Steady, RecordedUpTo
<1>4. CASE SetBack
  BY <1>4 DEF SetBack
<1>5. CASE Tick
  <2>1. UNCHANGED <<up, last, mem, disk, pass, disturbed>> /\ clock' = clock + 1
    BY <1>5 DEF Tick, storeVars, history
  <2>2. /\ clock \in Nat /\ last \in Nat
        /\ \A m \in Minutes : m \in Nat
        /\ \A o \in Occurrences : o[2] \in Nat
    BY ScheduleFacts DEF Kept, Typed, Scalars, Occurrences
  <2>3. /\ RecordedUpTo(clock) => RecordedUpTo(clock)'
        /\ last <= clock => last <= clock'
        /\ \A m \in Minutes : m <= clock => m <= clock'
    BY <2>1, <2>2 DEF RecordedUpTo
  <2>4. QED
    BY <2>1, <2>3 DEF Steady, RecordedUpTo
<1>6. QED
  BY <1>1, <1>2, <1>3, <1>4, <1>5

-----------------------------------------------------------------------------
(* What a pass leaves *)

\* At its end a pass has recorded the first minute that is due of every operation.
\* None of these was recorded before the pass, so it is answered for the others.
LEMMA EndPassAnswers ==
    ASSUME Inv, EndPass, ~disturbed
    PROVE  Unanswered(pass) = {}
<1>1. pass \in Pass /\ pass # NoPass /\ pass.at > Len(Operations)
  BY PassFacts DEF EndPass, Inv, Kept, Typed
<1>2. \A o \in pass.known : o[2] <= pass.after
  BY <1>1 DEF Inv, Steady
<1>3. SUFFICES ASSUME NEW o \in Unanswered(pass) PROVE FALSE
  OBVIOUS
<1> DEFINE due == DueIn(o[1], pass.after, pass.minute)
<1>4. /\ o \in Occurrences /\ o[2] \in due /\ disk.occ[o] = NoRun
      /\ \A m \in due : m < o[2] =>
            disk.occ[<<o[1], m>>] = NoRun \/ <<o[1], m>> \in pass.known
  BY DEF Unanswered
<1>5. o[1] \in Ops /\ o = <<o[1], o[2]>>
  BY <1>4 DEF Occurrences
<1>6. Answered(o[1])
  <2>1. PICK i \in DOMAIN Operations : o[1] = Operations[i]
    BY <1>5 DEF Ops
  <2>2. i \in 1 .. Len(Operations)
    BY ScheduleIsValid DEF ValidSchedule
  <2>3. i < pass.at
    BY <1>1, <2>2, ScheduleFacts DEF Pass
  <2>4. QED
    BY <1>1, <2>1, <2>2, <2>3 DEF Inv, Kept, PassInOrder
<1>7. due \subseteq Nat /\ due # {}
  BY <1>4, <1>5, ScheduleFacts DEF DueIn
<1> HIDE DEF due
<1>8. PICK m \in due : \A n \in due : m <= n
  BY <1>7, FirstMinute
<1>9. ~\E n \in due : n < m
  BY <1>7, <1>8
<1>10. disk.occ[<<o[1], m>>] # NoRun
  BY <1>6, <1>8, <1>9 DEF Answered, due
<1>11. m < o[2]
  <2>1. m # o[2]
    BY <1>4, <1>5, <1>10
  <2>2. m <= o[2] /\ m \in Nat /\ o[2] \in Nat
    BY <1>4, <1>7, <1>8
  <2>3. QED
    BY <2>1, <2>2
<1>12. <<o[1], m>> \in pass.known
  BY <1>4, <1>8, <1>10, <1>11
<1>13. m <= pass.after
  <2>1. <<o[1], m>>[2] = m
    OBVIOUS
  <2>2. QED
    BY <1>2, <1>12, <2>1
<1>14. pass.after < m /\ pass.after \in Nat /\ m \in Nat
  BY <1>1, <1>7, <1>8, ScheduleFacts DEF due, DueIn, Pass
<1>15. QED
  BY <1>13, <1>14

-----------------------------------------------------------------------------
(* The theorems *)

\* An empty database, and its reserve.
LEMMA InitInv == Init => Inv
<1> SUFFICES ASSUME Init PROVE Inv
  OBVIOUS
<1> USE DEF Init
<1>1. Scalars
  <2>1. 0 \in Minutes /\ 0 \in 0 .. MaxTroubles
    BY ScheduleFacts
  <2>2. QED
    BY <2>1 DEF Scalars
<1>2. mem \in Memory /\ disk \in Database /\ left \subseteq Occurrences
  BY DEF Off, Memory, Database, Update
<1>3. Typed
  BY <1>1, <1>2 DEF Typed
<1>4. InStep
  BY DEF InStep, Off, Received
<1>5. OccurrencesKept /\ PassInOrder /\ NothingDroppedSilently
  BY DEF OccurrencesKept, TheOnlyRun, PassInOrder, NoRun, Gap, Off,
         NothingDroppedSilently
<1>6. Steady
  <2>1. NoMinute \notin Minutes
    BY ScheduleFacts DEF NoMinute, Minutes
  <2>2. mem.update = NoMinute /\ disk.update = NoMinute /\ 0 <= 0
    BY DEF Off
  <2>3. \A m : RecordedUpTo(m)
    BY DEF RecordedUpTo
  <2>4. QED
    BY <2>1, <2>2, <2>3 DEF Steady
<1>7. LookBackComplete
  BY DEF LookBackComplete
<1>8. QED
  BY <1>3, <1>4, <1>5, <1>6, <1>7 DEF Inv, Kept

\* Every step keeps the types, the records and the marks.
LEMMA StepKept ==
    ASSUME Kept, Next PROVE Kept'
<1>1. Scalars'
  BY ScalarsKept
<1>2. CASE ScheduleBackups
  BY <1>1, <1>2, OutsideActs, StartPassActs, PassReadsActs, CoalesceActs,
     JournalRunActs, RefuseActs DEF ScheduleBackups
<1>3. CASE Others
  BY <1>1, <1>3, WorkActs, DeleteActs, OutsideActs, ClearGapActs,
     BeginUpdateActs, EndUpdateActs DEF Others
<1>4. CASE Stop \/ Start \/ StartFails \/ Tick \/ SetBack \/ DiskChanges
  BY <1>1, <1>4, OutsideActs, StopActs, StartActs
<1>5. QED
  BY <1>2, <1>3, <1>4 DEF Next

\* A step of the pass after its beginning records nothing of a later minute.
LEMMA SteadyPass ==
    ASSUME Kept, Kept', Steady,
           \/ NotDue \/ FindQueued \/ Coalesce \/ RefuseForPressure \/ Refuse
           \/ Admit \/ JournalRun \/ EndPass
    PROVE  Steady'
<1>1. Scalars'
  BY DEF Kept, Typed
<1>2. /\ pass \in Pass /\ pass # NoPass /\ up
      /\ UNCHANGED <<clock, last, up, disturbed>>
  <2>1. pass.step # "idle"
    BY DEF NotDue, FindQueued, Coalesce, RefuseForPressure, Refuse, Admit,
           JournalRun, EndPass, Decide, IsNew, Scanning
  <2>2. UNCHANGED <<clock, last, up, disturbed>>
    BY DEF NotDue, FindQueued, Coalesce, RefuseForPressure, Refuse, Admit,
           JournalRun, EndPass, Decide, environment, history
  <2>3. QED
    BY <2>1, <2>2, PassFacts DEF Kept, Typed, InStep
<1>3. CASE Refuse
  BY <1>1, <1>2, <1>3, RefuseActs, SteadyWhileUp
<1>4. CASE JournalRun
  BY <1>1, <1>2, <1>4, JournalRunActs, SteadyWhileUp
<1>5. CASE Coalesce
  <2>1. pass' # NoPass =>
           /\ pass'.minute = pass.minute /\ pass'.after = pass.after
           /\ pass'.known = pass.known
    BY <1>2, <1>5 DEF Coalesce, NextOperation, Abort, Pass
  <2>2. QED
    BY <1>1, <1>2, <1>5, <2>1, CoalesceActs, SteadyWhileUp
<1>6. CASE NotDue \/ FindQueued \/ RefuseForPressure \/ Admit \/ EndPass
  <2>1. UNCHANGED <<mem, disk>>
    BY <1>6 DEF NotDue, FindQueued, RefuseForPressure, Admit, Decide, EndPass,
                storeVars
  <2>2. pass' # NoPass =>
           /\ pass'.minute = pass.minute /\ pass'.after = pass.after
           /\ pass'.known = pass.known
    BY <1>2, <1>6 DEF NotDue, FindQueued, RefuseForPressure, Admit, Decide, EndPass,
                      NextOperation, Pass
  <2>3. QED
    BY <1>2, <2>1, <2>2, SteadyWhileUp
<1>7. QED
  BY <1>3, <1>4, <1>5, <1>6

\* The other steps of a running process but those of the update.
LEMMA SteadyOthers ==
    ASSUME Kept, Kept', Steady,
           ClearGap \/ \E r \in mem.journal : Work(r) \/ Delete(r)
    PROVE  Steady'
<1>1. Scalars'
  BY DEF Kept, Typed
<1>2. up /\ UNCHANGED <<clock, last, up, pass, disturbed>>
  BY DEF ClearGap, Work, Delete, environment, history
<1>3. /\ disk'.occ = disk.occ /\ mem'.update = mem.update
      /\ disk'.update \in {disk.update, mem.update}
      /\ disk'.command => disk.command
  BY <1>1, ClearGapActs, WorkActs, DeleteActs
<1>4. QED
  BY <1>2, <1>3, SteadyWhileUp

\* Only the end of a pass changes what is left.
LEMMA LeftIsKept ==
    ASSUME Kept, Scalars', Next, ~EndPass
    PROVE  left' = left /\ (disturbed => disturbed')
<1>1. CASE ScheduleBackups
  <2>1. CASE ClockWentBack \/ StartPass \/ NotDue \/ Coalesce
    BY <2>1 DEF ClockWentBack, StartPass, NotDue, Coalesce, history
  <2>2. CASE FindQueued \/ RefuseForPressure \/ Admit
    BY <2>2 DEF FindQueued, RefuseForPressure, Admit, Decide
  <2>3. CASE Refuse \/ JournalRun
    BY <2>3 DEF Refuse, JournalRun
  <2>4. QED
    BY <1>1, <2>1, <2>2, <2>3 DEF ScheduleBackups
<1>2. CASE Others
  <2>1. CASE WriteRunLog \/ ClearGap
    BY <2>1 DEF WriteRunLog, ClearGap, history
  <2>2. ASSUME NEW r, Work(r) PROVE left' = left /\ disturbed' = disturbed
    BY <2>2 DEF Work
  <2>3. ASSUME NEW r, Delete(r) PROVE left' = left /\ disturbed' = disturbed
    BY <2>3 DEF Delete, history
  <2>4. CASE BeginUpdate
    BY <2>4 DEF BeginUpdate, history
  <2>5. CASE EndUpdate
    BY <2>5 DEF EndUpdate
  <2>6. QED
    BY <1>2, <2>1, <2>2, <2>3, <2>4, <2>5 DEF Others
<1>3. CASE Stop \/ Start \/ StartFails \/ Tick \/ DiskChanges
  BY <1>3 DEF Stop, Start, StartFails, Tick, DiskChanges, history
<1>4. CASE SetBack
  BY <1>4 DEF SetBack
<1>5. QED
  BY <1>1, <1>2, <1>3, <1>4 DEF Next

\* Every step keeps the invariant.
LEMMA StepInv == Inv /\ [Next]_vars => Inv'
<1> SUFFICES ASSUME Inv, [Next]_vars PROVE Inv'
  OBVIOUS
<1>1. CASE Next
  <2>1. Kept /\ Steady /\ Kept' /\ Scalars'
    BY <1>1, StepKept DEF Inv, Kept, Typed
  <2>2. Steady'
    <3>1. CASE ScheduleBackups
      BY <2>1, <3>1, SteadyOutside, SteadyStartPass, SteadyPass DEF ScheduleBackups
    <3>2. CASE Others
      BY <2>1, <3>2, SteadyOthers, SteadyOutside, SteadyUpdate DEF Others
    <3>3. CASE Stop \/ Start \/ StartFails \/ Tick \/ SetBack \/ DiskChanges
      BY <2>1, <3>3, SteadyOutside, SteadyStart
    <3>4. QED
      BY <1>1, <3>1, <3>2, <3>3 DEF Next
  <2>3. CASE EndPass
    <3>1. left' = Unanswered(pass) /\ disturbed' = disturbed
      BY <2>3 DEF EndPass
    <3>2. LookBackComplete'
      BY <2>3, <3>1, EndPassAnswers DEF LookBackComplete
    <3>3. QED
      BY <2>1, <2>2, <3>2 DEF Inv
  <2>4. CASE ~EndPass
    <3>1. left' = left /\ (disturbed => disturbed')
      BY <1>1, <2>1, <2>4, LeftIsKept
    <3>2. LookBackComplete'
      BY <3>1 DEF LookBackComplete, Inv
    <3>3. QED
      BY <2>1, <2>2, <3>2 DEF Inv
  <2>5. QED
    BY <2>3, <2>4
<1>2. CASE UNCHANGED vars
  <2>1. UNCHANGED <<clock, up, last, mem, disk, pass, reserve, released, slack,
                    crowded, over, made, owed, left, disturbed, troubles>>
    BY <1>2 DEF vars, storeVars, history
  <2>2. Kept'
    <3>1. Scalars' /\ InStep' /\ NothingDroppedSilently'
      BY <2>1 DEF Inv, Kept, Typed, Scalars, InStep, NothingDroppedSilently, Saved
    <3>2. QED
      BY <2>1, <3>1, NothingRecorded DEF Inv, Kept, Typed, OccurrencesKept
  <2>3. Steady' /\ LookBackComplete'
    BY <2>1 DEF Inv, Steady, RecordedUpTo, LookBackComplete
  <2>4. QED
    BY <2>2, <2>3 DEF Inv
<1>3. QED
  BY <1>1, <1>2

\* The invariant holds throughout.
THEOREM ScheduleInvariant == Spec => []Inv
BY InitInv, StepInv, PTL DEF Spec

\* The invariant says more than the properties.
LEMMA InvImplies ==
    Inv => TypeOK /\ OncePerOccurrence /\ NothingDroppedSilently /\ LookBackComplete
<1> SUFFICES ASSUME Inv
             PROVE  /\ TypeOK /\ OncePerOccurrence
                    /\ NothingDroppedSilently /\ LookBackComplete
  OBVIOUS
<1>1. TypeOK
  BY DEF Inv, Kept, Typed, Scalars, Memory, Database, TypeOK
<1>2. \A r \in mem.journal : r.occ \in Occurrences
  BY DEF Inv, Kept, Typed, Memory, Run
<1>3. ~Conflicts(mem.journal)
  BY <1>2 DEF Inv, Kept, OccurrencesKept, TheOnlyRun, Conflicts
<1>4. OncePerOccurrence
  BY <1>3 DEF Inv, Kept, OccurrencesKept, OncePerOccurrence
<1>5. QED
  BY <1>1, <1>4 DEF Inv, Kept

\* Every variable of the scheduler and its database keeps its type, and the
\* reserve is never on disk once it was released.
THEOREM ScheduleTypeCorrect == Spec => []TypeOK
BY ScheduleInvariant, InvImplies, PTL

\* No occurrence of any schedule ever gets a second run, nor a run after it was
\* recorded as a gap, and saveCommandJournal finds no conflicting record.
THEOREM EveryOccurrenceOnce == Spec => []OncePerOccurrence
BY ScheduleInvariant, InvImplies, PTL

\* An occurrence that was given to a queued run or refused for pressure is never
\* forgotten: the database holds the queued run or the gap mark until such a run has
\* started or the control plane was told, whatever is saved, fails or dies between
\* (recordSkippedOccurrence, refuseOccurrenceForPressure).
THEOREM NoSilentGap == Spec => []NothingDroppedSilently
BY ScheduleInvariant, InvImplies, PTL

\* A pass that comes to its end has answered every due occurrence it looks at, also
\* when it looks back over a drain and a restart, as long as the clock is not set back
\* and the end of every update is saved (scheduleBackups, firstDueSchedule).
THEOREM LookBackIsComplete == Spec => []LookBackComplete
BY ScheduleInvariant, InvImplies, PTL

===============================================================================
