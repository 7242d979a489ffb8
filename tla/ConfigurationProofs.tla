------------------------- MODULE ConfigurationProofs -------------------------
(***************************************************************************)
(* Two results about Configuration for any number of revisions, failures   *)
(* and restarts: no document that the agent does not accept is ever in     *)
(* force or written to the file, and a revocation that was saved is never  *)
(* undone, by a save of another loop or by a restart.                      *)
(***************************************************************************)
EXTENDS Configuration, TLAPS

\* A document on its way: the control plane serves revisions, and what was
\* saved, or loaded from the file, is one that DecodeConfig accepts.
DocumentsValid ==
    /\ refresh.answer = "document" => refresh.rev \in Revisions
    /\ refresh.pc \in {"saved", "accepted"} => refresh.rev \in Revisions \ Bad
    /\ reload.pc # "idle" => reload.rev \in Revisions \ Bad
    /\ \A by \in Callers : update[by].answer = "document" =>
          update[by].rev \in Revisions

\* Only a daemon that runs has loops that save its state, and only one that is
\* starting is in the UpdateConfig of its start.
LoopsRun ==
    /\ phase \notin {"up", "stopping"} =>
          refresh.pc = "idle" /\ reload.pc = "idle" /\ beat.pc = "idle"
    /\ update["start"].pc # "idle" => phase = "starting"

\* Whoever saves daemon.state knows of a revocation that was saved before.
RevocationKept ==
    /\ disk.revoked => mem.revoked
    /\ phase = "starting" => ~disk.revoked

Inv == TypeOK /\ DocumentsValid /\ LoopsRun /\ RevocationKept

\* Once saved, a revocation stays in the database, and no start of the daemon
\* gets past it.
StaysRevoked == disk.revoked => disk'.revoked /\ (phase' = "up" => phase = "up")

RevocationIsFinal == [][StaysRevoked]_vars

-----------------------------------------------------------------------------
(* The constants and the operators *)

\* The first revision is one the agent accepts, and none is no revision.
LEMMA RevisionFacts ==
    /\ MaxRevision \in Nat /\ MaxTroubles \in Nat
    /\ NoRevision \notin Bad /\ NoRevision \notin Revisions
    /\ NoRevision \in Any
    /\ 1 \in Revisions \ Bad
    /\ Revisions \subseteq Any
    /\ Revisions \subseteq Nat
BY FirstIsGood DEF Revisions, NoRevision, Any

\* What a request may be answered: a document has a revision.
Replies == {x \in Answers \X Any : x[1] = "document" => x[2] \in Revisions}

\* Every answer of the control plane, and what may come instead, is a reply.
LEMMA ReplyFacts ==
    ASSUME TypeOK, NEW tag \in Any
    PROVE  /\ Current(tag) \in Replies
           /\ Amiss(tag) \subseteq Replies
           /\ <<"failed", NoRevision>> \in Replies
<1>1. ASSUME NEW a \in {"failed", "unauthenticated", "revoked", "unmodified"}
      PROVE  <<a, NoRevision>> \in Replies
  BY RevisionFacts DEF Replies, Answers
<1>2. ASSUME NEW r \in Revisions PROVE Reply(tag, r) \in Replies
  <2>1. <<"document", r>> \in Replies
    BY RevisionFacts DEF Replies, Answers
  <2>2. QED
    BY <1>1, <2>1 DEF Reply
<1>3. published \in Revisions /\ \A r \in 1 .. published - 1 : r \in Revisions
  BY FirstIsGood DEF TypeOK, Revisions
<1>4. Current(tag) \in Replies
  BY <1>1, <1>2, <1>3 DEF Current
<1>5. Amiss(tag) \subseteq Replies
  BY <1>1, <1>2, <1>3 DEF Amiss
<1>6. QED
  BY <1>1, <1>4, <1>5

\* A fetch that got a reply.
LEMMA FetchedFacts ==
    ASSUME NEW q \in Fetch, NEW x \in Replies
    PROVE  /\ Fetched(q, x) \in Fetch
           /\ Fetched(q, x).pc = "answered"
           /\ Fetched(q, x).answer = "document" => Fetched(q, x).rev \in Revisions
<1>1. x[1] \in Answers /\ x[2] \in Any /\ (x[1] = "document" => x[2] \in Revisions)
  BY DEF Replies
<1>2. QED
  BY <1>1, RevisionFacts DEF Fetched, Fetch

\* The passes that are not under way, and a fetch that was saved.
LEMMA IdleFacts ==
    /\ NoFetch \in Fetch /\ NoFetch.pc = "idle" /\ NoFetch.answer = "none"
    /\ NoReload \in Reload /\ NoReload.pc = "idle"
    /\ NoBeat \in Beat /\ NoBeat.pc = "idle"
    /\ [NoFetch EXCEPT !.pc = "saved"] \in Fetch
    /\ [NoFetch EXCEPT !.pc = "saved"].answer = "none"
BY RevisionFacts DEF NoFetch, Fetch, NoReload, Reload, NoBeat, Beat, Answers

\* What a save, successful or not, keeps.
StateKept ==
    /\ mem' \in State /\ disk' \in State
    /\ troubles' \in 0 .. MaxTroubles
    /\ disk'.revoked => mem'.revoked
    /\ disk.revoked => disk'.revoked

\* Every change of the runtime state that the daemon saves starts from what it
\* has in memory.
LEMMA SaveFacts ==
    ASSUME Inv, NEW state \in State, mem.revoked => state.revoked,
           \/ Save(state)
           \/ mem' = state /\ disk' \in {mem', disk} /\ Trouble
    PROVE  StateKept
<1>1. troubles' \in 0 .. MaxTroubles
  BY RevisionFacts DEF Inv, TypeOK, Save, Trouble
<1>2. mem' = state /\ disk' \in {state, disk}
  BY DEF Save
<1>3. QED
  BY <1>1, <1>2 DEF Inv, TypeOK, RevocationKept, StateKept

\* Nothing is saved.
LEMMA NoSave ==
    ASSUME Inv, mem' = mem, disk' = disk, troubles' = troubles \/ Trouble
    PROVE  StateKept
<1>1. troubles' \in 0 .. MaxTroubles
  BY RevisionFacts DEF Inv, TypeOK, Trouble
<1>2. QED
  BY <1>1 DEF Inv, TypeOK, RevocationKept, StateKept

\* The changes of the runtime state that the daemon makes.
LEMMA StateFacts ==
    ASSUME NEW state \in State, NEW b \in BOOLEAN, NEW r \in Any
    PROVE  /\ [state EXCEPT !.paused = b] \in State
           /\ [state EXCEPT !.paused = b].revoked = state.revoked
           /\ [state EXCEPT !.error = b] \in State
           /\ [state EXCEPT !.error = b].revoked = state.revoked
           /\ [state EXCEPT !.revoked = TRUE] \in State
           /\ [state EXCEPT !.revoked = TRUE].revoked
           /\ [state EXCEPT !.rejected = r, !.error = b] \in State
           /\ [state EXCEPT !.rejected = r, !.error = b].revoked = state.revoked
           /\ [state EXCEPT !.error = b, !.rejected = r, !.paused = b] \in State
           /\ [state EXCEPT !.error = b, !.rejected = r, !.paused = b].revoked
                 = state.revoked
BY DEF State

\* The end of a pause.
LEMMA PauseFacts ==
    ASSUME Inv, ClearAuthenticationPause
    PROVE  StateKept
<1>1. CASE mem.paused
  <2>1. /\ [mem EXCEPT !.paused = FALSE] \in State
        /\ [mem EXCEPT !.paused = FALSE].revoked = mem.revoked
    BY StateFacts, RevisionFacts DEF Inv, TypeOK
  <2>2. QED
    BY <1>1, <2>1, SaveFacts DEF ClearAuthenticationPause
<1>2. CASE ~mem.paused
  BY <1>2, NoSave DEF ClearAuthenticationPause
<1>3. QED
  BY <1>1, <1>2

\* A request that was refused.
LEMMA ErrorFacts ==
    ASSUME Inv, NEW answer, HandleRequestError(answer)
    PROVE  StateKept /\ phase' \in {phase, "stopping"}
<1>1. CASE answer = "revoked"
  <2>1. Revoked
    BY <1>1 DEF HandleRequestError
  <2>2. /\ [mem EXCEPT !.revoked = TRUE] \in State
        /\ [mem EXCEPT !.revoked = TRUE].revoked
    BY StateFacts, RevisionFacts DEF Inv, TypeOK
  <2>3. StateKept
    BY <2>1, <2>2, SaveFacts DEF Revoked
  <2>4. QED
    BY <2>1, <2>3 DEF Revoked
<1>2. CASE answer = "unauthenticated"
  <2>1. Save([mem EXCEPT !.paused = TRUE]) /\ phase' = phase
    BY <1>2 DEF HandleRequestError
  <2>2. /\ [mem EXCEPT !.paused = TRUE] \in State
        /\ [mem EXCEPT !.paused = TRUE].revoked = mem.revoked
    BY StateFacts, RevisionFacts DEF Inv, TypeOK
  <2>3. QED
    BY <2>1, <2>2, SaveFacts
<1>3. CASE answer \notin {"revoked", "unauthenticated"}
  <2>1. UNCHANGED <<mem, disk, troubles, phase>>
    BY <1>3 DEF HandleRequestError
  <2>2. QED
    BY <2>1, NoSave
<1>4. QED
  BY <1>1, <1>2, <1>3

-----------------------------------------------------------------------------
(* The loops of the daemon *)

FileTyped == file \in [rev : Any \ Bad, ok : BOOLEAN] /\ (file.ok => file.rev # NoRevision)
InForce == {config, etag, realtime} \subseteq Any \ Bad
LoopsTyped ==
    /\ told \in Any /\ refresh \in Fetch /\ reload \in Reload /\ beat \in Beat
    /\ overtaken \in BOOLEAN /\ astray \in BOOLEAN

\* A step of a loop of the daemon, which is running or stopping.
LEMMA LoopActs ==
    ASSUME Inv, StateKept, phase \in {"up", "stopping"},
           phase' \in {phase, "stopping"},
           UNCHANGED <<published, credential, update>>,
           LoopsTyped', FileTyped', InForce',
           refresh'.answer = "document" => refresh'.rev \in Revisions,
           refresh'.pc \in {"saved", "accepted"} => refresh'.rev \in Revisions \ Bad,
           reload'.pc # "idle" => reload'.rev \in Revisions \ Bad
    PROVE  Inv' /\ StaysRevoked
<1> USE DEF Inv
<1>1. phase' \in {"up", "stopping"}
  OBVIOUS
<1>2. TypeOK'
  BY <1>1 DEF TypeOK, StateKept, LoopsTyped, FileTyped, InForce
<1>3. DocumentsValid'
  BY DEF DocumentsValid
<1>4. LoopsRun'
  BY <1>1 DEF LoopsRun
<1>5. RevocationKept'
  BY <1>1 DEF RevocationKept, StateKept
<1>6. StaysRevoked
  BY DEF StaysRevoked, StateKept
<1>7. QED
  BY <1>2, <1>3, <1>4, <1>5, <1>6

\* The parts of the invariant that a step of a loop builds on.
LEMMA LoopFacts ==
    ASSUME Inv
    PROVE  /\ LoopsTyped /\ FileTyped /\ InForce
           /\ refresh.pc # "idle" \/ reload.pc # "idle" \/ beat.pc # "idle" =>
                 phase \in {"up", "stopping"}
           /\ refresh.answer = "document" => refresh.rev \in Revisions
           /\ refresh.pc \in {"saved", "accepted"} => refresh.rev \in Revisions \ Bad
           /\ reload.pc # "idle" => reload.rev \in Revisions \ Bad
BY DEF Inv, TypeOK, DocumentsValid, LoopsRun, LoopsTyped, FileTyped, InForce

\* A pass of refreshConfig begins, and gets its answer.
LEMMA RefreshAsks ==
    ASSUME Inv, RefreshBegins \/ FetchConfig
    PROVE  Inv' /\ StaysRevoked
<1> USE DEF Inv
<1>1. /\ UNCHANGED <<published, credential, told, file, disk, mem, phase,
                     config, etag, realtime, reload, beat, update, overtaken,
                     astray>>
      /\ troubles' = troubles \/ Trouble
      /\ phase \in {"up", "stopping"}
  BY LoopFacts DEF RefreshBegins, FetchConfig, Begins, serverVars, daemonVars, history
<1>2. StateKept
  BY <1>1, NoSave
<1>3. /\ refresh' \in Fetch
      /\ refresh'.answer = "document" => refresh'.rev \in Revisions
      /\ refresh'.pc \in {"sent", "answered"}
  <2>1. CASE RefreshBegins
    <3>1. etag \in Any /\ config \in Any
      BY DEF TypeOK
    <3>2. refresh' = [NoFetch EXCEPT !.pc = "sent", !.etag = etag,
                                     !.previous = config]
      BY <2>1 DEF RefreshBegins
    <3>3. QED
      BY <3>1, <3>2, RevisionFacts DEF NoFetch, Fetch, Answers
  <2>2. CASE FetchConfig
    <3>1. refresh \in Fetch /\ refresh.etag \in Any
      BY DEF TypeOK, Fetch
    <3>2. PICK x \in Replies : refresh' = Fetched(refresh, x)
      BY <2>2, <3>1, ReplyFacts DEF FetchConfig
    <3>3. QED
      BY <3>1, <3>2, FetchedFacts
  <2>3. QED
    BY <2>1, <2>2
<1>4. LoopsTyped' /\ FileTyped' /\ InForce'
  BY <1>1, <1>3, LoopFacts DEF LoopsTyped, FileTyped, InForce
<1>5. QED
  BY <1>1, <1>2, <1>3, <1>4, LoopActs, LoopFacts

\* A pass of refreshConfig that ends without a new document.
LEMMA RefreshEnds ==
    ASSUME Inv,
           RefreshRefused \/ ConfigRejected \/ NothingNew \/ SaveConfigFails
    PROVE  Inv' /\ StaysRevoked
<1> USE DEF Inv
<1>1. /\ UNCHANGED <<published, credential, told, file, config, etag, realtime,
                     reload, beat, update, overtaken, astray>>
      /\ refresh' = NoFetch
      /\ phase \in {"up", "stopping"}
  BY LoopFacts DEF RefreshRefused, ConfigRejected, NothingNew, SaveConfigFails,
     serverVars, daemonVars, history
<1>2. StateKept /\ phase' \in {phase, "stopping"}
  <2>1. CASE RefreshRefused
    BY <2>1, ErrorFacts DEF RefreshRefused
  <2>2. CASE ConfigRejected
    <3>1. mem \in State /\ refresh.rev \in Any
      BY DEF TypeOK, Fetch
    <3>2. /\ [mem EXCEPT !.rejected = refresh.rev, !.error = TRUE] \in State
          /\ [mem EXCEPT !.rejected = refresh.rev, !.error = TRUE].revoked = mem.revoked
      BY <3>1, StateFacts
    <3>3. QED
      BY <2>2, <3>2, SaveFacts DEF ConfigRejected, daemonVars
  <2>3. CASE NothingNew
    BY <2>3, PauseFacts DEF NothingNew, daemonVars
  <2>4. CASE SaveConfigFails
    <3>1. /\ [mem EXCEPT !.error = TRUE] \in State
          /\ [mem EXCEPT !.error = TRUE].revoked = mem.revoked
      BY StateFacts, RevisionFacts DEF TypeOK
    <3>2. QED
      BY <2>4, <3>1, SaveFacts DEF SaveConfigFails, daemonVars
  <2>5. QED
    BY <2>1, <2>2, <2>3, <2>4
<1>3. LoopsTyped' /\ FileTyped' /\ InForce'
  BY <1>1, LoopFacts, IdleFacts DEF LoopsTyped, FileTyped, InForce
<1>4. QED
  BY <1>1, <1>2, <1>3, LoopActs, LoopFacts, IdleFacts

\* A new document is saved, put into force and followed by its client.
LEMMA RefreshInstalls ==
    ASSUME Inv, SaveConfig \/ RefreshAccepts \/ RefreshReplacesRealtime
    PROVE  Inv' /\ StaysRevoked
<1> USE DEF Inv
<1>1. /\ UNCHANGED <<published, credential, told, phase, reload, beat, update>>
      /\ phase \in {"up", "stopping"}
  BY LoopFacts DEF SaveConfig, RefreshAccepts, RefreshReplacesRealtime,
     serverVars, daemonVars, history
<1>2. CASE SaveConfig
  <2>1. refresh.rev \in Revisions \ Bad
    BY <1>2 DEF SaveConfig, Replaces, Valid, DocumentsValid
  <2>2. /\ refresh' = [NoFetch EXCEPT !.pc = "saved", !.rev = refresh.rev]
        /\ file' = [rev |-> refresh.rev, ok |-> TRUE]
        /\ overtaken' = FALSE
        /\ UNCHANGED <<mem, disk, troubles, config, etag, realtime, astray>>
    BY <1>2 DEF SaveConfig, daemonVars
  <2>3. /\ refresh' \in Fetch /\ refresh'.answer = "none"
        /\ refresh'.rev = refresh.rev
    BY <2>1, <2>2, RevisionFacts DEF NoFetch, Fetch, Answers
  <2>4. FileTyped'
    BY <2>1, <2>2, RevisionFacts DEF FileTyped
  <2>5. LoopsTyped' /\ InForce' /\ StateKept
    BY <1>1, <2>2, <2>3, LoopFacts, NoSave DEF LoopsTyped, InForce
  <2>6. QED
    BY <1>1, <2>1, <2>3, <2>4, <2>5, LoopActs, LoopFacts
<1>3. CASE RefreshAccepts
  <2>1. refresh.rev \in Revisions \ Bad /\ refresh \in Fetch /\ mem \in State
    BY <1>3 DEF RefreshAccepts, DocumentsValid, TypeOK
  <2> DEFINE state == [mem EXCEPT !.error = FALSE, !.rejected = NoRevision,
                                  !.paused = FALSE]
  <2>2. /\ config' = refresh.rev /\ etag' = refresh.rev
        /\ Save(state)
        /\ refresh' \in {[refresh EXCEPT !.pc = "accepted"], NoFetch}
        /\ UNCHANGED <<file, realtime, overtaken>>
    BY <1>3 DEF RefreshAccepts
  <2>3. astray' \in BOOLEAN
    BY <1>3 DEF RefreshAccepts
  <2>4. state \in State /\ state.revoked = mem.revoked
    BY <2>1, StateFacts, RevisionFacts
  <2>5. StateKept
    BY <2>2, <2>4, SaveFacts
  <2>6. /\ refresh' \in Fetch
        /\ refresh'.answer = "document" => refresh'.rev \in Revisions
        /\ refresh'.pc \in {"saved", "accepted"} => refresh'.rev \in Revisions \ Bad
    <3>1. /\ [refresh EXCEPT !.pc = "accepted"] \in Fetch
          /\ [refresh EXCEPT !.pc = "accepted"].rev = refresh.rev
      BY <2>1 DEF Fetch
    <3>2. QED
      BY <2>1, <2>2, <3>1, IdleFacts
  <2>7. LoopsTyped' /\ FileTyped'
    BY <1>1, <2>2, <2>3, <2>6, LoopFacts DEF LoopsTyped, FileTyped
  <2>8. InForce'
    BY <2>1, <2>2, LoopFacts, RevisionFacts DEF InForce
  <2>9. QED
    BY <1>1, <2>5, <2>6, <2>7, <2>8, LoopActs, LoopFacts
<1>4. CASE RefreshReplacesRealtime
  <2>1. refresh.rev \in Revisions \ Bad
    BY <1>4 DEF RefreshReplacesRealtime, DocumentsValid
  <2>2. /\ realtime' = refresh.rev /\ refresh' = NoFetch
        /\ UNCHANGED <<mem, disk, troubles, file, config, etag, overtaken, astray>>
    BY <1>4 DEF RefreshReplacesRealtime, history
  <2>3. LoopsTyped' /\ FileTyped' /\ StateKept
    BY <1>1, <2>2, LoopFacts, IdleFacts, NoSave DEF LoopsTyped, FileTyped
  <2>4. InForce'
    BY <2>1, <2>2, LoopFacts, RevisionFacts DEF InForce
  <2>5. QED
    BY <1>1, <2>2, <2>3, <2>4, LoopActs, LoopFacts, IdleFacts
<1>5. QED
  BY <1>2, <1>3, <1>4

\* reloadLocalConfig puts into force what it loaded.
LEMMA ReloadActs ==
    ASSUME Inv, ReloadStep
    PROVE  Inv' /\ StaysRevoked
<1> USE DEF Inv, ReloadStep, ReloadLoads, ReloadCompares, ReloadAccepts,
            ReloadReplacesRealtime
<1>1. /\ UNCHANGED <<published, credential, told, file, disk, mem, phase, etag,
                     refresh, beat, update, overtaken, troubles>>
      /\ phase \in {"up", "stopping"}
  BY LoopFacts DEF Begins, serverVars, daemonVars, history
<1>2. /\ reload' \in Reload
      /\ reload'.pc # "idle" => reload'.rev \in Revisions \ Bad
  <2>1. CASE ReloadLoads
    <3>1. file.rev \in Revisions \ Bad /\ file.rev \in Any
      BY <2>1 DEF TypeOK, Any
    <3>2. QED
      BY <2>1, <3>1 DEF Reload
  <2>2. CASE ReloadCompares \/ ReloadAccepts
    BY <2>2, IdleFacts DEF TypeOK, DocumentsValid, Reload
  <2>3. CASE ReloadReplacesRealtime
    BY <2>3, IdleFacts
  <2>4. QED
    BY <2>1, <2>2, <2>3
<1>3. config' \in Any \ Bad /\ realtime' \in Any \ Bad
  <2>1. reload.pc # "idle" => reload.rev \in Any \ Bad
    BY RevisionFacts DEF DocumentsValid
  <2>2. QED
    BY <2>1 DEF TypeOK, daemonVars
<1>4. astray' \in BOOLEAN
  BY DEF TypeOK, history
<1>5. LoopsTyped' /\ FileTyped' /\ InForce' /\ StateKept
  BY <1>1, <1>2, <1>3, <1>4, LoopFacts, NoSave DEF LoopsTyped, FileTyped, InForce
<1> HIDE DEF ReloadStep, ReloadLoads, ReloadCompares, ReloadAccepts,
             ReloadReplacesRealtime
<1>6. QED
  BY <1>1, <1>2, <1>5, LoopActs, LoopFacts

\* The heartbeat reports, and hears what the control plane thinks.
LEMMA BeatActs ==
    ASSUME Inv, BeatStep
    PROVE  Inv' /\ StaysRevoked
<1> USE DEF Inv
<1>1. /\ UNCHANGED <<published, credential, file, config, etag, realtime,
                     refresh, reload, update, overtaken, astray>>
      /\ phase \in {"up", "stopping"}
  BY LoopFacts DEF BeatStep, HeartbeatBegins, Heartbeat, Begins, serverVars,
                   daemonVars, history
<1>2. StateKept /\ phase' \in {phase, "stopping"}
  <2>1. CASE HeartbeatBegins
    BY <2>1, NoSave DEF HeartbeatBegins, daemonVars
  <2>2. CASE Heartbeat
    BY <2>2, NoSave, PauseFacts, ErrorFacts DEF Heartbeat
  <2>3. QED
    BY <2>1, <2>2 DEF BeatStep
<1>3. beat' \in Beat /\ told' \in Any
  <2>1. beat.report \in Any /\ mem.rejected \in Any /\ told \in Any
    BY DEF TypeOK, Beat, State
  <2>2. CASE HeartbeatBegins
    BY <2>1, <2>2, RevisionFacts DEF HeartbeatBegins, Beat
  <2>3. CASE Heartbeat
    BY <2>1, <2>3, IdleFacts DEF Heartbeat
  <2>4. QED
    BY <2>2, <2>3 DEF BeatStep
<1>4. LoopsTyped' /\ FileTyped' /\ InForce'
  BY <1>1, <1>3, LoopFacts DEF LoopsTyped, FileTyped, InForce
<1>5. QED
  BY <1>1, <1>2, <1>4, LoopActs, LoopFacts

-----------------------------------------------------------------------------
(* UpdateConfig *)

\* A step of UpdateConfig, which saves nothing of the daemon's state; the one
\* of a start is in a daemon that is starting.
LEMMA UpdateKeeps ==
    ASSUME Inv, NEW by \in Callers, NEW q \in Fetch,
           update' = [update EXCEPT ![by] = q],
           q.answer = "document" => q.rev \in Revisions,
           UNCHANGED <<published, credential, told, disk, mem, config, etag,
                       realtime, refresh, reload, beat, astray>>,
           overtaken' \in BOOLEAN, troubles' = troubles \/ Trouble,
           FileTyped',
           \/ phase' = phase /\ (by = "start" => phase = "starting")
           \/ by = "start" /\ phase = "starting" /\ phase' = "ended" /\ q.pc = "idle"
    PROVE  Inv' /\ StaysRevoked
<1> USE DEF Inv
<1>1. /\ update' \in [Callers -> Fetch]
      /\ update'[by] = q
      /\ \A c \in Callers : c # by => update'[c] = update[c]
  BY DEF TypeOK
<1>2. StateKept
  BY NoSave
<1>3. TypeOK'
  BY <1>1, <1>2 DEF TypeOK, StateKept, FileTyped
<1>4. DocumentsValid'
  BY <1>1 DEF DocumentsValid
<1>5. LoopsRun'
  <2>1. "start" \in Callers
    BY DEF Callers
  <2>2. QED
    BY <1>1, <2>1 DEF LoopsRun
<1>6. RevocationKept' /\ StaysRevoked
  BY <1>2 DEF RevocationKept, StaysRevoked, StateKept
<1>7. QED
  BY <1>3, <1>4, <1>5, <1>6

\* What UpdateConfig builds on.
LEMMA UpdateFacts ==
    ASSUME Inv, NEW by \in Callers
    PROVE  /\ update[by] \in Fetch
           /\ update[by].answer = "document" => update[by].rev \in Revisions
           /\ by = "start" /\ update[by].pc # "idle" => phase = "starting"
           /\ FileTyped
BY DEF Inv, TypeOK, DocumentsValid, LoopsRun, FileTyped

\* A call of UpdateConfig begins.
LEMMA UpdateBeginsActs ==
    ASSUME Inv, NEW by \in Callers, UpdateBegins(by)
    PROVE  Inv' /\ StaysRevoked
<1>1. PICK tag \in {file.rev, NoRevision} :
         update' = [update EXCEPT ![by] =
            [NoFetch EXCEPT !.pc = "sent", !.etag = tag, !.previous = file.rev]]
  BY DEF UpdateBegins
<1> DEFINE q == [NoFetch EXCEPT !.pc = "sent", !.etag = tag, !.previous = file.rev]
<1>2. tag \in Any /\ file.rev \in Any
  BY RevisionFacts DEF Inv, TypeOK
<1>3. q \in Fetch /\ q.answer = "none"
  BY <1>2, RevisionFacts DEF NoFetch, Fetch, Answers
<1>4. /\ UNCHANGED <<published, credential, told, file, disk, mem, phase,
                     config, etag, realtime, refresh, reload, beat, overtaken,
                     astray>>
      /\ troubles' = troubles \/ Trouble
      /\ by = "start" => phase = "starting"
  BY DEF UpdateBegins, serverVars, daemonVars, loopVars, history
<1>5. FileTyped' /\ overtaken' \in BOOLEAN
  BY <1>4, UpdateFacts DEF FileTyped, Inv, TypeOK
<1>6. update' = [update EXCEPT ![by] = q]
  BY <1>1
<1> HIDE DEF q
<1>7. QED
  BY <1>3, <1>4, <1>5, <1>6, UpdateKeeps

\* It gets its answer, fails, finds nothing new or installs the document.
LEMMA UpdateActs ==
    ASSUME Inv, NEW by \in Callers, UpdateStep(by)
    PROVE  Inv' /\ StaysRevoked
<1> USE DEF Inv
<1>1. /\ update[by] \in Fetch
      /\ update[by].answer = "document" => update[by].rev \in Revisions
      /\ FileTyped
  BY UpdateFacts
<1>2. /\ UNCHANGED <<published, credential, told, disk, mem, config, etag,
                     realtime, refresh, reload, beat, astray>>
      /\ troubles' = troubles \/ Trouble
      /\ by = "start" => phase = "starting"
  BY UpdateFacts DEF UpdateStep, UpdateFetches, UpdateFails, UpdateUnchanged,
     UpdateSaves, serverVars, daemonVars, loopVars, history
<1>3. CASE UpdateFetches(by)
  <2>1. update[by].etag \in Any
    BY <1>1 DEF Fetch
  <2>2. PICK x \in Replies :
           update' = [update EXCEPT ![by] = Fetched(update[by], x)]
    BY <1>3, <2>1, ReplyFacts DEF UpdateFetches
  <2>3. /\ Fetched(update[by], x) \in Fetch
        /\ Fetched(update[by], x).answer = "document" =>
              Fetched(update[by], x).rev \in Revisions
    BY <1>1, FetchedFacts
  <2>4. UNCHANGED <<phase, file, overtaken>>
    BY <1>3 DEF UpdateFetches, daemonVars, history
  <2>5. FileTyped' /\ overtaken' \in BOOLEAN
    BY <1>1, <2>4 DEF FileTyped, TypeOK
  <2>6. QED
    BY <1>2, <2>2, <2>3, <2>4, <2>5, UpdateKeeps
<1>4. CASE UpdateFails(by)
  <2>1. /\ update' = [update EXCEPT ![by] = NoFetch]
        /\ phase' = IF by = "start" THEN "ended" ELSE phase
        /\ UNCHANGED <<file, overtaken>>
    BY <1>4 DEF UpdateFails, history
  <2>2. FileTyped' /\ overtaken' \in BOOLEAN
    BY <1>1, <2>1 DEF FileTyped, TypeOK
  <2>3. QED
    BY <1>2, <2>1, <2>2, IdleFacts, UpdateKeeps
<1>5. CASE UpdateUnchanged(by) \/ UpdateSaves(by)
  <2>1. /\ Updated(by) /\ phase' = phase
        /\ overtaken' \in BOOLEAN
    BY <1>5 DEF UpdateUnchanged, UpdateSaves, daemonVars, history, TypeOK
  <2>2. PICK q \in Fetch : q.answer = "none" /\ update' = [update EXCEPT ![by] = q]
    BY <2>1, IdleFacts DEF Updated
  <2>3. FileTyped'
    <3>1. CASE UpdateUnchanged(by)
      BY <1>1, <3>1 DEF UpdateUnchanged, FileTyped
    <3>2. CASE UpdateSaves(by)
      <4>1. /\ update[by].rev \in Revisions \ Bad
            /\ file' = [rev |-> update[by].rev, ok |-> TRUE]
        BY <1>1, <3>2 DEF UpdateSaves, Replaces, Valid
      <4>2. QED
        BY <4>1, RevisionFacts DEF FileTyped
    <3>3. QED
      BY <1>5, <3>1, <3>2
  <2>4. QED
    BY <1>2, <2>1, <2>2, <2>3, UpdateKeeps
<1>6. QED
  BY <1>3, <1>4, <1>5 DEF UpdateStep

-----------------------------------------------------------------------------
(* The process, the control plane and the file *)

\* The process starts, or ends in one way or another.
LEMMA ProcessActs ==
    ASSUME Inv, StartDaemon \/ StartByHand \/ StartLoads \/ Stopped \/ Crash
    PROVE  Inv' /\ StaysRevoked
<1> USE DEF Inv
<1>1. /\ UNCHANGED <<published, credential, told, file, disk>>
      /\ troubles' = troubles \/ Trouble
  BY DEF StartDaemon, StartByHand, StartLoads, Stopped, Crash, Launch,
         serverVars
<1>2. troubles' \in 0 .. MaxTroubles
  BY <1>1, RevisionFacts DEF TypeOK, Trouble
<1>3. /\ mem' \in {mem, disk}
      /\ \/ UNCHANGED <<config, etag, realtime, overtaken, astray>>
         \/ /\ config' \in {NoRevision, file.rev}
            /\ etag' \in {NoRevision, file.rev}
            /\ realtime' \in {NoRevision, file.rev}
            /\ overtaken' = FALSE /\ astray' = FALSE
  BY DEF StartDaemon, StartByHand, StartLoads, Stopped, Crash, Launch, Up,
         Down, history
<1>4. /\ refresh' \in {refresh, NoFetch} /\ reload' \in {reload, NoReload}
      /\ beat' \in {beat, NoBeat}
      /\ update' = update \/ update' = [update EXCEPT !["start"] = NoFetch]
  BY DEF StartDaemon, StartByHand, StartLoads, Stopped, Crash, Launch, loopVars
<1>5. /\ update' \in [Callers -> Fetch]
      /\ \A by \in Callers : update'[by] \in {update[by], NoFetch}
  BY <1>4, IdleFacts DEF TypeOK, Callers
<1>6. phase' \in {"down", "starting", "up", "ended"}
  BY DEF StartDaemon, StartByHand, StartLoads, Stopped, Crash, Launch, Up
<1>7. TypeOK'
  <2>1. file.rev \in Any \ Bad /\ NoRevision \in Any \ Bad
    BY RevisionFacts DEF TypeOK
  <2>2. {config', etag', realtime'} \subseteq Any \ Bad
    <3>1. {config, etag, realtime} \subseteq Any \ Bad
      BY DEF TypeOK
    <3>2. QED
      BY <1>3, <2>1, <3>1
  <2>3. overtaken' \in BOOLEAN /\ astray' \in BOOLEAN
    BY <1>3 DEF TypeOK
  <2>4. refresh' \in Fetch /\ reload' \in Reload /\ beat' \in Beat
    BY <1>4, IdleFacts DEF TypeOK
  <2>5. mem' \in State /\ disk' \in State
    BY <1>1, <1>3 DEF TypeOK
  <2>6. /\ published' \in Revisions
        /\ credential' \in {"valid", "invalid", "revoked"}
        /\ told' \in Any
        /\ file' \in [rev : Any \ Bad, ok : BOOLEAN]
        /\ file'.ok => file'.rev # NoRevision
    BY <1>1 DEF TypeOK
  <2>7. QED
    BY <1>2, <1>5, <1>6, <2>2, <2>3, <2>4, <2>5, <2>6 DEF TypeOK
<1>8. DocumentsValid'
  BY <1>4, <1>5, IdleFacts DEF DocumentsValid
<1>9. /\ phase' \notin {"up", "stopping"} =>
            refresh'.pc = "idle" /\ reload'.pc = "idle" /\ beat'.pc = "idle"
      /\ update'["start"].pc = "idle"
  <2>1. "start" \in Callers
    BY DEF Callers
  <2>2. CASE StartDaemon \/ StartByHand
    BY <2>1, <2>2 DEF StartDaemon, StartByHand, Launch, LoopsRun, loopVars
  <2>3. CASE StartLoads
    <3>1. phase = "starting" /\ UNCHANGED <<refresh, reload, beat>>
      BY <2>3 DEF StartLoads, LoopsRun, loopVars
    <3>2. update'["start"] = NoFetch
      BY <2>1, <2>3 DEF StartLoads, TypeOK
    <3>3. QED
      BY <3>1, <3>2, IdleFacts DEF LoopsRun
  <2>4. CASE Stopped
    BY <2>4, IdleFacts DEF Stopped, LoopsRun, loopVars
  <2>5. CASE Crash
    <3>1. update'["start"] = NoFetch
      BY <2>1, <2>5 DEF Crash, TypeOK
    <3>2. QED
      BY <2>5, <3>1, IdleFacts DEF Crash
  <2>6. QED
    BY <2>2, <2>3, <2>4, <2>5
<1>10. disk.revoked => phase' \notin {"up", "starting"}
  BY DEF StartDaemon, StartByHand, StartLoads, Stopped, Crash, Launch,
         LoopsRun, RevocationKept
<1>11. LoopsRun' /\ RevocationKept' /\ StaysRevoked
  BY <1>1, <1>3, <1>9, <1>10 DEF LoopsRun, RevocationKept, StaysRevoked
<1>12. QED
  BY <1>7, <1>8, <1>11

\* What happens outside the agent.
LEMMA OutsideActs ==
    ASSUME Inv,
           \/ Publish \/ CredentialInvalid \/ CredentialRestored \/ Revoke
           \/ Spoil
    PROVE  Inv' /\ StaysRevoked
<1> USE DEF Inv
<1>1. /\ UNCHANGED <<told, disk, mem, phase, config, etag, realtime, refresh,
                     reload, beat, update, overtaken, astray>>
      /\ troubles' = troubles \/ Trouble
  BY DEF Publish, CredentialInvalid, CredentialRestored, Revoke, Judge, Spoil,
         daemonVars, loopVars, history
<1>2. troubles' \in 0 .. MaxTroubles
  BY <1>1, RevisionFacts DEF TypeOK, Trouble
<1>3. published' \in Revisions
  BY RevisionFacts DEF Publish, CredentialInvalid, CredentialRestored, Revoke,
     Judge, Spoil, serverVars, TypeOK, Revisions
<1>4. credential' \in {"valid", "invalid", "revoked"}
  BY DEF Publish, CredentialInvalid, CredentialRestored, Revoke, Judge, Spoil,
         serverVars, TypeOK
<1>5. FileTyped'
  <2>1. CASE Spoil
    <3>1. file \in [rev : Any \ Bad, ok : BOOLEAN]
      BY DEF TypeOK
    <3>2. /\ [file EXCEPT !.ok = FALSE] \in [rev : Any \ Bad, ok : BOOLEAN]
          /\ ~[file EXCEPT !.ok = FALSE].ok
      BY <3>1
    <3>3. NoRevision \in Any \ Bad
      BY RevisionFacts
    <3>4. /\ [rev |-> NoRevision, ok |-> FALSE] \in [rev : Any \ Bad, ok : BOOLEAN]
          /\ ~[rev |-> NoRevision, ok |-> FALSE].ok
      BY <3>3
    <3>5. file' \in {[file EXCEPT !.ok = FALSE], [rev |-> NoRevision, ok |-> FALSE]}
      BY <2>1 DEF Spoil
    <3>6. QED
      BY <3>2, <3>4, <3>5 DEF FileTyped
  <2>2. CASE ~Spoil
    BY <2>2 DEF Publish, CredentialInvalid, CredentialRestored, Revoke, Judge,
                TypeOK, FileTyped
  <2>3. QED
    BY <2>1, <2>2
<1>6. TypeOK'
  BY <1>1, <1>2, <1>3, <1>4, <1>5 DEF TypeOK, FileTyped
<1>7. DocumentsValid' /\ LoopsRun' /\ RevocationKept' /\ StaysRevoked
  BY <1>1 DEF DocumentsValid, LoopsRun, RevocationKept, StaysRevoked
<1>8. QED
  BY <1>6, <1>7

-----------------------------------------------------------------------------
(* The theorems *)

\* An agent that was enrolled and not yet started.
LEMMA InitInv == Init => Inv
<1> SUFFICES ASSUME Init PROVE Inv
  OBVIOUS
<1> USE DEF Init
<1>1. Fresh \in State /\ ~Fresh.revoked
  BY RevisionFacts DEF Fresh, State
<1>2. file \in [rev : Any \ Bad, ok : BOOLEAN] /\ file.rev # NoRevision
  BY RevisionFacts
<1>3. update \in [Callers -> Fetch] /\ \A by \in Callers : update[by] = NoFetch
  BY IdleFacts
<1>4. published \in Revisions /\ troubles \in 0 .. MaxTroubles
  BY RevisionFacts
<1>5. TypeOK
  BY <1>1, <1>2, <1>3, <1>4, IdleFacts, RevisionFacts DEF TypeOK
<1>6. DocumentsValid /\ LoopsRun
  BY <1>3, IdleFacts DEF DocumentsValid, LoopsRun, Callers
<1>7. RevocationKept
  BY <1>1 DEF RevocationKept
<1>8. QED
  BY <1>5, <1>6, <1>7 DEF Inv

\* Every step keeps the invariant, and a revocation.
LEMMA StepInv == Inv /\ [Next]_vars => Inv' /\ [StaysRevoked]_vars
<1> SUFFICES ASSUME Inv, [Next]_vars PROVE Inv' /\ [StaysRevoked]_vars
  OBVIOUS
<1>1. "operator" \in Callers /\ "start" \in Callers
  BY DEF Callers
<1>2. CASE RefreshStep
  BY <1>2, RefreshAsks, RefreshEnds, RefreshInstalls DEF RefreshStep
<1>3. CASE ReloadStep \/ BeatStep
  BY <1>3, ReloadActs, BeatActs
<1>4. CASE UpdateBegins("operator") \/ UpdateStep("operator")
  BY <1>1, <1>4, UpdateBeginsActs, UpdateActs
<1>5. CASE StartStep \/ StartByHand \/ Stopped \/ Crash
  BY <1>1, <1>5, UpdateBeginsActs, UpdateActs, ProcessActs DEF StartStep
<1>6. CASE Publish \/ CredentialInvalid \/ CredentialRestored \/ Revoke \/ Spoil
  BY <1>6, OutsideActs
<1>7. CASE UNCHANGED vars
  <2>1. /\ UNCHANGED <<published, credential, told, file, disk, mem, phase>>
        /\ UNCHANGED <<config, etag, realtime, refresh, reload, beat, update>>
        /\ UNCHANGED <<overtaken, astray, troubles>>
    BY <1>7 DEF vars, serverVars, daemonVars, loopVars, history
  <2>2. Inv'
    BY <2>1 DEF Inv, TypeOK, DocumentsValid, LoopsRun, RevocationKept
  <2>3. QED
    BY <1>7, <2>2
<1>8. QED
  BY <1>2, <1>3, <1>4, <1>5, <1>6, <1>7 DEF Next

\* The invariant holds throughout.
THEOREM ConfigurationInvariant == Spec => []Inv
BY InitInv, StepInv, PTL DEF Spec

\* No document that DecodeConfig does not accept is ever in force, or in the
\* file as one that can be used, whatever the control plane serves, late or out
\* of order, to the refresh loop, the command or a start.
THEOREM OnlyValidDocuments == Spec => []TypeOK
BY ConfigurationInvariant, PTL DEF Inv

\* A revocation that was saved is final: no loop that saves its own change of
\* the runtime state afterwards undoes it, and the daemon does not come up
\* again.
THEOREM RevokedForGood == Spec => RevocationIsFinal
BY ConfigurationInvariant, StepInv, PTL DEF Spec, RevocationIsFinal

===============================================================================
