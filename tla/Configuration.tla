--------------------------- MODULE Configuration ---------------------------
(***************************************************************************)
(* How a configuration gets from the control plane into force, and how the *)
(* enrollment's standing gets into the daemon's state (agent/daemon.go,    *)
(* agent/config_update.go).                                                *)
(*                                                                         *)
(* The file with the last accepted document has two writers, the refresh   *)
(* loop and the command "config update", which also is a part of the start *)
(* of a daemon that cannot use the file, and one reader, the reload loop.  *)
(* The refresh loop also puts into force what it has saved.  The heartbeat *)
(* tells the control plane which document is in force or was rejected.     *)
(* The mutex is held for single steps only; each request, file access and  *)
(* critical section is an action.                                          *)
(*                                                                         *)
(* A document is its revision: digest, ETag and contents go with it.       *)
(***************************************************************************)
EXTENDS Naturals

CONSTANTS
    MaxRevision, \* bound: the last revision that is published
    Bad,         \* the revisions this agent does not accept
    MaxTroubles  \* bound: crashes, failed or stale requests, failed writes,
                 \* rejected credentials, spoilt files, uses of the command,
                 \* starts by hand

ASSUME FirstIsGood ==
    /\ MaxRevision \in Nat \ {0} /\ MaxTroubles \in Nat
    /\ Bad \subseteq 2 .. MaxRevision

VARIABLES
    published,  \* the revision the control plane has
    credential, \* what it thinks of the agent's credential
    told,       \* the revision that the last heartbeat it has received rejected
    file,       \* Paths.ManagedConfig: the revision that its metadata give, if
                \* they can be read, and whether LoadConfig accepts it
    disk,       \* the runtime state in the database
    mem,        \* daemon.state
    phase,      \* of the daemon's process: "down" before it is started, again if it
                \* crashed; "ended" when Run has returned an error
    config,     \* daemon.config and daemon.metadata
    etag,       \* daemon.etag
    realtime,   \* the configuration of daemon.realtimeClient
    refresh,    \* the pass of refreshConfig
    reload,     \* the pass of reloadLocalConfig
    beat,       \* the pass of sendHeartbeat
    update,     \* the calls of UpdateConfig
    overtaken,  \* history: the command wrote an older document than the daemon's
    astray,     \* history: the Realtime client of the last accepted document was
                \* not installed, or another one may be after it
    troubles

serverVars == <<published, credential>>
daemonVars == <<phase, config, etag, realtime>>
history == <<overtaken, astray>>
loopVars == <<refresh, reload, beat>>
vars == <<serverVars, told, file, disk, mem, daemonVars, loopVars, update,
          history, troubles>>

-----------------------------------------------------------------------------
(* Types *)

Revisions == 1 .. MaxRevision

NoRevision == 0

Any == {NoRevision} \cup Revisions

\* Of RuntimeState: RejectedConfigRevision, whether there is a
\* LastConfigError, AuthenticationPaused and Revoked.
State == [rejected : Any, error : BOOLEAN, paused : BOOLEAN, revoked : BOOLEAN]

Fresh == [rejected |-> NoRevision, error |-> FALSE, paused |-> FALSE,
          revoked |-> FALSE]

Answers == {"none", "failed", "unauthenticated", "revoked", "unmodified",
            "document"}

\* A fetch: the ETag it was sent with, the metadata it was begun with, the
\* answer and the revision that came with it.
Fetch == [pc : {"idle", "sent", "answered", "saved", "accepted"}, etag : Any,
          previous : Any, answer : Answers, rev : Any]

NoFetch == [pc |-> "idle", etag |-> NoRevision, previous |-> NoRevision,
            answer |-> "none", rev |-> NoRevision]

\* A heartbeat: the revision it reports as rejected.  Without one it reports the
\* document in force as accepted.
Beat == [pc : {"idle", "sent"}, report : Any]

NoBeat == [pc |-> "idle", report |-> NoRevision]

Reload == [pc : {"idle", "loaded", "differs", "accepted"}, rev : Any]

NoReload == [pc |-> "idle", rev |-> NoRevision]

Callers == {"operator", "start"}

\* Mutant: what the control plane serves is taken as it is.
ValidAny(rev) == rev \in Revisions

\* DecodeConfig accepts the document.
Valid(rev) == rev \notin Bad

\* Only documents that DecodeConfig accepts are in force, or in the file
\* unless somebody else changed it.
TypeOK ==
    /\ published \in Revisions
    /\ credential \in {"valid", "invalid", "revoked"}
    /\ told \in Any
    /\ file \in [rev : Any \ Bad, ok : BOOLEAN]
    /\ file.ok => file.rev # NoRevision
    /\ disk \in State /\ mem \in State
    /\ phase \in {"down", "starting", "up", "stopping", "ended"}
    /\ {config, etag, realtime} \subseteq Any \ Bad
    /\ refresh \in Fetch /\ reload \in Reload /\ beat \in Beat
    /\ update \in [Callers -> Fetch]
    /\ overtaken \in BOOLEAN /\ astray \in BOOLEAN
    /\ troubles \in 0 .. MaxTroubles

Init ==
    /\ published = 1 /\ credential = "valid" /\ told = NoRevision
    /\ file = [rev |-> 1, ok |-> TRUE]
    /\ disk = Fresh /\ mem = Fresh
    /\ phase = "down" /\ config = NoRevision /\ etag = NoRevision
    /\ realtime = NoRevision
    /\ refresh = NoFetch /\ reload = NoReload /\ beat = NoBeat
    /\ update = [c \in Callers |-> NoFetch]
    /\ overtaken = FALSE /\ astray = FALSE /\ troubles = 0

Trouble == troubles < MaxTroubles /\ troubles' = troubles + 1

-----------------------------------------------------------------------------
(* The runtime state *)

\* A change of daemon.state and SaveRuntimeState, which may fail.
Save(state) ==
    /\ mem' = state
    /\ \/ disk' = state /\ UNCHANGED troubles
       \/ UNCHANGED disk /\ Trouble

\* Mutant: an agent that was refused once stays paused.
PausedForGood == UNCHANGED <<mem, disk, troubles>>

ClearAuthenticationPause ==
    IF mem.paused THEN Save([mem EXCEPT !.paused = FALSE])
                  ELSE UNCHANGED <<mem, disk, troubles>>

\* A revoked agent stops for good once the revocation is saved.  If it cannot
\* be saved the loop goes on, and its next request is refused again.
Revoked ==
    /\ Save([mem EXCEPT !.revoked = TRUE])
    /\ phase' = IF disk'.revoked THEN "stopping" ELSE phase

HandleRequestError(answer) ==
    CASE answer = "revoked" -> Revoked
      [] answer = "unauthenticated" ->
            Save([mem EXCEPT !.paused = TRUE]) /\ UNCHANGED phase
      [] OTHER -> UNCHANGED <<mem, disk, troubles, phase>>

-----------------------------------------------------------------------------
(* Requests *)

\* A loop that waits has its next pass; those of a daemon that is stopping end.
Begins(pc) == phase = "up" /\ pc = "idle"

Reply(tag, rev) == IF tag = rev THEN <<"unmodified", NoRevision>>
                                ELSE <<"document", rev>>

\* What the control plane answers now to a request for the configuration.
Current(tag) ==
    CASE credential = "revoked" -> <<"revoked", NoRevision>>
      [] credential = "invalid" -> <<"unauthenticated", NoRevision>>
      [] OTHER -> Reply(tag, published)

\* What may come instead: no answer, or that of a server that lags.
Amiss(tag) ==
    {<<"failed", NoRevision>>}
    \cup (IF credential = "valid" THEN {Reply(tag, r) : r \in 1 .. published - 1}
                                  ELSE {})

\* A request has got its answer.
Fetched(q, x) == [q EXCEPT !.pc = "answered", !.answer = x[1], !.rev = x[2],
                           !.etag = NoRevision]

\* The end of the process cancels the request.
Cancelled == phase = "stopping"

-----------------------------------------------------------------------------
(* refreshConfig *)

RefreshBegins ==
    /\ Begins(refresh.pc)
    /\ refresh' = [NoFetch EXCEPT !.pc = "sent", !.etag = etag,
                                  !.previous = config]
    /\ UNCHANGED <<serverVars, told, file, disk, mem, daemonVars, reload, beat,
                   update, history, troubles>>

FetchConfig ==
    /\ refresh.pc = "sent"
    /\ \/ /\ refresh' = Fetched(refresh, Current(refresh.etag))
          /\ UNCHANGED troubles
       \/ /\ \E x \in Amiss(refresh.etag) : refresh' = Fetched(refresh, x)
          /\ Trouble
       \/ /\ Cancelled
          /\ refresh' = Fetched(refresh, <<"failed", NoRevision>>)
          /\ UNCHANGED troubles
    /\ UNCHANGED <<serverVars, told, file, disk, mem, daemonVars, reload, beat,
                   update, history>>

RefreshRefused ==
    /\ refresh.pc = "answered"
    /\ refresh.answer \in {"failed", "unauthenticated", "revoked"}
    /\ HandleRequestError(refresh.answer)
    /\ refresh' = NoFetch
    /\ UNCHANGED <<serverVars, told, file, config, etag, realtime, reload, beat,
                   update, history>>

\* A document that does not validate is remembered for the heartbeat.
ConfigRejected ==
    /\ refresh.pc = "answered" /\ refresh.answer = "document"
    /\ ~Valid(refresh.rev)
    /\ Save([mem EXCEPT !.rejected = refresh.rev, !.error = TRUE])
    /\ refresh' = NoFetch
    /\ UNCHANGED <<serverVars, told, file, daemonVars, reload, beat, update,
                   history>>

\* SaveConfig: ErrConfigRollback, ErrConfigUnchanged.
Rollback(q) == q.rev < q.previous
Unchanged(q) == q.rev = q.previous

NothingNew ==
    /\ refresh.pc = "answered"
    /\ \/ refresh.answer = "unmodified"
       \/ refresh.answer = "document" /\ Valid(refresh.rev) /\ Unchanged(refresh)
    /\ ClearAuthenticationPause
    /\ refresh' = NoFetch
    /\ UNCHANGED <<serverVars, told, file, daemonVars, reload, beat, update,
                   history>>

\* A rollback, or a file that cannot be written.
SaveConfigFails ==
    /\ refresh.pc = "answered" /\ refresh.answer = "document"
    /\ Valid(refresh.rev) /\ ~Unchanged(refresh)
    /\ IF Rollback(refresh)
       THEN Save([mem EXCEPT !.error = TRUE])
       ELSE mem' = [mem EXCEPT !.error = TRUE] /\ disk' \in {mem', disk} /\ Trouble
    /\ refresh' = NoFetch
    /\ UNCHANGED <<serverVars, told, file, daemonVars, reload, beat, update,
                   history>>

\* SaveConfig writes the document.
Replaces(q) == Valid(q.rev) /\ ~Rollback(q) /\ ~Unchanged(q)

SaveConfig ==
    /\ refresh.pc = "answered" /\ refresh.answer = "document"
    /\ Replaces(refresh)
    /\ file' = [rev |-> refresh.rev, ok |-> TRUE]
    /\ refresh' = [NoFetch EXCEPT !.pc = "saved", !.rev = refresh.rev]
    /\ overtaken' = FALSE
    /\ UNCHANGED <<serverVars, told, disk, mem, daemonVars, reload, beat,
                   update, astray, troubles>>

\* The document is in force, whether or not the state can be saved.  The
\* client of its Realtime configuration follows without the mutex, if it can.
RefreshAccepts ==
    /\ refresh.pc = "saved"
    /\ config' = refresh.rev /\ etag' = refresh.rev
    /\ Save([mem EXCEPT !.error = FALSE, !.rejected = NoRevision,
                        !.paused = FALSE])
    /\ refresh' = IF troubles' = troubles THEN [refresh EXCEPT !.pc = "accepted"]
                                          ELSE NoFetch
    /\ astray' = (troubles' # troubles \/ reload.pc = "accepted")
    /\ UNCHANGED <<serverVars, told, file, phase, realtime, reload, beat, update,
                   overtaken>>

RefreshReplacesRealtime ==
    /\ refresh.pc = "accepted"
    /\ realtime' = refresh.rev
    /\ refresh' = NoFetch
    /\ UNCHANGED <<serverVars, told, file, disk, mem, phase, config, etag, reload,
                   beat, update, history, troubles>>

-----------------------------------------------------------------------------
(* reloadLocalConfig *)

ReloadLoads ==
    /\ Begins(reload.pc)
    /\ file.ok
    /\ reload' = [pc |-> "loaded", rev |-> file.rev]
    /\ UNCHANGED <<serverVars, told, file, disk, mem, daemonVars, refresh, beat,
                   update, history, troubles>>

ReloadCompares ==
    /\ reload.pc = "loaded"
    /\ reload' = IF reload.rev = config THEN NoReload
                 ELSE [reload EXCEPT !.pc = "differs"]
    /\ UNCHANGED <<serverVars, told, file, disk, mem, daemonVars, refresh, beat,
                   update, history, troubles>>

\* Neither the ETag nor a rejection is touched.
ReloadAccepts ==
    /\ reload.pc = "differs"
    /\ config' = reload.rev
    /\ reload' = [reload EXCEPT !.pc = "accepted"]
    /\ astray' = (refresh.pc = "accepted")
    /\ UNCHANGED <<serverVars, told, file, disk, mem, phase, etag, realtime,
                   refresh, beat, update, overtaken, troubles>>

ReloadReplacesRealtime ==
    /\ reload.pc = "accepted"
    /\ realtime' = reload.rev
    /\ reload' = NoReload
    /\ UNCHANGED <<serverVars, told, file, disk, mem, phase, config, etag, refresh,
                   beat, update, history, troubles>>

-----------------------------------------------------------------------------
(* sendHeartbeat *)

\* A rejected document is reported in place of the one in force.
HeartbeatBegins ==
    /\ Begins(beat.pc)
    /\ beat' = [pc |-> "sent",
                report |-> IF mem.error THEN mem.rejected ELSE NoRevision]
    /\ UNCHANGED <<serverVars, told, file, disk, mem, daemonVars, refresh, reload,
                   update, history, troubles>>

\* The control plane takes it or refuses it, or the answer does not come; and
\* what is made of that.
Heartbeat ==
    /\ beat.pc = "sent"
    /\ \/ /\ credential = "valid"
          /\ told' = beat.report
          /\ ClearAuthenticationPause
          /\ UNCHANGED phase
       \/ /\ credential # "valid"
          /\ HandleRequestError(Current(NoRevision)[1])
          /\ UNCHANGED told
       \/ /\ told' \in {told, IF credential = "valid" THEN beat.report ELSE told}
          /\ IF Cancelled THEN UNCHANGED troubles ELSE Trouble
          /\ UNCHANGED <<mem, disk, phase>>
    /\ beat' = NoBeat
    /\ UNCHANGED <<serverVars, file, config, etag, realtime, refresh, reload,
                   update, history>>

-----------------------------------------------------------------------------
(* UpdateConfig *)

\* backupchief config update, and the start of a daemon that cannot use the
\* installed document.  It goes by that document's metadata, and by its ETag
\* unless the document is not valid or the operator uses --force.
UpdateBegins(by) ==
    /\ update[by].pc = "idle"
    /\ ~disk.revoked
    /\ IF by = "start" THEN phase = "starting" /\ UNCHANGED troubles ELSE Trouble
    /\ \E tag \in {file.rev, NoRevision} :
        /\ ~file.ok => tag = NoRevision
        /\ file.ok /\ by = "start" => tag = file.rev
        /\ update' = [update EXCEPT ![by] =
               [NoFetch EXCEPT !.pc = "sent", !.etag = tag, !.previous = file.rev]]
    /\ UNCHANGED <<serverVars, told, file, disk, mem, daemonVars, loopVars,
                   history>>

UpdateFetches(by) ==
    LET q == update[by] IN
    /\ q.pc = "sent"
    /\ \/ /\ update' = [update EXCEPT ![by] = Fetched(q, Current(q.etag))]
          /\ UNCHANGED troubles
       \/ /\ \E x \in Amiss(q.etag) :
                update' = [update EXCEPT ![by] = Fetched(q, x)]
          /\ Trouble
    /\ UNCHANGED <<serverVars, told, file, disk, mem, daemonVars, loopVars,
                   history>>

\* An error, also one of SaveConfig.  Nothing is recorded of it, a revocation
\* included, and the start fails with it.
UpdateFails(by) ==
    LET q == update[by] IN
    /\ q.pc = "answered" /\ q.answer # "unmodified"
    /\ q.answer = "document" /\ Valid(q.rev) => ~Unchanged(q)
    /\ IF q.answer = "document" /\ Replaces(q) THEN Trouble ELSE UNCHANGED troubles
    /\ update' = [update EXCEPT ![by] = NoFetch]
    /\ phase' = IF by = "start" THEN "ended" ELSE phase
    /\ UNCHANGED <<serverVars, told, file, disk, mem, config, etag, realtime,
                   loopVars, history>>

\* The call has succeeded; Run goes on.
Updated(by) ==
    update' = [update EXCEPT ![by] =
                  IF by = "start" THEN [NoFetch EXCEPT !.pc = "saved"] ELSE NoFetch]

\* A document of the revision that is installed is not written, even if what is
\* installed is not valid.
UpdateUnchanged(by) ==
    LET q == update[by] IN
    /\ q.pc = "answered"
    /\ \/ q.answer = "unmodified"
       \/ q.answer = "document" /\ Valid(q.rev) /\ Unchanged(q)
    /\ Updated(by)
    /\ UNCHANGED <<serverVars, told, file, disk, mem, daemonVars, loopVars,
                   history, troubles>>

UpdateSaves(by) ==
    LET q == update[by] IN
    /\ q.pc = "answered" /\ q.answer = "document" /\ Replaces(q)
    /\ file' = [rev |-> q.rev, ok |-> TRUE]
    /\ overtaken' = (q.rev < file.rev \/ q.rev < etag
                     \/ (refresh.pc = "saved" /\ q.rev < refresh.rev))
    /\ Updated(by)
    /\ UNCHANGED <<serverVars, told, disk, mem, daemonVars, loopVars, astray,
                   troubles>>

-----------------------------------------------------------------------------
(* The daemon's process *)

\* Run with a document that can be used.
Up ==
    /\ phase' = "up"
    /\ mem' = disk
    /\ config' = file.rev /\ etag' = file.rev /\ realtime' = file.rev
    /\ overtaken' = FALSE /\ astray' = FALSE

\* Run.
Launch ==
    /\ ~disk.revoked
    /\ IF file.ok THEN Up
       ELSE phase' = "starting" /\ UNCHANGED <<mem, config, etag, realtime, history>>
    /\ UNCHANGED <<serverVars, told, file, disk, loopVars, update>>

\* The service manager starts the daemon at boot and after a crash.
StartDaemon == phase = "down" /\ UNCHANGED troubles /\ Launch

\* It leaves alone one that has returned an error: exit status 2 is excepted
\* (RestartPreventExitStatus).
StartByHand == phase = "ended" /\ Trouble /\ Launch

\* The second LoadConfig of Run.
StartLoads ==
    /\ update["start"].pc = "saved"
    /\ IF file.ok THEN Up
       ELSE phase' = "ended" /\ UNCHANGED <<mem, config, etag, realtime, history>>
    /\ update' = [update EXCEPT !["start"] = NoFetch]
    /\ UNCHANGED <<serverVars, told, file, disk, loopVars, troubles>>

Down ==
    /\ mem' = disk
    /\ config' = NoRevision /\ etag' = NoRevision /\ realtime' = NoRevision
    /\ overtaken' = FALSE /\ astray' = FALSE

\* Every loop has ended.
Stopped ==
    /\ phase = "stopping"
    /\ refresh = NoFetch /\ reload = NoReload /\ beat = NoBeat
    /\ phase' = "ended" /\ Down
    /\ UNCHANGED <<serverVars, told, file, disk, loopVars, update, troubles>>

Crash ==
    /\ phase \in {"starting", "up", "stopping"}
    /\ Trouble
    /\ phase' = "down" /\ Down
    /\ refresh' = NoFetch /\ reload' = NoReload /\ beat' = NoBeat
    /\ update' = [update EXCEPT !["start"] = NoFetch]
    /\ UNCHANGED <<serverVars, told, file, disk>>

-----------------------------------------------------------------------------
(* The control plane, and others who write the file *)

Publish ==
    /\ published < MaxRevision
    /\ published' = published + 1
    /\ UNCHANGED <<credential, told, file, disk, mem, daemonVars, loopVars, update,
                   history, troubles>>

\* A credential may be refused for a time; a revocation is for good.
Judge(verdict) ==
    /\ credential' = verdict
    /\ UNCHANGED <<published, told, file, disk, mem, daemonVars, loopVars, update,
                   history>>

CredentialInvalid == credential = "valid" /\ Trouble /\ Judge("invalid")

CredentialRestored == credential = "invalid" /\ UNCHANGED troubles /\ Judge("valid")

Revoke == credential # "revoked" /\ UNCHANGED troubles /\ Judge("revoked")

\* The document is no longer valid, or not even JSON; also an agent of another
\* version may find it so.
Spoil ==
    /\ file.ok
    /\ file' \in {[file EXCEPT !.ok = FALSE], [rev |-> NoRevision, ok |-> FALSE]}
    /\ Trouble
    /\ UNCHANGED <<serverVars, told, disk, mem, daemonVars, loopVars, update,
                   history>>

-----------------------------------------------------------------------------
RefreshStep ==
    \/ RefreshBegins \/ FetchConfig \/ RefreshRefused \/ ConfigRejected
    \/ NothingNew \/ SaveConfigFails \/ SaveConfig \/ RefreshAccepts
    \/ RefreshReplacesRealtime

ReloadStep ==
    ReloadLoads \/ ReloadCompares \/ ReloadAccepts \/ ReloadReplacesRealtime

BeatStep == HeartbeatBegins \/ Heartbeat

UpdateStep(by) ==
    \/ UpdateFetches(by) \/ UpdateFails(by) \/ UpdateUnchanged(by)
    \/ UpdateSaves(by)

StartStep == StartDaemon \/ UpdateBegins("start") \/ UpdateStep("start") \/ StartLoads

Next ==
    \/ RefreshStep \/ ReloadStep \/ BeatStep
    \/ UpdateBegins("operator") \/ UpdateStep("operator")
    \/ StartStep \/ StartByHand \/ Stopped \/ Crash
    \/ Publish \/ CredentialInvalid \/ CredentialRestored \/ Revoke \/ Spoil

\* The goroutines run, timers fire, requests end (by an answer or by their
\* timeout) and the service manager restarts a daemon that crashed.
Fairness ==
    /\ WF_vars(RefreshStep) /\ WF_vars(ReloadStep) /\ WF_vars(BeatStep)
    /\ WF_vars(StartStep) /\ WF_vars(Stopped)

Spec == Init /\ [][Next]_vars /\ Fairness

-----------------------------------------------------------------------------
(* Properties *)

Settled ==
    IF Valid(published)
    THEN /\ phase = "up" /\ config = published /\ ~mem.paused
         /\ astray \/ realtime = config
    ELSE told = published

\* A daemon that runs does not repair the file, so an older document that a slow
\* reload has put into force stays.
Unmended == ~file.ok /\ config < etag

\* An agent whose credential is accepted gets there in the end, whatever
\* crashed, failed, lagged or was refused before: the published document is in
\* force (refreshConfig, reloadLocalConfig, Run), with its Realtime client, and
\* the pause is over (clearAuthenticationPause); or, if it is one that this agent
\* does not accept, the control plane has been told so (sendHeartbeat).  A
\* revoked agent is down for good: the revocation is saved before the daemon
\* stops (handleRequestError), whichever loop hears of it and whatever others
\* are about to save.  Left out are the ends the code has no way out of: a
\* command that overtook the daemon (reloadLocalConfig keeps the ETag), a Realtime
\* client that went astray (replaceRealtime without the mutex), a spoilt file, a
\* start that failed.
Settles ==
    <>[](/\ credential = "valid" =>
                Settled \/ overtaken \/ Unmended \/ phase = "ended"
         /\ credential = "revoked" => phase \notin {"up", "stopping"})
=============================================================================
