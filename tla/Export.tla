------------------------------- MODULE Export -------------------------------
(***************************************************************************)
(* An export: the archive of a snapshot is compressed on several cores     *)
(* (restic/parallel_deflate.go) straight into an uploader of parts         *)
(* (partupload/uploader.go), and uploadExport (cmd/restic_export.go)       *)
(* reports one result or one failure.                                      *)
(*                                                                         *)
(* The producer cuts the source into chunks.  Workers compress them in any *)
(* order; one goroutine, the writer, writes them in order to the uploader, *)
(* which fills a part buffer, hands a full one to an upload goroutine and  *)
(* waits when all slots are taken.  A compressed chunk is one unit of the  *)
(* archive, and so is what the ZIP writer adds at the end, ArchiveEnd.     *)
(***************************************************************************)
EXTENDS Naturals, Sequences, FiniteSets

CONSTANTS
    MaxChunks,    \* bound: full chunks of the source
    Workers,      \* request.CompressionWorkers, more than one
    PartUnits,    \* target.PartBytes
    Concurrency,  \* target.Concurrency
    MaximumUnits, \* target.MaximumBytes
    PartURLs,     \* len(target.PartURLs)
    PartAttempts, \* partAttempts
    MaxTroubles   \* bound: requests that fail

\* What Host accepts as a target.
ValidTarget ==
    /\ MaxChunks \in Nat /\ MaxTroubles \in Nat
    /\ Workers \in Nat \ {0} /\ PartUnits \in Nat \ {0}
    /\ Concurrency \in Nat \ {0} /\ PartAttempts \in Nat \ {0}
    /\ MaximumUnits \in Nat \ {0} /\ PartURLs \in Nat
    \* Host refuses a target whose URLs do not hold the largest archive.
    /\ PartURLs * PartUnits >= MaximumUnits

ASSUME TargetIsValid == ValidTarget

VARIABLES
    kind,     \* who makes the archive: see Kinds
    scratch,  \* whether the snapshot is, or was, restored to zip it from disk
    started,  \* this entry has filled a chunk
    main,     \* where the goroutine of uploadExport is
    produced, \* how many chunks the source has yielded
    rest,     \* the source ended within a chunk: it is dispatched by Close
    failed,   \* produce returns an error
    jobs,     \* the channel jobs
    ordered,  \* the channel ordered
    working,  \* the chunks that workers compress
    results,  \* the chunks whose result channel is filled
    writer,   \* the chunk the writer waits for or writes, or 0
    deflateErr,
    submit,   \* who is inside submit
    buffer,   \* uploader.buffer; <<>> when there is none
    pool,     \* how many buffers uploader.buffers holds
    slots,    \* how many slots are taken
    uploads,  \* the upload goroutines, in part order
    stream,   \* what was written to the uploader, in order
    err,      \* uploader.err
    cancelled,
    troubles,
    report

deflateVars == <<jobs, ordered, working, results, writer, deflateErr>>
uploadVars == <<submit, buffer, pool, slots, uploads, stream, err, cancelled>>
vars == <<kind, scratch, started, main, produced, rest, failed, deflateVars, uploadVars,
          troubles, report>>

ArchiveEnd == 0

Chunks == 1 .. MaxChunks + 1

Units == {ArchiveEnd} \cup Chunks

NoCode == "none"

Codes == {"archive_too_large", "empty_archive", "artifact_storage_failed",
          "invalid_archive", "source_unavailable"}

\* One upload goroutine.  It gives its buffer back, then its slot.
Upload == [body : Seq(Units), attempt : 1 .. PartAttempts, etag : BOOLEAN,
           phase : {"put", "buffer", "slot", "done"}]

\* Restic itself for a directory, else the ZIP writer, with one compressor or
\* several (newArchiveWriter).
Kinds == {"directory", "sequential", "parallel"}

MainSteps == {"start", "command", "produce", "ordered", "jobs", "close", "drain",
              "tail", "writing", "ended", "abandon", "wait", "done"}

TypeOK ==
    /\ scratch \in {"wanted", "used", "none"} /\ started \in BOOLEAN
    /\ kind \in Kinds /\ failed \in BOOLEAN /\ rest \in BOOLEAN
    /\ main.step \in MainSteps /\ main.then \in MainSteps
    /\ produced \in 0 .. MaxChunks + 1
    /\ jobs \in Seq(Chunks) /\ Len(jobs) <= Workers
    /\ ordered \in Seq(Chunks) /\ Len(ordered) <= 2 * Workers
    /\ working \subseteq Chunks /\ Cardinality(working) <= Workers
    /\ results \subseteq Chunks /\ writer \in {0} \cup Chunks
    /\ submit \in {"none", "writer", "main", "close"}
    /\ buffer \in Seq(Units) /\ Len(buffer) <= PartUnits
    /\ pool \in 0 .. Concurrency + 1
    /\ slots \in 0 .. Concurrency
    /\ uploads \in Seq(Upload) /\ Len(uploads) <= PartURLs
    /\ stream \in Seq(Units) /\ Len(stream) <= MaximumUnits
    /\ err \in Codes \cup {NoCode} /\ cancelled \in BOOLEAN
    /\ troubles \in 0 .. MaxTroubles
    /\ report \in Codes \cup {NoCode, "result"}

Step(step) == [step |-> step, then |-> step]

Init ==
    /\ kind \in Kinds /\ scratch \in {"wanted", "none"} /\ started = FALSE
    /\ main = Step("start") /\ produced = 0 /\ rest = FALSE /\ failed = FALSE
    /\ jobs = <<>> /\ ordered = <<>> /\ working = {}
    /\ results = {} /\ writer = 0 /\ deflateErr = FALSE
    /\ submit = "none" /\ buffer = <<>> /\ pool = 0 /\ slots = 0
    /\ uploads = <<>> /\ stream = <<>> /\ err = NoCode /\ cancelled = FALSE
    /\ troubles = 0 /\ report = NoCode

-----------------------------------------------------------------------------
(* The uploader's Write and submit *)

\* The call returns to whoever made it.  The writer remembers an error for the
\* producer; the producer's own write ends the archive with it.
Return(who, ok) ==
    /\ IF who = "writer"
       THEN /\ writer' = 0
            /\ deflateErr' = (deflateErr \/ ~ok)
            /\ UNCHANGED <<main, failed>>
       ELSE /\ main' = IF ok THEN Step(main.then) ELSE Step("ended")
            /\ failed' = (failed \/ ~ok)
            /\ UNCHANGED <<writer, deflateErr>>

\* fail keeps the first error and cancels every request.
Fail(code) ==
    /\ err' = IF err = NoCode THEN code ELSE err
    /\ cancelled' = TRUE

\* takeBuffer reuses a buffer that an upload has given back.
TakeBuffer == pool' = IF buffer = <<>> /\ pool > 0 THEN pool - 1 ELSE pool

\* Mutant: one unit too many is let through.
TooLargeLate == Len(stream) > MaximumUnits

TooLarge == Len(stream) >= MaximumUnits

\* Write of one unit by who.
WriteUnit(unit, who) ==
    /\ submit = "none"
    /\ \/ /\ err # NoCode
          /\ Return(who, FALSE)
          /\ UNCHANGED uploadVars
       \/ /\ err = NoCode /\ TooLarge
          /\ Fail("archive_too_large")
          /\ Return(who, FALSE)
          /\ UNCHANGED <<submit, buffer, pool, slots, uploads, stream>>
       \* What Restic writes for a directory does not begin as a ZIP does.
       \/ /\ err = NoCode /\ kind = "directory" /\ stream = <<>>
          /\ Fail("invalid_archive")
          /\ Return(who, FALSE)
          /\ UNCHANGED <<submit, buffer, pool, slots, uploads, stream>>
       \/ /\ err = NoCode /\ ~TooLarge
          /\ TakeBuffer
          /\ buffer' = Append(buffer, unit)
          /\ stream' = Append(stream, unit)
          /\ IF Len(buffer') = PartUnits
             THEN submit' = who /\ UNCHANGED <<writer, deflateErr, main, failed>>
             ELSE UNCHANGED submit /\ Return(who, TRUE)
          /\ UNCHANGED <<slots, uploads, err, cancelled>>

\* submit returns to Write, or to Close, which then waits.
SubmitReturns(ok) ==
    IF submit = "close" THEN UNCHANGED <<main, failed, writer, deflateErr>>
                        ELSE Return(submit, ok)

SubmitCancelled ==
    /\ submit # "none"
    /\ cancelled
    /\ Fail("artifact_storage_failed")
    /\ SubmitReturns(FALSE)
    /\ submit' = "none"
    /\ UNCHANGED <<kind, scratch, started, produced, rest, jobs, ordered, working, results,
                   buffer, pool, slots, uploads, stream, troubles, report>>

\* A slot is free.  The error is looked at again before the part is taken.
SubmitTakesSlot ==
    /\ submit # "none"
    /\ slots < Concurrency
    /\ submit' = "none"
    /\ \/ /\ err # NoCode
          /\ SubmitReturns(FALSE)
          /\ UNCHANGED <<slots, uploads, buffer>>
       \/ /\ err = NoCode
          /\ slots' = slots + 1
          /\ uploads' = Append(uploads, [body |-> buffer, attempt |-> 1,
                                         etag |-> FALSE, phase |-> "put"])
          /\ buffer' = <<>>
          /\ SubmitReturns(TRUE)
    /\ UNCHANGED <<kind, scratch, started, produced, rest, jobs, ordered, working, results,
                   pool, stream, err, cancelled, troubles, report>>

-----------------------------------------------------------------------------
(* The upload goroutines: uploadPart and put *)

uploadCaller == <<kind, scratch, started, main, produced, rest, failed, deflateVars, submit,
                  buffer, stream, report>>

PutSucceeds(p) ==
    /\ uploads[p].phase = "put"
    /\ ~cancelled
    /\ uploads' = [uploads EXCEPT ![p].etag = TRUE, ![p].phase = "buffer"]
    /\ UNCHANGED <<uploadCaller, pool, slots, err, cancelled, troubles>>

\* The request fails and is made again.
PutRetries(p) ==
    /\ uploads[p].phase = "put"
    /\ ~cancelled
    /\ troubles < MaxTroubles
    /\ troubles' = troubles + 1
    /\ uploads[p].attempt < PartAttempts
    /\ uploads' = [uploads EXCEPT ![p].attempt = @ + 1]
    /\ UNCHANGED <<uploadCaller, pool, slots, err, cancelled>>

\* It fails for good, was the last attempt, or was cancelled.
PutFails(p) ==
    /\ uploads[p].phase = "put"
    /\ \/ /\ cancelled
          /\ UNCHANGED troubles
       \/ /\ ~cancelled
          /\ troubles < MaxTroubles
          /\ troubles' = troubles + 1
    /\ uploads' = [uploads EXCEPT ![p].phase = "buffer"]
    /\ Fail("artifact_storage_failed")
    /\ UNCHANGED <<uploadCaller, pool, slots>>

GiveBuffer(p, from, to) ==
    /\ uploads[p].phase = from
    /\ pool <= Concurrency
    /\ pool' = pool + 1
    /\ uploads' = [uploads EXCEPT ![p].phase = to]
    /\ UNCHANGED <<uploadCaller, slots, err, cancelled, troubles>>

GiveSlot(p, from, to) ==
    /\ uploads[p].phase = from
    /\ slots' = slots - 1
    /\ uploads' = [uploads EXCEPT ![p].phase = to]
    /\ UNCHANGED <<uploadCaller, pool, err, cancelled, troubles>>

\* Mutant: the slot is given back before the buffer.
SlotFirst(p) ==
    \/ GiveSlot(p, "buffer", "slot")
    \/ GiveBuffer(p, "slot", "done")

\* The deferred function of the upload goroutine.
GiveBack(p) ==
    \/ GiveBuffer(p, "buffer", "slot")
    \/ GiveSlot(p, "slot", "done")

UploadsDone == \A p \in DOMAIN uploads : uploads[p].phase = "done"

-----------------------------------------------------------------------------
(* The producer: StreamExport and parallelDeflater *)

producerVars == <<kind, scratch, started, uploadVars, troubles, report>>

\* A target that is not valid or a proxy that does not start ends the export.
Refused ==
    /\ main.step = "start"
    /\ report' = "artifact_storage_failed"
    /\ main' = Step("done")
    /\ UNCHANGED <<kind, scratch, started, produced, rest, failed, deflateVars, uploadVars, troubles>>

Accepted ==
    /\ main.step = "start"
    /\ main' = Step("command")
    /\ UNCHANGED <<produced, rest, failed, deflateVars, producerVars>>

\* The files are restored first, and the ZIP writer archives them, one entry
\* each.  A restore that fails falls back to streaming.
RestoreExport ==
    /\ main.step = "command"
    /\ scratch = "wanted"
    /\ \/ /\ scratch' = "used"
          /\ kind' \in {"sequential", "parallel"}
          /\ main' = Step("produce")
       \/ /\ scratch' = "none"
          /\ UNCHANGED <<kind, main>>
    /\ UNCHANGED <<started, produced, rest, failed, deflateVars, uploadVars,
                   troubles, report>>

\* The next file: deflated by several compressors, or by one, or stored.
NextEntry ==
    /\ main.step = "tail"
    /\ scratch = "used"
    /\ ~failed
    /\ produced < MaxChunks
    /\ main' = Step("produce")
    /\ started' = FALSE
    /\ rest' = FALSE
    /\ kind' \in {"sequential", "parallel"}
    /\ UNCHANGED <<scratch, produced, failed, deflateVars, uploadVars, troubles, report>>

\* The repository's lock, the workspace or the session cannot be had.
CommandFails ==
    /\ main.step = "command"
    /\ scratch = "none"
    /\ main' = Step("ended")
    /\ failed' = TRUE
    /\ UNCHANGED <<produced, rest, deflateVars, producerVars>>

CommandStarts ==
    /\ main.step = "command"
    /\ scratch = "none"
    /\ main' = Step("produce")
    /\ UNCHANGED <<produced, rest, failed, deflateVars, producerVars>>

\* The source yields a full chunk.  Write stops at an error of the writer.
ProduceChunk ==
    /\ main.step = "produce"
    /\ kind = "parallel"
    /\ produced < MaxChunks
    /\ IF deflateErr
       THEN main' = Step("close") /\ failed' = TRUE /\ UNCHANGED produced
       ELSE /\ main' = [step |-> "ordered", then |-> "produce"]
            /\ produced' = produced + 1
            /\ UNCHANGED failed
    /\ started' = TRUE
    /\ UNCHANGED <<rest, deflateVars, kind, scratch, uploadVars, troubles, report>>

\* The source ends, with or without a last incomplete chunk, or Restic fails.
SourceEnds ==
    /\ main.step = "produce"
    /\ main' = IF kind = "directory" THEN Step("ended") ELSE Step("close")
    /\ rest' \in IF kind = "directory" THEN {FALSE} ELSE BOOLEAN
    /\ failed' \in BOOLEAN
    /\ UNCHANGED <<produced, deflateVars, producerVars>>

\* Restic's archive of a directory, or what one compressor writes.
ProduceDirect ==
    /\ main.step = "produce"
    /\ kind # "parallel"
    /\ produced < MaxChunks
    /\ produced' = produced + 1
    /\ main' = [step |-> "writing", then |-> "produce"]
    /\ started' = TRUE
    /\ UNCHANGED <<rest, failed, deflateVars, kind, scratch, uploadVars, troubles, report>>

\* dispatch: the result's place in the order first, then the job.
SendOrdered ==
    /\ main.step = "ordered"
    /\ Len(ordered) < 2 * Workers
    /\ ordered' = Append(ordered, produced)
    /\ main' = [main EXCEPT !.step = "jobs"]
    /\ UNCHANGED <<produced, rest, failed, jobs, working, results, writer,
                   deflateErr, producerVars>>

SendJob ==
    /\ main.step = "jobs"
    /\ Len(jobs) < Workers
    /\ jobs' = Append(jobs, produced)
    /\ main' = Step(main.then)
    /\ UNCHANGED <<produced, rest, failed, ordered, working, results, writer,
                   deflateErr, producerVars>>

TakeJob ==
    /\ Cardinality(working) < Workers
    /\ jobs # <<>>
    /\ working' = working \cup {Head(jobs)}
    /\ jobs' = Tail(jobs)
    /\ UNCHANGED <<main, produced, rest, failed, ordered, results, writer,
                   deflateErr, producerVars>>

Compress(chunk) ==
    /\ results' = results \cup {chunk}
    /\ working' = working \ {chunk}
    /\ UNCHANGED <<main, produced, rest, failed, jobs, ordered, writer,
                   deflateErr, producerVars>>

\* The writer takes the next place in the order and waits for its result.
TakeOrdered ==
    /\ writer = 0
    /\ ordered # <<>>
    /\ writer' = Head(ordered)
    /\ ordered' = Tail(ordered)
    /\ UNCHANGED <<main, produced, rest, failed, jobs, working, results,
                   deflateErr, producerVars>>

\* Mutant: after an error the writer stops instead of draining.
WriteChunkOrStop ==
    /\ writer # 0
    /\ writer \in results
    /\ submit # "writer"
    /\ ~deflateErr
    /\ WriteUnit(writer, "writer")
    /\ UNCHANGED <<kind, scratch, started, produced, rest, jobs, ordered, working, results,
                   troubles, report>>

\* After an error the writer only drains.
WriteChunk ==
    /\ writer # 0
    /\ writer \in results
    /\ submit # "writer"
    /\ IF deflateErr
       THEN /\ writer' = 0
            /\ UNCHANGED <<deflateErr, main, failed, uploadVars>>
       ELSE WriteUnit(writer, "writer")
    /\ UNCHANGED <<kind, scratch, started, produced, rest, jobs, ordered, working, results,
                   troubles, report>>

\* Close.  An entry that never filled a chunk is compressed inline.
CloseArchive ==
    /\ main.step = "close"
    /\ \/ /\ ~started \/ (kind = "sequential" /\ rest)
          /\ produced' = produced + 1
          /\ main' = [step |-> "writing", then |-> "tail"]
       \/ /\ started /\ kind = "sequential" /\ ~rest
          /\ main' = Step("tail")
          /\ UNCHANGED produced
       \/ /\ started /\ kind = "parallel" /\ rest
          /\ produced' = produced + 1
          /\ main' = [step |-> "ordered", then |-> "drain"]
       \/ /\ started /\ kind = "parallel" /\ ~rest
          /\ main' = Step("drain")
          /\ UNCHANGED produced
    /\ UNCHANGED <<rest, failed, deflateVars, producerVars>>

\* The channels are closed; the workers and then the writer finish.
Drained ==
    /\ main.step = "drain"
    /\ jobs = <<>> /\ ordered = <<>> /\ writer = 0 /\ working = {}
    /\ main' = IF deflateErr THEN Step("ended") ELSE Step("tail")
    /\ failed' = (failed \/ deflateErr)
    /\ results' = {}
    /\ UNCHANGED <<produced, rest, jobs, ordered, working, writer, deflateErr, producerVars>>

StartTail ==
    /\ main.step = "tail"
    /\ main' = [step |-> "writing", then |-> "ended"]
    /\ UNCHANGED <<produced, rest, failed, deflateVars, producerVars>>

\* The producer's own writes: without workers, an inline entry, the archive's end.
MainWrites ==
    /\ main.step = "writing"
    /\ submit = "none"
    /\ WriteUnit(IF main.then = "ended" THEN ArchiveEnd ELSE produced, "main")
    /\ UNCHANGED <<kind, scratch, started, produced, rest, jobs, ordered, working, results,
                   troubles, report>>

-----------------------------------------------------------------------------
(* uploadExport *)

\* produce failed: Abandon cancels the uploads and waits for them.
Abandon ==
    /\ main.step = "ended"
    /\ failed
    /\ cancelled' = TRUE
    /\ main' = Step("abandon")
    /\ UNCHANGED <<produced, rest, failed, deflateVars, kind, scratch, started, submit, buffer,
                   pool, slots, uploads, stream, err, troubles, report>>

Abandoned ==
    /\ main.step = "abandon"
    /\ UploadsDone
    /\ report' = IF err # NoCode THEN err ELSE "source_unavailable"
    /\ main' = Step("done")
    /\ UNCHANGED <<kind, scratch, started, produced, rest, failed, deflateVars, uploadVars, troubles>>

\* Close submits what is left in the buffer.  An archive of one write that never left
\* the buffer may be shorter than the four bytes of a signature.
CloseUpload ==
    /\ main.step = "ended"
    /\ ~failed
    /\ main' = Step("wait")
    /\ \/ /\ err # NoCode
          /\ UNCHANGED <<submit, err, cancelled>>
       \/ /\ err = NoCode /\ stream = <<>>
          /\ Fail("empty_archive")
          /\ UNCHANGED submit
       \/ /\ err = NoCode /\ Len(stream) = 1 /\ buffer = stream
          /\ Fail("invalid_archive")
          /\ UNCHANGED submit
       \/ /\ err = NoCode /\ stream # <<>>
          /\ submit' = IF buffer = <<>> THEN "none" ELSE "close"
          /\ UNCHANGED <<err, cancelled>>
    /\ UNCHANGED <<kind, scratch, started, produced, rest, failed, deflateVars, buffer, pool,
                   slots, uploads, stream, troubles, report>>

\* Mutant: the result is reported without waiting for the uploads.
ClosedEarly ==
    /\ main.step = "wait"
    /\ submit = "none"
    /\ report' = IF err # NoCode THEN err ELSE "result"
    /\ main' = Step("done")
    /\ UNCHANGED <<kind, scratch, started, produced, rest, failed, deflateVars, uploadVars, troubles>>

Closed ==
    /\ main.step = "wait"
    /\ submit = "none"
    /\ UploadsDone
    /\ report' = IF err # NoCode THEN err ELSE "result"
    /\ main' = Step("done")
    /\ UNCHANGED <<kind, scratch, started, produced, rest, failed, deflateVars, uploadVars, troubles>>

\* A signal cancels the context the uploader's own is derived from.
Signal ==
    /\ main.step # "done"
    /\ ~cancelled
    /\ troubles < MaxTroubles
    /\ troubles' = troubles + 1
    /\ cancelled' = TRUE
    /\ UNCHANGED <<kind, scratch, started, main, produced, rest, failed, deflateVars, submit,
                   buffer, pool, slots, uploads, stream, err, report>>

-----------------------------------------------------------------------------

Produce ==
    \/ Refused \/ Accepted \/ RestoreExport \/ NextEntry
    \/ CommandFails \/ CommandStarts
    \/ ProduceChunk \/ ProduceDirect \/ SourceEnds
    \/ SendOrdered \/ SendJob \/ CloseArchive \/ Drained \/ StartTail
    \/ MainWrites

Deflate ==
    \/ TakeJob \/ \E chunk \in working : Compress(chunk)
    \/ TakeOrdered \/ WriteChunk

UploadPart ==
    \/ SubmitCancelled \/ SubmitTakesSlot
    \/ \E p \in DOMAIN uploads :
          PutSucceeds(p) \/ PutRetries(p) \/ PutFails(p) \/ GiveBack(p)

End == Abandon \/ Abandoned \/ CloseUpload \/ Closed

Next == Produce \/ Deflate \/ UploadPart \/ End \/ Signal

\* Every goroutine goes on while it can; a request ends, with an answer, an
\* error or a timeout.  A signal need not come.
Spec == Init /\ [][Next]_vars /\ WF_vars(Produce \/ Deflate \/ UploadPart \/ End)

-----------------------------------------------------------------------------
(* Properties *)

Count(cond) == IF cond THEN 1 ELSE 0

\* Never more than Concurrency + 1 part buffers exist: the one being filled,
\* the pooled ones and those the upload goroutines hold
\* (partupload/uploader.go, Uploader, submit and takeBuffer).
BuffersBounded ==
    LET held == {p \in DOMAIN uploads : uploads[p].phase \in {"put", "buffer"}}
    IN Count(buffer # <<>>) + pool + Cardinality(held) <= Concurrency + 1

\* What the archive must hold: every chunk of the source once, in order, and
\* what the ZIP writer adds.
Archive ==
    [i \in 1 .. produced |-> i] \o (IF kind = "directory" THEN <<>> ELSE <<ArchiveEnd>>)

\* Where the archive's part p ends: every part but the last is full.
PartEnd(p) == IF p < Len(uploads) THEN p * PartUnits ELSE Len(Archive)

\* When uploadExport reports a result, the source did not fail, every part has
\* its ETag, and the parts are the whole archive cut at the part size, however
\* the workers, the writer and the uploads were interleaved
\* (parallelDeflater.start, Uploader.submit, uploadExport).
ArchiveWhole ==
    report = "result" =>
        /\ ~failed
        /\ uploads # <<>>
        /\ \A p \in DOMAIN uploads :
              /\ uploads[p].etag
              /\ uploads[p].body = SubSeq(Archive, (p - 1) * PartUnits + 1, PartEnd(p))

\* Every export ends with one result or one failure: no error, no signal and no
\* full queue leaves the producer, the workers, the writer and the uploads
\* waiting for one another (parallelDeflater.Close, Uploader.Close, Abandon).
ExportEnds == <>(report # NoCode)

=============================================================================
