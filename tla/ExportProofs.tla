---------------------------- MODULE ExportProofs ----------------------------
(***************************************************************************)
(* Proofs about Export: its types, the bound on the part buffers, and that *)
(* an export that reports a result has uploaded its whole archive, in      *)
(* order, for any number of chunks, workers, parts and requests that fail. *)
(***************************************************************************)
EXTENDS Export, FiniteSetTheorems, SequenceTheorems, TLAPS

\* The steps at which chunks can be between the producer and the writer.
Streaming == {"produce", "ordered", "jobs", "close", "drain"}

\* TypeOK, and what it does not say of main and of the writer's error.
Typed ==
    /\ TypeOK
    /\ main \in [step : MainSteps, then : MainSteps]
    /\ deflateErr \in BOOLEAN

\* More chunks may come.
Ahead ==
    \/ main.step \in {"start", "command", "produce"}
    \/ main.step \in {"ordered", "jobs", "writing"} /\ main.then = "produce"

\* The producer's control: where each step can continue, for which kind of
\* archive, and whether the source can have failed.
Stages ==
    /\ main.step = "writing" =>
          /\ main.then \in {"produce", "tail", "ended"}
          /\ main.then # "produce" => kind # "directory"
    /\ main.step \in {"ordered", "jobs"} =>
          /\ main.then \in {"produce", "drain"}
          /\ kind = "parallel" /\ started /\ produced > 0
    /\ Ahead => ~failed /\ produced <= MaxChunks
    /\ main.step = "close" => produced <= MaxChunks
    /\ main.step \in {"close", "drain", "tail"} => kind # "directory"
    /\ main.step = "abandon" => failed
    /\ main.step = "wait" => ~failed
    /\ report # NoCode => main.step = "done"

\* Nothing is between the producer and the writer, unless several compressors
\* work on an entry.
Idle == jobs = <<>> /\ ordered = <<>> /\ working = {} /\ writer = 0

IdlePipeline ==
    ~(main.step \in Streaming /\ kind = "parallel" /\ started) => Idle

\* Who may be inside submit, and how full the buffer is then.
Submits ==
    /\ submit = "writer" => writer # 0
    /\ submit = "main" => main.step = "writing"
    /\ submit = "close" => main.step = "wait" /\ buffer # <<>>
    /\ submit \in {"writer", "main"} => Len(buffer) = PartUnits
    /\ submit = "none" /\ err = NoCode => Len(buffer) < PartUnits
    /\ submit = "none" /\ err = NoCode /\ main.step = "wait" => buffer = <<>>
    /\ main.step = "wait" /\ err = NoCode => stream # <<>>

Clean == err = NoCode /\ ~deflateErr /\ ~failed

\* The chunk that is written but not returned from, or still to be written.
PendingWriter == Count(writer # 0 /\ submit # "writer")

PendingMain == Count(\/ main.step = "ordered"
                     \/ main.step = "writing" /\ main.then # "ended" /\ submit # "main")

\* The ZIP writer has added the archive's end.
Sealed == /\ kind # "directory"
          /\ \/ main.step \in {"ended", "wait"}
             \/ main.step = "writing" /\ main.then = "ended" /\ submit = "main"

\* Until something fails the chunks are written, waited for and queued in the
\* order in which the source yielded them, none twice and none left out.
InOrder ==
    Clean /\ main.step # "done" =>
        /\ \A i \in 1 .. Len(stream) :
              stream[i] = IF Sealed /\ i = Len(stream) THEN ArchiveEnd ELSE i
        /\ Sealed => Len(stream) = produced + 1
        /\ ~Sealed => Len(stream) + PendingWriter + Len(ordered) + PendingMain = produced
        /\ writer # 0 /\ submit # "writer" => writer = Len(stream) + 1
        /\ \A i \in 1 .. Len(ordered) : ordered[i] = Len(stream) + PendingWriter + i

\* The parts and the buffer are the stream, cut at the part size; only the
\* part that Close submits may be short.
Parts ==
    /\ \A p \in 1 .. Len(uploads) :
          /\ uploads[p].body # <<>>
          /\ Len(uploads[p].body) <= PartUnits
          /\ p < Len(uploads) \/ buffer # <<>> \/ main.step \notin {"wait", "done"}
                => Len(uploads[p].body) = PartUnits
          /\ \A i \in 1 .. Len(uploads[p].body) :
                uploads[p].body[i] = stream[(p - 1) * PartUnits + i]
    /\ \A i \in 1 .. Len(buffer) : buffer[i] = stream[Len(uploads) * PartUnits + i]
    /\ uploads = <<>> => Len(stream) = Len(buffer)
    /\ uploads # <<>> =>
          Len(stream) = (Len(uploads) - 1) * PartUnits
                        + Len(uploads[Len(uploads)].body) + Len(buffer)

\* An upload that ends without an ETag has left its error, and so has a write
\* that was refused.
Etags ==
    /\ deflateErr => err # NoCode
    /\ \A p \in 1 .. Len(uploads) :
          uploads[p].phase # "put" /\ ~uploads[p].etag => err # NoCode

\* The goroutines that have not given their slot back.
Live == {p \in 1 .. Len(uploads) : uploads[p].phase # "done"}

SlotsHeld == slots = Cardinality(Live)

\* Nothing moves after the report.
Over == main.step = "done" => submit = "none" /\ (report = "result" => UploadsDone)

Inv ==
    /\ Typed /\ Stages /\ IdlePipeline /\ Submits /\ InOrder /\ Parts /\ Etags
    /\ SlotsHeld /\ BuffersBounded /\ Over /\ ArchiveWhole

-----------------------------------------------------------------------------
(* Sequences and uploads *)

LEMMA AppendFacts ==
    ASSUME NEW S, NEW s \in Seq(S), NEW x \in S
    PROVE  /\ Append(s, x) \in Seq(S)
           /\ Append(s, x) # <<>>
           /\ Len(Append(s, x)) = Len(s) + 1
           /\ Append(s, x)[Len(s) + 1] = x
           /\ \A i \in 1 .. Len(s) : Append(s, x)[i] = s[i]
OBVIOUS

LEMMA TailFacts ==
    ASSUME NEW S, NEW s \in Seq(S), s # <<>>
    PROVE  /\ Head(s) \in S /\ Head(s) = s[1]
           /\ Tail(s) \in Seq(S)
           /\ Len(s) \in Nat \ {0}
           /\ Len(Tail(s)) = Len(s) - 1
           /\ \A i \in 1 .. Len(Tail(s)) : Tail(s)[i] = s[i + 1]
OBVIOUS

LEMMA LengthFacts ==
    ASSUME NEW S, NEW s \in Seq(S)
    PROVE  /\ Len(s) \in Nat /\ DOMAIN s = 1 .. Len(s)
           /\ Len(s) = 0 <=> s = <<>>
           /\ \A i \in 1 .. Len(s) : s[i] \in S
OBVIOUS

\* What Write does with a unit: it refuses it, with an error, or it takes it.
WriteRefused(who) ==
    /\ Return(who, FALSE)
    /\ err' \in Codes /\ cancelled' \in BOOLEAN
    /\ err # NoCode => err' = err
    /\ UNCHANGED <<submit, buffer, pool, slots, uploads, stream>>

WriteTaken(unit, who) ==
    /\ err = NoCode /\ Len(stream) < MaximumUnits
    /\ TakeBuffer
    /\ buffer' = Append(buffer, unit) /\ stream' = Append(stream, unit)
    /\ \/ /\ Len(buffer) + 1 = PartUnits
          /\ submit' = who
          /\ UNCHANGED <<writer, deflateErr, main, failed>>
       \/ /\ Len(buffer) + 1 # PartUnits
          /\ submit' = "none"
          /\ Return(who, TRUE)
    /\ UNCHANGED <<slots, uploads, err, cancelled>>

LEMMA WriteCases ==
    ASSUME Typed, NEW unit \in Units, NEW who, WriteUnit(unit, who)
    PROVE  /\ submit = "none"
           /\ WriteRefused(who) \/ WriteTaken(unit, who)
<1>0. /\ err \in Codes \cup {NoCode} /\ cancelled \in BOOLEAN
      /\ Len(stream) \in Nat /\ MaximumUnits \in Nat
      /\ buffer \in Seq(Units)
  BY TargetIsValid DEF Typed, TypeOK, ValidTarget
<1>1. Len(Append(buffer, unit)) = Len(buffer) + 1
  BY <1>0, AppendFacts
<1>2. submit = "none"
  BY DEF WriteUnit
<1>3. CASE err # NoCode /\ Return(who, FALSE) /\ UNCHANGED uploadVars
  BY <1>0, <1>2, <1>3 DEF WriteRefused, uploadVars
<1>4. CASE /\ err = NoCode /\ Return(who, FALSE)
           /\ Fail("archive_too_large") \/ Fail("invalid_archive")
           /\ UNCHANGED <<submit, buffer, pool, slots, uploads, stream>>
  BY <1>2, <1>4 DEF WriteRefused, Fail, Codes
<1>5. CASE /\ err = NoCode /\ ~TooLarge
           /\ TakeBuffer
           /\ buffer' = Append(buffer, unit)
           /\ stream' = Append(stream, unit)
           /\ IF Len(buffer') = PartUnits
              THEN submit' = who /\ UNCHANGED <<writer, deflateErr, main, failed>>
              ELSE UNCHANGED submit /\ Return(who, TRUE)
           /\ UNCHANGED <<slots, uploads, err, cancelled>>
  <2>1. Len(stream) < MaximumUnits
    BY <1>0, <1>5 DEF TooLarge
  <2>2. Len(buffer') = Len(buffer) + 1
    BY <1>1, <1>5
  <2> QED
    BY <1>2, <1>5, <2>1, <2>2 DEF WriteTaken
<1> QED
  BY <1>2, <1>3, <1>4, <1>5 DEF WriteUnit

LEMMA MainWriteActs ==
    ASSUME Typed, MainWrites
    PROVE  /\ main.step = "writing"
           /\ submit = "none"
           /\ \/ WriteRefused("main")
              \/ WriteTaken(IF main.then = "ended" THEN ArchiveEnd ELSE produced, "main")
           /\ UNCHANGED <<kind, scratch, started, produced, rest, jobs, ordered,
                          working, results, troubles, report>>
<1>1. (IF main.then = "ended" THEN ArchiveEnd ELSE produced) \in Units
  BY TargetIsValid DEF Typed, TypeOK, ValidTarget, Units, Chunks, ArchiveEnd
<1> QED
  BY <1>1, WriteCases DEF MainWrites

LEMMA WriteChunkActs ==
    ASSUME Typed, WriteChunk
    PROVE  /\ writer # 0 /\ writer \in results /\ submit # "writer"
           /\ \/ /\ deflateErr /\ writer' = 0
                 /\ UNCHANGED <<deflateErr, main, failed, uploadVars>>
              \/ /\ ~deflateErr /\ submit = "none"
                 /\ WriteRefused("writer") \/ WriteTaken(writer, "writer")
           /\ UNCHANGED <<kind, scratch, started, produced, rest, jobs, ordered,
                          working, results, troubles, report>>
<1>1. writer \in Units
  BY DEF Typed, TypeOK, Units, ArchiveEnd
<1> QED
  BY <1>1, WriteCases DEF WriteChunk

\* An upload goroutine moves on: its part stays what it is, and so do the
\* other uploads.
PartMoves(p) ==
    /\ uploads' \in Seq(Upload) /\ Len(uploads') = Len(uploads)
    /\ uploads'[p].body = uploads[p].body
    /\ \A q \in 1 .. Len(uploads) : q # p => uploads'[q] = uploads[q]

LEMMA PartChanges ==
    ASSUME uploads \in Seq(Upload), NEW p \in 1 .. Len(uploads), NEW u \in Upload,
           u.body = uploads[p].body,
           uploads' = [uploads EXCEPT ![p] = u]
    PROVE  PartMoves(p) /\ uploads'[p] = u
BY DEF PartMoves

LEMMA UploadActs ==
    ASSUME Typed, NEW p \in DOMAIN uploads
    PROVE  /\ p \in 1 .. Len(uploads)
           /\ PutSucceeds(p) =>
                 /\ PartMoves(p)
                 /\ uploads[p].phase = "put" /\ uploads'[p].phase = "buffer"
                 /\ uploads'[p].etag
           /\ PutRetries(p) =>
                 /\ PartMoves(p)
                 /\ uploads[p].phase = "put" /\ uploads'[p].phase = "put"
                 /\ uploads'[p].etag = uploads[p].etag
           /\ PutFails(p) =>
                 /\ PartMoves(p)
                 /\ uploads[p].phase = "put" /\ uploads'[p].phase = "buffer"
                 /\ err' \in Codes /\ cancelled' = TRUE
                 /\ err # NoCode => err' = err
           /\ GiveBuffer(p, "buffer", "slot") =>
                 /\ PartMoves(p)
                 /\ uploads[p].phase = "buffer" /\ uploads'[p].phase = "slot"
                 /\ uploads'[p].etag = uploads[p].etag
           /\ GiveSlot(p, "slot", "done") =>
                 /\ PartMoves(p)
                 /\ uploads[p].phase = "slot" /\ uploads'[p].phase = "done"
                 /\ uploads'[p].etag = uploads[p].etag
<1>0. /\ uploads \in Seq(Upload) /\ p \in 1 .. Len(uploads)
      /\ uploads[p] \in Upload /\ PartAttempts \in Nat
      /\ err \in Codes \cup {NoCode}
  BY TargetIsValid, LengthFacts DEF Typed, TypeOK, ValidTarget
<1>1. ASSUME PutSucceeds(p)
      PROVE  /\ PartMoves(p)
             /\ uploads[p].phase = "put" /\ uploads'[p].phase = "buffer"
             /\ uploads'[p].etag
  <2> DEFINE u == [uploads[p] EXCEPT !.etag = TRUE, !.phase = "buffer"]
  <2>1. uploads' = [uploads EXCEPT ![p] = u]
    BY <1>0, <1>1 DEF PutSucceeds
  <2>2. u \in Upload /\ u.body = uploads[p].body /\ u.phase = "buffer" /\ u.etag
    BY <1>0 DEF Upload
  <2> QED
    BY <1>0, <1>1, <2>1, <2>2, PartChanges DEF PutSucceeds
<1>2. ASSUME PutRetries(p)
      PROVE  /\ PartMoves(p)
             /\ uploads[p].phase = "put" /\ uploads'[p].phase = "put"
             /\ uploads'[p].etag = uploads[p].etag
  <2> DEFINE u == [uploads[p] EXCEPT !.attempt = uploads[p].attempt + 1]
  <2>1. uploads' = [uploads EXCEPT ![p] = u]
    BY <1>0, <1>2 DEF PutRetries
  <2>2. uploads[p].attempt \in 1 .. PartAttempts
    BY <1>0 DEF Upload
  <2>3. uploads[p].attempt + 1 \in 1 .. PartAttempts
    BY <1>0, <1>2, <2>2 DEF PutRetries
  <2>4. /\ u \in Upload /\ u.body = uploads[p].body
        /\ u.phase = uploads[p].phase /\ u.etag = uploads[p].etag
    BY <1>0, <2>3 DEF Upload
  <2> QED
    BY <1>0, <1>2, <2>1, <2>4, PartChanges DEF PutRetries
<1>3. ASSUME NEW to \in {"put", "buffer", "slot", "done"},
             uploads' = [uploads EXCEPT ![p].phase = to]
      PROVE  /\ PartMoves(p) /\ uploads'[p].phase = to
             /\ uploads'[p].etag = uploads[p].etag
  <2> DEFINE u == [uploads[p] EXCEPT !.phase = to]
  <2>1. uploads' = [uploads EXCEPT ![p] = u]
    BY <1>0, <1>3
  <2>2. /\ u \in Upload /\ u.body = uploads[p].body
        /\ u.phase = to /\ u.etag = uploads[p].etag
    BY <1>0 DEF Upload
  <2> QED
    BY <1>0, <2>1, <2>2, PartChanges
<1>4. ASSUME PutFails(p)
      PROVE  /\ PartMoves(p)
             /\ uploads[p].phase = "put" /\ uploads'[p].phase = "buffer"
             /\ err' \in Codes /\ cancelled' = TRUE
             /\ err # NoCode => err' = err
  BY <1>0, <1>3, <1>4 DEF PutFails, Fail, Codes
<1>5. ASSUME GiveBuffer(p, "buffer", "slot")
      PROVE  /\ PartMoves(p)
             /\ uploads[p].phase = "buffer" /\ uploads'[p].phase = "slot"
             /\ uploads'[p].etag = uploads[p].etag
  BY <1>3, <1>5 DEF GiveBuffer
<1>6. ASSUME GiveSlot(p, "slot", "done")
      PROVE  /\ PartMoves(p)
             /\ uploads[p].phase = "slot" /\ uploads'[p].phase = "done"
             /\ uploads'[p].etag = uploads[p].etag
  BY <1>3, <1>6 DEF GiveSlot
<1> QED
  BY <1>0, <1>1, <1>2, <1>4, <1>5, <1>6

\* A part is handed to a goroutine of its own.
LEMMA PartAdded ==
    ASSUME Typed,
           uploads' = Append(uploads, [body |-> buffer, attempt |-> 1,
                                       etag |-> FALSE, phase |-> "put"])
    PROVE  /\ uploads' \in Seq(Upload)
           /\ Len(uploads') = Len(uploads) + 1
           /\ \A q \in 1 .. Len(uploads) : uploads'[q] = uploads[q]
           /\ uploads'[Len(uploads) + 1].body = buffer
           /\ uploads'[Len(uploads) + 1].phase = "put"
           /\ ~uploads'[Len(uploads) + 1].etag
<1> DEFINE u == [body |-> buffer, attempt |-> 1, etag |-> FALSE, phase |-> "put"]
<1>1. u \in Upload /\ uploads \in Seq(Upload)
  BY TargetIsValid DEF Typed, TypeOK, ValidTarget, Upload
<1>2. u.body = buffer /\ u.phase = "put" /\ ~u.etag
  OBVIOUS
<1> HIDE DEF u
<1> QED
  BY <1>1, <1>2, AppendFacts DEF u

-----------------------------------------------------------------------------
(* One lemma per part of the invariant, one step per action *)

LEMMA StagesKept ==
    ASSUME Inv, Next
    PROVE  Stages'
<1>0. /\ main \in [step : MainSteps, then : MainSteps]
      /\ produced \in Nat /\ MaxChunks \in Nat
      /\ submit \in {"none", "writer", "main", "close"}
      /\ failed \in BOOLEAN /\ started \in BOOLEAN /\ deflateErr \in BOOLEAN
      /\ Typed /\ Stages /\ IdlePipeline /\ Submits /\ Over
  BY TargetIsValid DEF Inv, Typed, TypeOK, ValidTarget, Units, Chunks, ArchiveEnd
<1>1. CASE Refused
  BY <1>0, <1>1 DEF Refused, deflateVars, uploadVars, Step, Stages, Ahead, Submits
<1>2. CASE Accepted
  BY <1>0, <1>2
     DEF Accepted, producerVars, deflateVars, uploadVars, Step, Stages, Ahead, Submits
<1>3. CASE RestoreExport
  BY <1>0, <1>3 DEF RestoreExport, deflateVars, uploadVars, Step, Stages, Ahead, Submits
<1>4. CASE NextEntry
  BY <1>0, <1>4 DEF NextEntry, deflateVars, uploadVars, Step, Stages, Ahead, Submits
<1>5. CASE CommandFails
  BY <1>0, <1>5
     DEF CommandFails, producerVars, deflateVars, uploadVars, Step, Stages, Ahead,
         Submits
<1>6. CASE CommandStarts
  BY <1>0, <1>6
     DEF CommandStarts, producerVars, deflateVars, uploadVars, Step, Stages, Ahead,
         Submits
<1>7. CASE ProduceChunk
  BY <1>0, <1>7 DEF ProduceChunk, deflateVars, uploadVars, Step, Stages, Ahead, Submits
<1>8. CASE ProduceDirect
  BY <1>0, <1>8 DEF ProduceDirect, deflateVars, uploadVars, Stages, Ahead, Submits
<1>9. CASE SourceEnds
  BY <1>0, <1>9
     DEF SourceEnds, producerVars, deflateVars, uploadVars, Step, Stages, Ahead,
         Submits
<1>10. CASE SendOrdered
  BY <1>0, <1>10 DEF SendOrdered, producerVars, uploadVars, Stages, Ahead, Submits
<1>11. CASE SendJob
  BY <1>0, <1>11 DEF SendJob, producerVars, uploadVars, Step, Stages, Ahead, Submits
<1>12. CASE CloseArchive
  BY <1>0, <1>12
     DEF CloseArchive, producerVars, deflateVars, uploadVars, Step, Stages, Ahead,
         Submits
<1>13. CASE Drained
  BY <1>0, <1>13 DEF Drained, producerVars, uploadVars, Step, Stages, Ahead, Submits
<1>14. CASE StartTail
  BY <1>0, <1>14
     DEF StartTail, producerVars, deflateVars, uploadVars, Stages, Ahead, Submits
<1>15. CASE MainWrites
  BY <1>0, <1>15, MainWriteActs
     DEF WriteRefused, WriteTaken, Step, Stages, Ahead, Submits, Return
<1>16. CASE TakeJob
  BY <1>0, <1>16 DEF TakeJob, producerVars, uploadVars, Stages, Ahead, Submits
<1>17. CASE TakeOrdered
  BY <1>0, <1>17 DEF TakeOrdered, producerVars, uploadVars, Stages, Ahead, Submits
<1>18. CASE \E chunk \in working : Compress(chunk)
  BY <1>0, <1>18 DEF Compress, producerVars, uploadVars, Stages, Ahead, Submits
<1>19. CASE WriteChunk
  BY <1>0, <1>19, WriteChunkActs
     DEF WriteRefused, WriteTaken, uploadVars, Step, Stages, Ahead, Submits, Return
<1>20. CASE SubmitCancelled
  BY <1>0, <1>20
     DEF SubmitCancelled, Step, Stages, Ahead, Submits, Return, SubmitReturns
<1>21. CASE SubmitTakesSlot
  BY <1>0, <1>21
     DEF SubmitTakesSlot, Step, Stages, Ahead, Submits, Return, SubmitReturns
<1>22. CASE \E p \in DOMAIN uploads : PutSucceeds(p)
  BY <1>0, <1>22 DEF PutSucceeds, uploadCaller, deflateVars, Stages, Ahead, Submits
<1>23. CASE \E p \in DOMAIN uploads : PutRetries(p)
  BY <1>0, <1>23 DEF PutRetries, uploadCaller, deflateVars, Stages, Ahead, Submits
<1>24. CASE \E p \in DOMAIN uploads : PutFails(p)
  BY <1>0, <1>24 DEF PutFails, uploadCaller, deflateVars, Stages, Ahead, Submits
<1>25. CASE \E p \in DOMAIN uploads : GiveBuffer(p, "buffer", "slot")
  BY <1>0, <1>25 DEF GiveBuffer, uploadCaller, deflateVars, Stages, Ahead, Submits
<1>26. CASE \E p \in DOMAIN uploads : GiveSlot(p, "slot", "done")
  BY <1>0, <1>26 DEF GiveSlot, uploadCaller, deflateVars, Stages, Ahead, Submits
<1>27. CASE Abandon
  BY <1>0, <1>27 DEF Abandon, deflateVars, Step, Stages, Ahead, Submits
<1>28. CASE Abandoned
  BY <1>0, <1>28 DEF Abandoned, deflateVars, uploadVars, Step, Stages, Ahead, Submits
<1>29. CASE CloseUpload
  BY <1>0, <1>29 DEF CloseUpload, deflateVars, Step, Stages, Ahead, Submits
<1>30. CASE Closed
  BY <1>0, <1>30 DEF Closed, deflateVars, uploadVars, Step, Stages, Ahead, Submits
<1>31. CASE Signal
  BY <1>0, <1>31 DEF Signal, deflateVars, Stages, Ahead, Submits
<1> QED
  BY <1>1, <1>2, <1>3, <1>4, <1>5, <1>6, <1>7, <1>8, <1>9, <1>10, <1>11, <1>12, <1>13,
     <1>14, <1>15, <1>16, <1>17, <1>18, <1>19, <1>20, <1>21, <1>22, <1>23, <1>24,
     <1>25, <1>26, <1>27, <1>28, <1>29, <1>30, <1>31
     DEF Next, Produce, Deflate, UploadPart, End, GiveBack

LEMMA IdleKept ==
    ASSUME Inv, Next
    PROVE  IdlePipeline'
<1>0. /\ main \in [step : MainSteps, then : MainSteps]
      /\ produced \in Nat /\ MaxChunks \in Nat
      /\ submit \in {"none", "writer", "main", "close"}
      /\ failed \in BOOLEAN /\ started \in BOOLEAN /\ deflateErr \in BOOLEAN
      /\ Typed /\ Stages /\ IdlePipeline /\ Submits /\ Over
  BY TargetIsValid DEF Inv, Typed, TypeOK, ValidTarget, Units, Chunks, ArchiveEnd
<1>1. CASE Refused
  BY <1>0, <1>1
     DEF Refused, deflateVars, uploadVars, Step, IdlePipeline, Idle, Streaming,
         Stages, Submits
<1>2. CASE Accepted
  BY <1>0, <1>2
     DEF Accepted, producerVars, deflateVars, uploadVars, Step, IdlePipeline, Idle,
         Streaming, Stages, Submits
<1>3. CASE RestoreExport
  BY <1>0, <1>3
     DEF RestoreExport, deflateVars, uploadVars, Step, IdlePipeline, Idle, Streaming,
         Stages, Submits
<1>4. CASE NextEntry
  BY <1>0, <1>4
     DEF NextEntry, deflateVars, uploadVars, Step, IdlePipeline, Idle, Streaming,
         Stages, Submits
<1>5. CASE CommandFails
  BY <1>0, <1>5
     DEF CommandFails, producerVars, deflateVars, uploadVars, Step, IdlePipeline,
         Idle, Streaming, Stages, Submits
<1>6. CASE CommandStarts
  BY <1>0, <1>6
     DEF CommandStarts, producerVars, deflateVars, uploadVars, Step, IdlePipeline,
         Idle, Streaming, Stages, Submits
<1>7. CASE ProduceChunk
  BY <1>0, <1>7
     DEF ProduceChunk, deflateVars, uploadVars, Step, IdlePipeline, Idle, Streaming,
         Stages, Submits
<1>8. CASE ProduceDirect
  BY <1>0, <1>8
     DEF ProduceDirect, deflateVars, uploadVars, IdlePipeline, Idle, Streaming,
         Stages, Submits
<1>9. CASE SourceEnds
  BY <1>0, <1>9
     DEF SourceEnds, producerVars, deflateVars, uploadVars, Step, IdlePipeline, Idle,
         Streaming, Stages, Submits
<1>10. CASE SendOrdered
  BY <1>0, <1>10
     DEF SendOrdered, producerVars, uploadVars, IdlePipeline, Idle, Streaming, Stages,
         Submits
<1>11. CASE SendJob
  BY <1>0, <1>11
     DEF SendJob, producerVars, uploadVars, Step, IdlePipeline, Idle, Streaming,
         Stages, Submits
<1>12. CASE CloseArchive
  BY <1>0, <1>12
     DEF CloseArchive, producerVars, deflateVars, uploadVars, Step, IdlePipeline,
         Idle, Streaming, Stages, Submits
<1>13. CASE Drained
  BY <1>0, <1>13
     DEF Drained, producerVars, uploadVars, Step, IdlePipeline, Idle, Streaming,
         Stages, Submits
<1>14. CASE StartTail
  BY <1>0, <1>14
     DEF StartTail, producerVars, deflateVars, uploadVars, IdlePipeline, Idle,
         Streaming, Stages, Submits
<1>15. CASE MainWrites
  BY <1>0, <1>15, MainWriteActs
     DEF WriteRefused, WriteTaken, Step, IdlePipeline, Idle, Streaming, Stages,
         Submits, Return
<1>16. CASE TakeJob
  BY <1>0, <1>16
     DEF TakeJob, producerVars, uploadVars, IdlePipeline, Idle, Streaming, Stages,
         Submits
<1>17. CASE TakeOrdered
  BY <1>0, <1>17
     DEF TakeOrdered, producerVars, uploadVars, IdlePipeline, Idle, Streaming, Stages,
         Submits
<1>18. CASE \E chunk \in working : Compress(chunk)
  BY <1>0, <1>18
     DEF Compress, producerVars, uploadVars, IdlePipeline, Idle, Streaming, Stages,
         Submits
<1>19. CASE WriteChunk
  BY <1>0, <1>19, WriteChunkActs
     DEF WriteRefused, WriteTaken, uploadVars, Step, IdlePipeline, Idle, Streaming,
         Stages, Submits, Return
<1>20. CASE SubmitCancelled
  BY <1>0, <1>20
     DEF SubmitCancelled, Step, IdlePipeline, Idle, Streaming, Stages, Submits,
         Return, SubmitReturns
<1>21. CASE SubmitTakesSlot
  BY <1>0, <1>21
     DEF SubmitTakesSlot, Step, IdlePipeline, Idle, Streaming, Stages, Submits,
         Return, SubmitReturns
<1>22. CASE \E p \in DOMAIN uploads : PutSucceeds(p)
  BY <1>0, <1>22
     DEF PutSucceeds, uploadCaller, deflateVars, IdlePipeline, Idle, Streaming,
         Stages, Submits
<1>23. CASE \E p \in DOMAIN uploads : PutRetries(p)
  BY <1>0, <1>23
     DEF PutRetries, uploadCaller, deflateVars, IdlePipeline, Idle, Streaming, Stages,
         Submits
<1>24. CASE \E p \in DOMAIN uploads : PutFails(p)
  BY <1>0, <1>24
     DEF PutFails, uploadCaller, deflateVars, IdlePipeline, Idle, Streaming, Stages,
         Submits
<1>25. CASE \E p \in DOMAIN uploads : GiveBuffer(p, "buffer", "slot")
  BY <1>0, <1>25
     DEF GiveBuffer, uploadCaller, deflateVars, IdlePipeline, Idle, Streaming, Stages,
         Submits
<1>26. CASE \E p \in DOMAIN uploads : GiveSlot(p, "slot", "done")
  BY <1>0, <1>26
     DEF GiveSlot, uploadCaller, deflateVars, IdlePipeline, Idle, Streaming, Stages,
         Submits
<1>27. CASE Abandon
  BY <1>0, <1>27
     DEF Abandon, deflateVars, Step, IdlePipeline, Idle, Streaming, Stages, Submits
<1>28. CASE Abandoned
  BY <1>0, <1>28
     DEF Abandoned, deflateVars, uploadVars, Step, IdlePipeline, Idle, Streaming,
         Stages, Submits
<1>29. CASE CloseUpload
  BY <1>0, <1>29
     DEF CloseUpload, deflateVars, Step, IdlePipeline, Idle, Streaming, Stages,
         Submits
<1>30. CASE Closed
  BY <1>0, <1>30
     DEF Closed, deflateVars, uploadVars, Step, IdlePipeline, Idle, Streaming, Stages,
         Submits
<1>31. CASE Signal
  BY <1>0, <1>31 DEF Signal, deflateVars, IdlePipeline, Idle, Streaming, Stages, Submits
<1> QED
  BY <1>1, <1>2, <1>3, <1>4, <1>5, <1>6, <1>7, <1>8, <1>9, <1>10, <1>11, <1>12, <1>13,
     <1>14, <1>15, <1>16, <1>17, <1>18, <1>19, <1>20, <1>21, <1>22, <1>23, <1>24,
     <1>25, <1>26, <1>27, <1>28, <1>29, <1>30, <1>31
     DEF Next, Produce, Deflate, UploadPart, End, GiveBack

LEMMA SubmitsKept ==
    ASSUME Inv, Next
    PROVE  Submits'
<1>0. /\ main \in [step : MainSteps, then : MainSteps]
      /\ submit \in {"none", "writer", "main", "close"}
      /\ buffer \in Seq(Units) /\ stream \in Seq(Units)
      /\ PartUnits \in Nat \ {0} /\ Len(buffer) <= PartUnits
      /\ Len(buffer) \in Nat /\ err \in Codes \cup {NoCode} /\ NoCode \notin Codes
      /\ writer \in {0} \cup Chunks /\ 0 \notin Chunks
      /\ Typed /\ Stages /\ IdlePipeline /\ Submits /\ Over
  BY TargetIsValid, LengthFacts
     DEF Inv, Typed, TypeOK, ValidTarget, Codes, NoCode, Chunks
<1>1. CASE Refused
  BY <1>0, <1>1
     DEF Refused, deflateVars, uploadVars, Step, Submits, Stages, IdlePipeline, Idle,
         Streaming
<1>2. CASE Accepted
  BY <1>0, <1>2
     DEF Accepted, producerVars, deflateVars, uploadVars, Step, Submits, Stages,
         IdlePipeline, Idle, Streaming
<1>3. CASE RestoreExport
  BY <1>0, <1>3
     DEF RestoreExport, deflateVars, uploadVars, Step, Submits, Stages, IdlePipeline,
         Idle, Streaming
<1>4. CASE NextEntry
  BY <1>0, <1>4
     DEF NextEntry, deflateVars, uploadVars, Step, Submits, Stages, IdlePipeline,
         Idle, Streaming
<1>5. CASE CommandFails
  BY <1>0, <1>5
     DEF CommandFails, producerVars, deflateVars, uploadVars, Step, Submits, Stages,
         IdlePipeline, Idle, Streaming
<1>6. CASE CommandStarts
  BY <1>0, <1>6
     DEF CommandStarts, producerVars, deflateVars, uploadVars, Step, Submits, Stages,
         IdlePipeline, Idle, Streaming
<1>7. CASE ProduceChunk
  BY <1>0, <1>7
     DEF ProduceChunk, deflateVars, uploadVars, Step, Submits, Stages, IdlePipeline,
         Idle, Streaming
<1>8. CASE ProduceDirect
  BY <1>0, <1>8
     DEF ProduceDirect, deflateVars, uploadVars, Submits, Stages, IdlePipeline, Idle,
         Streaming
<1>9. CASE SourceEnds
  BY <1>0, <1>9
     DEF SourceEnds, producerVars, deflateVars, uploadVars, Step, Submits, Stages,
         IdlePipeline, Idle, Streaming
<1>10. CASE SendOrdered
  BY <1>0, <1>10
     DEF SendOrdered, producerVars, uploadVars, Submits, Stages, IdlePipeline, Idle,
         Streaming
<1>11. CASE SendJob
  BY <1>0, <1>11
     DEF SendJob, producerVars, uploadVars, Step, Submits, Stages, IdlePipeline, Idle,
         Streaming
<1>12. CASE CloseArchive
  BY <1>0, <1>12
     DEF CloseArchive, producerVars, deflateVars, uploadVars, Step, Submits, Stages,
         IdlePipeline, Idle, Streaming
<1>13. CASE Drained
  BY <1>0, <1>13
     DEF Drained, producerVars, uploadVars, Step, Submits, Stages, IdlePipeline, Idle,
         Streaming
<1>14. CASE StartTail
  BY <1>0, <1>14
     DEF StartTail, producerVars, deflateVars, uploadVars, Submits, Stages,
         IdlePipeline, Idle, Streaming
<1>15. CASE MainWrites
  BY <1>0, <1>15, MainWriteActs, AppendFacts, LengthFacts
     DEF WriteRefused, WriteTaken, Step, Submits, Stages, IdlePipeline, Idle,
         Streaming, Return
<1>16. CASE TakeJob
  BY <1>0, <1>16
     DEF TakeJob, producerVars, uploadVars, Submits, Stages, IdlePipeline, Idle,
         Streaming
<1>17. CASE TakeOrdered
  BY <1>0, <1>17
     DEF TakeOrdered, producerVars, uploadVars, Submits, Stages, IdlePipeline, Idle,
         Streaming
<1>18. CASE \E chunk \in working : Compress(chunk)
  BY <1>0, <1>18
     DEF Compress, producerVars, uploadVars, Submits, Stages, IdlePipeline, Idle,
         Streaming
<1>19. CASE WriteChunk
  BY <1>0, <1>19, WriteChunkActs, AppendFacts, LengthFacts
     DEF WriteRefused, WriteTaken, uploadVars, Step, Submits, Stages, IdlePipeline,
         Idle, Streaming, Return
<1>20. CASE SubmitCancelled
  BY <1>0, <1>20
     DEF SubmitCancelled, Fail, Codes, Step, Submits, Stages, IdlePipeline, Idle,
         Streaming, Return, SubmitReturns
<1>21. CASE SubmitTakesSlot
  BY <1>0, <1>21, LengthFacts
     DEF SubmitTakesSlot, Step, Submits, Stages, IdlePipeline, Idle, Streaming,
         Return, SubmitReturns
<1>22. CASE \E p \in DOMAIN uploads : PutSucceeds(p)
  BY <1>0, <1>22, UploadActs
     DEF PutSucceeds, PartMoves, uploadCaller, deflateVars, Submits, Stages,
         IdlePipeline, Idle, Streaming
<1>23. CASE \E p \in DOMAIN uploads : PutRetries(p)
  BY <1>0, <1>23, UploadActs
     DEF PutRetries, PartMoves, uploadCaller, deflateVars, Submits, Stages,
         IdlePipeline, Idle, Streaming
<1>24. CASE \E p \in DOMAIN uploads : PutFails(p)
  BY <1>0, <1>24, UploadActs
     DEF PutFails, PartMoves, uploadCaller, deflateVars, Submits, Stages,
         IdlePipeline, Idle, Streaming
<1>25. CASE \E p \in DOMAIN uploads : GiveBuffer(p, "buffer", "slot")
  BY <1>0, <1>25, UploadActs
     DEF GiveBuffer, PartMoves, uploadCaller, deflateVars, Submits, Stages,
         IdlePipeline, Idle, Streaming
<1>26. CASE \E p \in DOMAIN uploads : GiveSlot(p, "slot", "done")
  BY <1>0, <1>26, UploadActs
     DEF GiveSlot, PartMoves, uploadCaller, deflateVars, Submits, Stages,
         IdlePipeline, Idle, Streaming
<1>27. CASE Abandon
  BY <1>0, <1>27
     DEF Abandon, deflateVars, Step, Submits, Stages, IdlePipeline, Idle, Streaming
<1>28. CASE Abandoned
  BY <1>0, <1>28
     DEF Abandoned, deflateVars, uploadVars, Step, Submits, Stages, IdlePipeline,
         Idle, Streaming
<1>29. CASE CloseUpload
  BY <1>0, <1>29, LengthFacts
     DEF CloseUpload, Fail, Codes, deflateVars, Step, Submits, Stages, IdlePipeline,
         Idle, Streaming
<1>30. CASE Closed
  BY <1>0, <1>30
     DEF Closed, deflateVars, uploadVars, Step, Submits, Stages, IdlePipeline, Idle,
         Streaming
<1>31. CASE Signal
  BY <1>0, <1>31 DEF Signal, deflateVars, Submits, Stages, IdlePipeline, Idle, Streaming
<1> QED
  BY <1>1, <1>2, <1>3, <1>4, <1>5, <1>6, <1>7, <1>8, <1>9, <1>10, <1>11, <1>12, <1>13,
     <1>14, <1>15, <1>16, <1>17, <1>18, <1>19, <1>20, <1>21, <1>22, <1>23, <1>24,
     <1>25, <1>26, <1>27, <1>28, <1>29, <1>30, <1>31
     DEF Next, Produce, Deflate, UploadPart, End, GiveBack

LEMMA OverKept ==
    ASSUME Inv, Next
    PROVE  Over'
<1>0. /\ main \in [step : MainSteps, then : MainSteps]
      /\ submit \in {"none", "writer", "main", "close"}
      /\ buffer \in Seq(Units) /\ stream \in Seq(Units)
      /\ PartUnits \in Nat \ {0} /\ Len(buffer) <= PartUnits
      /\ Len(buffer) \in Nat /\ err \in Codes \cup {NoCode} /\ NoCode \notin Codes
      /\ writer \in {0} \cup Chunks /\ 0 \notin Chunks
      /\ Typed /\ Stages /\ IdlePipeline /\ Submits /\ Over
      /\ uploads \in Seq(Upload) /\ DOMAIN uploads = 1 .. Len(uploads)
  BY TargetIsValid, LengthFacts
     DEF Inv, Typed, TypeOK, ValidTarget, Codes, NoCode, Chunks
<1>1. CASE Refused
  BY <1>0, <1>1
     DEF Refused, deflateVars, uploadVars, Step, Over, UploadsDone, Submits, Stages,
         IdlePipeline, Idle, Streaming
<1>2. CASE Accepted
  BY <1>0, <1>2
     DEF Accepted, producerVars, deflateVars, uploadVars, Step, Over, UploadsDone,
         Submits, Stages, IdlePipeline, Idle, Streaming
<1>3. CASE RestoreExport
  BY <1>0, <1>3
     DEF RestoreExport, deflateVars, uploadVars, Step, Over, UploadsDone, Submits,
         Stages, IdlePipeline, Idle, Streaming
<1>4. CASE NextEntry
  BY <1>0, <1>4
     DEF NextEntry, deflateVars, uploadVars, Step, Over, UploadsDone, Submits, Stages,
         IdlePipeline, Idle, Streaming
<1>5. CASE CommandFails
  BY <1>0, <1>5
     DEF CommandFails, producerVars, deflateVars, uploadVars, Step, Over, UploadsDone,
         Submits, Stages, IdlePipeline, Idle, Streaming
<1>6. CASE CommandStarts
  BY <1>0, <1>6
     DEF CommandStarts, producerVars, deflateVars, uploadVars, Step, Over,
         UploadsDone, Submits, Stages, IdlePipeline, Idle, Streaming
<1>7. CASE ProduceChunk
  BY <1>0, <1>7
     DEF ProduceChunk, deflateVars, uploadVars, Step, Over, UploadsDone, Submits,
         Stages, IdlePipeline, Idle, Streaming
<1>8. CASE ProduceDirect
  BY <1>0, <1>8
     DEF ProduceDirect, deflateVars, uploadVars, Over, UploadsDone, Submits, Stages,
         IdlePipeline, Idle, Streaming
<1>9. CASE SourceEnds
  BY <1>0, <1>9
     DEF SourceEnds, producerVars, deflateVars, uploadVars, Step, Over, UploadsDone,
         Submits, Stages, IdlePipeline, Idle, Streaming
<1>10. CASE SendOrdered
  BY <1>0, <1>10
     DEF SendOrdered, producerVars, uploadVars, Over, UploadsDone, Submits, Stages,
         IdlePipeline, Idle, Streaming
<1>11. CASE SendJob
  BY <1>0, <1>11
     DEF SendJob, producerVars, uploadVars, Step, Over, UploadsDone, Submits, Stages,
         IdlePipeline, Idle, Streaming
<1>12. CASE CloseArchive
  BY <1>0, <1>12
     DEF CloseArchive, producerVars, deflateVars, uploadVars, Step, Over, UploadsDone,
         Submits, Stages, IdlePipeline, Idle, Streaming
<1>13. CASE Drained
  BY <1>0, <1>13
     DEF Drained, producerVars, uploadVars, Step, Over, UploadsDone, Submits, Stages,
         IdlePipeline, Idle, Streaming
<1>14. CASE StartTail
  BY <1>0, <1>14
     DEF StartTail, producerVars, deflateVars, uploadVars, Over, UploadsDone, Submits,
         Stages, IdlePipeline, Idle, Streaming
<1>15. CASE MainWrites
  BY <1>0, <1>15, MainWriteActs, AppendFacts, LengthFacts
     DEF WriteRefused, WriteTaken, Step, Over, UploadsDone, Submits, Stages,
         IdlePipeline, Idle, Streaming, Return
<1>16. CASE TakeJob
  BY <1>0, <1>16
     DEF TakeJob, producerVars, uploadVars, Over, UploadsDone, Submits, Stages,
         IdlePipeline, Idle, Streaming
<1>17. CASE TakeOrdered
  BY <1>0, <1>17
     DEF TakeOrdered, producerVars, uploadVars, Over, UploadsDone, Submits, Stages,
         IdlePipeline, Idle, Streaming
<1>18. CASE \E chunk \in working : Compress(chunk)
  BY <1>0, <1>18
     DEF Compress, producerVars, uploadVars, Over, UploadsDone, Submits, Stages,
         IdlePipeline, Idle, Streaming
<1>19. CASE WriteChunk
  BY <1>0, <1>19, WriteChunkActs, AppendFacts, LengthFacts
     DEF WriteRefused, WriteTaken, uploadVars, Step, Over, UploadsDone, Submits,
         Stages, IdlePipeline, Idle, Streaming, Return
<1>20. CASE SubmitCancelled
  BY <1>0, <1>20
     DEF SubmitCancelled, Fail, Codes, Step, Over, UploadsDone, Submits, Stages,
         IdlePipeline, Idle, Streaming, Return, SubmitReturns
<1>21. CASE SubmitTakesSlot
  BY <1>0, <1>21, LengthFacts
     DEF SubmitTakesSlot, Step, Over, UploadsDone, Submits, Stages, IdlePipeline,
         Idle, Streaming, Return, SubmitReturns
<1>22. CASE \E p \in DOMAIN uploads : PutSucceeds(p)
  BY <1>0, <1>22, UploadActs
     DEF PutSucceeds, PartMoves, uploadCaller, deflateVars, Over, UploadsDone,
         Submits, Stages, IdlePipeline, Idle, Streaming
<1>23. CASE \E p \in DOMAIN uploads : PutRetries(p)
  BY <1>0, <1>23, UploadActs
     DEF PutRetries, PartMoves, uploadCaller, deflateVars, Over, UploadsDone, Submits,
         Stages, IdlePipeline, Idle, Streaming
<1>24. CASE \E p \in DOMAIN uploads : PutFails(p)
  BY <1>0, <1>24, UploadActs
     DEF PutFails, PartMoves, uploadCaller, deflateVars, Over, UploadsDone, Submits,
         Stages, IdlePipeline, Idle, Streaming
<1>25. CASE \E p \in DOMAIN uploads : GiveBuffer(p, "buffer", "slot")
  BY <1>0, <1>25, UploadActs
     DEF GiveBuffer, PartMoves, uploadCaller, deflateVars, Over, UploadsDone, Submits,
         Stages, IdlePipeline, Idle, Streaming
<1>26. CASE \E p \in DOMAIN uploads : GiveSlot(p, "slot", "done")
  BY <1>0, <1>26, UploadActs
     DEF GiveSlot, PartMoves, uploadCaller, deflateVars, Over, UploadsDone, Submits,
         Stages, IdlePipeline, Idle, Streaming
<1>27. CASE Abandon
  BY <1>0, <1>27
     DEF Abandon, deflateVars, Step, Over, UploadsDone, Submits, Stages, IdlePipeline,
         Idle, Streaming
<1>28. CASE Abandoned
  BY <1>0, <1>28
     DEF Abandoned, deflateVars, uploadVars, Step, Over, UploadsDone, Submits, Stages,
         IdlePipeline, Idle, Streaming
<1>29. CASE CloseUpload
  BY <1>0, <1>29
     DEF CloseUpload, deflateVars, Step, Over, UploadsDone, Submits, Stages,
         IdlePipeline, Idle, Streaming
<1>30. CASE Closed
  BY <1>0, <1>30
     DEF Closed, deflateVars, uploadVars, Step, Over, UploadsDone, Submits, Stages,
         IdlePipeline, Idle, Streaming
<1>31. CASE Signal
  BY <1>0, <1>31
     DEF Signal, deflateVars, Over, UploadsDone, Submits, Stages, IdlePipeline, Idle,
         Streaming
<1> QED
  BY <1>1, <1>2, <1>3, <1>4, <1>5, <1>6, <1>7, <1>8, <1>9, <1>10, <1>11, <1>12, <1>13,
     <1>14, <1>15, <1>16, <1>17, <1>18, <1>19, <1>20, <1>21, <1>22, <1>23, <1>24,
     <1>25, <1>26, <1>27, <1>28, <1>29, <1>30, <1>31
     DEF Next, Produce, Deflate, UploadPart, End, GiveBack

LEMMA EtagsKept ==
    ASSUME Inv, Next
    PROVE  Etags'
<1>0. /\ uploads \in Seq(Upload) /\ DOMAIN uploads = 1 .. Len(uploads) /\ Len(uploads) \in Nat
      /\ err \in Codes \cup {NoCode} /\ NoCode \notin Codes
      /\ deflateErr \in BOOLEAN /\ Typed /\ Etags
  BY LengthFacts DEF Inv, Typed, TypeOK, Codes, NoCode
<1>1. CASE Refused
  BY <1>0, <1>1 DEF Refused, deflateVars, uploadVars, Step, Etags
<1>2. CASE Accepted
  BY <1>0, <1>2 DEF Accepted, producerVars, deflateVars, uploadVars, Step, Etags
<1>3. CASE RestoreExport
  BY <1>0, <1>3 DEF RestoreExport, deflateVars, uploadVars, Step, Etags
<1>4. CASE NextEntry
  BY <1>0, <1>4 DEF NextEntry, deflateVars, uploadVars, Step, Etags
<1>5. CASE CommandFails
  BY <1>0, <1>5 DEF CommandFails, producerVars, deflateVars, uploadVars, Step, Etags
<1>6. CASE CommandStarts
  BY <1>0, <1>6 DEF CommandStarts, producerVars, deflateVars, uploadVars, Step, Etags
<1>7. CASE ProduceChunk
  BY <1>0, <1>7 DEF ProduceChunk, deflateVars, uploadVars, Step, Etags
<1>8. CASE ProduceDirect
  BY <1>0, <1>8 DEF ProduceDirect, deflateVars, uploadVars, Etags
<1>9. CASE SourceEnds
  BY <1>0, <1>9 DEF SourceEnds, producerVars, deflateVars, uploadVars, Step, Etags
<1>10. CASE SendOrdered
  BY <1>0, <1>10 DEF SendOrdered, producerVars, uploadVars, Etags
<1>11. CASE SendJob
  BY <1>0, <1>11 DEF SendJob, producerVars, uploadVars, Step, Etags
<1>12. CASE CloseArchive
  BY <1>0, <1>12 DEF CloseArchive, producerVars, deflateVars, uploadVars, Step, Etags
<1>13. CASE Drained
  BY <1>0, <1>13 DEF Drained, producerVars, uploadVars, Step, Etags
<1>14. CASE StartTail
  BY <1>0, <1>14 DEF StartTail, producerVars, deflateVars, uploadVars, Etags
<1>15. CASE MainWrites
  BY <1>0, <1>15, MainWriteActs, AppendFacts, LengthFacts
     DEF WriteRefused, WriteTaken, Step, Etags, Return
<1>16. CASE TakeJob
  BY <1>0, <1>16 DEF TakeJob, producerVars, uploadVars, Etags
<1>17. CASE TakeOrdered
  BY <1>0, <1>17 DEF TakeOrdered, producerVars, uploadVars, Etags
<1>18. CASE \E chunk \in working : Compress(chunk)
  BY <1>0, <1>18 DEF Compress, producerVars, uploadVars, Etags
<1>19. CASE WriteChunk
  BY <1>0, <1>19, WriteChunkActs, AppendFacts, LengthFacts
     DEF WriteRefused, WriteTaken, uploadVars, Step, Etags, Return
<1>20. CASE SubmitCancelled
  BY <1>0, <1>20 DEF SubmitCancelled, Fail, Codes, Step, Etags, Return, SubmitReturns
<1>21. CASE SubmitTakesSlot
  BY <1>0, <1>21, PartAdded DEF SubmitTakesSlot, Step, Etags, Return, SubmitReturns
<1>22. CASE \E p \in DOMAIN uploads : PutSucceeds(p)
  <2>1. PICK p \in DOMAIN uploads : PutSucceeds(p)
    BY <1>22
  <2>2. /\ PartMoves(p) /\ uploads'[p].etag
        /\ UNCHANGED <<err, deflateErr>>
    BY <1>0, <2>1, UploadActs DEF PutSucceeds, uploadCaller, deflateVars
  <2> QED
    BY <1>0, <2>2 DEF PartMoves, Etags
<1>23. CASE \E p \in DOMAIN uploads : PutRetries(p)
  BY <1>0, <1>23, UploadActs DEF PutRetries, PartMoves, uploadCaller, deflateVars, Etags
<1>24. CASE \E p \in DOMAIN uploads : PutFails(p)
  BY <1>0, <1>24, UploadActs, ZenonT(40) DEF PutFails, PartMoves, uploadCaller, deflateVars, Etags
<1>25. CASE \E p \in DOMAIN uploads : GiveBuffer(p, "buffer", "slot")
  BY <1>0, <1>25, UploadActs DEF GiveBuffer, PartMoves, uploadCaller, deflateVars, Etags
<1>26. CASE \E p \in DOMAIN uploads : GiveSlot(p, "slot", "done")
  BY <1>0, <1>26, UploadActs DEF GiveSlot, PartMoves, uploadCaller, deflateVars, Etags
<1>27. CASE Abandon
  BY <1>0, <1>27 DEF Abandon, deflateVars, Step, Etags
<1>28. CASE Abandoned
  BY <1>0, <1>28 DEF Abandoned, deflateVars, uploadVars, Step, Etags
<1>29. CASE CloseUpload
  BY <1>0, <1>29, LengthFacts DEF CloseUpload, Fail, Codes, deflateVars, Step, Etags
<1>30. CASE Closed
  BY <1>0, <1>30 DEF Closed, deflateVars, uploadVars, Step, Etags
<1>31. CASE Signal
  BY <1>0, <1>31 DEF Signal, deflateVars, Etags
<1> QED
  BY <1>1, <1>2, <1>3, <1>4, <1>5, <1>6, <1>7, <1>8, <1>9, <1>10, <1>11, <1>12, <1>13,
     <1>14, <1>15, <1>16, <1>17, <1>18, <1>19, <1>20, <1>21, <1>22, <1>23, <1>24,
     <1>25, <1>26, <1>27, <1>28, <1>29, <1>30, <1>31
     DEF Next, Produce, Deflate, UploadPart, End, GiveBack

\* The goroutines that hold a part buffer.
Held == {p \in 1 .. Len(uploads) : uploads[p].phase \in {"put", "buffer"}}

LEMMA HeldFacts ==
    ASSUME Typed
    PROVE  /\ IsFiniteSet(Live) /\ Cardinality(Live) \in Nat
           /\ IsFiniteSet(Held) /\ Cardinality(Held) \in Nat
           /\ Held \subseteq Live /\ Cardinality(Held) <= Cardinality(Live)
           /\ DOMAIN uploads = 1 .. Len(uploads)
<1>1. Len(uploads) \in Nat /\ DOMAIN uploads = 1 .. Len(uploads)
  BY LengthFacts DEF Typed, TypeOK
<1>2. IsFiniteSet(1 .. Len(uploads))
  BY <1>1, FS_Interval
<1>3. Live \subseteq 1 .. Len(uploads) /\ Held \subseteq Live
  BY DEF Live, Held
<1>4. IsFiniteSet(Live) /\ IsFiniteSet(Held)
  BY <1>2, <1>3, FS_Subset
<1>5. Cardinality(Held) <= Cardinality(Live)
  BY <1>3, <1>4, FS_Subset
<1> QED
  BY <1>1, <1>3, <1>4, <1>5, FS_CardinalityType

\* What the steps of the upload goroutines do to the two sets.
LEMMA LiveChanges ==
    ASSUME Typed
    PROVE  /\ uploads' = uploads => Live' = Live /\ Held' = Held
           /\ \A p \in DOMAIN uploads :
                 /\ PutSucceeds(p) \/ PutRetries(p) \/ PutFails(p) =>
                       Live' = Live /\ Held' = Held
                 /\ GiveBuffer(p, "buffer", "slot") =>
                       Live' = Live /\ p \in Held /\ Held' = Held \ {p}
                 /\ GiveSlot(p, "slot", "done") =>
                       p \in Live /\ Live' = Live \ {p} /\ Held' = Held
           /\ uploads' = Append(uploads, [body |-> buffer, attempt |-> 1,
                                          etag |-> FALSE, phase |-> "put"]) =>
                 LET p == Len(uploads) + 1
                 IN  /\ p \notin Live /\ Live' = Live \cup {p}
                     /\ p \notin Held /\ Held' = Held \cup {p}
<1>0. Len(uploads) \in Nat /\ DOMAIN uploads = 1 .. Len(uploads)
  BY LengthFacts DEF Typed, TypeOK
<1>1. uploads' = uploads => Live' = Live /\ Held' = Held
  BY DEF Live, Held
<1>2. ASSUME NEW p \in DOMAIN uploads
      PROVE  /\ PutSucceeds(p) \/ PutRetries(p) \/ PutFails(p) =>
                   Live' = Live /\ Held' = Held
             /\ GiveBuffer(p, "buffer", "slot") =>
                   Live' = Live /\ p \in Held /\ Held' = Held \ {p}
             /\ GiveSlot(p, "slot", "done") =>
                   p \in Live /\ Live' = Live \ {p} /\ Held' = Held
  BY <1>0, <1>2, UploadActs, ZenonT(40) DEF PartMoves, Live, Held
<1>3. ASSUME uploads' = Append(uploads, [body |-> buffer, attempt |-> 1,
                                         etag |-> FALSE, phase |-> "put"])
      PROVE  LET p == Len(uploads) + 1
             IN  /\ p \notin Live /\ Live' = Live \cup {p}
                 /\ p \notin Held /\ Held' = Held \cup {p}
  <2>1. /\ Len(uploads') = Len(uploads) + 1
        /\ \A q \in 1 .. Len(uploads) : uploads'[q] = uploads[q]
        /\ uploads'[Len(uploads) + 1].phase = "put"
    BY <1>3, PartAdded
  <2>2. Len(uploads) + 1 \notin Live /\ Len(uploads) + 1 \notin Held
    BY <1>0 DEF Live, Held
  <2>3. Live' = Live \cup {Len(uploads) + 1}
    BY <1>0, <2>1 DEF Live
  <2>4. Held' = Held \cup {Len(uploads) + 1}
    BY <1>0, <2>1 DEF Held
  <2> QED
    BY <2>2, <2>3, <2>4
<1> QED
  BY <1>1, <1>2, <1>3

LEMMA SlotsKept ==
    ASSUME Inv, Next
    PROVE  SlotsHeld'
<1>0. Typed /\ SlotsHeld
  BY DEF Inv
<1>1. CASE Refused
  BY <1>0, <1>1, LiveChanges DEF Refused, deflateVars, uploadVars, Step, SlotsHeld
<1>2. CASE Accepted
  BY <1>0, <1>2, LiveChanges
     DEF Accepted, producerVars, deflateVars, uploadVars, Step, SlotsHeld
<1>3. CASE RestoreExport
  BY <1>0, <1>3, LiveChanges DEF RestoreExport, deflateVars, uploadVars, Step, SlotsHeld
<1>4. CASE NextEntry
  BY <1>0, <1>4, LiveChanges DEF NextEntry, deflateVars, uploadVars, Step, SlotsHeld
<1>5. CASE CommandFails
  BY <1>0, <1>5, LiveChanges
     DEF CommandFails, producerVars, deflateVars, uploadVars, Step, SlotsHeld
<1>6. CASE CommandStarts
  BY <1>0, <1>6, LiveChanges
     DEF CommandStarts, producerVars, deflateVars, uploadVars, Step, SlotsHeld
<1>7. CASE ProduceChunk
  BY <1>0, <1>7, LiveChanges DEF ProduceChunk, deflateVars, uploadVars, Step, SlotsHeld
<1>8. CASE ProduceDirect
  BY <1>0, <1>8, LiveChanges DEF ProduceDirect, deflateVars, uploadVars, SlotsHeld
<1>9. CASE SourceEnds
  BY <1>0, <1>9, LiveChanges
     DEF SourceEnds, producerVars, deflateVars, uploadVars, Step, SlotsHeld
<1>10. CASE SendOrdered
  BY <1>0, <1>10, LiveChanges DEF SendOrdered, producerVars, uploadVars, SlotsHeld
<1>11. CASE SendJob
  BY <1>0, <1>11, LiveChanges DEF SendJob, producerVars, uploadVars, Step, SlotsHeld
<1>12. CASE CloseArchive
  BY <1>0, <1>12, LiveChanges
     DEF CloseArchive, producerVars, deflateVars, uploadVars, Step, SlotsHeld
<1>13. CASE Drained
  BY <1>0, <1>13, LiveChanges DEF Drained, producerVars, uploadVars, Step, SlotsHeld
<1>14. CASE StartTail
  BY <1>0, <1>14, LiveChanges
     DEF StartTail, producerVars, deflateVars, uploadVars, SlotsHeld
<1>15. CASE MainWrites
  BY <1>0, <1>15, MainWriteActs, LiveChanges DEF WriteRefused, WriteTaken, SlotsHeld
<1>16. CASE TakeJob
  BY <1>0, <1>16, LiveChanges DEF TakeJob, producerVars, uploadVars, SlotsHeld
<1>17. CASE TakeOrdered
  BY <1>0, <1>17, LiveChanges DEF TakeOrdered, producerVars, uploadVars, SlotsHeld
<1>18. CASE \E chunk \in working : Compress(chunk)
  BY <1>0, <1>18, LiveChanges DEF Compress, producerVars, uploadVars, SlotsHeld
<1>19. CASE WriteChunk
  BY <1>0, <1>19, WriteChunkActs, LiveChanges
     DEF WriteRefused, WriteTaken, uploadVars, SlotsHeld
<1>20. CASE SubmitCancelled
  BY <1>0, <1>20, LiveChanges DEF SubmitCancelled, SlotsHeld
<1>21. CASE SubmitTakesSlot
  <2>1. CASE UNCHANGED <<slots, uploads>>
    BY <1>0, <2>1, LiveChanges DEF SlotsHeld
  <2>2. CASE /\ slots' = slots + 1
             /\ uploads' = Append(uploads, [body |-> buffer, attempt |-> 1,
                                            etag |-> FALSE, phase |-> "put"])
    <3>1. Len(uploads) + 1 \notin Live /\ Live' = Live \cup {Len(uploads) + 1}
      BY <1>0, <2>2, LiveChanges
    <3> QED
      BY <1>0, <2>2, <3>1, HeldFacts, FS_AddElement DEF SlotsHeld
  <2> QED
    BY <1>21, <2>1, <2>2 DEF SubmitTakesSlot
<1>22. CASE \E p \in DOMAIN uploads : PutSucceeds(p)
  BY <1>0, <1>22, LiveChanges DEF PutSucceeds, uploadCaller, deflateVars, SlotsHeld
<1>23. CASE \E p \in DOMAIN uploads : PutRetries(p)
  BY <1>0, <1>23, LiveChanges DEF PutRetries, uploadCaller, deflateVars, SlotsHeld
<1>24. CASE \E p \in DOMAIN uploads : PutFails(p)
  BY <1>0, <1>24, LiveChanges DEF PutFails, uploadCaller, deflateVars, SlotsHeld
<1>25. CASE \E p \in DOMAIN uploads : GiveBuffer(p, "buffer", "slot")
  BY <1>0, <1>25, LiveChanges DEF GiveBuffer, uploadCaller, deflateVars, SlotsHeld
<1>26. CASE \E p \in DOMAIN uploads : GiveSlot(p, "slot", "done")
  <2>1. PICK p \in DOMAIN uploads : GiveSlot(p, "slot", "done")
    BY <1>26
  <2>2. p \in Live /\ Live' = Live \ {p} /\ slots' = slots - 1
    BY <1>0, <2>1, LiveChanges DEF GiveSlot
  <2> QED
    BY <1>0, <2>2, HeldFacts, FS_RemoveElement DEF SlotsHeld
<1>27. CASE Abandon
  BY <1>0, <1>27, LiveChanges DEF Abandon, deflateVars, Step, SlotsHeld
<1>28. CASE Abandoned
  BY <1>0, <1>28, LiveChanges DEF Abandoned, deflateVars, uploadVars, Step, SlotsHeld
<1>29. CASE CloseUpload
  BY <1>0, <1>29, LiveChanges DEF CloseUpload, deflateVars, Step, SlotsHeld
<1>30. CASE Closed
  BY <1>0, <1>30, LiveChanges DEF Closed, deflateVars, uploadVars, Step, SlotsHeld
<1>31. CASE Signal
  BY <1>0, <1>31, LiveChanges DEF Signal, deflateVars, SlotsHeld
<1> QED
  BY <1>1, <1>2, <1>3, <1>4, <1>5, <1>6, <1>7, <1>8, <1>9, <1>10, <1>11, <1>12, <1>13,
     <1>14, <1>15, <1>16, <1>17, <1>18, <1>19, <1>20, <1>21, <1>22, <1>23, <1>24,
     <1>25, <1>26, <1>27, <1>28, <1>29, <1>30, <1>31
     DEF Next, Produce, Deflate, UploadPart, End, GiveBack

LEMMA BuffersHeld ==
    ASSUME Typed
    PROVE  BuffersBounded <=>
              Count(buffer # <<>>) + pool + Cardinality(Held) <= Concurrency + 1
<1>1. Held = {p \in DOMAIN uploads : uploads[p].phase \in {"put", "buffer"}}
  BY HeldFacts DEF Held
<1> QED
  BY <1>1 DEF BuffersBounded

LEMMA ParameterFacts ==
    /\ MaxChunks \in Nat /\ MaxTroubles \in Nat
    /\ Workers \in Nat \ {0} /\ PartUnits \in Nat \ {0}
    /\ Concurrency \in Nat \ {0} /\ PartAttempts \in Nat \ {0}
    /\ MaximumUnits \in Nat \ {0} /\ PartURLs \in Nat
    /\ PartURLs * PartUnits >= MaximumUnits
    /\ \A x : x \in Chunks <=> x \in Nat /\ 1 <= x /\ x <= MaxChunks + 1
    /\ \A x \in Chunks : x \in Units
    /\ ArchiveEnd \in Units /\ ArchiveEnd \notin Chunks
BY TargetIsValid DEF ValidTarget, Units, Chunks, ArchiveEnd

\* The types in three groups: the producer's variables, the channels and
\* workers of the deflater, and the uploader's.
ProducerTypes ==
    /\ scratch \in {"wanted", "used", "none"} /\ started \in BOOLEAN
    /\ kind \in Kinds /\ failed \in BOOLEAN /\ rest \in BOOLEAN
    /\ main \in [step : MainSteps, then : MainSteps]
    /\ produced \in 0 .. MaxChunks + 1
    /\ troubles \in 0 .. MaxTroubles
    /\ report \in Codes \cup {NoCode, "result"}
    /\ deflateErr \in BOOLEAN

DeflateTypes ==
    /\ jobs \in Seq(Chunks) /\ Len(jobs) <= Workers
    /\ ordered \in Seq(Chunks) /\ Len(ordered) <= 2 * Workers
    /\ working \subseteq Chunks /\ Cardinality(working) <= Workers
    /\ results \subseteq Chunks /\ writer \in {0} \cup Chunks

UploadTypes ==
    /\ submit \in {"none", "writer", "main", "close"}
    /\ buffer \in Seq(Units) /\ Len(buffer) <= PartUnits
    /\ pool \in 0 .. Concurrency + 1
    /\ slots \in 0 .. Concurrency
    /\ uploads \in Seq(Upload) /\ Len(uploads) <= PartURLs
    /\ stream \in Seq(Units) /\ Len(stream) <= MaximumUnits
    /\ err \in Codes \cup {NoCode} /\ cancelled \in BOOLEAN

LEMMA TypesSplit == Typed <=> ProducerTypes /\ DeflateTypes /\ UploadTypes
BY DEF Typed, TypeOK, ProducerTypes, DeflateTypes, UploadTypes

\* Write and submit return to their caller.
LEMMA ReturnTyped ==
    ASSUME ProducerTypes, NEW who, NEW ok \in BOOLEAN, Return(who, ok)
    PROVE  /\ main' \in [step : MainSteps, then : MainSteps]
           /\ failed' \in BOOLEAN /\ deflateErr' \in BOOLEAN
<1>1. /\ main \in [step : MainSteps, then : MainSteps]
      /\ failed \in BOOLEAN /\ deflateErr \in BOOLEAN
  BY DEF ProducerTypes
<1>2. main' \in [step : MainSteps, then : MainSteps]
  BY <1>1 DEF Return, Step, MainSteps
<1>3. failed' \in BOOLEAN /\ deflateErr' \in BOOLEAN
  BY <1>1 DEF Return
<1> QED
  BY <1>2, <1>3

LEMMA ProducerTyped ==
    ASSUME Inv, Next
    PROVE  ProducerTypes'
<1>0. Typed /\ ProducerTypes /\ Stages /\ Submits /\ UploadTypes
  BY TypesSplit DEF Inv
<1>1. CASE Refused
  BY <1>0, <1>1
     DEF Refused, UploadTypes, Codes, deflateVars, uploadVars, Step, ProducerTypes,
         MainSteps
<1>2. CASE Accepted
  BY <1>0, <1>2
     DEF Accepted, producerVars, deflateVars, uploadVars, Step, ProducerTypes,
         MainSteps
<1>3. CASE RestoreExport
  BY <1>0, <1>3
     DEF RestoreExport, Kinds, deflateVars, uploadVars, Step, ProducerTypes, MainSteps
<1>4. CASE NextEntry
  BY <1>0, <1>4
     DEF NextEntry, Kinds, deflateVars, uploadVars, Step, ProducerTypes, MainSteps
<1>5. CASE CommandFails
  BY <1>0, <1>5
     DEF CommandFails, producerVars, deflateVars, uploadVars, Step, ProducerTypes,
         MainSteps
<1>6. CASE CommandStarts
  BY <1>0, <1>6
     DEF CommandStarts, producerVars, deflateVars, uploadVars, Step, ProducerTypes,
         MainSteps
<1>7. CASE ProduceChunk
  <2>0. failed' \in BOOLEAN
    BY <1>0, <1>7 DEF ProduceChunk, ProducerTypes
  <2>1. main' \in [step : MainSteps, then : MainSteps]
    BY <1>7 DEF ProduceChunk, MainSteps, Step
  <2>2. produced' \in 0 .. MaxChunks + 1
    BY <1>0, <1>7, ParameterFacts DEF ProduceChunk, ProducerTypes
  <2> QED
    BY <1>0, <1>7, <2>0, <2>1, <2>2
       DEF ProduceChunk, deflateVars, uploadVars, Step, ProducerTypes
<1>8. CASE ProduceDirect
  BY <1>0, <1>8, ParameterFacts
     DEF ProduceDirect, Stages, Ahead, deflateVars, uploadVars, ProducerTypes,
         MainSteps
<1>9. CASE SourceEnds
  BY <1>0, <1>9
     DEF SourceEnds, producerVars, deflateVars, uploadVars, Step, ProducerTypes,
         MainSteps
<1>10. CASE SendOrdered
  BY <1>0, <1>10 DEF SendOrdered, producerVars, uploadVars, ProducerTypes, MainSteps
<1>11. CASE SendJob
  BY <1>0, <1>11 DEF SendJob, producerVars, uploadVars, Step, ProducerTypes, MainSteps
<1>12. CASE CloseArchive
  BY <1>0, <1>12, ParameterFacts
     DEF CloseArchive, Stages, Ahead, producerVars, deflateVars, uploadVars, Step,
         ProducerTypes, MainSteps
<1>13. CASE Drained
  BY <1>0, <1>13 DEF Drained, producerVars, uploadVars, Step, ProducerTypes, MainSteps
<1>14. CASE StartTail
  BY <1>0, <1>14
     DEF StartTail, producerVars, deflateVars, uploadVars, ProducerTypes, MainSteps
<1>15. CASE MainWrites
  BY <1>0, <1>15, MainWriteActs, ReturnTyped DEF WriteRefused, WriteTaken, ProducerTypes
<1>16. CASE TakeJob
  BY <1>0, <1>16 DEF TakeJob, producerVars, uploadVars, ProducerTypes, MainSteps
<1>17. CASE TakeOrdered
  BY <1>0, <1>17 DEF TakeOrdered, producerVars, uploadVars, ProducerTypes, MainSteps
<1>18. CASE \E chunk \in working : Compress(chunk)
  BY <1>0, <1>18 DEF Compress, producerVars, uploadVars, ProducerTypes, MainSteps
<1>19. CASE WriteChunk
  BY <1>0, <1>19, WriteChunkActs, ReturnTyped
     DEF WriteRefused, WriteTaken, uploadVars, ProducerTypes
<1>20. CASE SubmitCancelled
  BY <1>0, <1>20, ReturnTyped DEF SubmitCancelled, SubmitReturns, ProducerTypes
<1>21. CASE SubmitTakesSlot
  BY <1>0, <1>21, ReturnTyped DEF SubmitTakesSlot, SubmitReturns, ProducerTypes
<1>22. CASE \E p \in DOMAIN uploads : PutSucceeds(p)
  BY <1>0, <1>22 DEF PutSucceeds, uploadCaller, deflateVars, ProducerTypes, MainSteps
<1>23. CASE \E p \in DOMAIN uploads : PutRetries(p)
  BY <1>0, <1>23, ParameterFacts
     DEF PutRetries, uploadCaller, deflateVars, ProducerTypes, MainSteps
<1>24. CASE \E p \in DOMAIN uploads : PutFails(p)
  BY <1>0, <1>24, ParameterFacts
     DEF PutFails, uploadCaller, deflateVars, ProducerTypes, MainSteps
<1>25. CASE \E p \in DOMAIN uploads : GiveBuffer(p, "buffer", "slot")
  BY <1>0, <1>25 DEF GiveBuffer, uploadCaller, deflateVars, ProducerTypes, MainSteps
<1>26. CASE \E p \in DOMAIN uploads : GiveSlot(p, "slot", "done")
  BY <1>0, <1>26 DEF GiveSlot, uploadCaller, deflateVars, ProducerTypes, MainSteps
<1>27. CASE Abandon
  BY <1>0, <1>27 DEF Abandon, deflateVars, Step, ProducerTypes, MainSteps
<1>28. CASE Abandoned
  BY <1>0, <1>28
     DEF Abandoned, UploadTypes, Codes, deflateVars, uploadVars, Step, ProducerTypes,
         MainSteps
<1>29. CASE CloseUpload
  BY <1>0, <1>29 DEF CloseUpload, deflateVars, Step, ProducerTypes, MainSteps
<1>30. CASE Closed
  BY <1>0, <1>30
     DEF Closed, UploadTypes, Codes, deflateVars, uploadVars, Step, ProducerTypes,
         MainSteps
<1>31. CASE Signal
  BY <1>0, <1>31, ParameterFacts DEF Signal, deflateVars, ProducerTypes, MainSteps
<1> QED
  BY <1>1, <1>2, <1>3, <1>4, <1>5, <1>6, <1>7, <1>8, <1>9, <1>10, <1>11, <1>12, <1>13,
     <1>14, <1>15, <1>16, <1>17, <1>18, <1>19, <1>20, <1>21, <1>22, <1>23, <1>24,
     <1>25, <1>26, <1>27, <1>28, <1>29, <1>30, <1>31
     DEF Next, Produce, Deflate, UploadPart, End, GiveBack

LEMMA WorkingFinite ==
    ASSUME Typed
    PROVE  IsFiniteSet(working) /\ Cardinality(working) \in Nat
<1>1. IsFiniteSet(Chunks)
  BY ParameterFacts, FS_Interval DEF Chunks
<1> QED
  BY <1>1, FS_Subset, FS_CardinalityType DEF Typed, TypeOK

LEMMA DeflateTyped ==
    ASSUME Inv, Next
    PROVE  DeflateTypes'
<1>0. Typed /\ ProducerTypes /\ DeflateTypes /\ Stages /\ Submits
  BY TypesSplit DEF Inv
<1>0a. main.step \in {"ordered", "jobs"} => produced \in Chunks
  BY <1>0, ParameterFacts DEF Stages, ProducerTypes
<1>1. CASE Refused
  BY <1>0, <1>1 DEF Refused, deflateVars, uploadVars, Step, DeflateTypes
<1>2. CASE Accepted
  BY <1>0, <1>2 DEF Accepted, producerVars, deflateVars, uploadVars, Step, DeflateTypes
<1>3. CASE RestoreExport
  BY <1>0, <1>3 DEF RestoreExport, deflateVars, uploadVars, Step, DeflateTypes
<1>4. CASE NextEntry
  BY <1>0, <1>4 DEF NextEntry, deflateVars, uploadVars, Step, DeflateTypes
<1>5. CASE CommandFails
  BY <1>0, <1>5
     DEF CommandFails, producerVars, deflateVars, uploadVars, Step, DeflateTypes
<1>6. CASE CommandStarts
  BY <1>0, <1>6
     DEF CommandStarts, producerVars, deflateVars, uploadVars, Step, DeflateTypes
<1>7. CASE ProduceChunk
  BY <1>0, <1>7 DEF ProduceChunk, deflateVars, uploadVars, Step, DeflateTypes
<1>8. CASE ProduceDirect
  BY <1>0, <1>8 DEF ProduceDirect, deflateVars, uploadVars, DeflateTypes
<1>9. CASE SourceEnds
  BY <1>0, <1>9
     DEF SourceEnds, producerVars, deflateVars, uploadVars, Step, DeflateTypes
<1>10. CASE SendOrdered
  BY <1>0, <1>0a, <1>10, ParameterFacts, AppendFacts, LengthFacts, SMTT(30)
     DEF SendOrdered, ProducerTypes, Stages, producerVars, uploadVars, DeflateTypes
<1>11. CASE SendJob
  BY <1>0, <1>0a, <1>11, ParameterFacts, AppendFacts, LengthFacts
     DEF SendJob, ProducerTypes, Stages, producerVars, uploadVars, Step, DeflateTypes
<1>12. CASE CloseArchive
  BY <1>0, <1>12
     DEF CloseArchive, producerVars, deflateVars, uploadVars, Step, DeflateTypes
<1>13. CASE Drained
  BY <1>0, <1>13 DEF Drained, producerVars, uploadVars, Step, DeflateTypes
<1>14. CASE StartTail
  BY <1>0, <1>14 DEF StartTail, producerVars, deflateVars, uploadVars, DeflateTypes
<1>15. CASE MainWrites
  BY <1>0, <1>15, MainWriteActs DEF WriteRefused, WriteTaken, Step, DeflateTypes, Return
<1>16. CASE TakeJob
  <2>1. /\ Head(jobs) \in Chunks /\ Tail(jobs) \in Seq(Chunks)
        /\ Len(Tail(jobs)) = Len(jobs) - 1 /\ Len(jobs) \in Nat
    BY <1>0, <1>16, TailFacts DEF TakeJob, DeflateTypes
  <2>2. IsFiniteSet(working) /\ Cardinality(working) \in Nat
    BY <1>0, WorkingFinite
  <2>3. Cardinality(working) + 1 <= Workers
    BY <1>16, <2>2, ParameterFacts DEF TakeJob
  <2>4. Cardinality(working') \in Nat /\ Cardinality(working') <= Cardinality(working) + 1
    <3>1. CASE Head(jobs) \in working
      <4>1. working' = working
        BY <1>16, <3>1 DEF TakeJob
      <4> QED
        BY <2>2, <4>1
    <3>2. CASE Head(jobs) \notin working
      <4>1. Cardinality(working \cup {Head(jobs)}) = Cardinality(working) + 1
        BY <2>2, <3>2, FS_AddElement
      <4> QED
        BY <1>16, <2>2, <4>1 DEF TakeJob
    <3> QED
      BY <3>1, <3>2
  <2>5. Cardinality(working') <= Workers
    BY <2>2, <2>3, <2>4, ParameterFacts
  <2>6. working' \subseteq Chunks /\ jobs' \in Seq(Chunks) /\ Len(jobs') <= Workers
    BY <1>0, <1>16, <2>1, ParameterFacts DEF TakeJob, DeflateTypes
  <2> QED
    BY <1>0, <1>16, <2>5, <2>6 DEF TakeJob, DeflateTypes, producerVars, uploadVars
<1>17. CASE TakeOrdered
  BY <1>0, <1>17, ParameterFacts, TailFacts
     DEF TakeOrdered, producerVars, uploadVars, DeflateTypes
<1>18. CASE \E chunk \in working : Compress(chunk)
  <2>1. PICK chunk \in working : Compress(chunk)
    BY <1>18
  <2>2. IsFiniteSet(working) /\ Cardinality(working) \in Nat
    BY <1>0, WorkingFinite
  <2>3. Cardinality(working \ {chunk}) = Cardinality(working) - 1
    BY <2>1, <2>2, FS_RemoveElement
  <2> QED
    BY <1>0, <2>1, <2>2, <2>3, ParameterFacts
       DEF Compress, producerVars, uploadVars, DeflateTypes
<1>19. CASE WriteChunk
  BY <1>0, <1>19, WriteChunkActs
     DEF WriteRefused, WriteTaken, uploadVars, Step, DeflateTypes, Return
<1>20. CASE SubmitCancelled
  BY <1>0, <1>20 DEF SubmitCancelled, Step, DeflateTypes, Return, SubmitReturns
<1>21. CASE SubmitTakesSlot
  BY <1>0, <1>21 DEF SubmitTakesSlot, Step, DeflateTypes, Return, SubmitReturns
<1>22. CASE \E p \in DOMAIN uploads : PutSucceeds(p)
  BY <1>0, <1>22 DEF PutSucceeds, uploadCaller, deflateVars, DeflateTypes
<1>23. CASE \E p \in DOMAIN uploads : PutRetries(p)
  BY <1>0, <1>23 DEF PutRetries, uploadCaller, deflateVars, DeflateTypes
<1>24. CASE \E p \in DOMAIN uploads : PutFails(p)
  BY <1>0, <1>24 DEF PutFails, uploadCaller, deflateVars, DeflateTypes
<1>25. CASE \E p \in DOMAIN uploads : GiveBuffer(p, "buffer", "slot")
  BY <1>0, <1>25 DEF GiveBuffer, uploadCaller, deflateVars, DeflateTypes
<1>26. CASE \E p \in DOMAIN uploads : GiveSlot(p, "slot", "done")
  BY <1>0, <1>26 DEF GiveSlot, uploadCaller, deflateVars, DeflateTypes
<1>27. CASE Abandon
  BY <1>0, <1>27 DEF Abandon, deflateVars, Step, DeflateTypes
<1>28. CASE Abandoned
  BY <1>0, <1>28 DEF Abandoned, deflateVars, uploadVars, Step, DeflateTypes
<1>29. CASE CloseUpload
  BY <1>0, <1>29 DEF CloseUpload, deflateVars, Step, DeflateTypes
<1>30. CASE Closed
  BY <1>0, <1>30 DEF Closed, deflateVars, uploadVars, Step, DeflateTypes
<1>31. CASE Signal
  BY <1>0, <1>31 DEF Signal, deflateVars, DeflateTypes
<1> QED
  BY <1>1, <1>2, <1>3, <1>4, <1>5, <1>6, <1>7, <1>8, <1>9, <1>10, <1>11, <1>12, <1>13,
     <1>14, <1>15, <1>16, <1>17, <1>18, <1>19, <1>20, <1>21, <1>22, <1>23, <1>24,
     <1>25, <1>26, <1>27, <1>28, <1>29, <1>30, <1>31
     DEF Next, Produce, Deflate, UploadPart, End, GiveBack

LEMMA Multiples ==
    ASSUME NEW K \in Nat \ {0}, NEW a \in Nat
    PROVE  /\ a * K \in Nat
           /\ (a + 1) * K = a * K + K
           /\ a > 0 => (a - 1) * K + K = a * K /\ (a - 1) * K \in Nat
           /\ \A b \in Nat : a * K < b * K => a < b
           /\ \A b \in Nat : a < b => a * K + K <= b * K
<1>1. a * K \in Nat /\ (a + 1) * K = a * K + K
  OBVIOUS
<1>2. a > 0 => (a - 1) * K + K = a * K /\ (a - 1) * K \in Nat
  OBVIOUS
<1>3. ASSUME NEW b \in Nat, b <= a PROVE b * K <= a * K
  <2>1. PICK d \in Nat : a = b + d
    <3>1. a - b \in Nat /\ a = b + (a - b)
      BY <1>3
    <3> QED
      BY <3>1
  <2>2. a * K = b * K + d * K /\ d * K \in Nat /\ b * K \in Nat
    BY <2>1
  <2> QED
    BY <2>2
<1>4. ASSUME NEW b \in Nat, a < b PROVE a * K + K <= b * K
  <2>1. PICK d \in Nat : b = a + 1 + d
    <3>1. b - a - 1 \in Nat /\ b = a + 1 + (b - a - 1)
      BY <1>4
    <3> QED
      BY <3>1
  <2>2. b * K = a * K + K + d * K /\ d * K \in Nat
    BY <2>1
  <2> QED
    BY <1>1, <2>2
<1>5. ASSUME NEW b \in Nat, a * K < b * K PROVE a < b
  <2>1. b * K \in Nat
    OBVIOUS
  <2> QED
    BY <1>1, <1>3, <1>5, <2>1
<1> QED
  BY <1>1, <1>2, <1>4, <1>5

\* As long as no short part was submitted, the stream is so many full parts
\* and what the buffer holds.
LEMMA FullParts ==
    ASSUME Typed, Parts, buffer # <<>> \/ main.step \notin {"wait", "done"}
    PROVE  Len(stream) = Len(uploads) * PartUnits + Len(buffer)
<1>1. /\ Len(uploads) \in Nat /\ (Len(uploads) = 0 <=> uploads = <<>>)
      /\ Len(buffer) \in Nat /\ PartUnits \in Nat \ {0}
  BY LengthFacts, ParameterFacts DEF Typed, TypeOK
<1>2. CASE uploads = <<>>
  BY <1>1, <1>2 DEF Parts
<1>3. CASE uploads # <<>>
  <2>1. Len(uploads) \in 1 .. Len(uploads)
    BY <1>1, <1>3
  <2>2. Len(uploads[Len(uploads)].body) = PartUnits
    BY <2>1 DEF Parts
  <2>3. Len(stream) = (Len(uploads) - 1) * PartUnits + PartUnits + Len(buffer)
    BY <1>3, <2>2 DEF Parts
  <2> QED
    BY <1>1, <2>1, <2>3, Multiples
<1> QED
  BY <1>2, <1>3

\* There is a URL for every part that is submitted.
LEMMA URLLeft ==
    ASSUME Typed, Parts, Submits, submit # "none"
    PROVE  Len(uploads) < PartURLs
<1>1. /\ Len(uploads) \in Nat /\ Len(buffer) \in Nat /\ Len(stream) \in Nat
      /\ (Len(buffer) = 0 <=> buffer = <<>>)
      /\ Len(stream) <= MaximumUnits
      /\ submit \in {"none", "writer", "main", "close"}
  BY LengthFacts DEF Typed, TypeOK
<1>2. buffer # <<>>
  BY <1>1, ParameterFacts DEF Submits
<1>3. Len(uploads) * PartUnits + Len(buffer) <= MaximumUnits
  BY <1>1, <1>2, FullParts
<1>4. Len(uploads) * PartUnits \in Nat /\ PartURLs * PartUnits \in Nat
  BY <1>1, ParameterFacts, Multiples
<1>5. Len(uploads) * PartUnits < PartURLs * PartUnits
  BY <1>1, <1>2, <1>3, <1>4, ParameterFacts
<1> QED
  BY <1>1, <1>5, ParameterFacts, Multiples

LEMMA WriteTyped ==
    ASSUME Typed, Submits, submit = "none", NEW unit \in Units,
           NEW who \in {"writer", "main"},
           WriteRefused(who) \/ WriteTaken(unit, who)
    PROVE  UploadTypes'
<1>0. /\ UploadTypes
      /\ Len(buffer) \in Nat /\ Len(stream) \in Nat
  BY TypesSplit, LengthFacts DEF UploadTypes
<1>1. CASE WriteRefused(who)
  BY <1>0, <1>1 DEF WriteRefused, UploadTypes
<1>2. CASE WriteTaken(unit, who)
  <2>1. /\ buffer' \in Seq(Units) /\ Len(buffer') = Len(buffer) + 1
        /\ stream' \in Seq(Units) /\ Len(stream') = Len(stream) + 1
    BY <1>0, <1>2, AppendFacts DEF WriteTaken, UploadTypes
  <2>2. Len(buffer) < PartUnits /\ Len(stream) < MaximumUnits
    BY <1>2 DEF WriteTaken, Submits
  <2>3. pool' \in 0 .. Concurrency + 1
    BY <1>0, <1>2, ParameterFacts DEF WriteTaken, TakeBuffer, UploadTypes
  <2>4. Len(buffer') <= PartUnits /\ Len(stream') <= MaximumUnits
    BY <1>0, <2>1, <2>2, ParameterFacts
  <2>5. submit' \in {"none", "writer", "main", "close"}
    BY <1>2 DEF WriteTaken
  <2> QED
    BY <1>0, <1>2, <2>1, <2>3, <2>4, <2>5 DEF WriteTaken, UploadTypes
<1> QED
  BY <1>1, <1>2

LEMMA UploadTyped ==
    ASSUME Inv, Next
    PROVE  UploadTypes'
<1>0. Typed /\ UploadTypes /\ Submits /\ SlotsHeld /\ Parts
  BY TypesSplit DEF Inv
<1>0a. /\ Len(uploads) \in Nat /\ writer \in Units
       /\ (IF main.then = "ended" THEN ArchiveEnd ELSE produced) \in Units
  BY LengthFacts, ParameterFacts DEF Inv, Typed, TypeOK, Units, ArchiveEnd, Chunks
<1>1. CASE Refused
  BY <1>0, <1>1 DEF Refused, deflateVars, uploadVars, Step, UploadTypes
<1>2. CASE Accepted
  BY <1>0, <1>2 DEF Accepted, producerVars, deflateVars, uploadVars, Step, UploadTypes
<1>3. CASE RestoreExport
  BY <1>0, <1>3 DEF RestoreExport, deflateVars, uploadVars, Step, UploadTypes
<1>4. CASE NextEntry
  BY <1>0, <1>4 DEF NextEntry, deflateVars, uploadVars, Step, UploadTypes
<1>5. CASE CommandFails
  BY <1>0, <1>5
     DEF CommandFails, producerVars, deflateVars, uploadVars, Step, UploadTypes
<1>6. CASE CommandStarts
  BY <1>0, <1>6
     DEF CommandStarts, producerVars, deflateVars, uploadVars, Step, UploadTypes
<1>7. CASE ProduceChunk
  BY <1>0, <1>7 DEF ProduceChunk, deflateVars, uploadVars, Step, UploadTypes
<1>8. CASE ProduceDirect
  BY <1>0, <1>8 DEF ProduceDirect, deflateVars, uploadVars, UploadTypes
<1>9. CASE SourceEnds
  BY <1>0, <1>9 DEF SourceEnds, producerVars, deflateVars, uploadVars, Step, UploadTypes
<1>10. CASE SendOrdered
  BY <1>0, <1>10 DEF SendOrdered, producerVars, uploadVars, UploadTypes
<1>11. CASE SendJob
  BY <1>0, <1>11 DEF SendJob, producerVars, uploadVars, Step, UploadTypes
<1>12. CASE CloseArchive
  BY <1>0, <1>12
     DEF CloseArchive, producerVars, deflateVars, uploadVars, Step, UploadTypes
<1>13. CASE Drained
  BY <1>0, <1>13 DEF Drained, producerVars, uploadVars, Step, UploadTypes
<1>14. CASE StartTail
  BY <1>0, <1>14 DEF StartTail, producerVars, deflateVars, uploadVars, UploadTypes
<1>15. CASE MainWrites
  BY <1>0, <1>15, <1>0a, MainWriteActs, WriteTyped DEF UploadTypes
<1>16. CASE TakeJob
  BY <1>0, <1>16 DEF TakeJob, producerVars, uploadVars, UploadTypes
<1>17. CASE TakeOrdered
  BY <1>0, <1>17 DEF TakeOrdered, producerVars, uploadVars, UploadTypes
<1>18. CASE \E chunk \in working : Compress(chunk)
  BY <1>0, <1>18 DEF Compress, producerVars, uploadVars, UploadTypes
<1>19. CASE WriteChunk
  BY <1>0, <1>19, <1>0a, WriteChunkActs, WriteTyped DEF uploadVars, UploadTypes
<1>20. CASE SubmitCancelled
  BY <1>0, <1>20 DEF SubmitCancelled, Fail, Codes, UploadTypes
<1>21. CASE SubmitTakesSlot
  <2>1. CASE UNCHANGED <<slots, uploads, buffer>>
    BY <1>0, <1>21, <2>1 DEF SubmitTakesSlot, UploadTypes
  <2>2. CASE /\ slots' = slots + 1
             /\ uploads' = Append(uploads, [body |-> buffer, attempt |-> 1,
                                            etag |-> FALSE, phase |-> "put"])
             /\ buffer' = <<>>
    <3>1. uploads' \in Seq(Upload) /\ Len(uploads') <= PartURLs
      BY <1>0, <1>0a, <1>21, <2>2, PartAdded, URLLeft, ParameterFacts
         DEF SubmitTakesSlot
    <3>2. slots' \in 0 .. Concurrency
      BY <1>0, <1>21, <2>2, ParameterFacts DEF SubmitTakesSlot, UploadTypes
    <3>3. buffer' \in Seq(Units) /\ Len(buffer') <= PartUnits
      BY <2>2, ParameterFacts
    <3> QED
      BY <1>0, <1>21, <3>1, <3>2, <3>3 DEF SubmitTakesSlot, UploadTypes
  <2> QED
    BY <1>21, <2>1, <2>2 DEF SubmitTakesSlot
<1>22. CASE \E p \in DOMAIN uploads : PutSucceeds(p)
  BY <1>0, <1>22, UploadActs, ParameterFacts, ZenonT(40)
     DEF PartMoves, PutSucceeds, uploadCaller, deflateVars, UploadTypes
<1>23. CASE \E p \in DOMAIN uploads : PutRetries(p)
  BY <1>0, <1>23, UploadActs, ParameterFacts, ZenonT(40)
     DEF PartMoves, PutRetries, uploadCaller, deflateVars, UploadTypes
<1>24. CASE \E p \in DOMAIN uploads : PutFails(p)
  BY <1>0, <1>24, UploadActs, ParameterFacts, ZenonT(40)
     DEF PartMoves, PutFails, uploadCaller, deflateVars, UploadTypes
<1>25. CASE \E p \in DOMAIN uploads : GiveBuffer(p, "buffer", "slot")
  <2>1. PICK p \in DOMAIN uploads : GiveBuffer(p, "buffer", "slot")
    BY <1>25
  <2>2. uploads' \in Seq(Upload) /\ Len(uploads') = Len(uploads)
    BY <1>0, <2>1, UploadActs DEF PartMoves
  <2>3. pool' \in 0 .. Concurrency + 1
    BY <1>0, <2>1, ParameterFacts, SMTT(30) DEF GiveBuffer, UploadTypes
  <2> QED
    BY <1>0, <2>1, <2>2, <2>3 DEF GiveBuffer, uploadCaller, UploadTypes
<1>26. CASE \E p \in DOMAIN uploads : GiveSlot(p, "slot", "done")
  <2>1. PICK p \in DOMAIN uploads : GiveSlot(p, "slot", "done")
    BY <1>26
  <2>2. Live # {}
    BY <1>0, <2>1, LiveChanges
  <2>3. slots > 0
    BY <1>0, <2>2, HeldFacts, FS_EmptySet DEF SlotsHeld
  <2> QED
    <3>1. uploads' \in Seq(Upload) /\ Len(uploads') = Len(uploads)
      BY <1>0, <2>1, UploadActs DEF PartMoves
    <3>2. slots' \in 0 .. Concurrency
      BY <1>0, <2>1, <2>3, ParameterFacts, SMTT(30) DEF GiveSlot, UploadTypes
    <3> QED
      BY <1>0, <2>1, <3>1, <3>2 DEF GiveSlot, uploadCaller, UploadTypes
<1>27. CASE Abandon
  BY <1>0, <1>27 DEF Abandon, deflateVars, Step, UploadTypes
<1>28. CASE Abandoned
  BY <1>0, <1>28 DEF Abandoned, deflateVars, uploadVars, Step, UploadTypes
<1>29. CASE CloseUpload
  BY <1>0, <1>29 DEF CloseUpload, Fail, Codes, deflateVars, Step, UploadTypes
<1>30. CASE Closed
  BY <1>0, <1>30 DEF Closed, deflateVars, uploadVars, Step, UploadTypes
<1>31. CASE Signal
  BY <1>0, <1>31 DEF Signal, deflateVars, UploadTypes
<1> QED
  BY <1>1, <1>2, <1>3, <1>4, <1>5, <1>6, <1>7, <1>8, <1>9, <1>10, <1>11, <1>12, <1>13,
     <1>14, <1>15, <1>16, <1>17, <1>18, <1>19, <1>20, <1>21, <1>22, <1>23, <1>24,
     <1>25, <1>26, <1>27, <1>28, <1>29, <1>30, <1>31
     DEF Next, Produce, Deflate, UploadPart, End, GiveBack

LEMMA TypedKept ==
    ASSUME Inv, Next
    PROVE  Typed'
<1>1. ProducerTypes' /\ DeflateTypes' /\ UploadTypes'
  BY ProducerTyped, DeflateTyped, UploadTyped
<1> QED
  BY <1>1 DEF Typed, TypeOK, ProducerTypes, DeflateTypes, UploadTypes

-----------------------------------------------------------------------------
(* The bound on the buffers *)

BuffersCounted == Count(buffer # <<>>) + pool + Cardinality(Held) <= Concurrency + 1

\* A buffer that is taken comes from the pool, or is a new one while no more
\* than Concurrency are held.
LEMMA WriteBuffers ==
    ASSUME Typed, SlotsHeld, BuffersCounted, NEW unit \in Units, NEW who,
           WriteRefused(who) \/ WriteTaken(unit, who)
    PROVE  BuffersCounted'
<1>0. /\ pool \in Nat /\ slots \in Nat /\ slots <= Concurrency
      /\ Concurrency \in Nat /\ buffer \in Seq(Units)
  BY ParameterFacts DEF Typed, TypeOK
<1>1. Cardinality(Held) \in Nat /\ Cardinality(Held) <= slots
  BY HeldFacts DEF SlotsHeld
<1>2. Held' = Held
  BY LiveChanges DEF WriteRefused, WriteTaken
<1>3. CASE WriteRefused(who)
  BY <1>2, <1>3 DEF WriteRefused, BuffersCounted
<1>4. CASE WriteTaken(unit, who)
  <2>1. buffer' # <<>>
    BY <1>0, <1>4, AppendFacts DEF WriteTaken
  <2>2. Count(buffer' # <<>>) = 1
    BY <2>1 DEF Count
  <2>3. CASE buffer = <<>> /\ pool > 0
    <3>1. pool' = pool - 1 /\ Count(buffer # <<>>) = 0
      BY <1>4, <2>3 DEF WriteTaken, TakeBuffer, Count
    <3> QED
      BY <1>0, <1>1, <1>2, <2>2, <3>1 DEF BuffersCounted
  <2>4. CASE buffer = <<>> /\ ~(pool > 0)
    <3>1. pool' = 0
      BY <1>0, <1>4, <2>4 DEF WriteTaken, TakeBuffer
    <3> QED
      BY <1>0, <1>1, <1>2, <2>2, <3>1 DEF BuffersCounted
  <2>5. CASE buffer # <<>>
    <3>1. pool' = pool /\ Count(buffer # <<>>) = 1
      BY <1>4, <2>5 DEF WriteTaken, TakeBuffer, Count
    <3> QED
      BY <1>0, <1>1, <1>2, <2>2, <3>1 DEF BuffersCounted
  <2> QED
    BY <2>3, <2>4, <2>5
<1> QED
  BY <1>3, <1>4

LEMMA CountKept ==
    ASSUME Inv, Next
    PROVE  BuffersCounted'
<1>0. Typed /\ SlotsHeld /\ BuffersCounted
      /\ pool \in Nat /\ Concurrency \in Nat /\ Cardinality(Held) \in Nat
      /\ IsFiniteSet(Held)
  BY BuffersHeld, HeldFacts, ParameterFacts, SMTT(30) DEF Inv, BuffersCounted, Typed, TypeOK
<1>0a. /\ writer \in Units
       /\ (IF main.then = "ended" THEN ArchiveEnd ELSE produced) \in Units
  BY ParameterFacts DEF Inv, Typed, TypeOK, Units, ArchiveEnd, Chunks
<1>1. CASE Refused
  BY <1>0, <1>1, LiveChanges DEF Refused, deflateVars, uploadVars, Step, BuffersCounted
<1>2. CASE Accepted
  BY <1>0, <1>2, LiveChanges
     DEF Accepted, producerVars, deflateVars, uploadVars, Step, BuffersCounted
<1>3. CASE RestoreExport
  BY <1>0, <1>3, LiveChanges
     DEF RestoreExport, deflateVars, uploadVars, Step, BuffersCounted
<1>4. CASE NextEntry
  BY <1>0, <1>4, LiveChanges
     DEF NextEntry, deflateVars, uploadVars, Step, BuffersCounted
<1>5. CASE CommandFails
  BY <1>0, <1>5, LiveChanges
     DEF CommandFails, producerVars, deflateVars, uploadVars, Step, BuffersCounted
<1>6. CASE CommandStarts
  BY <1>0, <1>6, LiveChanges
     DEF CommandStarts, producerVars, deflateVars, uploadVars, Step, BuffersCounted
<1>7. CASE ProduceChunk
  BY <1>0, <1>7, LiveChanges
     DEF ProduceChunk, deflateVars, uploadVars, Step, BuffersCounted
<1>8. CASE ProduceDirect
  BY <1>0, <1>8, LiveChanges DEF ProduceDirect, deflateVars, uploadVars, BuffersCounted
<1>9. CASE SourceEnds
  BY <1>0, <1>9, LiveChanges
     DEF SourceEnds, producerVars, deflateVars, uploadVars, Step, BuffersCounted
<1>10. CASE SendOrdered
  BY <1>0, <1>10, LiveChanges DEF SendOrdered, producerVars, uploadVars, BuffersCounted
<1>11. CASE SendJob
  BY <1>0, <1>11, LiveChanges
     DEF SendJob, producerVars, uploadVars, Step, BuffersCounted
<1>12. CASE CloseArchive
  BY <1>0, <1>12, LiveChanges
     DEF CloseArchive, producerVars, deflateVars, uploadVars, Step, BuffersCounted
<1>13. CASE Drained
  BY <1>0, <1>13, LiveChanges
     DEF Drained, producerVars, uploadVars, Step, BuffersCounted
<1>14. CASE StartTail
  BY <1>0, <1>14, LiveChanges
     DEF StartTail, producerVars, deflateVars, uploadVars, BuffersCounted
<1>15. CASE MainWrites
  BY <1>0, <1>0a, <1>15, MainWriteActs, WriteBuffers
<1>16. CASE TakeJob
  BY <1>0, <1>16, LiveChanges DEF TakeJob, producerVars, uploadVars, BuffersCounted
<1>17. CASE TakeOrdered
  BY <1>0, <1>17, LiveChanges DEF TakeOrdered, producerVars, uploadVars, BuffersCounted
<1>18. CASE \E chunk \in working : Compress(chunk)
  BY <1>0, <1>18, LiveChanges DEF Compress, producerVars, uploadVars, BuffersCounted
<1>19. CASE WriteChunk
  BY <1>0, <1>0a, <1>19, WriteChunkActs, WriteBuffers, LiveChanges
     DEF uploadVars, BuffersCounted
<1>20. CASE SubmitCancelled
  BY <1>0, <1>20, LiveChanges DEF SubmitCancelled, BuffersCounted
<1>21. CASE SubmitTakesSlot
  <2>1. CASE UNCHANGED <<slots, uploads, buffer>>
    BY <1>0, <1>21, <2>1, LiveChanges DEF SubmitTakesSlot, BuffersCounted
  <2>2. CASE /\ uploads' = Append(uploads, [body |-> buffer, attempt |-> 1,
                                            etag |-> FALSE, phase |-> "put"])
             /\ buffer' = <<>>
    <3>1. Len(uploads) + 1 \notin Held /\ Held' = Held \cup {Len(uploads) + 1}
      BY <1>0, <2>2, LiveChanges
    <3>2. Cardinality(Held') = Cardinality(Held) + 1
      BY <1>0, <3>1, FS_AddElement
    <3>3. buffer # <<>>
      BY <1>21, ParameterFacts, LengthFacts
         DEF SubmitTakesSlot, Inv, Typed, TypeOK, Submits
    <3>4. Count(buffer # <<>>) = 1 /\ Count(buffer' # <<>>) = 0 /\ pool' = pool
      BY <1>21, <2>2, <3>3 DEF SubmitTakesSlot, Count
    <3> QED
      BY <1>0, <3>2, <3>4 DEF BuffersCounted
  <2> QED
    BY <1>21, <2>1, <2>2 DEF SubmitTakesSlot
<1>22. CASE \E p \in DOMAIN uploads : PutSucceeds(p)
  BY <1>0, <1>22, LiveChanges DEF PutSucceeds, uploadCaller, deflateVars, BuffersCounted
<1>23. CASE \E p \in DOMAIN uploads : PutRetries(p)
  BY <1>0, <1>23, LiveChanges DEF PutRetries, uploadCaller, deflateVars, BuffersCounted
<1>24. CASE \E p \in DOMAIN uploads : PutFails(p)
  BY <1>0, <1>24, LiveChanges DEF PutFails, uploadCaller, deflateVars, BuffersCounted
<1>25. CASE \E p \in DOMAIN uploads : GiveBuffer(p, "buffer", "slot")
  <2>1. PICK p \in DOMAIN uploads : GiveBuffer(p, "buffer", "slot")
    BY <1>25
  <2>2. p \in Held /\ Held' = Held \ {p}
    BY <1>0, <2>1, LiveChanges
  <2>3. Cardinality(Held') = Cardinality(Held) - 1
    BY <1>0, <2>2, FS_RemoveElement
  <2>4. pool' = pool + 1 /\ buffer' = buffer
    BY <2>1 DEF GiveBuffer, uploadCaller
  <2> QED
    BY <1>0, <2>3, <2>4 DEF BuffersCounted, Count
<1>26. CASE \E p \in DOMAIN uploads : GiveSlot(p, "slot", "done")
  BY <1>0, <1>26, LiveChanges DEF GiveSlot, uploadCaller, deflateVars, BuffersCounted
<1>27. CASE Abandon
  BY <1>0, <1>27, LiveChanges DEF Abandon, deflateVars, Step, BuffersCounted
<1>28. CASE Abandoned
  BY <1>0, <1>28, LiveChanges
     DEF Abandoned, deflateVars, uploadVars, Step, BuffersCounted
<1>29. CASE CloseUpload
  BY <1>0, <1>29, LiveChanges DEF CloseUpload, deflateVars, Step, BuffersCounted
<1>30. CASE Closed
  BY <1>0, <1>30, LiveChanges DEF Closed, deflateVars, uploadVars, Step, BuffersCounted
<1>31. CASE Signal
  BY <1>0, <1>31, LiveChanges DEF Signal, deflateVars, BuffersCounted
<1> QED
  BY <1>1, <1>2, <1>3, <1>4, <1>5, <1>6, <1>7, <1>8, <1>9, <1>10, <1>11, <1>12, <1>13,
     <1>14, <1>15, <1>16, <1>17, <1>18, <1>19, <1>20, <1>21, <1>22, <1>23, <1>24,
     <1>25, <1>26, <1>27, <1>28, <1>29, <1>30, <1>31
     DEF Next, Produce, Deflate, UploadPart, End, GiveBack

LEMMA BuffersKept ==
    ASSUME Inv, Next
    PROVE  BuffersBounded'
<1>1. BuffersCounted' /\ Typed'
  BY CountKept, TypedKept
<1>2. DOMAIN uploads' = 1 .. Len(uploads')
  BY <1>1, LengthFacts DEF Typed, TypeOK
<1> QED
  BY <1>1, <1>2 DEF BuffersBounded, BuffersCounted, Held

-----------------------------------------------------------------------------
(* The parts are the stream *)

LEMMA PartsFrame ==
    ASSUME Typed, Parts, UNCHANGED <<buffer, stream>>,
           uploads' = uploads \/ \E p \in 1 .. Len(uploads) : PartMoves(p),
           main.step \in {"wait", "done"} => main'.step \in {"wait", "done"}
    PROVE  Parts'
<1>1. /\ Len(uploads') = Len(uploads)
      /\ \A q \in 1 .. Len(uploads) : uploads'[q].body = uploads[q].body
      /\ uploads' \in Seq(Upload) /\ uploads \in Seq(Upload)
      /\ Len(uploads) \in Nat
  BY LengthFacts DEF PartMoves, Typed, TypeOK
<1>2. (uploads' = <<>>) <=> (uploads = <<>>)
  BY <1>1, LengthFacts
<1>3. uploads # <<>> => Len(uploads) \in 1 .. Len(uploads)
  BY <1>1, LengthFacts
<1>4. ASSUME NEW p \in 1 .. Len(uploads')
      PROVE  /\ uploads'[p].body # <<>>
             /\ Len(uploads'[p].body) <= PartUnits
             /\ p < Len(uploads') \/ buffer' # <<>> \/ main'.step \notin {"wait", "done"}
                   => Len(uploads'[p].body) = PartUnits
             /\ \A i \in 1 .. Len(uploads'[p].body) :
                   uploads'[p].body[i] = stream'[(p - 1) * PartUnits + i]
  <2>1. p \in 1 .. Len(uploads) /\ uploads'[p].body = uploads[p].body
    BY <1>1
  <2>2. \A i \in 1 .. Len(uploads[p].body) :
            uploads[p].body[i] = stream[(p - 1) * PartUnits + i]
    BY <2>1, Zenon DEF Parts
  <2>3. /\ uploads[p].body # <<>>
        /\ Len(uploads[p].body) <= PartUnits
        /\ p < Len(uploads) \/ buffer # <<>> \/ main.step \notin {"wait", "done"}
              => Len(uploads[p].body) = PartUnits
    BY <2>1, Zenon DEF Parts
  <2> QED
    BY <1>1, <2>1, <2>2, <2>3
<1>5. \A i \in 1 .. Len(buffer') : buffer'[i] = stream'[Len(uploads') * PartUnits + i]
  BY <1>1 DEF Parts
<1>6. uploads' = <<>> => Len(stream') = Len(buffer')
  BY <1>2 DEF Parts
<1>7. uploads' # <<>> =>
          Len(stream') = (Len(uploads') - 1) * PartUnits
                         + Len(uploads'[Len(uploads')].body) + Len(buffer')
  <2>1. SUFFICES ASSUME uploads' # <<>>
                 PROVE  Len(stream') = (Len(uploads') - 1) * PartUnits
                                       + Len(uploads'[Len(uploads')].body) + Len(buffer')
    OBVIOUS
  <2>2. uploads'[Len(uploads')].body = uploads[Len(uploads)].body
    BY <1>1, <1>2, <1>3, <2>1
  <2>3. Len(stream) = (Len(uploads) - 1) * PartUnits
                      + Len(uploads[Len(uploads)].body) + Len(buffer)
    BY <1>2, <2>1 DEF Parts
  <2> QED
    BY <1>1, <2>2, <2>3
<1> QED
  BY <1>4, <1>5, <1>6, <1>7 DEF Parts

\* Where part p lies in the stream.
LEMMA PartPlace ==
    ASSUME Typed, NEW p \in 1 .. Len(uploads), NEW i \in 1 .. PartUnits
    PROVE  /\ (p - 1) * PartUnits + i \in Nat \ {0}
           /\ (p - 1) * PartUnits + i <= Len(uploads) * PartUnits
<1>1. /\ Len(uploads) \in Nat /\ PartUnits \in Nat \ {0}
      /\ p - 1 \in Nat /\ p - 1 < Len(uploads)
  BY LengthFacts, ParameterFacts DEF Typed, TypeOK
<1>2. /\ (p - 1) * PartUnits \in Nat
      /\ (p - 1) * PartUnits + PartUnits <= Len(uploads) * PartUnits
      /\ Len(uploads) * PartUnits \in Nat
  BY <1>1, Multiples
<1> QED
  BY <1>1, <1>2

LEMMA WriteParts ==
    ASSUME Typed, Parts, NEW unit \in Units, NEW who, WriteTaken(unit, who),
           main.step \notin {"wait", "done"}
    PROVE  Parts'
<1>0. /\ uploads' = uploads /\ uploads \in Seq(Upload) /\ Len(uploads) \in Nat
      /\ PartUnits \in Nat \ {0}
      /\ stream \in Seq(Units) /\ buffer \in Seq(Units)
      /\ Len(stream) \in Nat /\ Len(buffer) \in Nat
  BY ParameterFacts, LengthFacts DEF WriteTaken, Typed, TypeOK
<1>1. /\ Len(stream') = Len(stream) + 1 /\ stream'[Len(stream) + 1] = unit
      /\ \A i \in 1 .. Len(stream) : stream'[i] = stream[i]
  BY <1>0, AppendFacts DEF WriteTaken
<1>2. /\ Len(buffer') = Len(buffer) + 1 /\ buffer'[Len(buffer) + 1] = unit
      /\ \A i \in 1 .. Len(buffer) : buffer'[i] = buffer[i]
  BY <1>0, AppendFacts DEF WriteTaken
<1>3. /\ Len(stream) = Len(uploads) * PartUnits + Len(buffer)
      /\ Len(uploads) * PartUnits \in Nat
  BY <1>0, FullParts, Multiples
<1>4. ASSUME NEW p \in 1 .. Len(uploads)
      PROVE  /\ uploads[p].body # <<>>
             /\ Len(uploads[p].body) = PartUnits
             /\ \A i \in 1 .. PartUnits :
                   uploads[p].body[i] = stream'[(p - 1) * PartUnits + i]
  <2>1. uploads[p].body # <<>> /\ Len(uploads[p].body) = PartUnits
    BY DEF Parts
  <2>2. ASSUME NEW i \in 1 .. PartUnits
        PROVE  uploads[p].body[i] = stream'[(p - 1) * PartUnits + i]
    <3>1. uploads[p].body[i] = stream[(p - 1) * PartUnits + i]
      BY <2>1 DEF Parts
    <3> DEFINE at == (p - 1) * PartUnits + i
    <3>2. at \in Nat \ {0} /\ at <= Len(uploads) * PartUnits
      BY PartPlace
    <3> HIDE DEF at
    <3>3. at \in 1 .. Len(stream)
      BY <1>0, <1>3, <3>2
    <3>4. stream'[at] = stream[at]
      BY <1>1, <3>3
    <3> QED
      BY <3>1, <3>4 DEF at
  <2> QED
    BY <2>1, <2>2
<1>5. ASSUME NEW i \in 1 .. Len(buffer')
      PROVE  buffer'[i] = stream'[Len(uploads) * PartUnits + i]
  <2>1. CASE i = Len(buffer) + 1
    BY <1>0, <1>1, <1>2, <1>3, <2>1
  <2>2. CASE i \in 1 .. Len(buffer)
    <3>1. buffer[i] = stream[Len(uploads) * PartUnits + i]
      BY <2>2 DEF Parts
    <3>2. Len(uploads) * PartUnits + i \in 1 .. Len(stream)
      BY <1>0, <1>3, <2>2, SMTT(30)
    <3> QED
      BY <1>1, <1>2, <2>2, <3>1, <3>2
  <2> QED
    BY <1>0, <1>2, <2>1, <2>2
<1>6. uploads = <<>> => Len(stream') = Len(buffer')
  BY <1>1, <1>2 DEF Parts
<1>7. uploads # <<>> =>
          Len(stream') = (Len(uploads) - 1) * PartUnits
                         + Len(uploads[Len(uploads)].body) + Len(buffer')
  <2>1. SUFFICES ASSUME uploads # <<>>
                 PROVE  Len(stream') = (Len(uploads) - 1) * PartUnits
                                       + Len(uploads[Len(uploads)].body) + Len(buffer')
    OBVIOUS
  <2>2. Len(uploads) \in 1 .. Len(uploads) /\ Len(uploads) > 0
    BY <1>0, <2>1, LengthFacts
  <2>3. Len(uploads[Len(uploads)].body) = PartUnits
    BY <1>4, <2>2
  <2>4. (Len(uploads) - 1) * PartUnits + PartUnits = Len(uploads) * PartUnits
    BY <1>0, <2>2, Multiples
  <2> QED
    BY <1>0, <1>1, <1>2, <1>3, <2>3, <2>4
<1>8. ASSUME NEW p \in 1 .. Len(uploads')
      PROVE  /\ uploads'[p].body # <<>>
             /\ Len(uploads'[p].body) <= PartUnits
             /\ p < Len(uploads') \/ buffer' # <<>> \/ main'.step \notin {"wait", "done"}
                   => Len(uploads'[p].body) = PartUnits
             /\ \A i \in 1 .. Len(uploads'[p].body) :
                   uploads'[p].body[i] = stream'[(p - 1) * PartUnits + i]
  BY <1>0, <1>4
<1>9. /\ \A i \in 1 .. Len(buffer') : buffer'[i] = stream'[Len(uploads') * PartUnits + i]
      /\ uploads' = <<>> => Len(stream') = Len(buffer')
      /\ uploads' # <<>> =>
            Len(stream') = (Len(uploads') - 1) * PartUnits
                           + Len(uploads'[Len(uploads')].body) + Len(buffer')
  BY <1>0, <1>5, <1>6, <1>7
<1> QED
  BY <1>8, <1>9, Zenon DEF Parts

\* The part that submit hands over is what the buffer held.
LEMMA SubmitParts ==
    ASSUME Typed, Parts, buffer # <<>>, buffer' = <<>>, stream' = stream,
           uploads' = Append(uploads, [body |-> buffer, attempt |-> 1,
                                       etag |-> FALSE, phase |-> "put"]),
           Len(buffer) = PartUnits \/ main'.step = "wait"
    PROVE  Parts'
<1>0. /\ Len(uploads) \in Nat /\ PartUnits \in Nat \ {0}
      /\ Len(buffer) \in Nat /\ Len(buffer) <= PartUnits /\ Len(stream) \in Nat
  BY ParameterFacts, LengthFacts DEF Typed, TypeOK
<1>1. /\ uploads' \in Seq(Upload)
      /\ Len(uploads') = Len(uploads) + 1
      /\ \A q \in 1 .. Len(uploads) : uploads'[q] = uploads[q]
      /\ uploads'[Len(uploads) + 1].body = buffer
  BY PartAdded
<1>2. Len(stream) = Len(uploads) * PartUnits + Len(buffer)
  BY FullParts
<1>3. uploads' # <<>> /\ Len(buffer') = 0
  BY <1>0, <1>1, LengthFacts
<1>4. ASSUME NEW p \in 1 .. Len(uploads')
      PROVE  /\ uploads'[p].body # <<>>
             /\ Len(uploads'[p].body) <= PartUnits
             /\ p < Len(uploads') \/ buffer' # <<>> \/ main'.step \notin {"wait", "done"}
                   => Len(uploads'[p].body) = PartUnits
             /\ \A i \in 1 .. Len(uploads'[p].body) :
                   uploads'[p].body[i] = stream'[(p - 1) * PartUnits + i]
  <2>1. CASE p = Len(uploads) + 1
    <3>1. uploads'[p].body = buffer /\ p - 1 = Len(uploads)
      BY <1>0, <1>1, <2>1
    <3>2. ~(p < Len(uploads')) /\ ~(buffer' # <<>>)
      BY <1>0, <1>1, <2>1
    <3>3. \A i \in 1 .. Len(buffer) : buffer[i] = stream[(p - 1) * PartUnits + i]
      BY <3>1 DEF Parts
    <3> QED
      BY <1>0, <3>1, <3>2, <3>3
  <2>2. CASE p \in 1 .. Len(uploads)
    BY <1>1, <2>2 DEF Parts
  <2> QED
    BY <1>0, <1>1, <2>1, <2>2
<1>5. Len(uploads') - 1 = Len(uploads)
  BY <1>0, <1>1
<1>6. Len(stream') = (Len(uploads') - 1) * PartUnits
                     + Len(uploads'[Len(uploads')].body) + Len(buffer')
  <2>1. Len(uploads'[Len(uploads')].body) = Len(buffer)
    BY <1>1
  <2>2. Len(stream') = Len(uploads) * PartUnits + Len(buffer) + 0
    BY <1>0, <1>2, Multiples
  <2> QED
    BY <1>3, <1>5, <2>1, <2>2
<1>7. \A i \in 1 .. Len(buffer') : buffer'[i] = stream'[Len(uploads') * PartUnits + i]
  BY <1>3
<1> QED
  BY <1>3, <1>4, <1>6, <1>7, Zenon DEF Parts

LEMMA PartsKept ==
    ASSUME Inv, Next
    PROVE  Parts'
<1>0. Typed /\ Stages /\ IdlePipeline /\ Submits /\ Parts
      /\ main \in [step : MainSteps, then : MainSteps]
      /\ submit \in {"none", "writer", "main", "close"}
  BY DEF Inv, Typed, TypeOK
<1>0a. /\ writer \in Units
       /\ (IF main.then = "ended" THEN ArchiveEnd ELSE produced) \in Units
  BY ParameterFacts DEF Inv, Typed, TypeOK, Units, ArchiveEnd, Chunks
<1>1. CASE Refused
  BY <1>0, <1>1, PartsFrame DEF Refused, producerVars, uploadVars, Step
<1>2. CASE Accepted
  BY <1>0, <1>2, PartsFrame DEF Accepted, producerVars, uploadVars, Step
<1>3. CASE RestoreExport
  BY <1>0, <1>3, PartsFrame DEF RestoreExport, producerVars, uploadVars, Step
<1>4. CASE NextEntry
  BY <1>0, <1>4, PartsFrame DEF NextEntry, producerVars, uploadVars, Step
<1>5. CASE CommandFails
  BY <1>0, <1>5, PartsFrame DEF CommandFails, producerVars, uploadVars, Step
<1>6. CASE CommandStarts
  BY <1>0, <1>6, PartsFrame DEF CommandStarts, producerVars, uploadVars, Step
<1>7. CASE ProduceChunk
  BY <1>0, <1>7, PartsFrame DEF ProduceChunk, producerVars, uploadVars, Step
<1>8. CASE ProduceDirect
  BY <1>0, <1>8, PartsFrame DEF ProduceDirect, producerVars, uploadVars, Step
<1>9. CASE SourceEnds
  BY <1>0, <1>9, PartsFrame DEF SourceEnds, producerVars, uploadVars, Step
<1>10. CASE SendOrdered
  BY <1>0, <1>10, PartsFrame DEF SendOrdered, producerVars, uploadVars, Step
<1>11. CASE SendJob
  BY <1>0, <1>11, PartsFrame DEF SendJob, producerVars, uploadVars, Step
<1>12. CASE CloseArchive
  BY <1>0, <1>12, PartsFrame DEF CloseArchive, producerVars, uploadVars, Step
<1>13. CASE Drained
  BY <1>0, <1>13, PartsFrame DEF Drained, producerVars, uploadVars, Step
<1>14. CASE StartTail
  BY <1>0, <1>14, PartsFrame DEF StartTail, producerVars, uploadVars, Step
<1>15. CASE MainWrites
  BY <1>0, <1>0a, <1>15, MainWriteActs, WriteParts, PartsFrame
     DEF WriteRefused, Return, Step
<1>16. CASE TakeJob
  BY <1>0, <1>16, PartsFrame DEF TakeJob, producerVars, uploadVars, Step
<1>17. CASE TakeOrdered
  BY <1>0, <1>17, PartsFrame DEF TakeOrdered, producerVars, uploadVars, Step
<1>18. CASE \E chunk \in working : Compress(chunk)
  BY <1>0, <1>18, PartsFrame DEF Compress, producerVars, uploadVars, Step
<1>19. CASE WriteChunk
  <2>1. main.step \notin {"wait", "done"}
    BY <1>0, <1>19 DEF WriteChunk, IdlePipeline, Idle, Streaming
  <2> QED
    BY <1>0, <1>0a, <1>19, <2>1, WriteChunkActs, WriteParts, PartsFrame
       DEF WriteRefused, uploadVars
<1>20. CASE SubmitCancelled
  BY <1>0, <1>20, PartsFrame DEF SubmitCancelled, Submits, SubmitReturns, Return, Step
<1>21. CASE SubmitTakesSlot
  <2>1. main.step \in {"wait", "done"} => main'.step \in {"wait", "done"}
    BY <1>0, <1>21 DEF SubmitTakesSlot, Submits, SubmitReturns, Return
  <2>2. CASE UNCHANGED <<slots, uploads, buffer>>
    BY <1>0, <1>21, <2>1, <2>2, PartsFrame DEF SubmitTakesSlot
  <2>3. CASE /\ err = NoCode
             /\ uploads' = Append(uploads, [body |-> buffer, attempt |-> 1,
                                            etag |-> FALSE, phase |-> "put"])
             /\ buffer' = <<>>
             /\ SubmitReturns(TRUE)
    <3>1. buffer # <<>>
      BY <1>0, <1>21, ParameterFacts, LengthFacts
         DEF SubmitTakesSlot, Submits, Typed, TypeOK
    <3>2. Len(buffer) = PartUnits \/ main'.step = "wait"
      BY <1>0, <1>21, <2>3 DEF SubmitTakesSlot, Submits, SubmitReturns
    <3> QED
      BY <1>0, <1>21, <2>3, <3>1, <3>2, SubmitParts DEF SubmitTakesSlot
  <2> QED
    BY <1>21, <2>2, <2>3 DEF SubmitTakesSlot
<1>22. CASE \E p \in DOMAIN uploads : PutSucceeds(p)
  BY <1>0, <1>22, PartsFrame, UploadActs DEF PutSucceeds, uploadCaller
<1>23. CASE \E p \in DOMAIN uploads : PutRetries(p)
  BY <1>0, <1>23, PartsFrame, UploadActs DEF PutRetries, uploadCaller
<1>24. CASE \E p \in DOMAIN uploads : PutFails(p)
  BY <1>0, <1>24, PartsFrame, UploadActs DEF PutFails, uploadCaller
<1>25. CASE \E p \in DOMAIN uploads : GiveBuffer(p, "buffer", "slot")
  BY <1>0, <1>25, PartsFrame, UploadActs DEF GiveBuffer, uploadCaller
<1>26. CASE \E p \in DOMAIN uploads : GiveSlot(p, "slot", "done")
  BY <1>0, <1>26, PartsFrame, UploadActs DEF GiveSlot, uploadCaller
<1>27. CASE Abandon
  BY <1>0, <1>27, PartsFrame DEF Abandon, producerVars, uploadVars, Step
<1>28. CASE Abandoned
  BY <1>0, <1>28, PartsFrame DEF Abandoned, producerVars, uploadVars, Step
<1>29. CASE CloseUpload
  BY <1>0, <1>29, PartsFrame DEF CloseUpload, producerVars, uploadVars, Step
<1>30. CASE Closed
  BY <1>0, <1>30, PartsFrame DEF Closed, producerVars, uploadVars, Step
<1>31. CASE Signal
  BY <1>0, <1>31, PartsFrame DEF Signal, producerVars, uploadVars, Step
<1> QED
  BY <1>1, <1>2, <1>3, <1>4, <1>5, <1>6, <1>7, <1>8, <1>9, <1>10, <1>11, <1>12, <1>13,
     <1>14, <1>15, <1>16, <1>17, <1>18, <1>19, <1>20, <1>21, <1>22, <1>23, <1>24,
     <1>25, <1>26, <1>27, <1>28, <1>29, <1>30, <1>31
     DEF Next, Produce, Deflate, UploadPart, End, GiveBack

-----------------------------------------------------------------------------
(* The chunks keep their order *)

\* A step that leaves the stream and the queue alone, and after which as many
\* chunks are counted and not yet queued as before.
OrderMoves ==
    /\ UNCHANGED <<stream, ordered>>
    /\ Clean' /\ main'.step # "done" =>
          /\ Clean /\ main.step # "done"
          /\ Sealed' <=> Sealed
          /\ (writer # 0 /\ submit # "writer")' <=> (writer # 0 /\ submit # "writer")
          /\ writer # 0 /\ submit # "writer" => writer' = writer
          /\ Sealed => produced' = produced
          /\ ~Sealed => produced' + PendingMain = produced + PendingMain'

LEMMA OrderFrame ==
    ASSUME Typed, InOrder, OrderMoves, produced' \in Nat
    PROVE  InOrder'
<1>1. /\ Len(stream) \in Nat /\ Len(ordered) \in Nat /\ produced \in Nat
  BY LengthFacts, ParameterFacts DEF Typed, TypeOK
<1>2. SUFFICES ASSUME Clean', main'.step # "done" PROVE InOrder'
  BY DEF InOrder
<1>3. /\ Clean /\ main.step # "done" /\ stream' = stream /\ ordered' = ordered
      /\ Sealed' <=> Sealed
      /\ (writer # 0 /\ submit # "writer")' <=> (writer # 0 /\ submit # "writer")
      /\ writer # 0 /\ submit # "writer" => writer' = writer
      /\ Sealed => produced' = produced
      /\ ~Sealed => produced' + PendingMain = produced + PendingMain'
  BY <1>2 DEF OrderMoves
<1>4. /\ PendingWriter' = PendingWriter /\ PendingWriter \in {0, 1}
      /\ PendingMain \in {0, 1} /\ PendingMain' \in {0, 1}
  BY <1>3 DEF PendingWriter, PendingMain, Count
<1>5. \A i \in 1 .. Len(stream') :
          stream'[i] = IF Sealed' /\ i = Len(stream') THEN ArchiveEnd ELSE i
  BY <1>3 DEF InOrder
<1>6. Sealed' => Len(stream') = produced' + 1
  BY <1>3 DEF InOrder
<1>7. ~Sealed' => Len(stream') + PendingWriter' + Len(ordered') + PendingMain' = produced'
  BY <1>1, <1>3, <1>4 DEF InOrder
<1>8. (writer # 0 /\ submit # "writer")' => writer' = Len(stream') + 1
  BY <1>3 DEF InOrder
<1>9. \A i \in 1 .. Len(ordered') : ordered'[i] = Len(stream') + PendingWriter' + i
  BY <1>3, <1>4 DEF InOrder
<1> QED
  BY <1>5, <1>6, <1>7, <1>8, <1>9 DEF InOrder

\* The writer's next chunk is the one that follows in the stream.
LEMMA WriterKeepsOrder ==
    ASSUME Inv, writer # 0, submit = "none", WriteTaken(writer, "writer"),
           UNCHANGED <<kind, produced, ordered>>
    PROVE  InOrder'
<1>0. /\ Len(stream) \in Nat /\ Len(ordered) \in Nat /\ produced \in Nat
      /\ stream \in Seq(Units) /\ writer \in Units
  BY LengthFacts, ParameterFacts DEF Inv, Typed, TypeOK, Units, ArchiveEnd
<1>1. main.step \in Streaming
  BY DEF Inv, IdlePipeline, Idle
<1>2. /\ main' = main /\ failed' = failed /\ err' = err /\ (deflateErr => deflateErr')
      /\ writer' = 0 \/ (submit' = "writer" /\ writer' = writer)
      /\ submit' \in {"none", "writer"}
  <2>1. CASE submit' = "writer" /\ UNCHANGED <<writer, deflateErr, main, failed>>
    BY <2>1 DEF WriteTaken
  <2>2. CASE submit' = "none" /\ Return("writer", TRUE)
    <3>1. deflateErr => deflateErr'
      BY <2>2, Zenon DEF Return
    <3>2. writer' = 0 /\ main' = main /\ failed' = failed
      BY <2>2, Zenon DEF Return
    <3>3. err' = err
      BY DEF WriteTaken
    <3> QED
      BY <2>2, <3>1, <3>2, <3>3
  <2> QED
    BY <2>1, <2>2 DEF WriteTaken
<1>3. /\ Len(stream') = Len(stream) + 1 /\ stream'[Len(stream) + 1] = writer
      /\ \A i \in 1 .. Len(stream) : stream'[i] = stream[i]
  BY <1>0, AppendFacts DEF WriteTaken
<1>4. SUFFICES ASSUME Clean', main'.step # "done" PROVE InOrder'
  BY DEF InOrder
<1>5. Clean /\ main.step # "done" /\ ~Sealed /\ ~Sealed'
  BY <1>1, <1>2, <1>4 DEF Clean, Sealed, Streaming
<1>6. PendingWriter = 1 /\ PendingWriter' = 0
  BY <1>2 DEF PendingWriter, Count
<1>7. PendingMain' = PendingMain /\ PendingMain \in {0, 1}
  BY <1>2 DEF PendingMain, Count
<1>8. /\ writer = Len(stream) + 1
      /\ Len(stream) + PendingWriter + Len(ordered) + PendingMain = produced
      /\ \A i \in 1 .. Len(stream) : stream[i] = i
      /\ \A i \in 1 .. Len(ordered) : ordered[i] = Len(stream) + PendingWriter + i
  BY <1>5 DEF Inv, InOrder
<1>9. \A i \in 1 .. Len(stream') : stream'[i] = i
  BY <1>0, <1>3, <1>8
<1>10. Len(stream') + PendingWriter' + Len(ordered') + PendingMain' = produced'
  BY <1>0, <1>3, <1>6, <1>7, <1>8
<1>11. \A i \in 1 .. Len(ordered') : ordered'[i] = Len(stream') + PendingWriter' + i
  BY <1>0, <1>3, <1>6, <1>8
<1>12. ~(writer # 0 /\ submit # "writer")'
  BY <1>2
<1> QED
  BY <1>5, <1>9, <1>10, <1>11, <1>12 DEF InOrder

\* The producer writes itself only while nothing is queued.
LEMMA MainKeepsOrder ==
    ASSUME Inv, main.step = "writing", submit = "none",
           WriteTaken(IF main.then = "ended" THEN ArchiveEnd ELSE produced, "main"),
           UNCHANGED <<kind, produced, ordered>>
    PROVE  InOrder'
<1> DEFINE unit == IF main.then = "ended" THEN ArchiveEnd ELSE produced
<1>0. /\ Len(stream) \in Nat /\ produced \in Nat
      /\ stream \in Seq(Units) /\ unit \in Units
      /\ main \in [step : MainSteps, then : MainSteps]
  BY LengthFacts, ParameterFacts DEF Inv, Typed, TypeOK, Units, ArchiveEnd, Chunks
<1>1. ordered = <<>> /\ writer = 0
  BY DEF Inv, IdlePipeline, Idle, Streaming
<1>2. /\ main.then \in {"produce", "tail", "ended"}
      /\ main.then # "produce" => kind # "directory"
  BY DEF Inv, Stages
<1>3. /\ writer' = writer /\ deflateErr' = deflateErr /\ err' = err
      /\ failed => failed'
      /\ \/ submit' = "main" /\ main' = main
         \/ submit' = "none" /\ main' = Step(main.then)
  <2>1. CASE submit' = "main" /\ UNCHANGED <<writer, deflateErr, main, failed>>
    BY <2>1 DEF WriteTaken
  <2>2. CASE submit' = "none" /\ Return("main", TRUE)
    <3>1. failed' = (failed \/ ~TRUE)
      BY <2>2 DEF Return
    <3>2. failed => failed'
      BY <3>1, Zenon
    <3> QED
      BY <2>2, <3>2 DEF WriteTaken, Return
  <2> QED
    BY <2>1, <2>2 DEF WriteTaken
<1>4. /\ Len(stream') = Len(stream) + 1 /\ stream'[Len(stream) + 1] = unit
      /\ \A i \in 1 .. Len(stream) : stream'[i] = stream[i]
  BY <1>0, AppendFacts DEF WriteTaken
<1>5. SUFFICES ASSUME Clean', main'.step # "done" PROVE InOrder'
  BY DEF InOrder
<1>6. Clean /\ ~Sealed
  BY <1>3, <1>5 DEF Clean, Sealed
<1>7. PendingWriter = 0 /\ PendingWriter' = 0 /\ Len(ordered) = 0 /\ Len(ordered') = 0
  BY <1>1, <1>3 DEF PendingWriter, Count
<1>8. /\ Len(stream) + PendingMain = produced /\ PendingMain \in {0, 1}
      /\ \A i \in 1 .. Len(stream) : stream[i] = i
  BY <1>0, <1>6, <1>7 DEF Inv, InOrder, PendingMain, Count
<1>9. CASE main.then = "ended"
  <2>1. PendingMain = 0 /\ Sealed'
    BY <1>2, <1>3, <1>9 DEF PendingMain, Count, Sealed, Step
  <2>2. Len(stream') = produced' + 1
    BY <1>0, <1>4, <1>8, <2>1
  <2>3. \A i \in 1 .. Len(stream') :
            stream'[i] = IF i = Len(stream') THEN ArchiveEnd ELSE i
    BY <1>0, <1>4, <1>8, <1>9
  <2> QED
    BY <1>1, <1>3, <1>7, <2>1, <2>2, <2>3 DEF InOrder
<1>10. CASE main.then # "ended"
  <2>1. PendingMain = 1 /\ PendingMain' = 0 /\ ~Sealed'
    BY <1>2, <1>3, <1>10 DEF PendingMain, Count, Sealed, Step
  <2>2. Len(stream') = produced'
    BY <1>0, <1>4, <1>8, <2>1
  <2>3. \A i \in 1 .. Len(stream') : stream'[i] = i
    BY <1>0, <1>4, <1>8, <1>10, <2>2
  <2> QED
    BY <1>0, <1>1, <1>3, <1>7, <2>1, <2>2, <2>3 DEF InOrder
<1> QED
  BY <1>9, <1>10

LEMMA OrderKept ==
    ASSUME Inv, Next
    PROVE  InOrder'
<1>0. /\ main \in [step : MainSteps, then : MainSteps]
      /\ produced \in Nat
      /\ submit \in {"none", "writer", "main", "close"}
      /\ NoCode \notin Codes /\ err \in Codes \cup {NoCode}
      /\ failed \in BOOLEAN /\ started \in BOOLEAN /\ deflateErr \in BOOLEAN
      /\ Typed /\ Stages /\ IdlePipeline /\ Submits /\ InOrder
  BY ParameterFacts, LengthFacts DEF Inv, Typed, TypeOK, Codes, NoCode, ArchiveEnd
<1>0b. produced' \in Nat
  BY TypedKept, ParameterFacts DEF Typed, TypeOK
<1>0a. /\ PendingMain = IF \/ main.step = "ordered"
                           \/ main.step = "writing" /\ main.then # "ended" /\ submit # "main"
                        THEN 1 ELSE 0
       /\ PendingMain' = IF \/ main'.step = "ordered"
                            \/ main'.step = "writing" /\ main'.then # "ended" /\ submit' # "main"
                         THEN 1 ELSE 0
  BY DEF PendingMain, Count
<1>1. CASE Refused
  <2>1. OrderMoves
    BY <1>0, <1>1, <1>0a
       DEF Refused, IdlePipeline, Idle, Streaming, Submits, deflateVars, uploadVars,
           Step, OrderMoves, Clean, Sealed, Stages, Ahead
  <2> QED
    BY <1>0, <1>0b, <2>1, OrderFrame
<1>2. CASE Accepted
  <2>1. OrderMoves
    BY <1>0, <1>2, <1>0a
       DEF Accepted, IdlePipeline, Idle, Streaming, Submits, producerVars,
           deflateVars, uploadVars, Step, OrderMoves, Clean, Sealed, Stages, Ahead
  <2> QED
    BY <1>0, <1>0b, <2>1, OrderFrame
<1>3. CASE RestoreExport
  <2>1. OrderMoves
    BY <1>0, <1>3, <1>0a
       DEF RestoreExport, IdlePipeline, Idle, Streaming, Submits, deflateVars,
           uploadVars, Step, OrderMoves, Clean, Sealed, Stages, Ahead
  <2> QED
    BY <1>0, <1>0b, <2>1, OrderFrame
<1>4. CASE NextEntry
  <2>1. OrderMoves
    BY <1>0, <1>4, <1>0a
       DEF NextEntry, IdlePipeline, Idle, Streaming, Submits, deflateVars, uploadVars,
           Step, OrderMoves, Clean, Sealed, Stages, Ahead
  <2> QED
    BY <1>0, <1>0b, <2>1, OrderFrame
<1>5. CASE CommandFails
  <2>1. OrderMoves
    BY <1>0, <1>5, <1>0a
       DEF CommandFails, IdlePipeline, Idle, Streaming, Submits, producerVars,
           deflateVars, uploadVars, Step, OrderMoves, Clean, Sealed, Stages, Ahead
  <2> QED
    BY <1>0, <1>0b, <2>1, OrderFrame
<1>6. CASE CommandStarts
  <2>1. OrderMoves
    BY <1>0, <1>6, <1>0a
       DEF CommandStarts, IdlePipeline, Idle, Streaming, Submits, producerVars,
           deflateVars, uploadVars, Step, OrderMoves, Clean, Sealed, Stages, Ahead
  <2> QED
    BY <1>0, <1>0b, <2>1, OrderFrame
<1>7. CASE ProduceChunk
  <2>1. OrderMoves
    BY <1>0, <1>7, <1>0a
       DEF ProduceChunk, IdlePipeline, Idle, Streaming, Submits, deflateVars,
           uploadVars, Step, OrderMoves, Clean, Sealed, Stages, Ahead
  <2> QED
    BY <1>0, <1>0b, <2>1, OrderFrame
<1>8. CASE ProduceDirect
  <2>1. OrderMoves
    BY <1>0, <1>8, <1>0a
       DEF ProduceDirect, IdlePipeline, Idle, Streaming, Submits, deflateVars,
           uploadVars, OrderMoves, Clean, Sealed, Stages, Ahead
  <2> QED
    BY <1>0, <1>0b, <2>1, OrderFrame
<1>9. CASE SourceEnds
  <2>1. OrderMoves
    BY <1>0, <1>9, <1>0a
       DEF SourceEnds, IdlePipeline, Idle, Streaming, Submits, producerVars,
           deflateVars, uploadVars, Step, OrderMoves, Clean, Sealed, Stages, Ahead
  <2> QED
    BY <1>0, <1>0b, <2>1, OrderFrame
<1>10. CASE SendOrdered
  <2>a. produced \in Nat /\ produced <= MaxChunks + 1 /\ 1 <= produced
    <3>1. main.step = "ordered"
      BY <1>10 DEF SendOrdered
    <3>2. produced > 0
      BY <1>0, <3>1 DEF Stages
    <3>3. produced \in 0 .. MaxChunks + 1
      BY <1>0 DEF Typed, TypeOK
    <3> QED
      BY <3>2, <3>3, ParameterFacts
  <2>0. /\ Len(ordered) \in Nat /\ Len(stream) \in Nat /\ produced \in Chunks
        /\ ordered \in Seq(Chunks)
    <3>1. produced \in Chunks
      BY <2>a, ParameterFacts
    <3> QED
      BY <1>0, <3>1, LengthFacts DEF Typed, TypeOK
  <2>1. /\ Len(ordered') = Len(ordered) + 1 /\ ordered'[Len(ordered) + 1] = produced
        /\ \A i \in 1 .. Len(ordered) : ordered'[i] = ordered[i]
    BY <2>0, <1>10, AppendFacts DEF SendOrdered
  <2>2. SUFFICES ASSUME Clean', main'.step # "done" PROVE InOrder'
    BY DEF InOrder
  <2>3. /\ Clean /\ main.step = "ordered" /\ main'.step = "jobs"
        /\ ~Sealed /\ ~Sealed'
        /\ stream' = stream /\ writer' = writer /\ submit' = submit /\ produced' = produced
    BY <1>0, <1>10, <2>2 DEF SendOrdered, Clean, Sealed, producerVars, uploadVars
  <2>4. /\ PendingMain = 1 /\ PendingMain' = 0
        /\ PendingWriter' = PendingWriter /\ PendingWriter \in {0, 1}
    BY <2>3 DEF PendingMain, PendingWriter, Count
  <2>5. /\ Len(stream) + PendingWriter + Len(ordered) + 1 = produced
        /\ \A i \in 1 .. Len(stream) : stream[i] = i
        /\ writer # 0 /\ submit # "writer" => writer = Len(stream) + 1
        /\ \A i \in 1 .. Len(ordered) : ordered[i] = Len(stream) + PendingWriter + i
    BY <1>0, <2>3, <2>4 DEF InOrder
  <2>6. \A i \in 1 .. Len(ordered') : ordered'[i] = Len(stream) + PendingWriter + i
    BY <2>0, <2>1, <2>4, <2>5
  <2>7. Len(stream) + PendingWriter + Len(ordered') + PendingMain' = produced
    BY <2>0, <2>1, <2>4, <2>5
  <2> QED
    BY <2>3, <2>4, <2>5, <2>6, <2>7 DEF InOrder
<1>11. CASE SendJob
  <2>1. OrderMoves
    BY <1>0, <1>11, <1>0a
       DEF SendJob, IdlePipeline, Idle, Streaming, Submits, producerVars, uploadVars,
           Step, OrderMoves, Clean, Sealed, Stages, Ahead
  <2> QED
    BY <1>0, <1>0b, <2>1, OrderFrame
<1>12. CASE CloseArchive
  <2>1. OrderMoves
    BY <1>0, <1>12, <1>0a
       DEF CloseArchive, IdlePipeline, Idle, Streaming, Submits, producerVars,
           deflateVars, uploadVars, Step, OrderMoves, Clean, Sealed, Stages, Ahead
  <2> QED
    BY <1>0, <1>0b, <2>1, OrderFrame
<1>13. CASE Drained
  <2>1. OrderMoves
    BY <1>0, <1>13, <1>0a
       DEF Drained, IdlePipeline, Idle, Streaming, Submits, producerVars, uploadVars,
           Step, OrderMoves, Clean, Sealed, Stages, Ahead
  <2> QED
    BY <1>0, <1>0b, <2>1, OrderFrame
<1>14. CASE StartTail
  <2>1. OrderMoves
    BY <1>0, <1>14, <1>0a
       DEF StartTail, IdlePipeline, Idle, Streaming, Submits, producerVars,
           deflateVars, uploadVars, OrderMoves, Clean, Sealed, Stages, Ahead
  <2> QED
    BY <1>0, <1>0b, <2>1, OrderFrame
<1>15. CASE MainWrites
  <2>1. CASE WriteRefused("main")
    BY <1>0, <1>15, <2>1, MainWriteActs DEF WriteRefused, InOrder, Clean
  <2> QED
    BY <1>0, <1>15, <2>1, MainWriteActs, MainKeepsOrder
<1>16. CASE TakeJob
  <2>1. OrderMoves
    BY <1>0, <1>16, <1>0a
       DEF TakeJob, IdlePipeline, Idle, Streaming, Submits, producerVars, uploadVars,
           OrderMoves, Clean, Sealed, Stages, Ahead
  <2> QED
    BY <1>0, <1>0b, <2>1, OrderFrame
<1>17. CASE TakeOrdered
  <2>0. /\ Len(stream) \in Nat /\ ordered \in Seq(Chunks) /\ ordered # <<>>
    BY <1>0, <1>17, LengthFacts DEF TakeOrdered, Typed, TypeOK
  <2>1. /\ Len(ordered) \in Nat \ {0} /\ Len(ordered') = Len(ordered) - 1
        /\ writer' = ordered[1]
        /\ \A i \in 1 .. Len(ordered') : ordered'[i] = ordered[i + 1]
    BY <2>0, <1>17, TailFacts DEF TakeOrdered
  <2>2. SUFFICES ASSUME Clean', main'.step # "done" PROVE InOrder'
    BY DEF InOrder
  <2>3. main.step \in Streaming
    BY <1>0, <2>0 DEF IdlePipeline, Idle
  <2>4. /\ Clean /\ main.step # "done" /\ ~Sealed /\ ~Sealed'
        /\ writer = 0 /\ submit # "writer"
        /\ main' = main /\ stream' = stream /\ submit' = submit /\ produced' = produced
    BY <1>0, <1>17, <2>2, <2>3
       DEF TakeOrdered, Clean, Sealed, Streaming, Submits, producerVars, uploadVars
  <2>5. /\ PendingMain' = PendingMain /\ PendingMain \in {0, 1} /\ PendingWriter = 0
    BY <2>4 DEF PendingMain, PendingWriter, Count
  <2>6. /\ Len(stream) + PendingWriter + Len(ordered) + PendingMain = produced
        /\ \A i \in 1 .. Len(stream) : stream[i] = i
        /\ \A i \in 1 .. Len(ordered) : ordered[i] = Len(stream) + PendingWriter + i
    BY <1>0, <2>4 DEF InOrder
  <2>7. writer' = Len(stream) + 1 /\ writer' # 0
    BY <2>0, <2>1, <2>5, <2>6
  <2>8. PendingWriter' = 1
    BY <2>4, <2>7 DEF PendingWriter, Count
  <2>9. Len(stream) + PendingWriter' + Len(ordered') + PendingMain' = produced
    BY <2>0, <2>1, <2>5, <2>6, <2>8
  <2>10. \A i \in 1 .. Len(ordered') : ordered'[i] = Len(stream) + PendingWriter' + i
    BY <2>0, <2>1, <2>5, <2>6, <2>8
  <2> QED
    BY <2>4, <2>6, <2>7, <2>9, <2>10 DEF InOrder
<1>18. CASE \E chunk \in working : Compress(chunk)
  <2>1. OrderMoves
    BY <1>0, <1>18, <1>0a
       DEF Compress, producerVars, uploadVars, OrderMoves, Clean, Sealed, Stages,
           Ahead
  <2> QED
    BY <1>0, <1>0b, <2>1, OrderFrame
<1>19. CASE WriteChunk
  <2>1. CASE deflateErr /\ UNCHANGED deflateErr
    BY <2>1 DEF InOrder, Clean
  <2>2. CASE WriteRefused("writer")
    BY <1>0, <2>2 DEF WriteRefused, InOrder, Clean
  <2> QED
    BY <1>0, <1>19, <2>1, <2>2, WriteChunkActs, WriterKeepsOrder
<1>20. CASE SubmitCancelled
  <2>1. OrderMoves
    BY <1>0, <1>20, <1>0a
       DEF SubmitCancelled, Fail, Codes, OrderMoves, Clean, Sealed, Stages, Ahead
  <2> QED
    BY <1>0, <1>0b, <2>1, OrderFrame
<1>21. CASE SubmitTakesSlot
  <2>1. OrderMoves
    BY <1>0, <1>21, <1>0a
       DEF SubmitTakesSlot, SubmitReturns, Return, IdlePipeline, Idle, Streaming,
           Submits, Step, OrderMoves, Clean, Sealed, Stages, Ahead
  <2> QED
    BY <1>0, <1>0b, <2>1, OrderFrame
<1>22. CASE \E p \in DOMAIN uploads : PutSucceeds(p)
  <2>1. OrderMoves
    BY <1>0, <1>22, <1>0a
       DEF PutSucceeds, uploadCaller, deflateVars, OrderMoves, Clean, Sealed, Stages,
           Ahead
  <2> QED
    BY <1>0, <1>0b, <2>1, OrderFrame
<1>23. CASE \E p \in DOMAIN uploads : PutRetries(p)
  <2>1. OrderMoves
    BY <1>0, <1>23, <1>0a
       DEF PutRetries, uploadCaller, deflateVars, OrderMoves, Clean, Sealed, Stages,
           Ahead
  <2> QED
    BY <1>0, <1>0b, <2>1, OrderFrame
<1>24. CASE \E p \in DOMAIN uploads : PutFails(p)
  <2>1. OrderMoves
    BY <1>0, <1>24, <1>0a, UploadActs
       DEF PutFails, uploadCaller, deflateVars, OrderMoves, Clean, Sealed, Stages,
           Ahead
  <2> QED
    BY <1>0, <1>0b, <2>1, OrderFrame
<1>25. CASE \E p \in DOMAIN uploads : GiveBuffer(p, "buffer", "slot")
  <2>1. OrderMoves
    BY <1>0, <1>25, <1>0a
       DEF GiveBuffer, uploadCaller, deflateVars, OrderMoves, Clean, Sealed, Stages,
           Ahead
  <2> QED
    BY <1>0, <1>0b, <2>1, OrderFrame
<1>26. CASE \E p \in DOMAIN uploads : GiveSlot(p, "slot", "done")
  <2>1. OrderMoves
    BY <1>0, <1>26, <1>0a
       DEF GiveSlot, uploadCaller, deflateVars, OrderMoves, Clean, Sealed, Stages,
           Ahead
  <2> QED
    BY <1>0, <1>0b, <2>1, OrderFrame
<1>27. CASE Abandon
  <2>1. OrderMoves
    BY <1>0, <1>27, <1>0a
       DEF Abandon, IdlePipeline, Idle, Streaming, Submits, deflateVars, Step,
           OrderMoves, Clean, Sealed, Stages, Ahead
  <2> QED
    BY <1>0, <1>0b, <2>1, OrderFrame
<1>28. CASE Abandoned
  <2>1. OrderMoves
    BY <1>0, <1>28, <1>0a
       DEF Abandoned, IdlePipeline, Idle, Streaming, Submits, deflateVars, uploadVars,
           Step, OrderMoves, Clean, Sealed, Stages, Ahead
  <2> QED
    BY <1>0, <1>0b, <2>1, OrderFrame
<1>29. CASE CloseUpload
  <2>1. OrderMoves
    BY <1>0, <1>29, <1>0a
       DEF CloseUpload, Fail, IdlePipeline, Idle, Streaming, Submits, deflateVars,
           Step, OrderMoves, Clean, Sealed, Stages, Ahead
  <2> QED
    BY <1>0, <1>0b, <2>1, OrderFrame
<1>30. CASE Closed
  <2>1. OrderMoves
    BY <1>0, <1>30, <1>0a
       DEF Closed, IdlePipeline, Idle, Streaming, Submits, deflateVars, uploadVars,
           Step, OrderMoves, Clean, Sealed, Stages, Ahead
  <2> QED
    BY <1>0, <1>0b, <2>1, OrderFrame
<1>31. CASE Signal
  <2>1. OrderMoves
    BY <1>0, <1>31, <1>0a
       DEF Signal, IdlePipeline, Idle, Streaming, Submits, deflateVars, OrderMoves,
           Clean, Sealed, Stages, Ahead
  <2> QED
    BY <1>0, <1>0b, <2>1, OrderFrame
<1> QED
  BY <1>1, <1>2, <1>3, <1>4, <1>5, <1>6, <1>7, <1>8, <1>9, <1>10, <1>11, <1>12, <1>13,
     <1>14, <1>15, <1>16, <1>17, <1>18, <1>19, <1>20, <1>21, <1>22, <1>23, <1>24,
     <1>25, <1>26, <1>27, <1>28, <1>29, <1>30, <1>31
     DEF Next, Produce, Deflate, UploadPart, End, GiveBack

-----------------------------------------------------------------------------
(* What is reported as a result is whole *)

LEMMA ArchiveFacts ==
    ASSUME produced \in Nat
    PROVE  /\ Archive \in Seq(Nat)
           /\ kind = "directory" => Len(Archive) = produced
           /\ kind # "directory" => Len(Archive) = produced + 1
                                    /\ Archive[produced + 1] = ArchiveEnd
           /\ \A i \in 1 .. produced : Archive[i] = i
<1> DEFINE chunks == [i \in 1 .. produced |-> i]
<1>1. chunks \in Seq(Nat) /\ Len(chunks) = produced
  BY IsASeq
<1>2. \A i \in 1 .. produced : chunks[i] = i
  OBVIOUS
<1> HIDE DEF chunks
<1>3. Archive = chunks \o (IF kind = "directory" THEN <<>> ELSE <<ArchiveEnd>>)
  BY DEF Archive, chunks
<1> QED
  BY <1>1, <1>2, <1>3 DEF ArchiveEnd

\* At the end of Close the stream is the archive.
LEMMA StreamIsArchive ==
    ASSUME Inv, main.step = "wait", err = NoCode
    PROVE  /\ Len(stream) = Len(Archive)
           /\ \A i \in 1 .. Len(stream) : stream[i] = Archive[i]
<1>0. produced \in Nat /\ Len(stream) \in Nat
  BY LengthFacts, ParameterFacts DEF Inv, Typed, TypeOK
<1>1. Clean
  BY DEF Inv, Etags, Stages, Clean
<1>2. ordered = <<>> /\ writer = 0
  BY DEF Inv, IdlePipeline, Idle, Streaming
<1>3. PendingWriter = 0 /\ PendingMain = 0 /\ Len(ordered) = 0
  BY <1>2 DEF PendingWriter, PendingMain, Count
<1>4. Sealed <=> kind # "directory"
  BY DEF Sealed
<1>5. CASE kind = "directory"
  <2>1. Len(stream) = produced /\ \A i \in 1 .. Len(stream) : stream[i] = i
    BY <1>0, <1>1, <1>3, <1>4, <1>5 DEF Inv, InOrder
  <2> QED
    BY <1>0, <1>5, <2>1, ArchiveFacts
<1>6. CASE kind # "directory"
  <2>1. /\ Len(stream) = produced + 1
        /\ \A i \in 1 .. Len(stream) :
              stream[i] = IF i = Len(stream) THEN ArchiveEnd ELSE i
    BY <1>1, <1>4, <1>6 DEF Inv, InOrder
  <2> QED
    BY <1>0, <1>6, <2>1, ArchiveFacts
<1> QED
  BY <1>5, <1>6

\* The parts are the stream, and so the archive, cut at the part size.
LEMMA PartsAreArchive ==
    ASSUME Inv, main.step = "wait", submit = "none", err = NoCode,
           NEW p \in 1 .. Len(uploads)
    PROVE  uploads[p].body = SubSeq(Archive, (p - 1) * PartUnits + 1, PartEnd(p))
<1> DEFINE from == (p - 1) * PartUnits
<1> DEFINE body == uploads[p].body
<1>0. /\ PartUnits \in Nat \ {0} /\ Len(uploads) \in Nat /\ produced \in Nat
      /\ uploads[p] \in Upload /\ buffer = <<>> /\ Len(stream) \in Nat
      /\ uploads # <<>>
  BY LengthFacts, ParameterFacts DEF Inv, Typed, TypeOK, Submits
<1>1. from \in Nat /\ p * PartUnits = from + PartUnits
  <2>1. p \in Nat /\ p > 0
    BY <1>0
  <2> QED
    BY <1>0, <2>1, Multiples
<1>2. body \in Seq(Units) /\ Len(body) \in Nat /\ body # <<>> /\ Len(body) > 0
  <2>1. body \in Seq(Units)
    BY <1>0 DEF Upload
  <2>2. body # <<>>
    BY DEF Inv, Parts
  <2> HIDE DEF body
  <2> QED
    BY <2>1, <2>2, LengthFacts
<1> DEFINE before == (Len(uploads) - 1) * PartUnits
<1> DEFINE last == Len(uploads[Len(uploads)].body)
<1>3. Len(stream) = before + last /\ before \in Nat /\ last \in Nat
  <2>1. Len(uploads) \in 1 .. Len(uploads) /\ uploads \in Seq(Upload)
    BY <1>0, LengthFacts DEF Inv, Typed, TypeOK
  <2>2. uploads[Len(uploads)] \in Upload
    BY <2>1, LengthFacts
  <2>3. uploads[Len(uploads)].body \in Seq(Units)
    BY <2>2 DEF Upload
  <2>4. before \in Nat /\ last \in Nat
    BY <1>0, <2>1, <2>3, LengthFacts, Multiples
  <2>5. Len(buffer) = 0
    BY <1>0
  <2>6. Len(stream) = before + last + Len(buffer)
    BY <1>0 DEF Inv, Parts
  <2> HIDE DEF before, last
  <2> QED
    BY <2>4, <2>5, <2>6
<1>4. PartEnd(p) = from + Len(body)
  <2>1. CASE p < Len(uploads)
    <3>1. Len(body) = PartUnits
      BY <2>1 DEF Inv, Parts
    <3> QED
      BY <1>1, <2>1, <3>1 DEF PartEnd
  <2>2. CASE ~(p < Len(uploads))
    <3>1. p = Len(uploads)
      BY <1>0, <2>2
    <3> QED
      BY <1>3, <2>2, <3>1, StreamIsArchive DEF PartEnd
  <2> QED
    BY <2>1, <2>2
<1>5. from + Len(body) <= Len(stream)
  <2>1. CASE p < Len(uploads)
    <3>1. p <= Len(uploads) - 1 /\ Len(uploads) - 1 \in Nat /\ p \in Nat
      BY <1>0, <2>1
    <3>2. Len(body) = PartUnits
      BY <2>1 DEF Inv, Parts
    <3>3. p * PartUnits <= (Len(uploads) - 1) * PartUnits
      BY <1>0, <3>1, Multiples
    <3> DEFINE end == p * PartUnits
    <3>4. end = from + Len(body) /\ end <= before
      BY <1>1, <3>2, <3>3
    <3> HIDE DEF from, body, before, last, end
    <3> QED
      BY <1>1, <1>2, <1>3, <3>4
  <2>2. CASE ~(p < Len(uploads))
    <3>1. p = Len(uploads)
      BY <1>0, <2>2
    <3> QED
      BY <1>0, <1>3, <3>1
  <2> QED
    BY <2>1, <2>2
<1>6. \A i \in 1 .. Len(body) : body[i] = stream[from + i]
  BY DEF Inv, Parts
<1>7. ASSUME NEW i \in 1 .. Len(body) PROVE body[i] = Archive[from + i]
  <2> HIDE DEF from, body
  <2>1. from + i \in 1 .. Len(stream)
    BY <1>0, <1>1, <1>2, <1>5
  <2> QED
    BY <1>6, <2>1, StreamIsArchive
<1>8. Archive \in Seq(Nat) /\ Len(Archive) = Len(stream)
  BY <1>0, ArchiveFacts, StreamIsArchive
<1>9. body = SubSeq(Archive, from + 1, from + Len(body))
  <2> HIDE DEF from, body
  <2> DEFINE cut == SubSeq(Archive, from + 1, from + Len(body))
  <2>1. from + 1 \in 1 .. Len(Archive) + 1 /\ from + Len(body) \in from .. Len(Archive)
    BY <1>0, <1>1, <1>2, <1>5, <1>8
  <2>2. /\ cut \in Seq(Nat) /\ Len(cut) = Len(body)
        /\ \A i \in 1 .. Len(body) : cut[i] = Archive[from + i]
    BY <1>0, <1>1, <1>2, <1>8, <2>1
  <2> HIDE DEF cut
  <2>3. \A i \in 1 .. Len(body) : cut[i] = body[i]
    BY <1>7, <2>2
  <2>4. cut = body
    BY <1>2, <2>2, <2>3, SeqEqual
  <2> QED
    BY <2>4 DEF cut
<1> QED
  BY <1>4, <1>9

LEMMA ArchiveUploaded ==
    ASSUME Inv, main.step = "wait", submit = "none", UploadsDone, err = NoCode
    PROVE  /\ ~failed /\ uploads # <<>>
           /\ \A p \in DOMAIN uploads :
                 /\ uploads[p].etag
                 /\ uploads[p].body = SubSeq(Archive, (p - 1) * PartUnits + 1, PartEnd(p))
<1>1. DOMAIN uploads = 1 .. Len(uploads)
  BY LengthFacts DEF Inv, Typed, TypeOK
<1>2. ~failed
  BY DEF Inv, Stages
<1>3. uploads # <<>>
  BY LengthFacts DEF Inv, Typed, TypeOK, Submits, Parts
<1>4. \A p \in DOMAIN uploads : uploads[p].etag
  BY <1>1 DEF Inv, Etags, UploadsDone
<1> QED
  BY <1>1, <1>2, <1>3, <1>4, PartsAreArchive

\* Nothing that the result says changes after it.
LEMMA ResultIsFinal ==
    ASSUME Inv, Next
    PROVE  report' = "result" =>
              Closed \/ (/\ report = "result"
                         /\ UNCHANGED <<kind, failed, produced, uploads>>)
<1>0. /\ Typed /\ Stages /\ IdlePipeline /\ Submits /\ Over
      /\ err \in Codes \cup {NoCode} /\ DOMAIN uploads = 1 .. Len(uploads)
      /\ "result" \notin Codes /\ NoCode # "result"
  BY LengthFacts DEF Inv, Typed, TypeOK, Codes, NoCode
<1>1. CASE Refused
  BY <1>0, <1>1
     DEF Refused, deflateVars, uploadVars, Step, Stages, Over, IdlePipeline, Idle,
         Streaming
<1>2. CASE Accepted
  BY <1>0, <1>2
     DEF Accepted, producerVars, deflateVars, uploadVars, Step, Stages, Over,
         IdlePipeline, Idle, Streaming
<1>3. CASE RestoreExport
  BY <1>0, <1>3
     DEF RestoreExport, deflateVars, uploadVars, Step, Stages, Over, IdlePipeline,
         Idle, Streaming
<1>4. CASE NextEntry
  BY <1>0, <1>4
     DEF NextEntry, deflateVars, uploadVars, Step, Stages, Over, IdlePipeline, Idle,
         Streaming
<1>5. CASE CommandFails
  BY <1>0, <1>5
     DEF CommandFails, producerVars, deflateVars, uploadVars, Step, Stages, Over,
         IdlePipeline, Idle, Streaming
<1>6. CASE CommandStarts
  BY <1>0, <1>6
     DEF CommandStarts, producerVars, deflateVars, uploadVars, Step, Stages, Over,
         IdlePipeline, Idle, Streaming
<1>7. CASE ProduceChunk
  BY <1>0, <1>7
     DEF ProduceChunk, deflateVars, uploadVars, Step, Stages, Over, IdlePipeline,
         Idle, Streaming
<1>8. CASE ProduceDirect
  BY <1>0, <1>8
     DEF ProduceDirect, deflateVars, uploadVars, Stages, Over, IdlePipeline, Idle,
         Streaming
<1>9. CASE SourceEnds
  BY <1>0, <1>9
     DEF SourceEnds, producerVars, deflateVars, uploadVars, Step, Stages, Over,
         IdlePipeline, Idle, Streaming
<1>10. CASE SendOrdered
  BY <1>0, <1>10
     DEF SendOrdered, producerVars, uploadVars, Stages, Over, IdlePipeline, Idle,
         Streaming
<1>11. CASE SendJob
  BY <1>0, <1>11
     DEF SendJob, producerVars, uploadVars, Step, Stages, Over, IdlePipeline, Idle,
         Streaming
<1>12. CASE CloseArchive
  BY <1>0, <1>12
     DEF CloseArchive, producerVars, deflateVars, uploadVars, Step, Stages, Over,
         IdlePipeline, Idle, Streaming
<1>13. CASE Drained
  BY <1>0, <1>13
     DEF Drained, producerVars, uploadVars, Step, Stages, Over, IdlePipeline, Idle,
         Streaming
<1>14. CASE StartTail
  BY <1>0, <1>14
     DEF StartTail, producerVars, deflateVars, uploadVars, Stages, Over, IdlePipeline,
         Idle, Streaming
<1>15. CASE MainWrites
  BY <1>0, <1>15, MainWriteActs DEF Stages, Over, IdlePipeline, Idle, Streaming
<1>16. CASE TakeJob
  BY <1>0, <1>16
     DEF TakeJob, producerVars, uploadVars, Stages, Over, IdlePipeline, Idle,
         Streaming
<1>17. CASE TakeOrdered
  BY <1>0, <1>17
     DEF TakeOrdered, producerVars, uploadVars, Stages, Over, IdlePipeline, Idle,
         Streaming
<1>18. CASE \E chunk \in working : Compress(chunk)
  BY <1>0, <1>18
     DEF Compress, producerVars, uploadVars, Stages, Over, IdlePipeline, Idle,
         Streaming
<1>19. CASE WriteChunk
  BY <1>0, <1>19, WriteChunkActs
     DEF uploadVars, Stages, Over, IdlePipeline, Idle, Streaming
<1>20. CASE SubmitCancelled
  BY <1>0, <1>20 DEF SubmitCancelled, Stages, Over, IdlePipeline, Idle, Streaming
<1>21. CASE SubmitTakesSlot
  BY <1>0, <1>21 DEF SubmitTakesSlot, Stages, Over, IdlePipeline, Idle, Streaming
<1>22. CASE \E p \in DOMAIN uploads : PutSucceeds(p)
  BY <1>0, <1>22
     DEF PutSucceeds, UploadsDone, uploadCaller, deflateVars, Stages, Over,
         IdlePipeline, Idle, Streaming
<1>23. CASE \E p \in DOMAIN uploads : PutRetries(p)
  BY <1>0, <1>23
     DEF PutRetries, UploadsDone, uploadCaller, deflateVars, Stages, Over,
         IdlePipeline, Idle, Streaming
<1>24. CASE \E p \in DOMAIN uploads : PutFails(p)
  BY <1>0, <1>24
     DEF PutFails, UploadsDone, uploadCaller, deflateVars, Stages, Over, IdlePipeline,
         Idle, Streaming
<1>25. CASE \E p \in DOMAIN uploads : GiveBuffer(p, "buffer", "slot")
  BY <1>0, <1>25
     DEF GiveBuffer, UploadsDone, uploadCaller, deflateVars, Stages, Over,
         IdlePipeline, Idle, Streaming
<1>26. CASE \E p \in DOMAIN uploads : GiveSlot(p, "slot", "done")
  BY <1>0, <1>26
     DEF GiveSlot, UploadsDone, uploadCaller, deflateVars, Stages, Over, IdlePipeline,
         Idle, Streaming
<1>27. CASE Abandon
  BY <1>0, <1>27
     DEF Abandon, deflateVars, Step, Stages, Over, IdlePipeline, Idle, Streaming
<1>28. CASE Abandoned
  BY <1>0, <1>28
     DEF Abandoned, Codes, deflateVars, uploadVars, Step, Stages, Over, IdlePipeline,
         Idle, Streaming
<1>29. CASE CloseUpload
  BY <1>0, <1>29
     DEF CloseUpload, deflateVars, Step, Stages, Over, IdlePipeline, Idle, Streaming
<1>30. CASE Closed
  BY <1>30
<1>31. CASE Signal
  BY <1>0, <1>31 DEF Signal, deflateVars, Stages, Over, IdlePipeline, Idle, Streaming
<1> QED
  BY <1>1, <1>2, <1>3, <1>4, <1>5, <1>6, <1>7, <1>8, <1>9, <1>10, <1>11, <1>12, <1>13,
     <1>14, <1>15, <1>16, <1>17, <1>18, <1>19, <1>20, <1>21, <1>22, <1>23, <1>24,
     <1>25, <1>26, <1>27, <1>28, <1>29, <1>30, <1>31
     DEF Next, Produce, Deflate, UploadPart, End, GiveBack

LEMMA ArchiveKept ==
    ASSUME Inv, Next
    PROVE  ArchiveWhole'
<1>1. SUFFICES ASSUME report' = "result" PROVE ArchiveWhole'
  BY DEF ArchiveWhole
<1>2. CASE report = "result" /\ UNCHANGED <<kind, failed, produced, uploads>>
  BY <1>2 DEF Inv, ArchiveWhole, Archive, PartEnd
<1>3. CASE Closed
  <2>1. /\ main.step = "wait" /\ submit = "none" /\ UploadsDone /\ err = NoCode
        /\ UNCHANGED <<kind, failed, produced, uploads>>
    BY <1>1, <1>3 DEF Closed, uploadVars, Inv, Typed, TypeOK, Codes
  <2>2. /\ ~failed /\ uploads # <<>>
        /\ \A p \in DOMAIN uploads :
              /\ uploads[p].etag
              /\ uploads[p].body = SubSeq(Archive, (p - 1) * PartUnits + 1, PartEnd(p))
    BY <2>1, ArchiveUploaded
  <2> QED
    BY <2>1, <2>2 DEF ArchiveWhole, Archive, PartEnd
<1> QED
  BY <1>1, <1>2, <1>3, ResultIsFinal

-----------------------------------------------------------------------------
(* The theorems *)

LEMMA InitInv == Init => Inv
<1> SUFFICES ASSUME Init PROVE Inv
  OBVIOUS
<1>1. Typed
  <2>1. /\ main \in [step : MainSteps, then : MainSteps]
        /\ main.step \in MainSteps /\ main.then \in MainSteps
    BY DEF Init, Step, MainSteps
  <2>2. \A S : <<>> \in Seq(S) /\ Len(<<>>) = 0
    BY EmptySeq
  <2>3. Cardinality(working) = 0 /\ working = {}
    BY FS_EmptySet DEF Init
  <2>4. /\ produced \in 0 .. MaxChunks + 1 /\ pool \in 0 .. Concurrency + 1
        /\ slots \in 0 .. Concurrency /\ troubles \in 0 .. MaxTroubles
    BY ParameterFacts DEF Init
  <2>5. /\ jobs \in Seq(Chunks) /\ Len(jobs) <= Workers
        /\ ordered \in Seq(Chunks) /\ Len(ordered) <= 2 * Workers
        /\ buffer \in Seq(Units) /\ Len(buffer) <= PartUnits
        /\ uploads \in Seq(Upload) /\ Len(uploads) <= PartURLs
        /\ stream \in Seq(Units) /\ Len(stream) <= MaximumUnits
    BY <2>2, ParameterFacts DEF Init
  <2>6. working \subseteq Chunks /\ Cardinality(working) <= Workers
    BY <2>3, ParameterFacts
  <2> QED
    BY <2>1, <2>4, <2>5, <2>6 DEF Init, Typed, TypeOK, Kinds, NoCode
<1>2. Live = {} /\ Held = {} /\ DOMAIN uploads = {}
  BY DEF Init, Live, Held
<1>3. SlotsHeld
  BY <1>2, FS_EmptySet DEF Init, SlotsHeld
<1>4. BuffersBounded
  <2>1. Count(buffer # <<>>) = 0 /\ pool = 0
    BY DEF Init, Count
  <2>2. {p \in DOMAIN uploads : uploads[p].phase \in {"put", "buffer"}} = {}
    BY <1>2
  <2>3. Cardinality({p \in DOMAIN uploads : uploads[p].phase \in {"put", "buffer"}}) = 0
    BY <2>2, FS_EmptySet
  <2> QED
    BY <2>1, <2>3, ParameterFacts DEF BuffersBounded
<1>5. Stages /\ IdlePipeline /\ Submits /\ Over /\ ArchiveWhole
  BY ParameterFacts
     DEF Init, Stages, Ahead, IdlePipeline, Idle, Submits, Over, ArchiveWhole, Step, NoCode
<1>6. Parts /\ Etags
  BY DEF Init, Parts, Etags
<1>7. InOrder
  <2>1. ~Sealed /\ PendingWriter = 0 /\ PendingMain = 0
    BY DEF Init, Sealed, PendingWriter, PendingMain, Count, Step
  <2> QED
    BY <2>1 DEF Init, InOrder
<1> QED
  BY <1>1, <1>3, <1>4, <1>5, <1>6, <1>7 DEF Inv

LEMMA StepInv == Inv /\ [Next]_vars => Inv'
<1> SUFFICES ASSUME Inv, [Next]_vars PROVE Inv'
  OBVIOUS
<1>1. CASE Next
  BY <1>1, TypedKept, StagesKept, IdleKept, SubmitsKept, OrderKept, PartsKept,
     EtagsKept,
     SlotsKept, BuffersKept, OverKept, ArchiveKept DEF Inv
<1>2. CASE UNCHANGED vars
  <2>1. Typed' /\ Stages' /\ IdlePipeline' /\ Submits' /\ Etags' /\ Over'
    BY <1>2 DEF vars, deflateVars, uploadVars, Inv, Typed, TypeOK, Stages, Ahead,
                IdlePipeline, Idle, Submits, Etags, Over, UploadsDone
  <2>2. SlotsHeld' /\ BuffersBounded'
    BY <1>2 DEF vars, uploadVars, Inv, SlotsHeld, Live, BuffersBounded, Count
  <2>3. InOrder'
    BY <1>2
       DEF vars, deflateVars, uploadVars, Inv, InOrder, Clean, Sealed, PendingWriter,
                PendingMain, Count
  <2>4. Parts' /\ ArchiveWhole'
    BY <1>2 DEF vars, uploadVars, Inv, Parts, ArchiveWhole, Archive, PartEnd
  <2> QED
    BY <2>1, <2>2, <2>3, <2>4 DEF Inv
<1> QED
  BY <1>1, <1>2

\* Inv is an invariant of an export: whatever the sizes, the workers, the
\* concurrency of the uploads and the requests that fail.
THEOREM ExportInvariant == Spec => []Inv
BY InitInv, StepInv, PTL DEF Spec

LEMMA InvImplies == Inv => TypeOK /\ BuffersBounded /\ ArchiveWhole
BY DEF Inv, Typed

\* Every reachable state is well typed: no channel, no pool and no slot
\* overflows, there is a URL for every part, and no archive exceeds its limit
\* (parallelDeflater, Uploader.submit, Uploader.Write).
THEOREM ExportTypeCorrect == Spec => []TypeOK
BY ExportInvariant, InvImplies, PTL

\* At most Concurrency + 1 part buffers ever exist (Uploader.takeBuffer and the
\* deferred function of uploadPart's goroutine).
THEOREM BuffersNeverExceed == Spec => []BuffersBounded
BY ExportInvariant, InvImplies, PTL

\* A reported result means that every part has its ETag and that the parts are
\* the whole archive in order, although chunks are compressed and parts are
\* uploaded in any order (uploadExport).
THEOREM ResultsAreWhole == Spec => []ArchiveWhole
BY ExportInvariant, InvImplies, PTL

=============================================================================
