------------------------ MODULE AnalysisProcessProofs ------------------------
(***************************************************************************)
(* What a bounded analysis guarantees, for any limits, pipe capacity and   *)
(* worker scripts.  The argument is an account of the chunks: what was     *)
(* written is what was read plus what is in the pipe, a pipe read to its   *)
(* end is empty and has no writer left, and the parent judges an           *)
(* uninterrupted collection only when all three pipes are in that state.   *)
(***************************************************************************)
EXTENDS AnalysisProcess, TLAPS

Gone == worker # "running" /\ ~descendant

\* Chunks are neither lost nor made between the worker and the parent.
Conserved == \A s \in Streams : read[s] + pipe[s] = written[s]

\* A pipe at its end has no writer left.
EndsFinal == \A s \in ended : pipe[s] = 0 /\ Gone

\* The worker's end says what it wrote; only an exhausted heap writes to stderr.
WorkerAccount ==
    /\ worker = "finished" => \A s \in {"cache", "stdout"} : written[s] = script[s]
    /\ IF worker = "exhausted" THEN written["stderr"] > 0 ELSE written["stderr"] = 0
    /\ exit # "none" => worker \notin {"none", "running"}
    /\ exit = "zero" => worker = "finished"
    /\ (exit = "nonzero" /\ failure = "none") => worker # "finished"

\* What the parent knows when it judges.
Judgement ==
    /\ phase \in {"collect", "request"} => failure = "none"
    /\ phase = "close" => failure # "none"
    /\ failure = "none" => \A s \in Streams : read[s] <= Limit[s]
    /\ phase \in {"judge", "retry", "done"} => Gone
    /\ (phase = "judge" /\ failure = "none") => ended = Streams /\ exit # "none"
    /\ phase \notin {"request", "retry", "done"} => worker # "none"
    /\ phase = "request" => worker = "none" /\ ~descendant /\ ~bypass

Answer ==
    /\ phase # "done" => outcome = "none" /\ ~published
    /\ removed = (IF bypass THEN 1 ELSE 0)
    /\ phase = "retry" => bypass /\ worker = "finished" /\ failure = "none"

Inv ==
    /\ TypeOK
    /\ Conserved
    /\ EndsFinal
    /\ WorkerAccount
    /\ Judgement
    /\ Answer
    /\ AnswersAreWhole
    /\ HeapFailureReported
    /\ PublishedIsAccepted

\* The worker writes, forks and ends.
LEMMA WorkerKeeps ==
    ASSUME Inv, Worker
    PROVE  Inv'
<1>1. ASSUME NEW s \in Streams, Write(s) PROVE Inv'
  <2>1. TypeOK'
    BY <1>1, ProcessAssumption
    DEF Inv, Write, TypeOK, Streams, Ends, Outcomes, workerVars, readVars, resultVars,
        Fits
  <2>2. Conserved' /\ EndsFinal' /\ WorkerAccount'
    BY <1>1, ProcessAssumption
    DEF Inv, Write, TypeOK, Conserved, EndsFinal, WorkerAccount, Judgement, Answer, Gone,
        Streams, workerVars, readVars, resultVars, Fits
  <2>3. Judgement' /\ Answer'
    BY <1>1, ProcessAssumption
    DEF Inv, Write, TypeOK, Conserved, EndsFinal, WorkerAccount, Judgement, Answer, Gone,
        Streams, workerVars, readVars, resultVars, Fits
  <2>4. AnswersAreWhole' /\ HeapFailureReported' /\ PublishedIsAccepted'
    BY <1>1, ProcessAssumption
    DEF Inv, Write, TypeOK, Conserved, EndsFinal, WorkerAccount, Judgement, Answer, Gone,
        AnswersAreWhole, HeapFailureReported, PublishedIsAccepted, Streams, workerVars,
        readVars, resultVars, Fits
  <2> QED BY <2>1, <2>2, <2>3, <2>4 DEF Inv
<1>2. CASE Finish
  <2>1. TypeOK'
    BY <1>2, ProcessAssumption
    DEF Inv, Finish, TypeOK, Streams, Ends, Outcomes, workerVars, readVars, resultVars
  <2>2. Conserved' /\ EndsFinal' /\ WorkerAccount'
    BY <1>2, ProcessAssumption
    DEF Inv, Finish, TypeOK, Conserved, EndsFinal, WorkerAccount, Judgement, Answer,
        Gone, Streams, workerVars, readVars, resultVars
  <2>3. Judgement' /\ Answer'
    BY <1>2, ProcessAssumption
    DEF Inv, Finish, TypeOK, Conserved, EndsFinal, WorkerAccount, Judgement, Answer,
        Gone, Streams, workerVars, readVars, resultVars
  <2>4. AnswersAreWhole' /\ HeapFailureReported' /\ PublishedIsAccepted'
    BY <1>2, ProcessAssumption
    DEF Inv, Finish, TypeOK, Conserved, EndsFinal, WorkerAccount, Judgement, Answer,
        Gone, AnswersAreWhole, HeapFailureReported, PublishedIsAccepted, Streams,
        workerVars, readVars, resultVars
  <2> QED BY <2>1, <2>2, <2>3, <2>4 DEF Inv
<1>3. CASE ExhaustHeap
  <2>1. TypeOK'
    BY <1>3, ProcessAssumption
    DEF Inv, ExhaustHeap, TypeOK, Streams, Ends, Outcomes, workerVars, readVars,
        resultVars, Fits
  <2>2. Conserved' /\ EndsFinal' /\ WorkerAccount'
    BY <1>3, ProcessAssumption
    DEF Inv, ExhaustHeap, TypeOK, Conserved, EndsFinal, WorkerAccount, Judgement, Answer,
        Gone, Streams, workerVars, readVars, resultVars, Fits
  <2>3. Judgement' /\ Answer'
    BY <1>3, ProcessAssumption
    DEF Inv, ExhaustHeap, TypeOK, Conserved, EndsFinal, WorkerAccount, Judgement, Answer,
        Gone, Streams, workerVars, readVars, resultVars, Fits
  <2>4. AnswersAreWhole' /\ HeapFailureReported' /\ PublishedIsAccepted'
    BY <1>3, ProcessAssumption
    DEF Inv, ExhaustHeap, TypeOK, Conserved, EndsFinal, WorkerAccount, Judgement, Answer,
        Gone, AnswersAreWhole, HeapFailureReported, PublishedIsAccepted, Streams,
        workerVars, readVars, resultVars, Fits
  <2> QED BY <2>1, <2>2, <2>3, <2>4 DEF Inv
<1>4. CASE Crash
  <2>1. TypeOK'
    BY <1>4, ProcessAssumption
    DEF Inv, Crash, TypeOK, Streams, Ends, Outcomes, workerVars, readVars, resultVars
  <2>2. Conserved' /\ EndsFinal' /\ WorkerAccount'
    BY <1>4, ProcessAssumption
    DEF Inv, Crash, TypeOK, Conserved, EndsFinal, WorkerAccount, Judgement, Answer, Gone,
        Streams, workerVars, readVars, resultVars
  <2>3. Judgement' /\ Answer'
    BY <1>4, ProcessAssumption
    DEF Inv, Crash, TypeOK, Conserved, EndsFinal, WorkerAccount, Judgement, Answer, Gone,
        Streams, workerVars, readVars, resultVars
  <2>4. AnswersAreWhole' /\ HeapFailureReported' /\ PublishedIsAccepted'
    BY <1>4, ProcessAssumption
    DEF Inv, Crash, TypeOK, Conserved, EndsFinal, WorkerAccount, Judgement, Answer, Gone,
        AnswersAreWhole, HeapFailureReported, PublishedIsAccepted, Streams, workerVars,
        readVars, resultVars
  <2> QED BY <2>1, <2>2, <2>3, <2>4 DEF Inv
<1>5. CASE Fork
  <2>1. TypeOK'
    BY <1>5, ProcessAssumption
    DEF Inv, Fork, TypeOK, Streams, Ends, Outcomes, workerVars, readVars, resultVars
  <2>2. Conserved' /\ EndsFinal' /\ WorkerAccount'
    BY <1>5, ProcessAssumption
    DEF Inv, Fork, TypeOK, Conserved, EndsFinal, WorkerAccount, Judgement, Answer, Gone,
        Streams, workerVars, readVars, resultVars
  <2>3. Judgement' /\ Answer'
    BY <1>5, ProcessAssumption
    DEF Inv, Fork, TypeOK, Conserved, EndsFinal, WorkerAccount, Judgement, Answer, Gone,
        Streams, workerVars, readVars, resultVars
  <2>4. AnswersAreWhole' /\ HeapFailureReported' /\ PublishedIsAccepted'
    BY <1>5, ProcessAssumption
    DEF Inv, Fork, TypeOK, Conserved, EndsFinal, WorkerAccount, Judgement, Answer, Gone,
        AnswersAreWhole, HeapFailureReported, PublishedIsAccepted, Streams, workerVars,
        readVars, resultVars
  <2> QED BY <2>1, <2>2, <2>3, <2>4 DEF Inv
<1> QED BY <1>1, <1>2, <1>3, <1>4, <1>5 DEF Worker

\* A collection starts afresh.
LEMMA LaunchKeeps ==
    ASSUME Inv, Launch
    PROVE  Inv'
<1>1. CASE RejectRequest
  <2>1. TypeOK'
    BY <1>1, ProcessAssumption
    DEF Inv, RejectRequest, TypeOK, Streams, Ends, Outcomes, workerVars, readVars,
        resultVars, NoChunks, Tell, NoScript
  <2>2. Conserved' /\ EndsFinal' /\ WorkerAccount'
    BY <1>1, ProcessAssumption
    DEF Inv, RejectRequest, TypeOK, Conserved, EndsFinal, WorkerAccount, Judgement,
        Answer, Gone, Streams, workerVars, readVars, resultVars, NoChunks, Tell, NoScript
  <2>3. Judgement' /\ Answer'
    BY <1>1, ProcessAssumption
    DEF Inv, RejectRequest, TypeOK, Conserved, EndsFinal, WorkerAccount, Judgement,
        Answer, Gone, Streams, workerVars, readVars, resultVars, NoChunks, Tell, NoScript
  <2>4. AnswersAreWhole' /\ HeapFailureReported' /\ PublishedIsAccepted'
    BY <1>1, ProcessAssumption
    DEF Inv, RejectRequest, TypeOK, Conserved, EndsFinal, WorkerAccount, Judgement,
        Answer, Gone, AnswersAreWhole, HeapFailureReported, PublishedIsAccepted, Streams,
        workerVars, readVars, resultVars, NoChunks, Tell, NoScript
  <2> QED BY <2>1, <2>2, <2>3, <2>4 DEF Inv
<1>2. CASE SpawnFails
  <2>1. TypeOK'
    BY <1>2, ProcessAssumption
    DEF Inv, SpawnFails, TypeOK, Streams, Ends, Outcomes, workerVars, readVars,
        resultVars, NoChunks, Tell, NoScript
  <2>2. Conserved' /\ EndsFinal' /\ WorkerAccount'
    BY <1>2, ProcessAssumption
    DEF Inv, SpawnFails, TypeOK, Conserved, EndsFinal, WorkerAccount, Judgement, Answer,
        Gone, Streams, workerVars, readVars, resultVars, NoChunks, Tell, NoScript
  <2>3. Judgement' /\ Answer'
    BY <1>2, ProcessAssumption
    DEF Inv, SpawnFails, TypeOK, Conserved, EndsFinal, WorkerAccount, Judgement, Answer,
        Gone, Streams, workerVars, readVars, resultVars, NoChunks, Tell, NoScript
  <2>4. AnswersAreWhole' /\ HeapFailureReported' /\ PublishedIsAccepted'
    BY <1>2, ProcessAssumption
    DEF Inv, SpawnFails, TypeOK, Conserved, EndsFinal, WorkerAccount, Judgement, Answer,
        Gone, AnswersAreWhole, HeapFailureReported, PublishedIsAccepted, Streams,
        workerVars, readVars, resultVars, NoChunks, Tell, NoScript
  <2> QED BY <2>1, <2>2, <2>3, <2>4 DEF Inv
<1>3. ASSUME NEW sc \in Scripts, Spawn(sc) PROVE Inv'
  <2>1. TypeOK'
    <3>1. /\ NoChunks \in [Streams -> Nat]
          /\ NoChunks \in [Streams -> 0 .. PipeCapacity]
      BY ProcessAssumption DEF NoChunks
    <3> QED BY <1>3, <3>1 DEF Inv, Spawn, TypeOK, Ends, Outcomes, resultVars
  <2>2. Conserved' /\ EndsFinal' /\ WorkerAccount'
    BY <1>3, ProcessAssumption
    DEF Inv, Spawn, TypeOK, Conserved, EndsFinal, WorkerAccount, Judgement, Answer, Gone,
        Streams, workerVars, readVars, resultVars, NoChunks, Tell, NoScript
  <2>3. Judgement' /\ Answer'
    BY <1>3, ProcessAssumption
    DEF Inv, Spawn, TypeOK, Conserved, EndsFinal, WorkerAccount, Judgement, Answer, Gone,
        Streams, workerVars, readVars, resultVars, NoChunks, Tell, NoScript
  <2>4. AnswersAreWhole' /\ HeapFailureReported' /\ PublishedIsAccepted'
    BY <1>3, ProcessAssumption
    DEF Inv, Spawn, TypeOK, Conserved, EndsFinal, WorkerAccount, Judgement, Answer, Gone,
        AnswersAreWhole, HeapFailureReported, PublishedIsAccepted, Streams, workerVars,
        readVars, resultVars, NoChunks, Tell, NoScript
  <2> QED BY <2>1, <2>2, <2>3, <2>4 DEF Inv
<1> QED BY <1>1, <1>2, <1>3 DEF Launch

\* The parent collects, or cleans up.
LEMMA CollectKeeps ==
    ASSUME Inv, Collect
    PROVE  Inv'
<1>1. ASSUME NEW s \in Streams, Read(s) PROVE Inv'
  <2>1. TypeOK'
    BY <1>1, ProcessAssumption
    DEF Inv, Read, TypeOK, Streams, Ends, Outcomes, workerVars, readVars, resultVars,
        HeldOpen
  <2>2. Conserved' /\ EndsFinal' /\ WorkerAccount'
    BY <1>1, ProcessAssumption
    DEF Inv, Read, TypeOK, Conserved, EndsFinal, WorkerAccount, Judgement, Answer, Gone,
        Streams, workerVars, readVars, resultVars, HeldOpen
  <2>3. Judgement' /\ Answer'
    BY <1>1, ProcessAssumption
    DEF Inv, Read, TypeOK, Conserved, EndsFinal, WorkerAccount, Judgement, Answer, Gone,
        Streams, workerVars, readVars, resultVars, HeldOpen
  <2>4. AnswersAreWhole' /\ HeapFailureReported' /\ PublishedIsAccepted'
    BY <1>1, ProcessAssumption
    DEF Inv, Read, TypeOK, Conserved, EndsFinal, WorkerAccount, Judgement, Answer, Gone,
        AnswersAreWhole, HeapFailureReported, PublishedIsAccepted, Streams, workerVars,
        readVars, resultVars, HeldOpen
  <2> QED BY <2>1, <2>2, <2>3, <2>4 DEF Inv
<1>2. ASSUME NEW s \in Streams, EndOfStream(s) PROVE Inv'
  <2>1. TypeOK'
    BY <1>2, ProcessAssumption
    DEF Inv, EndOfStream, TypeOK, Streams, Ends, Outcomes, workerVars, readVars,
        resultVars, HeldOpen
  <2>2. Conserved' /\ EndsFinal' /\ WorkerAccount'
    BY <1>2, ProcessAssumption
    DEF Inv, EndOfStream, TypeOK, Conserved, EndsFinal, WorkerAccount, Judgement, Answer,
        Gone, Streams, workerVars, readVars, resultVars, HeldOpen
  <2>3. Judgement' /\ Answer'
    BY <1>2, ProcessAssumption
    DEF Inv, EndOfStream, TypeOK, Conserved, EndsFinal, WorkerAccount, Judgement, Answer,
        Gone, Streams, workerVars, readVars, resultVars, HeldOpen
  <2>4. AnswersAreWhole' /\ HeapFailureReported' /\ PublishedIsAccepted'
    BY <1>2, ProcessAssumption
    DEF Inv, EndOfStream, TypeOK, Conserved, EndsFinal, WorkerAccount, Judgement, Answer,
        Gone, AnswersAreWhole, HeapFailureReported, PublishedIsAccepted, Streams,
        workerVars, readVars, resultVars, HeldOpen
  <2> QED BY <2>1, <2>2, <2>3, <2>4 DEF Inv
<1>3. CASE Reap
  <2>1. TypeOK'
    BY ZenonT(40), <1>3, ProcessAssumption
    DEF Inv, Reap, TypeOK, Streams, Ends, Outcomes, workerVars, readVars, resultVars,
        HeldOpen
  <2>2. Conserved' /\ EndsFinal' /\ WorkerAccount'
    BY <1>3, ProcessAssumption
    DEF Inv, Reap, TypeOK, Conserved, EndsFinal, WorkerAccount, Judgement, Answer, Gone,
        Streams, workerVars, readVars, resultVars, HeldOpen
  <2>3. Judgement' /\ Answer'
    BY <1>3, ProcessAssumption
    DEF Inv, Reap, TypeOK, Conserved, EndsFinal, WorkerAccount, Judgement, Answer, Gone,
        Streams, workerVars, readVars, resultVars, HeldOpen
  <2>4. AnswersAreWhole' /\ HeapFailureReported' /\ PublishedIsAccepted'
    BY <1>3, ProcessAssumption
    DEF Inv, Reap, TypeOK, Conserved, EndsFinal, WorkerAccount, Judgement, Answer, Gone,
        AnswersAreWhole, HeapFailureReported, PublishedIsAccepted, Streams, workerVars,
        readVars, resultVars, HeldOpen
  <2> QED BY <2>1, <2>2, <2>3, <2>4 DEF Inv
<1>4. CASE Collected
  <2>1. TypeOK'
    BY <1>4, ProcessAssumption
    DEF Inv, Collected, TypeOK, Streams, Ends, Outcomes, workerVars, readVars,
        resultVars, HeldOpen
  <2>2. Conserved' /\ EndsFinal' /\ WorkerAccount'
    BY <1>4, ProcessAssumption
    DEF Inv, Collected, TypeOK, Conserved, EndsFinal, WorkerAccount, Judgement, Answer,
        Gone, Streams, workerVars, readVars, resultVars, HeldOpen
  <2>3. Judgement' /\ Answer'
    BY <1>4, ProcessAssumption
    DEF Inv, Collected, TypeOK, Conserved, EndsFinal, WorkerAccount, Judgement, Answer,
        Gone, Streams, workerVars, readVars, resultVars, HeldOpen
  <2>4. AnswersAreWhole' /\ HeapFailureReported' /\ PublishedIsAccepted'
    BY <1>4, ProcessAssumption
    DEF Inv, Collected, TypeOK, Conserved, EndsFinal, WorkerAccount, Judgement, Answer,
        Gone, AnswersAreWhole, HeapFailureReported, PublishedIsAccepted, Streams,
        workerVars, readVars, resultVars, HeldOpen
  <2> QED BY <2>1, <2>2, <2>3, <2>4 DEF Inv
<1>5. CASE Terminate
  <2>1. TypeOK'
    <3>1. worker' \in Ends \cup {"none"} /\ phase' = "judge" /\ descendant' = FALSE
      BY <1>5 DEF Inv, Terminate, TypeOK, Ends
    <3> QED BY <1>5, <3>1 DEF Inv, Terminate, TypeOK, readVars, resultVars
  <2>2. Conserved' /\ EndsFinal' /\ WorkerAccount'
    BY <1>5, ProcessAssumption
    DEF Inv, Terminate, TypeOK, Conserved, EndsFinal, WorkerAccount, Judgement, Answer,
        Gone, Streams, workerVars, readVars, resultVars, HeldOpen
  <2>3. Judgement' /\ Answer'
    BY <1>5, ProcessAssumption
    DEF Inv, Terminate, TypeOK, Conserved, EndsFinal, WorkerAccount, Judgement, Answer,
        Gone, Streams, workerVars, readVars, resultVars, HeldOpen
  <2>4. AnswersAreWhole' /\ HeapFailureReported' /\ PublishedIsAccepted'
    BY <1>5, ProcessAssumption
    DEF Inv, Terminate, TypeOK, Conserved, EndsFinal, WorkerAccount, Judgement, Answer,
        Gone, AnswersAreWhole, HeapFailureReported, PublishedIsAccepted, Streams,
        workerVars, readVars, resultVars, HeldOpen
  <2> QED BY <2>1, <2>2, <2>3, <2>4 DEF Inv
<1> QED BY <1>1, <1>2, <1>3, <1>4, <1>5 DEF Collect

\* The parent judges only what is whole.
LEMMA JudgeKeeps ==
    ASSUME Inv, Judge
    PROVE  Inv'
<1>1. CASE Fail
  <2>1. TypeOK'
    BY <1>1, ProcessAssumption
    DEF Inv, Fail, TypeOK, Streams, Ends, Outcomes, workerVars, readVars, resultVars,
        Tell, ProcessFailure, WholeAnswer, WholeMessage, InvalidHit
  <2>2. Conserved' /\ EndsFinal' /\ WorkerAccount'
    BY <1>1, ProcessAssumption
    DEF Inv, Fail, TypeOK, Conserved, EndsFinal, WorkerAccount, Judgement, Answer, Gone,
        Streams, workerVars, readVars, resultVars, Tell, ProcessFailure, WholeAnswer,
        WholeMessage, InvalidHit
  <2>3. Judgement' /\ Answer'
    BY <1>1, ProcessAssumption
    DEF Inv, Fail, TypeOK, Conserved, EndsFinal, WorkerAccount, Judgement, Answer, Gone,
        Streams, workerVars, readVars, resultVars, Tell, ProcessFailure, WholeAnswer,
        WholeMessage, InvalidHit
  <2>4. AnswersAreWhole' /\ HeapFailureReported' /\ PublishedIsAccepted'
    BY <1>1, ProcessAssumption
    DEF Inv, Fail, TypeOK, Conserved, EndsFinal, WorkerAccount, Judgement, Answer, Gone,
        AnswersAreWhole, HeapFailureReported, PublishedIsAccepted, Streams, workerVars,
        readVars, resultVars, Tell, ProcessFailure, WholeAnswer, WholeMessage, InvalidHit
  <2> QED BY <2>1, <2>2, <2>3, <2>4 DEF Inv
<1>2. CASE Invalidate
  <2>1. TypeOK'
    BY <1>2, ProcessAssumption
    DEF Inv, Invalidate, TypeOK, Streams, Ends, Outcomes, workerVars, readVars,
        resultVars, Tell, ProcessFailure, WholeAnswer, WholeMessage, InvalidHit
  <2>2. Conserved' /\ EndsFinal' /\ WorkerAccount'
    BY <1>2, ProcessAssumption
    DEF Inv, Invalidate, TypeOK, Conserved, EndsFinal, WorkerAccount, Judgement, Answer,
        Gone, Streams, workerVars, readVars, resultVars, Tell, ProcessFailure,
        WholeAnswer, WholeMessage, InvalidHit
  <2>3. Judgement' /\ Answer'
    BY <1>2, ProcessAssumption
    DEF Inv, Invalidate, TypeOK, Conserved, EndsFinal, WorkerAccount, Judgement, Answer,
        Gone, Streams, workerVars, readVars, resultVars, Tell, ProcessFailure,
        WholeAnswer, WholeMessage, InvalidHit
  <2>4. AnswersAreWhole' /\ HeapFailureReported' /\ PublishedIsAccepted'
    BY <1>2, ProcessAssumption
    DEF Inv, Invalidate, TypeOK, Conserved, EndsFinal, WorkerAccount, Judgement, Answer,
        Gone, AnswersAreWhole, HeapFailureReported, PublishedIsAccepted, Streams,
        workerVars, readVars, resultVars, Tell, ProcessFailure, WholeAnswer,
        WholeMessage, InvalidHit
  <2> QED BY <2>1, <2>2, <2>3, <2>4 DEF Inv
<1>3. CASE RetryWithoutCache
  <2>1. TypeOK'
    BY <1>3, ProcessAssumption
    DEF Inv, RetryWithoutCache, TypeOK, Streams, Ends, Outcomes, workerVars, readVars,
        resultVars, Tell, ProcessFailure, WholeAnswer, WholeMessage, InvalidHit
  <2>2. Conserved' /\ EndsFinal' /\ WorkerAccount'
    BY <1>3, ProcessAssumption
    DEF Inv, RetryWithoutCache, TypeOK, Conserved, EndsFinal, WorkerAccount, Judgement,
        Answer, Gone, Streams, workerVars, readVars, resultVars, Tell, ProcessFailure,
        WholeAnswer, WholeMessage, InvalidHit
  <2>3. Judgement' /\ Answer'
    BY <1>3, ProcessAssumption
    DEF Inv, RetryWithoutCache, TypeOK, Conserved, EndsFinal, WorkerAccount, Judgement,
        Answer, Gone, Streams, workerVars, readVars, resultVars, Tell, ProcessFailure,
        WholeAnswer, WholeMessage, InvalidHit
  <2>4. AnswersAreWhole' /\ HeapFailureReported' /\ PublishedIsAccepted'
    BY <1>3, ProcessAssumption
    DEF Inv, RetryWithoutCache, TypeOK, Conserved, EndsFinal, WorkerAccount, Judgement,
        Answer, Gone, AnswersAreWhole, HeapFailureReported, PublishedIsAccepted, Streams,
        workerVars, readVars, resultVars, Tell, ProcessFailure, WholeAnswer,
        WholeMessage, InvalidHit
  <2> QED BY <2>1, <2>2, <2>3, <2>4 DEF Inv
<1>4. CASE Accept
  <2>1. TypeOK'
    BY <1>4, ProcessAssumption
    DEF Inv, Accept, TypeOK, Streams, Ends, Outcomes, workerVars, readVars, resultVars,
        Tell, ProcessFailure, WholeAnswer, WholeMessage, InvalidHit
  <2>2. Conserved' /\ EndsFinal' /\ WorkerAccount'
    BY <1>4, ProcessAssumption
    DEF Inv, Accept, TypeOK, Conserved, EndsFinal, WorkerAccount, Judgement, Answer,
        Gone, Streams, workerVars, readVars, resultVars, Tell, ProcessFailure,
        WholeAnswer, WholeMessage, InvalidHit
  <2>3. Judgement' /\ Answer'
    BY <1>4, ProcessAssumption
    DEF Inv, Accept, TypeOK, Conserved, EndsFinal, WorkerAccount, Judgement, Answer,
        Gone, Streams, workerVars, readVars, resultVars, Tell, ProcessFailure,
        WholeAnswer, WholeMessage, InvalidHit
  <2>4. AnswersAreWhole' /\ HeapFailureReported' /\ PublishedIsAccepted'
    BY <1>4, ProcessAssumption
    DEF Inv, Accept, TypeOK, Conserved, EndsFinal, WorkerAccount, Judgement, Answer,
        Gone, AnswersAreWhole, HeapFailureReported, PublishedIsAccepted, Streams,
        workerVars, readVars, resultVars, Tell, ProcessFailure, WholeAnswer,
        WholeMessage, InvalidHit
  <2> QED BY <2>1, <2>2, <2>3, <2>4 DEF Inv
<1> QED BY <1>1, <1>2, <1>3, <1>4 DEF Judge

\* The collection is interrupted.
LEMMA InterruptKeeps ==
    ASSUME Inv, Deadline \/ PipeFails
    PROVE  Inv'
<1>1. CASE Deadline
  <2>1. TypeOK'
    BY <1>1, ProcessAssumption
    DEF Inv, Deadline, TypeOK, Streams, Ends, Outcomes, workerVars, readVars, resultVars
  <2>2. Conserved' /\ EndsFinal' /\ WorkerAccount'
    BY <1>1, ProcessAssumption
    DEF Inv, Deadline, TypeOK, Conserved, EndsFinal, WorkerAccount, Judgement, Answer,
        Gone, Streams, workerVars, readVars, resultVars
  <2>3. Judgement' /\ Answer'
    BY <1>1, ProcessAssumption
    DEF Inv, Deadline, TypeOK, Conserved, EndsFinal, WorkerAccount, Judgement, Answer,
        Gone, Streams, workerVars, readVars, resultVars
  <2>4. AnswersAreWhole' /\ HeapFailureReported' /\ PublishedIsAccepted'
    BY <1>1, ProcessAssumption
    DEF Inv, Deadline, TypeOK, Conserved, EndsFinal, WorkerAccount, Judgement, Answer,
        Gone, AnswersAreWhole, HeapFailureReported, PublishedIsAccepted, Streams,
        workerVars, readVars, resultVars
  <2> QED BY <2>1, <2>2, <2>3, <2>4 DEF Inv
<1>2. CASE PipeFails
  <2>1. TypeOK'
    BY <1>2, ProcessAssumption
    DEF Inv, PipeFails, TypeOK, Streams, Ends, Outcomes, workerVars, readVars, resultVars
  <2>2. Conserved' /\ EndsFinal' /\ WorkerAccount'
    BY <1>2, ProcessAssumption
    DEF Inv, PipeFails, TypeOK, Conserved, EndsFinal, WorkerAccount, Judgement, Answer,
        Gone, Streams, workerVars, readVars, resultVars
  <2>3. Judgement' /\ Answer'
    BY <1>2, ProcessAssumption
    DEF Inv, PipeFails, TypeOK, Conserved, EndsFinal, WorkerAccount, Judgement, Answer,
        Gone, Streams, workerVars, readVars, resultVars
  <2>4. AnswersAreWhole' /\ HeapFailureReported' /\ PublishedIsAccepted'
    BY <1>2, ProcessAssumption
    DEF Inv, PipeFails, TypeOK, Conserved, EndsFinal, WorkerAccount, Judgement, Answer,
        Gone, AnswersAreWhole, HeapFailureReported, PublishedIsAccepted, Streams,
        workerVars, readVars, resultVars
  <2> QED BY <2>1, <2>2, <2>3, <2>4 DEF Inv
<1> QED BY <1>1, <1>2

LEMMA StepInv ==
    ASSUME Inv, [Next]_vars
    PROVE  Inv'
<1>1. CASE UNCHANGED vars
  BY <1>1 DEF Inv, TypeOK, Conserved, EndsFinal, WorkerAccount, Judgement, Answer, Gone,
              AnswersAreWhole, HeapFailureReported, PublishedIsAccepted, vars,
              workerVars, readVars, resultVars
<1> QED BY <1>1, WorkerKeeps, LaunchKeeps, CollectKeeps, JudgeKeeps, InterruptKeeps
        DEF Next

THEOREM Invariant == Spec => []Inv
<1>1. Init => Inv
  <2>1. /\ NoChunks \in [Streams -> Nat]
        /\ NoChunks \in [Streams -> 0 .. PipeCapacity]
        /\ \A t \in Streams : NoChunks[t] = 0
    BY ProcessAssumption DEF NoChunks
  <2>2. Init => TypeOK
    <3>1. Init => bypass \in BOOLEAN /\ descendant \in BOOLEAN /\ published \in BOOLEAN
      BY Zenon DEF Init
    <3> QED BY <2>1, <3>1 DEF Init, TypeOK
  <2>3. Init => Conserved /\ EndsFinal /\ WorkerAccount
    BY <2>1 DEF Init, Conserved, EndsFinal, WorkerAccount, Streams
  <2>4. Init => Judgement /\ Answer
    BY <2>1, ProcessAssumption DEF Init, Judgement, Answer
  <2>5. Init => AnswersAreWhole /\ HeapFailureReported /\ PublishedIsAccepted
    BY DEF Init, AnswersAreWhole, HeapFailureReported, PublishedIsAccepted
  <2> QED BY <2>2, <2>3, <2>4, <2>5 DEF Inv
<1> QED BY <1>1, StepInv, PTL DEF Spec

\* The parent stays in its phases, and a pipe never holds more than it can take.
THEOREM TypeCorrect == Spec => []TypeOK
<1>1. Inv => TypeOK BY DEF Inv
<1> QED BY <1>1, Invariant, PTL

\* No process outlives the collection of its output.
THEOREM NothingLeft == Spec => []NothingOutlives
<1>1. Inv => NothingOutlives BY DEF Inv, Judgement, Gone, NothingOutlives
<1> QED BY <1>1, Invariant, PTL

\* An accepted answer is the whole answer of a worker that finished.
THEOREM WholeAnswers == Spec => []AnswersAreWhole
<1>1. Inv => AnswersAreWhole BY DEF Inv
<1> QED BY <1>1, Invariant, PTL

\* Heap exhaustion is told apart from every other end.
THEOREM HeapReported == Spec => []HeapFailureReported
<1>1. Inv => HeapFailureReported BY DEF Inv
<1> QED BY <1>1, Invariant, PTL

\* What is published was accepted, and its receipt is whole.
THEOREM Published == Spec => []PublishedIsAccepted
<1>1. Inv => PublishedIsAccepted BY DEF Inv
<1> QED BY <1>1, Invariant, PTL

\* There is at most one retry, and it bypasses the cache.
THEOREM OneRetry == Spec => []RetriedOnce
<1>1. Inv => RetriedOnce BY DEF Inv, TypeOK, Answer, RetriedOnce
<1> QED BY <1>1, Invariant, PTL
=============================================================================
