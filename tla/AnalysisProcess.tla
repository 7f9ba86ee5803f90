--------------------------- MODULE AnalysisProcess ---------------------------
(***************************************************************************)
(* One bounded analysis: a parent and the worker process it spawns, joined *)
(* by three pipes and an exit status.                                      *)
(*                                                                         *)
(* The worker writes its cache message, then its answer, then exits; or it *)
(* stalls, floods a pipe, exhausts its heap, dies, or leaves a descendant  *)
(* that holds the pipes open.  The parent collects the pipes concurrently, *)
(* within a byte limit each, reaps the process group when the worker       *)
(* exits, and gives up at a deadline.  Only then does it judge what it     *)
(* collected, and once, after a cache hit it cannot validate, it runs a    *)
(* second worker that bypasses the cache.                                  *)
(*                                                                         *)
(* Bytes are counted in chunks: what matters of an output is how much of   *)
(* it was written, read, and allowed.                                      *)
(***************************************************************************)
EXTENDS Naturals

CONSTANTS Limit,         \* [Streams -> Nat], the byte limit of each pipe
          PipeCapacity,  \* chunks a pipe holds before its writer blocks
          Scripts        \* what a worker sets out to write

Streams == {"cache", "stdout", "stderr"}

\* A script: chunks of cache message and answer, and what they say.
ASSUME ProcessAssumption ==
    /\ Limit \in [Streams -> Nat]
    /\ PipeCapacity \in Nat \ {0}
    /\ Scripts \subseteq [cache : Nat, stdout : Nat,
                          message : {"none", "hit", "write"},
                          answer : {"success", "failure", "invalid", "garbage"}]

VARIABLES
    phase,       \* where the parent is
    bypass,      \* this worker was told to bypass the cache
    script,      \* what this worker sets out to write
    worker,      \* "none", "running", or how it ended
    descendant,  \* a process of the worker's group holds its pipes
    written,     \* chunks the worker has written to each pipe
    pipe,        \* chunks in each pipe
    read,        \* chunks the parent has collected from each pipe
    ended,       \* the pipes the parent has read to their end
    exit,        \* the exit the parent has seen, "none" before
    failure,     \* what interrupted the collection, "none" if nothing did
    outcome,     \* what the caller is told, "none" before
    removed,     \* cache entries removed
    published    \* the cache entry was published

workerVars == <<script, worker, descendant, written>>
readVars   == <<read, ended, exit, failure>>
resultVars == <<outcome, removed, published>>
vars == <<phase, bypass, workerVars, pipe, readVars, resultVars>>

NoChunks == [s \in Streams |-> 0]
NoScript == [cache |-> 0, stdout |-> 0, message |-> "none", answer |-> "garbage"]

Init ==
    /\ phase = "request"
    /\ bypass = FALSE
    /\ script = NoScript
    /\ worker = "none"
    /\ descendant = FALSE
    /\ written = NoChunks
    /\ pipe = NoChunks
    /\ read = NoChunks
    /\ ended = {}
    /\ exit = "none"
    /\ failure = "none"
    /\ outcome = "none"
    /\ removed = 0
    /\ published = FALSE

Tell(o) == phase' = "done" /\ outcome' = o

-----------------------------------------------------------------------------
(* The worker.                                                             *)

Fits(s) == pipe[s] < PipeCapacity

\* The answer waits until the cache message is written.
Write(s) ==
    /\ worker = "running"
    /\ s \in {"cache", "stdout"}
    /\ written[s] < script[s] /\ Fits(s)
    /\ s = "stdout" => written["cache"] = script.cache
    /\ written' = [written EXCEPT ![s] = @ + 1]
    /\ pipe' = [pipe EXCEPT ![s] = @ + 1]
    /\ UNCHANGED <<phase, bypass, script, worker, descendant, readVars, resultVars>>

Finish ==
    /\ worker = "running"
    /\ written["cache"] = script.cache /\ written["stdout"] = script.stdout
    /\ worker' = "finished"
    /\ UNCHANGED <<phase, bypass, script, descendant, written, pipe, readVars, resultVars>>

\* V8 reports the exhausted heap on stderr and aborts.
ExhaustHeap ==
    /\ worker = "running"
    /\ Fits("stderr")
    /\ written' = [written EXCEPT !["stderr"] = @ + 1]
    /\ pipe' = [pipe EXCEPT !["stderr"] = @ + 1]
    /\ worker' = "exhausted"
    /\ UNCHANGED <<phase, bypass, script, descendant, readVars, resultVars>>

Crash ==
    /\ worker = "running"
    /\ worker' = "crashed"
    /\ UNCHANGED <<phase, bypass, script, descendant, written, pipe, readVars, resultVars>>

Fork ==
    /\ worker = "running"
    /\ ~descendant
    /\ descendant' = TRUE
    /\ UNCHANGED <<phase, bypass, script, worker, written, pipe, readVars, resultVars>>

-----------------------------------------------------------------------------
(* The parent collects.                                                    *)

RejectRequest ==
    /\ phase = "request"
    /\ Tell("request-bytes")
    /\ UNCHANGED <<bypass, workerVars, pipe, readVars, removed, published>>

\* A first worker may hit the cache; one that bypasses it may not.
Spawn(sc) ==
    /\ phase \in {"request", "retry"}
    /\ bypass => sc.message # "hit"
    /\ phase' = "collect"
    /\ script' = sc
    /\ worker' = "running"
    /\ descendant' = FALSE
    /\ written' = NoChunks
    /\ pipe' = NoChunks
    /\ read' = NoChunks
    /\ ended' = {}
    /\ exit' = "none"
    /\ failure' = "none"
    /\ UNCHANGED <<bypass, resultVars>>

SpawnFails ==
    /\ phase \in {"request", "retry"}
    /\ Tell("analysis-terminated")
    /\ UNCHANGED <<bypass, workerVars, pipe, readVars, removed, published>>

\* The chunk that passes the limit interrupts the whole collection.
Read(s) ==
    /\ phase = "collect"
    /\ pipe[s] > 0
    /\ pipe' = [pipe EXCEPT ![s] = @ - 1]
    /\ read' = [read EXCEPT ![s] = @ + 1]
    /\ IF read[s] + 1 > Limit[s]
       THEN phase' = "close" /\ failure' = "limit"
       ELSE UNCHANGED <<phase, failure>>
    /\ UNCHANGED <<bypass, workerVars, ended, exit, resultVars>>

HeldOpen == worker = "running" \/ descendant

EndOfStream(s) ==
    /\ phase = "collect"
    /\ s \notin ended /\ pipe[s] = 0 /\ ~HeldOpen
    /\ ended' = ended \cup {s}
    /\ UNCHANGED <<phase, bypass, workerVars, pipe, read, exit, failure, resultVars>>

\* Mutant of Reap: the exit does not close the process scope.
ReapLeaderOnly ==
    /\ phase = "collect"
    /\ exit = "none" /\ worker # "running"
    /\ exit' = IF worker = "finished" THEN "zero" ELSE "nonzero"
    /\ UNCHANGED <<phase, bypass, workerVars, pipe, read, ended, failure, resultVars>>

\* The exit closes the process scope: what is left of the group is killed.
Reap ==
    /\ phase = "collect"
    /\ exit = "none" /\ worker # "running"
    /\ exit' = IF worker = "finished" THEN "zero" ELSE "nonzero"
    /\ descendant' = FALSE
    /\ UNCHANGED <<phase, bypass, script, worker, written, pipe, read, ended, failure,
                   resultVars>>

\* Mutant of Deadline: the timer is cleared by the first output.
DeadlineForSilence ==
    /\ phase = "collect"
    /\ read = NoChunks
    /\ phase' = "close"
    /\ failure' = "deadline"
    /\ UNCHANGED <<bypass, workerVars, pipe, read, ended, exit, resultVars>>

Deadline ==
    /\ phase = "collect"
    /\ phase' = "close"
    /\ failure' = "deadline"
    /\ UNCHANGED <<bypass, workerVars, pipe, read, ended, exit, resultVars>>

PipeFails ==
    /\ phase = "collect"
    /\ phase' = "close"
    /\ failure' = "error"
    /\ UNCHANGED <<bypass, workerVars, pipe, read, ended, exit, resultVars>>

\* Mutant of Collected: the exit is awaited, the ends of the pipes are not.
CollectedAtExit ==
    /\ phase = "collect"
    /\ exit # "none"
    /\ phase' = "judge"
    /\ UNCHANGED <<bypass, workerVars, pipe, readVars, resultVars>>

Collected ==
    /\ phase = "collect"
    /\ ended = Streams /\ exit # "none"
    /\ phase' = "judge"
    /\ UNCHANGED <<bypass, workerVars, pipe, readVars, resultVars>>

\* Mutant of Terminate: the signal is sent, the end of the group is not awaited.
TerminateUnawaited ==
    /\ phase = "close"
    /\ phase' = "judge"
    /\ UNCHANGED <<bypass, workerVars, pipe, readVars, resultVars>>

\* Leaving the scope early: the process group is terminated, by force after
\* forceKillAfter, and its end is awaited.
Terminate ==
    /\ phase = "close"
    /\ worker' = IF worker = "running" THEN "killed" ELSE worker
    /\ descendant' = FALSE
    /\ phase' = "judge"
    /\ UNCHANGED <<bypass, script, written, pipe, readVars, resultVars>>

-----------------------------------------------------------------------------
(* The parent judges.                                                      *)

\* Mutant of ProcessFailure: the exit status is not looked at.
ProcessFailureBySignal ==
    CASE failure = "deadline" -> "analysis-deadline"
      [] failure = "limit"    -> "analysis-output-bytes"
      [] failure = "error"    -> "analysis-terminated"
      [] failure = "none" /\ read["stderr"] > 0 -> "analysis-memory"
      [] OTHER -> "none"

\* The order of the checks: deadline, output limit, heap report, exit status.
ProcessFailure ==
    CASE failure = "deadline" -> "analysis-deadline"
      [] failure = "limit"    -> "analysis-output-bytes"
      [] failure = "error"    -> "analysis-terminated"
      [] failure = "none" /\ read["stderr"] > 0 -> "analysis-memory"
      [] failure = "none" /\ read["stderr"] = 0 /\ exit # "zero" -> "analysis-terminated"
      [] OTHER -> "none"

WholeAnswer  == read["stdout"] = script.stdout /\ script.answer # "garbage"
WholeMessage == read["cache"] = script.cache

InvalidHit == script.answer = "invalid" /\ WholeMessage /\ script.message = "hit"

Fail ==
    /\ phase = "judge"
    /\ ProcessFailure # "none"
    /\ Tell(ProcessFailure)
    /\ UNCHANGED <<bypass, workerVars, pipe, readVars, removed, published>>

\* Output that is no JSON is not retried, nor is anything after a bypass.
Invalidate ==
    /\ phase = "judge"
    /\ ProcessFailure = "none"
    /\ ~WholeAnswer \/ (script.answer = "invalid" /\ (bypass \/ ~InvalidHit))
    /\ Tell("invalid-result")
    /\ UNCHANGED <<bypass, workerVars, pipe, readVars, removed, published>>

\* Mutant of RetryWithoutCache: the next worker looks in the cache again.
RetryWithCache ==
    /\ phase = "judge"
    /\ ProcessFailure = "none"
    /\ WholeAnswer /\ InvalidHit
    /\ removed' = removed + 1
    /\ phase' = "retry"
    /\ UNCHANGED <<bypass, workerVars, pipe, readVars, outcome, published>>

RetryWithoutCache ==
    /\ phase = "judge"
    /\ ProcessFailure = "none"
    /\ WholeAnswer /\ InvalidHit /\ ~bypass
    /\ removed' = removed + 1
    /\ bypass' = TRUE
    /\ phase' = "retry"
    /\ UNCHANGED <<workerVars, pipe, readVars, outcome, published>>

\* Mutant of Accept: any receipt is published.
AcceptUnchecked ==
    /\ phase = "judge"
    /\ ProcessFailure = "none"
    /\ WholeAnswer /\ script.answer \in {"success", "failure"}
    /\ Tell(script.answer)
    /\ published' = (script.message = "write")
    /\ UNCHANGED <<bypass, workerVars, pipe, readVars, removed>>

\* Mutant of Accept: the answer is parsed as JSON but not validated.
AcceptUnvalidated ==
    /\ phase = "judge"
    /\ ProcessFailure = "none"
    /\ WholeAnswer
    /\ Tell(script.answer)
    /\ published' = FALSE
    /\ UNCHANGED <<bypass, workerVars, pipe, readVars, removed>>

Accept ==
    /\ phase = "judge"
    /\ ProcessFailure = "none"
    /\ WholeAnswer /\ script.answer \in {"success", "failure"}
    /\ Tell(script.answer)
    /\ published' = (script.answer = "success" /\ script.message = "write" /\ WholeMessage)
    /\ UNCHANGED <<bypass, workerVars, pipe, readVars, removed>>

-----------------------------------------------------------------------------
Worker == (\E s \in Streams : Write(s)) \/ Finish \/ ExhaustHeap \/ Crash \/ Fork

Collect ==
    \/ \E s \in Streams : Read(s) \/ EndOfStream(s)
    \/ Reap \/ Collected \/ Terminate

Judge == Fail \/ Invalidate \/ RetryWithoutCache \/ Accept

Launch == RejectRequest \/ SpawnFails \/ \E sc \in Scripts : Spawn(sc)

Next == Worker \/ Launch \/ Collect \/ Judge \/ Deadline \/ PipeFails

Spec == Init /\ [][Next]_vars

-----------------------------------------------------------------------------
(* What holds.                                                             *)

Ends == {"running", "finished", "exhausted", "crashed", "killed"}

Outcomes == {"request-bytes", "analysis-deadline", "analysis-output-bytes",
             "analysis-memory", "analysis-terminated", "invalid-result",
             "success", "failure"}

\* The shape of the state; a pipe never holds more than its capacity.
TypeOK ==
    /\ phase \in {"request", "collect", "close", "judge", "retry", "done"}
    /\ bypass \in BOOLEAN /\ descendant \in BOOLEAN /\ published \in BOOLEAN
    /\ script \in Scripts \cup {NoScript}
    /\ worker \in Ends \cup {"none"}
    /\ written \in [Streams -> Nat] /\ read \in [Streams -> Nat]
    /\ pipe \in [Streams -> 0 .. PipeCapacity]
    /\ ended \subseteq Streams
    /\ exit \in {"none", "zero", "nonzero"}
    /\ failure \in {"none", "limit", "deadline", "error"}
    /\ outcome \in Outcomes \cup {"none"}
    /\ removed \in Nat

\* No process outlives its collection: before the parent judges, retries or
\* answers, the worker and whatever it left in its group are gone.
NothingOutlives ==
    phase \in {"judge", "retry", "done"} => worker # "running" /\ ~descendant

\* A worker's answer is accepted only from a worker that finished, and whole:
\* never the beginning of an answer whose writer died or was interrupted.
AnswersAreWhole ==
    outcome \in {"success", "failure"} =>
        /\ worker = "finished" /\ failure = "none"
        /\ script.answer = outcome
        /\ read["stdout"] = script.stdout /\ script.stdout <= Limit["stdout"]

\* A heap failure is reported as one exactly when the worker died of it and
\* nothing interrupted the collection, whatever order its pipes were read in.
HeapFailureReported ==
    phase = "done" =>
        (outcome = "analysis-memory" <=> worker = "exhausted" /\ failure = "none")

\* Only an accepted success is published, with the whole receipt of the worker
\* that produced it.
PublishedIsAccepted ==
    published => /\ outcome = "success" /\ worker = "finished"
                 /\ script.message = "write" /\ read["cache"] = script.cache

\* One retry at most, and every worker after a removed entry bypasses the cache.
RetriedOnce == removed <= 1 /\ (bypass <=> removed = 1)

-----------------------------------------------------------------------------
(* Progress.  The parent's event loop reads what is readable, notices the  *)
(* ends of pipes and processes and runs on.  The deadline is a timer.      *)

ParentFairness ==
    /\ WF_vars(Launch) /\ WF_vars(Judge)
    /\ WF_vars(Reap) /\ WF_vars(Collected) /\ WF_vars(Terminate)
    /\ \A s \in Streams : WF_vars(Read(s)) /\ WF_vars(EndOfStream(s))

FairSpec == Spec /\ ParentFairness

\* The timer fires, whatever the worker does.
TimerFires == WF_vars(Deadline)

\* The worker writes as long as a pipe takes more, and finishes.
WorkerGoesOn == WF_vars(Finish) /\ \A s \in Streams : WF_vars(Write(s))

\* Every analysis ends, for either of two reasons: because of the deadline; or,
\* without any timer, because no full pipe and no descendant that keeps pipes
\* open holds up a worker that goes on (executeAnalysisProcess, scopedProcess).
AnalysisEnds == TimerFires \/ WorkerGoesOn => (phase = "collect" ~> phase = "done")
=============================================================================
