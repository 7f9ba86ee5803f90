---------------------------- MODULE ProtocolWire -----------------------------
(***************************************************************************)
(* The protocol command: request lines in on stdin, reply lines out on     *)
(* stdout, until the input ends, a line is invalid, a pipe breaks or the   *)
(* caller interrupts.                                                      *)
(*                                                                         *)
(* stdin delivers the stream in chunks cut anywhere, also inside a line or *)
(* a character.  The reader scans each chunk for newlines and keeps the    *)
(* pieces of an unfinished line; it is a generator, so it reads on only    *)
(* when its last reading has been answered and the answer written.         *)
(***************************************************************************)
EXTENDS ProtocolLines

VARIABLES
    stream,     \* every byte the caller will send
    received,   \* bytes delivered by stdin; the current chunk ends here
    pos,        \* the next byte to scan
    line,       \* the bytes kept of the unfinished line
    phase,      \* "await" a chunk, "scan" it, "answer" a reading, "write", "end", "done"
    reading,    \* the reading the generator yielded
    reply,      \* the line being written
    replies,    \* the reply lines written
    exitCode,
    aborted     \* the caller interrupted: stdin is destroyed

readerVars == <<received, pos, line, reading>>
writerVars == <<reply, replies, exitCode>>
vars == <<stream, readerVars, phase, writerVars, aborted>>

Init ==
    /\ stream \in Streams
    /\ received = 0
    /\ pos = 1
    /\ line = <<>>
    /\ phase = "await"
    /\ reading = "request"
    /\ reply = "success"
    /\ replies = <<>>
    /\ exitCode = 0
    /\ aborted = FALSE

-----------------------------------------------------------------------------
(* Reading.                                                                *)

\* A destroyed stdin delivers nothing more.
Deliver ==
    /\ phase = "await" /\ ~aborted
    /\ received' \in received + 1 .. Len(stream)
    /\ phase' = "scan"
    /\ UNCHANGED <<stream, pos, line, reading, writerVars, aborted>>

\* The rest of the chunk up to its next newline, or up to its end.
PieceEndsAt(e) ==
    /\ \A i \in pos .. e - 1 : stream[i] # "newline"
    /\ e <= received => stream[e] = "newline"

Piece(e) == SubSeq(stream, pos, e - 1)

Fits(e) == Len(line) + (e - pos) <= MaxLine

Yield(r) == phase' = "answer" /\ reading' = r

RejectLongLine ==
    /\ phase = "scan"
    /\ \E e \in pos .. received + 1 : PieceEndsAt(e) /\ ~Fits(e)
    /\ Yield("input-too-large")
    /\ UNCHANGED <<stream, received, pos, line, writerVars, aborted>>

\* Mutant of KeepPiece: the limit is looked at when the line is complete.
KeepPieceUnbounded ==
    /\ phase = "scan"
    /\ PieceEndsAt(received + 1)
    /\ line' = line \o Piece(received + 1)
    /\ pos' = received + 1
    /\ phase' = "await"
    /\ UNCHANGED <<stream, received, reading, writerVars, aborted>>

KeepPiece ==
    /\ phase = "scan"
    /\ PieceEndsAt(received + 1) /\ Fits(received + 1)
    /\ line' = line \o Piece(received + 1)
    /\ pos' = received + 1
    /\ phase' = "await"
    /\ UNCHANGED <<stream, received, reading, writerVars, aborted>>

\* Mutant of CompleteLine: what was kept from earlier chunks is not joined.
CompleteLineUnjoined ==
    /\ phase = "scan"
    /\ \E e \in pos .. received :
          /\ PieceEndsAt(e) /\ Fits(e)
          /\ line' = line \o Piece(e)
          /\ pos' = e
          /\ Yield(Parse(Piece(e)))
    /\ UNCHANGED <<stream, received, writerVars, aborted>>

CompleteLine ==
    /\ phase = "scan"
    /\ \E e \in pos .. received :
          /\ PieceEndsAt(e) /\ Fits(e)
          /\ line' = line \o Piece(e)
          /\ pos' = e
          /\ Yield(Parse(line'))
    /\ UNCHANGED <<stream, received, writerVars, aborted>>

\* Mutant of InputEnds: a last line needs its newline.
InputEndsDropping ==
    /\ phase = "await" /\ received = Len(stream)
    /\ phase' = "end"
    /\ UNCHANGED <<stream, readerVars, writerVars, aborted>>

\* The end of the input ends the last line; after a newline there is none.
InputEnds ==
    /\ phase = "await" /\ received = Len(stream)
    /\ IF line # <<>> THEN Yield(Parse(line)) ELSE phase' = "end" /\ UNCHANGED reading
    /\ UNCHANGED <<stream, received, pos, line, writerVars, aborted>>

Finish ==
    /\ phase = "end"
    /\ phase' = "done"
    /\ UNCHANGED <<stream, readerVars, writerVars, aborted>>

Abort ==
    /\ phase # "done" /\ ~aborted
    /\ aborted' = TRUE
    /\ UNCHANGED <<stream, readerVars, phase, writerVars>>

-----------------------------------------------------------------------------
(* Answering.                                                              *)

Raise(code) == exitCode' = IF code > exitCode THEN code ELSE exitCode

\* The exit code is raised before the write is awaited.
Write(r, code) ==
    /\ phase' = "write"
    /\ reply' = r
    /\ Raise(code)
    /\ UNCHANGED <<stream, readerVars, replies, aborted>>

Stop == phase' = "done" /\ UNCHANGED <<stream, readerVars, writerVars, aborted>>

\* An interrupted exchange stops; any other error is an internal one.
Throw == IF aborted THEN Stop ELSE Write("unexpected-error", 70)

Reject ==
    /\ phase = "answer" /\ reading \in InputErrors
    /\ Write(reading, 2)

\* The core answers; a response over the output limit is replaced.
Respond ==
    /\ phase = "answer" /\ reading = "request"
    /\ \/ Write("success", 0)
       \/ Write("failure", 1)
       \/ Write("json-output", 1)

CoreThrows ==
    /\ phase = "answer" /\ reading = "request"
    /\ Throw

\* Mutant of InputFails: the interruption does not destroy stdin.
InputFailsUnaborted ==
    /\ phase = "await" /\ ~aborted
    /\ Throw

InputFails ==
    /\ phase = "await"
    /\ Throw

\* Mutant of Resume: the rest of the chunk waits for the next chunk.
ResumeAtNextChunk ==
    /\ line' = <<>>
    /\ pos' = IF pos <= received THEN pos + 1 ELSE pos
    /\ phase' = IF pos > received THEN "end" ELSE "await"

\* The generator reads on: after a newline in the chunk, or at its end after
\* the end of the input.
Resume ==
    /\ line' = <<>>
    /\ pos' = IF pos <= received THEN pos + 1 ELSE pos
    /\ phase' = IF pos > received THEN "end"
                ELSE IF pos = received THEN "await"
                ELSE "scan"

Written ==
    /\ phase = "write"
    /\ replies' = Append(replies, reply)
    /\ IF reply \in Responses THEN Resume ELSE phase' = "done" /\ UNCHANGED <<pos, line>>
    /\ UNCHANGED <<stream, received, reading, reply, exitCode, aborted>>

\* A broken stdout gets no further line.
WriteFails ==
    /\ phase = "write"
    /\ phase' = "done"
    /\ IF aborted THEN UNCHANGED exitCode ELSE exitCode' = 70
    /\ UNCHANGED <<stream, readerVars, reply, replies, aborted>>

-----------------------------------------------------------------------------
Scan   == RejectLongLine \/ KeepPiece \/ CompleteLine
Answer == Reject \/ Respond \/ CoreThrows
Flush  == Written \/ WriteFails

Next == Deliver \/ InputEnds \/ InputFails \/ Abort \/ Scan \/ Answer \/ Flush \/ Finish

Spec == Init /\ [][Next]_vars

-----------------------------------------------------------------------------
(* What holds.                                                             *)

\* The shape of the state; no more is kept of a line than a line may have.
TypeOK ==
    /\ stream \in Streams
    /\ received \in 0 .. Len(stream) /\ pos \in 1 .. received + 1
    /\ line \in Seq(Bytes) /\ Len(line) <= MaxLine
    /\ phase \in {"await", "scan", "answer", "write", "end", "done"}
    /\ reading \in {"request"} \cup InputErrors
    /\ reply \in Replies /\ replies \in Seq(Replies)
    /\ exitCode \in ExitCodes
    /\ aborted \in BOOLEAN

\* Where the first unanswered line begins.
LineStart == pos - Len(line)

\* Exit code 0 says that every line sent was answered, and with a success: no
\* line is dropped at a chunk boundary, at the end of the input or on an error.
ZeroMeansAllSucceeded ==
    phase = "done" /\ exitCode = 0 /\ ~aborted =>
        /\ LineStart > Len(stream)
        /\ \A i \in DOMAIN replies : replies[i] = "success"

Exchange == INSTANCE ProtocolExchange WITH
                at <- LineStart, closed <- phase = "done",
                exit <- IF phase = "done" THEN exitCode ELSE 0

\* The chunks do not show: each line is answered once and in order, by what the
\* line says, and the exit code is the worst of the replies' codes.
AnswersEachLine == Exchange!ExchangeSpec

-----------------------------------------------------------------------------
(* Progress.  The scan is synchronous, the core answers within its own     *)
(* deadline (AnalysisProcess), the caller reads its replies or closes the  *)
(* pipe, and the destroyed stdin raises its error.  Nothing is assumed of  *)
(* what the caller sends or of when, if ever, it ends its input.           *)

Fairness ==
    /\ WF_vars(Scan) /\ WF_vars(Answer) /\ WF_vars(Flush) /\ WF_vars(Finish)
    /\ WF_vars(aborted /\ InputFails)

FairSpec == Spec /\ Fairness

Waiting == {e \in LineStart .. received : stream[e] = "newline"}

\* The lines received are answered without waiting for more input.
LinesAnsweredPromptly == Waiting # {} ~> Waiting = {} \/ phase = "done"

\* An interruption ends the exchange although its input never ends.
AbortEnds == aborted ~> phase = "done"
=============================================================================
