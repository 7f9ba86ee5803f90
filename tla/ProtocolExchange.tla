-------------------------- MODULE ProtocolExchange ---------------------------
(***************************************************************************)
(* What the protocol command promises: "Emit one compact JSON response     *)
(* line per request, in order ...  Invalid wire input ends the stream;     *)
(* inspection failures allow further requests and leave exit status 1."    *)
(* The input is a sequence of lines, each answered in one step; there are  *)
(* no chunks, no buffers and no pending writes.  ProtocolWire is shown to  *)
(* implement this module, however its input is cut into chunks.            *)
(***************************************************************************)
EXTENDS ProtocolLines

VARIABLES stream,    \* every byte the caller will send
          at,        \* where the first unanswered line begins
          replies,   \* the reply lines written
          closed,    \* the exchange is over
          exit       \* its exit code, 0 before

exchangeVars == <<stream, at, replies, closed, exit>>

ExchangeInit ==
    /\ stream \in Streams
    /\ at = 1
    /\ replies = <<>>
    /\ closed = FALSE
    /\ exit = 0

\* The unanswered line runs up to e: a newline or the end of the input.
LineEndsAt(e) ==
    /\ at <= Len(stream)
    /\ \A i \in at .. e - 1 : stream[i] # "newline"
    /\ e <= Len(stream) => stream[e] = "newline"

LineUpTo(e) == SubSeq(stream, at, e - 1)

\* One byte more than a line may have, and no newline among them.
TooLong ==
    /\ at + MaxLine <= Len(stream)
    /\ \A i \in at .. at + MaxLine : stream[i] # "newline"

Respond(r) ==
    /\ ~closed
    /\ \E e \in at .. Len(stream) + 1 :
          /\ LineEndsAt(e) /\ e - at <= MaxLine
          /\ Parse(LineUpTo(e)) = "request"
          /\ at' = IF e <= Len(stream) THEN e + 1 ELSE e
    /\ replies' = Append(replies, r)
    /\ UNCHANGED <<stream, closed, exit>>

Reject(k) ==
    /\ ~closed
    /\ \/ k = "input-too-large" /\ TooLong
       \/ /\ k \in InputErrors \ {"input-too-large"}
          /\ \E e \in at .. Len(stream) + 1 :
                LineEndsAt(e) /\ e - at <= MaxLine /\ Parse(LineUpTo(e)) = k
    /\ replies' = Append(replies, k)
    /\ closed' = TRUE
    /\ exit' \in ExitCodes /\ IsWorst(exit', replies')
    /\ UNCHANGED <<stream, at>>

Close ==
    /\ ~closed
    /\ at > Len(stream)
    /\ closed' = TRUE
    /\ exit' \in ExitCodes /\ IsWorst(exit', replies)
    /\ UNCHANGED <<stream, at, replies>>

\* A pipe fails, the core throws, or the caller interrupts.
Break ==
    /\ ~closed
    /\ closed' = TRUE
    /\ \/ exit' = 70 /\ replies' \in {replies, Append(replies, "unexpected-error")}
       \/ exit' \in ExitCodes /\ Covers(exit', replies) /\ UNCHANGED replies
    /\ UNCHANGED <<stream, at>>

ExchangeNext ==
    \/ \E r \in Responses : Respond(r)
    \/ \E k \in InputErrors : Reject(k)
    \/ Close \/ Break

ExchangeSpec == ExchangeInit /\ [][ExchangeNext]_exchangeVars
=============================================================================
