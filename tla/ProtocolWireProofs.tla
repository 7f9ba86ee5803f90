------------------------- MODULE ProtocolWireProofs --------------------------
(***************************************************************************)
(* ProtocolWire answers each line of every stream, for every line limit    *)
(* and every cut into chunks: proofs of its type invariant, of what exit   *)
(* code 0 means, and of the refinement of ProtocolExchange.                *)
(***************************************************************************)
EXTENDS ProtocolWire, SequenceTheorems, TLAPS

\* What is kept is the stream from the start of the line to the scan.
LineKept ==
    /\ LineStart >= 1
    /\ \A i \in 1 .. Len(line) :
          line[i] = stream[LineStart + i - 1] /\ line[i] # "newline"

\* The scan stands at the end of a line: a newline, or the end of the input.
AtLineEnd ==
    /\ LineStart <= Len(stream)
    /\ IF pos <= received THEN stream[pos] = "newline" ELSE received = Len(stream)

LineTooLong ==
    /\ LineStart + MaxLine <= Len(stream)
    /\ \A i \in LineStart .. LineStart + MaxLine : stream[i] # "newline"

\* r is what the line says, or a response to the request it is.
Justified(r) ==
    \/ r = "input-too-large" /\ LineTooLong
    \/ r \in InputErrors \ {"input-too-large"} /\ AtLineEnd /\ Parse(line) = r
    \/ r \in Responses \cup {"request"} /\ AtLineEnd /\ Parse(line) = "request"

ReaderOK ==
    /\ phase = "await" => pos = received + 1
    /\ phase = "scan" => pos <= received
    /\ phase = "answer" => Justified(reading)
    /\ phase = "end" => LineStart > Len(stream)

WriterOK ==
    /\ phase = "write" => IF reply = "unexpected-error" THEN exitCode = 70
                                                        ELSE Justified(reply)
    /\ phase \in {"await", "scan", "answer", "end"} => IsWorst(exitCode, replies)
    /\ phase = "write" /\ reply # "unexpected-error" =>
           IsWorst(exitCode, Append(replies, reply))
    /\ Covers(exitCode, replies)
    /\ phase = "done" => LineStart > Len(stream) \/ exitCode # 0 \/ aborted

\* The inductive invariant.
Inv == TypeOK /\ LineKept /\ ReaderOK /\ WriterOK

-----------------------------------------------------------------------------

\* l is what s holds in the places before p.
Precedes(l, s, p) == \A i \in 1 .. Len(l) : l[i] = s[p - Len(l) + i - 1]

LEMMA Join ==
    ASSUME NEW s \in Seq(Bytes), NEW l \in Seq(Bytes),
           NEW p \in Nat, NEW e \in Nat, p >= 1, p <= e, e <= Len(s) + 1,
           p - Len(l) >= 1, Precedes(l, s, p)
    PROVE  /\ l \o SubSeq(s, p, e - 1) \in Seq(Bytes)
           /\ Len(l \o SubSeq(s, p, e - 1)) = Len(l) + (e - p)
           /\ Precedes(l \o SubSeq(s, p, e - 1), s, e)
  <1> DEFINE t == SubSeq(s, p, e - 1)
             j == l \o t
  <1>1. t \in Seq(Bytes) /\ Len(t) = e - p /\ \A i \in 1 .. e - p : t[i] = s[p + i - 1]
    BY SubSeqProperties
  <1>2. j \in Seq(Bytes) /\ Len(j) = Len(l) + (e - p)
    BY <1>1, ConcatProperties
  <1>3. \A i \in 1 .. Len(j) : j[i] = IF i <= Len(l) THEN l[i] ELSE t[i - Len(l)]
    BY <1>1, ConcatProperties
  <1>4. ASSUME NEW i \in 1 .. Len(j)
        PROVE  j[i] = s[p - Len(l) + i - 1]
    <2>1. CASE i <= Len(l)
      BY SMTT(30), <1>3, <2>1 DEF Precedes
    <2>2. CASE i > Len(l)
      <3>1. i - Len(l) \in 1 .. e - p
        BY <1>2, <2>2
      <3>2. j[i] = t[i - Len(l)] /\ t[i - Len(l)] = s[p + (i - Len(l)) - 1]
        BY <1>1, <1>3, <2>2, <3>1
      <3>3. p + (i - Len(l)) - 1 = p - Len(l) + i - 1
        BY <1>2
      <3>4. QED
        BY <3>2, <3>3
    <2>3. QED
      BY <2>1, <2>2, <1>2
  <1>5. \A i \in 1 .. Len(j) : j[i] = s[e - Len(j) + i - 1]
    <2>1. e - Len(j) = p - Len(l)
      BY <1>2
    <2>2. QED
      BY <1>4, <2>1
  <1>6. QED
    BY <1>2, <1>5 DEF Precedes

\* What is kept is, as a sequence, what the stream holds before the scan.
LEMMA KeptIsPrefix ==
    ASSUME NEW s \in Seq(Bytes), NEW l \in Seq(Bytes), NEW p \in Nat,
           p <= Len(s) + 1, p - Len(l) >= 1, Precedes(l, s, p)
    PROVE  SubSeq(s, p - Len(l), p - 1) = l
  <1> DEFINE a == p - Len(l)
             t == SubSeq(s, a, p - 1)
  <1>1. /\ t \in Seq(Bytes)
        /\ Len(t) = Len(l)
        /\ \A i \in 1 .. Len(l) : t[i] = s[a + i - 1]
    <2>1. a \in Nat /\ p - 1 \in Nat /\ Len(l) \in Nat /\ Len(s) \in Nat
      OBVIOUS
    <2>2. CASE Len(l) = 0
      BY <2>1, <2>2, SubSeqProperties
    <2>3. CASE Len(l) # 0
      BY <2>1, <2>3, SubSeqProperties
    <2>4. QED
      BY <2>2, <2>3
  <1>2. \A i \in 1 .. Len(l) : t[i] = l[i]
    BY <1>1 DEF Precedes
  <1>3. QED
    BY <1>1, <1>2, SeqEqual

\* What a line says is a request or one of three input errors.
LEMMA ParseKind ==
    ASSUME NEW l
    PROVE  Parse(l) \in {"request"} \cup (InputErrors \ {"input-too-large"})
  BY DEF Parse, InputErrors

LEMMA CodeKind ==
    /\ \A r \in Replies : Code(r) \in ExitCodes
    /\ \A r \in InputErrors : Code(r) = 2
    /\ Code("success") = 0
    /\ Code("failure") = 1 /\ Code("json-output") = 1
    /\ Code("unexpected-error") = 70
  BY DEF Code, Replies, Responses, InputErrors, ExitCodes

\* Raising the exit code by the code of the next reply keeps it the worst.
LEMMA RaisedIsWorst ==
    ASSUME NEW c \in ExitCodes, NEW q \in Seq(Replies), NEW r \in Replies,
           Covers(c, q)
    PROVE  LET d == IF Code(r) > c THEN Code(r) ELSE c
           IN  /\ d \in ExitCodes
               /\ Covers(d, q)
               /\ Covers(d, Append(q, r))
               /\ IsWorst(c, q) => IsWorst(d, Append(q, r))
  <1> DEFINE d == IF Code(r) > c THEN Code(r) ELSE c
             a == Append(q, r)
  <1>1. Code(r) \in ExitCodes /\ \A i \in DOMAIN q : Code(q[i]) \in ExitCodes
    BY CodeKind
  <1>2. ExitCodes \subseteq Nat
    BY DEF ExitCodes
  <1>3. /\ d \in ExitCodes /\ c <= d /\ Code(r) <= d
        /\ Code(r) > c => d = Code(r)
        /\ ~(Code(r) > c) => d = c
    BY <1>1 DEF ExitCodes
  <1> HIDE DEF d
  <1>4. /\ DOMAIN q = 1 .. Len(q) /\ DOMAIN a = 1 .. Len(q) + 1
        /\ \A i \in DOMAIN q : a[i] = q[i]
        /\ a[Len(q) + 1] = r
        /\ Len(q) \in Nat
    BY AppendProperties
  <1>5. Covers(d, q)
    <2>1. ASSUME NEW i \in DOMAIN q
          PROVE  Code(q[i]) <= d
      <3>1. Code(q[i]) <= c
        BY DEF Covers
      <3>2. Code(q[i]) \in Nat /\ c \in Nat /\ d \in Nat /\ c <= d
        BY <1>1, <1>2, <1>3
      <3>3. QED
        BY <3>1, <3>2
    <2>2. QED
      BY <2>1 DEF Covers
  <1>6. Covers(d, a)
    <2>1. ASSUME NEW i \in DOMAIN a
          PROVE  Code(a[i]) <= d
      <3>1. CASE i = Len(q) + 1
        BY <1>3, <1>4, <3>1
      <3>2. CASE i # Len(q) + 1
        <4>1. i \in DOMAIN q
          BY <1>4, <3>2
        <4>2. QED
          BY <1>4, <1>5, <4>1 DEF Covers
      <3>3. QED
        BY <3>1, <3>2
    <2>2. QED
      BY <2>1 DEF Covers
  <1>7. ASSUME IsWorst(c, q)
        PROVE  IsWorst(d, a)
    <2>1. CASE Code(r) > c
      <3>1. Len(q) + 1 \in DOMAIN a /\ Code(a[Len(q) + 1]) = d
        BY <1>3, <1>4, <2>1
      <3>2. QED
        BY <1>6, <3>1 DEF IsWorst
    <2>2. CASE ~(Code(r) > c) /\ c = 0
      BY <1>3, <1>6, <2>2 DEF IsWorst
    <2>3. CASE ~(Code(r) > c) /\ c # 0
      <3>1. PICK i \in DOMAIN q : Code(q[i]) = c
        BY <1>7, <2>3 DEF IsWorst
      <3>2. i \in DOMAIN a /\ Code(a[i]) = d
        BY <1>3, <1>4, <2>3, <3>1
      <3>3. QED
        BY <1>6, <3>2 DEF IsWorst
    <2>4. QED
      BY <2>1, <2>2, <2>3
  <1>8. QED
    BY <1>3, <1>5, <1>6, <1>7 DEF d

-----------------------------------------------------------------------------

\* A piece that fits extends what is kept to the stream up to its end.
LEMMA PieceExtends ==
    ASSUME Inv, NEW e \in pos .. received + 1, PieceEndsAt(e), Fits(e)
    PROVE  LET j == line \o Piece(e)
           IN  /\ j \in Seq(Bytes)
               /\ Len(j) <= MaxLine
               /\ e - Len(j) = LineStart
               /\ \A i \in 1 .. Len(j) :
                     j[i] = stream[LineStart + i - 1] /\ j[i] # "newline"
  <1> DEFINE j == line \o Piece(e)
  <1>1. /\ stream \in Seq(Bytes) /\ line \in Seq(Bytes)
        /\ received \in Nat /\ received <= Len(stream) /\ Len(stream) \in Nat
        /\ pos \in Nat /\ pos >= 1 /\ e \in Nat /\ pos <= e /\ e <= Len(stream) + 1
        /\ Len(line) \in Nat
    BY LineAssumption DEF Inv, TypeOK
  <1>2. pos - Len(line) >= 1 /\ Precedes(line, stream, pos)
    BY DEF Inv, LineKept, LineStart, Precedes
  <1>3. /\ j \in Seq(Bytes)
        /\ Len(j) = Len(line) + (e - pos)
        /\ \A i \in 1 .. Len(j) : j[i] = stream[pos - Len(line) + i - 1]
    <2>1. j \in Seq(Bytes) /\ Len(j) = Len(line) + (e - pos) /\ Precedes(j, stream, e)
      BY <1>1, <1>2, Join DEF Piece
    <2>2. e - Len(j) = pos - Len(line)
      BY <1>1, <2>1
    <2>3. QED
      BY <2>1, <2>2 DEF Precedes
  <1>4. Len(j) <= MaxLine /\ e - Len(j) = LineStart
    BY <1>1, <1>3 DEF Fits, LineStart
  <1>5. ASSUME NEW i \in 1 .. Len(j)
        PROVE  j[i] # "newline"
    <2>1. CASE i <= Len(line)
      <3>1. i \in 1 .. Len(line)
        BY <1>1, <1>3, <2>1
      <3>2. j[i] = line[i]
        BY <1>2, <1>3, <3>1 DEF Precedes
      <3>3. QED
        BY <3>1, <3>2 DEF Inv, LineKept
    <2>2. CASE i > Len(line)
      <3>1. pos - Len(line) + i - 1 \in pos .. e - 1
        BY <1>1, <1>3, <2>2
      <3>2. QED
        BY <1>3, <3>1 DEF PieceEndsAt
    <2>3. QED
      BY <1>1, <1>3, <2>1, <2>2
  <1>6. QED
    BY <1>3, <1>4, <1>5 DEF LineStart

\* A piece that does not fit shows a line over the limit.
LEMMA LongPieceShows ==
    ASSUME Inv, NEW e \in pos .. received + 1, PieceEndsAt(e), ~Fits(e)
    PROVE  LineTooLong
  <1>1. /\ received \in Nat /\ received <= Len(stream) /\ Len(stream) \in Nat
        /\ pos \in Nat /\ pos >= 1 /\ e \in Nat /\ pos <= e /\ e <= received + 1
        /\ Len(line) \in Nat /\ MaxLine \in Nat
    BY LineAssumption DEF Inv, TypeOK
  <1>2. LineStart \in Nat /\ LineStart >= 1 /\ LineStart + MaxLine <= e - 1
    BY <1>1 DEF Inv, LineKept, LineStart, Fits
  <1>3. ASSUME NEW i \in LineStart .. LineStart + MaxLine
        PROVE  stream[i] # "newline"
    <2>1. CASE i >= pos
      BY <1>1, <1>2, <2>1 DEF PieceEndsAt
    <2>2. CASE i < pos
      <3>1. i - LineStart + 1 \in 1 .. Len(line)
        BY <1>1, <1>2, <2>2 DEF LineStart
      <3>2. LineStart + (i - LineStart + 1) - 1 = i
        BY <1>1, <1>2
      <3>3. QED
        BY <3>1, <3>2 DEF Inv, LineKept
    <2>3. QED
      BY <1>1, <1>2, <2>1, <2>2
  <1>4. QED
    BY <1>1, <1>2, <1>3 DEF LineTooLong

-----------------------------------------------------------------------------
(* The invariant is inductive.                                             *)

LEMMA InitInv == Init => Inv
  <1> SUFFICES ASSUME Init PROVE Inv
    OBVIOUS
  <1>1. stream \in Seq(Bytes) /\ Len(stream) \in Nat /\ MaxLine \in Nat
    BY LineAssumption DEF Init
  <1>2. TypeOK
    <2>1. <<>> \in Seq(Bytes) /\ Len(<<>>) = 0 /\ <<>> \in Seq(Replies)
      OBVIOUS
    <2>2. line \in Seq(Bytes) /\ Len(line) <= MaxLine /\ replies \in Seq(Replies)
      BY <1>1, <2>1 DEF Init
    <2>3. stream \in Streams /\ received \in 0 .. Len(stream) /\ pos \in 1 .. received + 1
      BY <1>1 DEF Init
    <2>4. QED
      BY <2>2, <2>3 DEF Init, TypeOK, Replies, Responses, ExitCodes
  <1>3. LineKept
    BY <1>1 DEF Init, LineKept, LineStart
  <1>4. ReaderOK
    BY <1>1 DEF Init, ReaderOK
  <1>5. WriterOK
    BY DEF Init, WriterOK, IsWorst, Covers
  <1>6. QED
    BY <1>2, <1>3, <1>4, <1>5 DEF Inv

\* The types as the arithmetic of the later steps needs them.
LEMMA Numbers ==
    ASSUME Inv
    PROVE  /\ stream \in Seq(Bytes) /\ line \in Seq(Bytes) /\ replies \in Seq(Replies)
           /\ Len(stream) \in Nat /\ Len(line) \in Nat /\ MaxLine \in Nat
           /\ Len(line) <= MaxLine
           /\ received \in Nat /\ received <= Len(stream)
           /\ pos \in Nat /\ pos >= 1 /\ pos <= received + 1
           /\ LineStart \in Nat /\ LineStart >= 1
  BY LineAssumption DEF Inv, TypeOK, LineKept, LineStart

\* Writing the reply to a justified reading keeps the invariant.
LEMMA WriteKeepsInv ==
    ASSUME Inv, phase \in {"await", "answer"},
           NEW r \in Replies, Write(r, Code(r)),
           r # "unexpected-error" => Justified(r)
    PROVE  Inv'
  <1> DEFINE d == IF Code(r) > exitCode THEN Code(r) ELSE exitCode
  <1>1. /\ exitCode' = d /\ reply' = r /\ phase' = "write"
        /\ UNCHANGED <<stream, received, pos, line, reading, replies, aborted>>
    BY DEF Write, Raise, readerVars
  <1>2. exitCode \in ExitCodes /\ replies \in Seq(Replies) /\ Covers(exitCode, replies)
    BY DEF Inv, TypeOK, WriterOK
  <1>3. IsWorst(exitCode, replies)
    BY DEF Inv, WriterOK
  <1>4. /\ d \in ExitCodes /\ Covers(d, replies)
        /\ IsWorst(d, Append(replies, r))
    BY <1>2, <1>3, RaisedIsWorst
  <1>5. r = "unexpected-error" => d = 70
    BY <1>2, CodeKind DEF ExitCodes
  <1> HIDE DEF d
  <1>6. TypeOK'
    BY <1>1, <1>4 DEF Inv, TypeOK
  <1>7. LineKept'
    BY <1>1 DEF Inv, LineKept, LineStart
  <1>8. ReaderOK'
    BY <1>1 DEF ReaderOK
  <1>9. WriterOK'
    <2>1. Justified(r) => Justified(r)'
      BY <1>1 DEF Justified, AtLineEnd, LineTooLong, LineStart
    <2>2. /\ reply' = r /\ phase' = "write" /\ exitCode' = d /\ replies' = replies
      BY <1>1
    <2>3. QED
      BY <1>4, <1>5, <2>1, <2>2 DEF WriterOK
  <1>10. QED
    BY <1>6, <1>7, <1>8, <1>9 DEF Inv

\* Stopping on an interruption keeps it.
LEMMA StopKeepsInv ==
    ASSUME Inv, Stop, aborted
    PROVE  Inv'
  <1>1. /\ phase' = "done" /\ aborted'
        /\ UNCHANGED <<stream, received, pos, line, reading, reply, replies, exitCode, aborted>>
    BY DEF Stop, readerVars, writerVars
  <1>2. TypeOK'
    BY <1>1 DEF Inv, TypeOK
  <1>3. LineKept'
    BY <1>1 DEF Inv, LineKept, LineStart
  <1>4. ReaderOK'
    BY <1>1 DEF ReaderOK
  <1>5. WriterOK'
    BY <1>1 DEF Inv, WriterOK, Covers
  <1>6. QED
    BY <1>2, <1>3, <1>4, <1>5 DEF Inv

\* What an error does: the exchange stops or an internal error is written.
LEMMA ThrowKeepsInv ==
    ASSUME Inv, phase \in {"await", "answer"}, Throw
    PROVE  Inv'
  <1>1. CASE aborted
    BY <1>1, StopKeepsInv DEF Throw
  <1>2. CASE ~aborted
    <2>1. "unexpected-error" \in Replies /\ Write("unexpected-error", Code("unexpected-error"))
      BY <1>2, CodeKind DEF Throw, Replies
    <2>2. QED
      BY <2>1, WriteKeepsInv
  <1>3. QED
    BY <1>1, <1>2

\* A scan of the current chunk.
LEMMA ScanKeepsInv ==
    ASSUME Inv, Scan
    PROVE  Inv'
  <1>1. UNCHANGED <<stream, received, reply, replies, exitCode, aborted>>
    BY DEF Scan, RejectLongLine, KeepPiece, CompleteLine, writerVars
  <1>2. phase = "scan"
    BY DEF Scan, RejectLongLine, KeepPiece, CompleteLine
  <1>3. /\ IsWorst(exitCode, replies) /\ Covers(exitCode, replies)
    BY <1>2 DEF Inv, WriterOK
  <1>4. phase' \in {"await", "answer"} => WriterOK'
    BY <1>1, <1>3 DEF WriterOK, IsWorst, Covers
  <1>5. CASE RejectLongLine
    <2>1. PICK e \in pos .. received + 1 : PieceEndsAt(e) /\ ~Fits(e)
      BY <1>5 DEF RejectLongLine
    <2>2. /\ phase' = "answer" /\ reading' = "input-too-large"
          /\ UNCHANGED <<pos, line>>
      BY <1>5 DEF RejectLongLine, Yield
    <2>3. LineTooLong
      BY <2>1, LongPieceShows
    <2>4. TypeOK'
      BY <1>1, <2>2 DEF Inv, TypeOK, InputErrors
    <2>5. LineKept'
      BY <1>1, <2>2 DEF Inv, LineKept, LineStart
    <2>6. ReaderOK'
      BY <1>1, <2>2, <2>3 DEF ReaderOK, Justified, LineTooLong, LineStart
    <2>7. QED
      BY <1>4, <2>2, <2>4, <2>5, <2>6 DEF Inv
  <1>6. CASE KeepPiece
    <2> DEFINE e == received + 1
               j == line \o Piece(e)
    <2>1. /\ PieceEndsAt(e) /\ Fits(e)
          /\ line' = j /\ pos' = e /\ phase' = "await" /\ UNCHANGED reading
      BY <1>6 DEF KeepPiece
    <2>2. e \in pos .. received + 1 /\ e \in 1 .. received + 1 /\ received \in Nat
      BY Numbers
    <2>3. /\ j \in Seq(Bytes) /\ Len(j) <= MaxLine /\ e - Len(j) = LineStart
          /\ \A i \in 1 .. Len(j) : j[i] = stream[LineStart + i - 1] /\ j[i] # "newline"
      BY <2>1, <2>2, PieceExtends
    <2> HIDE DEF j
    <2>4. LineStart' = LineStart
      BY <2>1, <2>3 DEF LineStart
    <2>5. TypeOK'
      BY <1>1, <2>1, <2>2, <2>3 DEF Inv, TypeOK
    <2>6. LineKept'
      BY <1>1, <2>1, <2>3, <2>4 DEF Inv, LineKept
    <2>7. ReaderOK'
      BY <1>1, <2>1 DEF ReaderOK
    <2>8. QED
      BY <1>4, <2>1, <2>5, <2>6, <2>7 DEF Inv
  <1>7. CASE CompleteLine
    <2>1. PICK e \in pos .. received :
             /\ PieceEndsAt(e) /\ Fits(e)
             /\ line' = line \o Piece(e) /\ pos' = e /\ Yield(Parse(line'))
      BY <1>7 DEF CompleteLine
    <2> DEFINE j == line \o Piece(e)
    <2>2. /\ e \in pos .. received + 1 /\ e \in 1 .. received + 1
          /\ e <= received /\ e \in Nat
      BY Numbers
    <2>3. /\ j \in Seq(Bytes) /\ Len(j) <= MaxLine /\ e - Len(j) = LineStart
          /\ \A i \in 1 .. Len(j) : j[i] = stream[LineStart + i - 1] /\ j[i] # "newline"
      BY <2>1, <2>2, PieceExtends
    <2> HIDE DEF j
    <2>4. line' = j /\ pos' = e /\ phase' = "answer" /\ reading' = Parse(j)
      BY <2>1 DEF Yield, j
    <2>5. LineStart' = LineStart
      BY <2>3, <2>4 DEF LineStart
    <2>6. Parse(j) \in {"request"} \cup (InputErrors \ {"input-too-large"})
      BY ParseKind
    <2>7. TypeOK'
      BY <1>1, <2>2, <2>3, <2>4, <2>6 DEF Inv, TypeOK
    <2>8. LineKept'
      BY <1>1, <2>3, <2>4, <2>5 DEF Inv, LineKept
    <2>9. AtLineEnd'
      <3>1. stream[e] = "newline"
        BY <2>1, <2>2 DEF PieceEndsAt
      <3>2. LineStart <= Len(stream)
        BY <2>2, Numbers DEF LineStart
      <3>3. QED
        BY <1>1, <2>2, <2>4, <2>5, <3>1, <3>2 DEF AtLineEnd
    <2>10. ReaderOK'
      BY <2>4, <2>6, <2>9 DEF ReaderOK, Justified
    <2>11. QED
      BY <1>4, <2>4, <2>7, <2>8, <2>10 DEF Inv
  <1>8. QED
    BY <1>5, <1>6, <1>7 DEF Scan

\* What the reader does outside the scan.
LEMMA ReaderKeepsInv ==
    ASSUME Inv, Deliver \/ InputEnds \/ InputFails \/ Abort \/ Finish
    PROVE  Inv'
  <1>1. CASE Deliver
    <2>1. /\ phase = "await" /\ phase' = "scan" /\ received' \in received + 1 .. Len(stream)
          /\ UNCHANGED <<stream, pos, line, reading, reply, replies, exitCode, aborted>>
      BY <1>1 DEF Deliver, writerVars
    <2>2. received' \in Nat /\ received' <= Len(stream) /\ received' > received
      BY <2>1, Numbers
    <2>3. TypeOK'
      <3>1. received' \in 0 .. Len(stream') /\ pos' \in 1 .. received' + 1
        BY <2>1, <2>2, Numbers
      <3>2. QED
        BY <2>1, <3>1 DEF Inv, TypeOK
    <2>4. LineKept'
      BY <2>1 DEF Inv, LineKept, LineStart
    <2>5. ReaderOK'
      BY <2>1, <2>2, Numbers DEF ReaderOK
    <2>6. WriterOK'
      BY <2>1 DEF Inv, WriterOK, IsWorst, Covers
    <2>7. QED
      BY <2>3, <2>4, <2>5, <2>6 DEF Inv
  <1>2. CASE InputEnds
    <2>1. /\ phase = "await" /\ received = Len(stream) /\ pos = received + 1
          /\ UNCHANGED <<stream, received, pos, line, reply, replies, exitCode, aborted>>
      BY <1>2 DEF InputEnds, writerVars, Inv, ReaderOK
    <2>2. LineKept'
      BY <2>1 DEF Inv, LineKept, LineStart
    <2>3. phase' \in {"answer", "end"} => WriterOK'
      BY <2>1 DEF Inv, WriterOK, IsWorst, Covers
    <2>4. CASE line # <<>>
      <3>1. phase' = "answer" /\ reading' = Parse(line)
        BY <1>2, <2>4 DEF InputEnds, Yield
      <3>2. Parse(line) \in {"request"} \cup (InputErrors \ {"input-too-large"})
        BY ParseKind
      <3>3. Len(line) # 0
        BY <2>4, Numbers, EmptySeq
      <3>4. AtLineEnd /\ AtLineEnd'
        BY <2>1, <3>3, Numbers DEF AtLineEnd, LineStart
      <3>5. TypeOK'
        BY <2>1, <3>1, <3>2 DEF Inv, TypeOK
      <3>6. ReaderOK'
        BY <2>1, <3>1, <3>2, <3>4 DEF ReaderOK, Justified
      <3>7. QED
        BY <2>2, <2>3, <3>1, <3>5, <3>6 DEF Inv
    <2>5. CASE line = <<>>
      <3>1. phase' = "end" /\ UNCHANGED reading
        BY <1>2, <2>5 DEF InputEnds
      <3>2. LineStart' > Len(stream')
        BY <2>1, <2>5, Numbers DEF LineStart
      <3>3. TypeOK'
        BY <2>1, <3>1 DEF Inv, TypeOK
      <3>4. ReaderOK'
        BY <3>1, <3>2 DEF ReaderOK
      <3>5. QED
        BY <2>2, <2>3, <3>1, <3>3, <3>4 DEF Inv
    <2>6. QED
      BY <2>4, <2>5
  <1>3. CASE InputFails
    BY <1>3, ThrowKeepsInv DEF InputFails
  <1>4. CASE Abort
    <2>1. /\ phase # "done" /\ aborted'
          /\ UNCHANGED <<stream, received, pos, line, phase, reading, reply, replies, exitCode>>
      BY <1>4 DEF Abort, readerVars, writerVars
    <2>2. TypeOK' /\ LineKept'
      BY <1>4, <2>1 DEF Abort, Inv, TypeOK, LineKept, LineStart
    <2>3. ReaderOK'
      BY <2>1 DEF Inv, ReaderOK, Justified, AtLineEnd, LineTooLong, LineStart
    <2>4. WriterOK'
      BY <2>1 DEF Inv, WriterOK, IsWorst, Covers, Justified, AtLineEnd, LineTooLong, LineStart
    <2>5. QED
      BY <2>2, <2>3, <2>4 DEF Inv
  <1>5. CASE Finish
    <2>1. /\ phase = "end" /\ phase' = "done"
          /\ UNCHANGED <<stream, received, pos, line, reading, reply, replies, exitCode, aborted>>
      BY <1>5 DEF Finish, readerVars, writerVars
    <2>2. TypeOK' /\ LineKept'
      BY <2>1 DEF Inv, TypeOK, LineKept, LineStart
    <2>3. ReaderOK'
      BY <2>1 DEF ReaderOK
    <2>4. WriterOK'
      BY <2>1 DEF Inv, ReaderOK, WriterOK, Covers, LineStart
    <2>5. QED
      BY <2>2, <2>3, <2>4 DEF Inv
  <1>6. QED
    BY <1>1, <1>2, <1>3, <1>4, <1>5

\* What the writer does.
LEMMA WriterKeepsInv ==
    ASSUME Inv, Answer \/ Flush
    PROVE  Inv'
  <1>1. CASE Reject
    <2>1. phase = "answer" /\ reading \in InputErrors /\ Write(reading, Code(reading))
      BY <1>1, CodeKind DEF Reject
    <2>2. reading \in Replies /\ Justified(reading)
      BY <2>1 DEF Replies, Inv, ReaderOK
    <2>3. QED
      BY <2>1, <2>2, WriteKeepsInv
  <1>2. CASE Respond
    <2>1. phase = "answer" /\ AtLineEnd /\ Parse(line) = "request"
      BY <1>2 DEF Respond, Inv, ReaderOK, Justified, InputErrors
    <2>2. \A r \in Responses : Justified(r) /\ r \in Replies
      BY <2>1 DEF Justified, Replies
    <2>3. PICK r \in Responses : Write(r, Code(r))
      BY <1>2, CodeKind DEF Respond, Responses
    <2>4. QED
      BY <2>1, <2>2, <2>3, WriteKeepsInv
  <1>3. CASE CoreThrows
    BY <1>3, ThrowKeepsInv DEF CoreThrows
  <1>4. CASE Written
    <2>1. /\ phase = "write" /\ replies' = Append(replies, reply) /\ reply \in Replies
          /\ UNCHANGED <<stream, received, reading, reply, exitCode, aborted>>
      BY <1>4 DEF Written, Inv, TypeOK
    <2>2. replies' \in Seq(Replies) /\ Covers(exitCode, replies')
      <3>1. CASE reply = "unexpected-error"
        <4>1. exitCode = 70
          BY <2>1, <3>1 DEF Inv, WriterOK
        <4>2. Append(replies, reply) \in Seq(Replies)
          BY <2>1, Numbers
        <4>3. \A i \in DOMAIN Append(replies, reply) : Append(replies, reply)[i] \in Replies
          BY <4>2
        <4>4. \A c \in ExitCodes : c <= 70
          BY DEF ExitCodes
        <4>5. QED
          BY <2>1, <4>1, <4>2, <4>3, <4>4, CodeKind DEF Covers
      <3>2. CASE reply # "unexpected-error"
        BY <2>1, <3>2, Numbers DEF Inv, WriterOK, IsWorst
      <3>3. QED
        BY <3>1, <3>2
    <2>3. CASE reply \in Responses
      <3>1. /\ line' = <<>>
            /\ pos' = IF pos <= received THEN pos + 1 ELSE pos
            /\ phase' = IF pos > received THEN "end"
                        ELSE IF pos = received THEN "await" ELSE "scan"
        BY <1>4, <2>3 DEF Written, Resume
      <3>2. AtLineEnd /\ reply # "unexpected-error"
        BY <2>1, <2>3 DEF Inv, WriterOK, Justified, Responses, InputErrors
      <3>3. IsWorst(exitCode, replies')
        BY <2>1, <3>2 DEF Inv, WriterOK
      <3>4. Len(line') = 0 /\ line' \in Seq(Bytes)
        BY <3>1
      <3>5. pos' \in 1 .. received + 1 /\ LineStart' = pos'
        BY <3>1, <3>4, Numbers DEF LineStart
      <3>6. TypeOK'
        BY <2>1, <2>2, <3>1, <3>4, <3>5, Numbers DEF Inv, TypeOK
      <3>7. LineKept'
        BY <3>4, <3>5, Numbers DEF LineKept
      <3>8. ReaderOK'
        BY <2>1, <3>1, <3>2, <3>5, Numbers DEF ReaderOK, AtLineEnd
      <3>9. WriterOK'
        BY <2>1, <2>2, <3>1, <3>3 DEF WriterOK, IsWorst, Covers
      <3>10. QED
        BY <3>6, <3>7, <3>8, <3>9 DEF Inv
    <2>4. CASE reply \notin Responses
      <3>1. phase' = "done" /\ UNCHANGED <<pos, line>>
        BY <1>4, <2>4 DEF Written
      <3>2. exitCode # 0
        <4>1. CASE reply = "unexpected-error"
          BY <2>1, <4>1 DEF Inv, WriterOK
        <4>2. CASE reply \in InputErrors
          <5>1. IsWorst(exitCode, Append(replies, reply)) /\ Code(reply) = 2
            BY <2>1, <4>2, CodeKind DEF Inv, WriterOK, InputErrors
          <5>2. /\ Len(replies) + 1 \in DOMAIN Append(replies, reply)
                /\ Append(replies, reply)[Len(replies) + 1] = reply
            BY Numbers, <2>1
          <5>3. 2 <= exitCode
            BY <5>1, <5>2 DEF IsWorst, Covers
          <5>4. QED
            BY <5>3
        <4>3. QED
          BY <2>1, <2>4, <4>1, <4>2 DEF Replies
      <3>3. TypeOK'
        BY <2>1, <2>2, <3>1 DEF Inv, TypeOK
      <3>4. LineKept'
        BY <2>1, <3>1 DEF Inv, LineKept, LineStart
      <3>5. ReaderOK' /\ WriterOK'
        BY <2>1, <2>2, <3>1, <3>2 DEF ReaderOK, WriterOK
      <3>6. QED
        BY <3>3, <3>4, <3>5 DEF Inv
    <2>5. QED
      BY <2>3, <2>4
  <1>5. CASE WriteFails
    <2>1. /\ phase' = "done"
          /\ IF aborted THEN exitCode' = exitCode ELSE exitCode' = 70
          /\ UNCHANGED <<stream, received, pos, line, reading, reply, replies, aborted>>
      BY <1>5 DEF WriteFails, readerVars
    <2>2. TypeOK' /\ LineKept'
      BY <2>1 DEF Inv, TypeOK, LineKept, LineStart, ExitCodes
    <2>3. Covers(exitCode', replies)
      <3>1. \A c \in ExitCodes : c <= 70
        BY DEF ExitCodes
      <3>2. \A i \in DOMAIN replies : replies[i] \in Replies
        BY Numbers
      <3>3. Covers(70, replies) /\ Covers(exitCode, replies)
        BY <3>1, <3>2, CodeKind DEF Covers, Inv, WriterOK
      <3>4. QED
        BY <2>1, <3>3
    <2>4. ReaderOK' /\ WriterOK'
      BY <2>1, <2>3 DEF ReaderOK, WriterOK
    <2>5. QED
      BY <2>2, <2>4 DEF Inv
  <1>6. QED
    BY <1>1, <1>2, <1>3, <1>4, <1>5 DEF Answer, Flush

LEMMA StutterKeepsInv == Inv /\ UNCHANGED vars => Inv'
  BY DEF Inv, TypeOK, LineKept, LineStart, ReaderOK, WriterOK, IsWorst, Covers,
         Justified, AtLineEnd, LineTooLong, vars, readerVars, writerVars

THEOREM Invariant == Spec => []Inv
  <1>1. Inv /\ [Next]_vars => Inv'
    BY ScanKeepsInv, ReaderKeepsInv, WriterKeepsInv, StutterKeepsInv DEF Next
  <1>2. QED
    BY InitInv, <1>1, PTL DEF Spec

\* The reader keeps no more of a line than a line may have, and the state has
\* its shape, for every limit, every stream and every cut into chunks.
THEOREM TypeCorrect == Spec => []TypeOK
  <1>1. Inv => TypeOK
    BY DEF Inv
  <1>2. QED
    BY Invariant, <1>1, PTL

\* Exit code 0 means that every line sent was answered, and with a success.
THEOREM ZeroIsSuccess == Spec => []ZeroMeansAllSucceeded
  <1>1. Inv => ZeroMeansAllSucceeded
    <2>1. SUFFICES ASSUME Inv, phase = "done", exitCode = 0, ~aborted
                   PROVE  /\ LineStart > Len(stream)
                          /\ \A i \in DOMAIN replies : replies[i] = "success"
      BY DEF ZeroMeansAllSucceeded
    <2>2. LineStart > Len(stream) /\ Covers(0, replies)
      BY <2>1 DEF Inv, WriterOK
    <2>3. \A r \in Replies : Code(r) <= 0 => r = "success"
      BY DEF Code, Replies, Responses, InputErrors
    <2>4. \A i \in DOMAIN replies : replies[i] \in Replies
      BY <2>1, Numbers
    <2>5. QED
      BY <2>2, <2>3, <2>4 DEF Covers
  <1>2. QED
    BY Invariant, <1>1, PTL

-----------------------------------------------------------------------------
(* The wire implements the exchange.                                       *)

\* The unanswered line as the exchange sees it.
LEMMA LineSeen ==
    ASSUME Inv, AtLineEnd
    PROVE  /\ pos \in LineStart .. Len(stream) + 1
           /\ Exchange!LineEndsAt(pos)
           /\ pos - LineStart <= MaxLine
           /\ Exchange!LineUpTo(pos) = line
  <1>1. pos \in LineStart .. Len(stream) + 1 /\ pos - LineStart = Len(line)
    BY Numbers DEF LineStart
  <1>2. Exchange!LineUpTo(pos) = line
    <2>1. Precedes(line, stream, pos) /\ pos - Len(line) >= 1
      BY DEF Inv, LineKept, LineStart, Precedes
    <2>2. /\ stream \in Seq(Bytes) /\ line \in Seq(Bytes)
          /\ pos \in Nat /\ pos <= Len(stream) + 1
      BY Numbers
    <2>3. SubSeq(stream, pos - Len(line), pos - 1) = line
      BY <2>1, <2>2, KeptIsPrefix
    <2>4. QED
      BY <2>3 DEF Exchange!LineUpTo, LineStart
  <1>3. ASSUME NEW i \in LineStart .. pos - 1
        PROVE  stream[i] # "newline"
    <2>1. i - LineStart + 1 \in 1 .. Len(line) /\ LineStart + (i - LineStart + 1) - 1 = i
      BY <1>1, Numbers
    <2>2. QED
      BY <2>1 DEF Inv, LineKept
  <1>4. pos <= Len(stream) => stream[pos] = "newline"
    BY Numbers DEF AtLineEnd
  <1>5. QED
    BY <1>1, <1>2, <1>3, <1>4, Numbers DEF AtLineEnd, Exchange!LineEndsAt

\* The exchange reads lines and codes as the wire does.
LEMMA SameWords ==
    /\ Exchange!Responses = Responses /\ Exchange!InputErrors = InputErrors
    /\ Exchange!ExitCodes = ExitCodes
    /\ \A l : Exchange!Parse(l) = Parse(l)
    /\ \A c, q : /\ Exchange!Covers(c, q) <=> Covers(c, q)
                 /\ Exchange!IsWorst(c, q) <=> IsWorst(c, q)
  BY DEF Exchange!Responses, Exchange!InputErrors, Exchange!ExitCodes, Exchange!Parse,
         Exchange!Covers, Exchange!IsWorst, Exchange!Code, Exchange!IsUtf8,
         Exchange!IsBlank, Exchange!IsJson, Responses, InputErrors, ExitCodes, Parse,
         Covers, IsWorst, Code, IsUtf8, IsBlank, IsJson

\* A step that leaves the answered lines, the replies and the end alone.
LEMMA Silent ==
    ASSUME phase # "done", phase' # "done", LineStart' = LineStart,
           UNCHANGED <<stream, replies>>
    PROVE  UNCHANGED Exchange!exchangeVars
  BY DEF Exchange!exchangeVars

LEMMA WriteSilent ==
    ASSUME phase # "done", NEW r, NEW c, Write(r, c)
    PROVE  UNCHANGED Exchange!exchangeVars
  <1>1. phase' = "write" /\ UNCHANGED <<stream, pos, line, replies>>
    BY DEF Write, readerVars
  <1>2. QED
    BY <1>1, Silent DEF LineStart

\* An error stops the exchange or is yet to be written.
LEMMA ThrowBreaks ==
    ASSUME Inv, phase \in {"await", "answer"}, Throw
    PROVE  [Exchange!ExchangeNext]_(Exchange!exchangeVars)
  <1>1. CASE aborted
    <2>1. /\ phase' = "done" /\ UNCHANGED <<stream, pos, line, replies, exitCode>>
      BY <1>1 DEF Throw, Stop, readerVars, writerVars
    <2>2. exitCode \in ExitCodes /\ Covers(exitCode, replies)
      BY DEF Inv, TypeOK, WriterOK
    <2>3. Exchange!Break
      BY <2>1, <2>2, SameWords DEF Exchange!Break, LineStart
    <2>4. QED
      BY <2>3 DEF Exchange!ExchangeNext
  <1>2. CASE ~aborted
    BY <1>2, WriteSilent DEF Throw
  <1>3. QED
    BY <1>1, <1>2

\* A written reply answers the line, rejects it or reports an internal error.
LEMMA WrittenAnswers ==
    ASSUME Inv, Written
    PROVE  Exchange!ExchangeNext
  <1>1. /\ phase = "write" /\ replies' = Append(replies, reply) /\ reply \in Replies
        /\ UNCHANGED <<stream, received, exitCode>>
    BY DEF Written, Inv, TypeOK
  <1>2. CASE reply \in Responses
    <2>1. AtLineEnd /\ Parse(line) = "request"
      BY <1>1, <1>2 DEF Inv, WriterOK, Justified, Responses, InputErrors
    <2>2. /\ line' = <<>> /\ phase' # "done"
          /\ pos' = IF pos <= received THEN pos + 1 ELSE pos
      BY <1>2 DEF Written, Resume
    <2>3. LineStart' = IF pos <= Len(stream) THEN pos + 1 ELSE pos
      BY <2>1, <2>2, Numbers DEF AtLineEnd, LineStart
    <2>4. /\ pos \in LineStart .. Len(stream) + 1
          /\ Exchange!LineEndsAt(pos) /\ pos - LineStart <= MaxLine
          /\ Exchange!Parse(Exchange!LineUpTo(pos)) = "request"
      BY <2>1, LineSeen, SameWords
    <2>5. Exchange!Respond(reply)
      BY <1>1, <2>2, <2>3, <2>4 DEF Exchange!Respond
    <2>6. QED
      BY <1>2, <2>5, SameWords DEF Exchange!ExchangeNext
  <1>3. CASE reply \in InputErrors
    <2>1. phase' = "done" /\ UNCHANGED <<pos, line>>
      BY <1>3 DEF Written, Responses, InputErrors
    <2>2. reply # "unexpected-error" /\ Justified(reply)
      BY <1>1, <1>3 DEF Inv, WriterOK, InputErrors
    <2>3. exitCode \in ExitCodes /\ IsWorst(exitCode, replies')
      BY <1>1, <2>2 DEF Inv, TypeOK, WriterOK
    <2>4. \/ reply = "input-too-large" /\ Exchange!TooLong
          \/ /\ reply \in InputErrors \ {"input-too-large"}
             /\ \E e \in LineStart .. Len(stream) + 1 :
                   /\ Exchange!LineEndsAt(e) /\ e - LineStart <= MaxLine
                   /\ Exchange!Parse(Exchange!LineUpTo(e)) = reply
      <3>1. CASE reply = "input-too-large"
        <4>1. LineTooLong
          BY <2>2, <3>1 DEF Justified, Responses, InputErrors
        <4>2. QED
          BY <3>1, <4>1 DEF LineTooLong, Exchange!TooLong
      <3>2. CASE reply # "input-too-large"
        <4>1. AtLineEnd /\ Parse(line) = reply
          BY <1>3, <2>2, <3>2 DEF Justified, Responses, InputErrors
        <4>2. QED
          BY <1>3, <3>2, <4>1, LineSeen, SameWords
      <3>3. QED
        BY <3>1, <3>2
    <2>5. Exchange!Reject(reply)
      <3>1. LineStart' = LineStart
        BY <2>1 DEF LineStart
      <3>2. QED
        BY <1>1, <2>1, <2>3, <2>4, <3>1, SameWords DEF Exchange!Reject
    <2>6. QED
      BY <1>3, <2>5, SameWords DEF Exchange!ExchangeNext
  <1>4. CASE reply = "unexpected-error"
    <2>1. phase' = "done" /\ UNCHANGED <<pos, line>>
      BY <1>4 DEF Written, Responses
    <2>2. exitCode = 70
      BY <1>1, <1>4 DEF Inv, WriterOK
    <2>3. Exchange!Break
      BY <1>1, <1>4, <2>1, <2>2 DEF Exchange!Break, LineStart
    <2>4. QED
      BY <2>3 DEF Exchange!ExchangeNext
  <1>5. QED
    BY <1>1, <1>2, <1>3, <1>4 DEF Replies

\* Every step of the wire is a step of the exchange or is not seen by it.
LEMMA StepRefines ==
    ASSUME Inv, Inv', [Next]_vars
    PROVE  [Exchange!ExchangeNext]_(Exchange!exchangeVars)
  <1>1. CASE Scan
    <2>1. /\ phase = "scan" /\ phase' # "done" /\ UNCHANGED <<stream, replies>>
      BY <1>1 DEF Scan, RejectLongLine, KeepPiece, CompleteLine, Yield, writerVars
    <2>2. LineStart' = LineStart
      <3>1. CASE RejectLongLine
        BY <3>1 DEF RejectLongLine, LineStart
      <3>2. CASE KeepPiece
        <4>1. received + 1 \in pos .. received + 1
          BY Numbers
        <4>2. QED
          BY <3>2, <4>1, PieceExtends DEF KeepPiece, LineStart
      <3>3. CASE CompleteLine
        <4>1. PICK e \in pos .. received :
                 PieceEndsAt(e) /\ Fits(e) /\ line' = line \o Piece(e) /\ pos' = e
          BY <3>3 DEF CompleteLine
        <4>2. e \in pos .. received + 1
          BY Numbers
        <4>3. e - Len(line \o Piece(e)) = LineStart
          BY <4>1, <4>2, PieceExtends
        <4>4. QED
          BY <4>1, <4>3 DEF LineStart
      <3>4. QED
        BY <1>1, <3>1, <3>2, <3>3 DEF Scan
    <2>3. QED
      BY <2>1, <2>2, Silent
  <1>2. CASE Deliver \/ InputEnds \/ Abort
    <2>1. /\ phase # "done" /\ phase' # "done"
          /\ UNCHANGED <<stream, replies, pos, line>>
      BY <1>2 DEF Deliver, InputEnds, Abort, Yield, readerVars, writerVars
    <2>2. QED
      BY <2>1, Silent DEF LineStart
  <1>3. CASE InputFails \/ CoreThrows
    BY <1>3, ThrowBreaks DEF InputFails, CoreThrows
  <1>4. CASE Reject \/ Respond
    <2>1. phase # "done" /\ \E r, c : Write(r, c)
      BY <1>4 DEF Reject, Respond
    <2>2. QED
      BY <2>1, WriteSilent
  <1>5. CASE Written
    BY <1>5, WrittenAnswers
  <1>6. CASE WriteFails
    <2>1. /\ phase = "write" /\ phase' = "done" /\ UNCHANGED <<stream, pos, line, replies>>
          /\ exitCode' = 70 \/ exitCode' = exitCode
      BY <1>6 DEF WriteFails, readerVars
    <2>2. exitCode \in ExitCodes /\ Covers(exitCode, replies)
      BY DEF Inv, TypeOK, WriterOK
    <2>3. Exchange!Break
      BY <2>1, <2>2, SameWords DEF Exchange!Break, LineStart
    <2>4. QED
      BY <2>3 DEF Exchange!ExchangeNext
  <1>7. CASE Finish
    <2>1. /\ phase = "end" /\ phase' = "done"
          /\ UNCHANGED <<stream, pos, line, replies, exitCode>>
      BY <1>7 DEF Finish, readerVars, writerVars
    <2>2. /\ LineStart > Len(stream)
          /\ exitCode \in ExitCodes /\ IsWorst(exitCode, replies)
      BY <2>1 DEF Inv, TypeOK, ReaderOK, WriterOK
    <2>3. Exchange!Close
      BY <2>1, <2>2, SameWords DEF Exchange!Close, LineStart
    <2>4. QED
      BY <2>3 DEF Exchange!ExchangeNext
  <1>8. CASE UNCHANGED vars
    BY <1>8 DEF vars, readerVars, writerVars, Exchange!exchangeVars, LineStart
  <1>9. QED
    BY <1>1, <1>2, <1>3, <1>4, <1>5, <1>6, <1>7, <1>8 DEF Next, Answer, Flush

\* However the input is cut into chunks, each line is answered once and in
\* order, by what the line says, and the exit code is the worst of the replies'
\* codes: the wire implements ProtocolExchange, for every limit and stream.
THEOREM EachLine == Spec => AnswersEachLine
  <1>1. Init => Exchange!ExchangeInit
    BY DEF Init, Exchange!ExchangeInit, LineStart
  <1>2. Inv /\ Inv' /\ [Next]_vars => [Exchange!ExchangeNext]_(Exchange!exchangeVars)
    BY StepRefines
  <1>3. QED
    BY <1>1, <1>2, Invariant, PTL DEF Spec, AnswersEachLine, Exchange!ExchangeSpec
=============================================================================
