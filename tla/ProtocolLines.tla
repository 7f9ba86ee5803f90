---------------------------- MODULE ProtocolLines ----------------------------
(***************************************************************************)
(* The data of the protocol wire.  A request is a line of bytes; what      *)
(* matters of a byte is whether it ends the line, is blank, is JSON text,  *)
(* breaks the JSON, or is one half of a two-byte character.  What matters  *)
(* of a reply is its kind, which decides the exit code of the process.     *)
(***************************************************************************)
EXTENDS Naturals, Sequences

CONSTANTS MaxLine,   \* MAX_PROTOCOL_INPUT_BYTES
          Streams    \* what a caller may send, to the end of its input

Bytes == {"newline", "space", "json", "junk", "lead", "cont"}

ASSUME LineAssumption == MaxLine \in Nat /\ Streams \subseteq Seq(Bytes)

\* A two-byte character is whole or the line is not UTF-8.
IsUtf8(line) ==
    \A i \in DOMAIN line :
        /\ line[i] = "lead" => i < Len(line) /\ line[i + 1] = "cont"
        /\ line[i] = "cont" => i > 1 /\ line[i - 1] = "lead"

IsBlank(line) == \A i \in DOMAIN line : line[i] = "space"
IsJson(line)  == \A i \in DOMAIN line : line[i] # "junk"

Parse(line) ==
    CASE ~IsUtf8(line)                                    -> "invalid-utf8"
      [] IsUtf8(line) /\ IsBlank(line)                    -> "empty-input"
      [] IsUtf8(line) /\ ~IsBlank(line) /\ ~IsJson(line)  -> "malformed-json"
      [] OTHER                                            -> "request"

InputErrors == {"input-too-large", "invalid-utf8", "empty-input", "malformed-json"}

\* "json-output" replaces a response that exceeds the output limit.
Responses == {"success", "failure", "json-output"}

Replies == Responses \cup InputErrors \cup {"unexpected-error"}

ExitCodes == {0, 1, 2, 70}

Code(reply) ==
    CASE reply = "success"                  -> 0
      [] reply \in {"failure", "json-output"} -> 1
      [] reply \in InputErrors              -> 2
      [] OTHER                              -> 70

Covers(code, replies) == \A i \in DOMAIN replies : Code(replies[i]) <= code

\* The code is the worst of the replies' codes.
IsWorst(code, replies) ==
    /\ Covers(code, replies)
    /\ code = 0 \/ \E i \in DOMAIN replies : Code(replies[i]) = code
=============================================================================
