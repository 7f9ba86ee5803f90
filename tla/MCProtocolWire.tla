--------------------------- MODULE MCProtocolWire ----------------------------
(***************************************************************************)
(* ProtocolWire on every short stream: lines of up to two bytes, so that a *)
(* chunk can end inside a line or a character and a third byte is too many.*)
(***************************************************************************)
EXTENDS ProtocolWire

UpTo(n, alphabet) == UNION {[1 .. k -> alphabet] : k \in 0 .. n}

ShortStreams == UpTo(5, {"newline", "json"}) \cup UpTo(5, {"newline", "lead", "cont"})
                  \cup UpTo(3, Bytes)
=============================================================================
