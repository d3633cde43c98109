----------------------------- MODULE MCScanner -----------------------------
(* A bounded instance of Scanner for TLC. *)
EXTENDS Scanner

CONSTANTS MaxBuffer,   \* bound: the longest buffer
          MaxPattern   \* bound: the longest pattern

UpTo(S, n) == UNION {[1..k -> S] : k \in 0..n}

MCBuffers == UpTo(Byte, MaxBuffer)

(* Pattern::parse stores 0 in a wildcard; from_bytes stores anything. *)
MCPatterns == UpTo(PatternByte, MaxPattern)

(* Any std::size_t may be asked for, the largest one included. *)
MCOffsets == 0..MaxSize

=============================================================================
