------------------------------- MODULE Reader -------------------------------
(***************************************************************************)
(* binary::detail::Reader (src/src/binary/reader.hpp): which reads of a    *)
(* buffer are allowed.  The buffer is its size and the offsets of its zero *)
(* bytes; what else it holds is up to the parser that reads it.            *)
(***************************************************************************)
EXTENDS Integers

CONSTANT SizeMax     \* the largest std::size_t
VARIABLE data        \* data_

(* Subtraction of std::size_t. *)
SizeSub(a, b) == (a - b) % (SizeMax + 1)

InBounds(offset, length) == /\ offset <= data.size
                            /\ length <= SizeSub(data.size, offset)

(* A string is the offsets of its first and of its zero byte.  There is    *)
(* none without a zero byte in the buffer and within max_length.           *)
NoString == << >>

(* A variant whose name says what it gets wrong is not used. *)
TerminatorsUnbounded(o, max_length) == {z \in data.zeros : o <= z /\ z < data.size}

Terminators(o, max_length) ==
  {z \in data.zeros : z - o \in 0..(max_length - 1) /\ z < data.size}

CString(o, max_length) ==
  LET T == Terminators(o, max_length)
  IN  IF o >= data.size \/ T = {} THEN NoString
      ELSE <<o, CHOOSE z \in T : \A y \in T : z <= y>>

=============================================================================
