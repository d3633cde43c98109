---------------------------- MODULE ScannerSpec ----------------------------
(***************************************************************************)
(* What PatternScanner promises (src/include/gmk/pattern/scanner.hpp): one *)
(* call answers in one step, and the answer is a statement about the       *)
(* buffer only: the first match at or after `from`, all the matches in     *)
(* ascending order, or how many there are.  No anchor, no pointer, no      *)
(* loop.                                                                   *)
(***************************************************************************)
EXTENDS Integers, Sequences, FiniteSets

CONSTANTS Buffers, Patterns, Offsets

VARIABLES op, buffer, pattern, from,  \* the call
          status,                     \* "running", then how it returned
          first, all, number          \* the value it returned

args == <<op, buffer, pattern, from>>

NoOffset == -1

(* Pattern q occurs in b at o: it fits there and every fixed byte agrees. *)
OccursAt(b, q, o) ==
  /\ o + Len(q) <= Len(b)
  /\ \A i \in 1..Len(q) : q[i].wildcard \/ b[o + i] = q[i].value

(* The offsets in lo..hi-1 at which q occurs in b. *)
Occurrences(b, q, lo, hi) == {o \in lo..(hi - 1) : OccursAt(b, q, o)}

IsLeast(o, S) == o \in S /\ \A x \in S : o <= x

(* s lists the elements of S in ascending order, each once. *)
IsListing(s, S) == /\ \A i, j \in 1..Len(s) : i < j => s[i] < s[j]
                   /\ {s[i] : i \in 1..Len(s)} = S

Init == /\ op \in {"find_first", "find_first_from", "find_all", "count"}
        /\ buffer \in Buffers
        /\ pattern \in Patterns
        /\ from \in (IF op = "find_first_from" THEN Offsets ELSE {0})
        /\ status = "running"
        /\ first = NoOffset
        /\ all = << >>
        /\ number = 0

Everywhere == Occurrences(buffer, pattern, from, Len(buffer) + 1)

RejectEmpty == /\ pattern = << >>
               /\ status' = "InvalidArgument"
               /\ UNCHANGED <<first, all, number>>

FindFirst == /\ pattern # << >>
             /\ op \in {"find_first", "find_first_from"}
             /\ \/ /\ Everywhere = {}
                   /\ status' = "nullopt"
                   /\ UNCHANGED first
                \/ /\ status' = "value"
                   /\ IsLeast(first', Everywhere)
             /\ UNCHANGED <<all, number>>

FindAll == /\ pattern # << >>
           /\ op = "find_all"
           /\ status' = "value"
           /\ IsListing(all', Everywhere)
           /\ UNCHANGED <<first, number>>

Count == /\ pattern # << >>
         /\ op = "count"
         /\ status' = "value"
         /\ number' = Cardinality(Everywhere)
         /\ UNCHANGED <<first, all>>

Next == /\ status = "running"
        /\ RejectEmpty \/ FindFirst \/ FindAll \/ Count
        /\ UNCHANGED args

Spec == Init /\ [][Next]_<<args, status, first, all, number>>

=============================================================================
