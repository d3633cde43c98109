------------------------------ MODULE Scanner ------------------------------
(***************************************************************************)
(* One call of PatternScanner (src/src/pattern/scanner.cpp) on one buffer  *)
(* and one pattern, step by step: the four entry points, the single-match  *)
(* search find_impl with its memchr loop, and the loops of find_all and    *)
(* count around it.                                                        *)
(*                                                                         *)
(* Offsets are 0-based as in the code; a buffer and a pattern are          *)
(* sequences, so the byte at offset o is buffer[o + 1].  Pointers into the *)
(* buffer are offsets too.  std::size_t arithmetic wraps at MaxSize.       *)
(***************************************************************************)
EXTENDS Integers, Sequences, FiniteSets

CONSTANTS Byte,       \* the values of a byte
          MaxSize,    \* the largest std::size_t
          Buffers,    \* the buffers a caller may pass
          Patterns,   \* the patterns a caller may pass
          Offsets     \* the values of find_first_from's `from`

(* Pattern::Byte: the value of a wildcard is meaningless. *)
PatternByte == [value : Byte, wildcard : BOOLEAN]

ASSUME SizesAssumption == /\ MaxSize \in Nat \ {0}
                          /\ Offsets \subseteq 0..MaxSize
ASSUME BuffersAssumption == /\ Buffers \subseteq Seq(Byte)
                            /\ \A b \in Buffers : Len(b) <= MaxSize
ASSUME PatternsAssumption == /\ Patterns \subseteq Seq(PatternByte)
                             /\ \A q \in Patterns : Len(q) <= MaxSize

Ops == {"find_first", "find_first_from", "find_all", "count"}

(* The std::nullopt of an optional offset. *)
NoOffset == -1

VARIABLES op, buffer, pattern, from,   \* the call and its arguments
          pc,                          \* where the call is
          pos,                         \* find_impl's argument `from`
          anchor, p, end, found,       \* find_impl's locals
          answer,                      \* what find_impl returned
          matches, total,              \* find_all's and count's locals
          status                       \* how the call returned

args == <<op, buffer, pattern, from>>
locals == <<anchor, p, end>>
vars == <<args, pc, pos, locals, found, answer, matches, total, status>>

-----------------------------------------------------------------------------
(* std::size_t addition and subtraction. *)
SizeAdd(a, b) == IF a + b <= MaxSize THEN a + b ELSE a + b - (MaxSize + 1)
SizeSub(a, b) == IF a >= b THEN a - b ELSE a - b + (MaxSize + 1)

(* Pattern::first_fixed_index: `a` is the index of the first fixed byte. *)
IsFirstFixed(q, a) == /\ ~q[a + 1].wildcard
                      /\ \A i \in 0..(a - 1) : q[i + 1].wildcard

AllWildcards(q) == \A i \in 1..Len(q) : q[i].wildcard

(* matches_at: bounds check, then every fixed byte must agree. *)
MatchesAt(b, o, q) ==
  /\ Len(q) # 0
  /\ ~ (o > Len(b) \/ Len(q) > SizeSub(Len(b), o))
  /\ \A i \in 1..Len(q) : q[i].wildcard \/ b[o + i] = q[i].value

DoesNotFitOffByOne(b, q, o) == o > Len(b) \/ Len(q) >= SizeSub(Len(b), o)

(* find_impl's early return: the pattern does not fit at or after `o`. *)
DoesNotFit(b, q, o) == o > Len(b) \/ Len(q) > SizeSub(Len(b), o)

(* std::memchr over [lo, hi): `f` is the first offset holding byte v.      *)
IsFirstByte(b, lo, hi, v, f) == /\ f \in lo..(hi - 1)
                                /\ b[f + 1] = v
                                /\ \A g \in lo..(f - 1) : b[g + 1] # v

AnchorByte == pattern[anchor + 1].value

-----------------------------------------------------------------------------
(* The offsets the search moves through.  An operator whose name says what *)
(* it gets wrong is a faulty variant, defined only to see that a property  *)
(* notices it; the specification uses none of them.                        *)

SearchEndWholeBuffer(a) == Len(buffer)
SearchEndOneShort(a) == SizeAdd(SizeSub(Len(buffer), Len(pattern)), a)
ResumeAfterPattern == SizeAdd(found, Len(pattern))
ResumeAtHit == found
NextFromAfterMatch == SizeAdd(answer, Len(pattern))
NextFromSame == answer

(* The range memchr searches: the offsets the anchor byte may have.        *)
SearchStart(a) == SizeAdd(pos, a)
SearchEnd(a) == SizeAdd(SizeAdd(SizeSub(Len(buffer), Len(pattern)), a), 1)

(* The match the anchor byte at `found` would belong to, and where the     *)
(* loop goes on when there is none.                                        *)
Candidate == SizeSub(found, anchor)
Resume == SizeAdd(found, 1)

(* Where find_all and count search next. *)
NextFrom == SizeAdd(answer, 1)

-----------------------------------------------------------------------------
Init ==
  /\ op \in Ops
  /\ buffer \in Buffers
  /\ pattern \in Patterns
  /\ from \in (IF op = "find_first_from" THEN Offsets ELSE {0})
  /\ pc = "entry"
  /\ pos = 0
  /\ anchor = 0 /\ p = 0 /\ end = 0
  /\ found = NoOffset
  /\ answer = NoOffset
  /\ matches = << >>
  /\ total = 0
  /\ status = "running"

Return(s) == /\ pc' = "done"
             /\ status' = s

(* find_first and find_first_from tail-call find_impl. *)
FindFirst ==
  /\ pc = "entry"
  /\ op \in {"find_first", "find_first_from"}
  /\ pos' = from
  /\ pc' = "find_impl"
  /\ UNCHANGED <<args, locals, found, answer, matches, total, status>>

(* find_all and count reject an empty pattern, then loop from offset 0. *)
RejectEmpty ==
  /\ pc = "entry"
  /\ op \in {"find_all", "count"}
  /\ pattern = << >>
  /\ Return("InvalidArgument")
  /\ UNCHANGED <<args, pos, locals, found, answer, matches, total>>

StartLoop ==
  /\ pc = "entry"
  /\ op \in {"find_all", "count"}
  /\ pattern # << >>
  /\ pos' = 0
  /\ pc' = "find_impl"
  /\ UNCHANGED <<args, locals, found, answer, matches, total, status>>

-----------------------------------------------------------------------------
(* find_impl, up to the memchr loop: one action per way out. *)

FindImplEmpty ==
  /\ pc = "find_impl"
  /\ pattern = << >>
  /\ Return("InvalidArgument")
  /\ UNCHANGED <<args, pos, locals, found, answer, matches, total>>

FindImplTooShort ==
  /\ pc = "find_impl"
  /\ pattern # << >>
  /\ DoesNotFit(buffer, pattern, pos)
  /\ answer' = NoOffset
  /\ pc' = "returned"
  /\ UNCHANGED <<args, pos, locals, found, matches, total, status>>

FindImplAllWildcards ==
  /\ pc = "find_impl"
  /\ pattern # << >>
  /\ ~DoesNotFit(buffer, pattern, pos)
  /\ AllWildcards(pattern)
  /\ answer' = pos
  /\ pc' = "returned"
  /\ UNCHANGED <<args, pos, locals, found, matches, total, status>>

FindImplAnchor ==
  /\ pc = "find_impl"
  /\ pattern # << >>
  /\ ~DoesNotFit(buffer, pattern, pos)
  /\ \E a \in 0..(Len(pattern) - 1) :
       /\ IsFirstFixed(pattern, a)
       /\ anchor' = a
       /\ p' = SearchStart(a)
       /\ end' = SearchEnd(a)
  /\ pc' = "search"
  /\ UNCHANGED <<args, pos, found, answer, matches, total, status>>

(* The head of the loop: `p < end` and memchr, or the way out of it. *)
MemchrHit ==
  /\ pc = "search"
  /\ p < end
  /\ \E f \in p..(end - 1) :
       /\ IsFirstByte(buffer, p, end, AnchorByte, f)
       /\ found' = f
  /\ pc' = "verify"
  /\ UNCHANGED <<args, pos, locals, answer, matches, total, status>>

MemchrMiss ==
  /\ pc = "search"
  /\ p < end => \A f \in p..(end - 1) : buffer[f + 1] # AnchorByte
  /\ answer' = NoOffset
  /\ pc' = "returned"
  /\ UNCHANGED <<args, pos, locals, found, matches, total, status>>

(* The body of the loop: verify the whole pattern at the candidate. *)
VerifyHit ==
  /\ pc = "verify"
  /\ MatchesAt(buffer, Candidate, pattern)
  /\ answer' = Candidate
  /\ pc' = "returned"
  /\ UNCHANGED <<args, pos, locals, found, matches, total, status>>

VerifyMiss ==
  /\ pc = "verify"
  /\ ~MatchesAt(buffer, Candidate, pattern)
  /\ p' = Resume
  /\ pc' = "search"
  /\ UNCHANGED <<args, pos, anchor, end, found, answer, matches, total, status>>

-----------------------------------------------------------------------------
(* What the callers do with find_impl's answer. *)

FindFirstReturn ==
  /\ pc = "returned"
  /\ op \in {"find_first", "find_first_from"}
  /\ Return(IF answer = NoOffset THEN "nullopt" ELSE "value")
  /\ UNCHANGED <<args, pos, locals, found, answer, matches, total>>

FindAllPushUnchecked ==
  /\ pc = "returned"
  /\ op = "find_all"
  /\ matches' = Append(matches, answer)
  /\ pos' = NextFrom
  /\ pc' = "find_impl"
  /\ UNCHANGED <<args, locals, found, answer, total, status>>

FindAllPush ==
  /\ pc = "returned"
  /\ op = "find_all"
  /\ answer # NoOffset
  /\ matches' = Append(matches, answer)
  /\ pos' = NextFrom
  /\ pc' = "find_impl"
  /\ UNCHANGED <<args, locals, found, answer, total, status>>

CountBump ==
  /\ pc = "returned"
  /\ op = "count"
  /\ answer # NoOffset
  /\ total' = SizeAdd(total, 1)
  /\ pos' = NextFrom
  /\ pc' = "find_impl"
  /\ UNCHANGED <<args, locals, found, answer, matches, status>>

LoopReturn ==
  /\ pc = "returned"
  /\ op \in {"find_all", "count"}
  /\ answer = NoOffset
  /\ Return("value")
  /\ UNCHANGED <<args, pos, locals, found, answer, matches, total>>

FindImpl == \/ FindImplEmpty \/ FindImplTooShort
            \/ FindImplAllWildcards \/ FindImplAnchor
            \/ MemchrHit \/ MemchrMiss
            \/ VerifyHit \/ VerifyMiss

Caller == \/ FindFirst \/ RejectEmpty \/ StartLoop
          \/ FindFirstReturn \/ FindAllPush \/ CountBump \/ LoopReturn

(* The call has returned; nothing is left behind. *)
Terminating == pc = "done" /\ UNCHANGED vars

Next == FindImpl \/ Caller \/ Terminating

Spec == Init /\ [][Next]_vars

(* The calling thread keeps running: a call is sequential code. *)
FairSpec == Spec /\ WF_vars(FindImpl \/ Caller)

-----------------------------------------------------------------------------
(* The promise of scanner.hpp, met when the call returns. *)
Abstract == INSTANCE ScannerSpec
              WITH first  <- IF pc = "done" THEN answer ELSE NoOffset,
                   all    <- IF pc = "done" THEN matches ELSE << >>,
                   number <- IF pc = "done" THEN total ELSE 0

Sizes == 0..MaxSize
OptionalOffset == Sizes \cup {NoOffset}

(* The type of every variable. *)
TypeOK ==
  /\ op \in Ops
  /\ buffer \in Buffers
  /\ pattern \in Patterns
  /\ from \in Sizes
  /\ pc \in {"entry", "find_impl", "search", "verify", "returned", "done"}
  /\ pos \in Sizes /\ anchor \in Sizes /\ p \in Sizes /\ end \in Sizes
  /\ found \in OptionalOffset
  /\ pc = "verify" => found \in Sizes
  /\ answer \in OptionalOffset
  /\ matches \in Seq(Sizes)
  /\ total \in Sizes
  /\ status \in {"running", "nullopt", "value", "InvalidArgument"}

(* No pointer of the memchr loop leaves the buffer: memchr is handed a     *)
(* range inside it, the pointer arithmetic (which wraps) never passes one  *)
(* past its end, and a candidate always leaves room for the whole pattern, *)
(* so matches_at's own bounds check never fires.                           *)
PointersInBuffer ==
  /\ pc \in {"search", "verify"} =>
       /\ pos + anchor <= p
       /\ p <= end
       /\ end <= Len(buffer)
  /\ pc = "verify" =>
       /\ p <= found
       /\ found < end
       /\ Candidate >= pos
       /\ Candidate + Len(pattern) <= Len(buffer)

(* The matches of this call's pattern that start in lo..hi-1. *)
MatchesIn(lo, hi) == Abstract!Occurrences(buffer, pattern, lo, hi)

(* Jumping from anchor byte to anchor byte skips no match: whatever the    *)
(* loop has passed cannot start one, wherever in the pattern the anchor    *)
(* is and however candidates overlap.                                      *)
NothingSkipped ==
  /\ pc = "search" => MatchesIn(pos, p - anchor) = {}
  /\ pc = "verify" => MatchesIn(pos, Candidate) = {}

(* find_impl's answer is the first match at or after its `from`, or there  *)
(* is none.                                                                *)
AnswerIsFirst ==
  pc = "returned" =>
    LET S == MatchesIn(pos, Len(buffer) + 1)
    IN IF answer = NoOffset THEN S = {} ELSE Abstract!IsLeast(answer, S)

(* Between two searches find_all has listed, and count has counted,        *)
(* exactly the matches before the offset it searches next: overlapping     *)
(* ones included, none twice.                                              *)
ResultsSoFar ==
  pc \in {"find_impl", "search", "verify", "returned"} =>
    /\ op = "find_all" => Abstract!IsListing(matches, MatchesIn(0, pos))
    /\ op = "count" => total = Cardinality(MatchesIn(0, pos))

(* No candidate is verified twice in a call, not even by two searches of   *)
(* one find_all or count: each time memchr stops, it stops further on than *)
(* it did the last time.  A call verifies at most one candidate a byte.    *)
CandidatesAdvance == [][pc' = "verify" => found' > found]_vars

(* Every call returns. *)
Terminates == <>(pc = "done")

(* A call implements the one-step promise. *)
ImplementsSpec == Abstract!Spec

(* scanner.hpp:52 says count "counts the number of non-overlapping         *)
(* matches": the number it returns would be that of some set of matches no *)
(* two of which share a byte.                                              *)
CountsNonOverlapping ==
  pc = "done" /\ op = "count" /\ status = "value" =>
    \E S \in SUBSET MatchesIn(0, Len(buffer) + 1) :
      /\ Cardinality(S) = total
      /\ \A x, y \in S : x < y => x + Len(pattern) <= y

=============================================================================
