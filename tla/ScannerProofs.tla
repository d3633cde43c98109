--------------------------- MODULE ScannerProofs ---------------------------
(***************************************************************************)
(* What Scanner's search does on every buffer, every pattern and every     *)
(* size, proved.                                                           *)
(***************************************************************************)
EXTENDS Scanner, FiniteSetTheorems, SequenceTheorems, TLAPS

-----------------------------------------------------------------------------
(* Facts about the inputs. *)

LEMMA InputsType ==
  ASSUME TypeOK
  PROVE  /\ buffer \in Seq(Byte)
         /\ pattern \in Seq(PatternByte)
         /\ Len(buffer) \in Nat
         /\ Len(pattern) \in Nat
         /\ Len(buffer) <= MaxSize
         /\ Len(pattern) <= MaxSize
         /\ pattern # << >> => Len(pattern) > 0
         /\ MaxSize \in Nat
BY BuffersAssumption, PatternsAssumption, SizesAssumption DEF TypeOK

(* std::size_t arithmetic stays in std::size_t. *)
LEMMA SizeArithmetic ==
  ASSUME NEW a \in Sizes, NEW b \in Sizes
  PROVE  /\ SizeAdd(a, b) \in Sizes
         /\ SizeSub(a, b) \in Sizes
         /\ a + b <= MaxSize => SizeAdd(a, b) = a + b
         /\ a >= b => SizeSub(a, b) = a - b
BY SizesAssumption DEF Sizes, SizeAdd, SizeSub

-----------------------------------------------------------------------------
(* Every variable keeps its type, whatever the arithmetic wraps to. *)

LEMMA InitType == Init => TypeOK
BY SizesAssumption DEF Init, TypeOK, Sizes, OptionalOffset, NoOffset, Ops

LEMMA NextType == TypeOK /\ [Next]_vars => TypeOK'
<1> SUFFICES ASSUME TypeOK, [Next]_vars PROVE TypeOK'
  OBVIOUS
<1> USE DEF TypeOK
<1>0. /\ 0 \in Sizes /\ 1 \in Sizes /\ Sizes \subseteq OptionalOffset
      /\ Len(buffer) \in Sizes /\ Len(pattern) \in Sizes
      /\ NoOffset \in OptionalOffset
  BY InputsType, SizesAssumption DEF Sizes, OptionalOffset
<1>1. CASE FindFirst
  BY <1>1 DEF FindFirst, args, locals
<1>2. CASE RejectEmpty
  BY <1>2 DEF RejectEmpty, Return, args, locals
<1>3. CASE StartLoop
  BY <1>3, <1>0 DEF StartLoop, args, locals
<1>4. CASE FindImplEmpty
  BY <1>4 DEF FindImplEmpty, Return, args, locals
<1>5. CASE FindImplTooShort
  BY <1>5, <1>0 DEF FindImplTooShort, args, locals
<1>6. CASE FindImplAllWildcards
  BY <1>6, <1>0 DEF FindImplAllWildcards, args, locals
<1>7. CASE FindImplAnchor
  <2>1. PICK a \in 0..(Len(pattern) - 1) : 
          /\ anchor' = a
          /\ p' = SearchStart(a)
          /\ end' = SearchEnd(a)
    BY <1>7 DEF FindImplAnchor
  <2>2. a \in Sizes
    BY InputsType DEF Sizes
  <2>3. SearchStart(a) \in Sizes /\ SearchEnd(a) \in Sizes
    BY <2>2, <1>0, SizeArithmetic DEF SearchStart, SearchEnd
  <2>. QED
    BY <1>7, <2>1, <2>2, <2>3 DEF FindImplAnchor, args, locals
<1>8. CASE MemchrHit
  <2>1. PICK f \in p..(end - 1) : found' = f
    BY <1>8 DEF MemchrHit
  <2>2. f \in Sizes
    BY SizesAssumption DEF Sizes
  <2>. QED
    BY <1>8, <2>1, <2>2, <1>0 DEF MemchrHit, args, locals
<1>9. CASE MemchrMiss
  BY <1>9, <1>0 DEF MemchrMiss, args, locals
<1>10. CASE VerifyHit
  <2>1. Candidate \in Sizes
    BY <1>10, SizeArithmetic DEF VerifyHit, Candidate
  <2>. QED
    BY <1>10, <2>1, <1>0 DEF VerifyHit, args, locals
<1>11. CASE VerifyMiss
  <2>1. Resume \in Sizes
    BY <1>11, <1>0, SizeArithmetic DEF VerifyMiss, Resume
  <2>. QED
    BY <1>11, <2>1, <1>0 DEF VerifyMiss, args, locals
<1>12. CASE FindFirstReturn
  BY <1>12 DEF FindFirstReturn, Return, args, locals
<1>13. CASE FindAllPush
  <2>1. answer \in Sizes
    BY <1>13 DEF FindAllPush, OptionalOffset
  <2>2. Append(matches, answer) \in Seq(Sizes)
    BY <2>1
  <2>3. NextFrom \in Sizes
    BY <2>1, <1>0, SizeArithmetic DEF NextFrom
  <2>. QED
    BY <1>13, <2>2, <2>3 DEF FindAllPush, args, locals
<1>14. CASE CountBump
  <2>1. answer \in Sizes
    BY <1>14 DEF CountBump, OptionalOffset
  <2>2. NextFrom \in Sizes /\ SizeAdd(total, 1) \in Sizes
    BY <2>1, <1>0, SizeArithmetic DEF NextFrom
  <2>. QED
    BY <1>14, <2>2 DEF CountBump, args, locals
<1>15. CASE LoopReturn
  BY <1>15 DEF LoopReturn, Return, args, locals
<1>16. CASE UNCHANGED vars
  BY <1>16 DEF vars, args, locals
<1>. QED
  BY <1>1, <1>2, <1>3, <1>4, <1>5, <1>6, <1>7, <1>8, <1>9, <1>10, <1>11, <1>12, <1>13,
     <1>14, <1>15, <1>16 DEF Next, FindImpl, Caller, Terminating

(* Type correctness: every variable of a call keeps its type.              *)
THEOREM TypeCorrect == Spec => []TypeOK
BY InitType, NextType, PTL DEF Spec

-----------------------------------------------------------------------------
(* What the search relies on.  The code computes `end` and `anchor` once   *)
(* and trusts them through the loop.                                       *)
SearchShape ==
  pc \in {"search", "verify"} =>
    /\ pattern # << >>
    /\ anchor < Len(pattern)
    /\ IsFirstFixed(pattern, anchor)
    /\ pos + Len(pattern) <= Len(buffer)
    /\ end = Len(buffer) - Len(pattern) + anchor + 1

SearchInv == SearchShape /\ PointersInBuffer /\ NothingSkipped /\ AnswerIsFirst

Occurs(o) == Abstract!OccursAt(buffer, pattern, o)

(* matches_at, with its wrapping subtraction, is the occurrence relation.  *)
LEMMA MatchesAtIsOccurs ==
  ASSUME TypeOK, NEW o \in Sizes
  PROVE  MatchesAt(buffer, o, pattern) <=> pattern # << >> /\ Occurs(o)
<1>1. pattern # << >> <=> Len(pattern) # 0
  BY InputsType, EmptySeq
<1>2. Len(buffer) \in Sizes
  BY InputsType DEF Sizes
<1>3. CASE o > Len(buffer)
  BY <1>1, <1>3, InputsType DEF MatchesAt, Occurs, Abstract!OccursAt, Sizes
<1>4. CASE o <= Len(buffer)
  <2>1. SizeSub(Len(buffer), o) = Len(buffer) - o
    BY <1>2, <1>4, SizeArithmetic, InputsType DEF Sizes
  <2>. QED
    BY <1>1, <1>4, <2>1, InputsType DEF MatchesAt, Occurs, Abstract!OccursAt, Sizes
<1>. QED
  BY <1>3, <1>4, InputsType DEF Sizes

LEMMA DoesNotFitMeans ==
  ASSUME TypeOK
  PROVE  DoesNotFit(buffer, pattern, pos) <=> pos + Len(pattern) > Len(buffer)
<1>1. Len(buffer) \in Sizes /\ pos \in Sizes
  BY InputsType DEF Sizes, TypeOK
<1>2. pos <= Len(buffer) => SizeSub(Len(buffer), pos) = Len(buffer) - pos
  BY <1>1, SizeArithmetic, InputsType DEF Sizes
<1>. QED
  BY <1>1, <1>2, InputsType DEF DoesNotFit, Sizes

(* A match starts at o only if the anchor byte stands at o + anchor,       *)
(* before `end`.                                                           *)
LEMMA AnchorInOccurrence ==
  ASSUME TypeOK, SearchShape, pc \in {"search", "verify"},
         NEW o \in Nat, Occurs(o)
  PROVE  /\ o + anchor < end
         /\ buffer[o + anchor + 1] = AnchorByte
<1>1. anchor \in Nat /\ anchor + 1 \in 1..Len(pattern)
  BY InputsType DEF SearchShape, TypeOK, Sizes
<1>2. ~pattern[anchor + 1].wildcard
  BY DEF SearchShape, IsFirstFixed
<1>3. buffer[o + (anchor + 1)] = pattern[anchor + 1].value
  BY <1>1, <1>2 DEF Occurs, Abstract!OccursAt
<1>4. o + Len(pattern) <= Len(buffer)
  BY DEF Occurs, Abstract!OccursAt
<1>. QED
  BY <1>1, <1>3, <1>4, InputsType DEF SearchShape, AnchorByte

(* The range of offsets a match of this pattern can start at. *)
LEMMA MatchesInMeans ==
  ASSUME NEW lo \in Int, NEW hi \in Int, NEW o
  PROVE  o \in MatchesIn(lo, hi) <=>
           o \in Int /\ lo <= o /\ o < hi /\ Occurs(o)
BY DEF MatchesIn, Occurs, Abstract!Occurrences

LEMMA OccursFits ==
  ASSUME TypeOK, NEW o \in Int, Occurs(o)
  PROVE  o + Len(pattern) <= Len(buffer)
BY DEF Occurs, Abstract!OccursAt

(* The invariant of the memchr loop, one step per action.                  *)
LEMMA SearchStep == TypeOK /\ TypeOK' /\ SearchInv /\ [Next]_vars => SearchInv'
<1> SUFFICES ASSUME TypeOK, TypeOK', SearchInv, [Next]_vars
             PROVE  SearchInv'
  OBVIOUS
<1> USE DEF args, locals
<1>0. /\ Len(buffer) \in Nat /\ Len(pattern) \in Nat
      /\ Len(buffer) \in Sizes /\ Len(pattern) \in Sizes
      /\ pos \in Sizes /\ pos \in Nat /\ p \in Nat /\ end \in Nat
      /\ anchor \in Nat /\ anchor \in Sizes
      /\ MaxSize \in Nat /\ 1 \in Sizes
      /\ pattern # << >> => Len(pattern) > 0
  BY InputsType, SizesAssumption DEF TypeOK, Sizes
<1>1. ASSUME pc' \in {"entry", "find_impl", "done"} PROVE SearchInv'
  BY <1>1 DEF SearchInv, SearchShape, PointersInBuffer, NothingSkipped, AnswerIsFirst
<1>2. ASSUME buffer' = buffer, pattern' = pattern,
             NEW o PROVE Occurs(o)' <=> Occurs(o)
  BY <1>2 DEF Occurs, Abstract!OccursAt
<1>3. CASE FindImplTooShort
  <2>1. pos + Len(pattern) > Len(buffer)
    BY <1>3, DoesNotFitMeans DEF FindImplTooShort
  <2>2. MatchesIn(pos, Len(buffer) + 1) = {}
    BY <2>1, <1>0, MatchesInMeans, OccursFits
  <2>3. MatchesIn(pos, Len(buffer) + 1)' = MatchesIn(pos, Len(buffer) + 1)
    BY <1>3 DEF FindImplTooShort, MatchesIn, Abstract!Occurrences, Abstract!OccursAt
  <2>4. AnswerIsFirst'
    BY <1>3, <2>2, <2>3 DEF FindImplTooShort, AnswerIsFirst
  <2>. QED
    BY <1>3, <2>4
    DEF FindImplTooShort, SearchInv, SearchShape, PointersInBuffer, NothingSkipped
<1>4. CASE FindImplAllWildcards
  <2>1. pos + Len(pattern) <= Len(buffer)
    BY <1>4, <1>0, DoesNotFitMeans DEF FindImplAllWildcards
  <2>2. Occurs(pos)
    BY <1>4, <1>0, <2>1 DEF FindImplAllWildcards, AllWildcards, Occurs, Abstract!OccursAt
  <2>3. Abstract!IsLeast(pos, MatchesIn(pos, Len(buffer) + 1))
    BY <1>0, <2>1, <2>2, MatchesInMeans DEF Abstract!IsLeast
  <2>4. MatchesIn(pos, Len(buffer) + 1)' = MatchesIn(pos, Len(buffer) + 1)
    BY <1>4 DEF FindImplAllWildcards, MatchesIn, Abstract!Occurrences, Abstract!OccursAt
  <2>5. AnswerIsFirst'
    BY <1>4, <1>0, <2>3, <2>4
    DEF FindImplAllWildcards, AnswerIsFirst, NoOffset, Abstract!IsLeast
  <2>. QED
    BY <1>4, <2>5
    DEF FindImplAllWildcards, SearchInv, SearchShape, PointersInBuffer, NothingSkipped
<1>5. CASE FindImplAnchor
  <2>1. PICK a \in 0..(Len(pattern) - 1) :
          /\ IsFirstFixed(pattern, a)
          /\ anchor' = a
          /\ p' = SearchStart(a)
          /\ end' = SearchEnd(a)
    BY <1>5 DEF FindImplAnchor
  <2>2. pos + Len(pattern) <= Len(buffer)
    BY <1>5, <1>0, DoesNotFitMeans DEF FindImplAnchor
  <2>3. a \in Sizes /\ Len(buffer) <= MaxSize
    BY <1>0, InputsType DEF Sizes
  <2>4. p' = pos + a
    BY <2>1, <2>2, <2>3, <1>0, SizeArithmetic DEF SearchStart
  <2>5. end' = Len(buffer) - Len(pattern) + a + 1
    <3>1. SizeSub(Len(buffer), Len(pattern)) = Len(buffer) - Len(pattern)
      BY <2>2, <1>0, SizeArithmetic
    <3> DEFINE last == Len(buffer) - Len(pattern)
    <3>2. /\ last \in Sizes /\ last + a \in Sizes
          /\ last + a <= MaxSize /\ last + a + 1 <= MaxSize
      BY <2>1, <2>2, <2>3, <1>0 DEF Sizes
    <3>3. SizeAdd(last, a) = last + a /\ SizeAdd(last + a, 1) = last + a + 1
      BY <3>2, <2>3, <1>0, SizeArithmetic
    <3>. QED
      BY <2>1, <3>1, <3>3 DEF SearchEnd
  <2>6. SearchShape'
    BY <1>5, <2>1, <2>2, <2>5, <1>0 DEF FindImplAnchor, SearchShape, IsFirstFixed
  <2>7. PointersInBuffer'
    BY <1>5, <2>1, <2>2, <2>4, <2>5, <1>0 DEF FindImplAnchor, PointersInBuffer
  <2>8. NothingSkipped'
    <3>1. (p - anchor)' = pos
      BY <2>1, <2>4, <1>0
    <3>. QED
      BY <1>5, <3>1, <1>0
      DEF FindImplAnchor, NothingSkipped, MatchesIn, Abstract!Occurrences
  <2>. QED
    BY <1>5, <2>6, <2>7, <2>8 DEF FindImplAnchor, SearchInv, AnswerIsFirst
<1>6. CASE MemchrHit
  <2>1. PICK f \in p..(end - 1) : IsFirstByte(buffer, p, end, AnchorByte, f) /\ found' = f
    BY <1>6 DEF MemchrHit
  <2>2. /\ SearchShape /\ PointersInBuffer /\ pc = "search" /\ p < end
        /\ MatchesIn(pos, p - anchor) = {}
    BY <1>6 DEF MemchrHit, SearchInv, NothingSkipped
  <2>3. Candidate' = f - anchor
    <3>1. Candidate' = SizeSub(f, anchor)
      BY <1>6, <2>1 DEF MemchrHit, Candidate, SizeSub
    <3>2. pos + anchor <= p /\ p <= f /\ f < end /\ end <= Len(buffer)
      BY <2>1, <2>2, <1>0 DEF PointersInBuffer
    <3>3. f \in Sizes /\ f >= anchor
      BY <3>2, <1>0, <2>1, InputsType DEF Sizes
    <3>. QED
      BY <3>1, <3>3, <1>0, SizeArithmetic
  <2>4. SearchShape'
    BY <1>6, <2>2 DEF MemchrHit, SearchShape, IsFirstFixed
  <2>5. PointersInBuffer'
    BY <1>6, <2>1, <2>2, <2>3, <1>0 DEF MemchrHit, SearchShape, PointersInBuffer
  <2>6. MatchesIn(pos, f - anchor) = {}
    <3> SUFFICES ASSUME NEW o \in MatchesIn(pos, f - anchor) PROVE FALSE
      OBVIOUS
    <3>1. o \in Int /\ pos <= o /\ o < f - anchor /\ Occurs(o)
      BY MatchesInMeans, <1>0
    <3>2. o + anchor < end /\ buffer[o + anchor + 1] = AnchorByte
      BY <3>1, <2>2, <1>0, AnchorInOccurrence
    <3>3. ~ (o < p - anchor)
      <4>1. p - anchor \in Int /\ pos \in Int
        BY <1>0
      <4>. QED
        BY <4>1, <3>1, <2>2, MatchesInMeans
    <3>4. o + anchor \in p..(f - 1)
      BY <3>1, <3>3, <1>0
    <3>. QED
      BY <3>2, <3>4, <2>1 DEF IsFirstByte
  <2>7. NothingSkipped'
    BY <1>6, <2>3, <2>6
    DEF MemchrHit, NothingSkipped, MatchesIn, Abstract!Occurrences, Abstract!OccursAt
  <2>. QED
    BY <1>6, <2>4, <2>5, <2>7 DEF MemchrHit, SearchInv, AnswerIsFirst
<1>7. CASE MemchrMiss
  <2>1. /\ SearchShape /\ PointersInBuffer /\ pc = "search"
        /\ MatchesIn(pos, p - anchor) = {}
    BY <1>7 DEF MemchrMiss, SearchInv, NothingSkipped
  <2>2. MatchesIn(pos, Len(buffer) + 1) = {}
    <3> SUFFICES ASSUME NEW o \in MatchesIn(pos, Len(buffer) + 1) PROVE FALSE
      OBVIOUS
    <3>1. o \in Int /\ pos <= o /\ Occurs(o)
      BY MatchesInMeans, <1>0
    <3>2. o + anchor < end /\ buffer[o + anchor + 1] = AnchorByte
      BY <3>1, <2>1, <1>0, AnchorInOccurrence
    <3>3. ~ (o < p - anchor)
      BY <3>1, <2>1, <1>0, MatchesInMeans
    <3>4. o + anchor \in p..(end - 1) /\ p < end
      BY <3>1, <3>2, <3>3, <1>0
    <3>. QED
      BY <3>2, <3>4, <1>7 DEF MemchrMiss
  <2>3. MatchesIn(pos, Len(buffer) + 1)' = {}
    BY <1>7, <2>2 DEF MemchrMiss, MatchesIn, Abstract!Occurrences, Abstract!OccursAt
  <2>. QED
    BY <1>7, <2>3
    DEF MemchrMiss, SearchInv, SearchShape, PointersInBuffer, NothingSkipped, AnswerIsFirst
<1>8. ASSUME pc = "verify"
      PROVE  /\ SearchShape /\ PointersInBuffer
             /\ found \in Sizes /\ found \in Nat
             /\ Candidate = found - anchor /\ Candidate \in Sizes /\ Candidate \in Nat
             /\ MatchesIn(pos, Candidate) = {}
  <2>1. /\ SearchShape /\ PointersInBuffer /\ found \in Sizes
        /\ MatchesIn(pos, Candidate) = {}
    BY <1>8 DEF SearchInv, NothingSkipped, TypeOK
  <2>2. found \in Nat /\ found >= anchor
    BY <1>8, <1>0, <2>1 DEF PointersInBuffer, Sizes
  <2>3. Candidate = found - anchor
    BY <2>1, <2>2, <1>0, SizeArithmetic DEF Candidate
  <2>. QED
    BY <2>1, <2>2, <2>3, <1>0 DEF Sizes
<1>9. CASE VerifyHit
  <2>0. pc = "verify" /\ MatchesAt(buffer, Candidate, pattern)
    BY <1>9 DEF VerifyHit
  <2>1. Occurs(Candidate)
    BY <1>8, <2>0, MatchesAtIsOccurs
  <2>2. Abstract!IsLeast(Candidate, MatchesIn(pos, Len(buffer) + 1))
    <3>1. Candidate \in MatchesIn(pos, Len(buffer) + 1)
      BY <1>8, <1>0, <2>0, <2>1, MatchesInMeans DEF PointersInBuffer
    <3>2. ASSUME NEW x \in MatchesIn(pos, Len(buffer) + 1) PROVE Candidate <= x
      <4>1. x \in Int /\ pos <= x /\ Occurs(x)
        BY <1>0, <3>2, MatchesInMeans
      <4>2. ASSUME x < Candidate PROVE FALSE
        <5>1. x \in MatchesIn(pos, Candidate)
          BY <4>1, <4>2, <1>8, <1>0, <2>0, MatchesInMeans
        <5>. QED
          BY <5>1, <1>8, <2>0
      <4>. QED
        BY <4>1, <4>2, <1>8, <2>0
    <3>. QED
      BY <3>1, <3>2 DEF Abstract!IsLeast
  <2>3. MatchesIn(pos, Len(buffer) + 1)' = MatchesIn(pos, Len(buffer) + 1)
    BY <1>9 DEF VerifyHit, MatchesIn, Abstract!Occurrences, Abstract!OccursAt
  <2>4. AnswerIsFirst'
    BY <1>9, <1>8, <2>0, <2>2, <2>3 DEF VerifyHit, AnswerIsFirst, NoOffset, Abstract!IsLeast
  <2>. QED
    BY <1>9, <2>4 DEF VerifyHit, SearchInv, SearchShape, PointersInBuffer, NothingSkipped
<1>10. CASE VerifyMiss
  <2>0. pc = "verify" /\ ~MatchesAt(buffer, Candidate, pattern)
    BY <1>10 DEF VerifyMiss
  <2>1. ~Occurs(Candidate)
    BY <1>8, <2>0, MatchesAtIsOccurs DEF SearchShape
  <2>2. found + 1 <= end /\ end <= MaxSize
    BY <1>8, <1>0, <2>0, InputsType DEF PointersInBuffer
  <2>3. p' = found + 1
    BY <1>10, <1>8, <1>0, <2>0, <2>2, SizeArithmetic DEF VerifyMiss, Resume
  <2>4. MatchesIn(pos, found + 1 - anchor) = {}
    <3> SUFFICES ASSUME NEW o \in MatchesIn(pos, found + 1 - anchor) PROVE FALSE
      OBVIOUS
    <3>1. o \in Int /\ pos <= o /\ o < found + 1 - anchor /\ Occurs(o)
      BY <1>8, <1>0, <2>0, MatchesInMeans
    <3>2. o # Candidate
      BY <3>1, <2>1
    <3>3. o < Candidate
      BY <3>1, <3>2, <1>8, <1>0, <2>0
    <3>. QED
      BY <3>1, <3>3, <1>8, <1>0, <2>0, MatchesInMeans
  <2>5. (p - anchor)' = found + 1 - anchor
    BY <1>10, <2>0, <2>3, <1>0, <1>8 DEF VerifyMiss
  <2>6. NothingSkipped'
    BY <1>10, <2>4, <2>5
    DEF VerifyMiss, NothingSkipped, MatchesIn, Abstract!Occurrences, Abstract!OccursAt
  <2>7. SearchShape'
    BY <1>10, <1>8, <2>0 DEF VerifyMiss, SearchShape, IsFirstFixed
  <2>8. PointersInBuffer'
    BY <1>10, <1>8, <1>0, <2>0, <2>2, <2>3 DEF VerifyMiss, PointersInBuffer
  <2>. QED
    BY <1>10, <2>6, <2>7, <2>8 DEF VerifyMiss, SearchInv, AnswerIsFirst
<1>11. CASE UNCHANGED vars
  <2>1. MatchesIn(pos, Candidate)' = MatchesIn(pos, Candidate)
    BY <1>11 DEF vars, MatchesIn, Abstract!Occurrences, Abstract!OccursAt, Candidate
  <2>2. MatchesIn(pos, p - anchor)' = MatchesIn(pos, p - anchor)
    BY <1>11 DEF vars, MatchesIn, Abstract!Occurrences, Abstract!OccursAt
  <2>3. MatchesIn(pos, Len(buffer) + 1)' = MatchesIn(pos, Len(buffer) + 1)
    BY <1>11 DEF vars, MatchesIn, Abstract!Occurrences, Abstract!OccursAt
  <2>4. Candidate' = Candidate
    BY <1>11 DEF vars, Candidate
  <2>5. SearchShape'
    BY <1>11 DEF vars, SearchInv, SearchShape, IsFirstFixed
  <2>6. PointersInBuffer'
    BY <1>11, <2>4 DEF vars, SearchInv, PointersInBuffer
  <2>7. NothingSkipped'
    BY <1>11, <2>1, <2>2 DEF vars, SearchInv, NothingSkipped
  <2>8. AnswerIsFirst'
    BY <1>11, <2>3 DEF vars, SearchInv, AnswerIsFirst, Abstract!IsLeast
  <2>. QED
    BY <2>5, <2>6, <2>7, <2>8 DEF SearchInv
<1>12. CASE Caller \/ FindImplEmpty
  <2>1. pc' \in {"entry", "find_impl", "done"}
    BY <1>12 DEF Caller, FindFirst, RejectEmpty, StartLoop, FindFirstReturn, FindAllPush,
                 CountBump, LoopReturn, FindImplEmpty, Return
  <2>. QED
    BY <2>1, <1>1
<1>. QED
  BY <1>3, <1>4, <1>5, <1>6, <1>7, <1>9, <1>10, <1>11, <1>12 DEF Next, FindImpl, Terminating

LEMMA SearchInit == Init => SearchInv
BY DEF Init, SearchInv, SearchShape, PointersInBuffer, NothingSkipped, AnswerIsFirst

LEMMA SearchInvariant == Spec => [](TypeOK /\ SearchInv)
<1>1. Init => TypeOK /\ SearchInv
  BY InitType, SearchInit
<1>2. TypeOK /\ SearchInv /\ [Next]_vars => (TypeOK /\ SearchInv)'
  BY NextType, SearchStep
<1>. QED
  BY <1>1, <1>2, PTL DEF Spec

(* Memory safety of the search: no pointer of the memchr loop leaves the   *)
(* buffer and no offset wraps, however large std::size_t and `from` are.   *)
THEOREM PointersStayInBuffer == Spec => []PointersInBuffer
BY SearchInvariant, PTL DEF SearchInv

(* The anchor search jumps over no match.                                  *)
THEOREM SearchSkipsNothing == Spec => []NothingSkipped
BY SearchInvariant, PTL DEF SearchInv

(* find_impl returns the first match at or after its argument, or nullopt  *)
(* when there is none.                                                     *)
THEOREM FirstMatchReturned == Spec => []AnswerIsFirst
BY SearchInvariant, PTL DEF SearchInv

-----------------------------------------------------------------------------
(* The callers: what find_all and count hold between two searches.         *)

CallShape ==
  /\ pc # "done" <=> status = "running"
  /\ pc = "entry" => answer = NoOffset /\ matches = << >> /\ total = 0 /\ pos = 0
  /\ pc = "returned" => pattern # << >>
  /\ op # "find_all" => matches = << >>
  /\ op # "count" => total = 0
  /\ op \in {"find_all", "count"} => from = 0
  /\ op \in {"find_all", "count"} /\ pc \in {"find_impl", "search", "verify", "returned"} =>
       pattern # << >> /\ pos <= Len(buffer)
  /\ op \in {"find_first", "find_first_from"} =>
       /\ pc \in {"find_impl", "search", "verify", "returned"} => pos = from
       /\ pc \in {"find_impl", "search", "verify"} => answer = NoOffset

LEMMA CallShapeInit == Init => CallShape
BY DEF Init, CallShape, Ops

(* What find_impl's answer is worth to its callers. *)
LEMMA AnswerMeans ==
  ASSUME TypeOK, SearchInv, pc = "returned", answer # NoOffset
  PROVE  /\ answer \in Nat /\ pos <= answer /\ answer <= Len(buffer)
         /\ Occurs(answer)
         /\ \A x \in Int : pos <= x /\ x < answer => ~Occurs(x)
<1>1. /\ pos \in Int /\ Len(buffer) \in Nat /\ Len(buffer) + 1 \in Int
      /\ answer \in Nat
  BY InputsType DEF TypeOK, Sizes, OptionalOffset
<1>2. Abstract!IsLeast(answer, MatchesIn(pos, Len(buffer) + 1))
  BY DEF SearchInv, AnswerIsFirst
<1>3. answer \in MatchesIn(pos, Len(buffer) + 1)
  BY <1>2 DEF Abstract!IsLeast
<1>4. pos <= answer /\ answer < Len(buffer) + 1 /\ Occurs(answer)
  BY <1>1, <1>3, MatchesInMeans
<1>5. ASSUME NEW x \in Int, pos <= x, x < answer, Occurs(x) PROVE FALSE
  <2>1. x \in MatchesIn(pos, Len(buffer) + 1)
    BY <1>1, <1>4, <1>5, MatchesInMeans
  <2>. QED
    BY <2>1, <1>1, <1>2, <1>5 DEF Abstract!IsLeast
<1>. QED
  BY <1>1, <1>4, <1>5

(* One answer further, the matches before the next offset are the ones     *)
(* found so far and this one.                                              *)
LEMMA OneMoreMatch ==
  ASSUME TypeOK, SearchInv, pc = "returned", answer # NoOffset
  PROVE  /\ MatchesIn(0, answer + 1) = MatchesIn(0, pos) \cup {answer}
         /\ answer \notin MatchesIn(0, pos)
         /\ \A x \in MatchesIn(0, pos) : x \in Int /\ x < answer
<1>1. /\ pos \in Int /\ 0 <= pos /\ answer \in Int /\ answer + 1 \in Int /\ 0 \in Int
      /\ 0 <= answer
  BY AnswerMeans DEF TypeOK, Sizes
<1>2. ASSUME NEW x
      PROVE  x \in MatchesIn(0, answer + 1) <=> x \in MatchesIn(0, pos) \/ x = answer
  <2>1. x \in MatchesIn(0, answer + 1) <=>
          x \in Int /\ 0 <= x /\ x < answer + 1 /\ Occurs(x)
    BY <1>1, MatchesInMeans
  <2>2. x \in MatchesIn(0, pos) <=> x \in Int /\ 0 <= x /\ x < pos /\ Occurs(x)
    BY <1>1, MatchesInMeans
  <2>. QED
    BY <2>1, <2>2, <1>1, AnswerMeans
<1>3. ASSUME NEW x \in MatchesIn(0, pos) PROVE x \in Int /\ x < answer
  BY <1>1, <1>3, MatchesInMeans, AnswerMeans
<1>. QED
  BY <1>1, <1>2, <1>3

LEMMA NextFromMeans ==
  ASSUME TypeOK, SearchInv, CallShape, pc = "returned", answer # NoOffset
  PROVE  NextFrom = answer + 1 /\ answer + 1 <= Len(buffer)
<1>1. answer \in Nat /\ Occurs(answer) /\ pattern # << >>
  BY AnswerMeans DEF CallShape
<1>2. answer + Len(pattern) <= Len(buffer)
  BY <1>1, OccursFits
<1>3. answer + 1 <= Len(buffer) /\ Len(buffer) <= MaxSize
  BY <1>1, <1>2, InputsType
<1>4. answer \in Sizes /\ 1 \in Sizes
  BY <1>1, <1>3, InputsType DEF Sizes
<1>. QED
  BY <1>1, <1>3, <1>4, SizeArithmetic, InputsType DEF NextFrom

LEMMA CallShapeStep ==
  TypeOK /\ SearchInv /\ CallShape /\ [Next]_vars => CallShape'
<1> SUFFICES ASSUME TypeOK, SearchInv, CallShape, [Next]_vars PROVE CallShape'
  OBVIOUS
<1> USE DEF args, locals, CallShape
<1>0. op \in {"find_first", "find_first_from", "find_all", "count"}
  BY DEF TypeOK, Ops
<1>1. CASE FindFirst
  BY <1>1, <1>0 DEF FindFirst
<1>2. CASE RejectEmpty
  BY <1>2 DEF RejectEmpty, Return
<1>3. CASE StartLoop
  BY <1>3, <1>0, InputsType DEF StartLoop
<1>4. CASE FindImplEmpty
  BY <1>4 DEF FindImplEmpty, Return
<1>5. CASE FindImplTooShort
  BY <1>5 DEF FindImplTooShort
<1>6. CASE FindImplAllWildcards
  BY <1>6 DEF FindImplAllWildcards
<1>7. CASE FindImplAnchor
  BY <1>7 DEF FindImplAnchor
<1>8. CASE MemchrHit
  BY <1>8 DEF MemchrHit
<1>9. CASE MemchrMiss
  BY <1>9 DEF MemchrMiss, SearchInv, SearchShape
<1>10. CASE VerifyHit
  BY <1>10 DEF VerifyHit, SearchInv, SearchShape
<1>11. CASE VerifyMiss
  BY <1>11 DEF VerifyMiss
<1>12. CASE FindFirstReturn
  BY <1>12 DEF FindFirstReturn, Return
<1>13. CASE FindAllPush
  BY <1>13, NextFromMeans DEF FindAllPush
<1>14. CASE CountBump
  BY <1>14, NextFromMeans DEF CountBump
<1>15. CASE LoopReturn
  BY <1>15 DEF LoopReturn, Return
<1>16. CASE UNCHANGED vars
  BY <1>16 DEF vars
<1>. QED
  BY <1>1, <1>2, <1>3, <1>4, <1>5, <1>6, <1>7, <1>8, <1>9, <1>10, <1>11, <1>12, <1>13,
     <1>14, <1>15, <1>16 DEF Next, FindImpl, Caller, Terminating

(* Appending a larger element to a listing of S lists S and that element.  *)
LEMMA ListingExtends ==
  ASSUME NEW T, T \subseteq Int, NEW s \in Seq(T), NEW S, NEW x \in T,
         Abstract!IsListing(s, S), \A y \in S : y < x
  PROVE  Abstract!IsListing(Append(s, x), S \cup {x})
<1> DEFINE t == Append(s, x)
<1>1. /\ Len(t) = Len(s) + 1 /\ Len(s) \in Nat
      /\ \A i \in 1..Len(s) : t[i] = s[i]
      /\ t[Len(s) + 1] = x
  BY AppendProperties, LenProperties
<1>2. \A i \in 1..Len(s) : s[i] \in S
  BY DEF Abstract!IsListing
<1>3. \A i, j \in 1..Len(t) : i < j => t[i] < t[j]
  <2> SUFFICES ASSUME NEW i \in 1..Len(t), NEW j \in 1..Len(t), i < j
               PROVE  t[i] < t[j]
    OBVIOUS
  <2>1. i \in 1..Len(s) /\ t[i] = s[i]
    BY <1>1
  <2>2. CASE j = Len(s) + 1
    BY <1>1, <1>2, <2>1, <2>2
  <2>3. CASE j \in 1..Len(s)
    BY <1>1, <2>1, <2>3 DEF Abstract!IsListing
  <2>. QED
    BY <1>1, <2>2, <2>3
<1>4. \A y : y \in {t[i] : i \in 1..Len(t)} <=> y \in S \cup {x}
  <2>1. ASSUME NEW i \in 1..Len(t) PROVE t[i] \in S \cup {x}
    <3>1. CASE i = Len(s) + 1
      BY <1>1, <3>1
    <3>2. CASE i \in 1..Len(s)
      BY <1>1, <1>2, <3>2
    <3>. QED
      BY <1>1, <3>1, <3>2
  <2>2. ASSUME NEW y \in S PROVE \E i \in 1..Len(t) : t[i] = y
    <3>1. PICK i \in 1..Len(s) : s[i] = y
      BY DEF Abstract!IsListing
    <3>. QED
      BY <1>1, <3>1
  <2>3. \E i \in 1..Len(t) : t[i] = x
    BY <1>1
  <2>. QED
    BY <2>1, <2>2, <2>3
<1>. QED
  BY <1>3, <1>4 DEF Abstract!IsListing

LEMMA MatchesFinite ==
  ASSUME TypeOK, NEW hi \in Nat
  PROVE  /\ IsFiniteSet(MatchesIn(0, hi))
         /\ Cardinality(MatchesIn(0, hi)) \in Nat
         /\ Cardinality(MatchesIn(0, hi)) <= hi
<1>1. MatchesIn(0, hi) \in SUBSET (0..(hi - 1))
  BY DEF MatchesIn, Abstract!Occurrences
<1>2. IsFiniteSet(0..(hi - 1)) /\ Cardinality(0..(hi - 1)) = hi
  BY FS_Interval
<1>3. IsFiniteSet(MatchesIn(0, hi)) /\ Cardinality(MatchesIn(0, hi)) <= hi
  BY <1>1, <1>2, FS_Subset
<1>. QED
  BY <1>3, FS_CardinalityType

LEMMA NoMatchesBeforeZero == MatchesIn(0, 0) = {}
BY DEF MatchesIn, Abstract!Occurrences

LEMMA ResultsInit == Init => ResultsSoFar
BY DEF Init, ResultsSoFar

LEMMA ResultsStep ==
  TypeOK /\ TypeOK' /\ SearchInv /\ CallShape /\ ResultsSoFar /\ [Next]_vars => ResultsSoFar'
<1> SUFFICES ASSUME TypeOK, TypeOK', SearchInv, CallShape, ResultsSoFar, [Next]_vars
             PROVE  ResultsSoFar'
  OBVIOUS
<1> USE DEF args, locals
<1>1. ASSUME NEW lo, NEW hi, buffer' = buffer, pattern' = pattern
      PROVE  MatchesIn(lo, hi)' = MatchesIn(lo, hi)
  BY <1>1 DEF MatchesIn, Abstract!Occurrences, Abstract!OccursAt
<1>2. CASE /\ UNCHANGED <<args, pos, matches, total>>
           /\ pc \in {"find_impl", "search", "verify", "returned"}
  <2>1. MatchesIn(0, pos)' = MatchesIn(0, pos)
    BY <1>2 DEF MatchesIn, Abstract!Occurrences, Abstract!OccursAt
  <2>. QED
    BY <1>2, <2>1 DEF ResultsSoFar, Abstract!IsListing
<1>3. CASE FindFirst
  BY <1>3 DEF FindFirst, ResultsSoFar
<1>4. CASE StartLoop
  <2>1. matches' = << >> /\ total' = 0 /\ pos' = 0
    BY <1>4 DEF StartLoop, CallShape
  <2>2. MatchesIn(0, pos)' = {}
    BY <2>1 DEF MatchesIn, Abstract!Occurrences
  <2>3. Abstract!IsListing(<< >>, {})
    BY EmptySeq DEF Abstract!IsListing
  <2>4. (Abstract!IsListing(matches, MatchesIn(0, pos)))'
    BY <2>1, <2>2, <2>3 DEF Abstract!IsListing
  <2>. QED
    BY <2>1, <2>2, <2>4, FS_EmptySet DEF ResultsSoFar
<1>5. CASE RejectEmpty \/ FindImplEmpty \/ FindFirstReturn \/ LoopReturn
  BY <1>5 DEF RejectEmpty, FindImplEmpty, FindFirstReturn, LoopReturn, Return, ResultsSoFar
<1>6. CASE FindAllPush
  <2>1. pc = "returned" /\ op = "find_all" /\ answer # NoOffset /\ op' = op
        /\ matches' = Append(matches, answer) /\ pos' = answer + 1
        /\ buffer' = buffer /\ pattern' = pattern
    BY <1>6, NextFromMeans DEF FindAllPush
  <2>2. Abstract!IsListing(matches, MatchesIn(0, pos))
    BY <2>1 DEF ResultsSoFar
  <2>3. matches \in Seq(Sizes) /\ answer \in Sizes /\ Sizes \subseteq Int
    BY <2>1, SizesAssumption DEF TypeOK, OptionalOffset, Sizes
  <2>4. Abstract!IsListing(Append(matches, answer), MatchesIn(0, pos) \cup {answer})
    BY <2>1, <2>2, <2>3, OneMoreMatch, ListingExtends
  <2>5. MatchesIn(0, pos)' = MatchesIn(0, answer + 1)
    BY <2>1 DEF MatchesIn, Abstract!Occurrences, Abstract!OccursAt
  <2>6. (Abstract!IsListing(matches, MatchesIn(0, pos)))'
    BY <2>1, <2>4, <2>5, OneMoreMatch DEF Abstract!IsListing
  <2>. QED
    BY <2>1, <2>6 DEF ResultsSoFar
<1>7. CASE CountBump
  <2>1. pc = "returned" /\ op = "count" /\ answer # NoOffset /\ op' = op
        /\ total' = SizeAdd(total, 1) /\ pos' = answer + 1
        /\ buffer' = buffer /\ pattern' = pattern
    BY <1>7, NextFromMeans DEF CountBump
  <2>2. total = Cardinality(MatchesIn(0, pos))
    BY <2>1 DEF ResultsSoFar
  <2>3. pos \in Nat /\ answer \in Nat /\ pos <= answer /\ answer + 1 <= MaxSize
    BY <2>1, AnswerMeans, NextFromMeans, InputsType DEF TypeOK, Sizes
  <2>4. total \in Nat /\ total + 1 <= MaxSize
    BY <2>2, <2>3, MatchesFinite, SizesAssumption
  <2>5. total' = total + 1
    BY <2>1, <2>4, SizeArithmetic, SizesAssumption DEF Sizes
  <2>6. Cardinality(MatchesIn(0, answer + 1)) = total + 1
    BY <2>1, <2>2, <2>3, OneMoreMatch, MatchesFinite, FS_AddElement
  <2>7. MatchesIn(0, pos)' = MatchesIn(0, answer + 1)
    BY <2>1 DEF MatchesIn, Abstract!Occurrences, Abstract!OccursAt
  <2>. QED
    BY <2>1, <2>5, <2>6, <2>7 DEF ResultsSoFar
<1>8. CASE UNCHANGED vars
  <2>1. MatchesIn(0, pos)' = MatchesIn(0, pos)
    BY <1>8 DEF vars, MatchesIn, Abstract!Occurrences, Abstract!OccursAt
  <2>. QED
    BY <1>8, <2>1 DEF vars, ResultsSoFar, Abstract!IsListing
<1>9. CASE FindImplTooShort \/ FindImplAllWildcards \/ FindImplAnchor
  BY <1>9, <1>2 DEF FindImplTooShort, FindImplAllWildcards, FindImplAnchor
<1>10. CASE MemchrHit \/ MemchrMiss \/ VerifyHit \/ VerifyMiss
  BY <1>10, <1>2 DEF MemchrHit, MemchrMiss, VerifyHit, VerifyMiss
<1>. QED
  BY <1>3, <1>4, <1>5, <1>6, <1>7, <1>8, <1>9, <1>10 DEF Next, FindImpl, Caller, Terminating

CallInv == TypeOK /\ SearchInv /\ CallShape /\ ResultsSoFar

LEMMA CallInvariant == Spec => []CallInv
<1>1. Init => CallInv
  BY InitType, SearchInit, CallShapeInit, ResultsInit DEF CallInv
<1>2. CallInv /\ [Next]_vars => CallInv'
  BY NextType, SearchStep, CallShapeStep, ResultsStep DEF CallInv
<1>. QED
  BY <1>1, <1>2, PTL DEF Spec

(* find_all lists, and count counts, every match before the next search    *)
(* once: overlapping ones too, on every buffer.                            *)
THEOREM NoMatchLostOrRepeated == Spec => []ResultsSoFar
BY CallInvariant, PTL DEF CallInv

-----------------------------------------------------------------------------
(* The offsets memchr stops at, over a whole call: whatever has been       *)
(* verified lies behind the place the next search starts at, across the    *)
(* searches of one find_all or count because the anchor is the same in all *)
(* of them.                                                                *)
Advancing ==
  found # NoOffset =>
    /\ found \in Nat
    /\ pc # "entry"
    /\ anchor < Len(pattern) /\ IsFirstFixed(pattern, anchor)
    /\ pc = "find_impl" => found < pos + anchor
    /\ pc = "search" => found < p
    /\ pc = "returned" /\ answer # NoOffset => answer = found - anchor

LEMMA AdvancingInit == Init => Advancing
BY DEF Init, Advancing

(* The anchor is a function of the pattern. *)
LEMMA OneAnchor ==
  ASSUME NEW a \in Nat, NEW b \in Nat,
         IsFirstFixed(pattern, a), IsFirstFixed(pattern, b)
  PROVE  a = b
BY DEF IsFirstFixed

LEMMA AdvancingStep ==
  CallInv /\ CallInv' /\ Advancing /\ [Next]_vars =>
    Advancing' /\ ((pc' = "verify" => found' > found) \/ UNCHANGED vars)
<1> SUFFICES ASSUME CallInv, CallInv', Advancing, [Next]_vars
             PROVE  Advancing' /\ ((pc' = "verify" => found' > found) \/ UNCHANGED vars)
  OBVIOUS
<1> USE DEF args, locals
<1>0. /\ TypeOK /\ SearchInv /\ CallShape
      /\ Len(buffer) \in Nat /\ Len(pattern) \in Nat /\ Len(buffer) <= MaxSize
      /\ pos \in Nat /\ p \in Nat /\ anchor \in Nat /\ pos \in Sizes
      /\ MaxSize \in Nat
  BY InputsType DEF CallInv, TypeOK, Sizes
<1>1. ASSUME pattern' = pattern, anchor' = anchor
      PROVE  IsFirstFixed(pattern, anchor)' <=> IsFirstFixed(pattern, anchor)
  BY <1>1 DEF IsFirstFixed
<1>2. CASE FindFirst \/ StartLoop
  BY <1>2 DEF FindFirst, StartLoop, Advancing
<1>3. CASE RejectEmpty \/ FindImplEmpty \/ FindFirstReturn \/ LoopReturn
  BY <1>3, <1>1
  DEF RejectEmpty, FindImplEmpty, FindFirstReturn, LoopReturn, Return, Advancing
<1>4. CASE FindImplTooShort \/ MemchrMiss
  BY <1>4, <1>1 DEF FindImplTooShort, MemchrMiss, Advancing
<1>5. CASE FindImplAllWildcards
  <2>1. found = NoOffset
    <3>1. ASSUME found # NoOffset PROVE FALSE
      <4>1. anchor + 1 \in 1..Len(pattern) /\ ~pattern[anchor + 1].wildcard
        BY <3>1, <1>0 DEF Advancing, IsFirstFixed
      <4>. QED
        BY <1>5, <4>1 DEF FindImplAllWildcards, AllWildcards
    <3>. QED
      BY <3>1
  <2>. QED
    BY <1>5, <2>1 DEF FindImplAllWildcards, Advancing
<1>6. CASE FindImplAnchor
  <2>1. PICK a \in 0..(Len(pattern) - 1) :
          /\ IsFirstFixed(pattern, a)
          /\ anchor' = a
          /\ p' = SearchStart(a)
    BY <1>6 DEF FindImplAnchor
  <2>2. a \in Nat /\ a \in Sizes /\ pos + a <= MaxSize
    BY <1>6, <1>0, <2>1, DoesNotFitMeans, InputsType DEF FindImplAnchor, Sizes
  <2>3. p' = pos + a
    BY <2>1, <2>2, <1>0, SizeArithmetic DEF SearchStart
  <2>4. found # NoOffset => a = anchor
    BY <2>1, <2>2, <1>0, OneAnchor DEF Advancing
  <2>. QED
    BY <1>6, <1>1, <2>1, <2>3, <2>4 DEF FindImplAnchor, Advancing
<1>7. CASE MemchrHit
  <2>1. PICK f \in p..(end - 1) : found' = f
    BY <1>7 DEF MemchrHit
  <2>2. pc = "search" /\ pc' = "verify" /\ f \in Nat /\ p <= f
    BY <1>7, <1>0, <2>1 DEF MemchrHit
  <2>3. anchor < Len(pattern) /\ IsFirstFixed(pattern, anchor)
    BY <2>2, <1>0 DEF SearchInv, SearchShape
  <2>4. found # NoOffset => found \in Nat /\ found < p
    BY <2>2 DEF Advancing
  <2>5. found' > found
    BY <2>1, <2>2, <2>4, <1>0 DEF NoOffset
  <2>. QED
    BY <1>7, <1>1, <2>1, <2>2, <2>3, <2>5 DEF MemchrHit, Advancing
<1>8. CASE VerifyHit
  <2>1. pc = "verify" /\ found \in Nat /\ found \in Sizes /\ pos + anchor <= found
    BY <1>8, <1>0 DEF VerifyHit, TypeOK, Sizes, SearchInv, PointersInBuffer
  <2>2. Candidate = found - anchor
    BY <2>1, <1>0, SizeArithmetic DEF Candidate, TypeOK
  <2>. QED
    BY <1>8, <1>1, <2>1, <2>2 DEF VerifyHit, Advancing
<1>9. CASE VerifyMiss
  <2>1. pc = "verify" /\ found \in Nat /\ found \in Sizes /\ found < end /\ end <= Len(buffer)
    BY <1>9, <1>0 DEF VerifyMiss, TypeOK, Sizes, SearchInv, PointersInBuffer
  <2>2. p' = found + 1
    <3>1. end \in Nat /\ found + 1 <= MaxSize /\ 1 \in Sizes
      BY <2>1, <1>0 DEF TypeOK, Sizes
    <3>. QED
      BY <1>9, <2>1, <3>1, SizeArithmetic DEF VerifyMiss, Resume
  <2>. QED
    BY <1>9, <1>1, <2>1, <2>2 DEF VerifyMiss, Advancing
<1>10. CASE FindAllPush \/ CountBump
  <2>1. /\ pc = "returned" /\ answer # NoOffset /\ pos' = answer + 1
        /\ pc' = "find_impl"
        /\ UNCHANGED <<pattern, anchor, found>>
    BY <1>10, <1>0, NextFromMeans DEF FindAllPush, CountBump
  <2>2. found # NoOffset => found \in Nat /\ pos' + anchor = found + 1
    BY <2>1, <1>0 DEF Advancing
  <2>. QED
    BY <1>0, <1>1, <2>1, <2>2 DEF Advancing
<1>11. CASE UNCHANGED vars
  BY <1>11, <1>1 DEF vars, Advancing
<1>. QED
  BY <1>2, <1>3, <1>4, <1>5, <1>6, <1>7, <1>8, <1>9, <1>10, <1>11
  DEF Next, FindImpl, Caller, Terminating

(* No candidate is verified twice in a call: each time memchr stops, it    *)
(* stops further on than the last time, in the same search because p is    *)
(* behind the byte it stopped at, and from one search of a find_all or     *)
(* count to the next because that starts at answer + 1, and so behind the  *)
(* anchor byte of the last match.                                          *)
THEOREM CandidatesOnlyAdvance == Spec => CandidatesAdvance
<1>1. Init => Advancing
  BY AdvancingInit
<1>2. CallInv /\ CallInv' /\ Advancing /\ [Next]_vars => Advancing'
  BY AdvancingStep
<1>3. CallInv /\ CallInv' /\ Advancing /\ [Next]_vars => [pc' = "verify" => found' > found]_vars
  BY AdvancingStep
<1>. QED
  BY <1>1, <1>2, <1>3, CallInvariant, PTL DEF Spec, CandidatesAdvance

-----------------------------------------------------------------------------
(* The call implements the one-step promise of ScannerSpec.                *)

LEMMA AbstractInit == Init => Abstract!Init
BY DEF Init, Abstract!Init, Ops, NoOffset, Abstract!NoOffset

(* The matches at and after pos are all there is to find for find_first,   *)
(* the matches before pos for a loop whose last search found none.         *)
LEMMA EverywhereFrom ==
  ASSUME CallInv, pc = "returned", op \in {"find_first", "find_first_from"}
  PROVE  Abstract!Everywhere = MatchesIn(pos, Len(buffer) + 1)
BY DEF CallInv, CallShape, Abstract!Everywhere, MatchesIn

LEMMA EverywhereSoFar ==
  ASSUME CallInv, pc = "returned", op \in {"find_all", "count"}, answer = NoOffset
  PROVE  Abstract!Everywhere = MatchesIn(0, pos)
<1>1. from = 0 /\ pos <= Len(buffer) /\ Len(buffer) + 1 \in Int /\ pos \in Int /\ 0 <= pos
  BY InputsType DEF CallInv, CallShape, TypeOK, Sizes
<1>2. MatchesIn(pos, Len(buffer) + 1) = {}
  BY DEF CallInv, SearchInv, AnswerIsFirst
<1>3. Abstract!Everywhere = MatchesIn(0, Len(buffer) + 1)
  BY <1>1 DEF Abstract!Everywhere, MatchesIn
<1>4. ASSUME NEW x
      PROVE  x \in MatchesIn(0, Len(buffer) + 1) <=> x \in MatchesIn(0, pos)
  <2>1. /\ x \in MatchesIn(0, Len(buffer) + 1) <=>
             x \in Int /\ 0 <= x /\ x < Len(buffer) + 1 /\ Occurs(x)
        /\ x \in MatchesIn(0, pos) <=> x \in Int /\ 0 <= x /\ x < pos /\ Occurs(x)
        /\ x \in MatchesIn(pos, Len(buffer) + 1) <=>
             x \in Int /\ pos <= x /\ x < Len(buffer) + 1 /\ Occurs(x)
    BY <1>1, MatchesInMeans
  <2>. QED
    BY <1>1, <1>2, <2>1
<1>. QED
  BY <1>3, <1>4

(* The instance of FiniteSets under ScannerSpec is this module's. *)
LEMMA SameCardinality == ASSUME NEW S PROVE Abstract!Cardinality(S) = Cardinality(S)
BY DEF Abstract!Cardinality, Cardinality, Abstract!IsFiniteSet, IsFiniteSet

avars == <<args, status, IF pc = "done" THEN answer ELSE NoOffset,
           IF pc = "done" THEN matches ELSE << >>, IF pc = "done" THEN total ELSE 0>>

LEMMA StepImplements == CallInv /\ [Next]_vars => [Abstract!Next]_avars
<1> SUFFICES ASSUME CallInv, [Next]_vars PROVE Abstract!Next \/ UNCHANGED avars
  OBVIOUS
<1> USE DEF args, locals, Abstract!args, NoOffset, Abstract!NoOffset
<1>0. CallShape /\ op \in {"find_first", "find_first_from", "find_all", "count"}
  BY DEF CallInv, TypeOK, Ops
<1>1. CASE RejectEmpty
  BY <1>1, <1>0 DEF RejectEmpty, Return, CallShape, Abstract!Next, Abstract!RejectEmpty
<1>2. CASE FindImplEmpty
  BY <1>2, <1>0 DEF FindImplEmpty, Return, CallShape, Abstract!Next, Abstract!RejectEmpty
<1>3. CASE FindFirstReturn
  <2>1. /\ pc = "returned" /\ op \in {"find_first", "find_first_from"} /\ pc' = "done"
        /\ status' = (IF answer = NoOffset THEN "nullopt" ELSE "value")
        /\ UNCHANGED <<args, answer, matches, total>>
        /\ status = "running" /\ matches = << >> /\ total = 0 /\ pattern # << >>
    BY <1>3, <1>0 DEF FindFirstReturn, Return, CallShape
  <2>2. Abstract!Everywhere = MatchesIn(pos, Len(buffer) + 1)
    BY <2>1, EverywhereFrom
  <2>3. CASE answer = NoOffset
    <3>1. Abstract!Everywhere = {}
      BY <2>1, <2>2, <2>3 DEF CallInv, SearchInv, AnswerIsFirst
    <3>2. Abstract!FindFirst
      BY <2>1, <2>3, <3>1 DEF Abstract!FindFirst
    <3>. QED
      BY <2>1, <3>2 DEF Abstract!Next
  <2>4. CASE answer # NoOffset
    <3>1. Abstract!IsLeast(answer, Abstract!Everywhere)
      BY <2>1, <2>2, <2>4 DEF CallInv, SearchInv, AnswerIsFirst
    <3>2. Abstract!FindFirst
      BY <2>1, <2>4, <3>1 DEF Abstract!FindFirst
    <3>. QED
      BY <2>1, <3>2 DEF Abstract!Next
  <2>. QED
    BY <2>3, <2>4
<1>4. CASE LoopReturn
  <2>1. /\ pc = "returned" /\ op \in {"find_all", "count"} /\ pc' = "done"
        /\ answer = NoOffset /\ status' = "value"
        /\ UNCHANGED <<args, answer, matches, total>>
        /\ status = "running" /\ pattern # << >>
        /\ op # "find_all" => matches = << >>
        /\ op # "count" => total = 0
    BY <1>4, <1>0 DEF LoopReturn, Return, CallShape
  <2>2. Abstract!Everywhere = MatchesIn(0, pos)
    BY <2>1, EverywhereSoFar
  <2>3. CASE op = "find_all"
    <3>1. Abstract!IsListing(matches, Abstract!Everywhere)
      BY <2>1, <2>2, <2>3 DEF CallInv, ResultsSoFar
    <3>2. Abstract!FindAll
      BY <2>1, <2>3, <3>1 DEF Abstract!FindAll
    <3>. QED
      BY <2>1, <3>2 DEF Abstract!Next
  <2>4. CASE op = "count"
    <3>1. total = Cardinality(Abstract!Everywhere)
      BY <2>1, <2>2, <2>4 DEF CallInv, ResultsSoFar
    <3>2. Abstract!Count
      BY <2>1, <2>4, <3>1, SameCardinality DEF Abstract!Count
    <3>. QED
      BY <2>1, <3>2 DEF Abstract!Next
  <2>. QED
    BY <2>1, <2>3, <2>4
<1>5. ASSUME pc # "done", pc' # "done", UNCHANGED <<args, status>> PROVE UNCHANGED avars
  BY <1>5 DEF avars
<1>6. CASE FindFirst \/ StartLoop \/ FindImplTooShort \/ FindImplAllWildcards \/ FindImplAnchor
  BY <1>6, <1>5
  DEF FindFirst, StartLoop, FindImplTooShort, FindImplAllWildcards, FindImplAnchor
<1>7. CASE MemchrHit \/ MemchrMiss \/ VerifyHit \/ VerifyMiss \/ FindAllPush \/ CountBump
  BY <1>7, <1>5 DEF MemchrHit, MemchrMiss, VerifyHit, VerifyMiss, FindAllPush, CountBump
<1>8. CASE UNCHANGED vars
  BY <1>8 DEF vars, avars
<1>. QED
  BY <1>1, <1>2, <1>3, <1>4, <1>6, <1>7, <1>8 DEF Next, FindImpl, Caller, Terminating

(* Every call, on every buffer and pattern, returns what scanner.hpp       *)
(* promises: the first match, all of them in ascending order, or their     *)
(* number.                                                                 *)
THEOREM ScannerImplementsSpec == Spec => ImplementsSpec
<1>1. [Abstract!Next]_avars => [Abstract!Next]_<<Abstract!args, status,
         IF pc = "done" THEN answer ELSE NoOffset,
         IF pc = "done" THEN matches ELSE << >>, IF pc = "done" THEN total ELSE 0>>
  BY DEF avars, args, Abstract!args
<1>. QED
  BY <1>1, AbstractInit, StepImplements, CallInvariant, PTL
  DEF Spec, ImplementsSpec, Abstract!Spec
=============================================================================
