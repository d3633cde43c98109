------------------------ MODULE PatternParserProofs ------------------------
(***************************************************************************)
(* Pattern::parse on every text: what is compiled, what is rejected and    *)
(* where, and that the reserved vector suffices.                           *)
(***************************************************************************)
EXTENDS PatternParser, FiniteSetTheorems, SequenceTheorems, TLAPS

LEMMA TextType ==
  ASSUME TypeOK
  PROVE  /\ text \in Seq(Char) /\ Len(text) \in Nat
         /\ \A k \in 1..Len(text) : text[k] \in 0..255
         /\ i \in Nat /\ token_start \in Nat
         /\ bytes \in Seq(PatternByte) /\ Len(bytes) \in Nat
<1>1. text \in Seq(Char) /\ bytes \in Seq(PatternByte)
  BY TextsAssumption DEF TypeOK
<1>2. Len(text) \in Nat /\ Len(bytes) \in Nat
  BY <1>1, LenProperties
<1>3. ASSUME NEW k \in 1..Len(text) PROVE text[k] \in 0..255
  BY <1>1, CharAssumption, ElementOfSeq
<1>4. i \in Nat /\ token_start \in Nat
  BY <1>2 DEF TypeOK
<1>. QED
  BY <1>1, <1>2, <1>3, <1>4

LEMMA FixedType ==
  ASSUME TypeOK, IsHexToken(token_start, i), i <= Len(text)
  PROVE  Fixed(token_start) \in PatternByte
<1>1. token_start + 1 \in 1..Len(text) /\ token_start + 2 \in 1..Len(text)
  BY TextType DEF IsHexToken
<1>2. ASSUME NEW c \in 0..255, IsHex(c) PROVE HexValue(c) \in 0..15
  BY <1>2 DEF IsHex, HexValue, NotHex
<1>3. /\ HexValue(text[token_start + 1]) \in 0..15
      /\ HexValue(text[token_start + 2]) \in 0..15
  BY <1>1, <1>2, TextType DEF IsHexToken
<1>4. ASSUME NEW h \in 0..15, NEW l \in 0..15 PROVE h * 16 + l \in 0..255
  OBVIOUS
<1>. QED
  BY <1>3, <1>4 DEF Fixed, PatternByte

LEMMA InitType == Init => TypeOK
BY TextsAssumption DEF Init, TypeOK

LEMMA NextType == TypeOK /\ [Next]_vars => TypeOK'
<1> SUFFICES ASSUME TypeOK, [Next]_vars PROVE TypeOK'
  OBVIOUS
<1>0. Wildcard \in PatternByte /\ Len(text) \in Nat
  BY TextType DEF Wildcard, PatternByte
<1>1. ASSUME pc = "loop", NextCharacter
      PROVE  /\ i' \in 0..Len(text) /\ pc' \in {"loop", "finish", "done"}
             /\ i + 1 \in 0..(Len(text) + 1)
  BY <1>1, <1>0 DEF NextCharacter, AtEnd, TypeOK
<1>2. CASE InsideToken
  BY <1>2, <1>1 DEF InsideToken, TypeOK
<1>3. CASE EmptyToken
  BY <1>3, <1>1 DEF EmptyToken, TypeOK
<1>4. CASE WildcardToken
  <2>1. Append(bytes, Wildcard) \in Seq(PatternByte)
    BY <1>0, TextType, AppendProperties
  <2>. QED
    BY <1>4, <1>1, <2>1 DEF WildcardToken, TypeOK
<1>5. CASE HexToken
  <2>1. Append(bytes, Fixed(token_start)) \in Seq(PatternByte)
    <3>1. i <= Len(text)
      BY <1>0 DEF TypeOK
    <3>2. Fixed(token_start) \in PatternByte
      BY <1>5, <3>1, FixedType DEF HexToken
    <3>. QED
      BY <3>2, TextType, AppendProperties
  <2>. QED
    BY <1>5, <1>1, <2>1 DEF HexToken, TypeOK
<1>6. CASE BadToken
  BY <1>6 DEF BadToken, TypeOK
<1>7. CASE Finish
  BY <1>7 DEF Finish, TypeOK
<1>8. CASE UNCHANGED vars
  BY <1>8 DEF vars, TypeOK
<1>. QED
  BY <1>2, <1>3, <1>4, <1>5, <1>6, <1>7, <1>8 DEF Next, Parse, Terminating

(* Every variable keeps its type; in particular two hexadecimal digits     *)
(* always make a value of one byte.                                        *)
THEOREM TypeCorrect == Spec => []TypeOK
BY InitType, NextType, PTL DEF Spec

-----------------------------------------------------------------------------
(* Where the pass stands: what lies between token_start and i is part of   *)
(* one token, what lies before token_start is a separator, and every byte  *)
(* compiled has used up two characters at least.                           *)
PassShape ==
  /\ pc = "loop" => token_start <= i /\ status = "running"
  /\ pc = "finish" => i = Len(text) /\ token_start = i + 1 /\ status = "running"
  /\ pc = "done" => status # "running"
  /\ token_start \in 1..Len(text) => IsSpace(text[token_start])
  /\ \A k \in token_start..(i - 1) : ~IsSpace(text[k + 1])
  /\ 2 * Len(bytes) <= token_start

PassInv == PassShape /\ CompiledSoFar /\ VerdictIsRight

LEMMA PassInit == TypeOK /\ Init => PassInv
<1> SUFFICES ASSUME TypeOK, Init PROVE PassInv
  OBVIOUS
<1>1. TokenStarts(0) = {}
  BY TextType DEF TokenStarts
<1>2. Len(bytes) = 0 /\ Cardinality(TokenStarts(token_start)) = 0
  BY <1>1, FS_EmptySet, EmptySeq DEF Init
<1>3. CompiledSoFar
  BY <1>1, <1>2 DEF Init, CompiledSoFar
<1>. QED
  BY <1>2, <1>3, TextType DEF Init, PassInv, PassShape, VerdictIsRight

LEMMA StartsFinite ==
  ASSUME TypeOK, NEW hi \in Int
  PROVE  IsFiniteSet(TokenStarts(hi)) /\ Cardinality(TokenStarts(hi)) \in Nat
<1>1. TokenStarts(hi) \in SUBSET (0..(Len(text) - 1))
  BY DEF TokenStarts
<1>2. IsFiniteSet(0..(Len(text) - 1))
  <2>1. 0 \in Int /\ Len(text) - 1 \in Int
    BY TextType
  <2>. QED
    BY <2>1, FS_Interval
<1>3. IsFiniteSet(TokenStarts(hi))
  BY <1>1, <1>2, FS_Subset
<1>. QED
  BY <1>3, FS_CardinalityType

(* At a boundary past token_start, text[token_start..i-1] is a token and   *)
(* the only one that starts there.                                         *)
LEMMA TokenAtBoundary ==
  ASSUME TypeOK, PassShape, pc = "loop", TokenBoundary, i > token_start
  PROVE  /\ TokenStarts(i + 1) = TokenStarts(token_start) \cup {token_start}
         /\ token_start \notin TokenStarts(token_start)
         /\ token_start \in TokenStarts(Len(text))
         /\ i \in (token_start + 1)..Len(text)
         /\ EndsAt(token_start, i)
         /\ \A e \in (token_start + 1)..Len(text) : EndsAt(token_start, e) => e = i
<1>0. /\ Len(text) \in Nat /\ i \in Nat /\ token_start \in Nat /\ i <= Len(text)
      /\ \A k \in token_start..(i - 1) : ~IsSpace(text[k + 1])
      /\ token_start \in 1..Len(text) => IsSpace(text[token_start])
      /\ i = Len(text) \/ IsSpace(text[i + 1])
  BY TextType DEF TypeOK, PassShape, TokenBoundary, AtEnd
<1>1. token_start \in 0..(Len(text) - 1) /\ IsTokenStart(token_start)
  BY <1>0 DEF IsTokenStart
<1>2. ASSUME NEW a \in 0..(Len(text) - 1), IsTokenStart(a), a < i + 1
      PROVE  a < token_start \/ a = token_start
  <2>1. CASE a = i
    BY <1>0, <1>2, <2>1 DEF IsTokenStart
  <2>2. CASE a > token_start /\ a < i
    <3>1. a - 1 \in token_start..(i - 1) /\ a # 0 /\ (a - 1) + 1 = a
      BY <1>0, <2>2
    <3>2. ~IsSpace(text[a])
      BY <1>0, <3>1
    <3>. QED
      BY <3>1, <3>2, <1>2 DEF IsTokenStart
  <2>. QED
    BY <1>0, <1>2, <2>1, <2>2
<1>3. TokenStarts(i + 1) = TokenStarts(token_start) \cup {token_start}
  BY <1>0, <1>1, <1>2 DEF TokenStarts
<1>4. EndsAt(token_start, i)
  BY <1>0 DEF EndsAt
<1>5. ASSUME NEW e \in (token_start + 1)..Len(text), EndsAt(token_start, e)
      PROVE  e = i
  <2>1. CASE e < i
    BY <1>0, <1>5, <2>1 DEF EndsAt
  <2>2. CASE i < e
    BY <1>0, <1>5, <2>2 DEF EndsAt
  <2>. QED
    BY <1>0, <2>1, <2>2
<1>. QED
  BY <1>0, <1>1, <1>3, <1>4, <1>5 DEF TokenStarts

LEMMA EmptyAtBoundary ==
  ASSUME TypeOK, TokenBoundary, i = token_start
  PROVE  TokenStarts(i + 1) = TokenStarts(token_start)
BY TextType DEF TypeOK, TokenBoundary, AtEnd, TokenStarts, IsTokenStart

(* One more token compiled to b. *)
LEMMA OneMoreToken ==
  ASSUME TypeOK, PassShape, CompiledSoFar, pc = "loop", TokenBoundary, i > token_start,
         NEW b \in PatternByte, CompilesTo(token_start, b)
  PROVE  LET t == Append(bytes, b)
         IN  /\ Len(t) = Cardinality(TokenStarts(i + 1))
             /\ \A a \in TokenStarts(i + 1) : Rank(a) \in 1..Len(t) /\ CompilesTo(a, t[Rank(a)])
<1> DEFINE t == Append(bytes, b)
<1>1. /\ Len(t) = Len(bytes) + 1 /\ Len(bytes) \in Nat
      /\ \A k \in 1..Len(bytes) : t[k] = bytes[k]
      /\ t[Len(bytes) + 1] = b
  BY AppendProperties, TextType DEF TypeOK
<1>2. Len(bytes) = Cardinality(TokenStarts(token_start))
  BY DEF CompiledSoFar
<1>3. Cardinality(TokenStarts(i + 1)) = Len(bytes) + 1
  <2>1. IsFiniteSet(TokenStarts(token_start))
    BY StartsFinite, TextType
  <2>2. /\ TokenStarts(i + 1) = TokenStarts(token_start) \cup {token_start}
        /\ token_start \notin TokenStarts(token_start)
    BY TokenAtBoundary
  <2>. QED
    BY <1>2, <2>1, <2>2, FS_AddElement
<1>4. ASSUME NEW a \in TokenStarts(token_start)
      PROVE  Rank(a) \in 1..Len(t) /\ CompilesTo(a, t[Rank(a)])
  BY <1>1, <1>4 DEF CompiledSoFar
<1>5. Rank(token_start) = Len(bytes) + 1
  BY <1>2 DEF Rank
<1>. QED
  BY <1>1, <1>3, <1>4, <1>5, TokenAtBoundary

(* What a boundary does to the shape of the pass. *)
LEMMA ShapeAtBoundary ==
  ASSUME TypeOK, PassShape, pc = "loop", status = "running", TokenBoundary, NextCharacter,
         token_start' = i + 1, status' = status, text' = text,
         2 * Len(bytes') <= i + 1
  PROVE  PassShape'
<1>1. /\ Len(text) \in Nat /\ i \in Nat /\ i <= Len(text)
      /\ AtEnd => i = Len(text)
      /\ ~AtEnd => IsSpace(text[i + 1])
  BY TextType DEF TypeOK, TokenBoundary, AtEnd
<1>2. CASE AtEnd
  BY <1>1, <1>2 DEF PassShape, NextCharacter, AtEnd
<1>3. CASE ~AtEnd
  <2>1. i' = i + 1 /\ pc' = "loop"
    BY <1>3 DEF NextCharacter
  <2>. QED
    BY <1>1, <1>3, <2>1 DEF PassShape
<1>. QED
  BY <1>2, <1>3

(* What has been compiled can be compiled. *)
LEMMA CompiledMeans ==
  ASSUME CompiledSoFar, NEW a \in TokenStarts(token_start)
  PROVE  Compiles(a)
<1>1. CompilesTo(a, bytes[Rank(a)])
  BY DEF CompiledSoFar
<1>. QED
  BY <1>1 DEF CompilesTo, Compiles

LEMMA SameTokens ==
  ASSUME text' = text, token_start' = token_start
  PROVE  /\ BadTokens' = BadTokens
         /\ TokenStarts(Len(text))' = TokenStarts(Len(text))
         /\ TwoCharacters(token_start)' <=> TwoCharacters(token_start)
BY DEF BadTokens, TokenStarts, IsTokenStart, Compiles, TwoCharacters, EndsAt,
       IsWildcardToken, IsHexToken

LEMMA PassStep == TypeOK /\ PassInv /\ [Next]_vars => PassInv'
<1> SUFFICES ASSUME TypeOK, PassInv, [Next]_vars PROVE PassInv'
  OBVIOUS
<1>0. /\ PassShape /\ CompiledSoFar /\ VerdictIsRight
      /\ Len(text) \in Nat /\ i \in Nat /\ token_start \in Nat /\ Len(bytes) \in Nat
      /\ i <= Len(text)
      /\ bytes \in Seq(PatternByte)
  BY TextType DEF PassInv, TypeOK
<1>1. ASSUME NEW hi, text' = text PROVE TokenStarts(hi)' = TokenStarts(hi)
  BY <1>1 DEF TokenStarts, IsTokenStart
<1>2. ASSUME NEW a, NEW b, text' = text PROVE CompilesTo(a, b)' <=> CompilesTo(a, b)
  BY <1>2 DEF CompilesTo, EndsAt, IsWildcardToken, IsHexToken, Fixed
<1>3. ASSUME NEW a, text' = text PROVE Rank(a)' = Rank(a)
  BY <1>3 DEF Rank, TokenStarts, IsTokenStart
<1>4. ASSUME text' = text,
             Len(bytes') = Cardinality(TokenStarts(token_start')),
             \A a \in TokenStarts(token_start') :
               Rank(a) \in 1..Len(bytes') /\ CompilesTo(a, bytes'[Rank(a)])
      PROVE  CompiledSoFar'
  <2>1. TokenStarts(token_start)' = TokenStarts(token_start')
    BY <1>4 DEF TokenStarts, IsTokenStart
  <2>2. \A a : Rank(a)' = Rank(a)
    BY <1>3, <1>4
  <2>3. \A a, b : CompilesTo(a, b)' <=> CompilesTo(a, b)
    BY <1>2, <1>4
  <2>4. \A a \in TokenStarts(token_start') : CompilesTo(a, bytes[Rank(a)])'
    BY <1>4, <2>2 DEF CompilesTo, EndsAt, IsWildcardToken, IsHexToken, Fixed
  <2>. QED
    BY <1>4, <2>1, <2>2, <2>4 DEF CompiledSoFar
<1>5. ASSUME UNCHANGED <<text, token_start, bytes>> PROVE CompiledSoFar'
  BY <1>0, <1>4, <1>5 DEF CompiledSoFar
<1>6. ASSUME pc' # "done" PROVE VerdictIsRight'
  BY <1>6 DEF VerdictIsRight
<1>7. CASE InsideToken
  <2>1. ~IsSpace(text[i + 1]) /\ i' = i + 1 /\ pc' = "loop" /\ pc = "loop"
    BY <1>7 DEF InsideToken, TokenBoundary, NextCharacter
  <2>2. PassShape'
    BY <1>7, <1>0, <2>1 DEF InsideToken, PassShape
  <2>. QED
    BY <1>7, <1>0, <1>5, <1>6, <2>2 DEF InsideToken, PassShape, PassInv
<1>8. CASE EmptyToken
  <2>1. PassShape'
    <3>1. 2 * Len(bytes') <= i + 1
      BY <1>8, <1>0 DEF EmptyToken, PassShape
    <3>. QED
      BY <1>8, <1>0, <3>1, ShapeAtBoundary DEF EmptyToken, PassShape
  <2>2. TokenStarts(i + 1) = TokenStarts(token_start)
    BY <1>8, EmptyAtBoundary DEF EmptyToken
  <2>3. CompiledSoFar'
    BY <1>8, <1>0, <1>4, <2>2 DEF EmptyToken, CompiledSoFar
  <2>. QED
    BY <1>8, <1>0, <1>6, <2>1, <2>3 DEF EmptyToken, PassShape, PassInv
<1>9. ASSUME NEW b \in PatternByte, CompilesTo(token_start, b), bytes' = Append(bytes, b),
             pc = "loop", TokenBoundary, i > token_start, NextCharacter,
             token_start' = i + 1, text' = text, status' = status
      PROVE  PassInv'
  <2>1. Len(bytes') = Len(bytes) + 1
    BY <1>0, <1>9, AppendProperties
  <2>2. PassShape'
    <3>1. 2 * Len(bytes') <= i + 1
      BY <1>0, <1>9, <2>1 DEF PassShape
    <3>. QED
      BY <1>0, <1>9, <3>1, ShapeAtBoundary DEF PassShape
  <2>3. CompiledSoFar'
    BY <1>0, <1>4, <1>9, OneMoreToken
  <2>. QED
    BY <1>0, <1>6, <1>9, <2>2, <2>3 DEF PassShape, PassInv
<1>10. CASE WildcardToken
  <2>1. Wildcard \in PatternByte
    BY DEF Wildcard, PatternByte
  <2>2. CompilesTo(token_start, Wildcard)
    BY <1>10, <1>0, TokenAtBoundary DEF WildcardToken, CompilesTo
  <2>. QED
    BY <1>10, <1>9, <2>1, <2>2 DEF WildcardToken
<1>11. CASE HexToken
  <2>1. Fixed(token_start) \in PatternByte
    BY <1>11, <1>0, FixedType DEF HexToken
  <2>2. CompilesTo(token_start, Fixed(token_start))
    BY <1>11, <1>0, TokenAtBoundary DEF HexToken, CompilesTo
  <2>. QED
    BY <1>11, <1>9, <2>1, <2>2 DEF HexToken
<1>12. CASE BadToken
  <2>1. /\ pc = "loop" /\ TokenBoundary /\ i > token_start
        /\ ~IsWildcardToken(token_start, i) /\ ~IsHexToken(token_start, i)
        /\ pc' = "done"
        /\ status' = (IF i - token_start = 2 THEN "invalid_hex_byte" ELSE "invalid_token")
        /\ UNCHANGED <<text, i, token_start, bytes>>
    BY <1>12 DEF BadToken
  <2>2. token_start \in BadTokens
    BY <2>1, <1>0, TokenAtBoundary DEF BadTokens, Compiles
  <2>3. ASSUME NEW a \in BadTokens PROVE token_start <= a
    <3>1. a \in Int /\ (a < token_start => a \in TokenStarts(token_start))
      BY DEF BadTokens, TokenStarts
    <3>2. a \notin TokenStarts(token_start)
      BY <1>0, CompiledMeans DEF BadTokens
    <3>. QED
      BY <3>1, <3>2, <1>0
  <2>4. i - token_start = 2 <=> TwoCharacters(token_start)
    <3>1. EndsAt(token_start, i)
      BY <2>1, <1>0, TokenAtBoundary
    <3>2. ASSUME TwoCharacters(token_start) PROVE token_start + 2 = i
      <4>1. token_start + 2 \in (token_start + 1)..Len(text) /\ EndsAt(token_start, token_start + 2)
        BY <3>2, <1>0 DEF TwoCharacters
      <4>. QED
        BY <4>1, <2>1, <1>0, TokenAtBoundary
    <3>3. ASSUME i - token_start = 2 PROVE TwoCharacters(token_start)
      <4>1. token_start + 2 = i
        BY <3>3, <1>0
      <4>. QED
        BY <4>1, <3>1, <1>0 DEF TwoCharacters
    <3>. QED
      BY <3>2, <3>3, <1>0
  <2>5. BadTokens' = BadTokens /\ (TwoCharacters(token_start)' <=> TwoCharacters(token_start))
    BY <2>1, SameTokens
  <2>6. VerdictIsRight'
    BY <2>1, <2>2, <2>3, <2>4, <2>5 DEF VerdictIsRight
  <2>7. PassShape'
    BY <2>1, <1>0 DEF PassShape
  <2>. QED
    BY <2>1, <2>6, <2>7, <1>5 DEF PassInv
<1>13. CASE Finish
  <2>1. /\ i = Len(text) /\ token_start = Len(text) + 1 /\ pc' = "done"
        /\ status' = (IF bytes = << >> THEN "empty_pattern" ELSE "ok")
        /\ UNCHANGED <<text, i, token_start, bytes>>
    BY <1>13, <1>0 DEF Finish, PassShape
  <2>2. TokenStarts(token_start) = TokenStarts(Len(text))
    BY <2>1, <1>0 DEF TokenStarts
  <2>3. BadTokens = {}
    BY <2>2, <1>0, CompiledMeans DEF BadTokens
  <2>4. Len(bytes) = Cardinality(TokenStarts(Len(text)))
    BY <2>2, <1>0 DEF CompiledSoFar
  <2>5. bytes = << >> <=> TokenStarts(Len(text)) = {}
    <3>1. IsFiniteSet(TokenStarts(Len(text)))
      BY <1>0, StartsFinite
    <3>2. TokenStarts(Len(text)) = {} <=> Len(bytes) = 0
      BY <3>1, <2>4, FS_EmptySet
    <3>. QED
      BY <3>2, <1>0, EmptySeq
  <2>6. BadTokens' = BadTokens /\ TokenStarts(Len(text))' = TokenStarts(Len(text))
    BY <2>1, SameTokens
  <2>7. Cardinality(TokenStarts(Len(text)))' = Cardinality(TokenStarts(Len(text)))
    BY <2>6
  <2>8. VerdictIsRight'
    BY <2>1, <2>3, <2>4, <2>5, <2>6, <2>7 DEF VerdictIsRight
  <2>9. PassShape'
    BY <2>1, <1>0 DEF PassShape
  <2>. QED
    BY <2>1, <2>8, <2>9, <1>5 DEF PassInv
<1>14. CASE UNCHANGED vars
  <2>1. PassShape'
    BY <1>14, <1>0 DEF vars, PassShape
  <2>2. VerdictIsRight'
    <3>1. /\ BadTokens' = BadTokens
          /\ (TwoCharacters(token_start)' <=> TwoCharacters(token_start))
          /\ TokenStarts(Len(text))' = TokenStarts(Len(text))
          /\ UNCHANGED <<pc, status, bytes, token_start>>
      BY <1>14, SameTokens DEF vars
    <3>2. Cardinality(TokenStarts(Len(text)))' = Cardinality(TokenStarts(Len(text)))
      BY <3>1
    <3>. QED
      BY <1>0, <3>1, <3>2 DEF VerdictIsRight
  <2>. QED
    BY <1>14, <1>5, <2>1, <2>2 DEF vars, PassInv
<1>. QED
  BY <1>7, <1>8, <1>10, <1>11, <1>12, <1>13, <1>14 DEF Next, Parse, Terminating

LEMMA PassInvariant == Spec => [](TypeOK /\ PassInv)
BY InitType, NextType, PassInit, PassStep, PTL DEF Spec

(* Pattern::parse never makes its vector grow past what it reserved.       *)
THEOREM ReserveSuffices == Spec => []NoReallocation
<1>1. TypeOK /\ PassInv => NoReallocation
  BY TextType DEF PassInv, PassShape, NoReallocation, Reserve, TypeOK
<1>. QED
  BY <1>1, PassInvariant, PTL

(* Each token before token_start is compiled, once and in order.           *)
THEOREM TokensCompiledInOrder == Spec => []CompiledSoFar
BY PassInvariant, PTL DEF PassInv

(* A text is accepted exactly when it has a token and all its tokens       *)
(* compile; otherwise the ParseError names the first one that does not.    *)
THEOREM VerdictCorrect == Spec => []VerdictIsRight
<1>1. PassInv => VerdictIsRight
  BY DEF PassInv, VerdictIsRight
<1>. QED
  BY <1>1, PassInvariant, PTL

=============================================================================
