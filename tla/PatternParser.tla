--------------------------- MODULE PatternParser ---------------------------
(***************************************************************************)
(* Pattern::parse (src/src/pattern/pattern.cpp): one pass over the text,   *)
(* one step per character, that cuts it into tokens and compiles each      *)
(* token into a byte of the pattern.  Characters are their codes; offsets  *)
(* are 0-based, so the character at offset k is text[k + 1].               *)
(***************************************************************************)
EXTENDS Integers, Sequences, FiniteSets

CONSTANTS Char,   \* the character codes a text may hold
          Texts   \* the texts a caller may pass

ASSUME CharAssumption == Char \subseteq 0..255
ASSUME TextsAssumption == Texts \subseteq Seq(Char)

VARIABLES text,         \* the argument
          i,            \* the character being looked at
          token_start,  \* where the token that ends at i started
          bytes,        \* the bytes compiled so far
          pc,           \* "loop", "finish" or "done"
          status        \* "running", "ok", or which ParseError

vars == <<text, i, token_start, bytes, pc, status>>

-----------------------------------------------------------------------------
(* std::isspace in the "C" locale: \t \n \v \f \r and the space. *)
IsSpace(c) == c \in 9..13 \cup {32}

QuestionMark == 63
NotHex == -1

(* hex_value: '0'..'9', 'a'..'f', 'A'..'F'. *)
HexValue(c) == IF c \in 48..57 THEN c - 48
               ELSE IF c \in 97..102 THEN c - 97 + 10
               ELSE IF c \in 65..70 THEN c - 65 + 10
               ELSE NotHex

IsHex(c) == HexValue(c) # NotHex

(* As in Scanner, an operator whose name says what it gets wrong is a      *)
(* faulty variant that the specification does not use.                     *)
ReserveHalf(t) == Len(t) \div 2

(* What the vector of bytes reserves before the loop. *)
Reserve(t) == Len(t) \div 2 + 1

(* The token text[lo..hi-1] is "?" or "??". *)
IsWildcardToken(lo, hi) == /\ hi - lo \in {1, 2}
                           /\ \A k \in lo..(hi - 1) : text[k + 1] = QuestionMark

(* ... or two hexadecimal digits. *)
IsHexToken(lo, hi) == hi - lo = 2 /\ IsHex(text[lo + 1]) /\ IsHex(text[lo + 2])

(* The pattern byte a token compiles to. *)
Wildcard == [value |-> 0, wildcard |-> TRUE]
Fixed(lo) == [value |-> HexValue(text[lo + 1]) * 16 + HexValue(text[lo + 2]),
              wildcard |-> FALSE]

-----------------------------------------------------------------------------
Init == /\ text \in Texts
        /\ i = 0
        /\ token_start = 0
        /\ bytes = << >>
        /\ pc = "loop"
        /\ status = "running"

AtEnd == i = Len(text)

TokenBoundary == IF AtEnd THEN TRUE ELSE IsSpace(text[i + 1])

NextCharacterNoBreak == IF AtEnd THEN UNCHANGED <<pc, i>>
                                 ELSE i' = i + 1 /\ UNCHANGED pc

NextCharacterTooLate == IF i > Len(text) THEN pc' = "finish" /\ UNCHANGED i
                                         ELSE i' = i + 1 /\ UNCHANGED pc

NextCharacterShort == IF i + 1 >= Len(text) THEN pc' = "finish" /\ UNCHANGED i
                                            ELSE i' = i + 1 /\ UNCHANGED pc

(* The end of the loop body: leave at the end of the text, else go on. *)
NextCharacter == IF AtEnd THEN pc' = "finish" /\ UNCHANGED i
                          ELSE i' = i + 1 /\ UNCHANGED pc

InsideToken == /\ pc = "loop"
               /\ ~TokenBoundary
               /\ NextCharacter
               /\ UNCHANGED <<text, token_start, bytes, status>>

(* A boundary right after another one: nothing to compile. *)
EmptyToken == /\ pc = "loop"
              /\ TokenBoundary
              /\ i = token_start
              /\ token_start' = i + 1
              /\ NextCharacter
              /\ UNCHANGED <<text, bytes, status>>

WildcardToken == /\ pc = "loop"
                 /\ TokenBoundary
                 /\ i > token_start
                 /\ IsWildcardToken(token_start, i)
                 /\ bytes' = Append(bytes, Wildcard)
                 /\ token_start' = i + 1
                 /\ NextCharacter
                 /\ UNCHANGED <<text, status>>

HexToken == /\ pc = "loop"
            /\ TokenBoundary
            /\ i > token_start
            /\ ~IsWildcardToken(token_start, i)
            /\ IsHexToken(token_start, i)
            /\ bytes' = Append(bytes, Fixed(token_start))
            /\ token_start' = i + 1
            /\ NextCharacter
            /\ UNCHANGED <<text, status>>

SkipBadToken == /\ pc = "loop"
                /\ TokenBoundary
                /\ i > token_start
                /\ ~IsWildcardToken(token_start, i)
                /\ ~IsHexToken(token_start, i)
                /\ token_start' = i + 1
                /\ NextCharacter
                /\ UNCHANGED <<text, bytes, status>>

(* Two characters that are not both digits, or a token of another length:  *)
(* a ParseError that names the position token_start.                       *)
BadToken == /\ pc = "loop"
            /\ TokenBoundary
            /\ i > token_start
            /\ ~IsWildcardToken(token_start, i)
            /\ ~IsHexToken(token_start, i)
            /\ pc' = "done"
            /\ status' = IF i - token_start = 2 THEN "invalid_hex_byte" ELSE "invalid_token"
            /\ UNCHANGED <<text, i, token_start, bytes>>

Finish == /\ pc = "finish"
          /\ pc' = "done"
          /\ status' = IF bytes = << >> THEN "empty_pattern" ELSE "ok"
          /\ UNCHANGED <<text, i, token_start, bytes>>

Parse == InsideToken \/ EmptyToken \/ WildcardToken \/ HexToken \/ BadToken \/ Finish

Terminating == pc = "done" /\ UNCHANGED vars

Next == Parse \/ Terminating

Spec == Init /\ [][Next]_vars

(* The calling thread keeps running. *)
FairSpec == Spec /\ WF_vars(Parse)

-----------------------------------------------------------------------------
(* The tokens of a text, without a loop: a token is a longest run of       *)
(* characters that are not white space.                                    *)

IsTokenStart(a) == /\ ~IsSpace(text[a + 1])
                   /\ a = 0 \/ IsSpace(text[a])

TokenStarts(hi) == {a \in 0..(Len(text) - 1) : a < hi /\ IsTokenStart(a)}

(* The token that starts at a ends before e. *)
EndsAt(a, e) == /\ \A k \in a..(e - 1) : ~IsSpace(text[k + 1])
                /\ e = Len(text) \/ IsSpace(text[e + 1])

(* The token at a compiles to b: "??" and "?" to a wildcard, two hex       *)
(* digits to their value, nothing else to anything.                        *)
CompilesTo(a, b) ==
  \E e \in (a + 1)..Len(text) :
    /\ EndsAt(a, e)
    /\ \/ IsWildcardToken(a, e) /\ b = Wildcard
       \/ ~IsWildcardToken(a, e) /\ IsHexToken(a, e) /\ b = Fixed(a)

(* The place of the token at a among the tokens. *)
Rank(a) == Cardinality(TokenStarts(a)) + 1

(* The type of every variable. *)
PatternByte == [value : 0..255, wildcard : BOOLEAN]

TypeOK == /\ text \in Texts
          /\ i \in 0..Len(text)
          /\ token_start \in 0..(Len(text) + 1)
          /\ bytes \in Seq(PatternByte)
          /\ pc \in {"loop", "finish", "done"}
          /\ status \in {"running", "ok", "empty_pattern",
                         "invalid_hex_byte", "invalid_token"}

(* The bytes never outgrow what was reserved, so the vector is never       *)
(* reallocated: two tokens are at least one character and one separator    *)
(* apart, and the text need not end in a separator.                        *)
NoReallocation == Len(bytes) <= Reserve(text)

(* After any number of characters exactly the tokens before token_start    *)
(* are compiled, each once, in the order of the text; extra white space    *)
(* adds none and tears none apart.                                         *)
CompiledSoFar ==
  /\ Len(bytes) = Cardinality(TokenStarts(token_start))
  /\ \A a \in TokenStarts(token_start) :
       Rank(a) \in 1..Len(bytes) /\ CompilesTo(a, bytes[Rank(a)])

(* The token at a is "?", "??" or two hexadecimal digits.                  *)
Compiles(a) == \E e \in (a + 1)..Len(text) :
                 EndsAt(a, e) /\ (IsWildcardToken(a, e) \/ IsHexToken(a, e))

TwoCharacters(a) == a + 2 <= Len(text) /\ EndsAt(a, a + 2)

BadTokens == {a \in TokenStarts(Len(text)) : ~Compiles(a)}

(* A text is accepted exactly when it has a token and all its tokens       *)
(* compile, and then each of them has its byte.  Of a text with a token    *)
(* that compiles to nothing the first such token is blamed, by its         *)
(* position and with the message for its length (pattern.cpp:51-60).       *)
VerdictIsRight ==
  pc = "done" =>
    IF BadTokens # {}
    THEN /\ token_start \in BadTokens
         /\ \A a \in BadTokens : token_start <= a
         /\ status = IF TwoCharacters(token_start) THEN "invalid_hex_byte" ELSE "invalid_token"
    ELSE /\ status = IF TokenStarts(Len(text)) = {} THEN "empty_pattern" ELSE "ok"
         /\ Len(bytes) = Cardinality(TokenStarts(Len(text)))

(* Every call returns. *)
Terminates == <>(pc = "done")

=============================================================================
