------------------------------- MODULE Result -------------------------------
(***************************************************************************)
(* gmk::Result<T> (src/include/gmk/core/result.hpp): a tag and a union of  *)
(* a value and an error, whose constructors, destructor and assignments    *)
(* manage the life of the payload by hand.  The model is the storage of    *)
(* several Results that one thread constructs, assigns and destroys.       *)
(*                                                                         *)
(* A constructor of a payload that throws leaves a constructor of Result   *)
(* without an object, and at most a source that is emptied as in           *)
(* TakeValue; so only the throw in the middle of an assignment is a step.  *)
(***************************************************************************)
EXTENDS Integers, FiniteSets

CONSTANTS Objects,      \* the places Results may live in
          Values,       \* of T
          Errors,       \* of Error
          MayThrow      \* which constructors of T or Error may throw

MovedFrom == "moved_from"    \* the content of a payload that was moved from

ASSUME ResultAssumption == /\ IsFiniteSet(Objects)
                           /\ MovedFrom \notin Values \cup Errors
                           /\ MayThrow \subseteq {"copy", "move"}

VARIABLES alive,        \* per place, whether a Result lives there
          has_value,    \* per place, its tag
          holds,        \* per place, the payload constructed in its union
          assign,       \* the assignment that is under way
          payloads,     \* history: payloads constructed and not destroyed
          threw,        \* the places where an assignment threw
          undefined     \* whether the program's behaviour has become undefined

vars == <<alive, has_value, holds, assign, payloads, threw, undefined>>

-----------------------------------------------------------------------------
Nothing == [kind |-> "nothing", content |-> "garbage"]
Payload(tag, c) == [kind |-> IF tag THEN "value" ELSE "error", content |-> c]
Emptied(p) == [p EXCEPT !.content = MovedFrom]

NoAssign == [kind |-> "none"]
Idle == assign = NoAssign /\ ~undefined
Usable(r) == alive[r] /\ r \notin threw

(* value_ref() or error_, whichever the tag says is there. *)
PayloadOf(s) == Payload(has_value[s], holds[s].content)

Init == /\ alive = [r \in Objects |-> FALSE]
        /\ has_value = [r \in Objects |-> FALSE]
        /\ holds = [r \in Objects |-> Nothing]
        /\ assign = NoAssign
        /\ payloads = 0
        /\ threw = {} /\ undefined = FALSE

(* A constructor of Result: the tag, and a payload by placement new. *)
Construct(r, tag, p) == /\ alive' = [alive EXCEPT ![r] = TRUE]
                        /\ has_value' = [has_value EXCEPT ![r] = tag]
                        /\ holds' = [holds EXCEPT ![r] = p]
                        /\ payloads' = payloads + 1

ConstructValue(r) == /\ Idle /\ ~alive[r]
                     /\ \E v \in Values : Construct(r, TRUE, Payload(TRUE, v))
                     /\ UNCHANGED <<assign, threw, undefined>>

ConstructError(r) == /\ Idle /\ ~alive[r]
                     /\ \E e \in Errors : Construct(r, FALSE, Payload(FALSE, e))
                     /\ UNCHANGED <<assign, threw, undefined>>

CopyConstruct(r, s) == /\ Idle /\ ~alive[r] /\ Usable(s)
                       /\ Construct(r, has_value[s], PayloadOf(s))
                       /\ UNCHANGED <<assign, threw, undefined>>

(* The payload of the source moves; its tag stays, and its payload is      *)
(* still there to be destroyed.  A variant whose name says what it gets    *)
(* wrong is not used.                                                      *)
MovePayloadDestroying(r, s) ==
  /\ alive' = [alive EXCEPT ![r] = TRUE]
  /\ has_value' = [has_value EXCEPT ![r] = has_value[s]]
  /\ holds' = [holds EXCEPT ![r] = PayloadOf(s), ![s] = Nothing]
  /\ payloads' = payloads

MovePayload(r, s) ==
  /\ alive' = [alive EXCEPT ![r] = TRUE]
  /\ has_value' = [has_value EXCEPT ![r] = has_value[s]]
  /\ holds' = [holds EXCEPT ![r] = PayloadOf(s), ![s] = Emptied(@)]
  /\ payloads' = payloads + 1

MoveConstruct(r, s) == /\ Idle /\ ~alive[r] /\ Usable(s)
                       /\ MovePayload(r, s)
                       /\ UNCHANGED <<assign, threw, undefined>>

(* ~Result() calls the destructor the tag names, whatever is there. *)
DestroyPayload(r) == /\ holds' = [holds EXCEPT ![r] = Nothing]
                     /\ payloads' = payloads - 1

Destroy(r) == /\ Idle /\ Usable(r)
              /\ DestroyPayload(r)
              /\ alive' = [alive EXCEPT ![r] = FALSE]
              /\ UNCHANGED <<has_value, assign, threw, undefined>>

-----------------------------------------------------------------------------
(* operator=: nothing on self-assignment, otherwise this->~Result(), and   *)
(* then new (this) Result(other).                                          *)
AssignSelf(r) == /\ Idle /\ Usable(r)
                 /\ UNCHANGED vars

BeginAssignUnchecked(kind, r, s) ==
  /\ Idle /\ Usable(r) /\ Usable(s)
  /\ DestroyPayload(r)
  /\ assign' = [kind |-> kind, to |-> r, from |-> s]
  /\ UNCHANGED <<alive, has_value, threw, undefined>>

BeginAssignKeepingOld(kind, r, s) ==
  /\ Idle /\ Usable(r) /\ Usable(s) /\ r # s
  /\ assign' = [kind |-> kind, to |-> r, from |-> s]
  /\ UNCHANGED <<alive, has_value, holds, payloads, threw, undefined>>

BeginAssign(kind, r, s) ==
  /\ Idle /\ Usable(r) /\ Usable(s)
  /\ r # s
  /\ DestroyPayload(r)
  /\ assign' = [kind |-> kind, to |-> r, from |-> s]
  /\ UNCHANGED <<alive, has_value, threw, undefined>>

FinishCopyKeepingTag ==
  /\ assign.kind = "copy"
  /\ Construct(assign.to, has_value[assign.to], PayloadOf(assign.from))
  /\ assign' = NoAssign
  /\ UNCHANGED <<threw, undefined>>

FinishCopy == /\ assign.kind = "copy"
              /\ Construct(assign.to, has_value[assign.from], PayloadOf(assign.from))
              /\ assign' = NoAssign
              /\ UNCHANGED <<threw, undefined>>

FinishMove == /\ assign.kind = "move"
              /\ MovePayload(assign.to, assign.from)
              /\ assign' = NoAssign
              /\ UNCHANGED <<threw, undefined>>

(* The tag is initialized before the payload, whose constructor throws: a  *)
(* copy of any payload, or a move of a T, which may have emptied its       *)
(* source.  No payload is there, and the object is alive to its owner.     *)
AssignThrows ==
  /\ assign.kind \in MayThrow
  /\ has_value' = [has_value EXCEPT ![assign.to] = has_value[assign.from]]
  /\ \/ UNCHANGED holds
     \/ /\ assign.kind = "move"
        /\ holds' = [holds EXCEPT ![assign.from] = Emptied(@)]
  /\ assign.kind = "move" => has_value[assign.from]
  /\ assign' = NoAssign
  /\ threw' = threw \cup {assign.to}
  /\ UNCHANGED <<alive, payloads, undefined>>

(* Whatever is done with the object next, its destruction at the latest,   *)
(* reaches for a payload that is not there.                                *)
UseAfterThrow(r) == /\ Idle /\ r \in threw
                    /\ undefined' = TRUE
                    /\ UNCHANGED <<alive, has_value, holds, assign, payloads, threw>>

Terminating == undefined /\ UNCHANGED vars

-----------------------------------------------------------------------------
(* std::move of the value, or value_or of an expiring Result: value()      *)
(* asserts the tag, and the caller empties what it refers to.              *)
TakeValue(r) == /\ Idle /\ Usable(r) /\ has_value[r]
                /\ holds' = [holds EXCEPT ![r] = Emptied(@)]
                /\ UNCHANGED <<alive, has_value, assign, payloads, threw, undefined>>

(* map: the function is the user's, an error is copied. *)
Map(r, s) == /\ Idle /\ ~alive[r] /\ Usable(s)
             /\ \/ /\ has_value[s]
                   /\ \E v \in Values : Construct(r, TRUE, Payload(TRUE, v))
                \/ /\ ~has_value[s]
                   /\ Construct(r, FALSE, PayloadOf(s))
             /\ UNCHANGED <<assign, threw, undefined>>

Next == \/ \E r \in Objects : \/ ConstructValue(r) \/ ConstructError(r)
                              \/ AssignSelf(r) \/ TakeValue(r)
                              \/ Destroy(r) \/ UseAfterThrow(r)
        \/ \E r, s \in Objects : \/ CopyConstruct(r, s) \/ MoveConstruct(r, s) \/ Map(r, s)
                                 \/ BeginAssign("copy", r, s) \/ BeginAssign("move", r, s)
        \/ FinishCopy \/ FinishMove \/ AssignThrows \/ Terminating

Spec == Init /\ [][Next]_vars

-----------------------------------------------------------------------------
Kinds == {"value", "error", "nothing"}

(* Type invariant: no more payloads are destroyed than were constructed.   *)
TypeOK ==
  /\ alive \in [Objects -> BOOLEAN] /\ has_value \in [Objects -> BOOLEAN]
  /\ holds \in [Objects -> [kind : Kinds,
                            content : Values \cup Errors \cup {MovedFrom, "garbage"}]]
  /\ assign \in {NoAssign} \cup [kind : {"copy", "move"}, to : Objects, from : Objects]
  /\ payloads \in 0..Cardinality(Objects)
  /\ threw \subseteq Objects /\ undefined \in BOOLEAN

Assigning(r) == assign # NoAssign /\ assign.to = r

Kind(r) == IF has_value[r] THEN "value" ELSE "error"

(* What is constructed in a Result is what its tag will have it destroy,   *)
(* except where an assignment threw (result.hpp:76-95): that leaves the    *)
(* source, and every other Result, as good as before.                      *)
TagTellsPayload ==
  \A r \in Objects : Usable(r) /\ ~Assigning(r) => holds[r].kind = Kind(r)

(* result.hpp:67-93: however Results are assigned and moved, every payload *)
(* is destroyed once: those constructed and not destroyed are those that   *)
(* living Results hold.                                                    *)
NoLeak == /\ payloads = Cardinality({r \in Objects : holds[r] # Nothing})
          /\ \A r \in Objects : ~alive[r] => holds[r] = Nothing

Seen(r) == [is |-> Kind(r), content |-> holds[r].content]

Abstract(r) == IF ~alive[r] THEN [is |-> "absent"]
               ELSE IF Assigning(r) \/ r \in threw THEN [is |-> "lost"] ELSE Seen(r)

A == INSTANCE ResultSpec WITH result <- [r \in Objects |-> Abstract(r)]

(* Results have the value semantics of ResultSpec: an assignment takes     *)
(* over the whole of its source, to itself changes nothing, and touches no *)
(* third object.                                                           *)
ImplementsSpec == A!Spec

(* result.hpp:25: "A value or an Error.  Never both, never neither."       *)
NeverBothNorNeither ==
  \A r \in Objects : alive[r] /\ ~Assigning(r) => holds[r].kind = Kind(r)

=============================================================================
