---------------------------- MODULE ResultProofs ----------------------------
(* Theorems about Result, for any number of objects and payloads, whatever *)
(* throws.                                                                 *)
EXTENDS Result, FiniteSetTheorems, TLAPS

Contents == Values \cup Errors \cup {MovedFrom, "garbage"}

(* The places a payload is constructed in. *)
Holding == {r \in Objects : holds[r] # Nothing}

Types ==
  /\ alive \in [Objects -> BOOLEAN] /\ has_value \in [Objects -> BOOLEAN]
  /\ holds \in [Objects -> [kind : Kinds, content : Contents]]
  /\ assign \in {NoAssign} \cup [kind : {"copy", "move"}, to : Objects, from : Objects]
  /\ threw \subseteq Objects /\ undefined \in BOOLEAN

(* An assignment is between two usable objects, and its target, like one   *)
(* where an assignment threw, is alive and holds nothing.                  *)
LifeInv ==
  /\ ~Idle /\ ~undefined => /\ Usable(assign.to) /\ Usable(assign.from)
                            /\ assign.to # assign.from
  /\ undefined => assign = NoAssign
  /\ \A r \in threw : alive[r]
  /\ \A r \in Objects : IF Usable(r) /\ ~Assigning(r) THEN holds[r].kind = Kind(r)
                                                      ELSE holds[r] = Nothing

CountInv == payloads = Cardinality(Holding)

-----------------------------------------------------------------------------
(* Constructing where there is nothing adds a payload, destroying one that *)
(* is there removes it.                                                    *)
LEMMA OneMore ==
  ASSUME Types, CountInv, NEW r \in Objects, holds[r] = Nothing,
         holds'[r] # Nothing, payloads' = payloads + 1,
         \A s \in Objects \ {r} : holds'[s] = Nothing <=> holds[s] = Nothing
  PROVE  CountInv'
<1>1. Holding' = Holding \cup {r} /\ r \notin Holding
  BY DEF Holding
<1>2. IsFiniteSet(Holding)
  BY ResultAssumption, FS_Subset DEF Holding
<1>3. Cardinality(Holding \cup {r}) = Cardinality(Holding) + 1
  BY <1>1, <1>2, FS_AddElement
<1> QED
  BY <1>1, <1>3 DEF CountInv

LEMMA OneLess ==
  ASSUME Types, CountInv, NEW r \in Objects, holds[r] # Nothing,
         holds'[r] = Nothing, payloads' = payloads - 1,
         \A s \in Objects \ {r} : holds'[s] = Nothing <=> holds[s] = Nothing
  PROVE  CountInv'
<1>1. Holding' = Holding \ {r} /\ r \in Holding
  BY DEF Holding
<1>2. IsFiniteSet(Holding)
  BY ResultAssumption, FS_Subset DEF Holding
<1>3. Cardinality(Holding \ {r}) = Cardinality(Holding) - 1
  BY <1>1, <1>2, FS_RemoveElement
<1> QED
  BY <1>1, <1>3 DEF CountInv

LEMMA SameCount ==
  ASSUME CountInv, payloads' = payloads,
         \A s \in Objects : holds'[s] = Nothing <=> holds[s] = Nothing
  PROVE  CountInv'
<1>1. Holding' = Holding
  BY DEF Holding
<1> QED
  BY <1>1 DEF CountInv

-----------------------------------------------------------------------------
IInv == Types /\ LifeInv /\ CountInv

LEMMA InitInv == Init => IInv
<1>1. SUFFICES ASSUME Init PROVE IInv
  OBVIOUS
<1>2. Types
  BY <1>1 DEF Init, Types, Nothing, Kinds, Contents, NoAssign
<1>3. LifeInv
  BY <1>1 DEF Init, LifeInv, Idle, Usable, NoAssign
<1>4. Holding = {}
  BY <1>1 DEF Init, Holding
<1>5. CountInv
  BY <1>1, <1>4, FS_EmptySet DEF Init, CountInv
<1> QED
  BY <1>2, <1>3, <1>5 DEF IInv

(* A constructor in a place without an object. *)
LEMMA ConstructKeeps ==
  ASSUME IInv, Idle, NEW r \in Objects, ~alive[r],
         NEW tag \in BOOLEAN, NEW c \in Contents,
         Construct(r, tag, Payload(tag, c)), UNCHANGED <<assign, threw, undefined>>
  PROVE  IInv'
<1> USE DEF IInv
<1>1. Types'
  BY DEF Types, Construct, Payload, Kinds
<1>2. holds[r] = Nothing /\ r \notin threw
  BY DEF LifeInv, Usable
<1>3. /\ holds'[r] = Payload(tag, c)
      /\ \A q \in Objects \ {r} : holds'[q] = holds[q]
  BY DEF Types, Construct
<1>4. alive'[r] /\ has_value'[r] = tag /\ threw' = threw /\ assign' = assign
  BY DEF Types, Construct
<1>5. \A q \in Objects \ {r} : alive'[q] = alive[q] /\ has_value'[q] = has_value[q]
  BY DEF Types, Construct
<1>6. LifeInv'
  BY <1>2, <1>3, <1>4, <1>5
  DEF LifeInv, Idle, Usable, Assigning, Kind, Payload, Types
<1>7. holds'[r] # Nothing
  BY <1>3 DEF Payload, Nothing
<1>8. CountInv'
  BY <1>2, <1>3, <1>7, OneMore DEF Construct
<1> QED
  BY <1>1, <1>6, <1>8

(* A usable object holds a payload of the kind its tag tells. *)
LEMMA UsableHolds ==
  ASSUME IInv, NEW s \in Objects, Usable(s), ~Assigning(s)
  PROVE  holds[s].kind = Kind(s) /\ holds[s] # Nothing /\ holds[s].content \in Contents
<1>1. holds[s].kind = Kind(s)
  BY DEF IInv, LifeInv
<1>2. Kind(s) # "nothing" /\ Nothing.kind = "nothing"
  BY DEF Kind, Nothing
<1>3. holds[s] \in [kind : Kinds, content : Contents]
  BY DEF IInv, Types
<1> QED
  BY <1>1, <1>2, <1>3

-----------------------------------------------------------------------------
(* The steps that do more than construct.                                  *)
LEMMA MoveConstructKeeps ==
  ASSUME IInv, NEW r \in Objects, NEW s \in Objects, MoveConstruct(r, s)
  PROVE  IInv'
<1> USE DEF IInv
<1>1. Idle /\ ~alive[r] /\ Usable(s) /\ r # s /\ ~Assigning(s)
  BY DEF MoveConstruct, Usable, Idle, Assigning
<1>2. holds[s].kind = Kind(s) /\ holds[s] # Nothing /\ holds[s].content \in Contents
  BY <1>1, UsableHolds
<1>3. Types'
  BY <1>2 DEF Types, MoveConstruct, MovePayload, PayloadOf, Payload, Emptied, Kinds, Contents
<1>4. holds[r] = Nothing /\ r \notin threw
  BY <1>1 DEF LifeInv, Usable
<1>5. /\ holds'[r] = PayloadOf(s) /\ holds'[s] = Emptied(holds[s])
      /\ \A q \in Objects \ {r, s} : holds'[q] = holds[q]
  BY <1>1 DEF Types, MoveConstruct, MovePayload
<1>6. holds'[s].kind = holds[s].kind
  BY <1>5 DEF Emptied, Types
<1>7. /\ alive'[r] /\ has_value'[r] = has_value[s] /\ threw' = threw
      /\ assign' = assign /\ undefined' = undefined
      /\ \A q \in Objects \ {r} : alive'[q] = alive[q] /\ has_value'[q] = has_value[q]
  BY DEF Types, MoveConstruct, MovePayload
<1>8. LifeInv'
  BY <1>1, <1>2, <1>4, <1>5, <1>6, <1>7
  DEF LifeInv, Idle, Usable, Assigning, Kind, PayloadOf, Payload, Types
<1>9. holds'[r] # Nothing /\ holds'[s] # Nothing
  <2>1. holds'[s].kind # "nothing" /\ holds'[r].kind # "nothing"
    BY <1>2, <1>5, <1>6 DEF Kind, PayloadOf, Payload
  <2> QED
    BY <2>1 DEF Nothing
<1>10. CountInv'
  BY <1>2, <1>4, <1>5, <1>9, OneMore DEF MoveConstruct, MovePayload
<1> QED
  BY <1>3, <1>8, <1>10

LEMMA DestroyKeeps ==
  ASSUME IInv, NEW r \in Objects, Destroy(r)
  PROVE  IInv'
<1> USE DEF IInv
<1>1. Idle /\ Usable(r) /\ ~Assigning(r)
  BY DEF Destroy, Idle, Assigning
<1>2. Types'
  BY DEF Types, Destroy, DestroyPayload, Nothing, Kinds, Contents
<1>3. holds'[r] = Nothing /\ \A q \in Objects \ {r} : holds'[q] = holds[q]
  BY DEF Types, Destroy, DestroyPayload
<1>4. LifeInv'
  BY <1>1, <1>3 DEF LifeInv, Destroy, Idle, Usable, Assigning, Kind, Types
<1>5. CountInv'
  BY <1>1, <1>3, UsableHolds, OneLess DEF Destroy, DestroyPayload
<1> QED
  BY <1>2, <1>4, <1>5

LEMMA BeginAssignKeeps ==
  ASSUME IInv, NEW kind \in {"copy", "move"}, NEW r \in Objects, NEW s \in Objects,
         BeginAssign(kind, r, s)
  PROVE  IInv'
<1> USE DEF IInv
<1>1. Idle /\ Usable(r) /\ Usable(s) /\ ~Assigning(r) /\ r # s
  BY DEF BeginAssign, Idle, Assigning
<1>2. Types'
  BY DEF Types, BeginAssign, DestroyPayload, Nothing, Kinds, Contents
<1>3. holds'[r] = Nothing /\ \A q \in Objects \ {r} : holds'[q] = holds[q]
  BY DEF Types, BeginAssign, DestroyPayload
<1>4. assign'.to = r /\ assign'.from = s /\ assign' # NoAssign
  <2>1. assign' = [kind |-> kind, to |-> r, from |-> s]
    BY DEF BeginAssign
  <2>2. assign'.kind # "none"
    BY <2>1
  <2> QED
    BY <2>1, <2>2 DEF NoAssign
<1>5. LifeInv'
  BY <1>1, <1>3, <1>4 DEF LifeInv, BeginAssign, Idle, Usable, Assigning, Kind, Types
<1>6. CountInv'
  BY <1>1, <1>3, UsableHolds, OneLess DEF BeginAssign, DestroyPayload
<1> QED
  BY <1>2, <1>5, <1>6

(* Under way, an assignment knows two objects, the source of which can be  *)
(* used.                                                                   *)
LEMMA UnderWay ==
  ASSUME IInv, assign.kind \in {"copy", "move"}
  PROVE  /\ assign \in [kind : {"copy", "move"}, to : Objects, from : Objects]
         /\ assign.to \in Objects /\ assign.from \in Objects /\ assign.to # assign.from
         /\ ~Idle /\ ~undefined /\ Usable(assign.to) /\ Usable(assign.from)
         /\ Assigning(assign.to) /\ ~Assigning(assign.from)
         /\ holds[assign.to] = Nothing
<1>1. assign # NoAssign
  BY DEF NoAssign
<1>2. assign \in [kind : {"copy", "move"}, to : Objects, from : Objects]
  BY <1>1 DEF IInv, Types
<1>3. ~Idle /\ ~undefined
  BY <1>1 DEF IInv, LifeInv, Idle
<1> QED
  BY <1>1, <1>2, <1>3 DEF IInv, LifeInv, Assigning

LEMMA FinishCopyKeeps == ASSUME IInv, FinishCopy PROVE IInv'
<1> USE DEF IInv
<1> DEFINE r == assign.to
           s == assign.from
<1>1. /\ r \in Objects /\ s \in Objects /\ r # s /\ ~undefined
      /\ Usable(r) /\ Usable(s) /\ ~Assigning(s) /\ holds[r] = Nothing
  BY UnderWay DEF FinishCopy
<1>2. holds[s].kind = Kind(s) /\ holds[s] # Nothing /\ holds[s].content \in Contents
  BY <1>1, UsableHolds
<1> HIDE DEF r, s
<1>3. /\ Construct(r, has_value[s], PayloadOf(s)) /\ assign' = NoAssign
      /\ UNCHANGED <<threw, undefined>>
  BY DEF FinishCopy, r, s
<1>4. Types'
  BY <1>1, <1>2, <1>3 DEF Types, Construct, PayloadOf, Payload, Kinds
<1>5. /\ holds'[r] = PayloadOf(s) /\ alive'[r] /\ has_value'[r] = has_value[s]
      /\ \A q \in Objects \ {r} :
           holds'[q] = holds[q] /\ alive'[q] = alive[q] /\ has_value'[q] = has_value[q]
  BY <1>1, <1>3 DEF Types, Construct
<1>6. \A q \in Objects \ {r} : ~Assigning(q)
  BY DEF r, Assigning
<1>7. LifeInv'
  BY <1>1, <1>3, <1>5, <1>6
  DEF LifeInv, Idle, Usable, Assigning, Kind, PayloadOf, Payload, Types
<1>8. holds'[r] # Nothing
  BY <1>5 DEF PayloadOf, Payload, Nothing
<1>9. CountInv'
  BY <1>1, <1>3, <1>5, <1>8, OneMore DEF Construct
<1> QED
  BY <1>4, <1>7, <1>9

LEMMA FinishMoveKeeps == ASSUME IInv, FinishMove PROVE IInv'
<1> USE DEF IInv
<1> DEFINE r == assign.to
           s == assign.from
<1>1. /\ r \in Objects /\ s \in Objects /\ r # s /\ ~undefined
      /\ Usable(r) /\ Usable(s) /\ ~Assigning(s) /\ holds[r] = Nothing
  BY UnderWay DEF FinishMove
<1>2. holds[s].kind = Kind(s) /\ holds[s] # Nothing /\ holds[s].content \in Contents
  BY <1>1, UsableHolds
<1>6. \A q \in Objects \ {r} : ~Assigning(q)
  BY DEF Assigning
<1> HIDE DEF r, s
<1>3. MovePayload(r, s) /\ assign' = NoAssign /\ UNCHANGED <<threw, undefined>>
  BY DEF FinishMove, r, s
<1>4. Types'
  <2>1. holds' = [holds EXCEPT ![r] = PayloadOf(s), ![s] = Emptied(@)]
    BY <1>3 DEF MovePayload
  <2>2. PayloadOf(s) \in [kind : Kinds, content : Contents]
    BY <1>2 DEF PayloadOf, Payload, Kinds
  <2>3. \A h \in [kind : Kinds, content : Contents] :
          Emptied(h) \in [kind : Kinds, content : Contents]
    BY DEF Emptied, Contents
  <2>4. holds' \in [Objects -> [kind : Kinds, content : Contents]]
    BY <1>1, <2>1, <2>2, <2>3 DEF Types
  <2> QED
    BY <1>1, <1>3, <2>4 DEF Types, MovePayload
<1>5. /\ holds'[r] = PayloadOf(s) /\ alive'[r] /\ has_value'[r] = has_value[s]
      /\ holds'[s] = Emptied(holds[s])
      /\ \A q \in Objects \ {r, s} : holds'[q] = holds[q]
      /\ \A q \in Objects \ {r} : alive'[q] = alive[q] /\ has_value'[q] = has_value[q]
  BY <1>1, <1>3 DEF Types, MovePayload
<1>7. holds'[s].kind = holds[s].kind
  BY <1>1, <1>5 DEF Emptied, Types
<1>8. LifeInv'
  BY <1>1, <1>2, <1>3, <1>5, <1>6, <1>7
  DEF LifeInv, Idle, Usable, Assigning, Kind, PayloadOf, Payload, Types
<1>9. holds'[r] # Nothing /\ holds'[s] # Nothing
  <2>1. holds'[s].kind # "nothing" /\ holds'[r].kind # "nothing"
    BY <1>2, <1>5, <1>7 DEF Kind, PayloadOf, Payload
  <2> QED
    BY <2>1 DEF Nothing
<1>10. CountInv'
  BY <1>1, <1>2, <1>3, <1>5, <1>9, OneMore DEF MovePayload
<1> QED
  BY <1>4, <1>8, <1>10

LEMMA EmptiedKeeps ==
  ASSUME IInv, NEW s \in Objects, holds[s] # Nothing, payloads' = payloads,
         holds' = [holds EXCEPT ![s] = Emptied(@)], holds[s].kind # "nothing"
  PROVE  /\ holds' \in [Objects -> [kind : Kinds, content : Contents]]
         /\ CountInv'
         /\ \A q \in Objects : /\ holds'[q].kind = holds[q].kind
                               /\ holds[q] = Nothing => holds'[q] = Nothing
<1> USE DEF IInv
<1>1. holds' \in [Objects -> [kind : Kinds, content : Contents]]
  BY DEF Types, Emptied, Contents
<1>2. /\ holds'[s] = Emptied(holds[s])
      /\ \A q \in Objects \ {s} : holds'[q] = holds[q]
  BY DEF Types
<1>3. holds'[s].kind = holds[s].kind
  BY <1>2 DEF Types, Emptied
<1>4. holds'[s] # Nothing
  BY <1>3 DEF Nothing
<1>5. CountInv'
  BY <1>2, <1>4, SameCount
<1> QED
  BY <1>1, <1>2, <1>3, <1>5

LEMMA AssignThrowsKeeps == ASSUME IInv, AssignThrows PROVE IInv'
<1> USE DEF IInv
<1> DEFINE r == assign.to
           s == assign.from
<1>1. /\ r \in Objects /\ s \in Objects /\ r # s /\ ~undefined
      /\ Usable(r) /\ Usable(s) /\ ~Assigning(s) /\ holds[r] = Nothing
  BY UnderWay, ResultAssumption DEF AssignThrows
<1>2. holds[s].kind = Kind(s) /\ holds[s] # Nothing /\ holds[s].content \in Contents
  BY <1>1, UsableHolds
<1>3. \A q \in Objects \ {r} : ~Assigning(q)
  BY DEF Assigning
<1> HIDE DEF r, s
<1>4. /\ has_value' = [has_value EXCEPT ![r] = has_value[s]]
      /\ UNCHANGED holds \/ holds' = [holds EXCEPT ![s] = Emptied(@)]
      /\ assign' = NoAssign /\ threw' = threw \cup {r}
      /\ UNCHANGED <<alive, payloads, undefined>>
  BY DEF AssignThrows, r, s
<1>5. holds[s].kind # "nothing"
  BY <1>2 DEF Kind
<1>6. /\ holds' \in [Objects -> [kind : Kinds, content : Contents]]
      /\ CountInv'
      /\ \A q \in Objects : /\ holds'[q].kind = holds[q].kind
                            /\ holds[q] = Nothing => holds'[q] = Nothing
  <2>1. CASE UNCHANGED holds
    BY <2>1, <1>4, SameCount DEF Types
  <2>2. CASE holds' = [holds EXCEPT ![s] = Emptied(@)]
    BY <2>2, <1>1, <1>2, <1>4, <1>5, EmptiedKeeps
  <2> QED
    BY <1>4, <2>1, <2>2
<1>7. Types'
  BY <1>1, <1>4, <1>6 DEF Types
<1>8. \A q \in Objects \ {r} : has_value'[q] = has_value[q]
  BY <1>1, <1>4 DEF Types
<1>9. LifeInv'
  BY <1>1, <1>3, <1>4, <1>6, <1>8 DEF LifeInv, Idle, Usable, Assigning, Kind, Types
<1> QED
  BY <1>6, <1>7, <1>9

LEMMA TakeValueKeeps ==
  ASSUME IInv, NEW r \in Objects, TakeValue(r)
  PROVE  IInv'
<1> USE DEF IInv
<1>1. Idle /\ Usable(r) /\ ~Assigning(r)
  BY DEF TakeValue, Idle, Assigning
<1>2. holds[r] # Nothing /\ holds[r].kind # "nothing"
  BY <1>1, UsableHolds DEF Kind
<1>3. /\ holds' \in [Objects -> [kind : Kinds, content : Contents]]
      /\ CountInv'
      /\ \A q \in Objects : /\ holds'[q].kind = holds[q].kind
                            /\ holds[q] = Nothing => holds'[q] = Nothing
  BY <1>2, EmptiedKeeps DEF TakeValue
<1>4. Types'
  BY <1>3 DEF Types, TakeValue
<1>5. LifeInv'
  BY <1>1, <1>3 DEF LifeInv, TakeValue, Idle, Usable, Assigning, Kind
<1> QED
  BY <1>3, <1>4, <1>5

-----------------------------------------------------------------------------
THEOREM Invariance == Spec => []IInv
<1>1. IInv /\ [Next]_vars => IInv'
  <2>1. SUFFICES ASSUME IInv, [Next]_vars PROVE IInv'
    OBVIOUS
  <2>2. CASE UNCHANGED vars
    BY <2>1, <2>2, SameCount
    DEF vars, IInv, Types, LifeInv, Idle, Usable, Assigning, Kind
  <2>3. ASSUME NEW r \in Objects,
               ConstructValue(r) \/ ConstructError(r)
        PROVE  IInv'
    <3>1. PICK tag \in BOOLEAN, c \in Contents : Construct(r, tag, Payload(tag, c))
      BY <2>3 DEF ConstructValue, ConstructError, Contents
    <3> QED
      BY <2>1, <2>3, <3>1, ConstructKeeps DEF ConstructValue, ConstructError
  <2>4. ASSUME NEW r \in Objects, NEW s \in Objects,
               CopyConstruct(r, s) \/ Map(r, s)
        PROVE  IInv'
    <3>1. Idle /\ ~alive[r] /\ Usable(s) /\ ~Assigning(s)
      BY <2>4 DEF CopyConstruct, Map, Idle, Assigning
    <3>2. holds[s].content \in Contents /\ has_value[s] \in BOOLEAN
      BY <2>1, <3>1, UsableHolds DEF IInv, Types
    <3>3. PICK tag \in BOOLEAN, c \in Contents : Construct(r, tag, Payload(tag, c))
      <4>1. CASE CopyConstruct(r, s)
        BY <3>2, <4>1 DEF CopyConstruct, PayloadOf
      <4>2. CASE Map(r, s)
        BY <3>2, <4>2 DEF Map, PayloadOf, Contents
      <4> QED
        BY <2>4, <4>1, <4>2
    <3> QED
      BY <2>1, <2>4, <3>1, <3>3, ConstructKeeps DEF CopyConstruct, Map
  <2>5. ASSUME NEW r \in Objects, UseAfterThrow(r) PROVE IInv'
    <3>1. payloads' = payloads /\ UNCHANGED <<alive, has_value, holds, assign, threw>>
      BY <2>5 DEF UseAfterThrow
    <3>2. undefined' = TRUE /\ assign = NoAssign
      BY <2>5 DEF UseAfterThrow, Idle
    <3>3. Types' /\ LifeInv'
      BY <2>1, <3>1, <3>2 DEF IInv, Types, LifeInv, Idle, Usable, Assigning, Kind
    <3> QED
      BY <2>1, <3>1, <3>3, SameCount DEF IInv
  <2>6. ASSUME NEW r \in Objects,
               AssignSelf(r) \/ TakeValue(r) \/ Destroy(r)
        PROVE  IInv'
    BY <2>1, <2>2, <2>6, TakeValueKeeps, DestroyKeeps DEF AssignSelf
  <2>7. ASSUME NEW r \in Objects, NEW s \in Objects,
               \/ MoveConstruct(r, s)
               \/ BeginAssign("copy", r, s) \/ BeginAssign("move", r, s)
        PROVE  IInv'
    BY <2>1, <2>7, MoveConstructKeeps, BeginAssignKeeps
  <2>8. CASE FinishCopy \/ FinishMove \/ AssignThrows
    BY <2>1, <2>8, FinishCopyKeeps, FinishMoveKeeps, AssignThrowsKeeps
  <2> QED
    BY <2>1, <2>2, <2>3, <2>4, <2>5, <2>6, <2>7, <2>8 DEF Next, Terminating
<1> QED
  BY <1>1, InitInv, PTL DEF Spec

(* There are never more payloads than places, nor fewer than none.         *)
THEOREM TypeCorrect == Spec => []TypeOK
<1>1. IInv => TypeOK
  <2>1. SUFFICES ASSUME IInv PROVE TypeOK
    OBVIOUS
  <2>2. IsFiniteSet(Holding) /\ Cardinality(Holding) <= Cardinality(Objects)
    BY ResultAssumption, FS_Subset DEF Holding
  <2>3. Cardinality(Holding) \in Nat /\ Cardinality(Objects) \in Nat
    BY <2>2, ResultAssumption, FS_CardinalityType
  <2>4. payloads \in 0..Cardinality(Objects)
    BY <2>1, <2>2, <2>3 DEF IInv, CountInv
  <2> QED
    BY <2>1, <2>4 DEF IInv, Types, TypeOK, Contents
<1> QED
  BY <1>1, Invariance, PTL

(* The destructor of a Result destroys what is there (result.hpp:67-74),   *)
(* unless an assignment to that Result has thrown.                         *)
THEOREM DestructorMatches == Spec => []TagTellsPayload
<1>1. IInv => TagTellsPayload
  BY DEF IInv, LifeInv, TagTellsPayload
<1> QED
  BY <1>1, Invariance, PTL

(* No payload is leaked or destroyed twice by Results that can be used,    *)
(* however they are constructed, assigned, moved and destroyed, and        *)
(* whatever throws.                                                        *)
THEOREM EachDestroyedOnce == Spec => []NoLeak
<1>1. IInv => NoLeak
  BY DEF IInv, LifeInv, CountInv, Holding, NoLeak, Usable
<1> QED
  BY <1>1, Invariance, PTL

-----------------------------------------------------------------------------
(* The refinement: what the objects are to their users.                    *)
Results == [r \in Objects |-> Abstract(r)]

LEMMA Unaffected ==
  ASSUME NEW q \in Objects, holds'[q] = holds[q], alive'[q] = alive[q],
         has_value'[q] = has_value[q], q \in threw' <=> q \in threw,
         Assigning(q)' <=> Assigning(q)
  PROVE  Abstract(q)' = Abstract(q)
BY DEF Abstract, Seen, Kind

LEMMA UsableIsSeen ==
  ASSUME NEW s \in Objects, Usable(s), ~Assigning(s)
  PROVE  Abstract(s) = Seen(s)
BY DEF Abstract, Usable

LEMMA SeenIsUsable ==
  ASSUME NEW s \in Objects, Abstract(s) = Seen(s)
  PROVE  /\ Results[s] = Seen(s) /\ Results[s].is = Kind(s)
         /\ Results[s].is \in {"value", "error"}
BY DEF Results, Seen, Kind

(* A step that changes what one object is.                                 *)
LEMMA OneChanges ==
  ASSUME NEW r \in Objects, NEW x, Abstract(r)' = x,
         \A q \in Objects \ {r} : Abstract(q)' = Abstract(q)
  PROVE  Results' = [Results EXCEPT ![r] = x]
BY DEF Results

LEMMA NoneChanges ==
  ASSUME \A q \in Objects : Abstract(q)' = Abstract(q)
  PROVE  UNCHANGED Results
BY DEF Results

(* Moving the payload of s into r.                                         *)
LEMMA TwoChange ==
  ASSUME NEW r \in Objects, NEW s \in Objects, r # s,
         Abstract(s) = Seen(s), Abstract(r)' = Seen(s),
         Abstract(s)' = [Seen(s) EXCEPT !.content = "moved_from"],
         \A q \in Objects \ {r, s} : Abstract(q)' = Abstract(q)
  PROVE  Results' = [Results EXCEPT ![r] = Results[s], ![s] = A!Emptied(@)]
BY DEF Results, A!Emptied

LEMMA ConstructSeen ==
  ASSUME Types, NEW r \in Objects, NEW tag \in BOOLEAN, NEW c,
         Construct(r, tag, Payload(tag, c)), r \notin threw', ~Assigning(r)',
         \A q \in Objects \ {r} : /\ q \in threw' <=> q \in threw
                                  /\ Assigning(q)' <=> Assigning(q)
  PROVE  Results' = [Results EXCEPT ![r] =
                       [is |-> IF tag THEN "value" ELSE "error", content |-> c]]
<1>1. holds'[r] = Payload(tag, c) /\ alive'[r] /\ has_value'[r] = tag
  BY DEF Types, Construct
<1>2. \A q \in Objects \ {r} :
        holds'[q] = holds[q] /\ alive'[q] = alive[q] /\ has_value'[q] = has_value[q]
  BY DEF Types, Construct
<1>3. Abstract(r)' = [is |-> IF tag THEN "value" ELSE "error", content |-> c]
  BY <1>1 DEF Abstract, Seen, Kind, Payload
<1>4. \A q \in Objects \ {r} : Abstract(q)' = Abstract(q)
  BY <1>2, Unaffected
<1> QED
  BY <1>3, <1>4, OneChanges

LEMMA PayloadMoves ==
  ASSUME Types, NEW r \in Objects, NEW s \in Objects, r # s,
         Usable(s), ~Assigning(s), MovePayload(r, s), threw' = threw, r \notin threw,
         \A q \in Objects : q = r \/ Assigning(q)' = Assigning(q), ~Assigning(r)'
  PROVE  A!Move(r, s)
<1>1. /\ holds'[r] = PayloadOf(s) /\ alive'[r] /\ has_value'[r] = has_value[s]
      /\ holds'[s] = Emptied(holds[s])
      /\ \A q \in Objects \ {r, s} : holds'[q] = holds[q]
      /\ \A q \in Objects \ {r} : alive'[q] = alive[q] /\ has_value'[q] = has_value[q]
  BY DEF Types, MovePayload
<1>2. Abstract(s) = Seen(s)
  BY UsableIsSeen
<1>3. Abstract(r)' = Seen(s)
  BY <1>1 DEF Abstract, Seen, Kind, PayloadOf, Payload
<1>4. Abstract(s)' = [Seen(s) EXCEPT !.content = "moved_from"]
  BY <1>1 DEF Abstract, Seen, Kind, Emptied, MovedFrom, Types, Usable
<1>5. \A q \in Objects \ {r, s} : Abstract(q)' = Abstract(q)
  BY <1>1, Unaffected
<1>6. Results' = [Results EXCEPT ![r] = Results[s], ![s] = A!Emptied(@)]
  BY <1>2, <1>3, <1>4, <1>5, TwoChange
<1>7. A!Usable(s)
  BY <1>2, SeenIsUsable DEF A!Usable, Results
<1> QED
  BY <1>6, <1>7 DEF A!Move, Results

LEMMA Takes ==
  ASSUME Types, NEW s \in Objects, Usable(s), ~Assigning(s), has_value[s],
         holds' = [holds EXCEPT ![s] = Emptied(@)], alive' = alive,
         has_value'[s] = has_value[s], s \notin threw', ~Assigning(s)',
         \A q \in Objects \ {s} : Abstract(q)' = Abstract(q)
  PROVE  A!Take(s)
<1>1. holds'[s] = Emptied(holds[s])
  BY DEF Types
<1>2. Abstract(s) = Seen(s)
  BY UsableIsSeen
<1>3. Abstract(s)' = A!Emptied(Abstract(s))
  BY <1>1, <1>2 DEF Abstract, Seen, Kind, Emptied, A!Emptied, MovedFrom, Types, Usable
<1>4. Results' = [Results EXCEPT ![s] = A!Emptied(@)]
  BY <1>3, OneChanges DEF Results
<1>5. Results[s].is = "value"
  BY <1>2, SeenIsUsable DEF Kind
<1> QED
  BY <1>4, <1>5 DEF A!Take, Results

(* A step of Result is a step of ResultSpec, or none.                      *)
LEMMA StepRefines ==
  ASSUME IInv, [Next]_vars
  PROVE  A!Next \/ UNCHANGED Results
<1> USE DEF IInv
<1>1. CASE UNCHANGED vars
  <2>1. \A q \in Objects : Abstract(q)' = Abstract(q)
    BY <1>1 DEF vars, Abstract, Seen, Kind, Assigning
  <2> QED
    BY <2>1, NoneChanges
<1>2. ASSUME NEW r \in Objects, ConstructValue(r) \/ ConstructError(r)
      PROVE  A!Next
  <2>1. Results[r] = A!Absent
    BY <1>2 DEF ConstructValue, ConstructError, Results, Abstract, A!Absent
  <2>2. /\ r \notin threw /\ UNCHANGED <<assign, threw>> /\ assign = NoAssign
    BY <1>2 DEF ConstructValue, ConstructError, LifeInv, Idle
  <2>3. ~Assigning(r)' /\ \A q \in Objects : Assigning(q)' <=> Assigning(q)
    BY <2>2 DEF Assigning
  <2>4. CASE ConstructValue(r)
    <3>1. PICK v \in Values : Construct(r, TRUE, Payload(TRUE, v))
      BY <2>4 DEF ConstructValue
    <3>2. Results' = [Results EXCEPT ![r] = A!Value(v)]
      BY <2>2, <2>3, <3>1, ConstructSeen DEF A!Value
    <3> QED
      BY <2>1, <3>2 DEF A!Next, A!Create, Results
  <2>5. CASE ConstructError(r)
    <3>1. PICK e \in Errors : Construct(r, FALSE, Payload(FALSE, e))
      BY <2>5 DEF ConstructError
    <3>2. Results' = [Results EXCEPT ![r] = A!Failure(e)]
      BY <2>2, <2>3, <3>1, ConstructSeen DEF A!Failure
    <3> QED
      BY <2>1, <3>2 DEF A!Next, A!Create, Results
  <2> QED
    BY <1>2, <2>4, <2>5
<1>3. ASSUME NEW r \in Objects, NEW s \in Objects,
             CopyConstruct(r, s) \/ Map(r, s)
      PROVE  A!Next
  <2>1. Results[r] = A!Absent
    BY <1>3 DEF CopyConstruct, Map, Results, Abstract, A!Absent
  <2>2. /\ Usable(s) /\ ~Assigning(s) /\ has_value[s] \in BOOLEAN
        /\ r \notin threw /\ UNCHANGED <<assign, threw>> /\ assign = NoAssign
    BY <1>3 DEF CopyConstruct, Map, LifeInv, Idle, Types, Assigning
  <2>3. ~Assigning(r)' /\ \A q \in Objects : Assigning(q)' <=> Assigning(q)
    BY <2>2 DEF Assigning
  <2>4. Results[s] = Seen(s) /\ Results[s].is = Kind(s) /\ A!Usable(s)
    BY <2>2, UsableIsSeen, SeenIsUsable DEF A!Usable, Results
  <2>5. ASSUME Construct(r, has_value[s], PayloadOf(s))
        PROVE  Results' = [Results EXCEPT ![r] = Results[s]]
    BY <2>2, <2>3, <2>4, <2>5, ConstructSeen DEF PayloadOf, Seen, Kind
  <2>6. CASE CopyConstruct(r, s)
    BY <2>4, <2>5, <2>6 DEF CopyConstruct, A!Next, A!Copy, Results
  <2>7. CASE Map(r, s) /\ has_value[s]
    <3>1. PICK v \in Values : Construct(r, TRUE, Payload(TRUE, v))
      BY <2>7 DEF Map
    <3>2. Results' = [Results EXCEPT ![r] = A!Value(v)]
      BY <2>2, <2>3, <3>1, ConstructSeen DEF A!Value
    <3>3. Results[s].is = "value"
      BY <2>4, <2>7 DEF Kind
    <3> QED
      BY <2>1, <3>2, <3>3 DEF A!Next, A!Map, Results
  <2>8. CASE Map(r, s) /\ ~has_value[s]
    <3>1. Construct(r, has_value[s], PayloadOf(s))
      BY <2>2, <2>8 DEF Map, PayloadOf, Payload, Construct
    <3>2. Results[s].is = "error"
      BY <2>4, <2>8 DEF Kind
    <3> QED
      BY <2>1, <2>5, <3>1, <3>2 DEF A!Next, A!Map, Results
  <2> QED
    BY <1>3, <2>6, <2>7, <2>8
<1>4. ASSUME NEW r \in Objects, NEW s \in Objects, MoveConstruct(r, s)
      PROVE  A!Next
  <2>1. /\ Usable(s) /\ ~Assigning(s) /\ r # s /\ r \notin threw
        /\ UNCHANGED <<assign, threw>> /\ assign = NoAssign /\ MovePayload(r, s)
    BY <1>4 DEF MoveConstruct, LifeInv, Idle, Usable, Assigning
  <2>2. ~Assigning(r)' /\ \A q \in Objects : Assigning(q)' = Assigning(q)
    BY <2>1 DEF Assigning
  <2>3. A!Move(r, s)
    BY <2>1, <2>2, PayloadMoves
  <2> QED
    BY <2>3 DEF A!Next
<1>5. ASSUME NEW r \in Objects, Destroy(r) PROVE A!Next
  <2>1. Usable(r) /\ ~Assigning(r)
    BY <1>5 DEF Destroy, Idle, Assigning
  <2>2. A!Usable(r)
    BY <2>1, UsableIsSeen, SeenIsUsable DEF A!Usable, Results
  <2>3. Abstract(r)' = A!Absent
    BY <1>5 DEF Destroy, Abstract, A!Absent, Types
  <2>4. \A q \in Objects \ {r} : Abstract(q)' = Abstract(q)
    BY <1>5, Unaffected DEF Destroy, DestroyPayload, Types, Assigning
  <2>5. Results' = [Results EXCEPT ![r] = A!Absent]
    BY <2>3, <2>4, OneChanges
  <2> QED
    BY <2>2, <2>5 DEF A!Next, A!Discard, Results
<1>6. ASSUME NEW kind \in {"copy", "move"}, NEW r \in Objects, NEW s \in Objects,
             BeginAssign(kind, r, s)
      PROVE  A!Next
  <2>1. Usable(r) /\ ~Assigning(r) /\ assign = NoAssign
    BY <1>6 DEF BeginAssign, Idle, Assigning
  <2>2. A!Usable(r)
    BY <2>1, UsableIsSeen, SeenIsUsable DEF A!Usable, Results
  <2>3. assign' = [kind |-> kind, to |-> r, from |-> s]
    BY <1>6 DEF BeginAssign
  <2>4. Assigning(r)' /\ \A q \in Objects \ {r} : ~Assigning(q)' /\ ~Assigning(q)
    <3>1. assign'.kind # "none" /\ NoAssign.kind = "none"
      BY <2>3 DEF NoAssign
    <3> QED
      BY <2>1, <2>3, <3>1 DEF Assigning
  <2>5. Abstract(r)' = A!Lost
    BY <1>6, <2>1, <2>4 DEF BeginAssign, Abstract, A!Lost, Usable
  <2>6. \A q \in Objects \ {r} : Abstract(q)' = Abstract(q)
    BY <1>6, <2>4, Unaffected DEF BeginAssign, DestroyPayload, Types
  <2>7. Results' = [Results EXCEPT ![r] = A!Lost]
    BY <2>5, <2>6, OneChanges
  <2> QED
    BY <2>2, <2>7 DEF A!Next, A!Lose, Results
<1>7. ASSUME FinishCopy \/ FinishMove PROVE A!Next
  <2>0. PICK r \in Objects, s \in Objects : r = assign.to /\ s = assign.from
    BY <1>7, UnderWay DEF FinishCopy, FinishMove
  <2>1. /\ r \in Objects /\ s \in Objects /\ r # s /\ Usable(r) /\ Usable(s)
        /\ ~Assigning(s) /\ r \notin threw /\ has_value[s] \in BOOLEAN
    BY <1>7, <2>0, UnderWay DEF FinishCopy, FinishMove, Usable, Types
  <2>2. threw' = threw /\ assign' = NoAssign
    BY <1>7 DEF FinishCopy, FinishMove
  <2>3. ~Assigning(r)' /\ \A q \in Objects : q = r \/ Assigning(q)' = Assigning(q)
    BY <2>0, <2>2 DEF Assigning
  <2>4. FinishCopy => Construct(r, has_value[s], PayloadOf(s))
    BY <2>0 DEF FinishCopy
  <2>5. FinishMove => MovePayload(r, s)
    BY <2>0 DEF FinishMove
  <2>6. Results[s] = Seen(s) /\ A!Usable(s)
    BY <2>1, UsableIsSeen, SeenIsUsable DEF A!Usable, Results
  <2>7. CASE FinishCopy
    <3>1. Results' = [Results EXCEPT ![r] = Results[s]]
      BY <2>1, <2>2, <2>3, <2>4, <2>6, <2>7, ConstructSeen DEF PayloadOf, Seen, Kind
    <3> QED
      BY <2>1, <2>6, <3>1 DEF A!Next, A!Copy, Results
  <2>8. CASE FinishMove
    <3>1. A!Move(r, s)
      BY <2>1, <2>2, <2>3, <2>5, <2>8, PayloadMoves
    <3> QED
      BY <2>1, <3>1 DEF A!Next
  <2> QED
    BY <1>7, <2>7, <2>8
<1>8. ASSUME AssignThrows PROVE A!Next \/ UNCHANGED Results
  <2>0. PICK r \in Objects, s \in Objects : r = assign.to /\ s = assign.from
    BY <1>8, UnderWay, ResultAssumption DEF AssignThrows
  <2>1. /\ r \in Objects /\ s \in Objects /\ r # s /\ Usable(r) /\ Usable(s)
        /\ Assigning(r) /\ ~Assigning(s)
    BY <1>8, <2>0, UnderWay, ResultAssumption DEF AssignThrows
  <2>2. \A q \in Objects : q = r \/ ~Assigning(q)
    BY <2>0 DEF Assigning
  <2>3. /\ has_value' = [has_value EXCEPT ![r] = has_value[s]]
        /\ threw' = threw \cup {r} /\ assign' = NoAssign /\ alive' = alive
        /\ \/ UNCHANGED holds
           \/ has_value[s] /\ holds' = [holds EXCEPT ![s] = Emptied(@)]
    BY <1>8, <2>0 DEF AssignThrows
  <2>4. \A q \in Objects : ~Assigning(q)'
    BY <2>3 DEF Assigning
  <2>5. Abstract(r)' = Abstract(r)
    BY <2>1, <2>3, <2>4 DEF Abstract, Usable
  <2>6. \A q \in Objects \ {r} : holds'[q] = holds[q] => Abstract(q)' = Abstract(q)
    BY <2>1, <2>2, <2>3, <2>4, Unaffected DEF Types
  <2>7. CASE UNCHANGED holds
    BY <2>5, <2>6, <2>7, NoneChanges
  <2>8. CASE has_value[s] /\ holds' = [holds EXCEPT ![s] = Emptied(@)]
    <3>1. \A q \in Objects \ {s} : Abstract(q)' = Abstract(q)
      BY <2>1, <2>5, <2>6, <2>8 DEF Types
    <3>2. has_value'[s] = has_value[s] /\ s \notin threw'
      BY <2>1, <2>3 DEF Types, Usable
    <3>3. A!Take(s)
      BY <2>1, <2>3, <2>4, <2>8, <3>1, <3>2, Takes
    <3> QED
      BY <2>1, <3>3 DEF A!Next
  <2> QED
    BY <2>3, <2>7, <2>8
<1>9. ASSUME NEW r \in Objects, TakeValue(r) PROVE A!Next
  <2>1. /\ Usable(r) /\ ~Assigning(r) /\ has_value[r] /\ r \notin threw
        /\ UNCHANGED <<alive, has_value, assign, threw>>
        /\ holds' = [holds EXCEPT ![r] = Emptied(@)]
    BY <1>9 DEF TakeValue, Idle, Usable, Assigning
  <2>2. \A q \in Objects : Assigning(q)' = Assigning(q)
    BY <2>1 DEF Assigning
  <2>3. \A q \in Objects \ {r} : Abstract(q)' = Abstract(q)
    BY <2>1, <2>2, Unaffected DEF Types
  <2>4. A!Take(r)
    BY <2>1, <2>2, <2>3, Takes
  <2> QED
    BY <2>4 DEF A!Next
<1>10. ASSUME NEW r \in Objects, UseAfterThrow(r) PROVE UNCHANGED Results
  <2>1. \A q \in Objects : Abstract(q)' = Abstract(q)
    BY <1>10 DEF UseAfterThrow, Abstract, Seen, Kind, Assigning
  <2> QED
    BY <2>1, NoneChanges
<1> QED
  BY <1>1, <1>2, <1>3, <1>4, <1>5, <1>6, <1>7, <1>8, <1>9, <1>10
  DEF Next, Terminating, AssignSelf

(* Results have value semantics: every step of them is one that ResultSpec *)
(* allows (result.hpp:47-95), also when a copy or a move throws.           *)
THEOREM Refinement == Spec => ImplementsSpec
<1>1. Init => A!Init
  BY DEF Init, A!Init, Abstract, A!Absent
<1>2. IInv /\ [Next]_vars => A!Next \/ UNCHANGED Results
  BY StepRefines
<1>3. IInv /\ [Next]_vars => [A!Next]_[r \in Objects |-> Abstract(r)]
  BY <1>2 DEF Results
<1> QED
  BY <1>1, <1>3, Invariance, PTL DEF Spec, ImplementsSpec, A!Spec

=============================================================================
