----------------------------- MODULE ResultSpec -----------------------------
(***************************************************************************)
(* What gmk::Result<T> promises (src/include/gmk/core/result.hpp): it is a *)
(* value or an error, and copies and moves like one.  An object that was   *)
(* moved from still is what it was, a value or an error, but empty.  In an *)
(* assignment, and after one that failed, an object is nothing to be used. *)
(***************************************************************************)
CONSTANTS Objects, Values, Errors

VARIABLE result     \* per object, what it is

Absent == [is |-> "absent"]
Lost == [is |-> "lost"]
Value(v) == [is |-> "value", content |-> v]
Failure(e) == [is |-> "error", content |-> e]

Emptied(x) == [x EXCEPT !.content = "moved_from"]

Init == result = [r \in Objects |-> Absent]

Usable(s) == result[s].is \in {"value", "error"}

Create(r) == /\ result[r] = Absent
             /\ \E x \in {Value(v) : v \in Values} \cup {Failure(e) : e \in Errors} :
                  result' = [result EXCEPT ![r] = x]

(* Into a new object or in place of what r is. *)
Copy(r, s) == /\ Usable(s)
              /\ result' = [result EXCEPT ![r] = result[s]]

Move(r, s) == /\ r # s /\ Usable(s)
              /\ result' = [result EXCEPT ![r] = result[s], ![s] = Emptied(@)]

Take(r) == /\ result[r].is = "value"
           /\ result' = [result EXCEPT ![r] = Emptied(@)]

(* A function of the user is applied to a value; an error is forwarded.    *)
Map(r, s) == /\ result[r] = Absent
             /\ \/ /\ result[s].is = "value"
                   /\ \E v \in Values : result' = [result EXCEPT ![r] = Value(v)]
                \/ /\ result[s].is = "error"
                   /\ result' = [result EXCEPT ![r] = result[s]]

Lose(r) == /\ Usable(r)
           /\ result' = [result EXCEPT ![r] = Lost]

Discard(r) == /\ Usable(r)
              /\ result' = [result EXCEPT ![r] = Absent]

Next == \E r, s \in Objects :
          Create(r) \/ Copy(r, s) \/ Move(r, s) \/ Take(r) \/ Map(r, s) \/ Lose(r) \/ Discard(r)

Spec == Init /\ [][Next]_result

=============================================================================
