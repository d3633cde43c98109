------------------------------ MODULE Address ------------------------------
(***************************************************************************)
(* gmk::Address (src/include/gmk/core/address.hpp): arithmetic on raw      *)
(* addresses.  An address is a std::uintptr_t, zero is "no address", and   *)
(* offsets are std::ptrdiff_t or std::size_t of the same width.            *)
(***************************************************************************)
EXTENDS Integers

CONSTANT MaxAddress     \* the largest std::uintptr_t and std::size_t

ASSUME AddressAssumption == MaxAddress \in Nat /\ MaxAddress % 2 = 1

Addresses == 0..MaxAddress
Null == 0

PtrdiffMax == MaxAddress \div 2
PtrdiffMin == -PtrdiffMax - 1
Ptrdiffs == PtrdiffMin..PtrdiffMax

(* static_cast<std::uintptr_t> of an integer of any width and sign. *)
AsAddress(n) == n % (MaxAddress + 1)

(* static_cast<std::int64_t> of an integer of at most 64 bits. *)
AsPtrdiff(n) == IF n > PtrdiffMax THEN n - (MaxAddress + 1) ELSE n

(* The constructor for other integers converts twice, by way of a signed   *)
(* number, so that negative ones keep their sign bits.                     *)
FromInteger(n) == AsAddress(AsPtrdiff(n))

(* add(std::size_t), which the unsigned overloads lead to.  A variant      *)
(* whose name says what it gets wrong is not used.                         *)
AddSizeWraps(a, offset) == (a + offset) % (MaxAddress + 1)

AddSize(a, offset) == IF a > MaxAddress - offset THEN Null ELSE a + offset

(* add(std::ptrdiff_t). *)
Add(a, offset) ==
  IF offset >= 0 THEN AddSize(a, offset)
  ELSE LET magnitude == -(offset + 1) + 1
       IN  IF a < magnitude THEN Null ELSE a - magnitude

(* operator- and operator-= negate the offset.  The negation of the least  *)
(* std::ptrdiff_t is undefined: it wraps to itself, or the compiler goes   *)
(* on with the number it cannot hold.                                      *)
Negations(offset) == IF offset = PtrdiffMin THEN {PtrdiffMin, -PtrdiffMin} ELSE {-offset}

Subtractions(a, offset) == {Add(a, n) : n \in Negations(offset)}

(* The difference of two std::uintptr_t wraps, and is then seen as signed. *)
Difference(a, other) ==
  AsPtrdiff(IF a >= other THEN a - other ELSE a - other + (MaxAddress + 1))

(* Alignments are powers of two, so a mask clears the remainder.  A zero   *)
(* alignment yields no address.                                            *)
AlignDown(a, alignment) == IF alignment = 0 THEN Null ELSE a - (a % alignment)

AlignUp(a, alignment) ==
  IF alignment = 0 \/ a > MaxAddress - (alignment - 1) THEN Null
  ELSE AlignDown(a + (alignment - 1), alignment)

=============================================================================
