--------------------------- MODULE AddressProofs ---------------------------
(* What the arithmetic of Address computes, for addresses of every width.  *)
EXTENDS Address, TLAPS

(* The two halves of an address space. *)
LEMMA Halves == /\ PtrdiffMax \in Nat /\ MaxAddress = 2 * PtrdiffMax + 1
                /\ PtrdiffMin = -PtrdiffMax - 1
  BY AddressAssumption DEF PtrdiffMax, PtrdiffMin

(* address.hpp:91-99: add(std::size_t) is the sum, or null when there is   *)
(* no such address: no sum wraps around.                                   *)
THEOREM SumOrNull ==
  ASSUME NEW a \in Addresses, NEW n \in Addresses
  PROVE  AddSize(a, n) = (IF a + n \in Addresses THEN a + n ELSE Null)
  BY AddressAssumption DEF AddSize, Addresses, Null

(* address.hpp:65-77: the same of add(std::ptrdiff_t) for every offset of  *)
(* either sign, the least one included, whose magnitude no std::ptrdiff_t  *)
(* holds.                                                                  *)
THEOREM SignedSumOrNull ==
  ASSUME NEW a \in Addresses, NEW n \in Ptrdiffs
  PROVE  Add(a, n) = (IF a + n \in Addresses THEN a + n ELSE Null)
  BY Halves DEF Add, AddSize, Addresses, Ptrdiffs, Null

(* address.hpp:136-140,160-163: subtracting is exact in the same sense for *)
(* every offset but one.                                                   *)
THEOREM SubtractionOrNull ==
  ASSUME NEW a \in Addresses, NEW n \in Ptrdiffs \ {PtrdiffMin}
  PROVE  Subtractions(a, n) = {IF a - n \in Addresses THEN a - n ELSE Null}
<1>1. -n \in Ptrdiffs
  BY Halves DEF Ptrdiffs
<1>2. Add(a, -n) = (IF a + (-n) \in Addresses THEN a + (-n) ELSE Null)
  BY <1>1, SignedSumOrNull
<1>3. a + (-n) = a - n
  BY DEF Addresses, Ptrdiffs
<1>4. Negations(n) = {-n}
  BY DEF Negations
<1>5. Subtractions(a, n) = {Add(a, -n)}
  BY <1>4 DEF Subtractions
<1> QED
  BY <1>2, <1>3, <1>5

(* address.hpp:101-105: a difference that a std::ptrdiff_t holds is the    *)
(* mathematical one, and adding it leads back.  The others wrap, and       *)
(* adding them yields null instead of a wrong address.                     *)
THEOREM DifferenceLeadsBack ==
  ASSUME NEW a \in Addresses, NEW b \in Addresses
  PROVE  /\ Difference(a, b) \in Ptrdiffs
         /\ a - b \in Ptrdiffs => /\ Difference(a, b) = a - b
                                  /\ Add(b, Difference(a, b)) = a
         /\ a - b \notin Ptrdiffs => Add(b, Difference(a, b)) = Null
<1>1. Difference(a, b) \in Ptrdiffs
  BY Halves DEF Difference, AsPtrdiff, Addresses, Ptrdiffs
<1>2. CASE a - b \in Ptrdiffs
  <2>1. Difference(a, b) = a - b
    BY <1>2, Halves DEF Difference, AsPtrdiff, Addresses, Ptrdiffs
  <2>2. b + Difference(a, b) = a
    BY <2>1 DEF Addresses
  <2> QED
    BY <1>1, <1>2, <2>1, <2>2, SignedSumOrNull
<1>3. CASE a - b \notin Ptrdiffs
  <2>1. b + Difference(a, b) \notin Addresses
    BY <1>3, Halves DEF Difference, AsPtrdiff, Addresses, Ptrdiffs
  <2> QED
    BY <1>1, <1>3, <2>1, SignedSumOrNull
<1> QED
  BY <1>2, <1>3

(* A relative address added to a base is recovered by difference(). *)
THEOREM OffsetRecovered ==
  ASSUME NEW base \in Addresses, NEW n \in 0..PtrdiffMax
  PROVE  IF base + n <= MaxAddress THEN Difference(AddSize(base, n), base) = n
                                   ELSE AddSize(base, n) = Null
  BY Halves DEF Difference, AsPtrdiff, AddSize, Addresses, Null

(* What the remainder of an integer is. *)
LEMMA Remainder ==
  ASSUME NEW n \in Int, NEW k \in Nat \ {0}
  PROVE  /\ n % k \in 0..(k - 1)
         /\ n = k * (n \div k) + (n % k)
         /\ n \div k \in Int
         /\ n \in Nat => n \div k \in Nat
  OBVIOUS

(* Two numbers of 0..k-1 do not differ by a multiple of k. *)
LEMMA OneRemainder ==
  ASSUME NEW k \in Nat \ {0}, NEW r \in 0..(k - 1), NEW x \in 0..(k - 1),
         NEW q \in Int, r = k * q + x
  PROVE  r = x
<1>1. CASE q = 0
  BY <1>1
<1>2. CASE q > 0
  <2>1. PICK d \in Nat : q = d + 1
    <3> q - 1 \in Nat
      BY <1>2
    <3> WITNESS q - 1 \in Nat
    <3> QED
      OBVIOUS
  <2>2. k * q = k * d + k /\ k * d \in Nat
    BY <2>1
  <2> QED
    BY <2>2
<1>3. CASE q < 0
  <2>1. PICK d \in Nat : q = -d - 1
    <3> -q - 1 \in Nat
      BY <1>3
    <3> WITNESS -q - 1 \in Nat
    <3> QED
      OBVIOUS
  <2>2. k * q = -(k * d) - k /\ k * d \in Nat
    BY <2>1
  <2> QED
    BY <2>2
<1> QED
  BY <1>1, <1>2, <1>3

(* The conversion to an address subtracts a multiple of their number. *)
LEMMA Converted ==
  ASSUME NEW n \in Int
  PROVE  /\ AsAddress(n) \in Addresses
         /\ n \in Addresses => AsAddress(n) = n
         /\ n + MaxAddress + 1 \in Addresses => AsAddress(n) = n + MaxAddress + 1
<1> DEFINE k == MaxAddress + 1
           q == n \div k
           x == n % k
<1>1. k \in Nat \ {0} /\ Addresses = 0..(k - 1) /\ AsAddress(n) = x
  BY AddressAssumption DEF Addresses, AsAddress
<1>2. x \in 0..(k - 1) /\ n = k * q + x /\ q \in Int
  BY <1>1, Remainder
<1>3. n + MaxAddress + 1 = n + k
  BY AddressAssumption
<1> HIDE DEF k, q, x
<1>4. ASSUME n \in 0..(k - 1) PROVE x = n
  BY <1>1, <1>2, <1>4, OneRemainder
<1>5. ASSUME n + k \in 0..(k - 1) PROVE x = n + k
  <2>1. q + 1 \in Int /\ k * (q + 1) = k * q + k
    BY <1>1, <1>2
  <2>2. n + k = k * (q + 1) + x
    BY <1>1, <1>2, <2>1
  <2> QED
    BY <1>1, <1>2, <1>5, <2>1, <2>2, OneRemainder
<1> QED
  BY <1>1, <1>2, <1>3, <1>4, <1>5

(* address.hpp:46-54: the constructor for other integers takes every       *)
(* integer of the width of an address, or less, by way of a signed one.    *)
(* Those that are addresses are kept, in the upper half too, where the     *)
(* signed number in between is negative; of those that are negative the    *)
(* address still tells which they were.                                    *)
THEOREM IntegersSurvive ==
  ASSUME NEW n \in Ptrdiffs \cup Addresses
  PROVE  /\ FromInteger(n) \in Addresses
         /\ n \in Addresses => FromInteger(n) = n
         /\ n \in Ptrdiffs => Difference(FromInteger(n), Null) = n
<1>1. n \in Int
  BY DEF Ptrdiffs, Addresses
<1>2. CASE n > PtrdiffMax
  <2>1. AsPtrdiff(n) = n - (MaxAddress + 1) /\ n \in Addresses /\ n \notin Ptrdiffs
    BY <1>2, Halves DEF AsPtrdiff, Ptrdiffs
  <2>2. AsPtrdiff(n) \in Int /\ AsPtrdiff(n) + MaxAddress + 1 = n
    BY <1>1, <2>1, AddressAssumption
  <2>3. FromInteger(n) = n
    BY <2>1, <2>2, Converted DEF FromInteger
  <2> QED
    BY <2>1, <2>3
<1>3. CASE 0 <= n /\ n <= PtrdiffMax
  <2>1. n \in Addresses /\ AsPtrdiff(n) = n
    BY <1>1, <1>3, Halves DEF Addresses, AsPtrdiff
  <2>2. FromInteger(n) = n
    BY <1>1, <2>1, Converted DEF FromInteger
  <2>3. Difference(n, Null) = n
    BY <1>1, <1>3, Halves DEF Difference, AsPtrdiff, Null
  <2> QED
    BY <2>1, <2>2, <2>3
<1>4. CASE n < 0
  <2>1. n \in Ptrdiffs /\ n \notin Addresses /\ AsPtrdiff(n) = n
    BY <1>1, <1>4, Halves DEF Addresses, Ptrdiffs, AsPtrdiff
  <2>2. n + MaxAddress + 1 \in Addresses
    BY <1>1, <1>4, <2>1, Halves DEF Addresses, Ptrdiffs
  <2>3. FromInteger(n) = n + MaxAddress + 1
    BY <1>1, <2>1, <2>2, Converted DEF FromInteger
  <2>4. Difference(n + MaxAddress + 1, Null) = n
    BY <1>1, <2>1, <2>2, Halves DEF Difference, AsPtrdiff, Null, Ptrdiffs, Addresses
  <2> QED
    BY <2>1, <2>2, <2>3, <2>4
<1> QED
  BY <1>1, <1>2, <1>3, <1>4, Halves

IsMultiple(n, k) == \E q \in Nat : n = q * k

(* Multiples of k are at least k apart. *)
LEMMA MultiplesApart ==
  ASSUME NEW k \in Nat \ {0}, NEW p \in Nat, NEW q \in Nat, p * k < q * k
  PROVE  p * k + k <= q * k
<1>1. p < q
  <2> SUFFICES ASSUME q <= p
               PROVE  FALSE
    OBVIOUS
  <2>1. PICK d \in Nat : p = q + d
    <3> WITNESS p - q \in Nat
    <3> QED
      OBVIOUS
  <2>2. p * k = q * k + d * k /\ d * k \in Nat /\ q * k \in Nat
    BY <2>1
  <2> QED
    BY <2>2
<1>2. PICK d \in Nat : q = p + 1 + d
  <2> q - p - 1 \in Nat
    BY <1>1
  <2> WITNESS q - p - 1 \in Nat
  <2> QED
    OBVIOUS
<1>3. q * k = p * k + k + d * k /\ d * k \in Nat /\ p * k \in Nat
  BY <1>2
<1> QED
  BY <1>3

(* address.hpp:107-114: align_down is a multiple of the alignment, at most *)
(* the address and less than one alignment below it.                       *)
THEOREM AlignDownBrackets ==
  ASSUME NEW a \in Addresses, NEW k \in Addresses \ {0}
  PROVE  /\ AlignDown(a, k) \in Addresses /\ IsMultiple(AlignDown(a, k), k)
         /\ AlignDown(a, k) <= a /\ a < AlignDown(a, k) + k
<1>1. a \in Nat /\ k \in Nat \ {0} /\ a <= MaxAddress
  BY AddressAssumption DEF Addresses
<1>2. /\ a % k \in 0..(k - 1)
      /\ a = k * (a \div k) + (a % k)
      /\ a \div k \in Nat
  <2> a \in Int
    BY <1>1
  <2> QED
    BY <1>1, Remainder
<1>3. AlignDown(a, k) = a - (a % k)
  BY <1>1 DEF AlignDown
<1>4. PICK q \in Nat : q = a \div k
  BY <1>2
<1>5. k * q \in Nat /\ k * q = q * k
  BY <1>1, <1>4
<1>6. a = q * k + (a % k)
  BY <1>2, <1>4, <1>5
<1>7. AlignDown(a, k) = q * k
  BY <1>1, <1>2, <1>3, <1>5, <1>6
<1>8. IsMultiple(AlignDown(a, k), k)
  BY <1>4, <1>7 DEF IsMultiple
<1> QED
  BY <1>1, <1>2, <1>3, <1>5, <1>7, <1>8, AddressAssumption DEF Addresses

(* address.hpp:116-128: for an alignment that divides the address space,   *)
(* as powers of two do, align_up is the least multiple at or above the     *)
(* address, and null when that is behind the address space.                *)
THEOREM AlignUpLeast ==
  ASSUME NEW a \in Addresses, NEW k \in Addresses \ {0}, IsMultiple(MaxAddress + 1, k)
  PROVE  IF \E x \in a..MaxAddress : IsMultiple(x, k)
         THEN /\ AlignUp(a, k) \in a..MaxAddress /\ IsMultiple(AlignUp(a, k), k)
              /\ \A x \in a..MaxAddress : IsMultiple(x, k) => AlignUp(a, k) <= x
         ELSE AlignUp(a, k) = Null
<1>1. a \in Nat /\ k \in Nat \ {0} /\ a <= MaxAddress /\ k <= MaxAddress /\ MaxAddress \in Nat
  BY AddressAssumption DEF Addresses
<1>2. CASE a > MaxAddress - (k - 1)
  <2>1. AlignUp(a, k) = Null
    BY <1>2 DEF AlignUp
  <2>2. ASSUME NEW x \in a..MaxAddress, IsMultiple(x, k)
        PROVE  FALSE
    <3>1. PICK p \in Nat : x = p * k
      BY <2>2 DEF IsMultiple
    <3>2. PICK m \in Nat : MaxAddress + 1 = m * k
      BY DEF IsMultiple
    <3>3. p * k < m * k
      BY <1>1, <3>1, <3>2
    <3>4. p * k + k <= m * k
      BY <1>1, <3>3, MultiplesApart
    <3>5. x + k <= MaxAddress + 1
      BY <3>1, <3>2, <3>4
    <3> QED
      BY <1>1, <1>2, <3>5
  <2> QED
    BY <2>1, <2>2
<1>3. CASE ~(a > MaxAddress - (k - 1))
  <2> DEFINE b == a + (k - 1)
             u == AlignDown(b, k)
  <2>1. b \in Addresses
    BY <1>1, <1>3 DEF Addresses
  <2>2. u \in Addresses /\ IsMultiple(u, k) /\ u <= b /\ b < u + k
    BY <2>1, AlignDownBrackets
  <2>3. AlignUp(a, k) = u
    BY <1>1, <1>3 DEF AlignUp
  <2>4. u \in a..MaxAddress
    BY <1>1, <2>2 DEF Addresses
  <2>5. ASSUME NEW x \in a..MaxAddress, IsMultiple(x, k)
        PROVE  u <= x
    <3> SUFFICES ASSUME x < u
                 PROVE  FALSE
      BY <1>1, <2>4
    <3>1. PICK p \in Nat : x = p * k
      BY <2>5 DEF IsMultiple
    <3>2. PICK q \in Nat : u = q * k
      BY <2>2 DEF IsMultiple
    <3>3. p * k < q * k
      BY <3>1, <3>2
    <3>4. p * k + k <= q * k
      BY <1>1, <3>3, MultiplesApart
    <3>5. x + k <= u
      BY <3>1, <3>2, <3>4
    <3> QED
      BY <1>1, <2>2, <2>4, <3>5
  <2> HIDE DEF u
  <2> QED
    BY <2>2, <2>3, <2>4, <2>5
<1> QED
  BY <1>2, <1>3

=============================================================================
