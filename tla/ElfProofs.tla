----------------------------- MODULE ElfProofs -----------------------------
(***************************************************************************)
(* What Elf's pass does with every file and every width of the integers,   *)
(* proved: the reads behind a check succeed though the numbers the check   *)
(* is made of wrap, names stay in their string table, and the verdict and  *)
(* the tables of the image are those of the file.                          *)
(***************************************************************************)
EXTENDS Elf, SequenceTheorems, WellFoundedInduction, TLAPS

-----------------------------------------------------------------------------
(* Numbers. *)

LEMMA Products ==
  ASSUME NEW a \in Nat, NEW b \in Nat, NEW c \in Nat, NEW d \in Nat, a <= c, b <= d
  PROVE  a * b \in Nat /\ c * d \in Nat /\ a * b <= c * d
<1>1. PICK m \in Nat : c = a + m
  <2>1. c - a \in Nat /\ c = a + (c - a)
    OBVIOUS
  <2>. QED
    BY <2>1
<1>2. PICK n \in Nat : d = b + n
  <2>1. d - b \in Nat /\ d = b + (d - b)
    OBVIOUS
  <2>. QED
    BY <2>1
<1>3. c * d = a * b + a * n + m * b + m * n
  BY <1>1, <1>2
<1>4. a * b \in Nat /\ a * n \in Nat /\ m * b \in Nat /\ m * n \in Nat
  OBVIOUS
<1>. QED
  BY <1>3, <1>4

LEMMA Remainder ==
  ASSUME NEW n \in Nat, NEW k \in Nat \ {0}
  PROVE  /\ n % k \in 0..(k - 1)
         /\ n < k => n % k = n
<1>1. /\ n % k \in 0..(k - 1)
      /\ n = k * (n \div k) + (n % k)
      /\ n \div k \in Nat
  OBVIOUS
<1>2. ASSUME n < k PROVE n % k = n
  <2>1. CASE n \div k = 0
    BY <1>1, <2>1
  <2>2. CASE n \div k >= 1
    <3>1. k * 1 <= k * (n \div k) /\ k * (n \div k) \in Nat
      BY <1>1, <2>2, Products
    <3>. QED
      BY <1>1, <1>2, <3>1
  <2>. QED
    BY <1>1, <2>1, <2>2
<1>. QED
  BY <1>1, <1>2

(* What the widths of the integers say of one another. *)
LEMMA Widths ==
  /\ Word \in Nat /\ Max16 \in Nat /\ MaxVector \in Nat /\ MaxU64 \in Nat
  /\ 16 <= Max16 /\ Max16 < Word /\ 64 <= MaxVector /\ MaxVector < Word
  /\ MaxVector * Max16 <= MaxU64
  /\ (Word - 1) * Max16 <= MaxU64
  /\ Word * 64 <= MaxU64
  /\ (Word - 1) + Word * (Word - 1) = MaxU64
<1> USE WidthAssumption
<1>1. Word * Word \in Nat /\ 65 * Word <= Word * Word
  BY Products
<1>2. (Word - 1) * Max16 <= (Word - 1) * Word
  BY Products
<1>. QED
  BY <1>1, <1>2 DEF MaxU64

LEMMA NoWrap ==
  ASSUME NEW n \in Nat
  PROVE  U64(n) \in 0..MaxU64 /\ (n <= MaxU64 => U64(n) = n)
BY Widths, Remainder DEF U64

LEMMA Difference ==
  ASSUME NEW a \in 0..MaxU64, NEW b \in Nat, b <= a
  PROVE  SizeSub(a, b) = a - b
<1>1. a - b \in Nat /\ a - b < MaxU64 + 1 /\ MaxU64 + 1 \in Nat \ {0}
  BY Widths
<1>. QED
  BY <1>1, Remainder DEF SizeSub

-----------------------------------------------------------------------------
(* What can be read of a file. *)

LEMMA FileType ==
  ASSUME IsFile(file)
  PROVE  /\ file.size \in Nat /\ file.size <= MaxVector /\ file.size \in 0..MaxU64
         /\ file.shoff \in 0..MaxU64 /\ file.phoff \in 0..MaxU64
         /\ file.shentsize \in 0..Max16 /\ file.phentsize \in 0..Max16
         /\ file.shnum \in 0..Max16 /\ file.shstrndx \in 0..Max16 /\ file.phnum \in 0..Max16
         /\ file.zeros \subseteq Nat
BY Widths DEF IsFile

LEMMA RecordSizes ==
  /\ EhSize \in {52, 64} /\ ShSize \in {40, 64} /\ PhSize \in {32, 56} /\ SymSize \in {16, 24}
BY DEF EhSize, ShSize, PhSize, SymSize

LEMMA InBoundsMeans ==
  ASSUME IsFile(file), NEW o \in Nat, NEW n \in Nat
  PROVE  InBounds(o, n) <=> o + n <= file.size
<1>1. CASE o <= file.size
  BY <1>1, FileType, Difference DEF InBounds
<1>2. CASE ~(o <= file.size)
  BY <1>2, FileType DEF InBounds
<1>. QED
  BY <1>1, <1>2

LEMMA DataFitsMeans ==
  ASSUME IsFile(file), NEW s \in SectionHeader
  PROVE  DataFits(s) <=> s.offset + s.size <= file.size
<1>1. s.offset \in Nat /\ s.size \in Nat
  BY Widths DEF SectionHeader
<1>. QED
  BY <1>1, InBoundsMeans DEF DataFits, InBounds

(* A product that does not wrap is compared as it is. *)
LEMMA TableFitsMeans ==
  ASSUME IsFile(file), NEW o \in Nat, NEW n \in Nat, NEW e \in Nat, n * e \in Nat, n * e <= MaxU64
  PROVE  TableFits(o, n, e) <=> o + n * e <= file.size
<1>1. U64(n * e) = n * e
  BY NoWrap
<1>2. TableFits(o, n, e) <=> InBounds(o, n * e)
  BY <1>1 DEF TableFits, InBounds
<1>. QED
  BY <1>2, InBoundsMeans

(* The entries of a table that is in the file are. *)
LEMMA EntryInTable ==
  ASSUME IsFile(file), NEW o \in Nat, NEW n \in Nat, NEW e \in Nat, o + n * e <= file.size,
         NEW k \in 0..(n - 1), NEW z \in 0..e
  PROVE  /\ o + k * e \in Nat /\ U64(o + k * e) = o + k * e
         /\ o + k * e + z <= file.size
         /\ InBounds(U64(o + k * e), z)
<1>1. (k + 1) * e <= n * e /\ (k + 1) * e = k * e + e /\ k * e \in Nat /\ n * e \in Nat
  BY Products
<1> DEFINE p == o + k * e
<1>2. p \in Nat /\ p + z <= file.size /\ p <= MaxU64
  BY <1>1, FileType, Widths
<1> HIDE DEF p
<1>3. U64(p) = p
  BY <1>2, NoWrap
<1>4. InBounds(p, z)
  BY <1>2, InBoundsMeans
<1>. QED
  BY <1>2, <1>3, <1>4 DEF p

LEMMA LeastExists ==
  ASSUME NEW T, T \subseteq Nat, T # {}
  PROVE  \E z \in T : \A y \in T : z <= y
<1> DEFINE R == OpToRel(<, Nat)
<1>1. IsWellFoundedOn(R, Nat)
  BY NatLessThanWellFounded
<1>2. \A y, z \in Nat : y < z => <<y, z>> \in R
  BY DEF OpToRel
<1> HIDE DEF R
<1>3. PICK z \in T : \A y \in T : <<y, z>> \notin R
  BY <1>1, WFMin
<1>4. z \in Nat /\ \A y \in T : y \in Nat /\ ~(y < z)
  BY <1>2, <1>3, Zenon
<1>. QED
  BY <1>4

(* A string starts where it was looked for and ends at a zero byte. *)
LEMMA CStringMeans ==
  ASSUME IsFile(file), NEW o \in Nat, NEW m \in Nat, CString(o, m) # NoString
  PROVE  \E z \in Nat : /\ CString(o, m) = <<o, z>>
                        /\ o <= z /\ z < o + m /\ z < file.size
<1> DEFINE T == Terminators(o, m)
           z == CHOOSE x \in T : \A y \in T : x <= y
<1>1. T # {} /\ CString(o, m) = <<o, z>>
  BY DEF CString
<1>2. T \subseteq Nat /\ \A x \in T : x - o \in 0..(m - 1) /\ x < file.size
  BY FileType DEF Terminators
<1> HIDE DEF T
<1>3. \E x \in T : \A y \in T : x <= y
  BY <1>1, <1>2, LeastExists
<1>4. z \in T
  BY <1>3
<1> HIDE DEF z
<1>5. z \in Nat /\ o <= z /\ z < o + m /\ z < file.size
  BY <1>2, <1>4
<1>. QED
  BY <1>1, <1>5

(* A name is in the table it was looked up in. *)
LEMMA NameMeans ==
  ASSUME IsFile(file), NEW t \in SectionHeader, NEW x \in Nat, NameIn(t, x) # NoString
  PROVE  InTable(NameIn(t, x), t) /\ NameIn(t, x) \in Name
<1> DEFINE o == t.offset + x
           m == t.size - x
           n == CString(o, m)
<1>1. t.offset \in Nat /\ t.size \in Nat
  BY Widths DEF SectionHeader
<1>2. x < t.size /\ NameIn(t, x) = n /\ n # NoString /\ n[1] # n[2]
  BY <1>1 DEF NameIn
<1>3. o \in Nat /\ m \in Nat
  BY <1>1, <1>2
<1>4. PICK z \in Nat : n = <<o, z>> /\ o <= z /\ z < o + m /\ z < file.size
  BY <1>2, <1>3, CStringMeans
<1>5. o < z
  BY <1>2, <1>3, <1>4
<1>6. InTable(<<o, z>>, t)
  BY <1>1, <1>4, <1>5 DEF InTable
<1>7. <<o, z>> \in Name
  BY <1>3, <1>4, <1>5, FileType, Widths DEF Name
<1>. QED
  BY <1>2, <1>4, <1>6, <1>7

-----------------------------------------------------------------------------
(* The part of the pass a call is in, or has been through when it accepted *)
(* the file.                                                               *)
AfterSegments == {"symbol_table", "symbols"}
AfterSections == AfterSegments \cup {"segment_table", "segments"}
AfterTable == AfterSections \cup {"sections"}
AfterHeader == AfterTable \cup {"section_table"}
Reached(stage) == pc \in stage \/ status = "ok"

(* The number of section headers is the one the file claims, the claimed   *)
(* table is in the file, and what was read of it is what is stored there.  *)
SectionInv ==
  /\ Reached(AfterHeader) =>
       shnum = IF file.shnum = 0 /\ file.shoff # 0 THEN ExtendedNumber ELSE file.shnum
  /\ Reached(AfterTable) => /\ file.shentsize >= ShSize /\ shnum <= MaxVector
                            /\ file.shoff + shnum * file.shentsize <= file.size
  /\ pc \notin AfterTable \cup {"done"} => sections = << >>
  /\ pc \notin AfterSections \cup {"done"} => names = << >>
  /\ pc = "sections" => i = Len(sections) /\ i <= shnum
  /\ Reached(AfterSections) => Len(sections) = shnum /\ Len(names) = shnum
  /\ \A k \in 1..Len(sections) : sections[k] = SectionAt(SectionOffset(k - 1))

(* The same of the program headers. *)
SegmentInv ==
  /\ pc \notin AfterSegments \cup {"segments", "done"} => segments = 0
  /\ pc = "segments" => /\ HasSegments /\ phnum = SegmentNumber /\ segments <= phnum
                        /\ file.phentsize >= PhSize
                        /\ file.phoff + phnum * file.phentsize <= file.size
  /\ Reached(AfterSegments) /\ HasSegments =>
       segments = SegmentNumber /\ file.phoff + segments * file.phentsize <= file.size

(* The symbol table that is read is the one the code chose. *)
SymbolInv ==
  /\ pc \notin {"sections", "symbols", "done"} => i = 0
  /\ IF symtab = 0 THEN symbols = << >> /\ pc # "symbols"
     ELSE /\ symtab = SymbolTable /\ Usable(symtab)
          /\ count = sections[symtab].size \div SymSize
          /\ \/ pc = "symbols" /\ i <= count
             \/ status = "ok" /\ i = count
  /\ \A k \in 1..Len(symbols) : symbols[k].entry < i

IInv == /\ TypeOK
        /\ (pc = "done" <=> status # "running")
        /\ SectionInv
        /\ SegmentInv
        /\ SymbolInv

-----------------------------------------------------------------------------
(* The types of what is read of the file, and of the image. *)

LEMMA RecordTypes ==
  ASSUME IsFile(file)
  PROVE  /\ \A o : SectionAt(o) \in SectionHeader
         /\ \A o : SymbolAt(o) \in RawSymbol
<1>1. NullSection \in SectionHeader /\ NullSymbol \in RawSymbol
  BY Widths DEF NullSection, SectionHeader, NullSymbol, RawSymbol
<1>. QED
  BY <1>1 DEF SectionAt, SymbolAt, IsFile

LEMMA ElementOf ==
  ASSUME NEW S, NEW s \in Seq(S), NEW k \in 1..Len(s)
  PROVE  s[k] \in S
OBVIOUS

LEMMA FieldTypes ==
  ASSUME NEW s \in SectionHeader
  PROVE  /\ s.offset \in Nat /\ s.size \in 0..MaxU64 /\ s.link \in 0..(Word - 1)
         /\ s.info \in 0..(Word - 1) /\ s.name_index \in Nat
BY Widths DEF SectionHeader

LEMMA NumbersType ==
  ASSUME IsFile(file)
  PROVE  ExtendedNumber \in 0..MaxU64 /\ ExtendedNameIndex \in 0..MaxU64
<1>1. /\ FirstSection.size \in 0..MaxU64 /\ FirstSection.link \in 0..(Word - 1)
      /\ FirstSection.info \in 0..(Word - 1)
  BY RecordTypes, FieldTypes DEF FirstSection
<1>2. file.shnum \in 0..MaxU64 /\ file.shstrndx \in 0..MaxU64
  BY FileType, Widths
<1>3. ExtendedNumber \in 0..MaxU64
  BY <1>1, <1>2 DEF ExtendedNumber
<1>4. 0 <= Word * FirstSection.info /\ Word * FirstSection.info <= Word * (Word - 1)
      /\ Word * FirstSection.info \in Nat
  BY <1>1, Widths, Products
<1>5. ExtendedNameIndex \in 0..MaxU64
  BY <1>1, <1>2, <1>4, Widths DEF ExtendedNameIndex
<1>. QED
  BY <1>3, <1>5

LEMMA SegmentNumberType ==
  ASSUME IsFile(file), sections \in Seq(SectionHeader)
  PROVE  /\ SegmentNumber \in 0..(Word - 1)
         /\ SegmentNumber * file.phentsize \in Nat
         /\ SegmentNumber * file.phentsize <= MaxU64
<1>1. sections # << >> => sections[1].info \in 0..(Word - 1)
  <2>1. sections # << >> => 1 \in 1..Len(sections)
    BY EmptySeq
  <2>2. sections # << >> => sections[1] \in SectionHeader
    BY <2>1, ElementOf
  <2>. QED
    BY <2>2, FieldTypes
<1>2. SegmentNumber \in 0..(Word - 1)
  <2>1. file.phnum \in 0..Max16 /\ Max16 \in Nat /\ Word \in Nat /\ Max16 < Word
    BY FileType, Widths
  <2>2. file.phnum \in 0..(Word - 1)
    BY <2>1
  <2>. QED
    BY <1>1, <2>2 DEF SegmentNumber
<1>3. /\ SegmentNumber \in Nat /\ Word - 1 \in Nat /\ SegmentNumber <= Word - 1
      /\ file.phentsize \in Nat /\ Max16 \in Nat /\ file.phentsize <= Max16
  BY <1>2, FileType, Widths
<1>4. /\ SegmentNumber * file.phentsize \in Nat /\ (Word - 1) * Max16 \in Nat
      /\ SegmentNumber * file.phentsize <= (Word - 1) * Max16
  BY <1>3, Products
<1>. QED
  BY <1>2, <1>4, Widths

(* The table the code chose is one of the sections: a .dynsym, or a        *)
(* .symtab when there is no .dynsym.                                       *)
LEMMA SymbolTableMeans ==
  ASSUME sections \in Seq(SectionHeader)
  PROVE  /\ SymbolTable \in 0..Len(sections)
         /\ SymbolTable # 0 => \/ sections[SymbolTable].type = ShtDynsym
                               \/ sections[SymbolTable].type = ShtSymtab /\ OfType(ShtDynsym) = {}
<1>1. ASSUME NEW t, OfType(t) # {} PROVE First(OfType(t)) \in OfType(t)
  <2> DEFINE T == OfType(t)
  <2>1. T \subseteq Nat
    BY DEF OfType
  <2> HIDE DEF T
  <2>2. \E k \in T : \A m \in T : k <= m
    BY <1>1, <2>1, LeastExists DEF T
  <2>3. First(T) \in T
    BY <2>2 DEF First
  <2>. QED
    BY <2>3 DEF T
<1>2. ASSUME NEW t, NEW k \in OfType(t)
      PROVE  k \in 1..Len(sections) /\ k # 0 /\ sections[k].type = t
  BY DEF OfType
<1>3. Len(sections) \in Nat
  BY LenProperties
<1>4. CASE OfType(ShtDynsym) # {}
  BY <1>1, <1>2, <1>4 DEF SymbolTable
<1>5. CASE OfType(ShtDynsym) = {} /\ OfType(ShtSymtab) # {}
  BY <1>1, <1>2, <1>5 DEF SymbolTable
<1>6. CASE OfType(ShtDynsym) = {} /\ OfType(ShtSymtab) = {}
  BY <1>3, <1>6 DEF SymbolTable
<1>. QED
  BY <1>4, <1>5, <1>6

(* A table that is usable is in the file, and so are its strings. *)
LEMMA UsableMeans ==
  ASSUME IsFile(file), sections \in Seq(SectionHeader), NEW k \in 0..Len(sections), Usable(k)
  PROVE  LET t == sections[sections[k].link + 1]
         IN  /\ k \in 1..Len(sections)
             /\ sections[k] \in SectionHeader /\ t \in SectionHeader
             /\ DataFits(t)
             /\ sections[k].offset + sections[k].size <= file.size
<1> DEFINE l == sections[k].link
<1>1. k # 0 /\ ~(l >= Len(sections)) /\ DataFits(sections[k]) /\ DataFits(sections[l + 1])
  BY Zenon DEF Usable
<1>2. Len(sections) \in Nat /\ k \in 1..Len(sections)
  BY <1>1, LenProperties
<1>3. sections[k] \in SectionHeader
  BY <1>2, ElementOf
<1>4. l \in Nat
  BY <1>3, FieldTypes, Widths
<1>5. l + 1 \in 1..Len(sections)
  BY <1>2, <1>1, <1>4
<1>6. sections[l + 1] \in SectionHeader
  BY <1>5, ElementOf
<1>. QED
  BY <1>2, <1>1, <1>3, <1>6, DataFitsMeans

-----------------------------------------------------------------------------
(* The invariant holds at first and every step keeps it. *)

(* What is read of a file does not depend on the state of the call. *)
LEMMA SameFile ==
  ASSUME UNCHANGED file
  PROVE  /\ ShSize' = ShSize /\ PhSize' = PhSize /\ SymSize' = SymSize
         /\ ExtendedNumber' = ExtendedNumber
         /\ HasSegments' = HasSegments
         /\ \A o : SectionAt(o)' = SectionAt(o)
         /\ \A k : SectionOffset(k)' = SectionOffset(k)
<1>1. Is64' = Is64 /\ \A o : SectionAt(o)' = SectionAt(o)
  BY DEF Is64, SectionAt
<1>2. SizeField' = SizeField
  BY <1>1 DEF SizeField, InBounds
<1>. QED
  BY <1>1, <1>2 DEF ShSize, PhSize, SymSize, ExtendedNumber, FirstSection, HasSegments,
                    SectionOffset

LEMMA SameSections ==
  ASSUME UNCHANGED <<file, sections>>
  PROVE  /\ SegmentNumber' = SegmentNumber
         /\ SymbolTable' = SymbolTable
         /\ \A k : Usable(k)' = Usable(k)
<1>1. SymSize' = SymSize /\ \A s : DataFits(s)' = DataFits(s)
  BY SameFile DEF DataFits
<1>2. \A t : OfType(t)' = OfType(t)
  BY DEF OfType
<1>3. SymbolTable' = SymbolTable
  BY <1>2 DEF SymbolTable
<1>4. \A k : Usable(k)' = Usable(k)
  BY <1>1, Zenon DEF Usable
<1>. QED
  BY <1>3, <1>4 DEF SegmentNumber

LEMMA InitIInv == Init => IInv
<1> SUFFICES ASSUME Init PROVE IInv
  OBVIOUS
<1>1. IsFile(file)
  BY FilesAssumption DEF Init
<1>2. 0 * SymSize = 0
  BY RecordSizes
<1>3. TypeOK
  BY <1>1, <1>2, FileType, Widths, EmptySeq DEF Init, TypeOK
<1>. QED
  BY <1>3, EmptySeq DEF Init, IInv, SectionInv, SegmentInv, SymbolInv, Reached,
              AfterHeader, AfterTable, AfterSections, AfterSegments

Errors == {"bad_ident", "unsupported", "truncated_header", "bad_section_table",
           "truncated_section", "bad_segment_table", "truncated_segment", "exception"}

(* A call that fails leaves everything else as it is. *)
LEMMA FailKeeps ==
  ASSUME IInv, NEW s \in Errors, pc \notin {"symbols", "done"}, Return(s),
         UNCHANGED <<file, numbers, i, image>>
  PROVE  IInv'
<1> USE DEF numbers, image, Return, AfterHeader, AfterTable, AfterSections, AfterSegments
<1>1. TypeOK'
  BY SameFile DEF IInv, TypeOK, Errors
<1>2. pc' = "done" /\ status' # "ok" /\ status' # "running"
  BY DEF Errors
<1>3. SectionInv'
  BY <1>2, SameFile DEF IInv, SectionInv, Reached
<1>4. SegmentInv'
  BY <1>2 DEF IInv, SegmentInv, Reached
<1>5. SymbolInv'
  BY <1>2 DEF IInv, SymbolInv
<1>. QED
  BY <1>1, <1>2, <1>3, <1>4, <1>5 DEF IInv

LEMMA AcceptIdentKeeps == ASSUME IInv, AcceptIdent PROVE IInv'
<1> USE DEF numbers, image, Goto, AcceptIdent
<1>1. TypeOK'
  BY SameFile DEF IInv, TypeOK
<1>. QED
  BY <1>1, SameFile DEF IInv, SectionInv, SegmentInv, SymbolInv, Reached,
              AfterHeader, AfterTable, AfterSections, AfterSegments

LEMMA AcceptHeaderKeeps == ASSUME IInv, AcceptHeader PROVE IInv'
<1> USE DEF image, Goto, AcceptHeader
<1>1. shnum' \in 0..MaxU64 /\ shstrndx' \in 0..MaxU64
  <2>1. IsFile(file)
    BY DEF IInv, TypeOK
  <2>2. file.shnum \in 0..MaxU64 /\ file.shstrndx \in 0..MaxU64
    BY <2>1, FileType, Widths
  <2>3. ExtendedNumber \in 0..MaxU64 /\ ExtendedNameIndex \in 0..MaxU64
    BY <2>1, NumbersType
  <2>. QED
    BY <2>2, <2>3, Zenon
<1>2. TypeOK'
  BY <1>1, SameFile DEF IInv, TypeOK
<1>. QED
  BY <1>2, SameFile DEF IInv, SectionInv, SegmentInv, SymbolInv, Reached,
              AfterHeader, AfterTable, AfterSections, AfterSegments

LEMMA ReserveSectionsKeeps == ASSUME IInv, ReserveSections PROVE IInv'
<1>1. CASE shnum <= MaxVector
  <2>1. pc = "section_table" /\ Goto("sections") /\ UNCHANGED <<file, numbers, i, image>>
    BY <1>1 DEF ReserveSections
  <2>2. shnum * file.shentsize \in Nat /\ shnum * file.shentsize <= MaxU64
    <3>1. IsFile(file) /\ shnum \in Nat
      BY Widths DEF IInv, TypeOK
    <3>2. file.shentsize \in Nat /\ file.shentsize <= Max16
      BY <3>1, FileType, Widths
    <3>3. shnum * file.shentsize \in Nat /\ shnum * file.shentsize <= MaxVector * Max16
          /\ MaxVector * Max16 \in Nat
      BY <1>1, <3>1, <3>2, Widths, Products
    <3>. QED
      BY <3>3, Widths
  <2>3. file.shoff + shnum * file.shentsize <= file.size
    <3>1. IsFile(file) /\ shnum \in Nat
      BY Widths DEF IInv, TypeOK
    <3>2. file.shoff \in Nat /\ file.shentsize \in Nat
      BY <3>1, FileType, Widths
    <3>3. TableFits(file.shoff, shnum, file.shentsize)
      BY DEF ReserveSections
    <3>. QED
      BY <2>2, <3>1, <3>2, <3>3, TableFitsMeans
  <2>4. TypeOK'
    BY <2>1, SameFile DEF IInv, TypeOK, numbers, image, Goto
  <2>5. SectionInv'
    <3>1. sections = << >> /\ names = << >> /\ i = 0 /\ Len(sections) = 0
      BY <2>1, EmptySeq DEF IInv, SectionInv, SymbolInv, AfterTable, AfterSections, AfterSegments
    <3>2. 0 <= shnum
      BY Widths DEF IInv, TypeOK
    <3>. QED
      BY <1>1, <2>1, <2>3, <3>1, <3>2, SameFile
      DEF IInv, SectionInv, ReserveSections, Reached, numbers, image, Goto,
          AfterHeader, AfterTable, AfterSections, AfterSegments
  <2>. QED
    BY <2>1, <2>4, <2>5 DEF IInv, SegmentInv, SymbolInv, Reached, numbers, image, Goto,
                            AfterSections, AfterSegments
<1>2. CASE ~(shnum <= MaxVector)
  BY <1>2, FailKeeps DEF ReserveSections, Errors
<1>. QED
  BY <1>1, <1>2

(* Reading the section headers of a table that was checked succeeds. *)
LEMMA SectionReadable ==
  ASSUME IInv, pc = "sections", i < shnum
  PROVE  InBounds(SectionOffset(i), ShSize) /\ i + 1 <= shnum /\ i + 1 \in 0..MaxVector
<1>1. /\ IsFile(file) /\ shnum \in Nat /\ i \in Nat /\ shnum <= MaxVector
      /\ file.shentsize >= ShSize /\ file.shoff + shnum * file.shentsize <= file.size
  BY Widths DEF IInv, TypeOK, SectionInv, Reached, AfterTable
<1>2. file.shoff \in Nat /\ file.shentsize \in Nat /\ ShSize \in 0..file.shentsize
  BY <1>1, FileType, RecordSizes, Widths
<1>3. i \in 0..(shnum - 1)
  BY <1>1
<1>4. InBounds(SectionOffset(i), ShSize)
  BY <1>1, <1>2, <1>3, EntryInTable DEF SectionOffset
<1>. QED
  BY <1>1, <1>4, Widths

LEMMA ReadSectionKeeps == ASSUME IInv, ReadSection PROVE IInv'
<1> DEFINE s == SectionAt(SectionOffset(i))
<1>1. /\ pc = "sections" /\ i < shnum
      /\ sections' = Append(sections, s) /\ i' = i + 1
      /\ UNCHANGED <<file, pc, status, numbers, names, segments, symtab, symbols>>
  BY SectionReadable DEF ReadSection
<1>2. s \in SectionHeader /\ sections \in Seq(SectionHeader) /\ Len(sections) = i
  BY <1>1, RecordTypes DEF IInv, TypeOK, SectionInv
<1>3. /\ sections' \in Seq(SectionHeader) /\ Len(sections') = i + 1
      /\ \A k \in 1..i : sections'[k] = sections[k]
      /\ sections'[i + 1] = s
  BY <1>1, <1>2, AppendProperties
<1>4. i + 1 <= shnum /\ i + 1 \in 0..MaxVector
  BY <1>1, SectionReadable
<1>5. symtab = 0 /\ symbols = << >>
  BY <1>1 DEF IInv, SymbolInv
<1>6. TypeOK'
  BY <1>1, <1>3, <1>4, <1>5, SameFile, Widths DEF IInv, TypeOK, numbers
<1>7. SectionInv'
  <2>1. i \in Nat
    BY Widths DEF IInv, TypeOK
  <2>2. ASSUME NEW k \in 1..(i + 1) PROVE sections'[k] = SectionAt(SectionOffset(k - 1))'
    <3>1. CASE k = i + 1
      BY <1>3, <2>1, <3>1, SameFile, <1>1
    <3>2. CASE k \in 1..i
      BY <1>1, <1>2, <1>3, <3>2, SameFile DEF IInv, SectionInv
    <3>. QED
      BY <2>1, <3>1, <3>2
  <2>. QED
    BY <1>1, <1>3, <1>4, <2>2, SameFile
    DEF IInv, SectionInv, numbers, Reached, AfterHeader, AfterTable, AfterSections, AfterSegments
<1>8. SegmentInv'
  BY <1>1 DEF IInv, SegmentInv, Reached, AfterSegments
<1>9. SymbolInv'
  BY <1>1, <1>5 DEF IInv, SymbolInv
<1>. QED
  BY <1>1, <1>6, <1>7, <1>8, <1>9 DEF IInv

LEMMA NamesType ==
  ASSUME IsFile(file), sections \in Seq(SectionHeader), shstrndx \in Nat,
         NEW k \in 1..Len(sections), HasNameTable
  PROVE  LET t == sections[shstrndx + 1]
             n == NameIn(t, sections[k].name_index)
         IN  n \in Name /\ (n # NoString => InTable(n, t))
<1>1. shstrndx < Len(sections)
  BY DEF HasNameTable
<1>2. sections[shstrndx + 1] \in SectionHeader
  BY <1>1, LenProperties, ElementOf
<1>3. sections[k].name_index \in Nat
  BY ElementOf, FieldTypes
<1>4. NoString \in Name
  BY EmptySeq DEF NoString, Name
<1>. QED
  BY <1>2, <1>3, <1>4, NameMeans

LEMMA NameSectionsKeeps == ASSUME IInv, NameSections PROVE IInv'
<1>1. /\ pc = "sections" /\ pc' = "segment_table" /\ i = shnum /\ i' = 0
      /\ UNCHANGED <<file, status, numbers, sections, segments, symtab, symbols>>
  BY DEF NameSections, Goto
<1>2. sections \in Seq(SectionHeader) /\ Len(sections) \in Nat
  BY LenProperties DEF IInv, TypeOK
<1>3. names' \in [1..Len(sections) -> Name]
  <2>1. NoString \in Name
    BY EmptySeq DEF NoString, Name
  <2>2. IsFile(file) /\ shstrndx \in Nat
    BY Widths DEF IInv, TypeOK
  <2>3. ASSUME NEW k \in 1..Len(sections), HasNameTable
        PROVE  NameIn(sections[shstrndx + 1], sections[k].name_index) \in Name
    BY <1>2, <2>2, <2>3, NamesType
  <2>. QED
    BY <2>1, <2>3 DEF NameSections
<1>4. names' \in Seq(Name) /\ Len(names') = Len(sections)
  BY <1>2, <1>3
<1>5. TypeOK'
  BY <1>1, <1>4, SameFile, Widths DEF IInv, TypeOK, numbers
<1>6. SectionInv'
  BY <1>1, <1>4, SameFile
  DEF IInv, SectionInv, numbers, Reached, AfterHeader, AfterTable, AfterSections, AfterSegments
<1>7. SegmentInv'
  BY <1>1 DEF IInv, SegmentInv, Reached, AfterSegments
<1>8. SymbolInv'
  BY <1>1 DEF IInv, SymbolInv
<1>. QED
  BY <1>1, <1>5, <1>6, <1>7, <1>8 DEF IInv

(* From one part of the pass to the next, with nothing but pc changed, or  *)
(* phnum too.                                                              *)
LEMMA SkipSegmentsKeeps == ASSUME IInv, SkipSegments PROVE IInv'
<1> USE DEF numbers, image, Goto, SkipSegments
<1>1. TypeOK'
  BY SameFile DEF IInv, TypeOK
<1>2. SectionInv'
  BY SameFile DEF IInv, SectionInv, Reached, AfterHeader, AfterTable, AfterSections, AfterSegments
<1>3. SegmentInv'
  BY SameFile DEF IInv, SegmentInv, Reached, AfterSegments
<1>4. SymbolInv'
  BY DEF IInv, SymbolInv
<1>. QED
  BY <1>1, <1>2, <1>3, <1>4 DEF IInv

(* As many program headers as the file says are in the file. *)
LEMMA SegmentTableInFile ==
  ASSUME IInv, TableFits(file.phoff, SegmentNumber, file.phentsize)
  PROVE  /\ file.phoff + SegmentNumber * file.phentsize <= file.size
         /\ file.phentsize >= PhSize => SegmentNumber \in 0..file.size
<1>1. IsFile(file) /\ sections \in Seq(SectionHeader)
  BY DEF IInv, TypeOK
<1>2. /\ SegmentNumber \in Nat /\ SegmentNumber * file.phentsize \in Nat
      /\ SegmentNumber * file.phentsize <= MaxU64
  BY <1>1, SegmentNumberType, Widths
<1>3. file.phoff \in Nat /\ file.phentsize \in Nat /\ PhSize \in Nat /\ PhSize >= 1
  BY <1>1, FileType, RecordSizes, Widths
<1>4. file.phoff + SegmentNumber * file.phentsize <= file.size
  BY <1>1, <1>2, <1>3, TableFitsMeans
<1>5. ASSUME file.phentsize >= PhSize PROVE SegmentNumber \in 0..file.size
  <2>1. 1 <= file.phentsize /\ SegmentNumber * 1 = SegmentNumber
    BY <1>2, <1>3, <1>5
  <2>2. SegmentNumber * 1 <= SegmentNumber * file.phentsize
    BY <1>2, <1>3, <2>1, Products
  <2>. QED
    BY <1>1, <1>2, <1>3, <1>4, <2>1, <2>2, FileType
<1>. QED
  BY <1>4, <1>5

LEMMA AcceptSegmentTableKeeps == ASSUME IInv, AcceptSegmentTable PROVE IInv'
<1>1. /\ pc = "segment_table" /\ pc' = "segments" /\ HasSegments /\ file.phentsize >= PhSize
      /\ phnum' = SegmentNumber
      /\ UNCHANGED <<file, status, shnum, shstrndx, count, i, image>>
  BY DEF AcceptSegmentTable, Goto
<1>2. /\ file.phoff + SegmentNumber * file.phentsize <= file.size
      /\ SegmentNumber \in 0..file.size
  BY SegmentTableInFile DEF AcceptSegmentTable
<1>3. TypeOK'
  BY <1>1, <1>2, SameFile DEF IInv, TypeOK, image
<1>4. SectionInv'
  BY <1>1, SameFile
  DEF IInv, SectionInv, image, Reached, AfterHeader, AfterTable, AfterSections, AfterSegments
<1>5. SegmentInv'
  <2>1. segments = 0
    BY <1>1 DEF IInv, SegmentInv, AfterSegments
  <2>2. SegmentNumber' = SegmentNumber /\ PhSize' = PhSize /\ HasSegments' = HasSegments
    BY <1>1, SameFile, SameSections DEF image
  <2>. QED
    BY <1>1, <1>2, <2>1, <2>2 DEF IInv, SegmentInv, image, Reached, AfterSegments
<1>6. SymbolInv'
  BY <1>1 DEF IInv, SymbolInv, image
<1>. QED
  BY <1>1, <1>3, <1>4, <1>5, <1>6 DEF IInv

(* Reading the program headers of a table that was checked succeeds. *)
LEMMA SegmentReadable ==
  ASSUME IInv, pc = "segments", segments < phnum
  PROVE  InBounds(SegmentOffset(segments), PhSize) /\ segments + 1 \in 0..file.size
<1>1. /\ IsFile(file) /\ phnum \in 0..file.size /\ segments \in 0..file.size
      /\ file.phentsize >= PhSize /\ file.phoff + phnum * file.phentsize <= file.size
  BY DEF IInv, TypeOK, SegmentInv
<1>2. /\ file.phoff \in Nat /\ file.phentsize \in Nat /\ PhSize \in 0..file.phentsize
      /\ phnum \in Nat /\ segments \in 0..(phnum - 1) /\ file.size \in Nat
  BY <1>1, FileType, RecordSizes, Widths
<1>3. InBounds(SegmentOffset(segments), PhSize)
  BY <1>1, <1>2, EntryInTable DEF SegmentOffset
<1>. QED
  BY <1>1, <1>2, <1>3

LEMMA ReadSegmentKeeps == ASSUME IInv, ReadSegment PROVE IInv'
<1>1. /\ pc = "segments" /\ segments < phnum /\ segments' = segments + 1
      /\ segments' \in 0..file.size
      /\ UNCHANGED <<file, pc, status, numbers, i, sections, names, symtab, symbols>>
  BY SegmentReadable DEF ReadSegment
<1>2. TypeOK'
  BY <1>1, SameFile DEF IInv, TypeOK, numbers
<1>3. SectionInv'
  BY <1>1, SameFile
  DEF IInv, SectionInv, numbers, Reached, AfterHeader, AfterTable, AfterSections, AfterSegments
<1>4. SegmentInv'
  <2>1. segments + 1 <= phnum
    BY <1>1, FileType DEF IInv, TypeOK
  <2>2. SegmentNumber' = SegmentNumber /\ PhSize' = PhSize /\ HasSegments' = HasSegments
    BY <1>1, SameFile, SameSections
  <2>3. status # "ok"
    BY <1>1 DEF IInv
  <2>. QED
    BY <1>1, <2>1, <2>2, <2>3 DEF IInv, SegmentInv, numbers, Reached, AfterSegments
<1>5. SymbolInv'
  BY <1>1 DEF IInv, SymbolInv
<1>. QED
  BY <1>1, <1>2, <1>3, <1>4, <1>5 DEF IInv

LEMMA SegmentsReadKeeps == ASSUME IInv, SegmentsRead PROVE IInv'
<1> USE DEF numbers, image, Goto, SegmentsRead
<1>1. TypeOK'
  BY SameFile DEF IInv, TypeOK
<1>2. SectionInv'
  BY SameFile DEF IInv, SectionInv, Reached, AfterHeader, AfterTable, AfterSections, AfterSegments
<1>3. SegmentInv'
  BY SameFile, SameSections DEF IInv, SegmentInv, Reached, AfterSegments
<1>4. SymbolInv'
  BY DEF IInv, SymbolInv
<1>. QED
  BY <1>1, <1>2, <1>3, <1>4 DEF IInv

LEMMA NoSymbolTableKeeps == ASSUME IInv, NoSymbolTable PROVE IInv'
<1> USE DEF numbers, image, Return, NoSymbolTable
<1>1. TypeOK'
  BY SameFile DEF IInv, TypeOK
<1>2. SectionInv'
  BY SameFile DEF IInv, SectionInv, Reached, AfterHeader, AfterTable, AfterSections, AfterSegments
<1>3. SegmentInv'
  BY SameFile, SameSections DEF IInv, SegmentInv, Reached, AfterSegments
<1>4. SymbolInv'
  BY DEF IInv, SymbolInv
<1>. QED
  BY <1>1, <1>2, <1>3, <1>4 DEF IInv

LEMMA Quotient ==
  ASSUME NEW n \in Nat, NEW k \in {16, 24}
  PROVE  n \div k \in Nat /\ (n \div k) * k <= n
OBVIOUS

(* Where the symbol table is, and how many of its entries fit in it. *)
LEMMA SymbolTableInFile ==
  ASSUME IsFile(file), sections \in Seq(SectionHeader), NEW k \in 0..Len(sections), Usable(k)
  PROVE  LET s == sections[k]
             n == s.size \div SymSize
         IN  /\ k \in 1..Len(sections)
             /\ s.offset \in Nat /\ n \in Nat /\ n * SymSize <= file.size
             /\ s.offset + n * SymSize <= file.size
<1> DEFINE s == sections[k]
           n == s.size \div SymSize
<1>1. k \in 1..Len(sections) /\ s \in SectionHeader /\ s.offset + s.size <= file.size
  BY UsableMeans
<1>2. s.offset \in Nat /\ s.size \in Nat
  BY <1>1, FieldTypes, Widths
<1>3. n \in Nat /\ n * SymSize <= s.size /\ n * SymSize \in Nat
  BY <1>2, Quotient, RecordSizes
<1> HIDE DEF n, s
<1>4. file.size \in Nat
  BY FileType
<1> DEFINE bytes == n * SymSize
<1>5. bytes \in Nat /\ bytes <= s.size
  BY <1>3
<1> HIDE DEF bytes
<1>6. bytes <= file.size /\ s.offset + bytes <= file.size
  BY <1>1, <1>2, <1>4, <1>5
<1>. QED
  BY <1>1, <1>2, <1>3, <1>6 DEF n, s, bytes

LEMMA AcceptSymbolTableKeeps == ASSUME IInv, AcceptSymbolTable PROVE IInv'
<1>1. /\ pc = "symbol_table" /\ pc' = "symbols" /\ Usable(SymbolTable)
      /\ symtab' = SymbolTable
      /\ count' = sections[SymbolTable].size \div SymSize
      /\ UNCHANGED <<file, status, shnum, shstrndx, phnum, i, sections, names, segments, symbols>>
  BY DEF AcceptSymbolTable, Goto
<1>2. IsFile(file) /\ sections \in Seq(SectionHeader)
  BY DEF IInv, TypeOK
<1>3. SymbolTable \in 1..Len(sections) /\ count' \in Nat /\ count' * SymSize <= file.size
  BY <1>1, <1>2, SymbolTableMeans, SymbolTableInFile
<1>4. i = 0 /\ symbols = << >>
  BY <1>1 DEF IInv, SymbolInv
<1>5. TypeOK'
  <2>1. SymSize' = SymSize /\ symtab' \in 0..Len(sections)
    BY <1>1, <1>3, SameFile
  <2>. QED
    BY <1>1, <1>3, <2>1 DEF IInv, TypeOK
<1>6. SectionInv'
  BY <1>1, SameFile
  DEF IInv, SectionInv, Reached, AfterHeader, AfterTable, AfterSections, AfterSegments
<1>7. SegmentInv'
  BY <1>1, SameFile, SameSections DEF IInv, SegmentInv, Reached, AfterSegments
<1>8. SymbolInv'
  <2>1. /\ SymbolTable' = SymbolTable /\ Usable(SymbolTable)' = Usable(SymbolTable)
        /\ SymSize' = SymSize
    BY <1>1, SameFile, SameSections
  <2>2. symtab' # 0 /\ symtab' = SymbolTable' /\ Usable(symtab)'
    BY <1>1, <1>3, <2>1, SameSections
  <2>. QED
    BY <1>1, <1>3, <1>4, <2>1, <2>2, EmptySeq DEF SymbolInv
<1>. QED
  BY <1>1, <1>5, <1>6, <1>7, <1>8 DEF IInv

(* The whole symbol table can be read. *)
LEMMA SymbolReadable ==
  ASSUME IInv, pc = "symbols", i < count
  PROVE  InBounds(SymbolOffset(i), SymSize) /\ i + 1 <= count /\ i + 1 \in 0..MaxVector
<1>1. /\ IsFile(file) /\ sections \in Seq(SectionHeader) /\ symtab \in 0..Len(sections)
      /\ Usable(symtab) /\ count = sections[symtab].size \div SymSize
      /\ i \in Nat
  BY Widths DEF IInv, TypeOK, SymbolInv
<1>2. /\ sections[symtab].offset \in Nat /\ count \in Nat
      /\ sections[symtab].offset + count * SymSize <= file.size
      /\ count * SymSize <= file.size
  BY <1>1, SymbolTableInFile
<1>3. SymSize \in Nat /\ SymSize \in 0..SymSize /\ 1 <= SymSize /\ i \in 0..(count - 1)
  BY <1>1, <1>2, RecordSizes
<1>4. InBounds(SymbolOffset(i), SymSize)
  BY <1>1, <1>2, <1>3, EntryInTable DEF SymbolOffset
<1>5. count * 1 <= count * SymSize /\ count * SymSize \in Nat
  BY <1>2, <1>3, Products
<1>6. count <= MaxVector
  <2>1. file.size \in Nat /\ file.size <= MaxVector /\ MaxVector \in Nat
    BY <1>1, FileType, Widths
  <2> DEFINE bytes == count * SymSize
  <2>2. bytes \in Nat /\ count <= bytes /\ bytes <= file.size
    BY <1>2, <1>5
  <2> HIDE DEF bytes
  <2>. QED
    BY <1>2, <2>1, <2>2
<1>. QED
  BY <1>1, <1>2, <1>4, <1>6, Widths

LEMMA SymbolStep ==
  ASSUME IInv, pc = "symbols", i < count, i' = i + 1,
         symbols' \in Seq([entry : 0..MaxVector, name : Name]),
         \A k \in 1..Len(symbols') : symbols'[k].entry \in 0..i,
         UNCHANGED <<file, pc, status, numbers, sections, names, segments, symtab>>
  PROVE  IInv'
<1>1. i + 1 <= count /\ i + 1 \in 0..MaxVector
  BY SymbolReadable
<1>2. TypeOK'
  BY <1>1, SameFile DEF IInv, TypeOK, numbers
<1>3. SectionInv'
  BY SameFile
  DEF IInv, SectionInv, numbers, Reached, AfterHeader, AfterTable, AfterSections, AfterSegments
<1>4. SegmentInv'
  BY SameFile, SameSections DEF IInv, SegmentInv, Reached, AfterSegments
<1>5. SymbolInv'
  <2>1. /\ SymbolTable' = SymbolTable /\ Usable(symtab)' = Usable(symtab) /\ SymSize' = SymSize
    BY SameFile, SameSections DEF numbers
  <2>2. i \in Nat
    BY Widths DEF IInv, TypeOK
  <2>. QED
    BY <1>1, <2>1, <2>2 DEF IInv, SymbolInv, numbers
<1>. QED
  BY <1>2, <1>3, <1>4, <1>5 DEF IInv

LEMMA KeptSymbolType ==
  ASSUME IInv, pc = "symbols", i < count, Exported(i)
  PROVE  /\ NameOfSymbol(i) \in Name /\ InTable(NameOfSymbol(i), StringTable)
         /\ [entry |-> i, name |-> NameOfSymbol(i)] \in [entry : 0..MaxVector, name : Name]
<1>1. IsFile(file) /\ sections \in Seq(SectionHeader) /\ symtab \in 0..Len(sections)
      /\ Usable(symtab) /\ i \in 0..MaxVector
  BY DEF IInv, TypeOK, SymbolInv
<1>2. StringTable \in SectionHeader
  BY <1>1, UsableMeans DEF StringTable
<1>3. SymbolAt(SymbolOffset(i)).name_index \in Nat
  BY <1>1, RecordTypes, Widths DEF RawSymbol
<1>4. NameOfSymbol(i) # NoString
  BY DEF Exported
<1>5. NameOfSymbol(i) \in Name /\ InTable(NameOfSymbol(i), StringTable)
  BY <1>1, <1>2, <1>3, <1>4, NameMeans DEF NameOfSymbol
<1>. QED
  BY <1>1, <1>5

LEMMA KeepSymbolKeeps == ASSUME IInv, KeepSymbol PROVE IInv'
<1> DEFINE T == [entry : 0..MaxVector, name : Name]
           e == [entry |-> i, name |-> NameOfSymbol(i)]
<1>1. /\ pc = "symbols" /\ i < count /\ Exported(i)
      /\ symbols' = Append(symbols, e) /\ i' = i + 1
      /\ UNCHANGED <<file, pc, status, numbers, sections, names, segments, symtab>>
  BY SymbolReadable DEF KeepSymbol
<1>2. e \in T /\ e.entry = i
  BY <1>1, KeptSymbolType
<1>3. symbols \in Seq(T) /\ i \in Nat /\ \A k \in 1..Len(symbols) : symbols[k].entry \in 0..i
  <2>1. symbols \in Seq(T) /\ i \in Nat /\ \A k \in 1..Len(symbols) : symbols[k].entry < i
    BY Widths DEF IInv, TypeOK, SymbolInv
  <2>2. \A k \in 1..Len(symbols) : symbols[k] \in T
    BY <2>1, ElementOf
  <2>3. \A k \in 1..Len(symbols) : symbols[k].entry \in Nat
    BY <2>2, Widths
  <2>. QED
    BY <2>1, <2>3
<1> HIDE DEF e, T
<1>4. /\ symbols' \in Seq(T) /\ Len(symbols') = Len(symbols) + 1 /\ Len(symbols) \in Nat
      /\ \A k \in 1..Len(symbols) : symbols'[k] = symbols[k]
      /\ symbols'[Len(symbols) + 1] = e
  BY <1>1, <1>2, <1>3, AppendProperties, LenProperties
<1>5. ASSUME NEW k \in 1..(Len(symbols) + 1) PROVE symbols'[k].entry \in 0..i
  <2>1. CASE k \in 1..Len(symbols)
    BY <1>3, <1>4, <2>1
  <2>2. CASE k = Len(symbols) + 1
    BY <1>2, <1>3, <1>4, <2>2
  <2>. QED
    BY <1>4, <2>1, <2>2
<1>. QED
  BY <1>1, <1>4, <1>5, SymbolStep DEF T

LEMMA SkipSymbolKeeps == ASSUME IInv, SkipSymbol PROVE IInv'
<1> DEFINE T == [entry : 0..MaxVector, name : Name]
<1>1. symbols \in Seq(T) /\ i \in Nat /\ \A k \in 1..Len(symbols) : symbols[k].entry < i
  BY Widths DEF IInv, TypeOK, SymbolInv
<1>2. \A k \in 1..Len(symbols) : symbols[k] \in T
  BY <1>1, ElementOf
<1>3. \A k \in 1..Len(symbols) : symbols[k].entry \in Nat
  BY <1>2, Widths
<1>4. \A k \in 1..Len(symbols) : symbols[k].entry \in 0..i
  BY <1>1, <1>3
<1>. QED
  BY <1>1, <1>4, SymbolStep DEF SkipSymbol, image

LEMMA SymbolsReadKeeps == ASSUME IInv, SymbolsRead PROVE IInv'
<1> USE DEF numbers, image, Return, SymbolsRead
<1>1. TypeOK'
  BY SameFile DEF IInv, TypeOK
<1>2. SectionInv'
  BY SameFile DEF IInv, SectionInv, Reached, AfterHeader, AfterTable, AfterSections, AfterSegments
<1>3. SegmentInv'
  BY SameFile, SameSections DEF IInv, SegmentInv, Reached, AfterSegments
<1>4. SymbolInv'
  BY SameFile, SameSections DEF IInv, SymbolInv
<1>. QED
  BY <1>1, <1>2, <1>3, <1>4 DEF IInv

LEMMA ParseKeeps == ASSUME IInv, Parse PROVE IInv'
<1> USE FailKeeps DEF Errors
<1>1. CASE ParseHeader
  BY <1>1, AcceptIdentKeeps, AcceptHeaderKeeps
  DEF ParseHeader, RejectIdent, RejectBigEndian, RejectHeader
<1>2. CASE ParseSections
  BY <1>2, ReserveSectionsKeeps, ReadSectionKeeps, NameSectionsKeeps
  DEF ParseSections, RejectSectionTable
<1>3. CASE ParseSegments
  BY <1>3, SkipSegmentsKeeps, AcceptSegmentTableKeeps, ReadSegmentKeeps, SegmentsReadKeeps
  DEF ParseSegments, RejectSegmentTable
<1>4. CASE ParseSymbols
  BY <1>4, NoSymbolTableKeeps, AcceptSymbolTableKeeps, KeepSymbolKeeps, SkipSymbolKeeps,
     SymbolsReadKeeps
  DEF ParseSymbols
<1>. QED
  BY <1>1, <1>2, <1>3, <1>4 DEF Parse

LEMMA StutterKeeps == ASSUME IInv, UNCHANGED vars PROVE IInv'
<1> USE SameFile, SameSections DEF vars, numbers, image
<1>1. TypeOK'
  BY DEF IInv, TypeOK
<1>2. SectionInv'
  BY DEF IInv, SectionInv, Reached, AfterHeader, AfterTable, AfterSections, AfterSegments
<1>3. SegmentInv'
  BY DEF IInv, SegmentInv, Reached, AfterSegments
<1>4. SymbolInv'
  BY DEF IInv, SymbolInv
<1>. QED
  BY <1>1, <1>2, <1>3, <1>4 DEF IInv

(* The conditions above hold throughout every call. *)
THEOREM Invariance == Spec => []IInv
<1>1. IInv /\ [Next]_vars => IInv'
  BY ParseKeeps, StutterKeeps DEF Next, Terminating
<1>. QED
  BY InitIInv, <1>1, PTL DEF Spec

(* The type of every variable, and that what is counted fits in the file.  *)
THEOREM TypeCorrect == Spec => []TypeOK
BY Invariance, PTL DEF IInv

(* An accepted file had every table it claims to have, to the last entry.  *)
THEOREM NothingAcceptedInPart == Spec => []AcceptedIsComplete
<1>1. ASSUME IInv PROVE AcceptedIsComplete
  <2>1. status = "ok" => Reached(AfterTable) /\ Reached(AfterSections) /\ Reached(AfterSegments)
    BY DEF Reached
  <2>2. status = "ok" => pc = "done"
    BY <1>1 DEF IInv
  <2>. QED
    BY <1>1, <2>1, <2>2 DEF IInv, SectionInv, SegmentInv, SymbolInv, AcceptedIsComplete
<1>. QED
  BY <1>1, Invariance, PTL

-----------------------------------------------------------------------------
(* Reads behind a check. *)

NoneTruncated == status \notin {"truncated_section", "truncated_segment"}

LEMMA ReadsStep == IInv /\ NoneTruncated /\ [Next]_vars => NoneTruncated'
<1> SUFFICES ASSUME IInv, NoneTruncated, [Next]_vars
             PROVE  NoneTruncated'
  OBVIOUS
<1> USE DEF NoneTruncated, Return, Goto
<1>1. CASE ParseHeader
  BY <1>1 DEF ParseHeader, RejectIdent, RejectBigEndian, AcceptIdent, RejectHeader, AcceptHeader
<1>2. CASE ParseSections
  BY <1>2, SectionReadable
  DEF ParseSections, RejectSectionTable, ReserveSections, ReadSection, NameSections
<1>3. CASE ParseSegments
  BY <1>3, SegmentReadable
  DEF ParseSegments, SkipSegments, RejectSegmentTable, AcceptSegmentTable, ReadSegment,
      SegmentsRead
<1>4. CASE ParseSymbols
  BY <1>4 DEF ParseSymbols, NoSymbolTable, AcceptSymbolTable, KeepSymbol, SkipSymbol, SymbolsRead,
              image
<1>5. CASE UNCHANGED vars
  BY <1>5 DEF vars
<1>. QED
  BY <1>1, <1>2, <1>3, <1>4, <1>5 DEF Next, Parse, Terminating

(* elf.cpp checks the size of a table once.  Whatever the header says, and *)
(* however the numbers wrap, no read behind the check fails.               *)
THEOREM ReadsSucceed == Spec => []ValidatedReadsSucceed
<1>1. Init => NoneTruncated
  BY DEF Init, NoneTruncated
<1>2. IInv /\ NoneTruncated => ValidatedReadsSucceed
  BY SymbolReadable DEF ValidatedReadsSucceed, NoneTruncated
<1>. QED
  BY <1>1, <1>2, ReadsStep, Invariance, PTL DEF Spec

-----------------------------------------------------------------------------
(* Names. *)

LEMMA SameNames ==
  ASSUME UNCHANGED <<file, sections, shstrndx>>
  PROVE  /\ HasNameTable' = HasNameTable
         /\ \A n, t : InTable(n, t)' = InTable(n, t)
         /\ \A t, x : NameIn(t, x)' = NameIn(t, x)
<1>1. \A s : DataFits(s)' = DataFits(s)
  BY DEF DataFits
<1>2. \A o, m : CString(o, m)' = CString(o, m)
  BY DEF CString, Terminators
<1>. QED
  BY <1>1, <1>2 DEF HasNameTable, InTable, NameIn

LEMMA NamesStep == IInv /\ NamesInTable /\ [Next]_vars => NamesInTable'
<1> SUFFICES ASSUME IInv, NamesInTable, [Next]_vars
             PROVE  NamesInTable'
  OBVIOUS
<1> DEFINE SectionNames ==
      \A k \in 1..Len(names) :
        names[k] # NoString => HasNameTable /\ InTable(names[k], sections[shstrndx + 1])
           SymbolNames == \A j \in 1..Len(symbols) : InTable(symbols[j].name, StringTable)
<1>0. SectionNames /\ SymbolNames
  BY DEF NamesInTable
<1>1. CASE UNCHANGED <<file, shstrndx, sections, names>>
  <2>1. SectionNames'
    BY <1>0, <1>1, SameNames
  <2>2. CASE UNCHANGED <<symbols, symtab>>
    <3>1. StringTable' = StringTable
      BY <1>1, <2>2 DEF StringTable
    <3>. QED
      BY <1>0, <1>1, <2>1, <2>2, <3>1, SameNames DEF NamesInTable
  <2>3. CASE pc = "symbol_table" /\ UNCHANGED symbols
    BY <2>1, <2>3, EmptySeq DEF IInv, SymbolInv, NamesInTable
  <2>4. CASE KeepSymbol
    <3> DEFINE e == [entry |-> i, name |-> NameOfSymbol(i)]
    <3>1. /\ pc = "symbols" /\ i < count /\ Exported(i) /\ symbols' = Append(symbols, e)
          /\ UNCHANGED <<file, sections, symtab>>
      BY <2>4, SymbolReadable DEF KeepSymbol
    <3>2. InTable(e.name, StringTable) /\ e \in [entry : 0..MaxVector, name : Name]
      BY <3>1, KeptSymbolType
    <3>3. StringTable' = StringTable
      BY <3>1 DEF StringTable
    <3> HIDE DEF e
    <3>4. /\ Len(symbols') = Len(symbols) + 1 /\ Len(symbols) \in Nat
          /\ \A k \in 1..Len(symbols) : symbols'[k] = symbols[k]
          /\ symbols'[Len(symbols) + 1] = e
      BY <3>1, <3>2, AppendProperties, LenProperties DEF IInv, TypeOK
    <3>5. ASSUME NEW k \in 1..(Len(symbols) + 1)
          PROVE  InTable(symbols'[k].name, StringTable)
      <4>1. CASE k \in 1..Len(symbols)
        BY <1>0, <3>4, <4>1
      <4>2. CASE k = Len(symbols) + 1
        BY <3>2, <3>4, <4>2
      <4>. QED
        BY <3>4, <4>1, <4>2
    <3>. QED
      BY <1>1, <2>1, <3>3, <3>4, <3>5, SameNames DEF NamesInTable
  <2>. QED
    BY <1>1, <2>2, <2>3, <2>4
    DEF Next, Parse, Terminating, vars, image,
        ParseHeader, RejectIdent, RejectBigEndian, AcceptIdent, RejectHeader, AcceptHeader,
        ParseSections, RejectSectionTable, ReserveSections, ReadSection, NameSections,
        ParseSegments, SkipSegments, RejectSegmentTable, AcceptSegmentTable, ReadSegment,
        SegmentsRead, ParseSymbols, NoSymbolTable, AcceptSymbolTable, SkipSymbol, SymbolsRead
<1>2. CASE AcceptHeader \/ ReadSection
  <2>1. names = << >> /\ symbols = << >> /\ UNCHANGED <<names, symbols>>
    <3>1. names = << >>
      BY <1>2 DEF AcceptHeader, ReadSection, IInv, SectionInv, AfterSections, AfterSegments
    <3>2. symbols = << >> /\ UNCHANGED <<names, symbols>>
      BY <1>2, SectionReadable DEF AcceptHeader, ReadSection, IInv, SymbolInv, image
    <3>. QED
      BY <3>1, <3>2
  <2>. QED
    BY <2>1, EmptySeq DEF NamesInTable
<1>3. CASE NameSections
  <2>1. /\ symbols = << >> /\ UNCHANGED <<file, sections, shstrndx, symbols>>
        /\ Len(names') = Len(sections)
        /\ \A k \in 1..Len(sections) :
             names'[k] = IF HasNameTable
                           THEN NameIn(sections[shstrndx + 1], sections[k].name_index)
                           ELSE NoString
    <3>1. Len(sections) \in Nat /\ pc = "sections"
      BY <1>3, LenProperties DEF NameSections, IInv, TypeOK
    <3>. QED
      BY <1>3, <3>1 DEF NameSections, IInv, SymbolInv, numbers
  <2>2. ASSUME NEW k \in 1..Len(sections), names'[k] # NoString
        PROVE  HasNameTable /\ InTable(names'[k], sections[shstrndx + 1])
    <3>1. HasNameTable /\ names'[k] = NameIn(sections[shstrndx + 1], sections[k].name_index)
      BY <2>1, <2>2
    <3>2. IsFile(file) /\ sections \in Seq(SectionHeader) /\ shstrndx \in Nat
      BY Widths DEF IInv, TypeOK
    <3>. QED
      BY <2>2, <3>1, <3>2, NamesType
  <2>. QED
    BY <2>1, <2>2, SameNames, EmptySeq DEF NamesInTable
<1>. QED
  BY <1>1, <1>2, <1>3
  DEF Next, Parse, Terminating, vars, image, numbers,
      ParseHeader, RejectIdent, RejectBigEndian, AcceptIdent, RejectHeader,
      ParseSections, RejectSectionTable, ReserveSections,
      ParseSegments, SkipSegments, RejectSegmentTable, AcceptSegmentTable, ReadSegment,
      SegmentsRead, ParseSymbols, NoSymbolTable, AcceptSymbolTable, KeepSymbol, SkipSymbol,
      SymbolsRead

(* A section's or a symbol's name does not run out of its string table,    *)
(* however large its index: elf.cpp:334 looks only as far as the table's   *)
(* end.                                                                    *)
THEOREM NamesStayInTable == Spec => []NamesInTable
<1>1. Init => NamesInTable
  BY EmptySeq DEF Init, NamesInTable
<1>. QED
  BY <1>1, NamesStep, Invariance, PTL DEF Spec

-----------------------------------------------------------------------------
(* Symbols. *)

Entries == {symbols[j].entry : j \in 1..Len(symbols)}
Ordered == \A j, k \in 1..Len(symbols) : j < k => symbols[j].entry < symbols[k].entry
Collected == /\ Entries = IF symtab = 0 THEN {} ELSE {k \in 0..(i - 1) : Exported(k)}
             /\ Ordered

LEMMA SameExported ==
  ASSUME UNCHANGED <<file, sections, symtab>>
  PROVE  \A k : Exported(k)' = Exported(k)
<1>1. StringTable' = StringTable /\ \A o : SymbolAt(o)' = SymbolAt(o)
  BY DEF StringTable, SymbolAt
<1>2. \A k : SymbolOffset(k)' = SymbolOffset(k)
  BY DEF SymbolOffset, SymSize, Is64
<1>3. \A t, x : NameIn(t, x)' = NameIn(t, x)
  BY DEF NameIn, CString, Terminators
<1>4. \A k : NameOfSymbol(k)' = NameOfSymbol(k)
  BY <1>1, <1>2, <1>3 DEF NameOfSymbol
<1>. QED
  BY <1>1, <1>2, <1>4 DEF Exported

LEMMA KeepCollects == ASSUME IInv, Collected, KeepSymbol PROVE Collected'
<1> DEFINE e == [entry |-> i, name |-> NameOfSymbol(i)]
           n == Len(symbols)
<1>1. /\ pc = "symbols" /\ i < count /\ Exported(i) /\ symbols' = Append(symbols, e)
      /\ i' = i + 1 /\ UNCHANGED <<file, sections, symtab>>
  BY SymbolReadable DEF KeepSymbol
<1>2. e \in [entry : 0..MaxVector, name : Name] /\ e.entry = i
  BY <1>1, KeptSymbolType
<1>3. symtab # 0 /\ i \in Nat /\ \A j \in 1..n : symbols[j].entry < i
  BY <1>1, Widths DEF IInv, TypeOK, SymbolInv
<1> HIDE DEF e
<1>4. /\ Len(symbols') = n + 1 /\ n \in Nat
      /\ \A j \in 1..n : symbols'[j] = symbols[j]
      /\ symbols'[n + 1] = e
  BY <1>1, <1>2, AppendProperties, LenProperties DEF IInv, TypeOK
<1> HIDE DEF n
<1>5. Entries' = Entries \cup {i}
  <2>1. Entries' = {symbols'[j].entry : j \in 1..(n + 1)}
    BY <1>4 DEF Entries
  <2>2. Entries = {symbols'[j].entry : j \in 1..n}
    BY <1>4 DEF Entries, n
  <2>3. 1..(n + 1) = (1..n) \cup {n + 1} /\ symbols'[n + 1].entry = i
    BY <1>2, <1>4
  <2>. QED
    BY <2>1, <2>2, <2>3
<1>6. Entries = {k \in 0..(i - 1) : Exported(k)}
  BY <1>3 DEF Collected
<1>7. {k \in 0..i : Exported(k)} = {k \in 0..(i - 1) : Exported(k)} \cup {i}
  BY <1>1, <1>3
<1>8. {k \in 0..(i' - 1) : Exported(k)'} = {k \in 0..i : Exported(k)}
  <2>1. i' - 1 = i
    BY <1>1, <1>3
  <2>. QED
    BY <1>1, <2>1, SameExported
<1>9. Ordered'
  <2>1. ASSUME NEW j \in 1..(n + 1), NEW k \in 1..(n + 1), j < k
        PROVE  symbols'[j].entry < symbols'[k].entry
    <3>1. j \in 1..n
      BY <1>4, <2>1
    <3>2. CASE k \in 1..n
      BY <1>4, <2>1, <3>1, <3>2 DEF Collected, Ordered, n
    <3>3. CASE k = n + 1
      BY <1>2, <1>3, <1>4, <3>1, <3>3
    <3>. QED
      BY <1>4, <3>2, <3>3
  <2>. QED
    BY <1>4, <2>1 DEF Ordered
<1>. QED
  BY <1>1, <1>3, <1>5, <1>6, <1>7, <1>8, <1>9 DEF Collected

LEMMA SkipCollects == ASSUME IInv, Collected, SkipSymbol PROVE Collected'
<1>1. /\ pc = "symbols" /\ ~Exported(i) /\ i' = i + 1
      /\ UNCHANGED <<file, sections, symtab, symbols>>
  BY DEF SkipSymbol, image
<1>2. symtab # 0 /\ i \in Nat
  BY <1>1, Widths DEF IInv, TypeOK, SymbolInv
<1>3. {k \in 0..i : Exported(k)} = {k \in 0..(i - 1) : Exported(k)}
  BY <1>1, <1>2
<1>4. {k \in 0..(i' - 1) : Exported(k)'} = {k \in 0..i : Exported(k)}
  <2>1. i' - 1 = i
    BY <1>1, <1>2
  <2>. QED
    BY <1>1, <2>1, SameExported
<1>. QED
  BY <1>1, <1>2, <1>3, <1>4 DEF Collected, Entries, Ordered

LEMMA CollectedStep == IInv /\ Collected /\ [Next]_vars => Collected'
<1> SUFFICES ASSUME IInv, Collected, [Next]_vars
             PROVE  Collected'
  OBVIOUS
<1>1. CASE UNCHANGED <<symtab, symbols>> /\ symtab = 0
  BY <1>1 DEF Collected, Entries, Ordered
<1>2. CASE UNCHANGED <<file, sections, symtab, symbols, i>>
  <2>1. {k \in 0..(i - 1) : Exported(k)'} = {k \in 0..(i - 1) : Exported(k)}
    BY <1>2, SameExported
  <2>. QED
    BY <1>2, <2>1 DEF Collected, Entries, Ordered
<1>3. CASE AcceptSymbolTable
  <2>1. i = 0 /\ symbols = << >> /\ UNCHANGED <<i, symbols>>
    BY <1>3 DEF AcceptSymbolTable, IInv, SymbolInv
  <2>2. {symbols[j].entry : j \in 1..0} = {} /\ {k \in 0..(0 - 1) : Exported(k)'} = {}
    BY SMT
  <2>3. Len(symbols) = 0
    BY <2>1
  <2>. QED
    BY <2>1, <2>2, <2>3 DEF Collected, Entries, Ordered
<1>4. CASE KeepSymbol
  BY <1>4, KeepCollects
<1>5. CASE SkipSymbol
  BY <1>5, SkipCollects
<1>6. CASE \/ AcceptHeader \/ ReadSection \/ NameSections
  <2>1. symtab = 0 /\ UNCHANGED <<symtab, symbols>>
    BY <1>6, SectionReadable
    DEF IInv, SymbolInv, AcceptHeader, ReadSection, NameSections, image
  <2>. QED
    BY <1>1, <2>1
<1>. QED
  BY <1>1, <1>2, <1>3, <1>4, <1>5, <1>6
  DEF Next, Parse, Terminating, vars, image, numbers,
      ParseHeader, RejectIdent, RejectBigEndian, AcceptIdent, RejectHeader,
      ParseSections, RejectSectionTable, ReserveSections,
      ParseSegments, SkipSegments, RejectSegmentTable, AcceptSegmentTable, ReadSegment,
      SegmentsRead, ParseSymbols, NoSymbolTable, SymbolsRead

(* The symbols of the image are exactly the exported ones of the table     *)
(* elf.cpp:414-429 prefers, in its order, each once.                       *)
THEOREM SymbolsAreTheExported == Spec => []SymbolsSoFar
<1>1. Init => Collected
  <2> SUFFICES ASSUME Init PROVE Collected
    OBVIOUS
  <2>1. symbols = << >> /\ symtab = 0 /\ Len(symbols) = 0
    BY DEF Init
  <2>2. {symbols[j].entry : j \in 1..0} = {}
    BY SMT
  <2>. QED
    BY <2>1, <2>2 DEF Collected, Entries, Ordered
<1>2. IInv /\ Collected => SymbolsSoFar
  BY SymbolTableMeans DEF IInv, TypeOK, SymbolInv, Collected, Entries, Ordered, SymbolsSoFar
<1>. QED
  BY <1>1, <1>2, CollectedStep, Invariance, PTL DEF Spec

-----------------------------------------------------------------------------
(* The verdict. *)

(* The numbers a file claims: its section headers, its program headers. *)
Claimed == IF file.shnum # 0 \/ file.shoff = 0 THEN file.shnum ELSE FirstSection.size
ClaimedSegments == IF file.phnum = Max16 /\ Claimed # 0 THEN FirstSection.info ELSE file.phnum

WellFormed ==
  /\ ~BadIdent /\ file.encoding = 1 /\ file.size >= EhSize
  /\ file.shentsize >= ShSize /\ (HasSegments => file.phentsize >= PhSize)
  /\ ClaimsFit

LEMMA ClaimsMean ==
  ClaimsFit <=> /\ file.shoff + Claimed * file.shentsize <= file.size
                /\ HasSegments => file.phoff + ClaimedSegments * file.phentsize <= file.size
BY DEF ClaimsFit, Claimed, ClaimedSegments

(* Where there is a section header at all, its numbers can be read. *)
LEMMA NumberReadable ==
  ASSUME IsFile(file), WellFormed
  PROVE  /\ Claimed \in Nat /\ Claimed <= MaxVector
         /\ Claimed * file.shentsize \in Nat
         /\ file.shoff + Claimed * file.shentsize <= file.size
         /\ Claimed # 0 /\ file.shnum = 0 /\ file.shoff # 0 => SizeField
<1>1. /\ Claimed \in Nat /\ file.shentsize \in Nat /\ 40 <= file.shentsize
      /\ file.shoff \in Nat /\ file.size \in Nat /\ file.size <= MaxVector
      /\ file.shoff + Claimed * file.shentsize <= file.size
  <2>1. FirstSection.size \in Nat
    BY RecordTypes, FieldTypes, Widths DEF FirstSection
  <2>. QED
    BY <2>1, FileType, Widths, RecordSizes, ClaimsMean DEF WellFormed, Claimed
<1>2. Claimed * 1 <= Claimed * file.shentsize /\ Claimed * file.shentsize \in Nat
  BY <1>1, Products
<1>3. ASSUME Claimed # 0 PROVE SizeField
  <2>1. file.shentsize <= Claimed * file.shentsize
    <3>1. 1 <= Claimed
      BY <1>1, <1>3
    <3>. QED
      BY <1>1, <3>1, Products
  <2>2. file.shoff + ShSize <= file.size
    BY <1>1, <1>2, <2>1, RecordSizes DEF WellFormed
  <2>3. CASE Is64
    <3>1. file.shoff + 32 \in Nat /\ file.shoff + 40 <= file.size /\ file.shoff + 32 <= MaxU64
      BY <1>1, <2>2, <2>3, Widths DEF ShSize
    <3>2. U64(file.shoff + 32) = file.shoff + 32
      BY <3>1, NoWrap
    <3>. QED
      BY <1>1, <2>3, <3>1, <3>2, InBoundsMeans DEF SizeField
  <2>4. CASE ~Is64
    <3>1. file.shoff + 20 \in Nat /\ file.shoff + 24 <= file.size /\ file.shoff + 20 <= MaxU64
      BY <1>1, <2>2, <2>4, Widths DEF ShSize
    <3>2. U64(file.shoff + 20) = file.shoff + 20
      BY <3>1, NoWrap
    <3>. QED
      BY <1>1, <2>4, <3>1, <3>2, InBoundsMeans DEF SizeField
  <2>. QED
    BY <2>3, <2>4
<1>. QED
  BY <1>1, <1>2, <1>3, Widths

LEMMA SectionTableFits ==
  ASSUME IInv, WellFormed, pc \in AfterHeader
  PROVE  /\ shnum = Claimed
         /\ TableFits(file.shoff, shnum, file.shentsize) /\ shnum <= MaxVector
<1>1. IsFile(file)
  BY DEF IInv, TypeOK
<1>2. shnum = IF file.shnum = 0 /\ file.shoff # 0 THEN ExtendedNumber ELSE file.shnum
  BY DEF IInv, SectionInv, Reached
<1>3. shnum = Claimed
  <2>1. CASE file.shnum = 0 /\ file.shoff # 0 /\ ~SizeField
    BY <1>1, <1>2, <2>1, NumberReadable DEF ExtendedNumber
  <2>2. CASE ~(file.shnum = 0 /\ file.shoff # 0) \/ SizeField
    BY <1>2, <2>2 DEF Claimed, ExtendedNumber
  <2>. QED
    BY <2>1, <2>2
<1>4. /\ shnum \in Nat /\ shnum <= MaxVector /\ file.shentsize \in Nat /\ file.shoff \in Nat
      /\ shnum * file.shentsize \in Nat /\ file.shoff + shnum * file.shentsize <= file.size
  BY <1>1, <1>3, NumberReadable, FileType, Widths
<1>5. shnum * file.shentsize <= MaxU64
  BY <1>1, <1>4, FileType, Widths
<1>. QED
  BY <1>1, <1>3, <1>4, <1>5, TableFitsMeans

LEMMA SegmentTableFits ==
  ASSUME IInv, WellFormed, pc = "segment_table", HasSegments
  PROVE  file.phentsize >= PhSize /\ TableFits(file.phoff, SegmentNumber, file.phentsize)
<1>1. /\ IsFile(file) /\ sections \in Seq(SectionHeader)
      /\ Len(sections) = shnum /\ shnum = Claimed
  <2>1. pc \in AfterHeader /\ pc \in AfterSections
    BY DEF AfterHeader, AfterTable, AfterSections
  <2>. QED
    BY <2>1, SectionTableFits DEF IInv, TypeOK, SectionInv, Reached
<1>2. sections # << >> => sections[1] = FirstSection
  <2> SUFFICES ASSUME sections # << >> PROVE sections[1] = FirstSection
    OBVIOUS
  <2>1. 1 \in 1..Len(sections)
    BY <1>1, EmptySeq
  <2>2. sections[1] = SectionAt(SectionOffset(1 - 1))
    BY <2>1 DEF IInv, SectionInv
  <2>3. SectionOffset(1 - 1) = file.shoff
    <3>1. file.shoff \in Nat /\ file.shoff <= MaxU64 /\ file.shentsize \in Nat
      <4>1. file.shoff \in 0..MaxU64 /\ file.shentsize \in 0..Max16
        BY <1>1, FileType
      <4>. QED
        BY <4>1, Widths
    <3>2. U64(file.shoff) = file.shoff
      BY <3>1, NoWrap
    <3>3. file.shoff + (1 - 1) * file.shentsize = file.shoff
      BY <3>1
    <3>. QED
      BY <3>2, <3>3 DEF SectionOffset
  <2>. QED
    BY <2>2, <2>3 DEF FirstSection
<1>3. Claimed # 0 <=> sections # << >>
  BY <1>1, EmptySeq
<1>4. SegmentNumber = ClaimedSegments
  BY <1>2, <1>3 DEF SegmentNumber, ClaimedSegments
<1>5. file.phoff + SegmentNumber * file.phentsize <= file.size
  BY <1>4, ClaimsMean DEF WellFormed
<1>6. SegmentNumber \in Nat /\ file.phentsize \in Nat /\ file.phoff \in Nat
  BY <1>1, SegmentNumberType, FileType, Widths
<1>. QED
  BY <1>1, <1>5, <1>6, SegmentNumberType, TableFitsMeans DEF WellFormed

LEMMA SameClaims ==
  ASSUME UNCHANGED file
  PROVE  WellFormed' = WellFormed
<1>1. /\ EhSize' = EhSize /\ ShSize' = ShSize /\ PhSize' = PhSize
      /\ HasSegments' = HasSegments /\ BadIdent' = BadIdent
  BY SameFile DEF EhSize, Is64, BadIdent
<1>2. Claimed' = Claimed /\ ClaimedSegments' = ClaimedSegments /\ FirstSection' = FirstSection
  BY SameFile DEF Claimed, ClaimedSegments, FirstSection
<1>3. ClaimsFit' = ClaimsFit
  BY <1>1, <1>2, SameFile DEF ClaimsFit, FirstSection
<1>. QED
  BY <1>1, <1>3 DEF WellFormed

LEMMA VerdictStep == IInv /\ AcceptsWellFormed /\ [Next]_vars => AcceptsWellFormed'
<1>1. SUFFICES ASSUME IInv, WellFormed, status \in {"running", "ok"}, [Next]_vars
               PROVE  status' \in {"running", "ok"}
  <2>1. [Next]_vars => UNCHANGED file
    BY DEF Next, Parse, Terminating, vars, image, numbers,
       ParseHeader, RejectIdent, RejectBigEndian, AcceptIdent, RejectHeader, AcceptHeader,
       ParseSections, RejectSectionTable, ReserveSections, ReadSection, NameSections,
       ParseSegments, SkipSegments, RejectSegmentTable, AcceptSegmentTable, ReadSegment,
       SegmentsRead, ParseSymbols, NoSymbolTable, AcceptSymbolTable, KeepSymbol, SkipSymbol,
       SymbolsRead
  <2>. QED
    BY <2>1, SameClaims DEF AcceptsWellFormed, WellFormed
<1> USE DEF Return, Goto
<1>2. CASE ParseHeader
  <2>1. ~BadIdent /\ file.encoding = 1 /\ ~(file.size < EhSize)
    <3>1. IsFile(file)
      BY <1>1 DEF IInv, TypeOK
    <3>2. file.size \in Nat /\ EhSize \in {52, 64}
      BY <3>1, FileType, RecordSizes
    <3>3. ~BadIdent /\ file.encoding = 1 /\ file.size >= EhSize
      BY <1>1 DEF WellFormed
    <3>. QED
      BY <3>2, <3>3
  <2>. QED
    BY <1>1, <1>2, <2>1 DEF ParseHeader, RejectIdent, RejectBigEndian, AcceptIdent, RejectHeader,
                            AcceptHeader
<1>3. CASE ParseSections
  <2>1. pc \in AfterHeader
    BY <1>3 DEF ParseSections, RejectSectionTable, ReserveSections, ReadSection, NameSections,
                AfterHeader, AfterTable
  <2>2. file.shentsize >= ShSize /\ TableFits(file.shoff, shnum, file.shentsize)
        /\ shnum <= MaxVector
    BY <1>1, <2>1, SectionTableFits DEF WellFormed
  <2>3. ~(file.shentsize < ShSize)
    <3>1. IsFile(file)
      BY <1>1 DEF IInv, TypeOK
    <3>2. file.shentsize \in 0..Max16 /\ ShSize \in {40, 64}
      BY <3>1, FileType, RecordSizes
    <3>. QED
      BY <2>2, <3>2
  <2>. QED
    BY <1>1, <1>3, <2>2, <2>3, SectionReadable
    DEF ParseSections, RejectSectionTable, ReserveSections, ReadSection, NameSections
<1>4. CASE ParseSegments
  <2>1. ~RejectSegmentTable
    <3>1. CASE pc = "segment_table" /\ HasSegments
      <4>1. file.phentsize >= PhSize /\ TableFits(file.phoff, SegmentNumber, file.phentsize)
        BY <1>1, <3>1, SegmentTableFits
      <4>2. IsFile(file)
        BY <1>1 DEF IInv, TypeOK
      <4>3. file.phentsize \in 0..Max16 /\ PhSize \in {32, 56}
        BY <4>2, FileType, RecordSizes
      <4>4. ~(file.phentsize < PhSize)
        BY <4>1, <4>3
      <4>. QED
        BY <4>1, <4>4 DEF RejectSegmentTable
    <3>. QED
      BY <3>1 DEF RejectSegmentTable
  <2>. QED
    BY <1>1, <1>4, <2>1, SegmentReadable
    DEF ParseSegments, SkipSegments, AcceptSegmentTable, ReadSegment, SegmentsRead
<1>5. CASE ParseSymbols
  BY <1>1, <1>5 DEF ParseSymbols, NoSymbolTable, AcceptSymbolTable, KeepSymbol, SkipSymbol,
                    SymbolsRead, image
<1>6. CASE UNCHANGED vars
  BY <1>1, <1>6 DEF vars
<1>. QED
  BY <1>1, <1>2, <1>3, <1>4, <1>5, <1>6 DEF Next, Parse, Terminating

(* No check rejects a file whose tables fit, not even exactly, wherever it *)
(* stores their numbers: those read from section header 0 by elf.cpp are   *)
(* the claimed ones, or none was claimed.                                  *)
THEOREM WellFormedAccepted == Spec => []AcceptsWellFormed
<1>1. Init => AcceptsWellFormed
  BY DEF Init, AcceptsWellFormed
<1>. QED
  BY <1>1, VerdictStep, Invariance, PTL DEF Spec

=============================================================================
