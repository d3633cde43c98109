----------------------------- MODULE PeProofs ------------------------------
(***************************************************************************)
(* What Pe's pass does with every file and every width of the integers,    *)
(* proved: the reads behind a check succeed though the offsets wrap, the   *)
(* strings of the image are in the file, its tables are complete, and a    *)
(* file is accepted exactly when it holds everything it refers to.         *)
(***************************************************************************)
EXTENDS Pe, SequenceTheorems, WellFoundedInduction, TLAPS

-----------------------------------------------------------------------------
(* Numbers. *)

LEMMA Remainder ==
  ASSUME NEW n \in Nat, NEW k \in Nat \ {0}
  PROVE  /\ n % k \in 0..(k - 1)
         /\ n < k => n % k = n
         /\ n >= k /\ n < 2 * k => n % k = n - k
<1>1. /\ n % k \in 0..(k - 1)
      /\ n = k * (n \div k) + (n % k)
      /\ n \div k \in Nat
  OBVIOUS
<1>2. n \div k >= 2 => n >= 2 * k
  <2>1. ASSUME n \div k >= 2 PROVE n >= 2 * k
    <3>1. PICK m \in Nat : n \div k = m + 2
      <4>1. (n \div k) - 2 \in Nat /\ n \div k = ((n \div k) - 2) + 2
        BY <1>1, <2>1
      <4>. QED
        BY <4>1
    <3>2. k * (m + 2) = k * m + 2 * k /\ k * m \in Nat
      BY SMT
    <3>. QED
      BY <1>1, <3>1, <3>2
  <2>. QED
    BY <2>1
<1>3. n \div k = 1 => n % k = n - k
  BY <1>1
<1>4. n \div k = 0 => n % k = n
  BY <1>1
<1>5. n \div k = 0 \/ n \div k = 1 \/ n \div k >= 2
  BY <1>1
<1>. QED
  BY <1>1, <1>2, <1>3, <1>4, <1>5

(* What the widths of the integers say of one another. *)
LEMMA Widths ==
  /\ Word \in Nat /\ Max16 \in Nat /\ Max64 \in Nat /\ MaxName \in Nat
  /\ 240 <= Max16 /\ Max16 < Word
  /\ Word * 200 <= Max64
<1> USE WidthAssumption
<1>1. PICK d \in Nat : Word = d + 241
  <2>1. Word - 241 \in Nat /\ Word = (Word - 241) + 241
    OBVIOUS
  <2>. QED
    BY <2>1
<1>2. Word * Word = Word * d + Word * 241 /\ Word * d \in Nat
  BY <1>1
<1>. QED
  BY <1>2 DEF Max64

LEMMA Wrapped ==
  ASSUME NEW n \in Nat
  PROVE  /\ U16(n) \in 0..Max16
         /\ U32(n) \in 0..(Word - 1)
         /\ n < Word => U32(n) = n
         /\ n >= Word /\ n < 2 * Word => U32(n) = n - Word
<1>1. Max16 + 1 \in Nat \ {0} /\ Word \in Nat \ {0}
  BY Widths
<1>2. U16(n) \in 0..Max16
  BY <1>1, Remainder, Widths DEF U16
<1>. QED
  BY <1>1, <1>2, Remainder DEF U32

LEMMA Difference ==
  ASSUME NEW a \in 0..Max64, NEW b \in Nat
  PROVE  SizeSub(a, b) \in Nat /\ (b <= a => SizeSub(a, b) = a - b)
<1>1. a - b \in Int /\ Max64 + 1 \in Nat \ {0}
  BY Widths
<1>2. SizeSub(a, b) \in Nat
  BY <1>1 DEF SizeSub
<1>3. ASSUME b <= a PROVE SizeSub(a, b) = a - b
  <2>1. a - b \in Nat /\ a - b < Max64 + 1
    BY <1>1, <1>3, Widths
  <2>. QED
    BY <1>1, <2>1, Remainder DEF SizeSub
<1>. QED
  BY <1>2, <1>3

-----------------------------------------------------------------------------
(* What can be read of a file. *)

LEMMA FileType ==
  ASSUME IsFile(file)
  PROVE  /\ file.size \in Nat /\ file.size < Word /\ file.size \in 0..Max64
         /\ file.lfanew \in Nat /\ file.lfanew < Word
         /\ file.section_count \in Nat /\ file.opt_size \in Nat /\ file.dir_count \in Nat
         /\ file.section_count <= Max16 /\ file.dir_count < Word
         /\ \A z \in file.zeros : z \in Nat /\ z < file.size
BY Widths DEF IsFile

LEMMA Integers64 ==
  ASSUME IsFile(file)
  PROVE  \A o : At(o) \in 0..Max64 /\ U16At(o) \in 0..Max16 /\ U32At(o) \in 0..(Word - 1)
<1>1. \A o : At(o) \in 0..Max64
  BY Widths DEF At, IsFile
<1>2. \A o : At(o) \in Nat
  BY <1>1, Widths
<1>. QED
  BY <1>1, <1>2, Wrapped DEF U16At, U32At

LEMMA InBoundsMeans ==
  ASSUME IsFile(file), NEW o \in Nat, NEW n \in Nat
  PROVE  InBounds(o, n) <=> o + n <= file.size
<1>1. CASE o <= file.size
  BY <1>1, FileType, Difference DEF InBounds
<1>2. CASE ~(o <= file.size)
  BY <1>2, FileType DEF InBounds
<1>. QED
  BY <1>1, <1>2

LEMMA Offsets ==
  ASSUME IsFile(file)
  PROVE  /\ CoffOffset \in Nat /\ OptionalOffset \in Nat /\ DirOffset - 4 \in Nat /\ DirOffset \in Nat
         /\ \A k \in Nat : SectionOffset(k) \in Nat /\ SectionOffset(k) = SectionOffset(0) + k * 40
         /\ file.lfanew + 4 < Word => CoffOffset = file.lfanew + 4
<1>1. /\ CoffOffset \in Nat
      /\ file.lfanew + 4 < Word => CoffOffset = file.lfanew + 4
  BY FileType, Wrapped, Widths DEF CoffOffset
<1>. QED
  BY <1>1, FileType DEF OptionalOffset, DirOffset, SectionOffset

LEMMA LeastExists ==
  ASSUME NEW T, T \subseteq Nat, T # {}
  PROVE  \E z \in T : \A y \in T : z <= y
<1> DEFINE R == OpToRel(<, Nat)
<1>1. IsWellFoundedOn(R, Nat)
  BY NatLessThanWellFounded
<1>2. \A y, z \in Nat : y < z => <<y, z>> \in R
  BY DEF OpToRel
<1> HIDE DEF R
<1>3. PICK z \in T : \A y \in T : <<y, z>> \notin R
  BY <1>1, WFMin
<1>4. z \in Nat /\ \A y \in T : y \in Nat /\ ~(y < z)
  BY <1>2, <1>3, Zenon
<1>. QED
  BY <1>4

(* There is a string where a zero byte is near enough; it ends at the      *)
(* first of them.                                                          *)
LEMMA CStringMeans ==
  ASSUME IsFile(file), NEW o \in Nat
  PROVE  /\ HasString(o) <=> CString(o, MaxName) # NoString
         /\ HasString(o) => IsString(CString(o, MaxName)) /\ CString(o, MaxName) \in String
<1> DEFINE T == Terminators(o, MaxName)
           z == CHOOSE x \in T : \A y \in T : x <= y
<1>1. HasString(o) <=> T # {}
  <2>1. o # nullopt
    BY DEF nullopt
  <2>. QED
    BY <2>1, FileType DEF HasString, Terminators
<1>2. \A x \in T : x \in file.zeros /\ x \in Nat /\ x - o \in 0..(MaxName - 1) /\ x < file.size
  BY FileType DEF Terminators
<1>3. \A x \in file.zeros : x - o \in 0..(MaxName - 1) => x \in T
  BY FileType DEF Terminators
<1>4. CString(o, MaxName) = IF o >= file.size \/ T = {} THEN NoString ELSE <<o, z>>
  BY DEF CString
<1>5. <<o, z>> # NoString
  BY DEF NoString
<1> HIDE DEF T
<1>6. ASSUME T # {} PROVE z \in T /\ \A y \in T : z <= y
  <2>1. T \subseteq Nat
    BY <1>2
  <2>2. \E x \in T : \A y \in T : x <= y
    BY <1>6, <2>1, LeastExists
  <2>. QED
    BY <2>2
<1> HIDE DEF z
<1>7. ASSUME T # {} PROVE o < file.size /\ IsString(<<o, z>>) /\ <<o, z>> \in String
  <2>1. /\ z \in Nat /\ z - o \in 0..(MaxName - 1) /\ z < file.size
        /\ \A y \in T : z <= y
    BY <1>2, <1>6, <1>7
  <2>2. o <= z /\ z - o < MaxName
    BY <2>1, Widths
  <2>3. \A y \in file.zeros : y >= o => y >= z
    <3> SUFFICES ASSUME NEW y \in file.zeros, y >= o, ~(y >= z) PROVE FALSE
      OBVIOUS
    <3>1. y \in Nat /\ y < z /\ y - o \in 0..(MaxName - 1)
      BY <2>1, <2>2, FileType, Widths
    <3>. QED
      BY <1>3, <2>1, <3>1
  <2>4. IsString(<<o, z>>)
    BY <1>5, <2>1, <2>2, <2>3 DEF IsString
  <2>5. o \in 0..(Word - 1) /\ z \in 0..(Word - 1)
    BY <2>1, <2>2, FileType, Widths
  <2>. QED
    BY <2>1, <2>2, <2>4, <2>5, FileType DEF String
<1>8. CASE T = {}
  BY <1>1, <1>4, <1>8
<1>9. CASE T # {}
  <2>1. ~(o >= file.size)
    BY <1>7, <1>9, FileType
  <2>. QED
    BY <1>1, <1>4, <1>5, <1>7, <1>9, <2>1
<1>. QED
  BY <1>8, <1>9

-----------------------------------------------------------------------------
(* The parts of the pass behind a check.  A call that rejects the exports  *)
(* or the imports has been through those in front of them.                 *)
AfterExports == {"imports", "thunks"}
AfterSections == AfterExports \cup {"exports", "names"}
AfterHeaders == AfterSections \cup {"sections"}
ExportsPassed == pc \in AfterExports \/ status \in {"ok", "bad_imports"}
SectionsPassed == pc \in AfterSections \/ status \in {"ok", "bad_imports", "bad_exports"}
HeadersPassed == pc = "sections" \/ SectionsPassed

(* What the headers have been checked for, and what is taken from them.    *)
HeaderInv ==
  /\ pc \in {"dos", "nt", "optional"} => sections = << >>
  /\ pc \in {"nt", "optional"} => ~BadDos
  /\ pc = "optional" => ~BadSignature
  /\ HeadersPassed => HeadersFit /\ Len(sections) <= file.section_count
  /\ SectionsPassed => Len(sections) = file.section_count /\ dir_count = Directories
  /\ status = "bad_headers" => ~HeadersFit

(* The export directory has been read, and its arrays are in the file.     *)
DirectoryRead == /\ ExportRva # 0 /\ DirectoryFits(ExportOffset)
                 /\ directory = DirectoryAt(ExportOffset) /\ ArraysFit(directory)

(* An export is the one of its name, in order.                             *)
ExportInv ==
  /\ pc \in {"dos", "nt", "optional", "sections", "exports"} => exports = << >>
  /\ pc = "names" \/ exports # << >> => DirectoryRead /\ Len(exports) <= directory.num_names
  /\ ExportsPassed /\ ExportRva # 0 => DirectoryRead /\ Len(exports) = directory.num_names
  /\ \A k \in 1..Len(exports) : GoodExport(k - 1) /\ exports[k] = ExportOf(k - 1)
  /\ ExportsPassed => ExportsFit
  /\ status = "bad_exports" => ~ExportsFit

(* The functions are those of the thunks at t, all in the file.            *)
FunctionsRead(t, functions) ==
  \A m \in 1..Len(functions) :
    /\ t + PlaceOf(m) <= file.size
    /\ ThunkValue(t, m - 1) # 0 /\ GoodThunk(ThunkValue(t, m - 1))
    /\ functions[m] = ImportOf(ThunkValue(t, m - 1))

(* There is a descriptor for the k-th module, and it is m's.               *)
ModuleRead(k, m) ==
  /\ ImportRva # 0 /\ ImportOffset # nullopt /\ InBounds(Descriptor(k), 20)
  /\ ~IsLast(Descriptor(k)) /\ GoodModule(ModuleAt(Descriptor(k)))
  /\ m.name = ModuleAt(Descriptor(k)).name
  /\ FunctionsRead(Thunks(k), m.functions)

(* A zero thunk, in the file, is behind the n-th.                          *)
Ended(t, n) == t + PlaceOf(n + 1) <= file.size /\ ThunkValue(t, n) = 0

ImportInv ==
  /\ pc \notin {"imports", "thunks", "done"} => imports = << >>
  /\ pc \notin {"thunks", "done"} => module = NoModule
  /\ pc = "thunks" \/ module # NoModule =>
       /\ ModuleRead(Len(imports), module)
       /\ module.thunks = Thunks(Len(imports))
  /\ \A k \in 1..Len(imports) : /\ ModuleRead(k - 1, imports[k])
                                /\ Ended(Thunks(k - 1), Len(imports[k].functions))
  /\ status = "ok" /\ ImportRva # 0 =>
       ImportOffset # nullopt /\ InBounds(Current, 20) /\ IsLast(Current)
  /\ status = "bad_imports" => ~ImportsFit

IInv == /\ TypeOK
        /\ (pc = "done" <=> status # "running")
        /\ ValidatedReadsSucceed
        /\ HeaderInv
        /\ ExportInv
        /\ ImportInv

-----------------------------------------------------------------------------
(* The types of what is read of the file, and of the image. *)

LEMMA ElementOf ==
  ASSUME NEW S, NEW s \in Seq(S), NEW k \in 1..Len(s)
  PROVE  s[k] \in S
OBVIOUS

LEMMA SectionType ==
  ASSUME IsFile(file)
  PROVE  \A o : SectionAt(o) \in Section
BY Integers64 DEF SectionAt, Section

LEMMA OffsetType ==
  ASSUME sections \in Seq(Section), NEW rva \in 0..(Word - 1)
  PROVE  RvaToOffset[rva] \in -1..(Word - 1)
<1> DEFINE C == {k \in DOMAIN sections : Covers(sections[k], rva)}
           s == sections[CHOOSE k \in C : \A m \in C : k <= m]
           offset == s.raw_offset + (rva - s.virtual_address)
<1>1. RvaToOffset[rva] = IF C = {} THEN nullopt ELSE IF offset < Word THEN offset ELSE nullopt
  BY DEF RvaToOffset
<1>2. CASE C = {}
  BY <1>1, <1>2, Widths DEF nullopt
<1>3. CASE C # {}
  <2>1. DOMAIN sections = 1..Len(sections) /\ Len(sections) \in Nat
    OBVIOUS
  <2>2. C \subseteq Nat /\ \A k \in C : k \in 1..Len(sections) /\ Covers(sections[k], rva)
    BY <2>1
  <2> HIDE DEF C
  <2>3. \E k \in C : \A m \in C : k <= m
    BY <1>3, <2>2, LeastExists
  <2>4. PICK k \in C : s = sections[k]
    BY <2>3
  <2> HIDE DEF s
  <2>5. s \in Section /\ Covers(s, rva)
    BY <2>2, <2>4, ElementOf
  <2>6. s.raw_offset \in 0..(Word - 1) /\ s.virtual_address \in 0..(Word - 1)
        /\ rva >= s.virtual_address
    BY <2>5 DEF Section, Covers
  <2>7. offset \in Nat
    BY <2>6, Widths
  <2>. QED
    BY <1>1, <2>7, Widths DEF nullopt
<1>. QED
  BY <1>2, <1>3

LEMMA NoStringType == NoString \in String
BY EmptySeq DEF NoString, String

(* The string at an address is there when its offset has one. *)
LEMMA StringAtMeans ==
  ASSUME IsFile(file), sections \in Seq(Section), NEW rva \in 0..(Word - 1)
  PROVE  /\ StringAt(rva) \in String
         /\ StringAt(rva) # NoString <=> HasString(RvaToOffset[rva])
         /\ StringAt(rva) # NoString => IsString(StringAt(rva))
<1> DEFINE o == RvaToOffset[rva]
<1>1. o \in -1..(Word - 1)
  BY OffsetType
<1>2. StringAt(rva) = IF o = nullopt THEN NoString ELSE CString(o, MaxName)
  BY DEF StringAt
<1> HIDE DEF o
<1>3. CASE o = nullopt
  <2>1. ~HasString(o)
    BY <1>3 DEF HasString
  <2>. QED
    BY <1>2, <1>3, <2>1, NoStringType DEF o
<1>4. CASE o # nullopt
  <2>1. o \in Nat
    BY <1>1, <1>4, Widths DEF nullopt
  <2>2. HasString(o) <=> CString(o, MaxName) # NoString
    BY <2>1, CStringMeans
  <2>3. HasString(o) => IsString(CString(o, MaxName)) /\ CString(o, MaxName) \in String
    BY <2>1, CStringMeans
  <2>. QED
    BY <1>2, <1>4, <2>2, <2>3, NoStringType DEF o
<1>. QED
  BY <1>3, <1>4

LEMMA AddressType ==
  ASSUME IsFile(file), dir_count \in 0..(Word - 1)
  PROVE  /\ ExportRva \in 0..(Word - 1) /\ ImportRva \in 0..(Word - 1)
         /\ \A d : DirectorySize(d) \in 0..(Word - 1)
BY Integers64, Widths DEF ExportRva, ImportRva, DirectoryRva, DirectorySize

LEMMA DirectoryType ==
  ASSUME IsFile(file), sections \in Seq(Section), NEW o
  PROVE  /\ DOMAIN DirectoryAt(o) = DOMAIN NoDirectory
         /\ \A x \in DOMAIN DirectoryAt(o) : DirectoryAt(o)[x] \in -1..(Word - 1)
         /\ DirectoryAt(o).base \in 0..(Word - 1)
         /\ DirectoryAt(o).num_functions \in 0..(Word - 1)
         /\ DirectoryAt(o).num_names \in 0..(Word - 1)
         /\ DirectoryAt(o).functions \in -1..(Word - 1)
         /\ DirectoryAt(o).names \in -1..(Word - 1)
         /\ DirectoryAt(o).ordinals \in -1..(Word - 1)
<1>1. \A p : U32At(p) \in 0..(Word - 1)
  BY Integers64
<1>2. \A p : RvaToOffset[U32At(p)] \in -1..(Word - 1)
  BY <1>1, OffsetType
<1>3. 0..(Word - 1) \subseteq -1..(Word - 1)
  BY Widths
<1>4. DOMAIN DirectoryAt(o) = {"base", "num_functions", "num_names", "functions", "names", "ordinals"}
  BY DEF DirectoryAt
<1>5. DOMAIN NoDirectory = {"base", "num_functions", "num_names", "functions", "names", "ordinals"}
  BY DEF NoDirectory
<1>6. /\ DirectoryAt(o).base \in 0..(Word - 1)
      /\ DirectoryAt(o).num_functions \in 0..(Word - 1)
      /\ DirectoryAt(o).num_names \in 0..(Word - 1)
  BY <1>1 DEF DirectoryAt
<1>7. /\ DirectoryAt(o).functions \in -1..(Word - 1)
      /\ DirectoryAt(o).names \in -1..(Word - 1)
      /\ DirectoryAt(o).ordinals \in -1..(Word - 1)
  BY <1>2 DEF DirectoryAt
<1>. QED
  BY <1>3, <1>4, <1>5, <1>6, <1>7, Zenon

LEMMA ModuleType ==
  ASSUME IsFile(file), sections \in Seq(Section), NEW o
  PROVE  /\ ModuleAt(o) \in [name : String, thunks : -1..(Word - 1), functions : Seq(ImportFunction)]
         /\ ModuleAt(o).functions = << >>
         /\ ModuleAt(o).thunks = nullopt \/ ModuleAt(o).thunks \in 0..(Word - 1)
<1>1. \A p : U32At(p) \in 0..(Word - 1)
  BY Integers64
<1>2. \A p : RvaToOffset[U32At(p)] \in -1..(Word - 1) /\ StringAt(U32At(p)) \in String
  BY <1>1, OffsetType, StringAtMeans
<1>3. RvaToOffset[IF U32At(o) # 0 THEN U32At(o) ELSE U32At(o + 16)] \in -1..(Word - 1)
  BY <1>2
<1>4. \A n \in -1..(Word - 1) : n = nullopt \/ n \in 0..(Word - 1)
  BY Widths DEF nullopt
<1>5. << >> \in Seq(ImportFunction)
  BY EmptySeq
<1>. QED
  BY <1>2, <1>3, <1>4, <1>5 DEF ModuleAt

LEMMA ThunkType ==
  ASSUME IsFile(file)
  PROVE  \A o : Thunk(o) \in 0..Max64
<1>1. 0..(Word - 1) \subseteq 0..Max64
  BY Widths
<1>. QED
  BY <1>1, Integers64 DEF Thunk

(* An imported function has its ordinal, or a name behind its hint. *)
LEMMA ImportMeans ==
  ASSUME IsFile(file), sections \in Seq(Section), NEW thunk \in 0..Max64
  PROVE  /\ ImportOf(thunk) \in ImportFunction
         /\ GoodThunk(thunk) <=> ThunkHolds(thunk)
         /\ GoodThunk(thunk) => ImportOf(thunk).by_ordinal \/ IsString(ImportOf(thunk).name)
<1> DEFINE h == HintOffset(thunk)
<1>1. U32(thunk) \in 0..(Word - 1) /\ U16(thunk) \in 0..Max16
  <2>1. thunk \in Nat
    BY Widths
  <2>. QED
    BY <2>1, Wrapped
<1>2. h \in -1..(Word - 1)
  BY <1>1, OffsetType DEF HintOffset
<1>3. /\ ImportName(thunk) \in String
      /\ ImportName(thunk) # NoString <=> Fits(h, 3) /\ HasString(h + 2)
      /\ ImportName(thunk) # NoString => IsString(ImportName(thunk))
  <2>1. ImportName(thunk) = IF h = nullopt THEN NoString ELSE IF ~InBounds(h, 3) THEN NoString
                            ELSE CString(U32(h + 2), MaxName)
    BY DEF ImportName
  <2> HIDE DEF h
  <2>2. CASE h = nullopt
    BY <2>1, <2>2, NoStringType DEF Fits
  <2>3. CASE h # nullopt
    <3>1. h \in Nat /\ h + 2 \in Nat
      BY <1>2, <2>3, Widths DEF nullopt
    <3>2. InBounds(h, 3) <=> Fits(h, 3)
      BY <2>3, <3>1, InBoundsMeans DEF Fits
    <3>3. Fits(h, 3) => U32(h + 2) = h + 2
      <4>1. Fits(h, 3) => h + 2 < Word
        BY <3>1, FileType, Widths DEF Fits
      <4>. QED
        BY <3>1, <4>1, Wrapped
    <3>4. HasString(h + 2) <=> CString(h + 2, MaxName) # NoString
      BY <3>1, CStringMeans
    <3>5. HasString(h + 2) => IsString(CString(h + 2, MaxName)) /\ CString(h + 2, MaxName) \in String
      BY <3>1, CStringMeans
    <3>. QED
      BY <2>1, <2>3, <3>2, <3>3, <3>4, <3>5, NoStringType
  <2>. QED
    BY <2>2, <2>3
<1>4. GoodThunk(thunk) <=> ThunkHolds(thunk)
  BY <1>3 DEF GoodThunk, ThunkHolds
<1>5. ImportOf(thunk) \in ImportFunction
  BY <1>1, <1>3, Integers64, NoStringType DEF ImportOf, ImportFunction
<1>6. GoodThunk(thunk) => ImportOf(thunk).by_ordinal \/ IsString(ImportOf(thunk).name)
  BY <1>3 DEF GoodThunk, ImportOf
<1>. QED
  BY <1>4, <1>5, <1>6

LEMMA PlaceMeans ==
  ASSUME NEW n \in Nat
  PROVE  /\ PlaceOf(n) \in Nat /\ n <= PlaceOf(n) /\ PlaceOf(0) = 0
         /\ ThunkSize \in {4, 8}
         /\ PlaceOf(n) = n * ThunkSize /\ PlaceOf(n + 1) = PlaceOf(n) + ThunkSize
<1>1. CASE Is64
  BY <1>1 DEF PlaceOf, ThunkSize
<1>2. CASE ~Is64
  BY <1>2 DEF PlaceOf, ThunkSize
<1>. QED
  BY <1>1, <1>2

-----------------------------------------------------------------------------
(* What is read of a file does not depend on the state of the call, and    *)
(* what is mapped depends on the sections and directories alone.           *)

LEMMA SameFile ==
  ASSUME UNCHANGED file
  PROVE  /\ BadDos' = BadDos /\ BadSignature' = BadSignature
         /\ HeadersFit' = HeadersFit /\ Directories' = Directories
         /\ DirOffset' = DirOffset
         /\ \A o, n : InBounds(o, n)' = InBounds(o, n)
         /\ \A n : IsString(n)' = IsString(n)
<1>1. /\ CoffOffset' = CoffOffset /\ OptionalOffset' = OptionalOffset /\ DirOffset' = DirOffset
      /\ \A o, n : InBounds(o, n)' = InBounds(o, n)
  BY DEF CoffOffset, OptionalOffset, DirOffset, Is64, InBounds
<1>2. BadSignature' = BadSignature /\ BadDos' = BadDos
  BY <1>1 DEF BadSignature, BadDos
<1>3. HeadersFit' = HeadersFit /\ Directories' = Directories
  BY <1>1 DEF HeadersFit, Directories
<1>. QED
  BY <1>1, <1>2, <1>3 DEF IsString

Tables == <<file, sections, dir_count>>

LEMMA SameReads ==
  ASSUME UNCHANGED Tables
  PROVE  /\ Is64' = Is64
         /\ ExportRva' = ExportRva /\ ImportRva' = ImportRva
         /\ ExportOffset' = ExportOffset /\ ImportOffset' = ImportOffset
         /\ RvaToOffset' = RvaToOffset
         /\ \A o : At(o)' = At(o) /\ U16At(o)' = U16At(o) /\ U32At(o)' = U32At(o)
         /\ \A o, n : InBounds(o, n)' = InBounds(o, n)
         /\ \A o, n : Fits(o, n)' = Fits(o, n)
         /\ \A o : HasString(o)' = HasString(o)
         /\ \A o, n : CString(o, n)' = CString(o, n)
         /\ \A rva : StringAt(rva)' = StringAt(rva)
         /\ \A d : DirectorySize(d)' = DirectorySize(d)
<1> USE DEF Tables
<1>1. \A o : At(o)' = At(o) /\ U16At(o)' = U16At(o) /\ U32At(o)' = U32At(o)
  BY DEF At, U16At, U32At
<1>2. Is64' = Is64 /\ DirOffset' = DirOffset
  BY DEF Is64, DirOffset, OptionalOffset, CoffOffset
<1>3. /\ ExportRva' = ExportRva /\ ImportRva' = ImportRva
      /\ \A d : DirectorySize(d)' = DirectorySize(d)
  BY <1>1, <1>2 DEF ExportRva, ImportRva, DirectoryRva, DirectorySize
<1>4. RvaToOffset' = RvaToOffset
  BY DEF RvaToOffset, Covers, VirtualEnd
<1>5. ExportOffset' = ExportOffset /\ ImportOffset' = ImportOffset
  BY <1>3, <1>4 DEF ExportOffset, ImportOffset
<1>6. /\ \A o, n : InBounds(o, n)' = InBounds(o, n)
      /\ \A o, n : Fits(o, n)' = Fits(o, n)
      /\ \A o : HasString(o)' = HasString(o)
      /\ \A o, n : CString(o, n)' = CString(o, n)
  BY DEF InBounds, Fits, HasString, CString, Terminators
<1>7. \A rva : StringAt(rva)' = StringAt(rva)
  BY <1>4, <1>6 DEF StringAt
<1>. QED
  BY <1>1, <1>2, <1>3, <1>4, <1>5, <1>6, <1>7

LEMMA SameExports ==
  ASSUME UNCHANGED Tables
  PROVE  /\ \A o : DirectoryFits(o)' = DirectoryFits(o) /\ DirectoryAt(o)' = DirectoryAt(o)
         /\ \A d : ArraysFit(d)' = ArraysFit(d)
         /\ ExportsFit' = ExportsFit
         /\ UNCHANGED directory =>
              /\ DirectoryRead' = DirectoryRead
              /\ \A k : GoodExport(k)' = GoodExport(k) /\ ExportOf(k)' = ExportOf(k)
<1> USE SameReads
<1>1. /\ \A o : DirectoryFits(o)' = DirectoryFits(o) /\ DirectoryAt(o)' = DirectoryAt(o)
      /\ \A d : ArraysFit(d)' = ArraysFit(d)
  BY DEF DirectoryFits, DirectoryAt, ArraysFit
<1>2. \A d : ArraysHold(d)' = ArraysHold(d)
  BY DEF ArraysHold
<1>3. ExportsFit' = ExportsFit
  BY <1>1, <1>2 DEF ExportsFit
<1>4. ASSUME UNCHANGED directory
      PROVE  /\ DirectoryRead' = DirectoryRead
             /\ \A k : GoodExport(k)' = GoodExport(k) /\ ExportOf(k)' = ExportOf(k)
  <2>1. DirectoryRead' = DirectoryRead
    BY <1>1, <1>4 DEF DirectoryRead
  <2>2. \A k : OrdinalIndex(k)' = OrdinalIndex(k) /\ ExportName(k)' = ExportName(k)
    BY <1>4 DEF OrdinalIndex, OrdinalEntry, ExportName, NameEntry
  <2>3. \A k : FunctionEntry(k)' = FunctionEntry(k) /\ Ordinal(k)' = Ordinal(k)
               /\ Forwarded(k)' = Forwarded(k)
    BY <1>4 DEF FunctionEntry, Ordinal, Forwarded
  <2>4. \A k : GoodExport(k)' = GoodExport(k)
    BY <1>4, <2>2 DEF GoodExport, OrdinalInRange
  <2>5. \A k : ExportOf(k)' = ExportOf(k)
    BY <2>2, <2>3 DEF ExportOf
  <2>. QED
    BY <2>1, <2>4, <2>5
<1>. QED
  BY <1>1, <1>3, <1>4

LEMMA SameImports ==
  ASSUME UNCHANGED Tables
  PROVE  /\ \A o : IsLast(o)' = IsLast(o) /\ ModuleAt(o)' = ModuleAt(o)
         /\ \A m : GoodModule(m)' = GoodModule(m)
         /\ \A k : Descriptor(k)' = Descriptor(k) /\ Thunks(k)' = Thunks(k)
         /\ \A k, m : ModuleRead(k, m)' = ModuleRead(k, m)
         /\ \A t, n : Ended(t, n)' = Ended(t, n) /\ ThunkValue(t, n)' = ThunkValue(t, n)
         /\ \A t, f : FunctionsRead(t, f)' = FunctionsRead(t, f)
         /\ ImportsFit' = ImportsFit
<1> USE SameReads
<1>1. \A o : IsLast(o)' = IsLast(o) /\ ModuleAt(o)' = ModuleAt(o)
  BY DEF IsLast, ModuleAt
<1>2. \A k : Descriptor(k)' = Descriptor(k) /\ Thunks(k)' = Thunks(k)
  BY <1>1 DEF Descriptor, Thunks
<1>3. /\ \A n : PlaceOf(n)' = PlaceOf(n)
      /\ \A t, n : ThunkValue(t, n)' = ThunkValue(t, n)
  BY DEF PlaceOf, ThunkValue, Thunk
<1>4. \A t : ByOrdinal(t)' = ByOrdinal(t) /\ HintOffset(t)' = HintOffset(t)
  BY DEF ByOrdinal, HintOffset
<1>5. \A t : ImportName(t)' = ImportName(t)
  BY <1>4 DEF ImportName
<1>6. \A t : GoodThunk(t)' = GoodThunk(t) /\ ImportOf(t)' = ImportOf(t)
             /\ ThunkHolds(t)' = ThunkHolds(t)
  BY <1>4, <1>5 DEF GoodThunk, ImportOf, ThunkHolds
<1>7. \A t, f : FunctionsRead(t, f)' = FunctionsRead(t, f)
  BY <1>3, <1>6 DEF FunctionsRead, Tables
<1>8. \A m : GoodModule(m)' = GoodModule(m)
  BY DEF GoodModule
<1>9. \A k, m : ModuleRead(k, m)' = ModuleRead(k, m)
  BY <1>1, <1>2, <1>7, <1>8 DEF ModuleRead
<1>10. \A t, n : Ended(t, n)' = Ended(t, n)
  BY <1>3 DEF Ended, Tables
<1>11. \A o : ThunksHold(o)' = ThunksHold(o)
  BY <1>3, <1>6 DEF ThunksHold, Tables
<1>12. ImportsFit' = ImportsFit
  BY <1>1, <1>2, <1>11 DEF ImportsFit, Tables
<1>. QED
  BY <1>1, <1>2, <1>3, <1>7, <1>8, <1>9, <1>10, <1>12

-----------------------------------------------------------------------------
(* What the checks mean, in numbers that do not wrap. *)

LEMMA HeadersMean ==
  ASSUME IsFile(file)
  PROVE  /\ HeadersFit <=> ~BadDos /\ ~BadSignature /\ ~BadOptional /\ ~BadSectionTable
         /\ ~BadDos /\ ~BadSignature => InBounds(CoffOffset, 20)
         /\ HeadersFit => /\ SectionOffset(0) + file.section_count * 40 <= file.size
                          /\ DirOffset <= file.size
<1> DEFINE l == file.lfanew
           c == CoffOffset
           d == DirOffset
           table == SectionOffset(0)
<1>1. /\ l \in Nat /\ c \in Nat /\ d \in Nat /\ d - 4 \in Nat /\ table \in Nat
      /\ file.size \in Nat /\ file.size < Word /\ file.opt_size \in Nat
      /\ file.section_count \in Nat
      /\ c = U32(l + 4)
      /\ l + 4 < Word => c = l + 4
  BY FileType, Offsets DEF CoffOffset
<1>2. /\ OptionalOffset = c + 20 /\ table = c + 20 + file.opt_size
      /\ file.section_count * 40 \in Nat
  BY <1>1 DEF OptionalOffset, SectionOffset
<1>3. /\ InBounds(l, 4) <=> l + 4 <= file.size
      /\ InBounds(c, 20) <=> c + 20 <= file.size
      /\ InBounds(OptionalOffset, 2) <=> c + 22 <= file.size
      /\ InBounds(d - 4, 4) <=> d <= file.size
  <2>1. InBounds(l, 4) <=> l + 4 <= file.size
    BY <1>1, InBoundsMeans
  <2>2. InBounds(c, 20) <=> c + 20 <= file.size
    BY <1>1, InBoundsMeans
  <2>3. OptionalOffset \in Nat /\ OptionalOffset + 2 = c + 22
    BY <1>1, <1>2
  <2>4. InBounds(OptionalOffset, 2) <=> OptionalOffset + 2 <= file.size
    BY <2>3, InBoundsMeans
  <2>5. InBounds(d - 4, 4) <=> (d - 4) + 4 <= file.size
    BY <1>1, InBoundsMeans
  <2>6. (d - 4) + 4 = d
    BY <1>1
  <2>. QED
    BY <2>1, <2>2, <2>3, <2>4, <2>5, <2>6
<1>4. BadSectionTable <=> table + file.section_count * 40 > file.size
  <2>1. BadSectionTable <=> ~InBounds(table, file.section_count * 40)
    <3>1. SizeSub(file.size, table) \in Nat
      BY <1>1, FileType, Difference
    <3>. QED
      BY <1>1, <1>2, <3>1 DEF BadSectionTable, InBounds
  <2>2. InBounds(table, file.section_count * 40) <=> table + file.section_count * 40 <= file.size
    BY <1>1, <1>2, InBoundsMeans
  <2>. QED
    BY <1>1, <1>2, <2>1, <2>2
<1> HIDE DEF c, d, table
<1>5. ~BadDos <=> file.size >= 64 /\ file.mz /\ l # 0 /\ c + 20 <= file.size
  BY <1>1 DEF BadDos
<1>6. ~BadSignature <=> l + 4 <= file.size /\ file.signature
  BY <1>3 DEF BadSignature
<1>7. ~BadOptional <=> /\ file.opt_size >= 2 /\ c + 22 <= file.size
                       /\ file.opt_magic # "other" /\ d <= file.size
  BY <1>1, <1>3 DEF BadOptional, d
<1>8. HeadersFit <=> /\ file.size >= 64 /\ file.mz
                     /\ l # 0 /\ l + 24 <= file.size /\ file.signature
                     /\ file.opt_size >= 2 /\ file.opt_magic # "other"
                     /\ d <= file.size
                     /\ l + 24 + file.opt_size + file.section_count * 40 <= file.size
  BY DEF HeadersFit, d
<1> DEFINE n == file.section_count * 40
<1>9. n \in Nat /\ table \in Nat /\ c \in Nat /\ d \in Nat
  BY <1>1, <1>2
<1>10. table = c + 20 + file.opt_size
  BY <1>2
<1> HIDE DEF n, l
<1>11. l + 4 <= file.size => c = l + 4
  BY <1>1, Widths
<1>12. HeadersFit => l + 4 <= file.size
  BY <1>1, <1>8
<1>13. /\ ~BadDos /\ ~BadSignature => InBounds(CoffOffset, 20)
       /\ HeadersFit => table + n <= file.size /\ d <= file.size
  BY <1>1, <1>3, <1>5, <1>6, <1>8, <1>9, <1>10, <1>11, <1>12 DEF n, c
<1>14. BadSectionTable <=> table + n > file.size
  BY <1>4 DEF n
<1>15. HeadersFit => ~BadDos /\ ~BadSignature /\ ~BadOptional /\ ~BadSectionTable
  BY <1>1, <1>5, <1>6, <1>7, <1>8, <1>9, <1>10, <1>11, <1>12, <1>14 DEF n
<1>16. ~BadDos /\ ~BadSignature /\ ~BadOptional /\ ~BadSectionTable => HeadersFit
  BY <1>1, <1>5, <1>6, <1>7, <1>8, <1>9, <1>10, <1>11, <1>14 DEF n
<1>. QED
  BY <1>13, <1>15, <1>16 DEF n, table, d

(* A section header is in the table that was checked. *)
LEMMA SectionReadable ==
  ASSUME IsFile(file), HeadersFit, NEW k \in Nat, k < file.section_count
  PROVE  InBounds(SectionOffset(k), 40)
<1>1. /\ SectionOffset(k) \in Nat /\ SectionOffset(k) = SectionOffset(0) + k * 40
      /\ SectionOffset(0) \in Nat /\ file.section_count \in Nat /\ file.size \in Nat
      /\ SectionOffset(0) + file.section_count * 40 <= file.size
  BY Offsets, HeadersMean, FileType
<1>2. SectionOffset(k) + 40 <= file.size
  BY <1>1
<1>. QED
  BY <1>1, <1>2, InBoundsMeans

(* No more directories are taken than there are, and than fit. *)
LEMMA DirectoriesMean ==
  ASSUME IsFile(file), HeadersFit
  PROVE  /\ Directories \in 0..(Word - 1)
         /\ DirOffset + Directories * 8 <= file.size /\ InBounds(DirOffset, Directories * 8)
         /\ \A d \in Nat : d < Directories <=> /\ d < file.dir_count
                                              /\ DirOffset + (d + 1) * 8 <= file.size
<1> DEFINE room == file.size - DirOffset
           fit == room \div 8
<1>1. /\ DirOffset \in Nat /\ file.size \in Nat /\ DirOffset <= file.size /\ file.size < Word
      /\ SizeSub(file.size, DirOffset) = room
      /\ file.dir_count \in 0..(Word - 1)
  BY Offsets, HeadersMean, FileType, Difference DEF IsFile
<1>2. room \in Nat /\ room < Word
  BY <1>1, Widths
<1>3. Directories = IF file.dir_count < U32(fit) THEN file.dir_count ELSE U32(fit)
  BY <1>1 DEF Directories
<1>4. DirOffset + room = file.size
  BY <1>1
<1> HIDE DEF room
<1>5. fit \in Nat /\ fit * 8 <= room /\ room < (fit + 1) * 8
  BY <1>2
<1> HIDE DEF fit
<1>6. U32(fit) = fit
  BY <1>2, <1>5, Wrapped, Widths
<1>7. Directories \in 0..(Word - 1) /\ Directories * 8 <= room
  BY <1>1, <1>2, <1>3, <1>5, <1>6, Widths
<1>8. DirOffset + Directories * 8 <= file.size /\ InBounds(DirOffset, Directories * 8)
  <2>1. Directories * 8 \in Nat /\ DirOffset + Directories * 8 <= file.size
    BY <1>1, <1>2, <1>4, <1>7, Widths
  <2>. QED
    BY <1>1, <2>1, InBoundsMeans
<1>9. ASSUME NEW d \in Nat
      PROVE  d < Directories <=> d < file.dir_count /\ DirOffset + (d + 1) * 8 <= file.size
  <2>1. DirOffset + (d + 1) * 8 <= file.size <=> d < fit
    BY <1>1, <1>2, <1>4, <1>5
  <2>. QED
    BY <1>1, <1>3, <1>5, <1>6, <2>1
<1>. QED
  BY <1>7, <1>8, <1>9

-----------------------------------------------------------------------------
(* Exports. *)

LEMMA FitsMeans ==
  ASSUME IsFile(file), NEW o \in -1..(Word - 1), NEW n \in Nat
  PROVE  Fits(o, n) <=> o # nullopt /\ InBounds(o, n)
<1>1. o # nullopt => o \in Nat
  BY Widths DEF nullopt
<1>. QED
  BY <1>1, InBoundsMeans DEF Fits

LEMMA ArraysMean ==
  ASSUME IsFile(file), sections \in Seq(Section), NEW o \in -1..(Word - 1), NEW p
  PROVE  /\ DirectoryFits(o) <=> Fits(o, 40)
         /\ LET d == DirectoryAt(p)
            IN  ArraysFit(d) <=> /\ Fits(d.functions, d.num_functions * 4)
                                 /\ Fits(d.names, d.num_names * 4)
                                 /\ Fits(d.ordinals, d.num_names * 2)
<1> DEFINE d == DirectoryAt(p)
<1>1. /\ d.num_functions \in 0..(Word - 1) /\ d.num_names \in 0..(Word - 1)
      /\ d.functions \in -1..(Word - 1) /\ d.names \in -1..(Word - 1)
      /\ d.ordinals \in -1..(Word - 1)
  BY DirectoryType
<1> HIDE DEF d
<1>2. d.num_functions * 4 \in Nat /\ d.num_names * 4 \in Nat /\ d.num_names * 2 \in Nat
  <2>1. d.num_functions \in Nat /\ d.num_names \in Nat
    BY <1>1
  <2>. QED
    BY <2>1
<1>3. Fits(d.functions, d.num_functions * 4) <=>
        d.functions # nullopt /\ InBounds(d.functions, d.num_functions * 4)
  BY <1>1, <1>2, FitsMeans
<1>4. Fits(d.names, d.num_names * 4) <=> d.names # nullopt /\ InBounds(d.names, d.num_names * 4)
  BY <1>1, <1>2, FitsMeans
<1>5. Fits(d.ordinals, d.num_names * 2) <=>
        d.ordinals # nullopt /\ InBounds(d.ordinals, d.num_names * 2)
  BY <1>1, <1>2, FitsMeans
<1>6. DirectoryFits(o) <=> Fits(o, 40)
  BY FitsMeans DEF DirectoryFits
<1>7. ArraysFit(d) <=> /\ Fits(d.functions, d.num_functions * 4)
                       /\ Fits(d.names, d.num_names * 4)
                       /\ Fits(d.ordinals, d.num_names * 2)
  BY <1>3, <1>4, <1>5 DEF ArraysFit
<1>. QED
  BY <1>6, <1>7 DEF d

(* The entry of an array that is in the file is at the sum itself. *)
LEMMA EntryInArray ==
  ASSUME IsFile(file), NEW o \in -1..(Word - 1), NEW n \in Nat, NEW e \in {2, 4}, Fits(o, n * e),
         NEW k \in Nat, k < n
  PROVE  /\ o + k * e \in Nat /\ U32(o + k * e) = o + k * e
         /\ InBounds(o + k * e, e)
<1>1. o \in Nat /\ o + n * e <= file.size /\ file.size \in Nat /\ file.size < Word
  BY FileType, Widths DEF Fits, nullopt
<1> DEFINE p == o + k * e
<1>2. p \in Nat /\ p + e <= file.size
  <2>1. CASE e = 2
    BY <1>1, <2>1
  <2>2. CASE e = 4
    BY <1>1, <2>2
  <2>. QED
    BY <2>1, <2>2
<1> HIDE DEF p
<1>3. p < Word
  BY <1>1, <1>2, Widths
<1>4. U32(p) = p
  BY <1>2, <1>3, Wrapped
<1>5. InBounds(p, e)
  BY <1>2, InBoundsMeans
<1>. QED
  BY <1>2, <1>4, <1>5 DEF p

LEMMA DirectoryMeans ==
  ASSUME IsFile(file), sections \in Seq(Section), DirectoryRead
  PROVE  /\ directory.base \in 0..(Word - 1)
         /\ directory.num_functions \in 0..(Word - 1) /\ directory.num_names \in 0..(Word - 1)
         /\ directory.functions \in -1..(Word - 1) /\ directory.names \in -1..(Word - 1)
         /\ directory.ordinals \in -1..(Word - 1)
         /\ Fits(directory.functions, directory.num_functions * 4)
         /\ Fits(directory.names, directory.num_names * 4)
         /\ Fits(directory.ordinals, directory.num_names * 2)
<1>1. directory = DirectoryAt(ExportOffset) /\ ArraysFit(directory)
  BY DEF DirectoryRead
<1>2. -1 \in -1..(Word - 1)
  BY Widths
<1>3. /\ Fits(directory.functions, directory.num_functions * 4)
      /\ Fits(directory.names, directory.num_names * 4)
      /\ Fits(directory.ordinals, directory.num_names * 2)
  BY <1>1, <1>2, ArraysMean
<1>. QED
  BY <1>1, <1>3, DirectoryType

(* None of the reads behind the check of the three arrays fails. *)
LEMMA ExportReadable ==
  ASSUME IsFile(file), sections \in Seq(Section), DirectoryRead,
         NEW k \in Nat, k < directory.num_names
  PROVE  /\ EntryInBounds(k) /\ OrdinalIndex(k) \in 0..Max16
         /\ OrdinalIndex(k) = U16At(directory.ordinals + k * 2)
         /\ ExportName(k) = StringAt(U32At(directory.names + k * 4))
         /\ OrdinalIndex(k) < directory.num_functions =>
              /\ InBounds(FunctionEntry(OrdinalIndex(k)), 4)
              /\ FunctionEntry(OrdinalIndex(k)) = directory.functions + OrdinalIndex(k) * 4
<1> DEFINE d == directory
<1>1. /\ d.num_functions \in Nat /\ d.num_names \in Nat
      /\ d.functions \in -1..(Word - 1) /\ d.names \in -1..(Word - 1)
      /\ d.ordinals \in -1..(Word - 1)
  BY DirectoryMeans, Widths
<1>2. NameEntry(k) = d.names + k * 4 /\ InBounds(d.names + k * 4, 4)
  BY <1>1, DirectoryMeans, EntryInArray DEF NameEntry
<1>3. OrdinalEntry(k) = d.ordinals + k * 2 /\ InBounds(d.ordinals + k * 2, 2)
  BY <1>1, DirectoryMeans, EntryInArray DEF OrdinalEntry
<1>4. OrdinalIndex(k) \in 0..Max16
  BY Integers64 DEF OrdinalIndex
<1>5. ASSUME OrdinalIndex(k) < d.num_functions
      PROVE  /\ FunctionEntry(OrdinalIndex(k)) = d.functions + OrdinalIndex(k) * 4
             /\ InBounds(d.functions + OrdinalIndex(k) * 4, 4)
  <2>1. OrdinalIndex(k) \in Nat
    BY <1>4, Widths
  <2>. QED
    BY <1>1, <1>5, <2>1, DirectoryMeans, EntryInArray DEF FunctionEntry
<1>. QED
  BY <1>2, <1>3, <1>4, <1>5 DEF EntryInBounds, OrdinalIndex, ExportName

LEMMA ExportType ==
  ASSUME IsFile(file), sections \in Seq(Section), DirectoryRead,
         NEW k \in Nat, k < directory.num_names
  PROVE  /\ ExportOf(k) \in Export
         /\ GoodExport(k) => IsString(ExportOf(k).name)
         /\ ExportOf(k).forwarder # NoString => IsString(ExportOf(k).forwarder)
<1> DEFINE x == OrdinalIndex(k)
           rva == U32At(FunctionEntry(x))
<1>1. x \in Nat /\ directory.base + x \in Nat
  <2>1. x \in 0..Max16
    BY ExportReadable
  <2>2. directory.base \in 0..(Word - 1)
    BY DirectoryMeans
  <2>. QED
    BY <2>1, <2>2, Widths
<1>2. Ordinal(x) \in 0..Max16
  BY <1>1, Wrapped DEF Ordinal
<1>3. rva \in 0..(Word - 1)
  BY Integers64
<1>4. /\ ExportName(k) \in String
      /\ ExportName(k) # NoString => IsString(ExportName(k))
  <2>1. U32At(NameEntry(k)) \in 0..(Word - 1)
    BY Integers64
  <2>. QED
    BY <2>1, StringAtMeans DEF ExportName
<1>5. Forwarded(rva) \in BOOLEAN
  BY DEF Forwarded
<1> HIDE DEF rva
<1>6. StringAt(rva) \in String /\ (StringAt(rva) # NoString => IsString(StringAt(rva)))
  BY <1>3, StringAtMeans
<1>7. ExportOf(k) = [name |-> ExportName(k), ordinal |-> Ordinal(x), rva |-> rva,
                     forwarded |-> Forwarded(rva),
                     forwarder |-> IF Forwarded(rva) THEN StringAt(rva) ELSE NoString]
  BY DEF ExportOf, rva
<1>8. (IF Forwarded(rva) THEN StringAt(rva) ELSE NoString) \in String
  BY <1>6, NoStringType
<1>. QED
  BY <1>2, <1>3, <1>4, <1>5, <1>6, <1>7, <1>8 DEF Export, GoodExport

(* The exports are in the file when every one of them is good. *)
LEMMA ExportsMean ==
  ASSUME IsFile(file), sections \in Seq(Section), dir_count \in 0..(Word - 1)
  PROVE  /\ ExportRva = 0 => ExportsFit
         /\ ExportRva # 0 /\ ExportsFit =>
              DirectoryFits(ExportOffset) /\ ArraysFit(DirectoryAt(ExportOffset))
         /\ DirectoryRead => (ExportsFit <=> \A k \in 0..(directory.num_names - 1) : GoodExport(k))
<1> DEFINE d == DirectoryAt(ExportOffset)
<1>1. ExportOffset \in -1..(Word - 1)
  BY AddressType, OffsetType DEF ExportOffset
<1>2. ExportRva # 0 => (ExportsFit <=> Fits(ExportOffset, 40) /\ ArraysHold(d))
  BY DEF ExportsFit
<1>3. DirectoryFits(ExportOffset) <=> Fits(ExportOffset, 40)
  BY <1>1, ArraysMean
<1>4. ArraysFit(d) <=> /\ Fits(d.functions, d.num_functions * 4)
                       /\ Fits(d.names, d.num_names * 4)
                       /\ Fits(d.ordinals, d.num_names * 2)
  BY <1>1, ArraysMean
<1>5. ArraysHold(d) => ArraysFit(d)
  BY <1>4 DEF ArraysHold
<1>6. ASSUME DirectoryRead
      PROVE  ExportsFit <=> \A k \in 0..(directory.num_names - 1) : GoodExport(k)
  <2>1. ExportRva # 0 /\ DirectoryFits(ExportOffset) /\ directory = d /\ ArraysFit(d)
    BY <1>6 DEF DirectoryRead
  <2>2. ExportsFit <=>
          \A k \in 0..(directory.num_names - 1) :
            /\ HasString(RvaToOffset[U32At(directory.names + k * 4)])
            /\ U16At(directory.ordinals + k * 2) < directory.num_functions
    BY <1>2, <1>3, <1>4, <2>1 DEF ArraysHold
  <2>3. ASSUME NEW k \in 0..(directory.num_names - 1)
        PROVE  GoodExport(k) <=> /\ HasString(RvaToOffset[U32At(directory.names + k * 4)])
                                 /\ U16At(directory.ordinals + k * 2) < directory.num_functions
    <3>1. k \in Nat /\ k < directory.num_names
      BY <1>6, <2>3, DirectoryMeans, Widths
    <3>2. /\ OrdinalIndex(k) = U16At(directory.ordinals + k * 2)
          /\ ExportName(k) = StringAt(U32At(directory.names + k * 4))
      BY <1>6, <3>1, ExportReadable
    <3>3. U32At(directory.names + k * 4) \in 0..(Word - 1)
      BY Integers64
    <3>4. ExportName(k) # NoString <=> HasString(RvaToOffset[U32At(directory.names + k * 4)])
      BY <3>2, <3>3, StringAtMeans
    <3>. QED
      BY <3>2, <3>4 DEF GoodExport, OrdinalInRange
  <2>. QED
    BY <2>2, <2>3
<1>7. ExportRva = 0 => ExportsFit
  BY DEF ExportsFit
<1>. QED
  BY <1>2, <1>3, <1>5, <1>6, <1>7

-----------------------------------------------------------------------------
(* Imports. *)

LEMMA PlacesGrow ==
  ASSUME NEW a \in Nat, NEW b \in Nat, a <= b
  PROVE  PlaceOf(a) \in Nat /\ PlaceOf(b) \in Nat /\ PlaceOf(a) <= PlaceOf(b)
<1>1. CASE Is64
  BY <1>1 DEF PlaceOf
<1>2. CASE ~Is64
  BY <1>2 DEF PlaceOf
<1>. QED
  BY <1>1, <1>2

LEMMA ModuleMeans ==
  ASSUME IsFile(file), sections \in Seq(Section), NEW k \in Nat
  PROVE  LET o == Descriptor(k)
         IN  /\ GoodModule(ModuleAt(o)) <=> /\ HasString(RvaToOffset[U32At(o + 12)])
                                            /\ Thunks(k) # nullopt
             /\ GoodModule(ModuleAt(o)) => IsString(ModuleAt(o).name) /\ Thunks(k) \in 0..(Word - 1)
<1> DEFINE o == Descriptor(k)
           rva == U32At(o + 12)
<1>1. rva \in 0..(Word - 1)
  BY Integers64
<1>2. ModuleAt(o).name = StringAt(rva) /\ ModuleAt(o).thunks = Thunks(k)
  BY DEF ModuleAt, Thunks
<1>3. Thunks(k) = nullopt \/ Thunks(k) \in 0..(Word - 1)
  BY ModuleType DEF Thunks
<1> HIDE DEF o, rva
<1>4. /\ StringAt(rva) # NoString <=> HasString(RvaToOffset[rva])
      /\ StringAt(rva) # NoString => IsString(StringAt(rva))
  BY <1>1, StringAtMeans
<1>. QED
  BY <1>2, <1>3, <1>4 DEF GoodModule, o, rva

(* The offset of the next thunk does not wrap: what is in front of it is   *)
(* in the file.                                                            *)
LEMMA NextThunk ==
  ASSUME IsFile(file), NEW t \in 0..(Word - 1), NEW f, Len(f) \in Nat, FunctionsRead(t, f)
  PROVE  LET n == Len(f)
         IN  /\ t + PlaceOf(n) \in Nat
             /\ U32(t + n * ThunkSize) = t + PlaceOf(n)
             /\ InBounds(t + PlaceOf(n), ThunkSize) <=> t + PlaceOf(n + 1) <= file.size
<1> DEFINE n == Len(f)
           p == t + PlaceOf(n)
<1>1. /\ PlaceOf(n) \in Nat /\ PlaceOf(n) = n * ThunkSize /\ ThunkSize \in Nat
      /\ PlaceOf(n + 1) = PlaceOf(n) + ThunkSize
      /\ n = 0 => PlaceOf(n) = 0
  <2>1. ThunkSize \in Nat /\ PlaceOf(0) = 0
    BY DEF ThunkSize, PlaceOf
  <2>2. PlaceOf(n) \in Nat /\ PlaceOf(n) = n * ThunkSize /\ PlaceOf(n + 1) = PlaceOf(n) + ThunkSize
    BY PlaceMeans
  <2>. QED
    BY <2>1, <2>2
<1>2. n \in Nat /\ t \in Nat /\ t < Word
  BY Widths
<1>3. p < Word
  <2>1. CASE n = 0
    BY <1>1, <1>2, <2>1
  <2>2. CASE n # 0
    <3>1. n \in 1..Len(f)
      BY <1>2, <2>2
    <3>2. p <= file.size
      BY <3>1 DEF FunctionsRead
    <3>3. file.size \in Nat /\ file.size < Word /\ Word \in Nat
      BY FileType, Widths
    <3>4. p \in Nat
      BY <1>1, <1>2
    <3> HIDE DEF p
    <3>. QED
      BY <3>2, <3>3, <3>4
  <2>. QED
    BY <2>1, <2>2
<1>4. p \in Nat /\ p + ThunkSize = t + PlaceOf(n + 1)
  BY <1>1, <1>2
<1> HIDE DEF p
<1>5. U32(p) = p
  BY <1>3, <1>4, Wrapped
<1>6. InBounds(p, ThunkSize) <=> p + ThunkSize <= file.size
  BY <1>1, <1>4, InBoundsMeans
<1>. QED
  BY <1>1, <1>4, <1>5, <1>6 DEF p

(* Where the thunks of a module are in the file, with a zero one behind    *)
(* them, none of them is rejected.                                         *)
LEMMA ThunksMean ==
  ASSUME IsFile(file), sections \in Seq(Section), NEW t \in 0..(Word - 1),
         NEW f, Len(f) \in Nat, FunctionsRead(t, f), ThunksHold(t)
  PROVE  /\ t + PlaceOf(Len(f) + 1) <= file.size
         /\ ThunkValue(t, Len(f)) = 0 \/ GoodThunk(ThunkValue(t, Len(f)))
<1> DEFINE n == Len(f)
<1>0. t \in Nat /\ n \in Nat /\ file.size \in Nat
  BY Widths, FileType
<1>1. PICK z \in 0..file.size :
        /\ Fits(t, PlaceOf(z + 1))
        /\ ThunkValue(t, z) = 0
        /\ \A m \in 0..(z - 1) : ThunkValue(t, m) # 0 /\ ThunkHolds(ThunkValue(t, m))
  BY DEF ThunksHold
<1>2. n <= z
  <2> SUFFICES ASSUME ~(n <= z) PROVE FALSE
    OBVIOUS
  <2>1. z + 1 \in 1..n /\ (z + 1) - 1 = z
    BY <1>0
  <2>2. ThunkValue(t, (z + 1) - 1) # 0
    BY <2>1 DEF FunctionsRead
  <2>. QED
    BY <1>1, <2>1, <2>2
<1>3. t + PlaceOf(n + 1) <= file.size
  <2>1. /\ PlaceOf(n + 1) <= PlaceOf(z + 1) /\ PlaceOf(n + 1) \in Nat /\ PlaceOf(z + 1) \in Nat
    <3>1. n + 1 \in Nat /\ z + 1 \in Nat /\ n + 1 <= z + 1
      BY <1>0, <1>2
    <3>. QED
      BY <3>1, PlacesGrow
  <2>2. t + PlaceOf(z + 1) <= file.size
    BY <1>1 DEF Fits
  <2>. QED
    BY <1>0, <2>1, <2>2
<1>4. CASE n = z
  BY <1>1, <1>3, <1>4
<1>5. CASE n < z
  <2>1. n \in 0..(z - 1)
    BY <1>0, <1>5
  <2>2. ThunkHolds(ThunkValue(t, n))
    BY <1>1, <2>1
  <2>3. ThunkValue(t, n) \in 0..Max64
    BY ThunkType DEF ThunkValue
  <2>. QED
    BY <1>3, <2>2, <2>3, ImportMeans
<1>. QED
  BY <1>0, <1>2, <1>4, <1>5

LEMMA ThunksFound ==
  ASSUME IsFile(file), sections \in Seq(Section), NEW t \in 0..(Word - 1),
         NEW f, Len(f) \in Nat, FunctionsRead(t, f), Ended(t, Len(f))
  PROVE  ThunksHold(t)
<1> DEFINE n == Len(f)
<1>1. t \in Nat /\ t # nullopt /\ file.size \in Nat
  BY Widths, FileType DEF nullopt
<1>2. n \in 0..file.size
  <2>1. n + 1 <= PlaceOf(n + 1) /\ PlaceOf(n + 1) \in Nat
    BY PlaceMeans
  <2>. QED
    BY <1>1, <2>1 DEF Ended
<1>3. Fits(t, PlaceOf(n + 1)) /\ ThunkValue(t, n) = 0
  BY <1>1 DEF Ended, Fits
<1>4. ASSUME NEW m \in 0..(n - 1)
      PROVE  ThunkValue(t, m) # 0 /\ ThunkHolds(ThunkValue(t, m))
  <2>1. m + 1 \in 1..n /\ (m + 1) - 1 = m
    OBVIOUS
  <2>2. ThunkValue(t, m) # 0 /\ GoodThunk(ThunkValue(t, m))
    BY <2>1 DEF FunctionsRead
  <2>3. ThunkValue(t, m) \in 0..Max64
    BY ThunkType DEF ThunkValue
  <2>. QED
    BY <2>2, <2>3, ImportMeans
<1>. QED
  BY <1>2, <1>3, <1>4 DEF ThunksHold

(* Where the imports are in the file, the next descriptor is the last one  *)
(* or opens a module whose thunks are.                                     *)
LEMMA ImportsMean ==
  ASSUME IsFile(file), sections \in Seq(Section), dir_count \in 0..(Word - 1),
         ImportRva # 0, ImportsFit, NEW j \in Nat,
         \A k \in 1..j : ~IsLast(Descriptor(k - 1))
  PROVE  /\ ImportOffset # nullopt /\ InBounds(Descriptor(j), 20)
         /\ ~IsLast(Descriptor(j)) => GoodModule(ModuleAt(Descriptor(j))) /\ ThunksHold(Thunks(j))
<1>1. PICK n \in 0..file.size :
        /\ Fits(ImportOffset, (n + 1) * 20)
        /\ IsLast(Descriptor(n))
        /\ \A k \in 0..(n - 1) : /\ ~IsLast(Descriptor(k))
                                 /\ HasString(RvaToOffset[U32At(Descriptor(k) + 12)])
                                 /\ Thunks(k) # nullopt /\ ThunksHold(Thunks(k))
  BY DEF ImportsFit
<1>2. ImportOffset \in -1..(Word - 1)
  BY AddressType, OffsetType DEF ImportOffset
<1>3. ImportOffset # nullopt /\ ImportOffset \in Nat /\ ImportOffset + (n + 1) * 20 <= file.size
  BY <1>1, <1>2, Widths DEF Fits, nullopt
<1>4. j <= n
  <2> SUFFICES ASSUME ~(j <= n) PROVE FALSE
    OBVIOUS
  <2>1. n + 1 \in 1..j /\ (n + 1) - 1 = n
    BY FileType
  <2>. QED
    BY <1>1, <2>1
<1>5. InBounds(Descriptor(j), 20)
  <2>1. file.size \in Nat
    BY FileType
  <2>2. Descriptor(j) \in Nat /\ Descriptor(j) + 20 <= file.size
    BY <1>3, <1>4, <2>1 DEF Descriptor
  <2>. QED
    BY <2>2, InBoundsMeans
<1>6. ASSUME ~IsLast(Descriptor(j))
      PROVE  GoodModule(ModuleAt(Descriptor(j))) /\ ThunksHold(Thunks(j))
  <2>1. j \in 0..(n - 1)
    <3>1. j # n
      BY <1>1, <1>6
    <3>. QED
      BY <1>4, <3>1, FileType
  <2>. QED
    BY <1>1, <2>1, ModuleMeans
<1>. QED
  BY <1>3, <1>5, <1>6

LEMMA ImportsFound ==
  ASSUME IsFile(file), sections \in Seq(Section), dir_count \in 0..(Word - 1), NEW j \in Nat,
         ImportOffset # nullopt, InBounds(Descriptor(j), 20), IsLast(Descriptor(j)),
         \A k \in 1..j : /\ ~IsLast(Descriptor(k - 1))
                         /\ GoodModule(ModuleAt(Descriptor(k - 1))) /\ ThunksHold(Thunks(k - 1))
  PROVE  ImportsFit
<1>1. ImportOffset \in -1..(Word - 1)
  BY AddressType, OffsetType DEF ImportOffset
<1>2. ImportOffset \in Nat
  BY <1>1, Widths DEF nullopt
<1>3. Descriptor(j) \in Nat /\ Descriptor(j) = ImportOffset + j * 20
  BY <1>2 DEF Descriptor
<1>4. Descriptor(j) + 20 <= file.size
  BY <1>3, InBoundsMeans
<1>5. Fits(ImportOffset, (j + 1) * 20) /\ j \in 0..file.size
  <2>1. file.size \in Nat
    BY FileType
  <2>2. ImportOffset + (j + 1) * 20 <= file.size /\ j <= file.size
    BY <1>2, <1>3, <1>4, <2>1
  <2>. QED
    BY <2>1, <2>2 DEF Fits
<1>6. ASSUME NEW k \in 0..(j - 1)
      PROVE  /\ ~IsLast(Descriptor(k))
             /\ HasString(RvaToOffset[U32At(Descriptor(k) + 12)])
             /\ Thunks(k) # nullopt /\ ThunksHold(Thunks(k))
  <2>1. k + 1 \in 1..j /\ (k + 1) - 1 = k /\ k \in Nat
    OBVIOUS
  <2>2. ~IsLast(Descriptor(k)) /\ GoodModule(ModuleAt(Descriptor(k))) /\ ThunksHold(Thunks(k))
    BY <2>1
  <2>. QED
    BY <2>1, <2>2, ModuleMeans
<1>. QED
  BY <1>5, <1>6 DEF ImportsFit

-----------------------------------------------------------------------------
(* The invariant holds at first and every step keeps it. *)

LEMMA InitIInv == Init => IInv
<1> SUFFICES ASSUME Init PROVE IInv
  OBVIOUS
<1> USE DEF Init
<1>1. IsFile(file)
  BY FilesAssumption
<1>2. NoModule \in [name : String, thunks : -1..(Word - 1), functions : Seq(ImportFunction)]
  BY NoStringType, EmptySeq, Widths DEF NoModule, nullopt
<1>3. \A x \in DOMAIN NoDirectory : NoDirectory[x] \in -1..(Word - 1)
  BY Widths DEF NoDirectory, nullopt
<1>4. TypeOK
  BY <1>1, <1>2, <1>3, Widths, EmptySeq DEF TypeOK
<1>5. HeaderInv
  BY DEF HeaderInv, HeadersPassed, SectionsPassed, AfterSections, AfterExports
<1>6. ExportInv
  BY EmptySeq DEF ExportInv, ExportsPassed, AfterExports
<1>7. ImportInv
  BY EmptySeq DEF ImportInv
<1>. QED
  BY <1>4, <1>5, <1>6, <1>7 DEF IInv, ValidatedReadsSucceed

Data == <<file, dir_count, directory, image>>

LEMMA SameData ==
  ASSUME UNCHANGED Data
  PROVE  /\ UNCHANGED <<file, dir_count, directory, sections, exports, imports, module>>
         /\ UNCHANGED Tables
         /\ Current' = Current
         /\ TypeOK /\ pc' \in {"dos", "nt", "optional", "sections", "exports", "names", "imports",
                               "thunks", "done"}
                   /\ status' \in {"running", "ok", "bad_headers", "bad_exports", "bad_imports"}
              => TypeOK'
<1>1. UNCHANGED <<file, dir_count, directory, sections, exports, imports, module>>
  BY DEF Data, image
<1>2. UNCHANGED Tables
  BY <1>1 DEF Tables
<1>3. Current' = Current
  BY <1>1, <1>2, SameImports DEF Current
<1>. QED
  BY <1>1, <1>2, <1>3, SameFile DEF TypeOK

(* An error leaves everything as it was; it has to be the right one. *)
LEMMA FailKeeps ==
  ASSUME IInv, pc # "done", UNCHANGED Data, pc' = "done",
         \/ status' = "bad_headers" /\ ~HeadersFit
         \/ status' = "bad_exports" /\ pc \in AfterSections /\ ~ExportsFit
         \/ status' = "bad_imports" /\ pc \in AfterExports /\ ~ImportsFit
  PROVE  IInv'
<1>1. status = "running"
  BY DEF IInv
<1>2. TypeOK'
  BY SameData DEF IInv
<1>3. HeaderInv'
  BY <1>1, SameData, SameFile
  DEF IInv, HeaderInv, HeadersPassed, SectionsPassed, AfterSections, AfterExports
<1>4. ExportInv'
  <2>1. /\ (pc = "names" \/ exports # << >> => DirectoryRead /\ Len(exports) <= directory.num_names)'
        /\ (\A k \in 1..Len(exports) : GoodExport(k - 1) /\ exports[k] = ExportOf(k - 1))'
    BY SameData, SameExports DEF IInv, ExportInv
  <2>2. (/\ ExportsPassed /\ ExportRva # 0 => DirectoryRead /\ Len(exports) = directory.num_names
         /\ ExportsPassed => ExportsFit
         /\ status = "bad_exports" => ~ExportsFit)'
    BY <1>1, SameData, SameReads, SameExports
    DEF IInv, ExportInv, ExportsPassed, AfterSections, AfterExports
  <2>. QED
    BY <2>1, <2>2 DEF ExportInv
<1>5. ImportInv'
  BY <1>1, SameData, SameReads, SameImports DEF IInv, ImportInv, AfterExports
<1>. QED
  BY <1>1, <1>2, <1>3, <1>4, <1>5 DEF IInv, ValidatedReadsSucceed

(* So does a step to the next part of the file. *)
LEMMA MoveKeeps ==
  ASSUME IInv, UNCHANGED Data, UNCHANGED status,
         \/ pc = "dos" /\ pc' = "nt" /\ ~BadDos
         \/ pc = "nt" /\ pc' = "optional" /\ ~BadDos /\ ~BadSignature
         \/ pc = "optional" /\ pc' = "sections" /\ HeadersFit
         \/ pc = "exports" /\ pc' = "imports" /\ ExportRva = 0
         \/ pc = "names" /\ pc' = "imports" /\ Len(exports) = directory.num_names /\ ExportsFit
  PROVE  IInv'
<1>1. status = "running"
  BY DEF IInv
<1>2. TypeOK'
  BY <1>1, SameData DEF IInv
<1>3. HeaderInv'
  <2>1. pc' = "sections" => Len(sections) <= file.section_count
    <3>1. pc' = "sections" => sections = << >> /\ Len(sections) = 0
      BY DEF IInv, HeaderInv
    <3>. QED
      BY <3>1, FileType DEF IInv, TypeOK
  <2>. QED
    BY <1>1, <2>1, SameData, SameFile
    DEF IInv, HeaderInv, HeadersPassed, SectionsPassed, AfterSections, AfterExports
<1>4. ExportInv'
  <2>1. /\ (pc = "names" \/ exports # << >> => DirectoryRead /\ Len(exports) <= directory.num_names)'
        /\ (\A k \in 1..Len(exports) : GoodExport(k - 1) /\ exports[k] = ExportOf(k - 1))'
    BY SameData, SameExports DEF IInv, ExportInv
  <2>2. (pc \in {"dos", "nt", "optional", "sections", "exports"} => exports = << >>)'
    BY SameData DEF IInv, ExportInv
  <2>3. (ExportsPassed /\ ExportRva # 0 => DirectoryRead /\ Len(exports) = directory.num_names)'
    BY <1>1, SameData, SameReads, SameExports DEF IInv, ExportInv, ExportsPassed, AfterExports
  <2>4. ExportsPassed' => ExportsFit'
    BY <1>1, SameData, SameExports, ExportsMean
    DEF IInv, TypeOK, ExportInv, ExportsPassed, AfterExports
  <2>. QED
    BY <1>1, <2>1, <2>2, <2>3, <2>4 DEF ExportInv
<1>5. ImportInv'
  BY <1>1, SameData, SameReads, SameImports DEF IInv, ImportInv
<1>. QED
  BY <1>1, <1>2, <1>3, <1>4, <1>5 DEF IInv, ValidatedReadsSucceed

LEMMA FinishKeeps ==
  ASSUME IInv, UNCHANGED Data, pc = "imports", pc' = "done", status' = "ok",
         ImportRva # 0 => ImportOffset # nullopt /\ InBounds(Current, 20) /\ IsLast(Current)
  PROVE  IInv'
<1>1. TypeOK'
  BY SameData DEF IInv
<1>2. HeaderInv'
  BY SameData, SameFile
  DEF IInv, HeaderInv, HeadersPassed, SectionsPassed, AfterSections, AfterExports
<1>3. ExportInv'
  <2>1. /\ (pc = "names" \/ exports # << >> => DirectoryRead /\ Len(exports) <= directory.num_names)'
        /\ (\A k \in 1..Len(exports) : GoodExport(k - 1) /\ exports[k] = ExportOf(k - 1))'
    BY SameData, SameExports DEF IInv, ExportInv
  <2>2. (/\ ExportsPassed /\ ExportRva # 0 => DirectoryRead /\ Len(exports) = directory.num_names
         /\ ExportsPassed => ExportsFit)'
    BY SameData, SameReads, SameExports DEF IInv, ExportInv, ExportsPassed, AfterExports
  <2>. QED
    BY <2>1, <2>2 DEF ExportInv
<1>4. ImportInv'
  BY SameData, SameReads, SameImports DEF IInv, ImportInv
<1>. QED
  BY <1>1, <1>2, <1>3, <1>4 DEF IInv, ValidatedReadsSucceed

LEMMA ReadSectionKeeps == ASSUME IInv, ReadSection PROVE IInv'
<1> DEFINE s == SectionAt(SectionOffset(Len(sections)))
<1>1. pc = "sections" /\ HeadersFit /\ IsFile(file) /\ sections \in Seq(Section)
      /\ Len(sections) \in Nat /\ Len(sections) < file.section_count
  BY LenProperties DEF ReadSection, IInv, TypeOK, HeaderInv, HeadersPassed
<1>2. /\ sections' = Append(sections, s)
      /\ UNCHANGED <<pc, status, file, dir_count, directory, exports, imports, module>>
  BY <1>1, SectionReadable DEF ReadSection
<1>3. s \in Section
  BY <1>1, SectionType
<1> HIDE DEF s
<1>4. sections' \in Seq(Section) /\ Len(sections') = Len(sections) + 1
  BY <1>1, <1>2, <1>3, AppendProperties
<1>5. TypeOK'
  BY <1>2, <1>4, SameFile DEF IInv, TypeOK
<1>6. HeaderInv'
  <2>1. Len(sections') <= file'.section_count
    BY <1>1, <1>2, <1>4, FileType
  <2>2. status = "running"
    BY <1>1 DEF IInv
  <2>. QED
    BY <1>1, <1>2, <2>1, <2>2, SameFile
    DEF IInv, HeaderInv, HeadersPassed, SectionsPassed, AfterSections, AfterExports
<1>7. ExportInv'
  BY <1>1, <1>2, EmptySeq DEF IInv, ExportInv, ExportsPassed, AfterExports
<1>8. ImportInv'
  BY <1>1, <1>2, EmptySeq DEF IInv, ImportInv
<1>. QED
  BY <1>1, <1>2, <1>5, <1>6, <1>7, <1>8 DEF IInv, ValidatedReadsSucceed

LEMMA ReadDirectoriesKeeps == ASSUME IInv, ReadDirectories PROVE IInv'
<1>1. pc = "sections" /\ HeadersFit /\ IsFile(file) /\ Len(sections) = file.section_count
      /\ status = "running"
  BY DEF ReadDirectories, IInv, TypeOK, HeaderInv, HeadersPassed
<1>2. /\ dir_count' = Directories /\ pc' = "exports"
      /\ UNCHANGED <<status, file, directory, sections, exports, imports, module>>
  BY <1>1, DirectoriesMean DEF ReadDirectories, Goto, image
<1>3. dir_count' \in 0..(Word - 1) /\ DirOffset + dir_count' * 8 <= file.size
  BY <1>1, <1>2, DirectoriesMean
<1>4. TypeOK'
  BY <1>2, <1>3, SameFile DEF IInv, TypeOK
<1>5. HeaderInv'
  <2>1. Len(sections) <= file.section_count
    BY <1>1, FileType
  <2>. QED
    BY <1>1, <1>2, <2>1, SameFile
    DEF IInv, HeaderInv, HeadersPassed, SectionsPassed, AfterSections, AfterExports
<1>6. ExportInv'
  BY <1>1, <1>2, EmptySeq DEF IInv, ExportInv, ExportsPassed, AfterExports
<1>7. ImportInv'
  BY <1>1, <1>2, EmptySeq DEF IInv, ImportInv
<1>. QED
  BY <1>1, <1>2, <1>4, <1>5, <1>6, <1>7 DEF IInv, ValidatedReadsSucceed

LEMMA AcceptExportsKeeps == ASSUME IInv, AcceptExports PROVE IInv'
<1> DEFINE d == DirectoryAt(ExportOffset)
<1>1. /\ pc = "exports" /\ pc' = "names" /\ ExportRva # 0 /\ DirectoryFits(ExportOffset)
      /\ directory' = d /\ ArraysFit(d)
      /\ UNCHANGED <<status, file, dir_count, sections, exports, imports, module>>
  BY DEF AcceptExports, Goto, image
<1>2. UNCHANGED Tables /\ IsFile(file) /\ sections \in Seq(Section) /\ status = "running"
      /\ exports = << >> /\ imports = << >> /\ module = NoModule
  BY <1>1 DEF Tables, IInv, TypeOK, ExportInv, ImportInv
<1>3. DirectoryRead'
  <2>1. ExportRva' # 0 /\ DirectoryFits(ExportOffset)' /\ directory' = DirectoryAt(ExportOffset)'
    BY <1>1, <1>2, SameReads, SameExports
  <2>2. ArraysFit(directory)'
    BY <1>1, <1>2, SameReads DEF ArraysFit
  <2>. QED
    BY <2>1, <2>2 DEF DirectoryRead
<1>4. DOMAIN d = DOMAIN NoDirectory /\ (\A x \in DOMAIN d : d[x] \in -1..(Word - 1))
      /\ d.num_names \in 0..(Word - 1)
  BY <1>2, DirectoryType
<1> HIDE DEF d
<1>5. TypeOK'
  BY <1>1, <1>4, SameFile DEF IInv, TypeOK
<1>6. HeaderInv'
  BY <1>1, <1>2, SameFile
  DEF IInv, HeaderInv, HeadersPassed, SectionsPassed, AfterSections, AfterExports
<1>7. ExportInv'
  <2>1. Len(exports') = 0 /\ Len(exports') <= directory'.num_names
    BY <1>1, <1>2, <1>4, EmptySeq, Widths
  <2>. QED
    BY <1>1, <1>2, <1>3, <2>1 DEF ExportInv, ExportsPassed, AfterExports
<1>8. ImportInv'
  BY <1>1, <1>2, EmptySeq DEF ImportInv
<1>. QED
  BY <1>1, <1>2, <1>5, <1>6, <1>7, <1>8 DEF IInv, ValidatedReadsSucceed

LEMMA ReadExportKeeps == ASSUME IInv, ReadExport PROVE IInv'
<1> DEFINE n == Len(exports)
           x == ExportOf(n)
<1>1. /\ pc = "names" /\ n < directory.num_names /\ n \in Nat
      /\ IsFile(file) /\ sections \in Seq(Section) /\ exports \in Seq(Export)
      /\ DirectoryRead /\ status = "running"
  BY LenProperties DEF ReadExport, next, IInv, TypeOK, ExportInv
<1>2. EntryInBounds(n) /\ GoodExport(n) /\ InBounds(FunctionEntry(OrdinalIndex(n)), 4)
  <2>1. EntryInBounds(n)
    BY <1>1, ExportReadable
  <2>2. GoodExport(n)
    BY <2>1 DEF ReadExport, next
  <2>. QED
    BY <1>1, <2>1, <2>2, ExportReadable DEF GoodExport, OrdinalInRange
<1>3. /\ exports' = Append(exports, x)
      /\ UNCHANGED <<pc, status, file, dir_count, directory, sections, imports, module>>
  BY <1>2 DEF ReadExport, next
<1>4. x \in Export
  BY <1>1, ExportType
<1>5. UNCHANGED Tables
  BY <1>3 DEF Tables
<1> HIDE DEF x
<1>6. /\ exports' \in Seq(Export) /\ Len(exports') = n + 1
      /\ \A k \in 1..n : exports'[k] = exports[k]
      /\ exports'[n + 1] = x
  BY <1>1, <1>3, <1>4, AppendProperties
<1>7. ASSUME NEW k \in 1..(n + 1)
      PROVE  GoodExport(k - 1) /\ exports'[k] = ExportOf(k - 1)
  <2>1. CASE k \in 1..n
    BY <1>6, <2>1 DEF IInv, ExportInv
  <2>2. CASE k = n + 1
    <3>1. k - 1 = n
      BY <1>1, <2>2
    <3>. QED
      BY <1>2, <1>6, <2>2, <3>1 DEF x
  <2>. QED
    BY <1>1, <2>1, <2>2
<1>8. n + 1 <= directory.num_names
  BY <1>1, DirectoryMeans, Widths
<1> HIDE DEF n
<1>9. TypeOK'
  BY <1>3, <1>6, SameFile DEF IInv, TypeOK
<1>10. HeaderInv'
  BY <1>1, <1>3, SameFile
  DEF IInv, HeaderInv, HeadersPassed, SectionsPassed, AfterSections, AfterExports
<1>11. ExportInv'
  <2>1. \A k \in 1..Len(exports') : GoodExport(k - 1)' /\ exports'[k] = ExportOf(k - 1)'
    BY <1>3, <1>5, <1>6, <1>7, SameExports
  <2>2. DirectoryRead' /\ Len(exports') <= directory'.num_names
    BY <1>1, <1>3, <1>5, <1>6, <1>8, SameExports
  <2>. QED
    BY <1>1, <1>3, <2>1, <2>2 DEF ExportInv, ExportsPassed, AfterExports
<1>12. ImportInv'
  BY <1>1, <1>3, EmptySeq DEF IInv, ImportInv
<1>. QED
  BY <1>1, <1>3, <1>9, <1>10, <1>11, <1>12 DEF IInv, ValidatedReadsSucceed

(* While the imports are read, nothing else of the image changes. *)
LEMMA SameRest ==
  ASSUME IInv, pc \in AfterExports, pc' \in AfterExports,
         UNCHANGED <<status, file, dir_count, directory, sections, exports>>
  PROVE  HeaderInv' /\ ExportInv'
<1>1. UNCHANGED Tables
  BY DEF Tables
<1>2. HeaderInv'
  BY SameFile DEF IInv, HeaderInv, HeadersPassed, SectionsPassed, AfterSections, AfterExports
<1>3. ExportInv'
  <2>1. /\ (pc = "names" \/ exports # << >> => DirectoryRead /\ Len(exports) <= directory.num_names)'
        /\ (\A k \in 1..Len(exports) : GoodExport(k - 1) /\ exports[k] = ExportOf(k - 1))'
    BY <1>1, SameExports DEF IInv, ExportInv, AfterExports
  <2>2. (/\ ExportsPassed /\ ExportRva # 0 => DirectoryRead /\ Len(exports) = directory.num_names
         /\ ExportsPassed => ExportsFit
         /\ status = "bad_exports" => ~ExportsFit)'
    BY <1>1, SameReads, SameExports DEF IInv, ExportInv, ExportsPassed
  <2>. QED
    BY <2>1, <2>2 DEF ExportInv, AfterExports
<1>. QED
  BY <1>2, <1>3

Modules == Seq([name : String, functions : Seq(ImportFunction)])

LEMMA OpenModuleKeeps == ASSUME IInv, OpenModule PROVE IInv'
<1> DEFINE j == Len(imports)
           m == ModuleAt(Descriptor(j))
<1>1. /\ pc = "imports" /\ pc' = "thunks" /\ ImportRva # 0 /\ ImportOffset # nullopt
      /\ InBounds(Descriptor(j), 20) /\ ~IsLast(Descriptor(j))
      /\ module' = m /\ GoodModule(m)
      /\ UNCHANGED <<status, file, dir_count, directory, sections, exports, imports>>
  BY DEF OpenModule, Goto, Current, GoodModule
<1>2. UNCHANGED Tables /\ IsFile(file) /\ sections \in Seq(Section) /\ status = "running"
  BY <1>1 DEF Tables, IInv, TypeOK
<1>3. /\ m \in [name : String, thunks : -1..(Word - 1), functions : Seq(ImportFunction)]
      /\ m.functions = << >> /\ m.thunks = Thunks(j)
  BY <1>2, ModuleType DEF Thunks
<1>4. ModuleRead(j, m)
  <2>1. FunctionsRead(Thunks(j), m.functions)
    BY <1>3, EmptySeq DEF FunctionsRead
  <2>. QED
    BY <1>1, <2>1 DEF ModuleRead
<1> HIDE DEF m
<1>5. TypeOK'
  BY <1>1, <1>3, SameFile DEF IInv, TypeOK
<1>6. HeaderInv' /\ ExportInv'
  BY <1>1, SameRest DEF AfterExports
<1>7. ImportInv'
  <2>1. ModuleRead(j, module)' /\ module'.thunks = Thunks(j)'
    BY <1>1, <1>2, <1>3, <1>4, SameReads, SameImports DEF ModuleRead
  <2>2. j' = j
    BY <1>1
  <2>3. (\A k \in 1..Len(imports) : /\ ModuleRead(k - 1, imports[k])
                                    /\ Ended(Thunks(k - 1), Len(imports[k].functions)))'
    BY <1>1, <1>2, SameImports DEF IInv, ImportInv
  <2> HIDE DEF j
  <2>4. (pc = "thunks" \/ module # NoModule =>
           ModuleRead(Len(imports), module) /\ module.thunks = Thunks(Len(imports)))'
    BY <2>1, <2>2 DEF j
  <2>. QED
    BY <1>1, <1>2, <2>3, <2>4 DEF ImportInv
<1>. QED
  BY <1>1, <1>2, <1>5, <1>6, <1>7 DEF IInv, ValidatedReadsSucceed

(* Where the next thunk is, and what it says. *)
LEMMA ThisThunk ==
  ASSUME IInv, pc = "thunks"
  PROVE  LET n == Len(module.functions)
             t == Thunks(Len(imports))
         IN  /\ n \in Nat /\ t \in 0..(Word - 1) /\ module.thunks = t
             /\ ModuleRead(Len(imports), module)
             /\ Thunk(ThisOffset) = ThunkValue(t, n)
             /\ InBounds(ThisOffset, ThunkSize) <=> t + PlaceOf(n + 1) <= file.size
<1> DEFINE j == Len(imports)
           n == Len(module.functions)
           t == Thunks(j)
<1>1. IsFile(file) /\ sections \in Seq(Section) /\ n \in Nat /\ j \in Nat
  BY LenProperties DEF IInv, TypeOK
<1>2. ModuleRead(j, module) /\ module.thunks = t
  BY DEF IInv, ImportInv
<1>3. FunctionsRead(t, module.functions) /\ GoodModule(ModuleAt(Descriptor(j)))
  BY <1>2 DEF ModuleRead
<1>4. t \in 0..(Word - 1)
  BY <1>1, <1>3, ModuleMeans
<1> HIDE DEF t
<1>5. /\ U32(t + n * ThunkSize) = t + PlaceOf(n)
      /\ InBounds(t + PlaceOf(n), ThunkSize) <=> t + PlaceOf(n + 1) <= file.size
  BY <1>1, <1>3, <1>4, NextThunk
<1>6. ThisOffset = t + PlaceOf(n)
  BY <1>2, <1>5 DEF ThisOffset, ThunkOffset
<1>7. Thunk(ThisOffset) = ThunkValue(t, n)
  BY <1>6 DEF ThunkValue
<1>. QED
  BY <1>1, <1>2, <1>4, <1>5, <1>6, <1>7 DEF t

LEMMA ReadThunkKeeps == ASSUME IInv, ReadThunk PROVE IInv'
<1> DEFINE j == Len(imports)
           t == Thunks(j)
           f == module.functions
           n == Len(f)
           v == ThunkValue(t, n)
           x == ImportOf(v)
<1>1. /\ pc = "thunks" /\ InBounds(ThisOffset, ThunkSize) /\ Thunk(ThisOffset) # 0
      /\ GoodThunk(Thunk(ThisOffset))
      /\ module' = [module EXCEPT !.functions = Append(@, ImportOf(Thunk(ThisOffset)))]
      /\ UNCHANGED <<status, file, pc, dir_count, directory, sections, exports, imports>>
  BY DEF ReadThunk
<1>2. UNCHANGED Tables /\ IsFile(file) /\ sections \in Seq(Section)
      /\ module \in [name : String, thunks : -1..(Word - 1), functions : Seq(ImportFunction)]
  BY <1>1 DEF Tables, IInv, TypeOK
<1>3. /\ n \in Nat /\ module.thunks = t /\ ModuleRead(j, module)
      /\ v # 0 /\ GoodThunk(v) /\ t + PlaceOf(n + 1) <= file.size
      /\ Thunk(ThisOffset) = v
  BY <1>1, ThisThunk
<1>4. x \in ImportFunction
  <2>1. v \in 0..Max64
    BY <1>2, ThunkType DEF ThunkValue
  <2>. QED
    BY <1>2, <2>1, ImportMeans
<1> HIDE DEF t, v, x, n
<1>5. /\ f \in Seq(ImportFunction)
      /\ module' = [module EXCEPT !.functions = Append(f, x)]
  BY <1>1, <1>2, <1>3 DEF x
<1> HIDE DEF f
<1>6. /\ Append(f, x) \in Seq(ImportFunction) /\ Len(Append(f, x)) = n + 1
      /\ \A k \in 1..n : Append(f, x)[k] = f[k]
      /\ Append(f, x)[n + 1] = x
  BY <1>4, <1>5, AppendProperties DEF n
<1>7. /\ module'.functions = Append(f, x) /\ module'.name = module.name
      /\ module'.thunks = module.thunks
      /\ module' \in [name : String, thunks : -1..(Word - 1), functions : Seq(ImportFunction)]
  BY <1>2, <1>5, <1>6
<1>8. FunctionsRead(t, module'.functions)
  <2>1. FunctionsRead(t, f)
    BY <1>3 DEF ModuleRead, t, f
  <2>2. ASSUME NEW k \in 1..(n + 1)
        PROVE  /\ t + PlaceOf(k) <= file.size
               /\ ThunkValue(t, k - 1) # 0 /\ GoodThunk(ThunkValue(t, k - 1))
               /\ module'.functions[k] = ImportOf(ThunkValue(t, k - 1))
    <3>1. CASE k \in 1..n
      BY <1>6, <1>7, <2>1, <3>1 DEF FunctionsRead, n
    <3>2. CASE k = n + 1
      <4>1. k - 1 = n
        BY <1>3, <3>2
      <4>. QED
        BY <1>3, <1>6, <1>7, <3>2, <4>1 DEF v, x
    <3>. QED
      BY <1>3, <3>1, <3>2
  <2>. QED
    BY <1>6, <1>7, <2>2 DEF FunctionsRead
<1>9. ModuleRead(j, module')
  BY <1>3, <1>7, <1>8 DEF ModuleRead, t
<1>10. TypeOK'
  BY <1>1, <1>7, SameFile DEF IInv, TypeOK
<1>11. HeaderInv' /\ ExportInv'
  BY <1>1, SameRest DEF AfterExports
<1>12. ImportInv'
  <2>1. ModuleRead(j, module)' /\ module'.thunks = Thunks(j)'
    BY <1>1, <1>2, <1>3, <1>7, <1>9, SameReads, SameImports DEF ModuleRead, t
  <2>2. j' = j
    BY <1>1
  <2>3. (\A k \in 1..Len(imports) : /\ ModuleRead(k - 1, imports[k])
                                    /\ Ended(Thunks(k - 1), Len(imports[k].functions)))'
    BY <1>1, <1>2, SameImports DEF IInv, ImportInv
  <2> HIDE DEF j
  <2>4. (pc = "thunks" \/ module # NoModule =>
           ModuleRead(Len(imports), module) /\ module.thunks = Thunks(Len(imports)))'
    BY <2>1, <2>2 DEF j
  <2>. QED
    BY <1>1, <2>3, <2>4 DEF IInv, ImportInv
<1>. QED
  BY <1>1, <1>10, <1>11, <1>12 DEF IInv, ValidatedReadsSucceed

LEMMA CloseModuleKeeps == ASSUME IInv, CloseModule PROVE IInv'
<1> DEFINE j == Len(imports)
           t == Thunks(j)
           x == [name |-> module.name, functions |-> module.functions]
<1>1. /\ pc = "thunks" /\ pc' = "imports" /\ AtEnd /\ imports' = Append(imports, x)
      /\ module' = NoModule
      /\ UNCHANGED <<status, file, dir_count, directory, sections, exports>>
  BY DEF CloseModule, Goto
<1>2. UNCHANGED Tables /\ IsFile(file) /\ sections \in Seq(Section) /\ imports \in Modules
      /\ module \in [name : String, thunks : -1..(Word - 1), functions : Seq(ImportFunction)]
      /\ status = "running" /\ j \in Nat
  BY <1>1, LenProperties DEF Tables, IInv, TypeOK, Modules
<1>3. ModuleRead(j, module) /\ Ended(t, Len(module.functions))
  BY <1>1, ThisThunk DEF AtEnd, Ended
<1>4. /\ x \in [name : String, functions : Seq(ImportFunction)]
      /\ x.name = module.name /\ x.functions = module.functions
  BY <1>2
<1>5. ModuleRead(j, x) /\ Ended(t, Len(x.functions))
  BY <1>3, <1>4 DEF ModuleRead
<1> HIDE DEF x
<1>6. /\ imports' \in Modules /\ Len(imports') = j + 1
      /\ \A k \in 1..j : imports'[k] = imports[k]
      /\ imports'[j + 1] = x
  BY <1>1, <1>2, <1>4, AppendProperties DEF Modules
<1>7. ASSUME NEW k \in 1..(j + 1)
      PROVE  ModuleRead(k - 1, imports'[k]) /\ Ended(Thunks(k - 1), Len(imports'[k].functions))
  <2>1. CASE k \in 1..j
    BY <1>6, <2>1 DEF IInv, ImportInv
  <2>2. CASE k = j + 1
    <3>1. k - 1 = j
      BY <1>2, <2>2
    <3>. QED
      BY <1>5, <1>6, <2>2, <3>1
  <2>. QED
    BY <1>2, <2>1, <2>2
<1> HIDE DEF j
<1>8. NoModule \in [name : String, thunks : -1..(Word - 1), functions : Seq(ImportFunction)]
  BY NoStringType, EmptySeq, Widths DEF NoModule, nullopt
<1>9. TypeOK'
  BY <1>1, <1>6, <1>8, SameFile DEF IInv, TypeOK, Modules
<1>10. HeaderInv' /\ ExportInv'
  BY <1>1, SameRest DEF AfterExports
<1>11. ImportInv'
  <2>1. (\A k \in 1..Len(imports) : /\ ModuleRead(k - 1, imports[k])
                                    /\ Ended(Thunks(k - 1), Len(imports[k].functions)))'
    BY <1>2, <1>6, <1>7, SameImports
  <2>. QED
    BY <1>1, <1>2, <2>1 DEF ImportInv, NoModule
<1>. QED
  BY <1>1, <1>2, <1>9, <1>10, <1>11 DEF IInv, ValidatedReadsSucceed

LEMMA HeadersKeep == ASSUME IInv, ParseHeaders PROVE IInv'
<1> USE DEF Return, Goto, Data
<1>1. IsFile(file) /\ (pc \in {"nt", "optional"} => ~BadDos) /\ (pc = "optional" => ~BadSignature)
  BY DEF IInv, TypeOK, HeaderInv
<1>2. CASE RejectDos \/ RejectSignature \/ RejectOptional
  <2>1. ~HeadersFit
    BY <1>1, <1>2, HeadersMean DEF RejectDos, RejectSignature, RejectOptional
  <2>. QED
    BY <1>2, <2>1, FailKeeps DEF RejectDos, RejectSignature, RejectOptional
<1>3. CASE AcceptDos
  BY <1>3, MoveKeeps DEF AcceptDos
<1>4. CASE AcceptSignature
  <2>1. InBounds(CoffOffset, 20)
    BY <1>1, <1>4, HeadersMean DEF AcceptSignature
  <2>. QED
    BY <1>1, <1>4, <2>1, MoveKeeps DEF AcceptSignature
<1>5. CASE AcceptOptional
  BY <1>1, <1>5, HeadersMean, MoveKeeps DEF AcceptOptional
<1>. QED
  BY <1>2, <1>3, <1>4, <1>5, ReadSectionKeeps, ReadDirectoriesKeeps DEF ParseHeaders

LEMMA ExportsKeep == ASSUME IInv, ParseExports PROVE IInv'
<1> USE DEF Return, Goto, Data
<1>1. /\ IsFile(file) /\ sections \in Seq(Section) /\ dir_count \in 0..(Word - 1)
      /\ Len(exports) \in Nat
      /\ pc = "names" => DirectoryRead
  BY LenProperties DEF IInv, TypeOK, ExportInv
<1>2. CASE NoExports
  BY <1>2, MoveKeeps DEF NoExports
<1>3. CASE RejectExports
  <2>1. ~ExportsFit
    BY <1>1, <1>3, ExportsMean DEF RejectExports
  <2>. QED
    BY <1>3, <2>1, FailKeeps DEF RejectExports, AfterSections
<1>4. CASE RejectExport
  <2>1. pc = "names" /\ DirectoryRead /\ Len(exports) < directory.num_names
        /\ ~GoodExport(Len(exports))
    BY <1>1, <1>4 DEF RejectExport, next
  <2>2. Len(exports) \in 0..(directory.num_names - 1)
    <3>1. directory.num_names \in Nat
      BY <1>1, <2>1, DirectoryMeans, Widths
    <3>. QED
      BY <1>1, <2>1, <3>1
  <2>3. ~ExportsFit
    BY <1>1, <2>1, <2>2, ExportsMean
  <2>. QED
    BY <1>4, <2>1, <2>3, FailKeeps DEF RejectExport, AfterSections
<1>5. CASE ExportsRead
  <2>1. pc = "names" /\ DirectoryRead /\ Len(exports) = directory.num_names
    BY <1>1, <1>5 DEF ExportsRead, next
  <2>2. ASSUME NEW k \in 0..(directory.num_names - 1) PROVE GoodExport(k)
    <3>1. k + 1 \in 1..Len(exports) /\ (k + 1) - 1 = k
      BY <1>1, <2>1
    <3>2. GoodExport((k + 1) - 1)
      BY <3>1 DEF IInv, ExportInv
    <3>. QED
      BY <3>1, <3>2
  <2>3. ExportsFit
    BY <1>1, <2>1, <2>2, ExportsMean
  <2>. QED
    BY <1>5, <2>1, <2>3, MoveKeeps DEF ExportsRead
<1>. QED
  BY <1>2, <1>3, <1>4, <1>5, AcceptExportsKeeps, ReadExportKeeps DEF ParseExports

LEMMA ImportsKeep == ASSUME IInv, ParseImports PROVE IInv'
<1> USE DEF Return, Goto, Data
<1> DEFINE j == Len(imports)
<1>1. /\ IsFile(file) /\ sections \in Seq(Section) /\ dir_count \in 0..(Word - 1)
      /\ j \in Nat
      /\ \A k \in 1..j : ~IsLast(Descriptor(k - 1))
  BY LenProperties DEF IInv, TypeOK, ImportInv, ModuleRead
<1>2. Current = Descriptor(j)
  BY DEF Current
<1> HIDE DEF j
<1>3. CASE NoImports
  BY <1>3, FinishKeeps DEF NoImports
<1>4. CASE LastDescriptor
  BY <1>4, FinishKeeps DEF LastDescriptor
<1>5. CASE RejectImports
  <2>1. /\ pc = "imports" /\ ImportRva # 0
        /\ \/ ImportOffset = nullopt \/ ~InBounds(Descriptor(j), 20)
           \/ ~IsLast(Descriptor(j)) /\ ~GoodModule(ModuleAt(Descriptor(j)))
    BY <1>2, <1>5 DEF RejectImports
  <2>2. ~ImportsFit
    BY <1>1, <2>1, ImportsMean
  <2>. QED
    BY <1>5, <2>2, FailKeeps DEF RejectImports, AfterExports
<1>6. CASE RejectThunk
  <2> DEFINE t == Thunks(j)
             f == module.functions
  <2>1. pc = "thunks"
    BY <1>6 DEF RejectThunk
  <2>2. /\ Len(f) \in Nat /\ t \in 0..(Word - 1) /\ ModuleRead(j, module)
        /\ Thunk(ThisOffset) = ThunkValue(t, Len(f))
        /\ InBounds(ThisOffset, ThunkSize) <=> t + PlaceOf(Len(f) + 1) <= file.size
    BY <2>1, ThisThunk DEF j
  <2>3. /\ FunctionsRead(t, f) /\ ImportRva # 0
        /\ ~IsLast(Descriptor(j))
    BY <2>2 DEF ModuleRead
  <2>4. InBounds(ThisOffset, ThunkSize) => Thunk(ThisOffset) # 0 /\ ~GoodThunk(Thunk(ThisOffset))
    BY <1>6 DEF RejectThunk
  <2> HIDE DEF t, f
  <2>5. ~ThunksHold(t)
    BY <1>1, <2>2, <2>3, <2>4, ThunksMean
  <2>6. ~ImportsFit
    BY <1>1, <2>3, <2>5, ImportsMean DEF t
  <2>. QED
    BY <1>6, <2>1, <2>6, FailKeeps DEF RejectThunk, AfterExports
<1>. QED
  BY <1>3, <1>4, <1>5, <1>6, OpenModuleKeeps, ReadThunkKeeps, CloseModuleKeeps DEF ParseImports

LEMMA StutterKeeps == ASSUME IInv, UNCHANGED vars PROVE IInv'
<1>1. UNCHANGED Data /\ UNCHANGED <<pc, status>> /\ UNCHANGED Tables
  BY SameData DEF vars, Data
<1> USE <1>1, SameData, SameFile, SameReads
<1>2. TypeOK' /\ ValidatedReadsSucceed'
  BY DEF IInv, TypeOK, ValidatedReadsSucceed
<1>3. HeaderInv'
  BY DEF IInv, HeaderInv, HeadersPassed, SectionsPassed
<1>4. ExportInv'
  BY SameExports DEF IInv, ExportInv, ExportsPassed
<1>5. ImportInv'
  BY SameImports DEF IInv, ImportInv
<1>. QED
  BY <1>2, <1>3, <1>4, <1>5 DEF IInv

(* The conditions above hold throughout every call. *)
THEOREM Invariance == Spec => []IInv
<1>1. IInv /\ [Next]_vars => IInv'
  BY HeadersKeep, ExportsKeep, ImportsKeep, StutterKeeps DEF Next, Parse, Terminating
<1>. QED
  BY InitIInv, <1>1, PTL DEF Spec

(* The type of every variable: ordinals have 16 bits whatever is added up  *)
(* for them, and the directories that are looked at are in the file.       *)
THEOREM TypeCorrect == Spec => []TypeOK
BY Invariance, PTL DEF IInv

(* pe.cpp checks e_lfanew, the section table, the directories and the      *)
(* three export arrays once each.  Whatever they say, and however the      *)
(* 32-bit sums wrap, no read behind a check fails.                         *)
THEOREM ReadsSucceed == Spec => []ValidatedReadsSucceed
BY Invariance, PTL DEF IInv

-----------------------------------------------------------------------------
(* What the image holds. *)

(* Every name in the image ends in the file and within the bytes that are  *)
(* looked at (pe.cpp:140, 368, 408, 461), and there is no zero byte in it. *)
THEOREM StringsEnd == Spec => []StringsInFile
<1>1. ASSUME IInv PROVE StringsInFile
  <2>1. /\ IsFile(file) /\ sections \in Seq(Section)
        /\ Len(exports) \in Nat /\ Len(imports) \in Nat
    BY <1>1, LenProperties DEF IInv, TypeOK
  <2>2. ASSUME NEW k \in 1..Len(exports)
        PROVE  /\ IsString(exports[k].name)
               /\ exports[k].forwarder # NoString => IsString(exports[k].forwarder)
    <3>1. /\ exports # << >> /\ DirectoryRead /\ Len(exports) <= directory.num_names
          /\ GoodExport(k - 1) /\ exports[k] = ExportOf(k - 1)
      BY <1>1, <2>1, <2>2, EmptySeq DEF IInv, ExportInv
    <3>2. k - 1 \in Nat /\ k - 1 < directory.num_names
      <4>1. directory.num_names \in Nat
        BY <2>1, <3>1, DirectoryMeans, Widths
      <4>. QED
        BY <2>1, <3>1, <4>1
    <3>. QED
      BY <2>1, <3>1, <3>2, ExportType
  <2>3. ASSUME NEW k \in Nat, NEW m, ModuleRead(k, m)
        PROVE  /\ IsString(m.name)
               /\ \A n \in 1..Len(m.functions) :
                    m.functions[n].by_ordinal \/ IsString(m.functions[n].name)
    <3>1. IsString(m.name)
      BY <2>1, <2>3, ModuleMeans DEF ModuleRead
    <3>2. ASSUME NEW n \in 1..Len(m.functions)
          PROVE  m.functions[n].by_ordinal \/ IsString(m.functions[n].name)
      <4>1. /\ GoodThunk(ThunkValue(Thunks(k), n - 1))
            /\ m.functions[n] = ImportOf(ThunkValue(Thunks(k), n - 1))
        BY <2>3, <3>2 DEF ModuleRead, FunctionsRead
      <4>2. ThunkValue(Thunks(k), n - 1) \in 0..Max64
        BY <2>1, ThunkType DEF ThunkValue
      <4>. QED
        BY <2>1, <4>1, <4>2, ImportMeans
    <3>. QED
      BY <3>1, <3>2
  <2>4. ASSUME NEW k \in 1..Len(imports) PROVE IsString(imports[k].name)
    <3>1. k - 1 \in Nat /\ ModuleRead(k - 1, imports[k])
      BY <1>1, <2>1, <2>4 DEF IInv, ImportInv
    <3>. QED
      BY <2>3, <3>1
  <2>5. ASSUME NEW k \in 1..Len(module.functions)
        PROVE  module.functions[k].by_ordinal \/ IsString(module.functions[k].name)
    <3>1. CASE module = NoModule
      BY <2>5, <3>1, EmptySeq DEF NoModule
    <3>2. CASE module # NoModule
      BY <1>1, <2>1, <2>3, <2>5, <3>2 DEF IInv, ImportInv
    <3>. QED
      BY <3>1, <3>2
  <2>. QED
    BY <2>2, <2>4, <2>5 DEF StringsInFile
<1>. QED
  BY <1>1, Invariance, PTL

(* The comparison with the end of the directory, which wraps, never takes  *)
(* an address outside the directory for one inside, and misses none inside *)
(* a directory whose end does not wrap.                                    *)
LEMMA ForwardedMeans ==
  ASSUME IsFile(file), dir_count \in 0..(Word - 1), NEW rva \in 0..(Word - 1)
  PROVE  /\ Forwarded(rva) => InDirectory(rva)
         /\ InDirectory(rva) /\ ExportRva + DirectorySize(0) < Word => Forwarded(rva)
<1> DEFINE b == ExportRva
           s == DirectorySize(0)
           e == b + s
<1>1. b \in 0..(Word - 1) /\ s \in 0..(Word - 1)
  BY AddressType
<1>2. Forwarded(rva) <=> rva >= b /\ rva < U32(e)
  BY DEF Forwarded
<1> HIDE DEF b, s
<1>3. e \in Nat /\ e < 2 * Word /\ e = b + s
  BY <1>1, Widths
<1> HIDE DEF e
<1>4. /\ e < Word => U32(e) = e
      /\ e >= Word => U32(e) = e - Word
  BY <1>3, Wrapped
<1>5. Forwarded(rva) <=> b + s < Word /\ rva - b \in 0..(s - 1)
  BY <1>1, <1>2, <1>3, <1>4, Widths
<1>. QED
  BY <1>5 DEF b, s, InDirectory

(* An export has the address and the ordinal of its name, read from the    *)
(* three arrays.  If it is flagged as a forwarder its address is in the    *)
(* directory; the converse holds of a directory that ends below 2^32.      *)
THEOREM ExportsAreThoseOfTheFile == Spec => []ExportsSoFar
<1>1. ASSUME IInv PROVE ExportsSoFar
  <2> SUFFICES ASSUME NEW k \in 1..Len(exports)
               PROVE  \E f \in 0..(directory.num_functions - 1) :
                        /\ f = U16At(directory.ordinals + (k - 1) * 2)
                        /\ exports[k].rva = U32At(directory.functions + f * 4)
                        /\ exports[k].ordinal = (directory.base + f) % (Max16 + 1)
                        /\ exports[k].forwarded => InDirectory(exports[k].rva)
                        /\ InDirectory(exports[k].rva) /\ ExportRva + DirectorySize(0) < Word
                             => exports[k].forwarded
    BY DEF ExportsSoFar
  <2>1. /\ IsFile(file) /\ sections \in Seq(Section) /\ Len(exports) \in Nat
        /\ dir_count \in 0..(Word - 1)
    BY <1>1, LenProperties DEF IInv, TypeOK
  <2>2. /\ exports # << >> /\ DirectoryRead /\ Len(exports) <= directory.num_names
        /\ GoodExport(k - 1) /\ exports[k] = ExportOf(k - 1)
    BY <1>1, <2>1, EmptySeq DEF IInv, ExportInv
  <2>3. /\ directory.num_names \in Nat /\ directory.num_functions \in Nat
        /\ directory.base \in Nat
    BY <2>1, <2>2, DirectoryMeans, Widths
  <2>4. k - 1 \in Nat /\ k - 1 < directory.num_names
    BY <2>1, <2>2, <2>3
  <2> DEFINE f == OrdinalIndex(k - 1)
             rva == U32At(FunctionEntry(f))
  <2>5. f < directory.num_functions
    BY <2>2 DEF GoodExport, OrdinalInRange
  <2>6. /\ f \in 0..Max16 /\ f = U16At(directory.ordinals + (k - 1) * 2)
        /\ FunctionEntry(f) = directory.functions + f * 4
    BY <2>1, <2>2, <2>4, <2>5, ExportReadable
  <2>7. exports[k].rva = rva /\ exports[k].ordinal = Ordinal(f)
        /\ exports[k].forwarded = Forwarded(rva)
    BY <2>2 DEF ExportOf
  <2>8. rva \in 0..(Word - 1)
    BY <2>1, Integers64
  <2> HIDE DEF rva
  <2>9. /\ exports[k].forwarded => InDirectory(exports[k].rva)
        /\ InDirectory(exports[k].rva) /\ ExportRva + DirectorySize(0) < Word
             => exports[k].forwarded
    BY <2>1, <2>7, <2>8, ForwardedMeans
  <2>10. f \in 0..(directory.num_functions - 1)
    BY <2>3, <2>5, <2>6, Widths
  <2>11. /\ exports[k].rva = U32At(directory.functions + f * 4)
         /\ exports[k].ordinal = (directory.base + f) % (Max16 + 1)
    BY <2>6, <2>7 DEF rva, Ordinal, U16
  <2>. QED
    BY <2>6, <2>9, <2>10, <2>11
<1>. QED
  BY <1>1, Invariance, PTL

(* Of an accepted file no section, no name of the export directory, no     *)
(* descriptor in front of the zero one and no thunk in front of the zero   *)
(* one is left out.                                                        *)
THEOREM NothingAcceptedInPart == Spec => []AcceptedIsComplete
<1>1. ASSUME IInv PROVE AcceptedIsComplete
  <2> SUFFICES ASSUME status = "ok"
               PROVE  /\ Len(sections) = file.section_count
                      /\ \A d \in {0, 1} : d < dir_count <=>
                           d < file.dir_count /\ DirOffset + (d + 1) * 8 <= file.size
                      /\ ExportRva # 0 =>
                           \A k \in 1..U32At(ExportOffset + 24) :
                             /\ k <= Len(exports)
                             /\ exports[k].name
                                  = StringAt(U32At(RvaToOffset[U32At(ExportOffset + 32)] + (k - 1) * 4))
                      /\ ImportRva # 0 => IsLast(Current)
                      /\ \A k \in 1..Len(imports) :
                           LET n == Len(imports[k].functions)
                           IN  /\ ~IsLast(Descriptor(k - 1))
                               /\ \A m \in 0..n : ThunkValue(Thunks(k - 1), m) = 0 <=> m = n
    BY DEF AcceptedIsComplete
  <2>1. SectionsPassed /\ HeadersPassed /\ ExportsPassed
    BY DEF SectionsPassed, HeadersPassed, ExportsPassed
  <2>2. /\ IsFile(file) /\ HeadersFit
        /\ Len(sections) = file.section_count /\ dir_count = Directories
    BY <1>1, <2>1 DEF IInv, TypeOK, HeaderInv
  <2>3. \A d \in {0, 1} : d < dir_count <=>
          d < file.dir_count /\ DirOffset + (d + 1) * 8 <= file.size
    BY <2>2, DirectoriesMean
  <2>4. ASSUME ExportRva # 0, NEW k \in 1..U32At(ExportOffset + 24)
        PROVE  /\ k <= Len(exports)
               /\ exports[k].name
                    = StringAt(U32At(RvaToOffset[U32At(ExportOffset + 32)] + (k - 1) * 4))
    <3>1. /\ DirectoryRead /\ Len(exports) = directory.num_names
          /\ directory = DirectoryAt(ExportOffset) /\ sections \in Seq(Section)
      BY <1>1, <2>1, <2>4 DEF IInv, TypeOK, ExportInv, DirectoryRead
    <3>2. /\ directory.num_names = U32At(ExportOffset + 24)
          /\ directory.names = RvaToOffset[U32At(ExportOffset + 32)]
      BY <3>1 DEF DirectoryAt
    <3>3. directory.num_names \in Nat
      BY <2>2, <3>1, DirectoryMeans, Widths
    <3>4. k \in 1..Len(exports) /\ k - 1 \in Nat /\ k - 1 < directory.num_names
      BY <2>4, <3>1, <3>2, <3>3
    <3>5. exports[k] = ExportOf(k - 1)
      BY <1>1, <3>4 DEF IInv, ExportInv
    <3>6. exports[k].name = ExportName(k - 1)
      BY <3>5 DEF ExportOf
    <3>7. ExportName(k - 1) = StringAt(U32At(directory.names + (k - 1) * 4))
      BY <2>2, <3>1, <3>4, ExportReadable
    <3>. QED
      BY <3>1, <3>2, <3>3, <3>4, <3>6, <3>7
  <2>5. ImportRva # 0 => IsLast(Current)
    BY <1>1 DEF IInv, ImportInv
  <2>6. ASSUME NEW k \in 1..Len(imports)
        PROVE  LET n == Len(imports[k].functions)
               IN  /\ ~IsLast(Descriptor(k - 1))
                   /\ \A m \in 0..n : ThunkValue(Thunks(k - 1), m) = 0 <=> m = n
    <3> DEFINE f == imports[k].functions
    <3>1. ModuleRead(k - 1, imports[k]) /\ Ended(Thunks(k - 1), Len(f))
      BY <1>1, <2>6 DEF IInv, ImportInv
    <3>2. ~IsLast(Descriptor(k - 1)) /\ FunctionsRead(Thunks(k - 1), f)
          /\ ThunkValue(Thunks(k - 1), Len(f)) = 0
      BY <3>1 DEF ModuleRead, Ended
    <3> HIDE DEF f
    <3>3. Len(f) \in Nat
      <4>1. imports \in Modules
        BY <1>1 DEF IInv, TypeOK, Modules
      <4>2. imports[k] \in [name : String, functions : Seq(ImportFunction)]
        BY <4>1, <2>6, ElementOf DEF Modules
      <4>. QED
        BY <4>2, LenProperties DEF f
    <3>4. ASSUME NEW m \in 0..Len(f), m # Len(f) PROVE ThunkValue(Thunks(k - 1), m) # 0
      <4>1. m + 1 \in 1..Len(f) /\ (m + 1) - 1 = m
        BY <3>3, <3>4
      <4>2. ThunkValue(Thunks(k - 1), (m + 1) - 1) # 0
        BY <3>2, <4>1 DEF FunctionsRead
      <4>. QED
        BY <4>1, <4>2
    <3>. QED
      BY <3>2, <3>4 DEF f
  <2>. QED
    BY <2>2, <2>3, <2>4, <2>5, <2>6
<1>. QED
  BY <1>1, Invariance, PTL

-----------------------------------------------------------------------------
(* The verdict. *)

(* A file is accepted exactly when its headers, exports and imports are in *)
(* it, and otherwise the error is that of the first part that is not: no   *)
(* check of pe.cpp is too weak, and none rejects what fits to the last     *)
(* byte.                                                                   *)
THEOREM VerdictCorrect == Spec => []VerdictIsRight
<1>1. ASSUME IInv PROVE VerdictIsRight
  <2> SUFFICES ASSUME pc = "done"
               PROVE  status = (IF ~HeadersFit THEN "bad_headers"
                                ELSE IF ~ExportsFit THEN "bad_exports"
                                ELSE IF ~ImportsFit THEN "bad_imports" ELSE "ok")
    BY DEF VerdictIsRight
  <2>1. status \in {"ok", "bad_headers", "bad_exports", "bad_imports"}
    BY <1>1 DEF IInv, TypeOK, ValidatedReadsSucceed
  <2>2. status \in {"ok", "bad_exports", "bad_imports"} => HeadersFit
    BY <1>1 DEF IInv, HeaderInv, HeadersPassed, SectionsPassed
  <2>3. status \in {"ok", "bad_imports"} => ExportsFit
    BY <1>1 DEF IInv, ExportInv, ExportsPassed
  <2>4. /\ status = "bad_headers" => ~HeadersFit
        /\ status = "bad_exports" => ~ExportsFit
        /\ status = "bad_imports" => ~ImportsFit
    BY <1>1 DEF IInv, HeaderInv, ExportInv, ImportInv
  <2>5. ASSUME status = "ok" PROVE ImportsFit
    <3>1. CASE ImportRva = 0
      BY <3>1 DEF ImportsFit
    <3>2. CASE ImportRva # 0
      <4> DEFINE j == Len(imports)
      <4>1. /\ IsFile(file) /\ sections \in Seq(Section) /\ dir_count \in 0..(Word - 1)
            /\ j \in Nat /\ imports \in Modules
        BY <1>1, LenProperties DEF IInv, TypeOK, Modules
      <4>2. ImportOffset # nullopt /\ InBounds(Descriptor(j), 20) /\ IsLast(Descriptor(j))
        BY <1>1, <2>5, <3>2 DEF IInv, ImportInv, Current
      <4>3. ASSUME NEW k \in 1..j
            PROVE  /\ ~IsLast(Descriptor(k - 1))
                   /\ GoodModule(ModuleAt(Descriptor(k - 1))) /\ ThunksHold(Thunks(k - 1))
        <5> DEFINE f == imports[k].functions
        <5>1. k - 1 \in Nat /\ ModuleRead(k - 1, imports[k]) /\ Ended(Thunks(k - 1), Len(f))
          BY <1>1, <4>1, <4>3 DEF IInv, ImportInv
        <5>2. Len(f) \in Nat
          <6>1. imports[k] \in [name : String, functions : Seq(ImportFunction)]
            BY <4>1, <4>3, ElementOf DEF Modules
          <6>. QED
            BY <6>1, LenProperties
        <5>3. /\ ~IsLast(Descriptor(k - 1)) /\ GoodModule(ModuleAt(Descriptor(k - 1)))
              /\ FunctionsRead(Thunks(k - 1), f)
          BY <5>1 DEF ModuleRead
        <5>4. Thunks(k - 1) \in 0..(Word - 1)
          BY <4>1, <5>1, <5>3, ModuleMeans
        <5> HIDE DEF f
        <5>. QED
          BY <4>1, <5>1, <5>2, <5>3, <5>4, ThunksFound
      <4> HIDE DEF j
      <4>. QED
        BY <4>1, <4>2, <4>3, ImportsFound
    <3>. QED
      BY <3>1, <3>2
  <2>. QED
    BY <2>1, <2>2, <2>3, <2>4, <2>5
<1>. QED
  BY <1>1, Invariance, PTL

=============================================================================
