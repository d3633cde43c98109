-------------------------------- MODULE Elf --------------------------------
(***************************************************************************)
(* ElfImage::parse (src/src/binary/elf.cpp): one pass through the tables   *)
(* of a file nobody vouches for, in the order of the code: identification, *)
(* header, section headers (with extended numbering), section names,       *)
(* program headers, symbols.                                               *)
(*                                                                         *)
(* A file is what the parser can read from it: its size, the header's      *)
(* fields, the section header and the symbol stored at an offset, and the  *)
(* offsets of its zero bytes.  Whether a read succeeds depends on the      *)
(* offset and the size alone.  Sizes of records are those of the format;   *)
(* the widths of integers are constants, and std::size_t is 64 bits wide.  *)
(***************************************************************************)
EXTENDS Integers, Sequences

CONSTANTS Files,
          Max16,       \* the largest uint16_t: SHN_XINDEX, PN_XNUM
          Word,        \* the number of uint32_t values
          MaxVector    \* the most elements a vector can hold

MaxU64 == Word * Word - 1
U64(n) == n % (MaxU64 + 1)

SectionHeader == [type : 0..(Word - 1), offset : 0..MaxU64, size : 0..MaxU64,
                  link : 0..(Word - 1), info : 0..(Word - 1),
                  entry_size : 0..MaxU64, name_index : 0..(Word - 1)]

RawSymbol == [name_index : 0..(Word - 1), bind : 0..15, type : 0..15, shndx : 0..Max16]

(* What is stored where nothing else is said: zero bytes. *)
NullSection == [type |-> 0, offset |-> 0, size |-> 0, link |-> 0, info |-> 0,
                entry_size |-> 0, name_index |-> 0]
NullSymbol == [name_index |-> 0, bind |-> 0, type |-> 0, shndx |-> 0]

IsFile(f) ==
  /\ f.size \in 0..MaxVector
  /\ f.magic \in BOOLEAN /\ f.class \in 0..255 /\ f.encoding \in 0..255
  /\ f.shoff \in 0..MaxU64 /\ f.phoff \in 0..MaxU64
  /\ {f.shentsize, f.shnum, f.shstrndx, f.phentsize, f.phnum} \subseteq 0..Max16
  /\ \A o \in DOMAIN f.section : f.section[o] \in SectionHeader
  /\ \A o \in DOMAIN f.symbol : f.symbol[o] \in RawSymbol
  /\ f.class = 1 => /\ f.shoff < Word /\ f.phoff < Word
                    /\ \A o \in DOMAIN f.section : f.section[o].size < Word
  /\ f.zeros \subseteq 0..(f.size - 1)

(* No vector is as large as the address space divided by 2^16. *)
ASSUME WidthAssumption == /\ Max16 \in Nat /\ Word \in Nat /\ MaxVector \in Nat
                          /\ 16 <= Max16 /\ Max16 < Word
                          /\ 64 <= MaxVector /\ MaxVector < Word
                          /\ MaxVector * Max16 <= MaxU64
ASSUME FilesAssumption == \A f \in Files : IsFile(f)

VARIABLES file,              \* the argument
          pc, status,        \* where the call is, and how it returned
          shnum, shstrndx,   \* the numbers the file claims, in full
          phnum, count,      \* entries of the segment and symbol tables
          i,                 \* entries of the current table seen so far
          sections, names,   \* the image: sections and their names,
          segments,          \*   number of program headers,
          symtab,            \*   place of the symbol table, 0 for none,
          symbols            \*   symbols

numbers == <<shnum, shstrndx, phnum, count>>
image == <<sections, names, segments, symtab, symbols>>
vars == <<file, pc, status, numbers, i, image>>

-----------------------------------------------------------------------------
Is64 == file.class = 2
EhSize == IF Is64 THEN 64 ELSE 52
ShSize == IF Is64 THEN 64 ELSE 40
PhSize == IF Is64 THEN 56 ELSE 32
SymSize == IF Is64 THEN 24 ELSE 16

ShtSymtab == 2
ShtStrtab == 3
ShtDynsym == 11

INSTANCE Reader WITH data <- file, SizeMax <- MaxU64

SectionAt(o) == IF o \in DOMAIN file.section THEN file.section[o] ELSE NullSection
SymbolAt(o) == IF o \in DOMAIN file.symbol THEN file.symbol[o] ELSE NullSymbol

(* A table of n entries fits in the file; n * size wraps.  As in Scanner, a *)
(* variant whose name says what it gets wrong is not used.                 *)
TableFitsStrictly(offset, n, size) ==
  offset <= file.size /\ U64(n * size) < SizeSub(file.size, offset)

TableFits(offset, n, size) ==
  offset <= file.size /\ U64(n * size) <= SizeSub(file.size, offset)

(* The bytes of a section are in the file. *)
DataFits(s) == s.offset <= file.size /\ s.size <= SizeSub(file.size, s.offset)

(* The name a string table holds at an index; an empty one is none. *)
NameInUnchecked(table, index) ==
  LET s == CString(table.offset + index, SizeSub(table.size, index))
  IN  IF s = NoString THEN NoString ELSE IF s[1] = s[2] THEN NoString ELSE s

NameIn(table, index) ==
  IF index >= table.size THEN NoString
  ELSE LET s == CString(table.offset + index, table.size - index)
       IN  IF s = NoString THEN NoString ELSE IF s[1] = s[2] THEN NoString ELSE s

-----------------------------------------------------------------------------
Init == /\ file \in Files
        /\ pc = "ident" /\ status = "running"
        /\ shnum = 0 /\ shstrndx = 0 /\ phnum = 0 /\ count = 0
        /\ i = 0
        /\ sections = << >> /\ names = << >>
        /\ segments = 0
        /\ symtab = 0
        /\ symbols = << >>

(* An error, or the end of the call.  Nothing of the image is returned     *)
(* with an error.                                                          *)
Return(s) == pc' = "done" /\ status' = s

Goto(where) == pc' = where /\ UNCHANGED status

(* read_ident *)
BadIdent == file.size < 16 \/ ~file.magic \/ file.class \notin {1, 2}

RejectIdent == /\ pc = "ident"
               /\ BadIdent
               /\ Return("bad_ident")
               /\ UNCHANGED <<file, numbers, i, image>>

RejectBigEndian == /\ pc = "ident"
                   /\ ~BadIdent
                   /\ file.encoding # 1
                   /\ Return("unsupported")
                   /\ UNCHANGED <<file, numbers, i, image>>

AcceptIdent == /\ pc = "ident"
               /\ ~BadIdent
               /\ file.encoding = 1
               /\ Goto("header")
               /\ UNCHANGED <<file, numbers, i, image>>

(* read_header: its last field ends where the header does, so that the     *)
(* check of the header's size behind it never fires.                       *)
RejectHeader == /\ pc = "header"
                /\ file.size < EhSize
                /\ Return("truncated_header")
                /\ UNCHANGED <<file, numbers, i, image>>

-----------------------------------------------------------------------------
(* The numbers in section header 0, when they can be read.  In ELF64 the   *)
(* link is read as 64 bits, the info behind it included.                   *)
FirstSection == SectionAt(file.shoff)

SizeField == IF Is64 THEN InBounds(U64(file.shoff + 32), 8)
                     ELSE InBounds(U64(file.shoff + 20), 4)
LinkField == IF Is64 THEN InBounds(U64(file.shoff + 40), 8)
                     ELSE InBounds(U64(file.shoff + 24), 4)

ExtendedNumber == IF SizeField THEN FirstSection.size ELSE file.shnum
ExtendedNameIndex ==
  IF LinkField THEN FirstSection.link + (IF Is64 THEN Word * FirstSection.info ELSE 0)
               ELSE file.shstrndx

(* An ELF header that is there is accepted, whatever it says. *)
AcceptHeader ==
  /\ pc = "header"
  /\ file.size >= EhSize
  /\ LET extended == file.shnum = 0 /\ file.shoff # 0
     IN  /\ shnum' = IF extended THEN ExtendedNumber ELSE file.shnum
         /\ shstrndx' = IF extended \/ file.shstrndx = Max16 THEN ExtendedNameIndex
                                                             ELSE file.shstrndx
  /\ Goto("section_table")
  /\ UNCHANGED <<file, phnum, count, i, image>>

RejectSectionTable ==
  /\ pc = "section_table"
  /\ file.shentsize < ShSize \/ ~TableFits(file.shoff, shnum, file.shentsize)
  /\ Return("bad_section_table")
  /\ UNCHANGED <<file, numbers, i, image>>

ReserveSectionsUnchecked ==
  /\ pc = "section_table"
  /\ file.shentsize >= ShSize
  /\ TableFits(file.shoff, shnum, file.shentsize)
  /\ Goto("sections")
  /\ UNCHANGED <<file, numbers, i, image>>

(* reserve throws when asked for more elements than a vector can hold, and *)
(* nothing in parse catches.                                               *)
ReserveSections ==
  /\ pc = "section_table"
  /\ file.shentsize >= ShSize
  /\ TableFits(file.shoff, shnum, file.shentsize)
  /\ IF shnum <= MaxVector THEN Goto("sections") ELSE Return("exception")
  /\ UNCHANGED <<file, numbers, i, image>>

SectionOffset(k) == U64(file.shoff + k * file.shentsize)

ReadSection ==
  /\ pc = "sections"
  /\ i < shnum
  /\ IF InBounds(SectionOffset(i), ShSize)
       THEN /\ sections' = Append(sections, SectionAt(SectionOffset(i)))
            /\ i' = i + 1
            /\ UNCHANGED <<pc, status>>
       ELSE Return("truncated_section") /\ UNCHANGED <<i, sections>>
  /\ UNCHANGED <<file, numbers, names, segments, symtab, symbols>>

(* The section names: all, when there is a string table for them. *)
HasNameTable == IF shstrndx < Len(sections)
                THEN LET t == sections[shstrndx + 1] IN t.type = ShtStrtab /\ DataFits(t)
                ELSE FALSE

NameSections ==
  /\ pc = "sections"
  /\ i = shnum
  /\ names' = [k \in 1..Len(sections) |->
                 IF HasNameTable THEN NameIn(sections[shstrndx + 1], sections[k].name_index)
                                 ELSE NoString]
  /\ i' = 0
  /\ Goto("segment_table")
  /\ UNCHANGED <<file, numbers, sections, segments, symtab, symbols>>

-----------------------------------------------------------------------------
HasSegments == file.phoff # 0 /\ file.phnum # 0

SegmentNumber == IF file.phnum = Max16 /\ sections # << >> THEN sections[1].info
                                                           ELSE file.phnum

SkipSegments == /\ pc = "segment_table"
                /\ ~HasSegments
                /\ Goto("symbol_table")
                /\ UNCHANGED <<file, numbers, i, image>>

RejectSegmentTable ==
  /\ pc = "segment_table"
  /\ HasSegments
  /\ file.phentsize < PhSize \/ ~TableFits(file.phoff, SegmentNumber, file.phentsize)
  /\ Return("bad_segment_table")
  /\ UNCHANGED <<file, numbers, i, image>>

AcceptSegmentTable ==
  /\ pc = "segment_table"
  /\ HasSegments
  /\ file.phentsize >= PhSize
  /\ TableFits(file.phoff, SegmentNumber, file.phentsize)
  /\ phnum' = SegmentNumber
  /\ Goto("segments")
  /\ UNCHANGED <<file, shnum, shstrndx, count, i, image>>

SegmentOffset(k) == U64(file.phoff + k * file.phentsize)

(* Program headers are copied as they are; only their number is kept. *)
ReadSegment ==
  /\ pc = "segments"
  /\ segments < phnum
  /\ IF InBounds(SegmentOffset(segments), PhSize)
       THEN segments' = segments + 1 /\ UNCHANGED <<pc, status>>
       ELSE Return("truncated_segment") /\ UNCHANGED segments
  /\ UNCHANGED <<file, numbers, i, sections, names, symtab, symbols>>

SegmentsRead == /\ pc = "segments"
                /\ segments = phnum
                /\ Goto("symbol_table")
                /\ UNCHANGED <<file, numbers, i, image>>

-----------------------------------------------------------------------------
OfType(t) == {k \in 1..Len(sections) : sections[k].type = t}
First(S) == CHOOSE k \in S : \A m \in S : k <= m

SymtabFirst == IF OfType(ShtSymtab) # {} THEN First(OfType(ShtSymtab))
               ELSE IF OfType(ShtDynsym) # {} THEN First(OfType(ShtDynsym))
               ELSE 0

(* .dynsym, or .symtab when there is none. *)
SymbolTable == IF OfType(ShtDynsym) # {} THEN First(OfType(ShtDynsym))
               ELSE IF OfType(ShtSymtab) # {} THEN First(OfType(ShtSymtab))
               ELSE 0

UsableUnchecked(k) ==
  IF k = 0 THEN FALSE
  ELSE IF sections[k].link >= Len(sections) THEN FALSE
  ELSE LET strtab == sections[sections[k].link + 1]
       IN  /\ strtab.type = ShtStrtab
           /\ DataFits(strtab)
           /\ sections[k].entry_size >= SymSize

(* The table can be read and so can the string table it links to. *)
Usable(k) ==
  IF k = 0 THEN FALSE
  ELSE IF sections[k].link >= Len(sections) THEN FALSE
  ELSE LET strtab == sections[sections[k].link + 1]
       IN  /\ strtab.type = ShtStrtab
           /\ DataFits(sections[k])
           /\ DataFits(strtab)
           /\ sections[k].entry_size >= SymSize

NoSymbolTable == /\ pc = "symbol_table"
                 /\ ~Usable(SymbolTable)
                 /\ Return("ok")
                 /\ UNCHANGED <<file, numbers, i, image>>

(* Entries are taken to be of the format's size, whatever entry_size says. *)
AcceptSymbolTable ==
  /\ pc = "symbol_table"
  /\ Usable(SymbolTable)
  /\ symtab' = SymbolTable
  /\ count' = sections[SymbolTable].size \div SymSize
  /\ Goto("symbols")
  /\ UNCHANGED <<file, shnum, shstrndx, phnum, i, sections, names, segments, symbols>>

SymbolOffset(k) == U64(sections[symtab].offset + k * SymSize)
StringTable == sections[sections[symtab].link + 1]
NameOfSymbol(k) == NameIn(StringTable, SymbolAt(SymbolOffset(k)).name_index)

(* Defined, global or weak, named, and an object or a function. *)
Exported(k) == LET s == SymbolAt(SymbolOffset(k))
               IN  /\ s.shndx # 0
                   /\ s.bind \in {1, 2}
                   /\ NameOfSymbol(k) # NoString
                   /\ s.type \in {1, 2, 10}

(* A symbol that cannot be read ends the loop, not the call. *)
KeepSymbol ==
  /\ pc = "symbols"
  /\ i < count
  /\ IF InBounds(SymbolOffset(i), SymSize)
       THEN /\ Exported(i)
            /\ symbols' = Append(symbols, [entry |-> i, name |-> NameOfSymbol(i)])
            /\ i' = i + 1
            /\ UNCHANGED <<pc, status>>
       ELSE Return("ok") /\ UNCHANGED <<i, symbols>>
  /\ UNCHANGED <<file, numbers, sections, names, segments, symtab>>

SkipSymbolAgain ==
  /\ pc = "symbols"
  /\ i < count
  /\ InBounds(SymbolOffset(i), SymSize)
  /\ ~Exported(i)
  /\ UNCHANGED vars

SkipSymbol ==
  /\ pc = "symbols"
  /\ i < count
  /\ InBounds(SymbolOffset(i), SymSize)
  /\ ~Exported(i)
  /\ i' = i + 1
  /\ UNCHANGED <<file, pc, status, numbers, image>>

SymbolsReadEarly == /\ pc = "symbols"
                    /\ i + 1 >= count
                    /\ Return("ok")
                    /\ UNCHANGED <<file, numbers, i, image>>

SymbolsRead == /\ pc = "symbols"
               /\ i = count
               /\ Return("ok")
               /\ UNCHANGED <<file, numbers, i, image>>

ParseHeader == RejectIdent \/ RejectBigEndian \/ AcceptIdent \/ RejectHeader \/ AcceptHeader
ParseSections == RejectSectionTable \/ ReserveSections \/ ReadSection \/ NameSections
ParseSegments == \/ SkipSegments \/ RejectSegmentTable \/ AcceptSegmentTable
                 \/ ReadSegment \/ SegmentsRead
ParseSymbols == \/ NoSymbolTable \/ AcceptSymbolTable
                \/ KeepSymbol \/ SkipSymbol \/ SymbolsRead

Parse == ParseHeader \/ ParseSections \/ ParseSegments \/ ParseSymbols

Terminating == pc = "done" /\ UNCHANGED vars

Next == Parse \/ Terminating

Spec == Init /\ [][Next]_vars

(* The calling thread keeps running. *)
FairSpec == Spec /\ WF_vars(Parse)

-----------------------------------------------------------------------------
Name == Seq(0..MaxVector)

(* The type of every variable; the tables whose entries are counted fit in *)
(* the file, except the section table a file only claims to have.          *)
TypeOK ==
  /\ IsFile(file)
  /\ pc \in {"ident", "header", "section_table", "sections", "segment_table", "segments",
             "symbol_table", "symbols", "done"}
  /\ status \in {"running", "ok", "bad_ident", "unsupported", "truncated_header",
                 "bad_section_table", "truncated_section", "bad_segment_table",
                 "truncated_segment", "exception"}
  /\ shnum \in 0..MaxU64 /\ shstrndx \in 0..MaxU64
  /\ phnum \in 0..file.size
  /\ count \in Nat /\ count * SymSize <= file.size
  /\ i \in 0..MaxVector
  /\ sections \in Seq(SectionHeader)
  /\ names \in Seq(Name)
  /\ segments \in 0..file.size
  /\ symtab \in 0..Len(sections)
  /\ symbols \in Seq([entry : 0..MaxVector, name : Name])

(* One check of a table's size is enough for all its entries: the reads of *)
(* section headers and program headers behind it never fail, and the       *)
(* symbol table is never cut short, although the products and sums the     *)
(* check is made of wrap.                                                  *)
ValidatedReadsSucceed ==
  /\ status \notin {"truncated_section", "truncated_segment"}
  /\ (pc = "symbols" /\ i < count) => InBounds(SymbolOffset(i), SymSize)

(* The string n, its zero byte included, is in the file and in table t. *)
InTable(n, t) == /\ t.offset <= n[1]
                 /\ n[1] < n[2]
                 /\ n[2] < t.offset + t.size
                 /\ n[2] < file.size

(* A name never runs out of the string table it is looked up in, whatever  *)
(* the index.                                                              *)
NamesInTable ==
  /\ \A k \in 1..Len(names) :
       names[k] # NoString => HasNameTable /\ InTable(names[k], sections[shstrndx + 1])
  /\ \A j \in 1..Len(symbols) : InTable(symbols[j].name, StringTable)

(* The symbols are the exported entries of the table, in its order, each   *)
(* once; .symtab is only used when no section is a .dynsym.                *)
SymbolsSoFar ==
  /\ {symbols[j].entry : j \in 1..Len(symbols)} =
       (IF symtab = 0 THEN {} ELSE {k \in 0..(i - 1) : Exported(k)})
  /\ \A j, k \in 1..Len(symbols) : j < k => symbols[j].entry < symbols[k].entry
  /\ symtab # 0 => \/ sections[symtab].type = ShtDynsym
                   \/ sections[symtab].type = ShtSymtab /\ OfType(ShtDynsym) = {}

(* An accepted file had everything it claims to have: every section, all   *)
(* inside the file, every program header, and the whole symbol table.      *)
AcceptedIsComplete ==
  status = "ok" =>
    /\ Len(sections) = shnum /\ Len(names) = shnum
    /\ file.shoff + shnum * file.shentsize <= file.size
    /\ HasSegments => /\ segments = SegmentNumber
                      /\ file.phoff + segments * file.phentsize <= file.size
    /\ symtab # 0 => i = sections[symtab].size \div SymSize

(* The section table a file claims, wherever it stores the numbers, is in  *)
(* the file, and so is its program header table.                           *)
ClaimsFit ==
  LET n == IF file.shnum # 0 \/ file.shoff = 0 THEN file.shnum ELSE FirstSection.size
      first == IF n = 0 THEN NullSection ELSE FirstSection
      m == IF file.phnum = Max16 /\ n # 0 THEN first.info ELSE file.phnum
  IN  /\ file.shoff + n * file.shentsize <= file.size
      /\ HasSegments => file.phoff + m * file.phentsize <= file.size

(* A little-endian ELF file whose tables are where its header says is      *)
(* accepted: a check may not reject what fits exactly.                     *)
AcceptsWellFormed ==
  /\ ~BadIdent /\ file.encoding = 1 /\ file.size >= EhSize
  /\ file.shentsize >= ShSize /\ (HasSegments => file.phentsize >= PhSize)
  /\ ClaimsFit
  => status \in {"running", "ok"}

(* Every call returns. *)
Terminates == <>(pc = "done")

(* elf.hpp:3-5: "malformed input produces an error".  So parse would not   *)
(* leave with an exception.                                                *)
MalformedIsError == status # "exception"

(* elf.hpp:7-8: section headers come "with names via .shstrtab, including  *)
(* extended numbering".  When e_shstrndx is SHN_XINDEX the index of        *)
(* .shstrtab is the link of section header 0, whatever its info holds.     *)
NamesWithExtendedNumbering ==
  status = "ok" /\ file.shstrndx = Max16 /\ FirstSection.link < Len(sections) =>
    LET t == sections[FirstSection.link + 1]
    IN  t.type = ShtStrtab /\ DataFits(t) =>
          \A k \in 1..Len(sections) : names[k] = NameIn(t, sections[k].name_index)

=============================================================================
