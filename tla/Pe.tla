--------------------------------- MODULE Pe ---------------------------------
(***************************************************************************)
(* PeImage::parse (src/src/binary/pe.cpp): DOS and NT headers, optional    *)
(* header, section table, data directories, then the exports and imports,  *)
(* which are found by mapping addresses of the loaded image (RVAs) to      *)
(* offsets in the file.                                                    *)
(*                                                                         *)
(* A file is the header fields the parser decides on, the integers stored  *)
(* at offsets (zero where nothing is said), and the offsets of its zero    *)
(* bytes.  Fields that are copied and never looked at are left out.  Sizes *)
(* of records are those of the format; the widths of integers are          *)
(* constants, and std::size_t is 64 bits wide.                             *)
(***************************************************************************)
EXTENDS Integers, Sequences

CONSTANTS Files,
          Max16,       \* the largest uint16_t
          Word,        \* the number of uint32_t values
          MaxName      \* the most bytes of a string that are looked at

Max64 == Word * Word - 1
U16(n) == n % (Max16 + 1)
U32(n) == n % Word

(* The parser's view of a file below 4 GiB. *)
IsFile(f) ==
  /\ f.size \in 0..(Word - 1)
  /\ f.mz \in BOOLEAN /\ f.signature \in BOOLEAN
  /\ f.lfanew \in 0..(Word - 1)
  /\ f.section_count \in 0..Max16 /\ f.opt_size \in 0..Max16
  /\ f.opt_magic \in {"PE32", "PE32+", "other"}
  /\ f.dir_count \in 0..(Word - 1)
  /\ \A o \in DOMAIN f.value : o \in Nat /\ f.value[o] \in 0..Max64
  /\ f.zeros \subseteq 0..(f.size - 1)

ASSUME WidthAssumption == /\ Max16 \in Nat /\ Word \in Nat /\ MaxName \in Nat
                          /\ 240 <= Max16 /\ Max16 < Word
                          /\ Max16 * 40 <= Word * Word - Word
ASSUME FilesAssumption == \A f \in Files : IsFile(f)

VARIABLES file,                        \* the argument
          pc, status,                  \* where the call is, and how it returned
          dir_count,                   \* data directories taken from the file
          directory,                   \* the export directory
          sections, exports, imports,  \* the image
          module                       \* the import module that is being read

image == <<sections, exports, imports, module>>
vars == <<file, pc, status, dir_count, directory, image>>

INSTANCE Reader WITH data <- file, SizeMax <- Max64

-----------------------------------------------------------------------------
(* Integers read from the file. *)
At(o) == IF o \in DOMAIN file.value THEN file.value[o] ELSE 0
U16At(o) == U16(At(o))
U32At(o) == U32(At(o))

Is64 == file.opt_magic = "PE32+"

CoffOffset == U32(file.lfanew + 4)
OptionalOffset == CoffOffset + 20
DirOffset == OptionalOffset + (IF Is64 THEN 112 ELSE 96)
SectionOffset(k) == OptionalOffset + file.opt_size + k * 40

SectionAt(o) == [virtual_size |-> U32At(o + 8), virtual_address |-> U32At(o + 12),
                 raw_size |-> U32At(o + 16), raw_offset |-> U32At(o + 20)]

(* No directory, section or string: the type allows it, the offset says so. *)
nullopt == -1

VirtualEnd(s) == s.virtual_address + (IF s.virtual_size > s.raw_size THEN s.virtual_size
                                                                     ELSE s.raw_size)

Covers(s, rva) == rva >= s.virtual_address /\ rva < VirtualEnd(s)

(* rva_to_offset_impl: by the first section that covers the address. *)
RvaToOffset ==
  [rva \in 0..(Word - 1) |->
     LET covering == {k \in DOMAIN sections : Covers(sections[k], rva)}
         s == sections[CHOOSE k \in covering : \A m \in covering : k <= m]
         offset == s.raw_offset + (rva - s.virtual_address)
     IN  IF covering = {} THEN nullopt
         ELSE IF offset < Word THEN offset ELSE nullopt]

(* The string at an address, as read_export_name finds it. *)
StringAt(rva) == IF RvaToOffset[rva] = nullopt THEN NoString
                 ELSE CString(RvaToOffset[rva], MaxName)

-----------------------------------------------------------------------------
(* Before there is one. *)
NoDirectory == [base |-> 0, num_functions |-> 0, num_names |-> 0,
                functions |-> nullopt, names |-> nullopt, ordinals |-> nullopt]

NoModule == [name |-> NoString, thunks |-> nullopt, functions |-> << >>]

Init == /\ file \in Files
        /\ pc = "dos" /\ status = "running"
        /\ dir_count = 0 /\ directory = NoDirectory
        /\ sections = << >> /\ exports = << >> /\ imports = << >>
        /\ module = NoModule

(* Nothing of the image is returned with an error. *)
Return(s) == pc' = "done" /\ status' = s

Goto(where) == pc' = where /\ UNCHANGED status

(* lfanew + 4 wraps. *)
BadDos == \/ file.size < 64 \/ ~file.mz
          \/ file.lfanew = 0 \/ U32(file.lfanew + 4) + 20 > file.size

RejectDos == /\ pc = "dos"
             /\ BadDos
             /\ Return("bad_headers")
             /\ UNCHANGED <<file, dir_count, directory, image>>

AcceptDos == /\ pc = "dos"
             /\ ~BadDos
             /\ Goto("nt")
             /\ UNCHANGED <<file, dir_count, directory, image>>

BadSignature == ~InBounds(file.lfanew, 4) \/ ~file.signature

RejectSignature == /\ pc = "nt"
                   /\ BadSignature
                   /\ Return("bad_headers")
                   /\ UNCHANGED <<file, dir_count, directory, image>>

AcceptSignature == /\ pc = "nt"
                   /\ ~BadSignature
                   /\ IF InBounds(CoffOffset, 20) THEN Goto("optional") ELSE Return("truncated")
                   /\ UNCHANGED <<file, dir_count, directory, image>>

(* The last field that is read is the number of directories behind it. *)
BadOptional == \/ file.opt_size < 2
               \/ ~InBounds(OptionalOffset, 2)
               \/ file.opt_magic = "other"
               \/ ~InBounds(DirOffset - 4, 4)

(* As in Scanner, a variant whose name says what it gets wrong is not used. *)
BadSectionTableStrictly ==
  \/ SectionOffset(0) > file.size
  \/ file.section_count * 40 >= SizeSub(file.size, SectionOffset(0))

BadSectionTable == \/ SectionOffset(0) > file.size
                   \/ file.section_count * 40 > SizeSub(file.size, SectionOffset(0))

RejectOptional == /\ pc = "optional"
                  /\ BadOptional \/ BadSectionTable
                  /\ Return("bad_headers")
                  /\ UNCHANGED <<file, dir_count, directory, image>>

AcceptOptional == /\ pc = "optional"
                  /\ ~BadOptional /\ ~BadSectionTable
                  /\ Goto("sections")
                  /\ UNCHANGED <<file, dir_count, directory, image>>

ReadSection ==
  /\ pc = "sections"
  /\ Len(sections) < file.section_count
  /\ IF InBounds(SectionOffset(Len(sections)), 40)
       THEN /\ sections' = Append(sections, SectionAt(SectionOffset(Len(sections))))
            /\ UNCHANGED <<pc, status>>
       ELSE Return("truncated") /\ UNCHANGED sections
  /\ UNCHANGED <<file, dir_count, directory, exports, imports, module>>

(* As many as the file claims, or as fit between here and its end. *)
Directories == LET max_fit == U32(SizeSub(file.size, DirOffset) \div 8)
               IN  IF file.dir_count < max_fit THEN file.dir_count ELSE max_fit

ReadDirectories ==
  /\ pc = "sections"
  /\ Len(sections) = file.section_count
  /\ IF InBounds(DirOffset, Directories * 8)
       THEN dir_count' = Directories /\ Goto("exports")
       ELSE Return("truncated") /\ UNCHANGED dir_count
  /\ UNCHANGED <<file, directory, image>>

DirectoryRva(d) == IF d < dir_count THEN U32At(DirOffset + d * 8) ELSE 0
DirectorySize(d) == U32At(DirOffset + d * 8 + 4)

ExportRva == DirectoryRva(0)
ImportRva == DirectoryRva(1)

-----------------------------------------------------------------------------
(* The export directory at an offset: its numbers, and its three arrays. *)
DirectoryAt(o) == [base |-> U32At(o + 16),
                   num_functions |-> U32At(o + 20), num_names |-> U32At(o + 24),
                   functions |-> RvaToOffset[U32At(o + 28)],
                   names |-> RvaToOffset[U32At(o + 32)],
                   ordinals |-> RvaToOffset[U32At(o + 36)]]

DirectoryFits(o) == o # nullopt /\ InBounds(o, 40)

ArraysFitNoOrdinals(d) ==
  /\ nullopt \notin {d.functions, d.names, d.ordinals}
  /\ InBounds(d.functions, d.num_functions * 4)
  /\ InBounds(d.names, d.num_names * 4)

ArraysFit(d) == /\ nullopt \notin {d.functions, d.names, d.ordinals}
                /\ InBounds(d.functions, d.num_functions * 4)
                /\ InBounds(d.names, d.num_names * 4)
                /\ InBounds(d.ordinals, d.num_names * 2)

ExportOffset == RvaToOffset[ExportRva]

NoExports == /\ pc = "exports"
             /\ ExportRva = 0
             /\ Goto("imports")
             /\ UNCHANGED <<file, dir_count, directory, image>>

RejectExports == /\ pc = "exports"
                 /\ ExportRva # 0
                 /\ \E o \in {ExportOffset} : DirectoryFits(o) => ~ArraysFit(DirectoryAt(o))
                 /\ Return("bad_exports")
                 /\ UNCHANGED <<file, dir_count, directory, image>>

AcceptExports == /\ pc = "exports"
                 /\ ExportRva # 0
                 /\ \E o \in {ExportOffset} : DirectoryFits(o) /\ directory' = DirectoryAt(o)
                 /\ ArraysFit(directory')
                 /\ Goto("names")
                 /\ UNCHANGED <<file, dir_count, image>>

(* Offsets of array entries are sums of uint32_t. *)
NameEntry(k) == U32(directory.names + k * 4)
OrdinalEntry(k) == U32(directory.ordinals + k * 2)
OrdinalIndex(k) == U16At(OrdinalEntry(k))
FunctionEntry(index) == U32(directory.functions + index * 4)

EntryInBounds(k) == InBounds(NameEntry(k), 4) /\ InBounds(OrdinalEntry(k), 2)

OrdinalInRangeOffByOne(k) == OrdinalIndex(k) <= directory.num_functions

OrdinalInRange(k) == OrdinalIndex(k) < directory.num_functions

ExportName(k) == StringAt(U32At(NameEntry(k)))

GoodExport(k) == OrdinalInRange(k) /\ ExportName(k) # NoString

OrdinalUncast(index) == directory.base + index

Ordinal(index) == U16(directory.base + index)

(* An address in the export directory itself; the directory's end wraps. *)
Forwarded(rva) == rva >= ExportRva /\ rva < U32(ExportRva + DirectorySize(0))

ExportOf(k) ==
  LET rva == U32At(FunctionEntry(OrdinalIndex(k)))
  IN  [name |-> ExportName(k), ordinal |-> Ordinal(OrdinalIndex(k)), rva |-> rva,
       forwarded |-> Forwarded(rva),
       forwarder |-> IF Forwarded(rva) THEN StringAt(rva) ELSE NoString]

next == Len(exports)

RejectExport == /\ pc = "names"
                /\ next < directory.num_names
                /\ EntryInBounds(next) /\ ~GoodExport(next)
                /\ Return("bad_exports")
                /\ UNCHANGED <<file, dir_count, directory, image>>

(* A forwarder that is no string is not an error. *)
ReadExport ==
  /\ pc = "names"
  /\ next < directory.num_names
  /\ EntryInBounds(next) => GoodExport(next)
  /\ IF EntryInBounds(next) /\ InBounds(FunctionEntry(OrdinalIndex(next)), 4)
       THEN exports' = Append(exports, ExportOf(next)) /\ UNCHANGED <<pc, status>>
       ELSE Return("truncated") /\ UNCHANGED exports
  /\ UNCHANGED <<file, dir_count, directory, sections, imports, module>>

ExportsRead == /\ pc = "names"
               /\ next = directory.num_names
               /\ Goto("imports")
               /\ UNCHANGED <<file, dir_count, directory, image>>

-----------------------------------------------------------------------------
(* The import descriptor at an offset, as the module it opens: the thunks  *)
(* are those of OriginalFirstThunk, or else of FirstThunk.                 *)
IsLast(o) == U32At(o) = 0 /\ U32At(o + 12) = 0 /\ U32At(o + 16) = 0

ModuleAt(o) == [name |-> StringAt(U32At(o + 12)),
                thunks |-> RvaToOffset[IF U32At(o) # 0 THEN U32At(o) ELSE U32At(o + 16)],
                functions |-> << >>]

GoodModule(m) == m.name # NoString /\ m.thunks # nullopt

ImportOffset == RvaToOffset[ImportRva]
Descriptor(k) == ImportOffset + k * 20
Current == Descriptor(Len(imports))

NoImports == /\ pc = "imports"
             /\ ImportRva = 0
             /\ Return("ok")
             /\ UNCHANGED <<file, dir_count, directory, image>>

RejectImports == /\ pc = "imports"
                 /\ ImportRva # 0
                 /\ \E o \in {Current} : \/ ImportOffset = nullopt
                                        \/ ~InBounds(o, 20)
                                        \/ (~IsLast(o) /\ ~GoodModule(ModuleAt(o)))
                 /\ Return("bad_imports")
                 /\ UNCHANGED <<file, dir_count, directory, image>>

LastDescriptor == /\ pc = "imports"
                  /\ ImportRva # 0 /\ ImportOffset # nullopt
                  /\ \E o \in {Current} : InBounds(o, 20) /\ IsLast(o)
                  /\ Return("ok")
                  /\ UNCHANGED <<file, dir_count, directory, image>>

OpenModule == /\ pc = "imports"
              /\ ImportRva # 0 /\ ImportOffset # nullopt
              /\ \E o \in {Current} : InBounds(o, 20) /\ ~IsLast(o) /\ module' = ModuleAt(o)
              /\ GoodModule(module')
              /\ Goto("thunks")
              /\ UNCHANGED <<file, dir_count, directory, sections, exports, imports>>

ThunkSizeFixed == 4

(* Thunks have the width of an address.  The offset of one wraps. *)
ThunkSize == IF Is64 THEN 8 ELSE 4

ThunkOffset(n) == U32(module.thunks + n * ThunkSize)
Thunk(o) == IF Is64 THEN At(o) ELSE U32At(o)

(* The top bit says that a function is imported by ordinal. *)
ByOrdinal(thunk) == thunk >= (IF Is64 THEN Word * Word ELSE Word) \div 2

(* A 16-bit hint is in front of a name; the name is where U32 says. *)
HintOffset(thunk) == RvaToOffset[U32(thunk)]
ImportName(thunk) == IF HintOffset(thunk) = nullopt THEN NoString
                     ELSE IF ~InBounds(HintOffset(thunk), 3) THEN NoString
                     ELSE CString(U32(HintOffset(thunk) + 2), MaxName)

ImportOf(thunk) ==
  IF ByOrdinal(thunk)
    THEN [by_ordinal |-> TRUE, ordinal |-> U16(thunk), name |-> NoString]
    ELSE [by_ordinal |-> FALSE, ordinal |-> U16At(HintOffset(thunk)), name |-> ImportName(thunk)]

GoodThunk(thunk) == ByOrdinal(thunk) \/ ImportName(thunk) # NoString

ThisOffset == ThunkOffset(Len(module.functions))

RejectThunk ==
  /\ pc = "thunks"
  /\ \E o \in {ThisOffset} :
       InBounds(o, ThunkSize) => Thunk(o) # 0 /\ ~GoodThunk(Thunk(o))
  /\ Return("bad_imports")
  /\ UNCHANGED <<file, dir_count, directory, image>>

ReadThunk ==
  /\ pc = "thunks"
  /\ \E o \in {ThisOffset} :
       /\ InBounds(o, ThunkSize) /\ Thunk(o) # 0 /\ GoodThunk(Thunk(o))
       /\ module' = [module EXCEPT !.functions = Append(@, ImportOf(Thunk(o)))]
  /\ UNCHANGED <<file, pc, status, dir_count, directory, sections, exports, imports>>

AtEnd == InBounds(ThisOffset, ThunkSize) /\ Thunk(ThisOffset) = 0

CloseModuleAgain ==
  /\ pc = "thunks"
  /\ AtEnd
  /\ module' = NoModule
  /\ Goto("imports")
  /\ UNCHANGED <<file, dir_count, directory, sections, exports, imports>>

(* A zero thunk ends the module. *)
CloseModule ==
  /\ pc = "thunks"
  /\ AtEnd
  /\ imports' = Append(imports, [name |-> module.name, functions |-> module.functions])
  /\ module' = NoModule
  /\ Goto("imports")
  /\ UNCHANGED <<file, dir_count, directory, sections, exports>>

ParseHeaders == \/ RejectDos \/ AcceptDos \/ RejectSignature \/ AcceptSignature
                \/ RejectOptional \/ AcceptOptional \/ ReadSection \/ ReadDirectories
ParseExports == \/ NoExports \/ RejectExports \/ AcceptExports
                \/ RejectExport \/ ReadExport \/ ExportsRead
ParseImports == \/ NoImports \/ RejectImports \/ LastDescriptor \/ OpenModule
                \/ RejectThunk \/ ReadThunk \/ CloseModule

Parse == ParseHeaders \/ ParseExports \/ ParseImports

Terminating == pc = "done" /\ UNCHANGED vars

Next == Parse \/ Terminating

Spec == Init /\ [][Next]_vars

(* The calling thread keeps running. *)
FairSpec == Spec /\ WF_vars(Parse)

-----------------------------------------------------------------------------
String == Seq(0..(Word - 1))
Export == [name : String, ordinal : 0..Max16, rva : 0..(Word - 1),
           forwarded : BOOLEAN, forwarder : String]
ImportFunction == [by_ordinal : BOOLEAN, ordinal : 0..Max16, name : String]
Section == [virtual_size : 0..(Word - 1), virtual_address : 0..(Word - 1),
            raw_size : 0..(Word - 1), raw_offset : 0..(Word - 1)]

(* The type of every variable: an ordinal is 16 bits wide whatever is      *)
(* added up for it, and the directories that are looked at are in the file.*)
TypeOK ==
  /\ IsFile(file)
  /\ pc \in {"dos", "nt", "optional", "sections", "exports", "names", "imports",
             "thunks", "done"}
  /\ status \in {"running", "ok", "bad_headers", "bad_exports", "bad_imports", "truncated"}
  /\ dir_count \in 0..(Word - 1)
  /\ dir_count # 0 => DirOffset + dir_count * 8 <= file.size
  /\ sections \in Seq(Section)
  /\ exports \in Seq(Export)
  /\ imports \in Seq([name : String, functions : Seq(ImportFunction)])
  /\ DOMAIN directory = DOMAIN NoDirectory
  /\ \A x \in DOMAIN directory : directory[x] \in -1..(Word - 1)
  /\ module \in [name : String, thunks : -1..(Word - 1), functions : Seq(ImportFunction)]

(* The checks of e_lfanew, of the section table, of the directories and of *)
(* the three export arrays are enough: no read behind one of them fails,   *)
(* although the sums the offsets are made of wrap at 32 bits.              *)
ValidatedReadsSucceed == status # "truncated"

IsString(n) == /\ n # NoString
               /\ n[1] <= n[2] /\ n[2] < file.size
               /\ n[2] - n[1] < MaxName
               /\ \A z \in file.zeros : z >= n[1] => z >= n[2]

(* Every name that is copied into the image ends in the file, and is as    *)
(* long as it may be at most.                                              *)
StringsInFile ==
  /\ \A k \in 1..Len(exports) :
       /\ IsString(exports[k].name)
       /\ exports[k].forwarder # NoString => IsString(exports[k].forwarder)
  /\ \A k \in 1..Len(imports) : IsString(imports[k].name)
  /\ \A k \in 1..Len(module.functions) :
       module.functions[k].by_ordinal \/ IsString(module.functions[k].name)

(* The address is one of the export directory itself, in numbers that do   *)
(* not wrap.                                                               *)
InDirectory(rva) == rva - ExportRva \in 0..(DirectorySize(0) - 1)

(* An export has the address that its ordinal has in the table of          *)
(* functions.  Only an address in the directory is flagged as a forwarder, *)
(* and each one is, where the end of the directory (pe.cpp:364) does not   *)
(* wrap; ExportsAsDocumented asks for the rest.                            *)
ExportsSoFar ==
  \A k \in 1..Len(exports) :
    \E f \in 0..(directory.num_functions - 1) :
      /\ f = U16At(directory.ordinals + (k - 1) * 2)
      /\ exports[k].rva = U32At(directory.functions + f * 4)
      /\ exports[k].ordinal = (directory.base + f) % (Max16 + 1)
      /\ exports[k].forwarded => InDirectory(exports[k].rva)
      /\ InDirectory(exports[k].rva) /\ ExportRva + DirectorySize(0) < Word
           => exports[k].forwarded

(* Every function the directory exports is in the list, as the headers     *)
(* say.  It is there though it has no name: ordinal-only exports "are      *)
(* exposed through the format-specific views" (binary_image.hpp:93) with   *)
(* an empty name (pe.hpp:67).  It is flagged exactly when it is "inside    *)
(* the export directory itself" (pe.cpp:361, pe.hpp:71).                   *)
ExportsAsDocumented ==
  status = "ok" /\ ExportRva # 0 =>
    \A f \in 0..(directory.num_functions - 1) :
      LET rva == U32At(directory.functions + f * 4)
      IN  rva # 0 => \E k \in 1..Len(exports) :
                       /\ exports[k].ordinal = (directory.base + f) % (Max16 + 1)
                       /\ exports[k].forwarded <=> InDirectory(rva)

(* The n-th thunk from an offset, in numbers that do not wrap. *)
PlaceOf(n) == n * (IF Is64 THEN 8 ELSE 4)
ThunkValue(o, n) == Thunk(o + PlaceOf(n))
Thunks(k) == ModuleAt(Descriptor(k)).thunks

(* Nothing an accepted file names is missing: neither a section, nor one   *)
(* of the names of its export directory, nor a descriptor in front of the  *)
(* zero one, nor of a descriptor a thunk in front of the zero one.         *)
AcceptedIsComplete ==
  status = "ok" =>
    /\ Len(sections) = file.section_count
    /\ \A d \in {0, 1} : d < dir_count <=> /\ d < file.dir_count
                                          /\ DirOffset + (d + 1) * 8 <= file.size
    /\ ExportRva # 0 =>
         \A k \in 1..U32At(ExportOffset + 24) :
           /\ k <= Len(exports)
           /\ exports[k].name
                = StringAt(U32At(RvaToOffset[U32At(ExportOffset + 32)] + (k - 1) * 4))
    /\ ImportRva # 0 => IsLast(Current)
    /\ \A k \in 1..Len(imports) :
         LET n == Len(imports[k].functions)
         IN  /\ ~IsLast(Descriptor(k - 1))
             /\ \A m \in 0..n : ThunkValue(Thunks(k - 1), m) = 0 <=> m = n

(* What the file has to contain, in numbers that do not wrap. *)
Fits(offset, length) == offset # nullopt /\ offset + length <= file.size

HeadersFit ==
  /\ file.size >= 64 /\ file.mz
  /\ file.lfanew # 0 /\ file.lfanew + 24 <= file.size /\ file.signature
  /\ file.opt_size >= 2 /\ file.opt_magic # "other"
  /\ DirOffset <= file.size
  /\ file.lfanew + 24 + file.opt_size + file.section_count * 40 <= file.size

HasString(offset) == /\ offset # nullopt
                     /\ \E z \in file.zeros : z - offset \in 0..(MaxName - 1)

ArraysHold(d) ==
  /\ Fits(d.functions, d.num_functions * 4)
  /\ Fits(d.names, d.num_names * 4) /\ Fits(d.ordinals, d.num_names * 2)
  /\ \A k \in 0..(d.num_names - 1) :
       /\ HasString(RvaToOffset[U32At(d.names + k * 4)])
       /\ U16At(d.ordinals + k * 2) < d.num_functions

ExportsFit ==
  ExportRva # 0 => \E o \in {ExportOffset} :
                     Fits(o, 40) /\ \E d \in {DirectoryAt(o)} : ArraysHold(d)

ThunkHolds(thunk) ==
  ByOrdinal(thunk) \/ \E o \in {HintOffset(thunk)} : Fits(o, 3) /\ HasString(o + 2)

ThunksHold(o) ==
  \E n \in 0..file.size :
    /\ Fits(o, PlaceOf(n + 1))
    /\ ThunkValue(o, n) = 0
    /\ \A m \in 0..(n - 1) : ThunkValue(o, m) # 0 /\ ThunkHolds(ThunkValue(o, m))

ImportsFit ==
  ImportRva # 0 =>
    \E n \in 0..file.size :
      /\ Fits(ImportOffset, (n + 1) * 20)
      /\ IsLast(Descriptor(n))
      /\ \A k \in 0..(n - 1) :
           LET o == Descriptor(k)
           IN  /\ ~IsLast(o)
               /\ HasString(RvaToOffset[U32At(o + 12)])
               /\ \E t \in {Thunks(k)} : t # nullopt /\ ThunksHold(t)

(* A file is accepted exactly when everything it refers to is in it; a     *)
(* check is neither too weak nor rejects what fits to the last byte.       *)
VerdictIsRight ==
  pc = "done" => status = (IF ~HeadersFit THEN "bad_headers"
                           ELSE IF ~ExportsFit THEN "bad_exports"
                           ELSE IF ~ImportsFit THEN "bad_imports" ELSE "ok")

(* Every call returns: no table without an end is read for ever. *)
Terminates == <>(pc = "done")

=============================================================================
