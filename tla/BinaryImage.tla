---------------------------- MODULE BinaryImage ----------------------------
(***************************************************************************)
(* gmk::BinaryImage (src/src/binary/binary_image.cpp): one call of parse   *)
(* or of parse_file.  The call tells PE from ELF, has one of the two       *)
(* parsers read the data, and normalises what that found.  While           *)
(* parse_file reads, another process may rewrite the file in place.        *)
(*                                                                         *)
(* The two parsers appear by what they answer: an image or an error (their *)
(* own modules are Pe and Elf).  A section is what normalisation looks at: *)
(* an address and flags, which are the set of the positions of their one   *)
(* bits; an export is a name, an address and whether it is forwarded.      *)
(***************************************************************************)
EXTENDS Address, Sequences

CONSTANTS Contents,     \* what the file may hold, sequences of bytes
          PeImages,     \* the images PeImage::parse may answer
          ElfImages,    \* the images ElfImage::parse may answer
          MaxWrites     \* bound: rewrites of the file during a call

Byte    == 0..255
Zero    == 0                            \* what a fresh vector is filled with
NoImage == [format |-> "Unknown"]       \* std::monostate

(* Relative addresses have 32 bits, addresses 64: every one is an offset.   *)
Rvas == 0..PtrdiffMax

PeImageType ==
  [format : {"Pe"}, image_base : Addresses, entry_rva : Rvas,
   sections : Seq([virtual_address : Rvas, characteristics : SUBSET Nat]),
   exports : Seq([name : STRING, rva : Rvas, forwarded : BOOLEAN])]

ElfImageType ==
  [format : {"Elf"}, entry : Nat, sections : Seq([address : Nat, flags : SUBSET Nat]),
   symbols : Seq([name : STRING, address : Addresses])]

ASSUME BinaryImageAssumption ==
  /\ Contents \subseteq Seq(Byte)
  /\ PeImages \subseteq PeImageType /\ ElfImages \subseteq ElfImageType
  /\ MaxWrites \in Nat

VARIABLES op,         \* the function that was called
          disk,       \* what the file holds
          past,       \* history: everything it has held since it was opened
          writes,     \* how often it was rewritten
          pc,
          size,       \* size of parse_file
          buffer,     \* the bytes to parse
          gcount,     \* how many of them have been read
          image,      \* image_: what the parser answered
          visited,    \* exports of the image the loop has looked at
          sections,   \* sections_
          exports,    \* exports_
          status      \* what was returned or thrown

file == <<disk, past, writes>>
tables == <<visited, sections, exports>>
locals == <<op, file, size, buffer, gcount, image, tables>>
vars == <<locals, pc, status>>

-----------------------------------------------------------------------------
Init == /\ op \in {"parse", "parse_file"}
        /\ disk \in Contents /\ past = {disk} /\ writes = 0
        /\ pc = (IF op = "parse" THEN "detect" ELSE "open")
        /\ size = -1 /\ gcount = 0
        /\ buffer = (IF op = "parse" THEN disk ELSE << >>)
        /\ image = NoImage
        /\ visited = 0 /\ sections = << >> /\ exports = << >>
        /\ status = "none"

Return(s) == /\ pc' = "done"
             /\ status' = s

Leave(s) == Return(s) /\ UNCHANGED locals

(* Another process stores something else in the file that is being read.   *)
(* (A file put in its place under its name leaves the open one alone.)     *)
Rewrite == /\ pc \in {"allocate", "read"}
           /\ writes < MaxWrites
           /\ disk' \in Contents \ {disk}
           /\ past' = past \cup {disk'}
           /\ writes' = writes + 1
           /\ UNCHANGED <<op, pc, size, buffer, gcount, image, tables, status>>

-----------------------------------------------------------------------------
(* parse_file.  Opening with std::ios::ate goes to the end of the file, so *)
(* the position that tellg answers is the size the file had then.          *)
Open == /\ pc = "open"
        /\ pc' = "allocate"
        /\ size' = Len(disk)
        /\ UNCHANGED <<op, file, buffer, gcount, image, tables, status>>

(* The file cannot be opened, or tellg answers -1. *)
OpenFails == pc = "open" /\ Leave("IoError")

Allocate == /\ pc = "allocate"
            /\ pc' = "read"
            /\ buffer' = [k \in 1..size |-> Zero]
            /\ UNCHANGED <<op, file, size, gcount, image, tables, status>>

(* What calls itself the size of the file may be more than a vector holds. *)
AllocateThrows == pc = "allocate" /\ Leave("exception")

(* file.read goes on until it has size bytes; each read of the system      *)
(* hands out some of what the file holds at that moment.  Variants whose   *)
(* names say what they get wrong are not used.                             *)
ReadableAll == Len(disk) - gcount

Readable == (IF Len(disk) < size THEN Len(disk) ELSE size) - gcount

ReadSome == /\ pc = "read"
            /\ \E n \in 1..Readable :
                 /\ buffer' = [k \in DOMAIN buffer |->
                                 IF k \in gcount + 1..gcount + n THEN disk[k] ELSE buffer[k]]
                 /\ gcount' = gcount + n
            /\ UNCHANGED <<op, file, pc, size, image, tables, status>>

ReadEndIgnored == gcount = size \/ Len(disk) <= gcount

ReadIsComplete == gcount = size

ReadEnds == /\ pc = "read"
            /\ ReadIsComplete
            /\ pc' = "detect"
            /\ UNCHANGED <<locals, status>>

(* The end of a file that has become shorter, or an error of the device.   *)
ReadFails == pc = "read" /\ gcount < size /\ Leave("IoError")

-----------------------------------------------------------------------------
(* parse: detection. *)
MZ  == <<77, 90>>           \* 'M' 'Z'
ELF == <<127, 69, 76, 70>>  \* 0x7F 'E' 'L' 'F'

LooksLikePe(data) == Len(data) >= 2 /\ SubSeq(data, 1, 2) = MZ
LooksLikeElf(data) == Len(data) >= 4 /\ SubSeq(data, 1, 4) = ELF

Unrecognized == /\ pc = "detect"
                /\ ~LooksLikePe(buffer) /\ ~LooksLikeElf(buffer)
                /\ Leave("InvalidBinary")

(* The answer of PeImage::parse is kept or its error handed on. *)
ParsePe == /\ pc = "detect"
           /\ LooksLikePe(buffer)
           /\ image' \in PeImages
           /\ pc' = "sections"
           /\ UNCHANGED <<op, file, size, buffer, gcount, tables, status>>

ParsePeFails == /\ pc = "detect"
                /\ LooksLikePe(buffer)
                /\ \E e \in {"InvalidBinary", "OutOfRange"} : Leave(e)

ParseElf == /\ pc = "detect"
            /\ ~LooksLikePe(buffer) /\ LooksLikeElf(buffer)
            /\ image' \in ElfImages
            /\ pc' = "sections"
            /\ UNCHANGED <<op, file, size, buffer, gcount, tables, status>>

(* ElfImage::parse may leave with an exception of vector::reserve. *)
ParseElfFails == /\ pc = "detect"
                 /\ ~LooksLikePe(buffer) /\ LooksLikeElf(buffer)
                 /\ \E e \in {"InvalidBinary", "OutOfRange", "Unsupported", "exception"} : Leave(e)

-----------------------------------------------------------------------------
(* parse: normalisation. *)
IsPe == image.format = "Pe"
ImageBase == FromInteger(image.image_base)

(* IMAGE_SCN_MEM_EXECUTE, _READ and _WRITE are the bits 29, 30 and 31. *)
PeSection(s) == [address    |-> AddSize(ImageBase, s.virtual_address),
                 readable   |-> 30 \in s.characteristics,
                 writable   |-> 31 \in s.characteristics,
                 executable |-> 29 \in s.characteristics]

(* The flags are masked with 0x4, 0x1 and 0x2. *)
ElfSection(s) == [address    |-> AsAddress(s.address),
                  readable   |-> 2 \in s.flags,
                  writable   |-> 0 \in s.flags,
                  executable |-> 1 \in s.flags]

NormalizeSection ==
  /\ pc = "sections"
  /\ Len(sections) < Len(image.sections)
  /\ LET s == image.sections[Len(sections) + 1]
     IN  sections' = Append(sections, IF IsPe THEN PeSection(s) ELSE ElfSection(s))
  /\ UNCHANGED <<op, file, pc, size, buffer, gcount, image, visited, exports, status>>

SectionsEnd == /\ pc = "sections"
               /\ Len(sections) = Len(image.sections)
               /\ pc' = "exports"
               /\ UNCHANGED <<locals, status>>

(* exports_ of a PE image: named exports that are not forwarded. *)
Skipped(e) == e.forwarded \/ e.name = ""

KeepExport ==
  /\ pc = "exports" /\ IsPe
  /\ visited < Len(image.exports)
  /\ LET e == image.exports[visited + 1]
     IN  /\ ~Skipped(e)
         /\ exports' = Append(exports, [name |-> e.name, address |-> AddSize(ImageBase, e.rva)])
  /\ visited' = visited + 1
  /\ UNCHANGED <<op, file, pc, size, buffer, gcount, image, sections, status>>

SkipExportBreaks ==
  /\ pc = "exports" /\ IsPe
  /\ visited < Len(image.exports)
  /\ Skipped(image.exports[visited + 1])
  /\ visited' = Len(image.exports)
  /\ UNCHANGED <<op, file, pc, size, buffer, gcount, image, sections, exports, status>>

SkipExport ==
  /\ pc = "exports" /\ IsPe
  /\ visited < Len(image.exports)
  /\ Skipped(image.exports[visited + 1])
  /\ visited' = visited + 1
  /\ UNCHANGED <<op, file, pc, size, buffer, gcount, image, sections, exports, status>>

ExportsEnd == /\ pc = "exports" /\ IsPe
              /\ visited = Len(image.exports)
              /\ Leave("ok")

(* exports_ of an ELF image are its symbols, which have an address. *)
TakeSymbols == /\ pc = "exports" /\ ~IsPe
               /\ exports' = image.symbols
               /\ Return("ok")
               /\ UNCHANGED <<op, file, size, buffer, gcount, image, visited, sections>>

Terminating == pc = "done" /\ UNCHANGED vars

-----------------------------------------------------------------------------
Next == \/ Rewrite
        \/ Open \/ OpenFails \/ Allocate \/ AllocateThrows
        \/ ReadSome \/ ReadEnds \/ ReadFails
        \/ Unrecognized \/ ParsePe \/ ParsePeFails \/ ParseElf \/ ParseElfFails
        \/ NormalizeSection \/ SectionsEnd
        \/ KeepExport \/ SkipExport \/ ExportsEnd \/ TakeSymbols
        \/ Terminating

Spec == Init /\ [][Next]_vars

(* The observers of a parsed image. *)
EntryPoint == IF IsPe THEN AddSize(ImageBase, image.entry_rva)
              ELSE IF image.format = "Elf" THEN AsAddress(image.entry) ELSE Null

-----------------------------------------------------------------------------
(* Type invariant: as many bytes are read as the buffer has room for, and  *)
(* addresses have the width of one.                                        *)
Statuses == {"none", "ok", "IoError", "InvalidBinary", "OutOfRange", "Unsupported", "exception"}

TypeOK ==
  /\ op \in {"parse", "parse_file"}
  /\ disk \in past /\ past \subseteq Contents /\ writes \in 0..MaxWrites
  /\ pc \in {"open", "allocate", "read", "detect", "sections", "exports", "done"}
  /\ size \in Int /\ (pc = "read" => gcount \in 0..size /\ Len(buffer) = size)
  /\ image \in {NoImage} \cup PeImages \cup ElfImages
  /\ \A k \in DOMAIN sections : sections[k].address \in Addresses
  /\ \A k \in DOMAIN exports : exports[k].address \in Addresses
  /\ EntryPoint \in Addresses
  /\ status \in Statuses /\ (status = "none" <=> pc # "done")

(* binary_image.cpp:106-115: the size is asked for before the bytes are    *)
(* read.  What is parsed is nevertheless as long as the file once was, no  *)
(* byte of it is other than one the file held at that place, and it is the *)
(* file when nobody rewrote it.                                            *)
OnlyFileBytesParsed ==
  op = "parse_file" /\ pc = "detect" =>
    /\ \E c \in past : Len(c) = Len(buffer)
    /\ \A k \in DOMAIN buffer : \E c \in past : k <= Len(c) /\ buffer[k] = c[k]
    /\ past = {disk} => buffer = disk

(* From an address of the image and the image base, difference() gives the *)
(* relative address of the file back; an address behind the end of the     *)
(* address space is null, not one that has wrapped around.                 *)
Recoverable(a, rva) == IF image.image_base + rva <= MaxAddress
                       THEN Difference(a, ImageBase) = rva
                       ELSE a = Null

(* binary_image.cpp:62,78: every address of the normalised tables leads    *)
(* back to the entry of the file it was made of, in the order of the file. *)
AddressesRecoverable ==
  IsPe =>
    /\ \A k \in DOMAIN sections :
         Recoverable(sections[k].address, image.sections[k].virtual_address)
    /\ \A k \in DOMAIN exports : \E j \in 1..visited :
         /\ image.exports[j].name = exports[k].name
         /\ Recoverable(exports[k].address, image.exports[j].rva)
    /\ Recoverable(EntryPoint, image.entry_rva)

(* The table of exports is the wanted ones among those the loop has looked *)
(* at: each of them once, in the order of the file.                        *)
Wanted == {j \in 1..visited : ~Skipped(image.exports[j])}

ExportsAreWanted ==
  \E at \in [DOMAIN exports -> Wanted] :
    /\ \A j \in Wanted : \E k \in DOMAIN exports : at[k] = j
    /\ \A k, m \in DOMAIN exports : k < m => at[k] < at[m]
    /\ \A k \in DOMAIN exports : exports[k].name = image.exports[at[k]].name

(* binary_image.hpp:93-95: an image that is returned lists every section   *)
(* of the file and every named export that is not forwarded, and no other, *)
(* in the order of the file.                                               *)
TablesComplete ==
  status = "ok" =>
    /\ Len(sections) = Len(image.sections)
    /\ IsPe => visited = Len(image.exports) /\ ExportsAreWanted

=============================================================================
