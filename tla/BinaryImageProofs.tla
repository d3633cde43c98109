------------------------- MODULE BinaryImageProofs -------------------------
(* Theorems about BinaryImage: what parse_file hands to the parsers, and   *)
(* where the addresses of a normalised PE image lead, for every file,      *)
(* every image and every number of rewrites.                               *)
EXTENDS BinaryImage, AddressProofs

Loading == {"allocate", "read"}

(* Where parse_file is in its file.  What has been read so far was there   *)
(* at some time, and is the file's if nobody wrote.                        *)
FileInv ==
  /\ disk \in past /\ past \subseteq Contents
  /\ pc \in Loading \cup {"open"} => op = "parse_file"
  /\ pc \in Loading \cup {"detect"} /\ op = "parse_file" =>
       /\ size \in Nat /\ gcount \in 0..size
       /\ \E c \in past : Len(c) = size
       /\ past = {disk} => Len(disk) = size
  /\ pc \in {"allocate", "open"} => gcount = 0
  /\ pc \in {"read", "detect"} /\ op = "parse_file" =>
       /\ buffer \in Seq(Byte) /\ Len(buffer) = size
       /\ \A k \in 1..gcount : \E c \in past : k <= Len(c) /\ buffer[k] = c[k]
       /\ past = {disk} => \A k \in 1..gcount : buffer[k] = disk[k]
  /\ pc = "detect" /\ op = "parse_file" => gcount = size

(* How far the tables are. *)
TableInv ==
  /\ image \in {NoImage} \cup PeImages \cup ElfImages
  /\ image = NoImage => visited = 0 /\ sections = << >> /\ exports = << >>
  /\ pc \in Loading \cup {"open", "detect"} => image = NoImage
  /\ pc \in {"sections", "exports"} => image # NoImage
  /\ sections \in Seq([address : Addresses, readable : BOOLEAN,
                       writable : BOOLEAN, executable : BOOLEAN])
  /\ exports \in Seq([name : STRING, address : Addresses])
  /\ IsPe => Len(sections) <= Len(image.sections) /\ visited \in 0..Len(image.exports)

ControlInv ==
  /\ op \in {"parse", "parse_file"}
  /\ writes \in 0..MaxWrites
  /\ pc \in {"open", "allocate", "read", "detect", "sections", "exports", "done"}
  /\ size \in Int
  /\ status \in Statuses /\ (status = "none" <=> pc # "done")

-----------------------------------------------------------------------------
LEMMA ContentType == \A c \in Contents : c \in Seq(Byte) /\ Len(c) \in Nat
  BY BinaryImageAssumption

LEMMA ZeroIsByte == Zero \in Byte
  BY DEF Zero, Byte

LEMMA ByteOf ==
  ASSUME NEW s \in Seq(Byte), NEW k \in 1..Len(s)
  PROVE  s[k] \in Byte
  OBVIOUS

LEMMA Bytes ==
  ASSUME NEW n \in Nat, NEW f \in [1..n -> Byte]
  PROVE  f \in Seq(Byte) /\ Len(f) = n
  OBVIOUS

(* The ways out of a call that change nothing but pc and status.           *)
Leaving == UNCHANGED locals /\ pc' = "done" /\ status' \in Statuses \ {"none"}

LEMMA LeavingSteps ==
  \/ OpenFails \/ AllocateThrows \/ ReadFails \/ Unrecognized
  \/ ParsePeFails \/ ParseElfFails \/ ExportsEnd
  => Leaving
BY DEF OpenFails, AllocateThrows, ReadFails, Unrecognized, ParsePeFails, ParseElfFails,
       ExportsEnd, Leave, Return, Leaving, Statuses

LEMMA ControlInvStep == ControlInv /\ FileInv /\ [Next]_vars => ControlInv'
<1> SUFFICES ASSUME ControlInv /\ FileInv, [Next]_vars
             PROVE  ControlInv'
  OBVIOUS
<1> USE DEF ControlInv, Statuses, Return, file, tables
<1>1. CASE Rewrite
  BY <1>1, BinaryImageAssumption DEF Rewrite
<1>2. CASE Open
  BY <1>2, ContentType DEF Open, FileInv
<1>3. CASE Allocate
  BY <1>3 DEF Allocate
<1>4. CASE ReadSome
  BY <1>4 DEF ReadSome
<1>5. CASE ReadEnds
  BY <1>5 DEF locals, ReadEnds
<1>6. CASE ParsePe
  BY <1>6 DEF ParsePe
<1>7. CASE ParseElf
  BY <1>7 DEF ParseElf
<1>8. CASE NormalizeSection
  BY <1>8 DEF NormalizeSection
<1>9. CASE SectionsEnd
  BY <1>9 DEF locals, SectionsEnd
<1>10. CASE KeepExport
  BY <1>10 DEF KeepExport
<1>11. CASE SkipExport
  BY <1>11 DEF SkipExport
<1>12. CASE TakeSymbols
  BY <1>12 DEF TakeSymbols
<1>13. CASE Terminating
  BY <1>13 DEF Terminating, vars, locals
<1>14. CASE Leaving
  BY <1>14 DEF Leaving, locals
<1>15. CASE UNCHANGED vars
  BY <1>15 DEF vars, locals
<1> QED
  BY <1>1, <1>2, <1>3, <1>4, <1>5, <1>6, <1>7, <1>8, <1>9, <1>10, <1>11,
     <1>12, <1>13, <1>14, <1>15, LeavingSteps DEF Next

LEMMA FileInvStep == FileInv /\ [Next]_vars => FileInv'
<1> SUFFICES ASSUME FileInv, [Next]_vars
             PROVE  FileInv'
  OBVIOUS
<1> USE DEF FileInv, Loading, Return, file, tables
<1>1. CASE Rewrite
  <2>1. disk' \in past' /\ past' \subseteq Contents /\ past' # {disk'}
    BY <1>1 DEF Rewrite
  <2>2. past \subseteq past'
    BY <1>1 DEF Rewrite
  <2>3. pc' = pc /\ op' = op /\ size' = size /\ gcount' = gcount /\ buffer' = buffer
    BY <1>1 DEF Rewrite
  <2> QED
    BY <2>1, <2>2, <2>3
<1>2. CASE Open
  BY <1>2, ContentType DEF Open
<1>3. CASE Allocate
  <2>1. op = "parse_file" /\ size \in Nat /\ gcount = 0 /\ pc' = "read" /\ pc = "allocate"
    BY <1>3 DEF Allocate, Loading
  <2>2. buffer' = [k \in 1..size |-> Zero]
    BY <1>3 DEF Allocate
  <2>3. buffer' \in [1..size -> Byte]
    BY <2>2, ZeroIsByte
  <2>4. buffer' \in Seq(Byte) /\ Len(buffer') = size
    BY <2>1, <2>3, Bytes
  <2> QED
    BY <1>3, <2>1, <2>4 DEF Allocate
<1>4. CASE ReadSome
  <2>1. PICK n \in 1..Readable :
          /\ buffer' = [k \in DOMAIN buffer |->
                          IF k \in gcount + 1..gcount + n THEN disk[k] ELSE buffer[k]]
          /\ gcount' = gcount + n
    BY <1>4 DEF ReadSome
  <2>2. /\ pc = "read" /\ pc' = "read" /\ op = "parse_file"
        /\ UNCHANGED <<op, disk, past, size>>
    BY <1>4 DEF ReadSome, Loading
  <2>3. /\ size \in Nat /\ gcount \in 0..size /\ buffer \in Seq(Byte) /\ Len(buffer) = size
        /\ disk \in Seq(Byte) /\ Len(disk) \in Nat
    BY <2>2, ContentType DEF Loading
  <2>4. n \in Nat /\ gcount + n <= size /\ gcount + n <= Len(disk)
    BY <2>1, <2>3 DEF Readable
  <2>5. DOMAIN buffer = 1..size /\ DOMAIN disk = 1..Len(disk)
    BY <2>3
  <2>6. \A k \in 1..size : buffer'[k] = IF k \in gcount + 1..gcount + n THEN disk[k] ELSE buffer[k]
    BY <2>1, <2>5
  <2>7. buffer' \in Seq(Byte) /\ Len(buffer') = size
    <3>1. \A k \in 1..size : buffer'[k] \in Byte
      <4> SUFFICES ASSUME NEW k \in 1..size
                   PROVE  buffer'[k] \in Byte
        OBVIOUS
      <4>1. CASE k \in gcount + 1..gcount + n
        <5>1. k \in 1..Len(disk)
          BY <2>3, <2>4, <4>1
        <5> QED
          BY <2>3, <2>6, <4>1, <5>1, ByteOf
      <4>2. CASE k \notin gcount + 1..gcount + n
        <5>1. k \in 1..Len(buffer)
          BY <2>3
        <5> QED
          BY <2>3, <2>6, <4>2, <5>1, ByteOf
      <4> QED
        BY <4>1, <4>2
    <3>2. buffer' \in [1..size -> Byte]
      BY <2>1, <2>5, <3>1
    <3> QED
      BY <2>3, <3>2, Bytes
  <2>8. ASSUME NEW k \in 1..gcount'
        PROVE  /\ \E c \in past : k <= Len(c) /\ buffer'[k] = c[k]
               /\ past = {disk} => buffer'[k] = disk[k]
    <3>1. k \in 1..size /\ k <= Len(disk)
      BY <2>1, <2>3, <2>4, <2>8
    <3>2. CASE k \in gcount + 1..gcount + n
      <4>1. buffer'[k] = disk[k]
        BY <2>6, <3>1, <3>2
      <4> QED
        BY <3>1, <4>1
    <3>3. CASE k \notin gcount + 1..gcount + n
      <4>1. k \in 1..gcount /\ buffer'[k] = buffer[k]
        BY <2>1, <2>3, <2>4, <2>6, <2>8, <3>1, <3>3
      <4> QED
        BY <2>2, <4>1
    <3> QED
      BY <3>2, <3>3
  <2>9. /\ \A k \in 1..gcount' : \E c \in past' : k <= Len(c) /\ buffer'[k] = c[k]
        /\ past' = {disk'} => \A k \in 1..gcount' : buffer'[k] = disk'[k]
    BY <2>2, <2>8
  <2>10. gcount' \in 0..size'
    BY <2>1, <2>2, <2>3, <2>4
  <2>11. disk' \in past' /\ past' \subseteq Contents /\ size' \in Nat
    BY <2>2, <2>3
  <2>12. /\ \E c \in past' : Len(c) = size'
         /\ past' = {disk'} => Len(disk') = size'
    BY <2>2 DEF Loading
  <2> QED
    BY <2>2, <2>7, <2>9, <2>10, <2>11, <2>12 DEF Loading
<1>5. CASE ReadEnds
  BY <1>5 DEF locals, ReadEnds, ReadIsComplete, Loading
<1>6. CASE ParsePe
  BY <1>6 DEF ParsePe
<1>7. CASE ParseElf
  BY <1>7 DEF ParseElf
<1>8. CASE NormalizeSection
  BY <1>8 DEF NormalizeSection
<1>9. CASE SectionsEnd
  BY <1>9 DEF locals, SectionsEnd
<1>10. CASE KeepExport
  BY <1>10 DEF KeepExport
<1>11. CASE SkipExport
  BY <1>11 DEF SkipExport
<1>12. CASE TakeSymbols
  BY <1>12 DEF TakeSymbols
<1>13. CASE Terminating
  BY <1>13 DEF Terminating, vars, locals
<1>14. CASE Leaving
  BY <1>14 DEF Leaving, locals
<1>15. CASE UNCHANGED vars
  BY <1>15 DEF vars, locals
<1> QED
  BY <1>1, <1>2, <1>3, <1>4, <1>5, <1>6, <1>7, <1>8, <1>9, <1>10, <1>11,
     <1>12, <1>13, <1>14, <1>15, LeavingSteps DEF Next

LEMMA ImageType == /\ NoImage.format # "Pe"
                   /\ \A p \in PeImages : p \in PeImageType /\ p.format = "Pe" /\ p # NoImage
                   /\ \A e \in ElfImages : e \in ElfImageType /\ e.format = "Elf" /\ e # NoImage
<1>1. \A p \in PeImages : p \in PeImageType
  BY BinaryImageAssumption
<1>2. \A p \in PeImageType : p.format = "Pe"
  BY DEF PeImageType
<1>3. \A e \in ElfImages : e \in ElfImageType
  BY BinaryImageAssumption
<1>4. \A e \in ElfImageType : e.format = "Elf"
  BY DEF ElfImageType
<1>5. NoImage.format = "Unknown"
  BY DEF NoImage
<1> QED
  BY <1>1, <1>2, <1>3, <1>4, <1>5

LEMMA ElementOf ==
  ASSUME NEW S, NEW s \in Seq(S), NEW k \in 1..Len(s)
  PROVE  s[k] \in S
  OBVIOUS

LEMMA PeOnly == TableInv /\ IsPe => image \in PeImages /\ image \in PeImageType
  BY ImageType DEF TableInv, IsPe

LEMMA ElfOnly == TableInv /\ ~IsPe /\ image # NoImage => image \in ElfImageType
  BY ImageType DEF TableInv, IsPe

(* An image base is kept as it is, and what is added to it is an address.  *)
LEMMA PeAddress ==
  ASSUME TableInv, IsPe, NEW n \in Rvas
  PROVE  /\ ImageBase = image.image_base /\ ImageBase \in Addresses
         /\ AddSize(ImageBase, n) \in Addresses
         /\ Recoverable(AddSize(ImageBase, n), n)
<1>1. image.image_base \in Addresses
  BY PeOnly DEF PeImageType
<1>2. ImageBase = image.image_base
  BY <1>1, IntegersSurvive DEF ImageBase
<1>3. n \in Addresses
  BY Halves DEF Rvas, Addresses
<1>4. AddSize(ImageBase, n) \in Addresses
  BY <1>1, <1>2, <1>3, SumOrNull, AddressAssumption DEF Addresses, Null
<1>5. Recoverable(AddSize(ImageBase, n), n)
  BY <1>1, <1>2, OffsetRecovered DEF Recoverable, Rvas
<1> QED
  BY <1>1, <1>2, <1>4, <1>5

SectionType == [address : Addresses, readable : BOOLEAN, writable : BOOLEAN, executable : BOOLEAN]
ExportType == [name : STRING, address : Addresses]

LEMMA TableInvStep == TableInv /\ [Next]_vars => TableInv'
<1> SUFFICES ASSUME TableInv, [Next]_vars
             PROVE  TableInv'
  OBVIOUS
<1> USE DEF file, tables, Return
<1>1. CASE Rewrite
  BY <1>1 DEF Rewrite, TableInv, IsPe, Loading
<1>2. CASE Open
  BY <1>2 DEF Open, TableInv, IsPe, Loading
<1>3. CASE Allocate
  BY <1>3 DEF Allocate, TableInv, IsPe, Loading
<1>4. CASE ReadSome
  BY <1>4 DEF ReadSome, TableInv, IsPe, Loading
<1>5. CASE ReadEnds
  BY <1>5 DEF locals, ReadEnds, TableInv, IsPe, Loading
<1>6. CASE ParsePe
  <2>1. image' \in PeImages /\ image' # NoImage /\ image = NoImage /\ pc' = "sections"
    BY <1>6, ImageType DEF ParsePe, TableInv
  <2>2. image'.sections \in Seq([virtual_address : Rvas, characteristics : SUBSET Nat])
    BY <2>1, ImageType DEF PeImageType
  <2>3. image'.exports \in Seq([name : STRING, rva : Rvas, forwarded : BOOLEAN])
    BY <2>1, ImageType DEF PeImageType
  <2>4. UNCHANGED tables /\ sections = << >> /\ exports = << >> /\ visited = 0
    BY <1>6, <2>1 DEF ParsePe, TableInv
  <2>5. Len(sections') <= Len(image'.sections) /\ visited' \in 0..Len(image'.exports)
    BY <2>2, <2>3, <2>4
  <2> QED
    BY <2>1, <2>4, <2>5 DEF TableInv, Loading
<1>7. CASE ParseElf
  <2>1. image' \in ElfImages /\ image' # NoImage /\ image = NoImage /\ pc' = "sections"
    BY <1>7, ImageType DEF ParseElf, TableInv
  <2>2. image'.format # "Pe"
    BY <2>1, ImageType
  <2>3. UNCHANGED tables
    BY <1>7 DEF ParseElf
  <2> QED
    BY <2>1, <2>2, <2>3 DEF TableInv, Loading, IsPe
<1>8. CASE NormalizeSection
  <2> DEFINE s == image.sections[Len(sections) + 1]
             x == IF IsPe THEN PeSection(s) ELSE ElfSection(s)
  <2>1. sections' = Append(sections, x) /\ Len(sections) < Len(image.sections) /\ image # NoImage
    BY <1>8 DEF NormalizeSection, TableInv
  <2>2. UNCHANGED <<image, visited, exports, pc>> /\ pc = "sections"
    BY <1>8 DEF NormalizeSection
  <2>3. sections \in Seq(SectionType) /\ Len(sections) \in Nat
    BY DEF TableInv, SectionType
  <2>4. x \in SectionType
    <3>1. CASE IsPe
      <4>1. image.sections \in Seq([virtual_address : Rvas, characteristics : SUBSET Nat])
        BY <3>1, PeOnly DEF PeImageType
      <4>2. Len(sections) + 1 \in 1..Len(image.sections)
        BY <2>1, <2>3, <4>1
      <4>3. s.virtual_address \in Rvas
        <5>1. s \in [virtual_address : Rvas, characteristics : SUBSET Nat]
          BY <4>1, <4>2, ElementOf
        <5> QED
          BY <5>1
      <4>4. AddSize(ImageBase, s.virtual_address) \in Addresses
        BY <3>1, <4>3, PeAddress
      <4> QED
        BY <3>1, <4>4 DEF PeSection, SectionType
    <3>2. CASE ~IsPe
      <4>1. image.sections \in Seq([address : Nat, flags : SUBSET Nat])
        BY <2>1, <3>2, ElfOnly DEF ElfImageType
      <4>2. Len(sections) + 1 \in 1..Len(image.sections)
        BY <2>1, <2>3, <4>1
      <4>3. s.address \in Nat
        <5>1. s \in [address : Nat, flags : SUBSET Nat]
          BY <4>1, <4>2, ElementOf
        <5> QED
          BY <5>1
      <4>4. AsAddress(s.address) \in Addresses
        BY <4>3, Converted
      <4> QED
        BY <3>2, <4>4 DEF ElfSection, SectionType
    <3> QED
      BY <3>1, <3>2
  <2> HIDE DEF x
  <2>5. sections' \in Seq(SectionType) /\ Len(sections') = Len(sections) + 1
    BY <2>1, <2>3, <2>4
  <2>6. IsPe => Len(image.sections) \in Nat
    BY PeOnly DEF PeImageType
  <2> QED
    BY <2>1, <2>2, <2>3, <2>5, <2>6 DEF TableInv, IsPe, SectionType, Loading
<1>9. CASE SectionsEnd
  BY <1>9 DEF locals, SectionsEnd, TableInv, IsPe, Loading
<1>10. CASE KeepExport
  <2> DEFINE e == image.exports[visited + 1]
             x == [name |-> e.name, address |-> AddSize(ImageBase, e.rva)]
  <2>1. exports' = Append(exports, x) /\ visited' = visited + 1 /\ visited < Len(image.exports) /\ IsPe
    BY <1>10 DEF KeepExport
  <2>2. UNCHANGED <<image, sections, pc>> /\ pc = "exports" /\ image # NoImage
    BY <1>10 DEF KeepExport, TableInv
  <2>3. exports \in Seq(ExportType) /\ visited \in Nat
    BY <2>1 DEF TableInv, ExportType
  <2>4. image.exports \in Seq([name : STRING, rva : Rvas, forwarded : BOOLEAN])
    BY <2>1, PeOnly DEF PeImageType
  <2>5. e.name \in STRING /\ e.rva \in Rvas
    <3>1. visited + 1 \in 1..Len(image.exports)
      BY <2>1, <2>3, <2>4
    <3>2. e \in [name : STRING, rva : Rvas, forwarded : BOOLEAN]
      BY <2>4, <3>1, ElementOf
    <3> QED
      BY <3>2
  <2>6. x \in ExportType
    BY <2>1, <2>5, PeAddress DEF ExportType
  <2> HIDE DEF x
  <2>7. exports' \in Seq(ExportType)
    BY <2>1, <2>3, <2>6
  <2>8. visited' \in 0..Len(image.exports)
    BY <2>1, <2>3, <2>4
  <2> QED
    BY <2>1, <2>2, <2>7, <2>8 DEF TableInv, IsPe, ExportType, Loading
<1>11. CASE SkipExport
  <2>1. visited' = visited + 1 /\ visited < Len(image.exports) /\ IsPe
    BY <1>11 DEF SkipExport
  <2>2. UNCHANGED <<image, sections, exports, pc>> /\ pc = "exports" /\ image # NoImage
    BY <1>11 DEF SkipExport, TableInv
  <2>3. image.exports \in Seq([name : STRING, rva : Rvas, forwarded : BOOLEAN])
    BY <2>1, PeOnly DEF PeImageType
  <2>4. visited' \in 0..Len(image.exports)
    BY <2>1, <2>3 DEF TableInv
  <2> QED
    BY <2>1, <2>2, <2>4 DEF TableInv, IsPe, Loading
<1>12. CASE TakeSymbols
  <2>1. exports' = image.symbols /\ ~IsPe /\ image # NoImage
    BY <1>12 DEF TakeSymbols, TableInv
  <2>2. image.symbols \in Seq(ExportType)
    BY <2>1, ElfOnly DEF ElfImageType, ExportType
  <2>3. UNCHANGED <<image, sections, visited>> /\ pc' = "done"
    BY <1>12 DEF TakeSymbols
  <2> QED
    BY <2>1, <2>2, <2>3 DEF TableInv, IsPe, ExportType, Loading
<1>13. CASE Terminating
  BY <1>13 DEF Terminating, TableInv, IsPe, Loading, vars, locals
<1>14. CASE Leaving
  BY <1>14 DEF Leaving, locals, TableInv, IsPe, Loading
<1>15. CASE UNCHANGED vars
  BY <1>15 DEF TableInv, IsPe, vars, locals
<1> QED
  BY <1>1, <1>2, <1>3, <1>4, <1>5, <1>6, <1>7, <1>8, <1>9, <1>10, <1>11,
     <1>12, <1>13, <1>14, <1>15, LeavingSteps DEF Next

(* What the tables of a PE image hold so far leads back to the file.       *)
AddressInv ==
  IsPe =>
    /\ \A k \in DOMAIN sections :
         Recoverable(sections[k].address, image.sections[k].virtual_address)
    /\ \A k \in DOMAIN exports : \E j \in 1..visited :
         /\ image.exports[j].name = exports[k].name
         /\ Recoverable(exports[k].address, image.exports[j].rva)

LEMMA AddressInvStep == TableInv /\ AddressInv /\ [Next]_vars => AddressInv'
<1> SUFFICES ASSUME TableInv /\ AddressInv, [Next]_vars
             PROVE  AddressInv'
  OBVIOUS
<1> USE DEF AddressInv, IsPe, Recoverable, ImageBase, tables
<1>1. CASE Rewrite
  BY <1>1 DEF Rewrite
<1>2. CASE Open
  BY <1>2 DEF Open
<1>3. CASE Allocate
  BY <1>3 DEF Allocate
<1>4. CASE ReadSome
  BY <1>4 DEF ReadSome
<1>5. CASE ReadEnds
  BY <1>5 DEF locals, ReadEnds
<1>6. CASE ParsePe
  <2>1. sections' = << >> /\ exports' = << >>
    BY <1>6 DEF ParsePe, TableInv
  <2> QED
    BY <2>1
<1>7. CASE ParseElf
  <2>1. sections' = << >> /\ exports' = << >>
    BY <1>7 DEF ParseElf, TableInv
  <2> QED
    BY <2>1
<1>8. CASE NormalizeSection
  <2> SUFFICES ASSUME IsPe
               PROVE  AddressInv'
    BY <1>8 DEF NormalizeSection, IsPe
  <2> DEFINE s == image.sections[Len(sections) + 1]
  <2>1. sections' = Append(sections, PeSection(s)) /\ Len(sections) < Len(image.sections)
    BY <1>8 DEF NormalizeSection
  <2>2. UNCHANGED <<image, visited, exports>>
    BY <1>8 DEF NormalizeSection
  <2>3. sections \in Seq(SectionType) /\ Len(sections) \in Nat
    BY DEF TableInv, SectionType
  <2>4. Recoverable(PeSection(s).address, s.virtual_address)
    <3>1. image.sections \in Seq([virtual_address : Rvas, characteristics : SUBSET Nat])
      BY PeOnly DEF PeImageType
    <3>2. Len(sections) + 1 \in 1..Len(image.sections)
      BY <2>1, <2>3, <3>1
    <3>3. s \in [virtual_address : Rvas, characteristics : SUBSET Nat]
      BY <3>1, <3>2, ElementOf
    <3>4. s.virtual_address \in Rvas
      BY <3>3
    <3> QED
      BY <3>4, PeAddress DEF PeSection
  <2>5. ASSUME NEW k \in DOMAIN sections'
        PROVE  Recoverable(sections'[k].address, image.sections[k].virtual_address)
    <3>1. CASE k \in DOMAIN sections
      <4>1. sections'[k] = sections[k]
        BY <2>1, <2>3, <3>1
      <4> QED
        BY <3>1, <4>1
    <3>2. CASE k \notin DOMAIN sections
      <4>1. k = Len(sections) + 1 /\ sections'[k] = PeSection(s)
        BY <2>1, <2>3, <2>5, <3>2
      <4> QED
        BY <2>4, <4>1
    <3> QED
      BY <3>1, <3>2
  <2>6. \A k \in DOMAIN sections' :
          Recoverable(sections[k].address, image.sections[k].virtual_address)'
    BY <2>2, <2>5 DEF Recoverable, ImageBase
  <2> QED
    BY <2>2, <2>6 DEF Recoverable, ImageBase
<1>9. CASE SectionsEnd
  BY <1>9 DEF locals, SectionsEnd
<1>10. CASE KeepExport
  <2> DEFINE e == image.exports[visited + 1]
             x == [name |-> e.name, address |-> AddSize(ImageBase, e.rva)]
  <2>1. exports' = Append(exports, x) /\ visited' = visited + 1 /\ visited < Len(image.exports) /\ IsPe
    BY <1>10 DEF KeepExport
  <2>2. UNCHANGED <<image, sections>>
    BY <1>10 DEF KeepExport
  <2>3. exports \in Seq(ExportType) /\ visited \in Nat
    BY <2>1 DEF TableInv, ExportType
  <2>4. x.name = e.name /\ Recoverable(x.address, e.rva)
    <3>1. image.exports \in Seq([name : STRING, rva : Rvas, forwarded : BOOLEAN])
      BY <2>1, PeOnly DEF PeImageType
    <3>2. visited + 1 \in 1..Len(image.exports)
      BY <2>1, <2>3, <3>1
    <3>3. e \in [name : STRING, rva : Rvas, forwarded : BOOLEAN]
      BY <3>1, <3>2, ElementOf
    <3>4. e.rva \in Rvas
      BY <3>3
    <3> QED
      BY <2>1, <3>4, PeAddress
  <2> HIDE DEF x
  <2>5. ASSUME NEW k \in DOMAIN exports'
        PROVE  \E j \in 1..visited' : /\ image.exports[j].name = exports'[k].name
                                     /\ Recoverable(exports'[k].address, image.exports[j].rva)
    <3>1. CASE k \in DOMAIN exports
      <4>1. exports'[k] = exports[k]
        BY <2>1, <2>3, <3>1
      <4>2. PICK j \in 1..visited : /\ image.exports[j].name = exports[k].name
                                    /\ Recoverable(exports[k].address, image.exports[j].rva)
        BY <2>1, <3>1
      <4>3. j \in 1..visited'
        BY <2>1, <2>3
      <4> QED
        BY <4>1, <4>2, <4>3
    <3>2. CASE k \notin DOMAIN exports
      <4>1. exports'[k] = x
        BY <2>1, <2>3, <2>5, <3>2
      <4>2. visited + 1 \in 1..visited'
        BY <2>1, <2>3
      <4> QED
        BY <2>4, <4>1, <4>2
    <3> QED
      BY <3>1, <3>2
  <2>6. \A k \in DOMAIN exports' : \E j \in 1..visited' :
          (/\ image.exports[j].name = exports[k].name
           /\ Recoverable(exports[k].address, image.exports[j].rva))'
    BY <2>2, <2>5 DEF Recoverable, ImageBase
  <2> QED
    BY <2>1, <2>2, <2>6 DEF Recoverable, ImageBase
<1>11. CASE SkipExport
  <2>1. visited' = visited + 1 /\ visited \in Nat /\ IsPe
    BY <1>11 DEF SkipExport, TableInv
  <2>2. UNCHANGED <<image, sections, exports>>
    BY <1>11 DEF SkipExport
  <2>3. 1..visited \subseteq 1..visited'
    BY <2>1
  <2> QED
    BY <2>1, <2>2, <2>3
<1>12. CASE TakeSymbols
  <2>1. ~IsPe /\ image' = image
    BY <1>12 DEF TakeSymbols
  <2> QED
    BY <2>1 DEF IsPe
<1>13. CASE Terminating
  BY <1>13 DEF Terminating, vars, locals
<1>14. CASE Leaving
  BY <1>14 DEF Leaving, locals
<1>15. CASE UNCHANGED vars
  BY <1>15 DEF vars, locals
<1> QED
  BY <1>1, <1>2, <1>3, <1>4, <1>5, <1>6, <1>7, <1>8, <1>9, <1>10, <1>11,
     <1>12, <1>13, <1>14, <1>15, LeavingSteps DEF Next

(* The tables of an image that is returned are complete: the loop over the *)
(* sections has come to its end before that over the exports begins, and   *)
(* the latter has kept what is wanted of what it has looked at.            *)
CompleteInv ==
  /\ pc = "exports" \/ status = "ok" => Len(sections) = Len(image.sections)
  /\ IsPe => ExportsAreWanted
  /\ IsPe /\ status = "ok" => visited = Len(image.exports)

(* Where the wanted exports stand depends on the image and the loop alone. *)
LEMMA SameWanted ==
  ASSUME UNCHANGED <<image, visited, exports>>
  PROVE  ExportsAreWanted' <=> ExportsAreWanted
BY DEF ExportsAreWanted, Wanted, Skipped

LEMMA NothingWanted ==
  ASSUME visited = 0, exports = << >>
  PROVE  ExportsAreWanted
<1>1. Wanted = {} /\ DOMAIN exports = {}
  BY DEF Wanted
<1> DEFINE at == [k \in {} |-> 0]
<1>2. at \in [DOMAIN exports -> Wanted]
  BY <1>1
<1> QED
  BY <1>1, <1>2 DEF ExportsAreWanted

(* Looking at an export that is skipped leaves the wanted ones as they are. *)
LEMMA SkipKeepsWanted ==
  ASSUME visited \in Nat, visited' = visited + 1, Skipped(image.exports[visited + 1]),
         image' = image
  PROVE  Wanted' = Wanted
<1>1. 1..visited' = (1..visited) \cup {visited + 1}
  OBVIOUS
<1> QED
  BY <1>1 DEF Wanted, Skipped

LEMMA KeepAddsWanted ==
  ASSUME visited \in Nat, visited' = visited + 1, ~Skipped(image.exports[visited + 1]),
         image' = image
  PROVE  Wanted' = Wanted \cup {visited + 1}
<1>1. 1..visited' = (1..visited) \cup {visited + 1}
  OBVIOUS
<1> QED
  BY <1>1 DEF Wanted, Skipped

(* The export that is kept is the last of the wanted ones.                 *)
LEMMA KeepListsWanted ==
  ASSUME visited \in Nat, visited' = visited + 1, ~Skipped(image.exports[visited + 1]),
         image' = image, exports \in Seq(ExportType),
         NEW x, exports' = Append(exports, x), x.name = image.exports[visited + 1].name,
         ExportsAreWanted
  PROVE  ExportsAreWanted'
<1>1. PICK at \in [DOMAIN exports -> Wanted] :
        /\ \A j \in Wanted : \E k \in DOMAIN exports : at[k] = j
        /\ \A k, m \in DOMAIN exports : k < m => at[k] < at[m]
        /\ \A k \in DOMAIN exports : exports[k].name = image.exports[at[k]].name
  BY DEF ExportsAreWanted
<1> DEFINE n == Len(exports) + 1
           to == [k \in 1..n |-> IF k = n THEN visited + 1 ELSE at[k]]
<1>2. /\ Len(exports) \in Nat /\ DOMAIN exports = 1..Len(exports)
      /\ DOMAIN exports' = 1..n /\ exports'[n] = x
      /\ \A k \in 1..Len(exports) : exports'[k] = exports[k]
  <2>1. Len(exports) \in Nat /\ DOMAIN exports = 1..Len(exports)
    OBVIOUS
  <2>2. Len(exports') = n /\ exports'[n] = x
    OBVIOUS
  <2>3. \A k \in 1..Len(exports) : exports'[k] = exports[k]
    OBVIOUS
  <2>4. DOMAIN exports' = 1..n
    OBVIOUS
  <2> QED
    BY <2>1, <2>2, <2>3, <2>4
<1>3. n \in Nat /\ \A k \in 1..n : k = n \/ k \in 1..Len(exports)
  BY <1>2
<1>4. Wanted' = Wanted \cup {visited + 1} /\ \A j \in Wanted : j \in Nat /\ j < visited + 1
  BY KeepAddsWanted DEF Wanted
<1>5. /\ to[n] = visited + 1
      /\ \A k \in 1..Len(exports) : to[k] = at[k] /\ at[k] \in Wanted
  <2>1. n \in 1..n /\ \A k \in 1..Len(exports) : k \in 1..n /\ k # n
    BY <1>2
  <2>2. \A k \in 1..Len(exports) : at[k] \in Wanted
    BY <1>1, <1>2
  <2> QED
    BY <2>1, <2>2
<1>6. to \in [1..n -> Wanted']
  BY <1>2, <1>3, <1>4, <1>5
<1> HIDE DEF n, to
<1>7. \A j \in Wanted' : \E k \in 1..n : to[k] = j
  <2>1. n \in 1..n /\ 1..Len(exports) \subseteq 1..n
    BY <1>2 DEF n
  <2> QED
    BY <1>1, <1>2, <1>4, <1>5, <2>1
<1>8. \A k, m \in 1..n : k < m => to[k] < to[m]
  <2> SUFFICES ASSUME NEW k \in 1..n, NEW m \in 1..n, k < m
               PROVE  to[k] < to[m]
    OBVIOUS
  <2>1. k \in 1..Len(exports) /\ to[k] = at[k] /\ at[k] \in Wanted
    BY <1>2, <1>5 DEF n
  <2>2. CASE m = n
    BY <1>4, <1>5, <2>1, <2>2
  <2>3. CASE m \in 1..Len(exports)
    BY <1>1, <1>2, <1>5, <2>1, <2>3
  <2> QED
    BY <1>3, <2>2, <2>3
<1>9. \A k \in 1..n : exports'[k].name = image.exports[to[k]].name
  <2> SUFFICES ASSUME NEW k \in 1..n
               PROVE  exports'[k].name = image.exports[to[k]].name
    OBVIOUS
  <2>1. CASE k = n
    BY <1>2, <1>5, <2>1
  <2>2. CASE k \in 1..Len(exports)
    BY <1>1, <1>2, <1>5, <2>2
  <2> QED
    BY <1>3, <2>1, <2>2
<1>10. /\ to \in [DOMAIN exports' -> Wanted']
       /\ \A j \in Wanted' : \E k \in DOMAIN exports' : to[k] = j
       /\ \A k, m \in DOMAIN exports' : k < m => to[k] < to[m]
       /\ \A k \in DOMAIN exports' : exports'[k].name = image'.exports[to[k]].name
  BY <1>2, <1>6, <1>7, <1>8, <1>9
<1> QED
  BY <1>10 DEF ExportsAreWanted

LEMMA CompleteInvStep ==
  ControlInv /\ TableInv /\ CompleteInv /\ [Next]_vars => CompleteInv'
<1> SUFFICES ASSUME ControlInv, TableInv, CompleteInv, [Next]_vars
             PROVE  CompleteInv'
  OBVIOUS
<1> USE DEF tables, file
<1>0. status = "none" <=> pc # "done"
  BY DEF ControlInv
<1>1. ASSUME UNCHANGED tables, UNCHANGED image, pc' # "exports", status' = status
      PROVE  CompleteInv'
  BY <1>1, SameWanted DEF CompleteInv, IsPe
<1>2. CASE Rewrite \/ Open \/ Allocate \/ ReadSome \/ ReadEnds
  BY <1>2, <1>1 DEF Rewrite, Open, Allocate, ReadSome, ReadEnds, locals
<1>3. CASE ParsePe \/ ParseElf
  <2>1. image = NoImage /\ visited' = 0 /\ exports' = << >>
    BY <1>3 DEF ParsePe, ParseElf, TableInv
  <2>2. ExportsAreWanted'
    <3>1. Wanted' = {} /\ DOMAIN exports' = {}
      BY <2>1 DEF Wanted
    <3> DEFINE at == [k \in {} |-> 0]
    <3>2. at \in [DOMAIN exports' -> Wanted']
      BY <3>1
    <3> QED
      BY <3>1, <3>2 DEF ExportsAreWanted
  <2>3. pc' = "sections" /\ status' = "none"
    BY <1>3, <1>0 DEF ParsePe, ParseElf
  <2> QED
    BY <2>2, <2>3 DEF CompleteInv
<1>4. CASE NormalizeSection
  <2>1. UNCHANGED <<image, visited, exports>> /\ pc' = "sections" /\ status' = "none"
    BY <1>4, <1>0 DEF NormalizeSection
  <2> QED
    BY <2>1, SameWanted DEF CompleteInv, IsPe
<1>5. CASE SectionsEnd
  <2>1. UNCHANGED <<image, tables>> /\ status' = "none"
        /\ Len(sections) = Len(image.sections)
    BY <1>5, <1>0 DEF SectionsEnd, locals
  <2> QED
    BY <2>1, SameWanted DEF CompleteInv, IsPe
<1>6. CASE KeepExport
  <2> DEFINE e == image.exports[visited + 1]
             x == [name |-> e.name, address |-> AddSize(ImageBase, e.rva)]
  <2>1. /\ exports' = Append(exports, x) /\ visited' = visited + 1 /\ ~Skipped(e) /\ IsPe
        /\ UNCHANGED <<image, sections>> /\ pc = "exports" /\ status' = "none"
    BY <1>6, <1>0 DEF KeepExport
  <2>2. visited \in Nat /\ exports \in Seq(ExportType)
    BY <2>1 DEF TableInv, ExportType
  <2>3. x.name = e.name /\ ExportsAreWanted
    BY <2>1 DEF CompleteInv
  <2> HIDE DEF x
  <2>4. ExportsAreWanted'
    BY <2>1, <2>2, <2>3, KeepListsWanted
  <2> QED
    BY <2>1, <2>4 DEF CompleteInv
<1>7. CASE SkipExport
  <2>1. /\ visited' = visited + 1 /\ Skipped(image.exports[visited + 1]) /\ IsPe
        /\ UNCHANGED <<image, sections, exports>> /\ pc = "exports" /\ status' = "none"
    BY <1>7, <1>0 DEF SkipExport
  <2>2. visited \in Nat /\ ExportsAreWanted
    BY <2>1 DEF TableInv, CompleteInv
  <2>3. Wanted' = Wanted
    BY <2>1, <2>2, SkipKeepsWanted
  <2>4. ExportsAreWanted'
    BY <2>1, <2>2, <2>3 DEF ExportsAreWanted
  <2> QED
    BY <2>1, <2>4 DEF CompleteInv
<1>8. CASE ExportsEnd
  <2>1. /\ pc = "exports" /\ visited = Len(image.exports)
        /\ UNCHANGED <<image, tables>>
    BY <1>8 DEF ExportsEnd, Leave, locals
  <2> QED
    BY <2>1, SameWanted DEF CompleteInv, IsPe
<1>9. CASE TakeSymbols
  <2>1. pc = "exports" /\ ~IsPe /\ UNCHANGED <<image, sections>>
    BY <1>9 DEF TakeSymbols
  <2> QED
    BY <2>1 DEF CompleteInv, IsPe
<1>10. CASE \/ OpenFails \/ AllocateThrows \/ ReadFails \/ Unrecognized
            \/ ParsePeFails \/ ParseElfFails
  <2>1. UNCHANGED <<image, tables>> /\ pc' = "done" /\ status' # "ok"
    BY <1>10 DEF OpenFails, AllocateThrows, ReadFails, Unrecognized, ParsePeFails,
                 ParseElfFails, Leave, Return, locals
  <2> QED
    BY <2>1, SameWanted DEF CompleteInv, IsPe
<1>11. CASE UNCHANGED vars
  BY <1>11, SameWanted DEF CompleteInv, IsPe, vars, locals
<1> QED
  BY <1>2, <1>3, <1>4, <1>5, <1>6, <1>7, <1>8, <1>9, <1>10, <1>11 DEF Next, Terminating

-----------------------------------------------------------------------------
Inv == ControlInv /\ FileInv /\ TableInv /\ AddressInv /\ CompleteInv

LEMMA InvInitially == Init => Inv
<1> SUFFICES ASSUME Init
             PROVE  Inv
  OBVIOUS
<1>1. NoImage.format # "Pe" /\ image = NoImage
  BY ImageType DEF Init
<1>2. ControlInv
  BY BinaryImageAssumption DEF Init, ControlInv, Statuses
<1>3. FileInv
  BY DEF Init, FileInv, Loading
<1>4. TableInv
  BY <1>1 DEF Init, TableInv, IsPe, Loading
<1>5. AddressInv
  BY <1>1 DEF AddressInv, IsPe
<1>6. CompleteInv
  BY <1>1, NothingWanted DEF Init, CompleteInv, IsPe
<1> QED
  BY <1>2, <1>3, <1>4, <1>5, <1>6 DEF Inv

LEMMA Invariant == Spec => []Inv
<1>1. Inv /\ [Next]_vars => Inv'
  BY ControlInvStep, FileInvStep, TableInvStep, AddressInvStep, CompleteInvStep DEF Inv
<1> QED
  BY <1>1, InvInitially, PTL DEF Spec

(* Every variable keeps its type: a read never gets more than the buffer   *)
(* has room for, and no address of an image exceeds the width of one.      *)
THEOREM TypeCorrect == Spec => []TypeOK
<1>1. Inv => TypeOK
  <2> SUFFICES ASSUME Inv
               PROVE  TypeOK
    OBVIOUS
  <2>1. ControlInv /\ FileInv /\ TableInv
    BY DEF Inv
  <2>2. pc = "read" => gcount \in 0..size /\ Len(buffer) = size
    BY <2>1 DEF FileInv, Loading
  <2>3. \A k \in DOMAIN sections : sections[k].address \in Addresses
    <3> SUFFICES ASSUME NEW k \in DOMAIN sections
                 PROVE  sections[k].address \in Addresses
      OBVIOUS
    <3>1. sections \in Seq(SectionType)
      BY <2>1 DEF TableInv, SectionType
    <3>2. k \in 1..Len(sections)
      BY <3>1
    <3>3. sections[k] \in SectionType
      BY <3>1, <3>2, ElementOf
    <3> QED
      BY <3>3 DEF SectionType
  <2>4. \A k \in DOMAIN exports : exports[k].address \in Addresses
    <3> SUFFICES ASSUME NEW k \in DOMAIN exports
                 PROVE  exports[k].address \in Addresses
      OBVIOUS
    <3>1. exports \in Seq(ExportType)
      BY <2>1 DEF TableInv, ExportType
    <3>2. k \in 1..Len(exports)
      BY <3>1
    <3>3. exports[k] \in ExportType
      BY <3>1, <3>2, ElementOf
    <3> QED
      BY <3>3 DEF ExportType
  <2>5. EntryPoint \in Addresses
    <3>1. CASE IsPe
      <4>1. image.entry_rva \in Rvas
        BY <2>1, <3>1, PeOnly DEF PeImageType
      <4> QED
        BY <2>1, <3>1, <4>1, PeAddress DEF EntryPoint
    <3>2. CASE ~IsPe /\ image.format = "Elf"
      <4>1. image # NoImage
        BY <3>2 DEF NoImage
      <4>2. image.entry \in Nat
        BY <2>1, <3>2, <4>1, ElfOnly DEF ElfImageType
      <4> QED
        BY <3>2, <4>2, Converted DEF EntryPoint
    <3>3. CASE ~IsPe /\ image.format # "Elf"
      BY <3>3, AddressAssumption DEF EntryPoint, Null, Addresses
    <3> QED
      BY <3>1, <3>2, <3>3
  <2> QED
    BY <2>1, <2>2, <2>3, <2>4, <2>5 DEF TypeOK, ControlInv, FileInv, TableInv
<1> QED
  BY <1>1, Invariant, PTL

(* Whoever rewrites the file while parse_file reads it, and however often: *)
(* no byte reaches the parsers that the file did not hold at its place.    *)
THEOREM NoForeignByteParsed == Spec => []OnlyFileBytesParsed
<1>1. Inv => OnlyFileBytesParsed
  <2> SUFFICES ASSUME FileInv, op = "parse_file", pc = "detect"
               PROVE  /\ \E c \in past : Len(c) = Len(buffer)
                      /\ \A k \in DOMAIN buffer : \E c \in past : k <= Len(c) /\ buffer[k] = c[k]
                      /\ past = {disk} => buffer = disk
    BY DEF Inv, OnlyFileBytesParsed
  <2>1. /\ buffer \in Seq(Byte) /\ Len(buffer) = size /\ gcount = size
        /\ \E c \in past : Len(c) = size
        /\ \A k \in 1..gcount : \E c \in past : k <= Len(c) /\ buffer[k] = c[k]
    BY DEF FileInv
  <2>2. DOMAIN buffer = 1..gcount
    BY <2>1
  <2>3. ASSUME past = {disk}
        PROVE  buffer = disk
    <3>1. disk \in Seq(Byte)
      BY ContentType DEF FileInv
    <3>2. Len(disk) = Len(buffer) /\ \A k \in 1..Len(buffer) : buffer[k] = disk[k]
      BY <2>1, <2>3 DEF FileInv
    <3> QED
      BY <2>1, <3>1, <3>2
  <2> QED
    BY <2>1, <2>2, <2>3
<1> QED
  BY <1>1, Invariant, PTL

(* For every PE image: difference() from the image base gives back the     *)
(* relative address of the file, for sections, exports and the entry       *)
(* point, and what lies behind the address space is null.                  *)
THEOREM AddressesLeadBack == Spec => []AddressesRecoverable
<1>1. Inv => AddressesRecoverable
  <2> SUFFICES ASSUME TableInv, AddressInv, IsPe
               PROVE  Recoverable(EntryPoint, image.entry_rva)
    BY DEF Inv, AddressesRecoverable, AddressInv
  <2>1. image.entry_rva \in Rvas
    BY PeOnly DEF PeImageType
  <2> QED
    BY <2>1, PeAddress DEF EntryPoint
<1> QED
  BY <1>1, Invariant, PTL

(* An image that is returned is complete: every section of the file, and   *)
(* of the exports of a PE image exactly the named ones that are not        *)
(* forwarded, each once and in the order of the file; a forwarder between  *)
(* two of them ends nothing.                                               *)
THEOREM NothingLeftOut == Spec => []TablesComplete
<1>1. Inv => TablesComplete
  BY DEF Inv, CompleteInv, TablesComplete
<1> QED
  BY <1>1, Invariant, PTL

=============================================================================
