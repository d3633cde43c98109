------------------------------- MODULE MCElf -------------------------------
(* Bounded instances of Elf for TLC: families of files that each vary what *)
(* one part of the parser looks at, around a small valid file.             *)
EXTENDS Elf

Section(type, offset, size, link, info, entry_size, name_index) ==
  [type |-> type, offset |-> offset, size |-> size, link |-> link, info |-> info,
   entry_size |-> entry_size, name_index |-> name_index]

Sym(name_index, bind, type, shndx) ==
  [name_index |-> name_index, bind |-> bind, type |-> type, shndx |-> shndx]

At(base, step, s) == [o \in {base + step * (k - 1) : k \in 1..Len(s)} |-> s[(o - base) \div step + 1]]

(* Three sections behind the header: null, strings, dynamic symbols.  The  *)
(* string table at 258 holds "", "x", "yz" and an end that is no string.   *)
Strings(size) == Section(ShtStrtab, 258, size, 0, 0, 0, 1)

Valid64 ==
  [size |-> 266, magic |-> TRUE, class |-> 2, encoding |-> 1,
   shoff |-> 64, shentsize |-> 64, shnum |-> 3, shstrndx |-> 1,
   phoff |-> 0, phentsize |-> 56, phnum |-> 0,
   section |-> At(64, 64, <<NullSection, Strings(8),
                            Section(ShtDynsym, 192, 50, 1, 0, 24, 3)>>),
   symbol |-> At(192, 24, <<NullSymbol, Sym(1, 1, 2, 1)>>),
   zeros |-> {258, 260, 263}]

Valid32 ==
  [Valid64 EXCEPT !.class = 1, !.shentsize = 40, !.phentsize = 32,
     !.section = At(64, 40, <<NullSection, Strings(8),
                              Section(ShtDynsym, 192, 34, 1, 0, 16, 3)>>),
     !.symbol = At(192, 16, <<NullSymbol, Sym(1, 1, 2, 1)>>)]

Valid == {Valid64, Valid32}

(* Identification and header, at every size around a boundary. *)
HeaderFiles ==
  {[f EXCEPT !.size = n, !.magic = m, !.class = c, !.encoding = e, !.zeros = @ \cap 0..(n - 1)] :
     f \in Valid, m \in BOOLEAN, c \in 0..2, e \in {1, 2},
     n \in {0, 15, 16, 51, 52, 63, 64, 95, 96, 103, 104, 112, 183, 184, 255, 256, 265, 266}}

(* The section table: its place, its entries, the file around it. *)
TableFiles ==
  {[f EXCEPT !.size = n, !.shoff = o, !.shentsize = z, !.shnum = k, !.shstrndx = x,
             !.zeros = @ \cap 0..(n - 1)] :
     f \in Valid, n \in {96, 184, 255, 256, 266}, o \in {0, 64, 1020}, z \in {39, 40, 64},
     k \in {1, 3, 4}, x \in {0, 1, 7}}

(* Extended numbering: number and name index, or the index alone, are in   *)
(* section header 0, or cut off by the end of the file.                    *)
ExtendedFiles ==
  {[f EXCEPT !.size = n, !.shnum = kx[1], !.shstrndx = kx[2],
             !.section[64] = [@ EXCEPT !.size = s, !.link = l, !.info = d],
             !.zeros = @ \cap 0..(n - 1)] :
     f \in Valid, n \in {87, 88, 91, 92, 103, 104, 111, 112, 184, 256, 266},
     kx \in {<<0, 1>>, <<0, Max16>>, <<3, Max16>>},
     s \in {0, 3, 4}, l \in {0, 1}, d \in {0, 1}}

(* A claim of 2^14 sections of 64 bytes is a table of 2^20, that is 0, bytes. *)
WrapFiles ==
  {[Valid64 EXCEPT !.shnum = 0, !.section[64] = [@ EXCEPT !.size = s, !.link = 1]] :
     s \in {1000, 1001, 16383, 16384, 16387, 32768}}

(* Program headers, their extended number in the info of section 0. *)
SegmentFiles ==
  {[f EXCEPT !.phoff = o, !.phentsize = z, !.phnum = k, !.section[64] = [@ EXCEPT !.info = d]] :
     f \in Valid, o \in {0, 34, 98, 154, 210, 234, 266, 267, 1020},
     z \in {31, 32, 55, 56, 64}, k \in {0, 1, 2, 3, Max16}, d \in {0, 2, 1023}}

(* Symbol tables.  A fourth section, .symtab or a second .dynsym, competes *)
(* with the one that varies: its type, place, size, strings, entries.      *)
SymbolTableFile(f, strings, type, offset, size, link, entry_size, other) ==
  [f EXCEPT !.size = 330, !.shnum = 4,
            !.section = At(64, f.shentsize,
                           <<NullSection, Strings(strings),
                             Section(type, offset, size, link, 0, entry_size, 3),
                             Section(other, 192, 48, 1, 0, 24, 6)>>)]

SymbolTableFiles ==
  UNION {{SymbolTableFile(f, t, a, p, b, 1, 24, c) :
            f \in Valid, t \in {3, 72, 73}, a \in {1, ShtSymtab, ShtDynsym},
            p \in {192, 282, 330, 331}, b \in {0, 23, 48, 1000}, c \in {ShtSymtab, ShtDynsym}},
         {SymbolTableFile(f, 8, a, 192, 48, l, z, c) :
            f \in Valid, a \in {1, ShtSymtab, ShtDynsym}, l \in {0, 1, 3, 4},
            z \in {15, 16, 24}, c \in {1, ShtSymtab}}}

(* The symbols themselves, and indices past the end of their strings. *)
SymbolFiles ==
  {[f EXCEPT !.section[64 + f.shentsize] = Strings(t),
             !.symbol = At(192, IF f.class = 2 THEN 24 ELSE 16,
                           <<Sym(n, b, y, d), Sym(m, 2, 1, 1)>>),
             !.zeros = z] :
     f \in Valid, t \in {5, 8}, n \in {0, 1, 2, 5, 6, 7, 8, 9}, m \in {1, 8},
     b \in {0, 2}, y \in {0, 2, 10}, d \in {0, 1},
     z \in {{258, 260, 263}, {258, 260, 265}, {}}}

MCFiles == UNION {HeaderFiles, TableFiles, ExtendedFiles, WrapFiles, SegmentFiles,
                  SymbolTableFiles, SymbolFiles}

(* The files of the runs about one disagreement with the documentation. *)
SmallFiles == UNION {ExtendedFiles, WrapFiles}

=============================================================================
