-------------------------------- MODULE MCPe --------------------------------
(* Bounded instances of Pe for TLC: families of files that each vary what  *)
(* one part of the parser looks at, around a small valid file.             *)
EXTENDS Pe, TLC

(* Two sections: addresses from 310 are at offsets from 300, addresses     *)
(* from 600 nowhere in particular.                                         *)
SectionHeader(o, virtual_size, virtual_address, raw_size, raw_offset) ==
  (o + 8) :> virtual_size @@ (o + 12) :> virtual_address @@
  (o + 16) :> raw_size @@ (o + 20) :> raw_offset

(* Export directory at 300, functions at 340, names at 352, ordinals at    *)
(* 360, their strings from 364; the directory ends in front of 370.        *)
Exports == 316 :> 5 @@ 320 :> 3 @@ 324 :> 2 @@ 328 :> 350 @@ 332 :> 362 @@ 336 :> 370 @@
           340 :> 310 @@ 344 :> 378 @@ 348 :> 500 @@
           352 :> 374 @@ 356 :> 376 @@ 360 :> 0 @@ 362 :> 1

(* One import descriptor at 370 and its end, thunks at 410, by name and by *)
(* ordinal, hint and name at 434, module name at 438.                      *)
Imports(flag, z) == 370 :> 420 @@ 382 :> 448 @@ 386 :> 420 @@
                    410 :> 444 @@ (410 + z) :> (flag + 7) @@ 434 :> 9

Valid64 ==
  [size |-> 440, mz |-> TRUE, lfanew |-> 64, signature |-> TRUE, section_count |-> 2,
   opt_size |-> 128, opt_magic |-> "PE32+", dir_count |-> 2,
   value |-> 200 :> 310 @@ 204 :> 70 @@ 208 :> 380 @@ 212 :> 40 @@
             SectionHeader(216, 140, 310, 140, 300) @@ SectionHeader(256, 8, 600, 0, 0) @@
             Exports @@ Imports(524288, 8),
   zeros |-> {365, 367, 369, 437, 439}]

Valid32 ==
  [Valid64 EXCEPT !.opt_magic = "PE32", !.opt_size = 112,
     !.value = 184 :> 310 @@ 188 :> 70 @@ 192 :> 380 @@ 196 :> 40 @@
               SectionHeader(200, 140, 310, 140, 300) @@ SectionHeader(240, 8, 600, 0, 0) @@
               Exports @@ Imports(512, 4)]

Valid == {Valid64, Valid32}

Table(f) == 88 + f.opt_size
Cut(f, n) == [f EXCEPT !.size = n, !.zeros = @ \cap 0..(n - 1)]
With(f, v) == [f EXCEPT !.value = v @@ @]

(* Headers, at every size around a boundary. *)
HeaderFiles ==
  {[Cut(f, n) EXCEPT !.mz = m, !.lfanew = l, !.signature = g, !.opt_size = z, !.opt_magic = t] :
     f \in Valid, m \in BOOLEAN, l \in {0, 64, 1020, 1023}, g \in BOOLEAN,
     z \in {1, 2, 112, 128, 240}, t \in {"PE32", "PE32+", "other"},
     n \in {0, 20, 63, 64, 87, 88, 89, 90, 183, 184, 200, 216, 296, 440}}

(* The section table and the directories, which may overlap. *)
TableFiles ==
  {[Cut(f, n) EXCEPT !.section_count = c, !.opt_size = z, !.dir_count = d] :
     f \in Valid, c \in {0, 1, 2, 3, 7, 240}, z \in {2, 96, 112, 128}, d \in {0, 1, 2, 3, 16, 1023},
     n \in {184, 191, 192, 199, 200, 215, 216, 279, 280, 295, 296, 439, 440}}

(* The mapping: a section that is too short, one that comes first and      *)
(* leads elsewhere, offsets at the end of what 32 bits hold.               *)
MapFiles ==
  {With(f, SectionHeader(Table(f), v, 310, r, o) @@ SectionHeader(Table(f) + 40, w, a, 0, 300)) :
     f \in Valid, v \in {0, 54, 55, 139, 140, 1023}, r \in {0, 70, 140}, o \in {300, 309, 895, 1023},
     w \in {8, 140}, a \in {310, 320, 1020}}

(* Exports: how many, where, which; functions in and around the directory. *)
ExportFiles ==
  UNION {{With(Cut(f, n), 320 :> c @@ 324 :> k @@ 328 :> a @@ 332 :> b @@ 336 :> e) :
            f \in Valid, n \in {339, 340, 363, 364, 440}, c \in {2, 3, 25, 256},
            k \in {0, 2, 3, 22, 512}, a \in {350, 438}, b \in {0, 362}, e \in {370, 444}},
         {With(f, 316 :> b @@ 344 :> r @@ 362 :> x @@ 356 :> s @@ (Table(f) - 12) :> z) :
            f \in Valid, b \in {0, 1020}, r \in {309, 310, 379, 380}, x \in {0, 2, 3},
            s \in {376, 380, 382, 900}, z \in {0, 70, 713, 714}}}

(* Imports: descriptors and thunks, present, null, unmapped, without end.  *)
ImportFiles ==
  UNION {{With(Cut(f, n), 370 :> o @@ 382 :> m @@ 386 :> t @@ 390 :> e) :
            f \in Valid, n \in {389, 390, 409, 410, 438, 439, 440}, o \in {0, 420, 444, 900},
            m \in {0, 448, 450, 900}, t \in {0, 420, 428}, e \in {0, 420}},
         {With(Cut(f, n), 410 :> a @@ (IF f = Valid64 THEN 418 ELSE 414) :> b @@ 434 :> h
                          @@ (IF f = Valid64 THEN 426 ELSE 418) :> c) :
            f \in Valid, n \in {434, 436, 437, 440}, a \in {0, 444, 448, 511, 512, 900},
            b \in {0, 444, 512, 524288, 1048575}, h \in {0, 300}, c \in {0, 444}}}

(* The valid files with an export directory that ends where addresses end. *)
DirectoryFiles == {With(f, (Table(f) - 12) :> 714) : f \in Valid}

MCFiles == UNION {HeaderFiles, TableFiles, MapFiles, ExportFiles, ImportFiles}

=============================================================================
