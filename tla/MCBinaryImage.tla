--------------------------- MODULE MCBinaryImage ---------------------------
(* A bounded instance of BinaryImage for TLC: addresses of 8 bits, numbers *)
(* in front of which an image ends below, at and behind the last address.  *)
EXTENDS BinaryImage

MCContents == {<< >>, <<77>>, MZ, MZ \o <<1>>, <<90, 77>>,
               SubSeq(ELF, 1, 3), ELF, ELF \o <<1>>}

PeSectionsOf == {<< >>} \cup
  {<<[virtual_address |-> a, characteristics |-> {29, 30}],
     [virtual_address |-> b, characteristics |-> {30, 31}]>> :
     a \in {0, 16}, b \in {15, 127}}

PeExportsOf ==
  LET Export(n, r, f) == [name |-> n, rva |-> r, forwarded |-> f]
  IN  {<< >>, <<Export("f", 5, FALSE)>>,
       <<Export("f", 5, FALSE), Export("", 6, FALSE), Export("g", 127, FALSE)>>,
       <<Export("f", 5, TRUE), Export("g", 16, FALSE), Export("h", 15, FALSE)>>}

MCPeImages ==
  {[format |-> "Pe", image_base |-> b, entry_rva |-> e, sections |-> s, exports |-> x] :
     b \in {0, 240}, e \in {0, 16}, s \in PeSectionsOf, x \in PeExportsOf}

MCElfImages ==
  {[format |-> "Elf", entry |-> e, sections |-> s, symbols |-> y] :
     e \in {0, 255},
     s \in {<< >>, <<[address |-> 0, flags |-> {}], [address |-> 255, flags |-> {1}],
                     [address |-> 64, flags |-> {0, 2}]>>},
     y \in {<< >>, <<[name |-> "f", address |-> 64]>>}}

=============================================================================
