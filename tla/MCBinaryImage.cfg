\* Addresses of 8 bits, files of up to 5 bytes, rewritten up to twice.
SPECIFICATION Spec
CONSTANTS
  MaxAddress = 255
  Contents <- MCContents
  PeImages <- MCPeImages
  ElfImages <- MCElfImages
  MaxWrites = 2
INVARIANTS
  TypeOK
  OnlyFileBytesParsed
  AddressesRecoverable
  TablesComplete
