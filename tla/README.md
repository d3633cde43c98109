# GameMemoryKit: verification development

TLA+ models of the parts of GameMemoryKit that decide something: the pattern
scanner, the pattern parser, the logging facility, the ELF and PE parsers, the
format-agnostic image above them, address arithmetic and the storage of
`Result`. TLC checks them on small instances, and TLAPS proves every invariant,
action property and refinement that TLC checks of the code for every value of
the constants; only liveness is left to TLC. The reference is the code
of the repository (paths below are relative to its root, headers to
`include/gmk/`); where the code and its documentation disagree, the model follows
the code, and a run shows the disagreement or the README names it (*Findings*).

To repeat a check: `tlc -config MCScanner.cfg MCScanner`, and for a proof
`tlapm ScannerProofs.tla`.

## 1. Inventory

GameMemoryKit is a library without threads, network or storage of its own. Its
parts call each other synchronously, return `Result<T>` instead of throwing, and
share one piece of mutable global state, that of the logging facility.

| component | code | state | operations | status |
|---|---|---|---|---|
| pattern scanner | `src/pattern/scanner.cpp`, `pattern/scanner.hpp` | a call's locals | `find_first`, `find_first_from`, `find_all`, `count` | modelled, proved |
| pattern and its parser | `src/pattern/pattern.cpp`, `pattern/pattern.hpp` | a call's locals | `Pattern::parse`, `first_fixed_index`, `all_wildcards`, `matches_at` | modelled, proved |
| logging | `src/core/logging.cpp`, `core/logging.hpp` | global level, sink, mutex | `set_level`, `level`, `set_sink`, `log_at`, `emit`, `ScopedLevel` | modelled, proved |
| ELF parser | `src/binary/elf.cpp`, `binary/elf.hpp` | the image under construction | `ElfImage::parse` | modelled, proved |
| PE parser | `src/binary/pe.cpp`, `binary/pe.hpp` | the image under construction | `PeImage::parse`, `rva_to_offset` | modelled, proved |
| bounds-checked reader | `src/binary/reader.hpp` | the buffer | `in_bounds`, `cstring`, typed reads, `sanitize_name` | partly modelled |
| binary image | `src/binary/binary_image.cpp` | format and normalised tables | `parse`, `parse_file`, accessors | modelled, proved |
| address arithmetic | `core/address.hpp` | one integer | `add`, `difference`, `align_down`, `align_up` | modelled, proved |
| result type | `core/result.hpp` | a union and its tag | construct, assign, move, destroy, `map` | modelled, proved |
| error values | `core/error.hpp`, `src/core/error.cpp` | immutable | formatting | not modelled |
| byte view | `core/byte_view.hpp`, `src/core/byte_view.cpp` | none | casts, hex dump | not modelled |
| configuration, version, symbol, umbrella header | `core/config.hpp`, `symbols/symbol.hpp`, `gmk.hpp` | none | none | not modelled |
| build files, tests, fixtures | | | | read as documentation |

`gmk.hpp` also names headers for processes, modules, memory and diagnostics that
are not in the repository; there is nothing to model them from.

How they interact. `PatternScanner` calls `Pattern::first_fixed_index`,
`all_wildcards` and `matches_at`; these are operators of `Scanner`, so the
scanner is checked together with the pattern. `BinaryImage::parse` looks at the
first bytes and calls one of the two format parsers, which read only through
`Reader`; both parsers instantiate the module `Reader`. `BinaryImage` makes the
addresses of its tables with `Address::add`, and its module extends `Address`.
Every operation that can fail returns a `Result`. The logging facility
calls the user's sink, which may call back into it: that callback is the only
place where two parts of the system are active at once on one stack.

What is hard, and what correctness means:

* **Scanner.** The search jumps with `memchr` from one occurrence of an *anchor*
  byte, which may be anywhere in the pattern, to the next, with pointer
  arithmetic that is exact by one byte at both ends. Correct: no pointer leaves
  the buffer, no match is skipped or repeated, and the four entry points answer
  what a definition without any loop says.
* **Pattern parser.** One loop that runs once past the end of the text and a
  `token_start` that must move at every separator. Correct: exactly the tokens
  of the text, in order, or the position of the first bad one.
* **Logging.** Several threads; the level is looked at twice, under two
  acquisitions of a mutex; the sink runs outside the mutex, on a copy; sinks
  log, throw, install sinks and open guards. Correct: no deadlock, no user code
  under the mutex, a record accepted at one instant, guards that nest.
* **ELF and PE.** Numbers from the file are multiplied and added at 32 and 64
  bits before they are compared with the size of the file; tables refer to other
  tables; loops end at an entry found in the file. Correct: what a check lets
  through can be read, what is complete is accepted, an accepted file was read
  completely, names stay in the table they are looked up in, every call returns.
* **Binary image.** `parse_file` asks for a size, allocates, and reads, while
  another process may write the file; normalisation interprets flags a second
  time and adds addresses of the file to a base of the file. Correct: only bytes
  of the file are parsed, no address wraps, no entry is lost, and the normalised
  view says what the native one says.
* **Address.** Unsigned and signed arithmetic exact at both ends of the address
  space, with null for what is not an address.
* **Result.** A union whose payload is constructed and destroyed by hand;
  assignment destroys before it constructs, and the construction may throw.
  Correct: every payload is destroyed once, by the destructor of its kind.

`PROJECT.json` lists the hazards one by one, each at its line and with the
properties that watch it. Those without a property say why.

## 2. Modules

| module | what it is |
|---|---|
| `ScannerSpec` | the promise of `scanner.hpp`: one call, one step, an answer that is a statement about the buffer |
| `Scanner` | `find_impl` and its four callers, step by step; `ScannerSpec` is instantiated in it |
| `ScannerProofs` | its theorems |
| `PatternParser` | `Pattern::parse`, one action per iteration of the loop and way through it |
| `PatternParserProofs` | its theorems |
| `LoggingSpec` | a level and a sink that change atomically, records that are accepted atomically |
| `Logging` | threads as call stacks, the mutex, sinks that call back; `LoggingSpec` is instantiated in it |
| `LoggingProofs` | its theorems |
| `Reader` | which reads of a buffer are allowed, and where a string ends |
| `Elf` | `ElfImage::parse` |
| `ElfProofs` | its theorems |
| `Pe` | `PeImage::parse` |
| `PeProofs` | its theorems |
| `Address` | the arithmetic of `address.hpp` as operators |
| `AddressProofs` | what they compute, as theorems |
| `BinaryImage` | `BinaryImage::parse` and `parse_file`, with a process that rewrites the file |
| `BinaryImageProofs` | its theorems |
| `ResultSpec` | values and errors that are created, copied, moved and discarded as a whole |
| `Result` | the storage of several `Result`s, with assignments that throw; `ResultSpec` is instantiated in it |
| `ResultProofs` | its theorems |
| `MCScanner`, `MCPatternParser`, `MCLogging`, `MCElf`, `MCPe`, `MCBinaryImage`, `MCResult` | instances for TLC: bounds and families of files |

### How they correspond to the code

**Scanner.** `op, buffer, pattern, from` are the arguments; `pos` is
`find_impl`'s `from`, `anchor, p, end, found` its locals; `matches` and `total`
what `find_all` and `count` accumulate. Pointers are offsets from the start of
the buffer, and every sum and difference is taken modulo `MaxSize + 1`, as
`std::size_t` does. `find_impl` has one action per way out of it
(`FindImplEmpty`, `FindImplTooShort`, `FindImplAllWildcards`), `FindImplAnchor`
for the set-up of the loop, `MemchrHit`/`MemchrMiss` for its head and
`VerifyHit`/`VerifyMiss` for its body. `memchr` is external and is the operator
`IsFirstByte`.

**PatternParser.** `i`, `token_start` and `bytes` are the locals of the loop; one
action is one iteration, named for what it finds: `InsideToken`, `EmptyToken`,
`WildcardToken`, `HexToken`, `BadToken`. A character is its code, so the
arithmetic of `hex_value` is the code's. Which `ParseError` is returned and its
position are kept, its wording is not.

**Logging.** A thread is a stack of frames. A frame is either a body of user code
(the thread's own, or that of a sink) or a call of the library with its pc.
Waiting for a `std::lock_guard` and owning it is one step (`LockLevel`,
`LockState`), the critical section with the release at the end of its scope the
next. `log_at` takes the mutex twice: for `level()` and in `emit`. `emit`
either drops the record, or copies the sink and releases the mutex, or throws
from the copy; `EmitCallsSink` then pushes the body of the sink. User code may
make any call that its thread's `program` contains, one of `Programs`; any sink may throw at any time, whereupon its guards are closed one
by one (`CloseGuard`), each with a call of `set_level` that needs the mutex, and
the exception leaves `emit` and `log_at` and unwinds to the thread's own body.
Formatting of records, the default sink's output, and destructors of sinks are
left out. Bodies and calls alternate on a stack, so the records a thread has in flight
(`InFlight`, the value of `LoggingSpec`'s variable) are every second frame of it.

**Reader, Elf, Pe.** A file is its size, the header fields the parser decides on,
what is stored at offsets (section headers and symbols for ELF, integers for
PE), and the offsets of its zero bytes. Strings are the pair of the offset of
their first byte and of their zero byte. Fields that are copied into the image
and never looked at are left out, and so is `sanitize_name`, which replaces
characters of a name that has been found. Reads return an error when
`InBounds`, with the code's wrapping subtraction, says so. Every action is the
check of one header or table, or one iteration of one loop; the `status` names
the place that returned. `vector::reserve` throws when it is asked for more than
`MaxVector` entries, which is how `ReserveSections` of `Elf` can leave with
`"exception"`. `PeImage::parse` reads its tables through `rva_to_offset`, the
function `RvaToOffset`.

**Address, BinaryImage.** An address is a number up to `MaxAddress`; offsets are
halves of that range, a cast to the unsigned type is `AsAddress` and to the signed one
`AsPtrdiff`, and a mask of a power of two is a remainder. `pc`, `size`,
`buffer`, `image`, `sections` and `exports` are the locals and members of
`parse_file` and `parse`; `gcount` is how far the stream has read. `Rewrite` is
the other process and may happen between any two steps while the file is open;
one `ReadSome` is one read of the system, which may return less than was asked
for. `past` remembers what the file held, for the properties only. The two parsers
answer an image or an error; flags are the set of the positions of their one bits.
`EntryPoint` is an observer. The fields `size`, `name` of a section and `flags`
are copied and never looked at, and left out.

**Result.** `alive`, `has_value` and `holds` are, per place where a `Result` may
live, whether one does, its tag and what is constructed in its union. The
placement new of a constructor is `Construct` or `MovePayload`, the destructor
`DestroyPayload`. An assignment is two steps (`BeginAssign`, then `FinishCopy`,
`FinishMove` or `AssignThrows`), because the object has no payload in between.
After a throw the object is in `threw`, and whatever is done with it
(`UseAfterThrow`) makes the behaviour undefined, where the model stops.
`MayThrow` says which constructors of the payload may throw. A constructor of a
`Result` that throws leaves no object and at most a source that is emptied, as
`TakeValue` does; it is no step of its own.
`ResultSpec` has one variable, what each object is to its user; an object under
assignment, or after one that threw, is `Lost`.

Definitions whose names say what is wrong with them (`SearchEndOneShort`,
`EmitTakesSinkLocked`, `UsableUnchecked`, ...) are variants that no
specification uses. They record, for each property, a bug of the code that it
notices: with the variant in place of the definition next to it, TLC finds the
property violated.

## 3. Runs

| run | instance | shows |
|---|---|---|
| `scanner` | two byte values, buffers of up to 5 and patterns of up to 3 bytes, `size_t` of 0..6, any start offset | `PointersInBuffer`, `NothingSkipped`, `AnswerIsFirst`, `ResultsSoFar`, `CandidatesAdvance` (each time `memchr` stops it stops further on: no candidate is verified twice, not even in a whole `find_all`), `Terminates`, and `ImplementsSpec`: the call implements `ScannerSpec` |
| `pattern_parser` | texts of up to 5 characters of 7 kinds | `CompiledSoFar`, `VerdictIsRight` (accepted exactly when there are tokens and all compile; else the first that does not is blamed, with the error for its length), `NoReallocation` (the reserve is enough), `Terminates` |
| `logging` | two threads, two sinks, three levels; either both threads log and set the level and one of them the sink, or one logs and opens guards while the other sets the sink | `LockDiscipline`, `AllThreadsEnd`, `GuardsNest` (guards remember the level of the guard around them, through sinks and exceptions), and `ImplementsSpec`: records are accepted atomically |
| `elf` | some 6000 files | `ValidatedReadsSucceed`, `NamesInTable`, `SymbolsSoFar`, `AcceptedIsComplete`, `AcceptsWellFormed`, `Terminates` |
| `pe` | some 16000 files | `ValidatedReadsSucceed`, `StringsInFile`, `ExportsSoFar`, `AcceptedIsComplete`, `VerdictIsRight` (accepted exactly when the headers, tables and names it refers to are in it), `Terminates` |
| `binary_image` | addresses of 8 bits, files of up to 5 bytes rewritten up to twice, images whose addresses end at the edge of the address space | `OnlyFileBytesParsed`, `AddressesRecoverable` (each address leads back to its entry, or is null), `TablesComplete` |
| `result` | three `Result`s, two values, two errors, copies and moves that throw | `TagTellsPayload`, `NoLeak`, and `ImplementsSpec`: value semantics |
| `count_overlap`, `elf_exception`, `elf_names`, `pe_exports`, `result_throws` | as above, smaller | the findings, see below |

Each passing run of a component also checks its `TypeOK`. Deadlock is checked
everywhere: a call that has returned, and threads that have all ended, stutter
in an action of their own (`Terminating`), so any other stop is an error.

### Bounds, and why they are enough

* *Scanner.* A pattern of three bytes has an anchor in front, in the middle and
  at the end, and wildcards on both sides of it; a buffer of five holds
  overlapping candidates and matches at both ends; two byte values are a match
  and a mismatch. `MaxSize = 6` is one more than the largest buffer, so that
  sums and differences that should not wrap do so visibly when a guard is missing.
* *Parser.* Seven characters stand for the classes that `isspace` and
  `hex_value` tell apart (two kinds of white space, a digit, an upper and a
  lower case letter, `?`, and something else); five of them make two tokens with
  separators, and a token that is too long.
* *Logging.* Two threads are enough for each of the two acquisitions of one to
  be interrupted by the other; depth 2 is a sink inside a sink; the three levels
  are the initial one, one below it, and `Off`. `MaxCalls` bounds a thread's
  calls, `MaxDepth` the nesting of sinks that log, which the code does not bound.
* *ELF, PE.* Integers of 16, 32 and 64 bits have 8, 10 and 20, in the same
  proportion that matters: a product of a count and an entry size can exceed the
  widest, a sum of two offsets the middle one. Sizes of records are those of the
  formats. `MaxVector` (1000) stands for what a vector can be made to hold: far more
  than the entries of any table that is in the file, far less than a count whose
  product wraps. `MaxName` (8) stands for the 4096 bytes a name may have. The files are families around a small valid one, in both widths of the
  format, each of which varies what one stage of the parser looks at to both
  sides of its boundaries: the size of the file around the end of every
  structure, counts and offsets around what fits and around the wrap.
  PE files are smaller than 4 GiB (`size < Word`), as those of the format are;
  `std::size_t` is 64 bits wide.
* *Binary image.* Two rewrites are one before and one after a partial read, with
  contents that are shorter, longer, or of another format; sizes around 2 and 4
  bytes are those that detection looks at. Image bases 0 and 240 of 255 and
  relative addresses 15, 16 and 127 end at the last address, one behind it and
  far behind it. Tables of three exports have skipped ones in front and in the
  middle.
* *Result.* Three objects are a source, a target and a bystander; two values and
  two errors make a lost update visible. Nothing else is bounded.

### Fairness

Safety needs none. For `Terminates`, a sequential call is given weak fairness of
its own steps: the thread that made it keeps running. For `AllThreadsEnd`, each
thread is given weak fairness of its steps: the scheduler runs a thread that can
run. The mutex is not assumed to be fair; what makes a waiting thread
eventually succeed is that the others run out of calls (`MaxCalls`), so the property
says that nobody blocks for ever, not that nobody is overtaken. User code is
assumed to return: a sink that loops is not the library's.

## 4. Findings

| run | what the code does | what is said |
|---|---|---|
| `count_overlap` | `count()` goes on one byte behind the start of a match (`scanner.cpp:110`), so overlapping matches count | `scanner.hpp:52`: "Counts the number of non-overlapping matches." |
| `elf_exception` | the 64-bit section count of extended numbering, times the entry size, wraps in the check (`elf.cpp:257`); `reserve` then throws | `elf.hpp:3-5`: "malformed input produces an error" |
| `elf_names` | the 32-bit `sh_link` of section 0 is read as 64 bits together with `sh_info` (`elf.cpp:239`); with a non-zero `sh_info` all section names are lost | `elf.hpp:7-8`: names "including extended numbering" |
| `pe_exports` | the end of the export directory is a 32-bit sum (`pe.cpp:364`); from a size on that takes it to 2^32 no export is flagged as a forwarder | `pe.cpp:361-362`: "A function RVA inside the export directory itself is a forwarder string"; `pe.hpp:71`: "True when the export forwards to another module." |
| `pe_exports` | the export loop goes over the names (`pe.cpp:338`), so functions exported by ordinal alone are in no list | `binary_image.hpp:93-94`: "forwarded/ordinal-only exports are exposed through the format-specific views"; `pe.hpp:67`: "Export name (empty for ordinal-only exports)." |
| `result_throws` | assignment destroys its target before the copy that may throw (`result.hpp:81-82`), which leaves a living object without a payload | `result.hpp:25`: "A value or an Error. Never both, never neither." |

In `pe_exports` one accepted file shows both: of its three exported functions two lie in
a directory that ends at 2^32 and are listed without the flag, the third has no name
and is not listed.

One more is a fault of two lines that contradict each other on every file and needs no run:
the normalised view of an ELF section (`binary_image.cpp:89-91`) takes bit 0x2 of `sh_flags`
for executable and 0x4 for readable, where `elf.cpp:172-174` has 0x4 for executable and
0x2 for allocatable, although `binary_image.hpp:56` calls it "A section normalized across formats": loaded data is
reported as executable. `ElfSection` of `BinaryImage` has the bits of the code.

Other differences between code and documentation that were met while modelling, and that the
models follow the code in: `emit` calls the sink after the mutex is released
(`logging.cpp:60`), so a record accepted earlier can be output after another
thread's `set_level(Off)` has returned (`logging.hpp:58`); the exported symbols of
an ELF image leave out those without a type and those of thread-local storage
(`elf.cpp:493`), which `elf.hpp:119-121` does not say; `BinaryImage::parse` hands on `OutOfRange` and `Unsupported` of the
format parsers, and their exceptions, where `binary_image.hpp:67-68` names only
`InvalidBinary`; `entry_point()` of a PE image without an entry is its base, not
null (`binary_image.hpp:87`, `pe.hpp:108-111`).

Each of the properties of the table's runs is violated by the model of the code. Every
other run holds of the code as it is. In particular the
wrap of `elf_exception` is harmless as far as reads go: `ValidatedReadsSucceed`
and `AcceptedIsComplete` hold with the wrapping files among the instances,
because the exception comes before the first read. `ExportsSoFar` says of
forwarders what does hold: none is flagged whose address is outside the directory,
and none inside is missed while the directory's end does not wrap; and
`AcceptedIsComplete` asks for all *names* of the export directory.
`VerdictIsRight` of `Pe` is about headers, tables and names: a forwarder that is no
string, a directory count that is cut to what fits, and addresses in the
zero-filled tail of a section do not make `parse` fail, and it does not ask them to.

## 5. Proofs

For every value of the constants, from the named assumptions of the modules
(sizes fit in `size_t`, buffers are sequences of bytes, levels include the
initial one and lie in 0..`Off`, addresses have an even number of values, the
places for `Result`s are finitely many; for the format parsers, that a 16-bit
number is smaller than a 32-bit one, that records of the formats fit in 16 bits, that
their greatest numbers make no table of 2^64 bytes, and that a vector may have 64
elements but not 2^32).

**Scanner** (`ScannerProofs`). `TypeCorrect`, `PointersStayInBuffer`,
`SearchSkipsNothing`, `FirstMatchReturned`, `NoMatchLostOrRepeated`, and
`ScannerImplementsSpec`. None of the invariants is inductive alone. `SearchInv`
adds to them `SearchShape`, what the locals are while the loop runs: the pattern
has a fixed byte, `anchor` is its first, the pattern fits at `pos`, and `end` is
the offset behind the last place the anchor can have. From this, `SizeArithmetic`
says that none of the loop's sums wraps, and `AnchorInOccurrence` that a match is
always found at its anchor, which is why a jump skips none. `CallInv` adds what
the callers have accumulated (`ResultsSoFar`, with `OneMoreMatch` and
`ListingExtends` for one more iteration). `ScannerImplementsSpec` maps the value
returned to the abstract answer: all steps of the detailed search are stutters of
`ScannerSpec`, except the one that returns. `CandidatesOnlyAdvance` is an action
property of a whole `find_all` or `count`; its invariant `Advancing` follows the last
offset `memchr` stopped at through the return of one search and the start of the
next, and needs that both have the same anchor (`OneAnchor`): the only steps that
reach the verification of a candidate are those where `memchr` stops, and there
`found' > found`.

**PatternParser** (`PatternParserProofs`). `TypeCorrect`, `TokensCompiledInOrder`,
`VerdictCorrect`, `ReserveSuffices`. The strengthening is
`PassShape`: everything from `token_start` to `i` is one run of characters that
are not white space, preceded by white space or the start of the text; and two
tokens are at least two characters apart, from which the reserve follows.
`VerdictIsRight` is an equivalence. That a token is blamed only when it does not compile is
`TokenAtBoundary`: the run that ends at `i` is the only token that starts at
`token_start`. That it is the first, and that an accepted text has no bad
one, is `CompiledMeans`: what is behind has been compiled, so it can be.

**Logging** (`LoggingProofs`). `TypeCorrect`, `MutexHeldOnlyInside`, `ReentrySafe`,
`RecordsAcceptedAtomically`, `GuardsRestoreTheLevel`, for any number of threads,
sinks and any depth. For the first three the invariant is `TypeOK`, that
every stack is *good* (a body at the bottom, and frames below the top are bodies
or calls that are inside their sink, so no frame below the top is in a critical
section), and `LockDiscipline`. That a thread never waits for its own mutex is then
a consequence: a waiting frame is on top, and the owner's top frame is in the
critical section.
`RecordsAcceptedAtomically` is the refinement of `LoggingSpec`. It needs that bodies
and calls alternate (`Alternating`), so that the length of a stack tells how many
records are in flight; each way an action changes a stack (a call pushed or
popped, its top replaced, a sink entered or left, a guard opened or closed) has a lemma
that says what becomes of them, and only `EmitTakesSink` adds one, at the instant
it holds the mutex. `GuardsRestoreTheLevel` is about one thread that uses guards while
nobody calls `set_level`. `GuardsNest` is not inductive: while a guard closes, the
level is not yet what is left of the guards asks for, but the pending `set_level` is
about to set it, and while one opens, its constructor holds a level that must
not change before it is kept. `NestInv` says so of the innermost frame
(`TopNested`), and that no other thread's stack has a frame that would change the level
(`NoLevels`). `GuardOpened` and `GuardClosed` are the two steps at which the chain of
guards changes; all others leave it as it is (`SameGuards`).

**Elf** (`ElfProofs`). `TypeCorrect`, `ReadsSucceed`, `NamesStayInTable`,
`SymbolsAreTheExported`, `NothingAcceptedInPart`, `WellFormedAccepted`, for every
file, and for every width of the integers that the assumption above allows. `IInv`
says what each check has established from then on. `SectionInv`: the number
of section headers is the one the file claims, and `shoff + shnum * shentsize`,
computed without wrapping, is at most the size of the file. The code's check
is made of wrapping numbers (`elf.cpp:257`) and does not imply this; that `reserve`
has not thrown does, because then the product did not wrap. `SegmentInv` and `SymbolInv` say
the same of the other two tables. `EntryInTable` (no entry of a table that fits is
outside of the file) and `InBoundsMeans` (the reader's subtraction means what it
says for offsets inside the file) carry the reads. `WellFormedAccepted` is the
other direction: no check fails on a file whose tables fit.

**Pe** (`PeProofs`). `TypeCorrect`, `ReadsSucceed`, `StringsEnd`,
`ExportsAreThoseOfTheFile`, `NothingAcceptedInPart`, `VerdictCorrect`, with the same
generality. `HeaderInv` says which headers have been found to fit, `ExportInv` that the
export directory and its three arrays have and that every export is the one of its
name, `ImportInv` that every module and every function of it is that of its
descriptor and its thunk, and that a zero thunk, in the file, ends each list. From
these follows `VerdictCorrect`, an equivalence: the file is accepted exactly when
the headers, the exports and the imports fit, where "fit" is stated without the
loops of the code.

**Address** (`AddressProofs`). There is no state; each theorem says what an
operator computes, for every address, offset and width. `SumOrNull`,
`SignedSumOrNull` and `SubtractionOrNull`: the mathematical sum or null, for every
offset except the subtraction of the least `ptrdiff_t`, which is undefined.
`DifferenceLeadsBack` and `OffsetRecovered` relate `difference` and `add`.
`IntegersSurvive` is about the constructor that takes any integer by way of a
signed one (`address.hpp:46-54`): addresses are kept, those of the upper half too,
and of a negative number the address still tells which it was. `OneRemainder`
(numbers of 0..k-1 do not differ by a multiple of k) carries it.
`AlignDownBrackets` and `AlignUpLeast` need the distributive law, which the
provers do not find by themselves: `MultiplesApart` states it for them.

**BinaryImage** (`BinaryImageProofs`). `TypeCorrect`, `NoForeignByteParsed`,
`AddressesLeadBack`, `NothingLeftOut`. The strengthening for the file is that the bytes up to
`gcount` are bytes that some content in `past` has at that place, that some content
was as long as `size`, and that as long as `past` has one element these bytes are
that element's; for the tables, that each entry is the image of an entry that has
been visited, from which `OffsetRecovered` gives the result. `CompleteInv` says that what has been
kept of the exports is what is wanted of those visited, in order: there is an
increasing map from the table to the visited entries that meets each wanted
one (`ExportsAreWanted`), which a skipped export leaves alone (`SkipKeepsWanted`)
and a kept one extends (`KeepAddsWanted`).

**Result** (`ResultProofs`). `TypeCorrect`, `DestructorMatches`,
`EachDestroyedOnce`, `Refinement`. The strengthening `LifeInv` says that an
assignment is between two different usable objects and that its target, like an
object where one threw, holds nothing; `CountInv` that `payloads` counts the
objects that hold something, which `OneMore` and `OneLess` preserve. In
`Refinement` an assignment is a `Lose` of the target followed by a `Copy` or
`Move`, and one that throws is a stutter, or a `Take` of the emptied source.

Only model-checked, because it is out of the prover's reach: `Terminates` and
`AllThreadsEnd` (liveness under fairness). The properties of the five runs that
expect a violation are false of the code and have no theorem. Every other
property of a run is stated by a theorem. What the theorems do not cover are the
assumptions on the environment: that files, buffers and programs are of the shape the
`ASSUME`s name, and, for `GuardsRestoreTheLevel`, its hypothesis that one thread alone
changes the level, which `logging.hpp:132` asks of the user.

## 6. Not modelled, and why

* `Result<void>`: a flag and an error whose special members are the compiler's.
* Error values, byte views, version and configuration: immutable values, casts
  and text. The kinds of error appear where they are returned.
* Results inside a payload: assigning to a `Result` from one that lives inside its
  own value would read a destroyed object; no type of the library does this.
* Hash, formatting and pointer casts of `Address`, and builds whose addresses
  have 32 bits, where 64-bit addresses of a file are narrowed (`binary_image.cpp:62,86`).
* Formatting of errors, addresses, records and byte dumps: text.
* `Reader`'s typed reads are part of what a file contains in `Elf` and `Pe`:
  the byte order is checked at the head of the file, and there is no other.
* Two threads that both use `ScopedLevel`: `logging.hpp:132` says that the guard is
  not thread-safe, so there is nothing to hold it to.
* A sink whose destructor logs would deadlock in `set_sink` (`logging.cpp:39`),
  which destroys the old one under the mutex. No such type is in the repository.
* Files of 4 GiB and more in `Pe` (see the hazard at `pe.cpp:426`).

## 7. Plan

Done: (1) `Scanner`, the core algorithm, with its abstract specification and
proofs; (2) `PatternParser`; (3) `Logging`, the only concurrent part; (4) `Elf`;
(5) `Pe`; (6) `Address` and `BinaryImage`; (7) `Result`; (8) the proofs of all
their safety properties and refinements. What is left:

9. A variant for each sequential call, a number that every step makes smaller: with
   it, that a call can only stop by returning is a fact for every buffer, text and
   file, though the liveness property itself stays with TLC.
