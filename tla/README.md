# A TLA+ model of flux-lang

flux-lang is an assembler-like language with a compiler (`compiler/`) that turns
source text into a `.flx` file, and a virtual machine (`vm/`) that runs the file
and then fires its `ON_CHAT` handlers for lines of chat. This directory holds a
TLA+ model of both halves, the TLC configurations that check it on small
instances, and TLAPS proofs of nearly everything the runs check. It goes from the characters of
a source to the handlers the machine runs, each component by itself and all of them
composed.

Paths below are relative to the repository (`src/`).

## 1. The system

| Component | Source | State it keeps | Operations |
|---|---|---|---|
| Lexer | `compiler/lexer/lexer.go` | position, current character | `NextToken` |
| Parser | `compiler/parser/parser.go` | two-token window, error list | `ParseProgram` and one function per statement |
| AST | `compiler/ast/ast.go` | immutable nodes | printing |
| Code generator | `compiler/codegen/` | bytecode, constant pool and its map, labels, jump fixups, errors | `Compile`, one emitter per statement, `resolveJumps`, `Binary` |
| Compiler command | `compiler/main.go` | none | token, AST and binary modes |
| `.flx` format | `codegen.go`, `cpu.go` | the file | written by `Binary`, read by `LoadBinary` |
| Heap manager | `vm/memory/heap.go` | `RAM`, 1 MB of bytes; block headers are in it | `Alloc`, `Free`, `Reset`, `IsAllocated` |
| CPU | `vm/cpu/cpu.go` | registers, flags, PC, call stack, subscriptions, code, constants | `Run`, `dispatchOne`, one handler per opcode |
| Chat delivery | `vm/cpu/cpu.go`, `vm/main.go` | locals of `DeliverChatMessage` | `DeliverChatMessage`, main's read loop |

How they interact. Lexer, parser and code generator are a pipeline of calls; the
compiler and the VM share nothing but the `.flx` file, which two processes may be
writing and reading at once. In the VM a single
goroutine runs everything: `main` calls `Run`, then reads lines and calls
`DeliverChatMessage` for each. Both of those loops call `dispatchOne`, so a
handler's body runs with the same registers, call stack, subscriptions and heap
as the top-level code and as every other handler. The heap is a package-level
array shared by `ALLOC`, string moves and the usernames of deliveries; a string
move writes into the block it has just been given.

### What is hard here

There are no threads, and two processes that meet in a file. What makes the program hard to test is state that outlives
the call that made it, and arithmetic on offsets:

* **The heap's free list is in the heap.** A header is found only by adding up
  the lengths before it, so one wrong length loses everything behind it, and a
  walk over client data takes that data for headers. Splits leave remainders
  that may be too short for a header. `Free` trusts the byte two before the
  address it is given.
* **Handlers share the machine.** The call stack is not reset between lines; a
  handler may fail half-way, jump out of its body, subscribe more handlers while
  the list is being scanned, or free the block its own username is in.
* **Control is offsets.** Skipping a body, returning, restoring the PC and
  patching a label each compute a byte offset; an error of one byte makes the
  machine decode operands as opcodes.
* **Errors do not stop the parser.** It goes on from whatever token an error left
  it on, and what it builds then must still be what the code generator walks.
* **The file can be anything.** It can be half-written, replaced while it is read,
  or not a compiler's at all; the loader computes with offsets it was given.
* **Two passes.** The code generator fills in jump targets and body ranges
  later, at positions it remembered.
* **Endings.** The heap's walk, `Run` and each delivery are loops whose progress
  depends on data.

The same list, line by line and with the properties that guard each line, is in
`PROJECT.json` under `hazards`.

### What makes each component correct

* Heap: the blocks tile RAM; a header's flag is set exactly for the blocks that
  were handed out and not freed; such blocks are disjoint and keep their
  contents; `ErrOOM` is honest; `Alloc` returns.
* CPU: the PC, every return address and every handler entry is the start of an
  instruction; the call stack is bounded and holds only return addresses.
* Delivery: each line fires exactly handlers registered before it; the PC is
  restored and the username's block freed however the handler ends; the
  username is intact while its handler runs; the delivery ends.
* Code generator: the bytes are the source (every statement at its offset, every
  target at its label, every body range around its body), a program is refused
  exactly for its faults, and what is written is what the machine assumes.
* Lexer: the tokens are the source, without white space: nothing is lost, read
  twice or cut short.
* Parser: it ends; a source is refused exactly when it is no row of statements; the
  AST reads as the source; bodies end where the next block starts, after errors too.
* File: what is loaded is as its header describes it, and a whole file unless it was
  overwritten under a read that had begun; then each byte is still in its place.
* All together: the machine does what the statements of the source say.

## 2. The modules

| Module | What it is |
|---|---|
| `HeapLayout` | RAM as a function from addresses to bytes, headers, and the pure parts of `Alloc` and `Free`: split, claim, step to the next header, where a walk ends |
| `BlockPool` | abstract specification of the heap: a set of owned blocks with their contents |
| `Heap` | `heap.go`, with `Alloc`'s loop one iteration per step |
| `Alu` | the arithmetic opcodes on words of `WordBits` bits |
| `Bytecode` | instruction sizes, and `WellFormed`: the contract between compiler and machine |
| `FluxVM` | `cpu.go` and `vm/main.go` over the heap's RAM |
| `Ast` | `ast.go`: statements, and what the code generator relies on (`IsProgram`) |
| `Lexer` | `lexer.go` over sequences of characters |
| `Parser` | `parser.go`, one token per step |
| `Grammar` | what lexer and parser promise, said without a cursor |
| `Codegen` | `codegen.go`, what `runEmitBinary` writes and `LoadBinary` reads of it |
| `FlxFile` | the file byte for byte: `Binary`, `os.WriteFile`, `os.ReadFile`, `LoadBinary`, `parseConstants` |
| `FluxLang` | abstract specification of the whole: a machine that executes the statements of a source |
| `Pipeline` | `Parser`, `Codegen` and `FluxVM` composed as the two commands run them |
| `MCHeap`, `MCFluxVM`, `MCCodegen`, `MCGrammar`, `MCFlxFile`, `MCPipeline` | instances for TLC; `MCText` spells their sources |
| `HeapProofs`, `FluxVMProofs`, `CodegenProofs`, `FlxFileProofs`, `ParserProofs`, `PipelineProofs` | theorems |
| `HeapLayoutProofs` | lemmas about the heap's operators, for `HeapProofs` and `FluxVMProofs` |
| `Induction` | induction and recursive functions in the forms the provers can use |

`FluxVM` and `Heap` share `HeapLayout`: the heap's data operations are written
once. `FluxVM` takes `Alloc` as one step (`WalkEnd` jumps to where the loop
stops), `Heap` takes it round by round, and `Heap`'s property
`LoopMatchesWalkEnd` says that both stop at the same place; it is proved for every
heap, damaged or not. `FluxVM` assumes
its programs are `WellFormed`, and `CodegenProofs` proves that compiled programs
are; `Bytecode` is the module both sides extend. `Codegen` assumes that its sources
are `IsProgram`s, and `ParserProofs` proves that parsed ones are. `Pipeline`
instantiates the three and hands each what the one before left. `Codegen`'s file is
a record; `FlxFile` shows that the bytes are read back as what was written.

### Heap

`RAM` is the byte array, and headers are four length bytes, a flag and a reserved
byte, as in the code. `pc`, `size` and `cursor` are `Alloc`'s frame; `ret` and
`addr` are what the last call returned. `BeginAlloc`, `StepOver`, `TakeBlock`,
`OutOfMemory` and `Halt`/`Panic` are the loop's start, a round that does not fit,
and the three ways it ends (the third is an index out of range, possible once the
cursor has wrapped past the array). `Fill` is the client's part, from
`opMovRegStr`: the VM writes a string and a NUL into a block it has just been given.

`hdrs`, `live` and `damaged` are history variables. The code has none of them;
they record where headers were written, which blocks clients own, and whether a
header was lost: by a remainder of 1 to 5 bytes dropped in the middle of the
chain, or by a `Free` of an address that is no block. They decide no value of
`RAM`. Every safety property of the heap reads "damaged or ..."; the violation
runs show what happens past that point.

`Base` is the radix of the length bytes, 256 in the code. With 8 a word has 4096
values, which keeps wrapping of the cursor within TLC's reach; the proofs hold
for any radix.

### FluxVM

The variables are the fields of `CPU`, `RAM`, and `ev`, the frame of
`DeliverChatMessage` (subscription index, length of the range, username address,
saved PC, end of the body). `mode` says which Go loop is on top. A program is a
record of instructions by offset, a size and a constant pool; what lies between
two offsets is operands, and fetching from there is what `FetchOnBoundary`
excludes. Each opcode is an action; both loops fire the same actions, as both call
`dispatchOne`. Errors go through `Fail`, which ends the process in `Run` and the
loop in a handler; index panics through `Panic`. `FireSub` is the part of an
iteration of `DeliverChatMessage` before the body (allocate, copy, save, jump),
`EndBody` the part after it (free, restore).

Chat lines are chosen from `Users` and `Messages` at any time in the listen loop,
or end it (`Quit`). Trimming and splitting the line is left out. Log text is left
out. A string is its length and one byte that stands for its contents.

`own` and `damaged` are history: the blocks the program allocated, and whether it
ever freed a block it did not own or an allocation dropped a remainder in front of a
header. Over a damaged chain the walk of an `Alloc` may never end; then the action has
no step, as the process would hang. `Narrow` says that operands and sizes fit the 32
bits they are read from.

The model-checked programs are `.flx` files, not sources: the parser ends a body
at `ALLOC`, `FREE` and `ON_CHAT`, so no compiled handler contains them, but the
machine runs any file, and a handler reaches such instructions by a jump or a
call in any case.

### Codegen

The source is the list of statements that `Compile` walks, a body being the
statements after its `ON_CHAT`. `pos` is the walk; `ins` and `size` are the
bytecode, by instruction; `open` is the `ON_CHAT` whose body is being emitted;
`fixups` is resolved one entry per step after the walk. `errors` is the set of
statements an error was recorded for. A faulty `ON_CHAT` is left before its body,
so `pos` jumps over it, as the early return does. `WriteFile` and `LoadFile` cut
the constant count to 16 bits (`CountLimit`).

### Lexer and Parser

A character is one of its class: the letters and digits that occur, white space, a
byte the language does not know, the quote, comma, colon and NUL. `NextToken` is a
function of the source and the cursor, as the Go lexer's only state is its cursor.
`Spelling` maps reserved words to their spelling; a token type missing from it never
occurs, so that a short alphabet is enough for TLC.

The parser's functions are alike: a keyword, then operands and commas in a fixed
order, each checked against the lookahead. `Form` is that table, and a step is one
token: `TakeOperand` when it fits, `WrongOperand` and `TooLarge` the early returns,
`EndStatement` the statement that is returned. `pc` and `block` stand for the Go
stack. Statements are appended to one sequence with the body's length in its
`ON_CHAT`, which is how `Codegen` reads it. Of a diagnostic only its number is kept.
Two functions step onto their operand before they look (`Loose`), so that they leave
the window elsewhere after an error; both cases are in the table.

### FlxFile

Two processes: the compiler truncates the file and writes it in pieces, any write may
be the last; the machine reads until there is nothing more and then loads. `slack` is
the capacity `os.ReadFile` leaves behind the bytes, which matters because Go slices
may reach into it: `data[15:codeOffset]` panics or not by the capacity. `codeEnd` wraps
as the `uint32` sum does. `LoadBinary` takes one constant per step. `found` and `torn`
are history: the file before, and whether it was truncated after bytes of it were read.

### Pipeline and FluxLang

`Pipeline` has the variables of `Parser`, `Codegen` and `FluxVM` and a step of one of
them at a time: the compiler starts when the parser is done without errors, the
machine when a file is loaded. It contains every operation of the three.

`FluxLang` is what a program means: statements, names and values, no bytes and no
offsets. What the heap answers is left open (an address, an error, a panic), all else
is determined. The refinement (`Meaning` in `Pipeline`) numbers the statements and maps
the PC, return addresses and subscriptions to them (`Number`, `Calls`, `Handlers`), and
the frame of a delivery to the line being answered (`Chat`): the username's address and
the end of the body are no part of a meaning. `FluxLang` is the only place where the meaning of a
source is written down, and no stage of the code can be wrong about it unnoticed.

## 3. What TLC checks

| Run | Shows | States |
|---|---|---|
| `heap` | while no header was lost: tiling, flags, disjointness, first fit, honest out-of-memory, no panic, every call one of `BlockPool`'s, contents included, and `Alloc` returns; past a lost header RAM stays bytes, the cursor a word, and the loop stops where its pure form says | 252 k |
| `vm` | all 484 pairs of handlers over eleven kinds of step, with any sequence of lines, and every way an instruction fails, at top level, in a handler, cut off by the end of the code, and over a damaged heap: boundaries, stack, PC, late subscriptions, username, the program's blocks, block accounting; registers wrap; only damage or a cut instruction panics; `Run` and each delivery end | 56 k |
| `codegen` | every source of up to four linking statements and every pair of all kinds | 70 k |
| `front_end` | every source of up to four characters of nine classes, every row of up to three lexemes, every program of two statements behind an `ON_CHAT` or not, and each of those with one lexeme lost, doubled or changed | 207 k |
| `flx_file` | every interleaving of compilers writing one of three programs, with failures, and a machine reading: one whole file unless the read was torn (`WholeUnlessTorn`), and nothing shifted if it was (`ReadInPlace`); every file with up to two damaged header or pool bytes: loaded as its header describes, refused, or a panic of two kinds | 149 k |
| `pipeline` | 408 sources from their characters to the last chat line | 42 k |

The six others are violations, each a statement of the repository's own
documentation that the code does not keep (`findings` in `PROJECT.json`):

| Run | The documentation says | The code |
|---|---|---|
| `heap_overlap` | `Alloc` returns a freshly allocated block of the requested size | after a dropped remainder the walk reads a header where there is none, and `Alloc` returns a block that overlaps an owned one |
| `heap_stray` | an address that is not just past a header is `ErrInvalidAddress` | `Free` clears a data byte and reports success, or says double free |
| `vm_body` | a body is dispatched until `BodyLength` bytes are consumed | a `CALL` out of the body ends it; the frame stays on the stack |
| `vm_frees` | a delivery frees the username's block | it frees whatever is at that address by then |
| `mov_body` | `MOV` ends a body (`parser.go:351-353`, `ast.go:219-220`) | `isBlockStarter` is false of `MOV`: one behind an `ON_CHAT` runs in the handler, not at top level |
| `flx_torn` | the machine runs a compiled file (`vm/main.go:1`) | a file overwritten between two reads is loaded as a mixture of two programs |

Divergences seen while modelling that no run states as a claim of its own:

* The walk of `heap_overlap` can also miss a free block and answer `ErrOOM`
  (`heap.go:60` says none is large enough). README line 93 lists "free coalesce" as
  complete, but `Free` merges nothing (`ROADMAP.md:52` has it as open).
* `README.md:108` gives a pool entry's length as a `Uint16`; it is written and read as a
  `uint32` (`codegen.go:124`, `cpu.go:141`), as `codegen.go:91` and `ARCHITECTURE.md:61`
  say. `LoadsAsDescribed` has the four bytes.
* The header's constant count is the pool's length modulo 65536 (`codegen.go:107`), which
  nothing checks; `ARCHITECTURE.md:54` calls it the number of entries. A program at the
  limit is one of the model's files and is loaded without its constants;
  `WholeUnlessTorn` says of it only that the file is whole.
* `compiler/main.go:137-139` says that no half-written file is left on disk. That is so for
  errors of the parser and the code generator; `os.WriteFile` truncates first and can fail
  later. `WholeUnlessTorn` shows that the loader refuses what it leaves.
* `LoadBinary` panics, where it means to refuse, on a code offset below 15 and on an
  offset and size whose sum wraps. `PanicsOnlyOn` shows that there are no others.
* `codegen.go:11-13` says the header's `CodeSectionOffset` is added to body offsets at
  load time (it is not, and need not be, as the code section is copied out).
* `parser.go:516` promises one diagnostic per problem; an integer too large for a
  `MOV` gives two (`TooLarge`).
* `ast.go:190-191` says that a pin's state is 0 or 1; neither the parser nor the code
  generator looks at it, and both operands are cut to a byte (`SaysAsWritten`).
* `codegen.go:134-137` says that one bad construct does not hide other problems; the body
  of an `ON_CHAT` with a bad register is skipped, faults and all. No source gives such an
  AST, as the lexer has no token for a bad register; `ErrorsExact` has the code's version.
* A byte 0 in a source ends it without a word (`lexer.go:265-268`), and README examples
  use `;` comments, which the lexer does not know.

### Bounds, and why they are enough

* **Heap.** 28 bytes of RAM and four sizes (24 to 32 and two or three in the violation
  runs): enough for three blocks, exact
  fits, splits, a gap at the end too short for a header, a remainder that loses a
  header, and requests that never fit. `Strays` has
  addresses below the first block, inside blocks, and past RAM. `Fill` can leave bytes
  that read as a length of nearly the whole word, so that the cursor wraps once a header
  is lost.
* **FluxVM.** 44 bytes of RAM hold three blocks, the program's, a username and what its
  handler allocates, so that handlers also run out of memory. Two frames of call stack, two handlers and a subroutine are what it
  takes for a handler to overflow, to return into another's leftovers, and to be
  re-entered. `MaxSubs` bounds the subscriptions at which a new line is accepted:
  the code has no limit, and a handler can add one per line.
* **Codegen.** Four statements include a label before, inside and behind a body
  with a jump to it, a faulty `ON_CHAT` whose label is used elsewhere, and a shared
  string. `CountLimit = 2` lets a pool reach it.
* **Lexer and Parser.** Four characters of nine classes are enough for a token of every
  type, two tokens with and without a space, unclosed strings and NULs anywhere. A
  statement is at most four tokens, and what an error leaves is decided by the next
  two, so that three statements with one lexeme wrong meet every recovery, inside a
  body, at its end and outside. `MaxInt = 50` is below the number 99.
* **FlxFile.** A byte has three values, so that a word is 81, a file of 20-odd bytes can
  be described, and sums wrap; the count has nine values and one program has that many
  constants. Two damaged bytes reach each pair of header fields. `OneTrouble` keeps the
  damaged files apart from the concurrent writers, whose runs would only multiply, and
  lets the compiler truncate a file under a read once. That is enough for a mixture:
  header and first code byte of one program, the rest from another, is loaded.
* **Pipeline.** Top-level code with a subroutine, a jump over it, and one handler of one
  or two statements, followed by nothing, code or a second handler: every kind of
  transfer into, out of and across a body. Two frames of call stack overflow.
* Deadlock checking is off where the system may stop: the process exits, fails or
  panics, the compiler has finished, or a bound is reached.

### Fairness

`AllocReturns` uses weak fairness of the loop's steps: `Alloc` is a plain loop in
the running goroutine. `MachineReturns` uses weak fairness of
`Internal`, everything the process does by itself. Nothing is assumed of users:
no line need ever arrive, and `Quit` need not happen. The machine has no
instruction budget, so it is checked for programs without endless loops; a
counting loop, recursion up to the stack limit, handlers that jump into one
another or subscribe, and a body declared longer than the code are among them.
`ParserEnds` uses weak fairness of the parser's steps, for the same reason as the heap's
loop: one goroutine, no waiting.

### Mutants

Definitions commented "Mutant of X" sit before the definition they vary. Each
stands for a plausible mistake in that piece of code (a comparison off by one, a
reset forgotten, a step in the wrong order); `PROJECT.json` pairs each property
with a mutant that breaks it, so that no property holds by the shape of the model.

## 4. What is proved

Proofs are for every value of the constants: any RAM size, radix, word, alphabet, set of
sizes, strays, programs, strings, files and sources. `tlapm` checks them to the last leaf.

| Theorem | Statement |
|---|---|
| `HeapProofs!TypeCorrect` | `Spec => []TypeOK`, damaged or not |
| `HeapProofs!Invariant`, `HeapSafe` | `IInv`; `ChainTiles`, `FlagsMatchOwners`, `LiveDisjoint`, `WalkIsFirstFit`, `HonestOOM`, `NoPanic` |
| `HeapProofs!LoopIsWalk` | `LoopMatchesWalkEnd`: the loop stops where the pure walk does, over every heap |
| `HeapProofs!ImplementsPool` | `Spec => PoolUntilDamaged`, for all sizes and strays |
| `HeapProofs!EveryRoundAdvances` | `WalkAdvances`: over a whole chain each round moves the cursor on |
| `FluxVMProofs!ControlInvariant`, `ControlSafe` | `ControlInv`; `FetchOnBoundary`, `StackDiscipline`, `RestedPC`, `NoLateHandler` |
| `FluxVMProofs!HeapInvariant`, `DeliveriesAccounted` | `HeapInv`; `UsernameIntact`, `BlocksAccounted` |
| `FluxVMProofs!ProgramDataKept`, `NoUnexplainedPanic` | the action properties `OwnedBlocksKept`, `PanicsExplained` |
| `FluxVMProofs!AllocComesBack` | `AllocAnswers`: over an intact heap every `Alloc`'s loop stops |
| `FluxVMProofs!MachineTyped` | `TypeOK`, over a damaged heap too |
| `CodegenProofs!CodegenInvariant`, `CompiledWellFormed` | `CodegenInv`; every compiled program is `WellFormed` |
| `CodegenProofs!WalkInvariant`, `WritesTheSource`, `RefusesExactly` | `WalkInv`; `Translated`, `ErrorsExact` |
| `FlxFileProofs!LoaderTyped`, `LoaderPanics` | `TypeOK`, `PanicsOnlyOn` for every file |
| `FlxFileProofs!LoaderExact` | `LoadsAsDescribed`, of whatever was read |
| `FlxFileProofs!LoadsWholeUnlessTorn` | `WholeUnlessTorn`: one whole file or none, unless it is truncated after bytes of it were read |
| `FlxFileProofs!ReadsNeverShift` | `ReadInPlace` under every interleaving, truncations during the read included |
| `ParserProofs!ParserSafe`, `BuildsPrograms` | `ParserInv`; the AST is `IsProgram` on every source, right or wrong |
| `ParserProofs!BodiesEndAtStarters` | `BodiesMaximal` |
| `ParserProofs!RefusesExactlyNonSentences` | `AcceptsExactly`: the parser accepts the grammar |
| `ParserProofs!ProgramReadsAsSource` | `ReadsBack`: the AST says the source |
| `ParserProofs!LexerLosesNothing` | `LexesAll`: the tokens say the source |
| `ParserProofs!EveryStepAdvances` | `ParserAdvances`: every step lowers a natural number |
| `PipelineProofs!SourcesRunOnInstructions` | `RunsOnInstructions` for every source |
| `PipelineProofs!SourcesMeanWhatTheySay` | `Spec /\ []Representable => SourceSemantics`: the refinement of `FluxLang` |
| `PipelineProofs!SourcesSayWhatIsWritten` | `Spec => [](Representable => SaysAsWritten)` |

**Heap.** `LiveDisjoint` is not inductive: that two owned blocks stay apart depends
on where the headers are. `IInv` adds that the headers tile RAM (`Tiling`), that a
block is owned exactly when its header says so (`OwnerFlags`), where the walk is
and what it has passed (`FirstFitWalk`), and what the last answer meant. Tiling is
preserved because `Carve` writes only inside the block it splits; the lemmas say
what a header write changes (`Uint32`, `Flag` of every other header are kept), and
there is one lemma per action. Disjointness then follows from tiling, as two owned
blocks are two different tiles. `ImplementsPool` maps every step of the heap to a
step of the pool or a stutter; walking is the stutter. It asks nothing of the clients: a
step that loses a header or leaves one lost is let go, a `Reset` is the pool's whatever was
damaged before. The violation runs show that this cannot be left out. `LoopIsWalk` needs no
whole chain: the end of the walk is a function of the cursor that a round of the loop
does not change.

**FluxVM: control.** `ControlInv` types the control state, says that a delivery scans
subscriptions that exist, and adds that the saved PC is behind the code. The proof
has a lemma per way of moving the PC (advance, jump, call, return, skip a body,
fail) and needs nothing of the heap: control is safe over a damaged heap too. Its
assumption on programs is `VMAssumption`: they are well formed. What the compiler
emits is, by a theorem about the compiler.

**FluxVM: heap.** `HeapInv` says that, over an intact heap, headers tile RAM (`Tiled`), the
allocated blocks are exactly those held by the program or the delivery (`Taken(RAM) =
Held`), the username's block is not the program's, and the name and its NUL are in it
(`NameStored`). It is the machine's own version of the heap's `IInv`: the client is now
known. What it takes besides is that a string with its NUL fits the block it is copied
to (`StringStored`), that `Alloc` takes a free block and `Free` of an owned one frees
that block alone. `UsernameIntact` and `BlocksAccounted` are parts of it;
`OwnedBlocksKept` is what its step lemmas say of each write; `PanicsExplained` follows as
every index `Alloc` and the copies use lies in a tile. `Sized` (a string has a length,
its byte is one) is the only assumption. `AllocComesBack` is by tiling too: the walk
meets each header once. `MachineTyped` needs none of this: widths are kept by the wraps
alone, and a returned address is a word whatever the chain says.

**Codegen.** `CodegenInv` says, between any two emitters, that the instructions tile
the code, that labels and patched targets lie on boundaries, that fixups refer to
branch instructions, that finished bodies end on boundaries, and where the open
body is. `OpenBody` is what makes it inductive: that no second `ON_CHAT` begins
inside a body is used when the header is patched at its end. A placeholder target
is 0, which is a boundary, so the invariant holds before the fixups are resolved.
`WalkInv` adds the source: the size is the sum of the sizes of the statements passed
(`Offset`), each instruction emitted is its statement's encoding but for what is still
to be patched, the labels are those defined, the fixups are the branches not yet
resolved, and the errors are the faults of what was passed or skipped. At the end of the
walk and of the fixups that is `Translated` and `ErrorsExact`.

**FlxFile.** `LoadInv` says what `LoadBinary` has parsed of the pool so far, `ReadInv` that
an untorn read has a prefix of the disk, and that the disk with what is still to be
written is a whole file, `WholeInv` that a file that is some program's is being loaded as
that program. Numbers go through bytes: the digit lemmas say that `PutUint32` and
`Uint32` (and the 16-bit ones) are inverse to one another, and the pool's concatenation
is walked with its partial sums. `FlxAssumption` is the only assumption; `LoadsAsDescribed`
holds of files shorter than a word, `WholeUnlessTorn` of programs that fit one. A torn
read has a prefix of nothing: the run `flx_torn` shows what it can load. What is left is
`ReadInPlace`, that a byte read stands where it stood in the file found or in a program; `ReadInv`
says as much of the disk, which is the file found or the beginning of a program.

**Parser.** `ParserInv` types the window and the statement under construction, says
that the operands still wanted are the rest of the statement's form, and that the open
body is the end of the program and no block starter is being parsed in it (`OpenBlock`).
The last is what makes `BuildsProgram` inductive: a statement is appended to a body only
if `BodyEnds` was false for its first token. The lexer enters by one lemma, that the
token at a cursor is a token whose cursor is not before it. `MaximalInv` adds, for
`BodiesMaximal`, what comes next where the body of a closed `ON_CHAT` ends.

`AcceptsExactly` and `ReadsBack` have one invariant, `ReadInv`: with no error so far, the
tokens before some position `p` are the program, statement by statement, those from `p` on
are the statement under construction and the lookahead, and the source is a sentence exactly
if the tokens from `p` on are (`Good`). After an error the source is no sentence. A step
moves `p` over a statement; a refused operand shows that no statement of the grammar starts
at `p`. The proof found a `CASE` of `ReadsAs` with two arms for `MOV_REG`, which TLC had
taken in order; they are apart now.

`LexesAll` is an induction over the tokens, on `Reaches(c, x)`: at cursor `c` outside a
string, or at the end of one that is not closed, the text `x` of the tokens so far is what the
character-by-character definition keeps up to `c`. There is a lemma per kind of token
(`StringRead`, `RunRead`, `CharRead`), on what a run of characters that are kept or dropped
adds. `LexerAssumption` is all that is asked of an alphabet: the classes of characters are
disjoint, and reserved words are spelled differently, with letters and digits, a letter
first.

`EveryStepAdvances` has the variant of the two loops, `Rank`: nine times what is left of the
source, and then how far the round is. It rests on `Window`: the lookahead is the token
behind `curToken`, and behind `EOF` is `EOF`.

**Pipeline.** `PipelineInv` is the parser's invariant, the code generator's from the
moment it starts (before, its state is fresh), and the machine's from the moment a file
is loaded, joined by what is handed over: the AST is an `IsProgram` when the compiler
starts, the code is `WellFormed` and `Narrow` when the machine does. `PipelineProofs`
instantiates the three proof modules and uses their step lemmas; the `Same` lemmas say
that what the instances define from the same variables is the same.
`SourcesRunOnInstructions` is for programs whose code is shorter than `WordSize`, 4 GB in
the code: beyond it offsets wrap.

**The refinement.** `SourcesMeanWhatTheySay` says that a step of the machine is a step of
`FluxLang`, and that parsing and compiling are stutters until the file is loaded. The
argument: instructions and statements are counted alike (`Numbers`), so that the number
of an offset is the number of the statement laid out there (`WalkInv`), and a label's
offset, a body's end and the offset behind an instruction are the numbers `Target`,
`Behind` and `at + 1` of the language. `Executed` is that correspondence for the
instruction at the PC, `HandlerFacts` for a subscription, `BodyLink` for the end of the
body that runs. They need `ReferInv`, which is new to the machine: every subscription is
the record of an `ON_CHAT` of the code, and a running handler ends where its record says.
Then there is one lemma per action (`SimMove` to `SimLeave`), and `NoGarbage` for the two
instructions the language has none for. `SaysAsWritten` is `Executed` with the operands.
The hypothesis `Representable` says that the code and the pool fit the format's fields (32
bits of offset, 16 of count, 31 of index) and that strings are `Sized`; past it the
compiler writes a file that means something else, without a word.

**Recursion.** The provers cannot instantiate the library's induction theorems, which
take an operator. `Induction` has what the proofs need over sets and functions instead:
a set of numbers has a least member, a set that holds 0 and successors holds every number,
and a function defined by recursion on a number, or along a walk, exists and satisfies
its equation. With these, facts about the model's recursive functions (`Pow2`, `WalkEnd`,
`Offset`, the pool's bytes) are proved like any other. `WordSize >= 2`, formerly an
assumption, is one of them.

Assumptions, each named in its module and evaluated by TLC: `AluAssumption`, `LayoutAssumption`,
`HeapAssumption`, `VMAssumption`, `CodegenAssumption`, `LexerAssumption`,
`ParserAssumption`, `FlxAssumption` and `PipelineAssumption` type the parameters.
`VMAssumption` and `CodegenAssumption` also say that programs are well formed and sources `IsProgram`; in
`Pipeline` both are theorems. `PipelineAssumption` has 16 registers below the top bit of
`SEND_CHAT`'s operand, as in 32-bit words.

`CodegenInv` is also checked by a run, as an invariant; `IInv`, `ControlInv`, `HeapInv`,
`WalkInv` and `AllocAnswers` were checked by TLC before they were proved and are not part of
a run now.

**Model-checked only.** `AllocReturns`, `MachineReturns`, `ParserEnds`: liveness
is beyond the prover. For `AllocReturns` and `ParserEnds` the part that is safety is proved,
that every step makes progress; that the step is taken is fairness, and TLC's. Every safety
invariant and action property of a passing run is stated by a theorem.

## 5. What is not modelled, and the plan

Not modelled: printing and the wording of messages, flag handling and reading the
source in the compiler command, trimming and splitting of input lines in the machine's
(a user and a message are chosen), the AST's printing. The contents of a string in RAM
are one byte repeated, as no code looks into it but to find its NUL. `TokenLiteral`,
`decodeRegister`, `IsAllocated` and the copying getters change nothing.

No property claims a limit on subscriptions or an end of every handler: the code has
neither (`hazards`).

Left to prove: the progress of a delivery without jumps backward.

## 6. Running it

    tlc -config MCHeap.cfg MCHeap
    tlapm HeapProofs.tla

The names of all modules and configurations are in `PROJECT.json`, `runs`.
