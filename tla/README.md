# Verification of the nuvm experiments

The repository holds four prototypes of a small virtual machine, written in C
one after the other and sharing no code. This directory models them in TLA+,
checks the models with TLC and proves theorems about them with TLAPS.
`PROJECT.json` lists for every definition the lines it stands for, and for every
property a mutation of the code that breaks it.

## 1. Inventory

All four are sequential programs: no threads, no signals, nothing persisted
between runs of a process. What is hard about them is what callers do in an
order nobody tested, operations that fail half-way (memory, files), state left
behind by a failed operation, and arithmetic at the boundaries.

### Fourth experiment (`src/fourth-experiment/src`)

| Component | State | Operations | Correct when |
|---|---|---|---|
| Name registry, `common/name-registry.c` | a growing pool of (name, object) pairs, its capacity and count | construct, destruct, register, find | never written past its pool; a name once; a failed call changes nothing a client sees |
| Error types and value types, `common/errors.c`, `eval/types.c` | one global registry and INITIALIZED flag each | init, register, find | success of init means everything is registered and stays so |
| Start-up of values and evaluator, `eval/values.c`, `eval/evaluator.c` | entries in those registries | `ni_init_values`, `ni_init_evaluator`, each calling the init functions below it | may be called in any order, retried, and mixed with host registrations |
| Values and evaluator, `eval/values.c`, `eval/evaluator.c` | registers, pc, halted; an `NError` owned by the host | step, run, get_register | arithmetic is exact or reported; failures have no effect; the pc stays in the code |
| Instruction encoding, `common/instruction*.{c,h}` | none | encode, decode | decode undoes encode |

The evaluator's errors are registered in the error registry and compared by
address, so the machine depends on start-up having succeeded. Hard: allocation
failing in the middle of nested init functions; steps after errors and halts;
overflow tests done in the very type that overflows.

### Second experiment (`src/second-experiment/src`)

| Component | State | Operations | Correct when |
|---|---|---|---|
| Evaluator, `evaluator.c`, with `module.c`, `objects/procedures.c`, `objects/primitives.c` | a stack of words holding frames, stack pointer, code pointer, current module and procedure; registers of the modules | setup, run; one instruction per step | each activation has its own locals and arguments, a return resumes the caller, also after failed runs |
| Instruction encoding, `instruction.c` | none | encode, decode with signed 24- and 16-bit offsets | decode undoes encode |
| Bundles, `objects/bundles.c` | slots and the symbols they belong to, open or closed | new, set, get, close | what was set is what is got; nothing is set once closed |
| Symbol pool, type registry, `symbol-pool.c`, `type-info.c`, over `util/resizable_array.h` | growing arrays | get_symbol, add_type, fetch | an id means the same for ever |
| Loader, plugins, stdlib, memory, errors | dynamic libraries, none of their own | load | - |

Hard: where one frame ends and the next begins; words left by earlier frames;
runs after a failed run; a run without an `NError`.

### Third experiment (`src/third-experiment/src`), an assembler

| Component | State | Operations | Correct when |
|---|---|---|---|
| Input stream, tokenizer, lexer, `asm/istreams.c`, `asm/tokens.c`, `asm/lexer.c` | position in the input, scanner state, one cached token | peek, read, advance | every input gives the tokens of `docs/lexer-description.md`, also where the buffer or input ends, and nothing is written past the buffer (it is: section 3) |
| Reader, `asm/reader.c` | none | one function per syntactic element | errors are reported, nothing is half-read |
| Assembler and labels, `asm/assembler.c`, `asm/label-manager.c` | pools of instructions, constants and labels, which it hands to the program | consume, define, get, resolve | each use of a label gets its one definition; a program without an error is the whole text |
| Output stream, emitter, `asm/ostreams.c`, `asm/emitter.c` | a buffer and cursor over a file | write, flush, close; emit | while the file works it holds what was written, in order and once; nothing is lost by a retry; what the header says of the segments is what follows it (it is not: section 3) |
| Errors, byte streams, `common/*.c` | registry of errors | register, set, clone | - |

Hard: partial writes and retries, forward references, redefined labels, tokens as long
as the buffer, errors at every token.

### First experiment (`src/first-experiment/src`)

A stack evaluator with modules, symbols, procedures and a resizable stack
(`evaluator.c`, `module.c`, `types/*.c`, `util/*.h`). It is superseded by the
second experiment; modelled last, if at all.

## 2. Modules

| Module | Models | Checked by | Proved in |
|---|---|---|---|
| `NameTable` | the functions of name-registry.c as pure operators on the structure | through its users | |
| `NameMap` | abstract: a map from names to objects that only grows | as a property | |
| `NameRegistry` | one registry and any client | `MCNameRegistry` | `NameRegistryProofs` |
| `RuntimeInit` | two registries, four init functions, a host | `MCRuntimeInit` | `RuntimeInitProofs` |
| `InstructionFormats` | encoders and decoders of the fourth experiment | through its user | `RegisterMachineProofs` |
| `RegisterMachine` | the evaluator of the fourth experiment | `MCRegisterMachine` | `RegisterMachineProofs` |
| `InstructionWords` | encoders and decoders of the second experiment | through its user | `CallFramesProofs` |
| `Activations` | abstract: procedures activated one inside the other | as a property | |
| `CallFrames` | the evaluator of the second experiment, executing encoded words | `MCCallFrames` | `CallFramesProofs` |
| `CheckedCode` | no code of the repository: a check of the code a host gives that evaluator, the hypothesis of the theorems | `ASSUME`s of `MCCallFrames` | `CallFramesProofs` |
| `Bundles` | the bundles of the second experiment | proofs only | `BundlesProofs` |
| `OutputStream` | the assembler's output stream, its file and its client | `MCEmitter` | `EmitterProofs` |
| `Emitter` | the emitter, over `OutputStream` (which it extends) | `MCEmitter` | `EmitterProofs` |
| `Characters` | the classes of characters | through its users | |
| `TokenGrammar` | abstract: a text, a position, and what token is at it, as documented and as given | as a property | |
| `Lexer` | input stream, scanner and lexer | `MCLexer` | `LexerProofs` |
| `AssemblyFormats` | what follows each keyword and opcode | through its user | |
| `Assembler` | reader, assembler, label manager | `MCAssembler` | `AssemblerProofs` |

Definitions commented as slips are the mutations: they take the place of the
definition after them to show that a property can fail. They are part of no
specification.

### How state and actions correspond

*Name registry.* `registry` is the C structure: `pool` is the filled part of the
array, so `num_objects` is its length, and `pool_size` the capacity. `mem` says
whether an allocation in the call succeeds. Each call is one action, with every
early return a branch that leaves what the code leaves.

*Start-up.* `rt` holds both registries and flags. Each `ni_init_*` is an
operator from `rt` and a set of allocation sites that fail to a new `rt` and a
return value, and calls the operators of the functions it calls; one action each
calls it. `RegisterAll` is the loop over a list of names, as a recursive function of
how many were registered. The size a pool has when it is allocated names the site. Host code
registers only after the init function of that registry has succeeded.

*Register machine.* Registers hold the NValues themselves (number times four,
6 and 2), so tags are mixed up here as they are in the code. As there are no
jumps, the instruction at the program counter is chosen from `Program` when the
counter gets there, which covers every program made of these instructions.
`HostStep` is a call of `n_evaluator_step`, `RunStarts`, `RunStep`, `RunReturns`
are `n_evaluator_run`. The `NError` is kept between calls until `HostClearsError`,
which is a host that passes a fresh one. Signed overflow of a C int is the
wrapping the builds show.

*Call frames.* `stack` is the array of words; slot constants have the code's
names. An action per `_op_` function, and `RunProcedure` for the beginning of
`_run_procedure`; the loop is `GoOn`, which ends after an error. The words that
hold the arguments of `call` follow it in the code and are not executed;
`Argument` reads them. `code` has the instructions as a host writes them with the
`n_op_` functions; `Fetch` is the word that `Encode` made of one, and what is
executed is `Decode` of that, so an error of the encoding shows as a step that
`Activations`, which looks at the instructions as written, does not take. What a
bundle holds is left to `Bundles`: `bundle-get` gives any value. An operand of the
wrong kind fails an assertion, which ends the process; so does the NULL that
`new-bundle` stores when there is no memory. A primitive may return any datum. An
`NError` that nobody initialised is a choice between `N_E_OK` and garbage. Locals
are what the words held before.

`Records` walks the saved stack pointers and reads each frame back as a record:
this is the refinement mapping of `CallFrames` to `Activations`.

*Output stream.* `buffer` is the filled part of the array, so the cursor is its
length; `file` is the `FILE*`; `disk` is what the file will hold. Bytes are
numbered as the client offers them, so one lost, repeated or moved is seen;
`accepted` remembers those that were copied into the buffer, `failures` counts
what the file did. `Flushes` is the set of things `ni_ostream_flush` can come
to, one for each number of bytes `fwrite` takes; `Write` and `Close` go on from
each. The client's `NError` stays set until `ClientResetsError`, and the code
treats an old error like a new one.

*Bundles.* `slots` and `mapper` are the arrays, with what malloc left in them:
`Garbage` is what the memory may hold. `record` remembers what was set.

*Emitter.* The stream's module with `ni_emit_program` as its client: an action per
write, in the order of the code, each through the stream's own `Write`, so every
fault of the file can come at every write. `OwnWrite` is a client that writes to the
stream itself and emits nothing, `Client` what either does besides. `pieces` has the sizes of the writes still to come.
Values are left out, their sizes are not.

*Lexer.* `input` and `cursor` are the input stream; `scan` has the local variables of
`ni_get_next_token`, which handles a character per step (`Ignore`, `Consume`, `Finish`);
`nul` remembers where the last token's NUL was written; `Peek`, `Copy`, `Read`, `Advance`
are the client's calls. `Moves` is the table of the `handle_S_` functions. In the mapping to
`TokenGrammar` a token that is cached, or being scanned, has not been taken: the position is
where it starts. The scanner writes past its buffer in one case (`lexer_overrun`), which is
undefined; the model goes on as if the byte hit nothing, which is so where padding follows
the buffer, as in the usual layouts of `NLexer` and of `discard_buffer`.

*Assembler.* Tokens are chosen when they are looked at, so any text is read, and
those the lexer can give (a lexer error is a token nobody wants). `phase` is where
`ni_asm_read_from_istream` is; `head` the keyword or opcode read last, `todo` what
must follow it by `AssemblyFormats`, `args` and `label` what has. `labels` is the
pool of the label manager. `error` is the chain of errors by type. `used`,
`defined` and `begun` are history. `Return` resolves the labels and answers,
`CleanUp` is where the errors before the code segment go; a failed assertion, and the
label manager given no name, are `Abort`.

## 3. Runs

| Run | Result | Shows |
|---|---|---|
| `registry` | passes | pool bounds, unique names, bounded growth; implements `NameMap` |
| `runtime_init` | passes | what success of each init function guarantees, what retries keep, and two permanent failures (below) |
| `types_pool` | violated | `ni_init_types` succeeds without a pool |
| `register_machine` | passes | arithmetic exact or reported, failures without effect, pc in code, runs end |
| `negation` | violated | `n * -1` overflows, against the comment above the test |
| `call_frames` | passes | frames are disjoint and adjacent, a run keeps its base frame, implements `Activations` from encoded instructions; the code run stays well formed, as the theorems ask |
| `call_arguments` | violated | a second argument is overwritten by the next call |
| `lexer` | passes | implements `TokenGrammar` under any mix of calls; the types are those of the description but for four named departures; every call returns, and a client that reads on gets to the end; the buffer is overrun nowhere but at the end of the text |
| `lexer_overrun` | violated | the NUL behind a token of one character more than the buffer takes, at the end of the text, is written past the buffer |
| `assembler` | passes | each use of a label has its last definition; what is returned without error is whole; no name is freed twice |
| `emitter` | passes | no byte past the buffer, none lost or out of order, honest refusals, for clients that write themselves and for the emitter; of a program the stream has a beginning without gaps |
| `constants_size` | violated | the constants take more bytes than the header says |

**Bounds.** `registry`: three names, two objects, initial sizes -1 to 2, so pools
of one double twice; all sequences of calls. `runtime_init`: pools of four and
two instead of 32, so that both grow inside the init functions (the code makes
the sizes macros), and in a call at most one failing allocation besides the
malloc of the type pool: any other failure ends the call. `register_machine`: fixnums of 6 bits
in ints of 10, so that products exceed the int as they do with 17 and 32 bits;
two registers holding each pair of boundary values, every opcode, bad register
numbers as operands and as results, up to three instructions before the HALT. The theorems
below have no such bound. `call_frames`: a main procedure and one that may call
itself, over 24 programs with every instruction, jumps forwards and backwards,
register numbers of two bytes, and up to five arguments in two words (more than one
only for a procedure that calls nobody). `StackSize` (29) holds three frames, so one
activation of the recursive procedure returns to another, and main frames at two
heights, left by failed runs; deeper calls are cut off, as the code has no check
there and what it then overwrites is not known.

`emitter`: for a client that writes its own bytes, buffers of one to three bytes, writes
of up to four, six bytes in all, which fills the buffer of three twice; for the emitter,
three programs with every kind of constant and every layout of an instruction, buffers
of 16 and 40 bytes (the header alone needs 28), and room to emit the shortest twice to a
stream; two failures, so that a repeated flush fails again. A client does either, never
both on one stream. `constants_size` has the same bounds. `lexer`: a buffer of three
characters where the code has 256, tokens of up to five; every text of two characters
over one or more of each class, and longer ones over the characters that share a part of
the scanner; `lexer_overrun` reads names only.
`assembler`: integers of 1, 2 and 4 bits where the code has 8, 16 and 32, so the
number of constants goes round; three spellings of two labels; five constants,
instructions and definitions together.

**Fairness.** `register_machine` and `lexer` have liveness properties. The loops of
`n_evaluator_run` and of the scanner have no way to wait, so weak fairness of their
steps and their return is what running a sequential function means. Nothing is
assumed of the host: `ReadersReachTheEnd` speaks of clients that go on reading. The
code in the model ends with a HALT; runs of code without one are not claimed to end.

**Deadlock** is not checked in the two `MCCallFrames` runs and in `MCAssembler`: a
failed assertion stops the process, and `StackSize` cuts behaviours off.

**What the passing runs say that may surprise.** `HalfInitializedForever`: once
`ni_init_types` failed after registering an error type, no later call can
succeed. `EvaluatorInitializesOnce`: `ni_init_evaluator` returns -3 when called a
second time. `ArithmeticExact` leaves out MUL of a positive by a negative number,
where the code's test is reversed (`-1` is the `negation` finding). `FramesDisjoint`
holds for at most one argument. After a run that failed, the stack pointer and
current module stay where the error was; `RunKeepsItsBase` is about runs that
start from there as well. `CloseDelivers`: after a partial write the retried flush
repeats bytes, so a file closed without an error holds all that was accepted but
some of it perhaps twice. Bytes written to a closed file stream are accepted and go nowhere.

*Scanner.* A token of one character more than the buffer takes sets `overflow`; where the
input ends there, `eof` comes first: `buffer[257]` of `char[257]` gets the NUL
(`lexer_overrun`; `OverrunOnlyAtEnd` says that it happens nowhere else), and the token is
looked up cut off instead of being `TOO_BIG`. `TokenGrammar` has the description's tokens
(`DocumentedType`) and those the client gets (`TokenAt`, which is what
`ImplementsTokenGrammar` compares with), and `Departs` says where they are not the same.
`DocumentedUnlessDeparts` compares the scanner with the description itself: the type is
the documented one everywhere but there, and never there. The departures are four
disagreements of the code with `docs/lexer-description.md`:

- No text is ever scanned as a register: line 75 has `C:0`, `L:10` and `G:10588` as
  examples, as has the comment above the scanner (`tokens.c:220`), but nothing leads to
  `S_REGISTER_PREFIX`, and they are `UNKNOWN`.
- A minus sign is a number before it has digits, where lines 96 and 97 ask for one or
  more: `-` is an integer, on which the assertion in `ni_parse_*` then stops the
  assembler, and `-.5` a real.
- A token of one character more than the buffer takes, with nothing behind it, is not
  `TOO_BIG`, which line 19 says of every one that is bigger.
- A string that a newline breaks is `TOO_BIG` when it is as long as the buffer, although
  it fits, because the newline was put to the store.

The regular expressions of the description, and above
`ni_get_next_token`, disagree with its prose: they forbid leading zeros and lower-case
hexadecimal digits, let strings have one character only, and call everything that begins
with a dot a keyword (`\..*`), where the prose allows lower-case letters, digits and minus
signs after it. There the code follows the prose, and so does the grammar: `.L` is
`UNKNOWN`. The description does not say where the token after one that is too big begins:
the character that makes it too big is lost, and the next token starts after it. A `#`
inside a token starts no comment. A newline in a string ends the token but is not consumed.

*Assembler.* `AcceptedIsWhole` and `LabelsResolve` are as strong as the code allows:
an error in the code segment (or no code segment at all) comes back as a program with
the error set, holding what was read until then, while any error before it comes back
as NULL after the cleanup, which also frees the caller's input stream. The number of constants
is kept in 16 bits and compared after it went round. When there is no memory for the
name of a label (`strdup` is not checked), the instruction has no label and no error is
reported; for a procedure the label manager follows the NULL. A label that is defined
again gets the later definition, for the uses before it too: the TODO at
`label-manager.c:112` wants that to be an error, and `LabelsResolve` will have to say so
when it is. The grammar in
`docs/grammar-description.md` makes the globals count optional (the code requires it),
allows a hexadecimal integer as an `int32` constant (the code reads decimal ones only)
and an empty list of constants (an error in the code), and lets a label definition stand
only before an instruction (the code takes it anywhere in the code segment, two in a row
or at its end included); the modules have what the code does.

*Emitter.* What the header says of the segments contradicts `docs/binary-format`, and what
is written behind it. `compute_constant_size` leaves out the type byte of every constant, and
the length and text of strings and characters, so the code of any program with a
constant is behind the place the header puts it (`constants_size`). A `global_set` takes
five bytes (`emitter.c:226` writes its local as an int16), where the document has 8 bits
of opcode and 24 of operands and `docs/instructions` gives the local 8; the header counts
four. The size of the code is written in bytes, where the document has it in instruction
blocks; the source marks that with a FIXME. `HeaderMisses` (section 4) says how far the
header is off for any program.

*Instruction words.* A jump of more than 24 bits is clamped, not refused
(`JumpClamps`); the register of a `global_ref` is not compared with the number of
registers when it is written.

## 4. Proofs

Checked with TLAPS (SMT, Zenon, LS4); nothing is taken on trust. Assumptions are the named
`ASSUME`s of the modules, which TLC evaluates.

*Registry.* `RegistryInv` strengthens the checked invariants by a live pool
having at least one entry: doubling none makes no room, and the capacity bound is
not inductive without it. `RegistrySafe` follows. For `RegistryImplementsMap`
(safety, for every set of names and sizes): `Find` is the bindings' value because
names are unique; growing does not change it; appending adds one binding
(`RegisterBindings`); so each action is a map step or a stutter (`MapStep`).

*Start-up.* `RuntimeInv` says that the registries are sane (distinct names, entries
within their pools, once a pool was there), that a set flag stands for names that are
registered, and so does a success remembered in `done`. It is inductive because of what
each call does to the registries, `Kept`: an initialized registry loses and replaces
nothing, and a half-done start of the types stays half-done; `Kept` is transitive, so
each init function is proved from the outcomes of the ones it calls (`InitErrorsOutcome`,
... `InitEvaluatorOutcome`). All rest on `SeriesOutcome`: what any list of registrations
leaves behind, whatever fails in it, by induction over the list. The sizes of the pools,
the host's names and the failing allocations (any set of them, not only the pairs TLC
tries) are arbitrary.

*Call frames.* The evaluator looks at nothing in the code it runs, so its promises are for
code that is well formed while it runs: `Spec /\ []CodeWellFormed => ...`.
`CodeWellFormed` speaks of the instruction at the code pointer only: it is there, with its
operands in their fields, the slots and registers it names exist, what it returns or makes
global is a value, its jump stays in the code, the words after a call hold its arguments, and
a procedure that calls another has one argument at most (`call_arguments` shows what becomes
of more). The
invariant `Inv` says that the saved stack pointers form a chain: frames one after the
other, each with room for its locals and its argument, each caller's frame as large as its
procedure needs (`IsChain`). `FramesIn`, the walk down the saved stack pointers, is
a recursive function whose existence is proved (`BelowExists`), and what it finds is the
chain (`ChainIsFrames`). Writing a slot, pushing and popping a frame are lemmas about chains
(`WriteSlot`, `PushFrame`, `PopFrame`); `Refinement` then shows each operation to be the one
of `Activations` on the records read off the frames. The instructions come through
`DecodeUndoesEncode`, so the refinement covers the encoding. Stacks of any size, procedures
with any number of locals, any depth of calls.

*Stack room.* The evaluator never compares the stack pointer with the size of its stack.
`FramesAreAdjacent` (the chain has no gaps) leaves the depth of the calls as the only thing
that uses the stack up, and `DepthBoundsStack` gives the room a call needs, by induction over the
frames: as many frames of the largest size as there then are, and its arguments. With that
room above the place where a run begins, the bound of the model is never what keeps a call
from being made. A failed run leaves the stack pointer where it is, so the next begins
higher.

*Checked code.* `CodeWellFormed` is of a run, not of a program. `CodePasses` is of the
program: facts about the slots at each place of a procedure, which every instruction hands
on to the places it goes to, about what registers can hold, and about the
number of arguments a procedure is given. `CheckedCodeIsWellFormed` proves that code which passes
with some facts is well formed whenever the evaluator gets to it, and
`CheckedCodeRunsSafely` then says all of the above of `Spec` alone. The invariant,
`CheckedInv`, is `Inv` with the facts being true (`FactsHold`) of the registers, the running
activation at its place, and each waiting one at the place it resumes at, whatever value it is
going to get; it is proved on the records of `Activations` by way of the refinement, operation by
operation. The repository makes no such check: a host that writes its own code, as those in the
repository do, has to see to it. That it can be met the instances show: all of their programs
pass, with the facts that `KnownIn` finds by going through the code once
(`ProgramsOfOneArgumentPass`), and the program of `call_arguments` does not with such facts
(`TwoArgumentsDoNotPass`).

*Induction.* The library's induction theorems take an operator as a parameter, which no
prover here can instantiate. `LeastNumber` and `Induction` (over the members of a set of
numbers, not over an operator) follow from the well-foundedness of `<`, and are what the
paragraphs on start-up and call frames use; the lexer's proofs use `LeastNumber`, for the
first place where a token stops.

*Output stream.* `StreamInv` adds to the checked invariants that buffered bytes
and those of an open file are the client's, so the file cannot be mistaken for
what was at the path before. `FlushOutcome` says what a flush leaves, whatever
`fwrite` takes; `InsertKeepsOrder` is associativity of appending. For `CloseDelivers`
the search in `IsSubsequence` is shown to succeed where there is an embedding
(`EmbeddedIsSubsequence`, by induction over the sequence searched), and embeddings survive what
flushes, partial or not, do to the file and the buffer; `FileHolds` is that invariant. Buffer
sizes, lengths, the numbers of bytes and of failures are arbitrary.

*Register machine.* `Inv` is type correctness, tags and the pc's place; it
is inductive since instructions are whole (`ProgramAssumption`). The invariant
needs `IntWrap` to keep the tag bits (`WrapKeepsTag`: the modulus is a multiple
of four). `ArithmeticIsExact` rests on four lemmas about the checks, one per
operation; the multiplication one uses that `a > bound \div b` and `a * b > bound`
are the same (`ProductExceeds`). `FailuresWriteNothing` is an action property of
the same invariant. The round trips hold for all operands in the fields' ranges;
`LoadInt4Truncates` says what others become, which no encoder refuses.
`RunsAreBounded`: a step of a run halts or moves on in the code, which is why runs end.

*Emitter.* `EmitterInv` is the stream's invariant with `AcceptedIsPrefix`: while a program
is being written there is no error and what was offered was accepted, so a refused piece is
the first byte missing. The stream's lemmas are used as they are (`WriteKeeps`), and
`EmittedStreamIsExact` keeps the stream's promise under this client. `HeaderMisses` is about
the sizes in the header, for every program: `SizesMissUnannounced` says that what an emission wrote
is the header, the bytes it announces, and those of `Unannounced`, which `docs/binary-format`
counts and the header does not. `EmissionCounted` says that what was written and what is
still to be written come to the total of the program's pieces; `ProgramTotal` adds that
total up kind by kind, by induction over the constants and over the code. Programs are
arbitrary sequences of constants and instructions; the header's sizes are unbounded where
the code has 32 bits, so programs of 4 GB are not covered.

*Bundles.* With `CleanMemory` (no word that was never written is a symbol) a bundle is the
record that was set: `CleanBundlesAreRecords`. Used slots come first and have distinct
symbols, and the others have none. The code does not see to that: `_find_slot`
(`bundles.c:158`) also looks at mapper entries nobody wrote, and `array.h:51` takes them from
malloc, where a freed stack or module may have left a symbol. When the first entry holds
`name` and `name` is set, it is found at slot 0, which is `next_slot`, and `next_slot` stays;
the next new symbol takes slot 0, and `name` is lost, although
`tests/suites/bundles.c:110` expects each of five symbols set to be got back. `Bundles` can
start from such memory (`Garbage`); no run does, and only the theorem is about it.

*Assembler.* `AssemblerInv` relates the pools with the history of the text:
`Labelled` (an instruction or procedure has the number of its name's label, numbers
are places in the pool and names are distinct up to case), `Meant` (a label's
definition is the last one read), `Counted` (everything begun is in a pool or in the
reader's hands), `Freed` and `Returned`. Labels used before they are defined, defined
twice or never, and in other cases, are all in `AssemblerResolvesLabels`.
`AssemblerAssumption` bounds the labels by what their numbers can tell apart, a
limit the source marks with a FIXME.

*Lexer.* The grammar looks at the whole text, the scanner at one character and its state, so
`LexerInv` says what the state knows of the characters consumed. Outside of texts it is the
form of the lexeme so far (`Reached`, kept by each entry of the state table:
`ReachedAppended`); in a text it is whether the last character is escaped, that is, ends an
odd run of backslashes (`EscapedNext`). At the end of a token the forms are the classes of
the grammar (`ClassOfState`, `FormsAreClasses`; `ClassIs` adds where the classes given are
not those documented), the grammar's cut is at the cursor (`ScansEnd`, `CutIs`), and what
fitted in the store gives the grammar's token, cut off or not (`ResultIs`). In blanks and
comments the invariant says that all that was skipped is blank, and a cached token is the
one the grammar has at its start (`CacheHolds`); with it each call is a look, a take, a drop
or a stutter (`StepImplements`). `CallsAreBounded` gives the measure by which each step of
the scanner brings the call nearer to its return (five steps a character left, and four),
and `TokensAdvance` that a token is at the end of the text or ends behind its beginning.
`OverrunsOnlyAtEnd` bounds the write past the buffer: by one place, and only where a text
longer than the buffer has been read to its end. Texts of any length, keyword and opcode
tables and buffer sizes are arbitrary; texts are made of the ASCII letters and digits, the
blanks and the marks the scanner knows (`Chars`), with `?` for every other character; other
white space is like the tab.

*Instruction words.* `DecodeUndoesEncode` has a case for each operation;
the jump is `JumpClamps`, from the splitting of a number in three bytes and the
two's complement of 24 bits.

Only model-checked, of the passing runs: `RunsEnd`, `CallsReturn`, `ReadersReachTheEnd` (liveness, out of
the provers' reach: their safety halves are `RunsAreBounded`, `CallsAreBounded` and
`TokensAdvance`, which leave to TLC that the steps are taken). Every other property of a
passing run is stated by a theorem.

## 5. Not modelled, and assumptions

- Growth of the assembler's pools, whose failure no error path reports, is assumed to
  succeed; the contents of texts and of real numbers; opening the files to read.
- Hosts that write registers or instructions of a module between its runs.
- Symbol pool, type registry, loader, `value.c`'s pointer tags (second experiment), byte
  streams (third) and the whole first experiment.
- Malformed code in either evaluator (jumps and operands out of range): the code
  checks none of it, and what happens then is undefined. `CheckedCode` says what a host
  of the second experiment's evaluator has to keep to.
- Calls deeper than the stack of the second experiment has room for.
- `n_error_ok` leaves two fields unset; nothing in the modelled code reads them
  for an error raised by `n_set_error`.
- The name registry keeps the caller's name pointers; hosts are taken not to free them.
- Message texts, and the names of errors where no lookup depends on them.
- `dlopen`, files, `malloc` beyond its success or failure.

## 6. Plan

1. Done: the fourth experiment; the calls, instruction words and bundles of the
   second; lexer, assembler, emitter and output stream of the third.
2. Second experiment: `SymbolPool` over `ResizableArray` with failing `realloc`; hosts
   that write modules between runs.
3. Third experiment: byte streams, the growth of the assembler's pools.
4. First experiment: `resizable_stack.h` and its evaluator.
5. Proofs: of what the items above add. Those of the present modules are done,
   but for liveness (section 4).
