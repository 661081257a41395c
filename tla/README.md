# A verification of witx-bindgen

witx-bindgen generates Rust bindings from WITX interface descriptions, for WebAssembly guests
(`gen-rust-wasm`) and for hosts that embed wasmtime (`gen-wasmtime`). Generated code leans on two
small runtime crates, `crates/wasmtime` on the host's side and `crates/rust-wasm` on the guest's.
That runtime is where state lives, where Rust's ownership is checked at run time instead of by
the compiler, and where host and guest call each other in ways no single test exercises. It is
what this project models first; then the generators, and what the two sides they generate do together.

Paths below are relative to `src/`.

## 1. Inventory

| component | state | operations | talks to |
|---|---|---|---|
| borrow checker, `crates/wasmtime/src/region.rs` | two maps from handle to region, the next handle | `shared_borrow`, `mut_borrow`, the two unborrows, three questions | guards of `ptr.rs`, buffers of `imports.rs` |
| guest pointers and memory, `ptr.rs`, `memory.rs`, `lib.rs` | none of their own; guards hold a handle and a raw pointer | `borrow`, `borrow_mut`, drop, `validate_size_align`, `base` | borrow checker, the wasmtime memory |
| buffers of imports, `imports.rs` | offset and length of what is left of an `OutBuffer`; an iterator's position and handle | `InBuffer::iter`, `next`, drop; `OutBuffer::write` | borrow checker; through generated closures the guest's allocator |
| resource table, `table.rs` | slots, free list, `active_borrows`, `access_idx` | `insert`, `remove`, `access`, `get`, drop of an access | generated imports, the host's functions |
| buffers of exports, `exports.rs` | two slabs of raw pointers into the frames of wrappers | transaction: push, drop; intrinsics `in_len`, `in_read`, `out_len`, `out_write` | generated wrappers, the guest; through shims the guest's allocator |
| guest runtime, `crates/rust-wasm` | a handle per buffer; scratch and storage | `witx_malloc`, `witx_free`, the buffer types | the intrinsics |
| type analysis, `crates/gen-core` | flags per type, the set of destructors; kept from module to module | `analyze`, `get` | both generators |
| type printing, `crates/gen-rust` | none but the output | printing of names, ownership modes, casts | both generators |
| host generator, `crates/gen-wasmtime` | output, stack of blocks, closures, one pending cleanup, what the function and the file need | `import`, `export`, `emit`, `finish` | `witx`'s instruction stream |
| guest generator, `crates/gen-rust-wasm` | output, stack of blocks with their cleanup, traits | the same | the same |
| macros, command line | one generator | `generate`, module by module | the generators |
| tests | | input and output | |

How they interact. An *import* is a host function the guest calls. The generated closure turns the
guest's integers into `GuestPtr`, `InBuffer`, `OutBuffer` and table references and calls the host
function, which may borrow guest memory (through the one `BorrowChecker` of the host's state) and
may call the guest's exports. An *export* is a guest function the host calls. Its wrapper lowers
the arguments (calling the guest's `witx_malloc`), hands out buffers by handle (`BufferGlue`), and
calls the guest, which calls the intrinsics and imports. So host and guest frames alternate to any
depth, one thread, each side able to leave by a trap, and the host by a panic.

What is hard, then, is not threads but *re-entrancy*: state read before a call back into the guest
and used after it, a guard or pin given back too early, too late or twice, an early return between
acquiring and releasing, integers that name things which are recycled, and arithmetic on 32-bit
addresses. `PROJECT.json` lists each such hazard at its line.

What makes each component correct: borrows never alias and are exactly as restrictive as needed; an
import gives all of its borrows back and the guest does not run under them; an item stays in the
table while it is referenced, and no longer; a buffer handle is valid for exactly its call, and
what the guest is told is there, is there; the analysis' flags are reachability; every generated
function has what it needs declared, and frees what it allocated.

## 2. Modules

| module | models | |
|---|---|---|
| `Region` | `Region`, `overlaps` | pure |
| `ByteLocks` | a readers/writer lock per byte | abstract specification |
| `BorrowChecker` | `region.rs`, and `Borrow`/`BorrowMut` of `ptr.rs` as its clients | implements `ByteLocks` |
| `ImportCall` | the values an import works with, the guest and its memory | composes with `BorrowChecker` (`BC == INSTANCE BorrowChecker`) |
| `HandleTable` | a map, and a stack of accesses that hold items | abstract specification |
| `Table` | `table.rs` | implements `HandleTable` |
| `BufferGlue` | `exports.rs`, with the stack of host and guest frames | |
| `TypeAnalysis` | `Types` of `gen-core`: `analyze`, over modules in a row | |
| `TypePrint` | names, modes and lifetimes of `gen-rust` | operators over the state of `TypeAnalysis` |
| `GenWasmtime` | the state of the host generator | fed with any instructions |
| `GenRustWasm` | the state of the guest generator | fed with any instructions |
| `Generators` | command line and macros: one of the two generators, several modules | composes with both (`INSTANCE`) |
| `ListOwnership` | the generated wrappers of both sides in one call, and the guest's allocator | |
| `HandleLife` | resources named by handles, in both directions, across nested calls | composes with `Table` (`T == INSTANCE Table`) |
| `MC*` | the instances TLC checks | |
| `BorrowCheckerProofs`, `ImportCallProofs`, `TableProofs`, `HandleLifeProofs`, `BufferGlueProofs`, `GeneratorsProofs`, `ListOwnershipProofs`, `TypePrintProofs` | | theorems about the modules they are named for; the last also about `TypeAnalysis` |

**BorrowChecker.** `shared_borrows`, `mut_borrows` and `next_handle` are the fields of
`InnerBorrowChecker`; the maps are partial functions. The checker only sees handles, the
references are in the guards; so the guards are state as well (`guards`: handle, region, mutable
or not), and the properties relate the two. One action per outcome: a borrow granted, refused
(`PtrBorrowed`), failed for want of handles (`OutOfHandles`), granted and taken back in its mode because a
`str` is not UTF-8 (`BorrowNotUtf8`), and the two drops.

**ImportCall.** One host function with a pointer, an in-buffer and an out-buffer as parameters,
called again and again. `owner` says which value each live borrow belongs to and where the memory
was when it was made; a borrow of role `"nobody"` is one no value is left to return. `phase` says
who runs. `OutBuffer::write` is taken apart into its steps (`Write`, `WriteItem`, `WriteAlloc`,
`WriteFails`, `WriteReturns`), since the guest runs in between. Two facts about the interface and
the guest are fixed for a behaviour: `allocates` (an item of the out-buffer owns a list, so that
serializing it calls `witx_malloc`), and `in_bounds` (the guest passes out-buffers inside its memory).
The host function is assumed to follow the docs: it drops its borrows before it calls an export
(`Reenter` asks `has_outstanding_borrows`), and Rust's lifetimes see to it that values made from
parameters are gone when it returns (`Return`). An `InBufferIter` is read item by item (`IterNext`), also
from within a `write`. Items have i32 addresses that wrap, and `load` and `store` sign-extend
them (`Accessible`): items in the upper half of the address space cannot be read or stored, though the borrow checker
lends them out. Wrapping is what builds without overflow checks do; the others panic.

**Table.** The variables are the fields of `Inner`; `accesses` holds the open `Borrows` values, and
with each the references obtained from it. `nested` is fixed for a behaviour: generated code gets
all of an access' references before it calls the host function and drops the access when that
returns, so only the innermost access is used; safe Rust may do anything. An `Insert` whose index
does not fit a handle (`InsertPanics`) and a drop out of order (`DropPanics`) keep what the code
had done before the panic.

**BufferGlue.** `stack` is the stack of frames. The frame of a wrapper owns its transaction (the
list of handles) and the host data the slabs' raw pointers point to: `rest` is how many items the
slice or iterator still has, or how much room the vector had. `in_read` and `out_write` have frames while their
shims run, because an item's serializer may call the guest. A trap leaves frame by frame; `in_read`
still subtracts what it processed; a wrapper turns it into an `Err`, as it does when its own lowering or
lifting fails (`WrapperFails`). A panic leaves through all frames; the drop
of a transaction that finds the `RefCell` borrowed panics, and aborts if that is during a panic.
`runtime` is fixed for a behaviour: a guest built on `crates/rust-wasm`, whose buffer types live no
longer than the exported function and whose allocator calls nothing, or any guest at all.

**TypeAnalysis, TypePrint.** A module's types are a graph, `def`, in the order of their definition; a node may have a
name. `type_info` and `handle_dtors` are the fields of `Types`. The first loop of `analyze` is `AnalyzeType`, one name a step;
the second takes a function (`AnalyzeFunc`), whose recursion through `set_param_result_tref` and
`_ty` is a stack of calls still to make (`work`), and ends with `maybe_set_dtor`. `NextModule` keeps `Types`, as
`generate` does. `roots` is history: what the functions really use. When a module is analyzed, `TypePrint` computes what
both generators, in each of their default modes, print for it: `Definitions`, each with a name, a lifetime or none and the
references in its body, and the references in `Signatures`.

**GenWasmtime, GenRustWasm, Generators.** Both generators are machines that witx's interpreter feeds with
instructions. The variables are their fields, except that text is abstracted to what it mentions:
in the host's, the names it uses (`src`) and the declarations in front of it, in order (`let`, `uses`); in the guest's,
the variables declared and used at one level, the lists allocated and how they are freed. An
instruction is an action `Emit`, with the names its text uses, how many blocks it takes and what it
notes in `needs_*`; `EndImport`, `EndExport` and `finish` turn notes into declarations. Any instruction may follow any other of its call mode, which is more
than witx does. `Generators` chooses one generator and import or export, once.

**ListOwnership.** One call, import or export, of a function with lists. `todo` is what is left of both wrappers, as a
sequence of instructions in the order in which the generated code runs them: nested lists are lowered outside in, since the block of a list
stores into it, and freed inside out. `heap` is the guest's allocator, `owned` the vectors its safe
Rust code has, which may drop them, make new ones or pass them on (`NewVec`, `MoveVec`, `DropVec`). `Fail` is an early return of the host's
wrapper or a trap of the guest, anywhere.

**HandleLife.** Host and guest frames alternate on `stack`. A resource of the host is an item of a `Table`, whose variables are
here too; `wrapped` are the guest's structs of its type, each with the item it was made for. An import opens an access (`CallImport`), gets its arguments
(`GetArg`), runs, inserts its result (`LowerResult`) and drops the access, as its closure does; the destructor removes
the item (`CloseHost`). A resource of the guest is one of `boxes`, and `exported` are the host's structs. Every call may fail, with a trap
that drops nothing of the guest's, and a host function may panic (`Unwind...`); a destructor that is
called as part of the unwinding lets it go on when it ends, whatever its end (`Resume`). Rust lets neither side close what it has lent
to a call. `safe` is fixed for a behaviour: a guest in safe Rust, or one that passes and closes any integers, as the tests
`invalid_handle` and `invalid_handle_close` do. `UsesTableNested` discharges what `Table` assumes of nested use.

## 3. Runs

| run | shows | bounds |
|---|---|---|
| `borrow_checker` | no aliasing, exact refusals, tables true of guards, unique handles, refinement of `ByteLocks` | addresses and lengths 0..2: empty, adjacent, nested, overlapping regions, and such that end beyond the last address; three handles, so they run out and start again |
| `table` | free list, counts, stacked accesses for any use; pins kept and refinement of `HandleTable` for nested use | three items for two handles (full, recycled, panicking inserts), three open accesses, two gets at a time (one item twice, one access or two) |
| `table_stale_access` | *violation*: outside nested use, a pin is lost | two of each suffice |
| `buffer_glue` | handles owned by live frames, free lists, raw copies in bounds, counts backed; lengths exact and no panic for runtime guests | six frames (a call nested in a call and an intrinsic; an allocator that calls an export; an export called under `out_write`), two buffers in all, two items each at first (a read can be split, and fail at the first or second; buffers of one and of no item remain) |
| `import_call` | reads and writes inside what is borrowed, use of the borrow checker as specified (hence no aliasing); borrows returned where items neither fail nor allocate, references current where none allocates | five addresses, the upper two of which are negative as i32; items of two bytes, buffers of none, one or two items, in or out of bounds, wrapping past the last address, overlapping each other and the pointer or not; the memory grows until it is all that can be addressed, and moves once; handles run out |
| `import_call_leak` | *violation*: a failed write leaks its borrow | the same |
| `import_call_reenter` | *violation*: the guest is called under a borrow | the same |
| `type_print` | flags are reachability; every reference has one definition and its generics | graphs of three types, named or not, without buffers of buffers (which the tests leave out too); two modules; two roots (parameters or results, in one function or two) |
| `generators` | names declared before use, nothing left for the next function, lists freed once | three instructions in all, two blocks (nested, side by side), two functions, two modules, two handle types |
| `list_ownership` | frees match, nothing read after free, everything freed in the end | one parameter and two results; lists of bytes and u32, of up to two lists, empty ones included |
| `list_lengths` | *violation*: a lifted list is too long | the same |
| `handle_life` | handles resolve, can be closed, and are closed once; nothing is lost without a failure; tables are used nested | two items for two indices, two objects for two addresses (both recycled); six frames; three references at once |

Every variable is finite by the code's own limits or by a bound named in a guard: `MaxAccesses`,
`MaxBorrows`, `Lengths`, `MaxBuffers`, `MaxDepth`, `MaxLen`, `MaxBase`, `MaxSize`, `MaxModules`, `MaxRoots`, `MaxInsts`, `MaxBlocks`,
`MaxFuncs`, `MaxParams`, `MaxResults`. Why they are enough: every
property relates at most two guards, accesses, buffers or frames of a kind, and the instances have
room for two and for a third party that interferes. Three types are a chain through a name and an anonymous type, or two
paths to one; a wrong mark, name or lifetime is passed on from one type to the next, so a longer chain repeats a step. An instruction's notes matter
to itself, to a block around it and to the next function: three instructions and two functions have each of these. Numbers of 32 and 64 bits become `U32Max` and `UsizeMax`,
kept as the places where the code checks for the end of the range.

One property is a liveness property: `Freed`, everything allocated for a call is freed in the end, or a step fails. It is checked
under `WF_vars(Step)`: the one thread that runs the wrappers goes on, and the guest's functions end. Nothing else runs in between, the
code has no loop or wait that another party must end, and `Fail` is under no fairness. Elsewhere no fairness is assumed: that handles
run out only while a guard is held (`RefusalsExact`), and that a `close` by safe code is never refused (`ClosesSucceed`), are stated as invariants.
Deadlock is checked except in `generators` and in `list_ownership`, where modules and calls come to an end, and in `handle_life`, where a second panic aborts the process.

Each property has a mutant: a definition changed as a plausible bug would change it (the operators
`X_How` beside the definition `X`), under which TLC finds the property violated.

### What disagrees

1. `Borrows::drop` drains every `get` since its access began, those of outer accesses too; the doc
   of `get` (`table.rs:129`) promises more. Generated code never does this: it is why `Table`
   tells `nested` use apart.
2. `OutBuffer::write` leaks its borrow when an item cannot be serialized (`imports.rs:136`). The
   region stays borrowed for as long as the host's state lives, and `has_outstanding_borrows` stays true.
3. An `OutBuffer` of items that own lists calls the guest's allocator under its own borrow, against
   the docs of `BorrowChecker` and `GuestMemory`. The allocator may grow the memory; a host reference
   made from another parameter is stale then. (`PointersCurrent` holds only without `allocates`.)
4. The length of a list lifted from an export's result is set in bytes (`copy_slice`, `gen-wasmtime/src/lib.rs:202`): for items larger
   than a byte it exceeds the vector's capacity. The memory itself is freed with the right size (`FreesMatch`).

Noted on the way, without a run: the shim of `in_read` takes for granted that the iterator has the items it was granted
(`wasmtime/src/exports.rs:223`); it does not when the same buffer is read from within the shim, which the runtime's own guests never do. `base()` reports a memory of exactly 4 GiB as empty (`lib.rs:37`);
the doc of `GuestMemory::mut_borrow` says `is_mut_borrowed` is *false* for overlapping regions
during a borrow (`memory.rs:128`), where true is meant. After an item of an `InBuffer` that
could not be read, the addresses of the next ones may have wrapped to the beginning of the memory,
outside what the iterator has borrowed (`ReadsCovered` holds up to the first failure). A list without items that a guest returns is
freed by the host although its pointer dangles, and one that is passed to it is allocated with size 0 and never freed (no bytes leak); the guest's `ListLift` frees with an
alignment of 8 whatever it was allocated with. Lists and return space are not freed when a wrapper fails. A
host function that panics while the guest's destructor runs under `close` (`gen-wasmtime/src/lib.rs:409`) makes it run a second time, on a
box already moved out of: `forget` comes after the call. (`BoxesLive` leaves panics out; without that it is violated.) A host handle does not say which instance it belongs to, and
a method of another instance takes it. An alias of a handle is printed
with names and generics the handle does not have, and the items of an out-buffer as owned where only a borrowed definition exists: `NamesDefined` and
`GenericsMatch` leave such modules out (`HandleAliased`, `BorrowedOutItems`). `Wasmtime::import` never clears `needs_functions`, so that later
imports look up functions they do not need; `RustWasm::finish` prints the traits of earlier modules again; `handle_dtors` keeps
the destructors of earlier modules. The doc of `BorrowChecker::new` speaks of
`GuestPtr::read` and `write`, which do not exist, and generated loads and stores do not ask the checker.

## 4. Proofs

TLC finds the properties true on small instances; the theorems below hold for every value of the constants. Each proof
module follows one plan: an invariant `IInv`, of named parts, that every action preserves by a lemma of its own; each part
was first given to TLC on the run's instance.

**BorrowCheckerProofs.** `TypeOK`, `GuardsTracked`, `HandlesUnique`, `NoAliasing`, `RefusalsExact`, and that `BorrowChecker` implements
`ByteLocks`, for every `U32Max` and every `UsizeMax` greater than 0. `NoAliasing` speaks of guards and is not inductive: a borrow is
decided by what the tables say. `IInv` adds what ties them: the guards are exactly the entries of the two tables, the
tables share no handle, and, when anything is outstanding, every handle in use is below `next_handle`. The last
conjunct is why a fresh handle is fresh although handles start again at 0 (`FreshHandleIsFresh`), and so why an insertion
never replaces an entry and a drop removes its own guard only. `OverlapsIffCommonByte` says that `overlaps` answers whether two
regions have a byte in common, for regions of any length, empty ones included. The refinement
maps each step to an `AcquireShared`, `AcquireMut` or `Release` of `ByteLocks`, or to a stutter (a refusal, or a borrow of no bytes).

**ImportCallProofs.** `UsesBorrowChecker` (every step of an import is a step of `BorrowChecker` or leaves it alone), hence the checker's own
invariant, which is cited (`BCP == INSTANCE BorrowCheckerProofs`) and not proved again; then `TypeOK`, `WritesStayInside`, `ReadsCovered`,
`SafeBorrowsReturned`, `PointersCurrent`. The parts of `IInv` say who owns each borrow and what its owner knows (`OwnersFine`: which
phase it can live in, the region of an iterator and the next item in it), that there is one write at a time (`OneWriter`, without which
the end of a write could give back another one's borrow), that the guest called for an export finds nothing borrowed, and that an
out-buffer inside the memory has items that can all be stored (`OutAccessible`). Assumed of the constants: an item has a
size, and its double fits an address (generated code passes sizes as i32, `imports.rs:9`); the parameters are regions
and buffers of the address space, of any number, size and place (`ArgsAssumption`). Addresses still wrap.

**TableProofs.** `TypeOK`, `UsesCounted`, `AccessesStacked`, `FreeListComplete` for any use, `NestedBorrowsStay` and the refinement of
`HandleTable` for nested use. A free list is not an invariant a step can be checked against as long as it is a walk: `FreePath` says that there is
a path from `next` to the end of the vector, without repetition, through every empty slot. An insertion takes its first step off, a removal
puts one in front; that the recursive `FreeList` walks that path is shown afterwards, once. `NestedBorrowsStay` needs that each reference is listed where no later
access' drop can reach it (`RefsListed`), and that accesses have the index of their place on the stack
(`IndicesArePlaces`), so that the innermost one drains exactly its own tail. `Table`'s counts are of occurrences in a sequence: what they
become when it is appended to or cut is `OccurrencesAppend` and `OccurrencesSplit`.

**HandleLifeProofs.** `UsesTableNested`, `HandlesResolve`, `ClosesSucceed`, `BoxesLive`, `NothingLost`. Neither the wrappers nor the table can be proved
first: the table keeps an item because it is used nested, and the wrappers use it nested because their items are there. So the invariant is joint, `IInv /\ TP!IInv`
(`TP == INSTANCE TableProofs`), and a step of the wrappers is first shown to be a step of the table. The accesses open are those of the import
frames on the stack, in order (`AccessesOfImports`), what is pinned is pinned by an argument of such a frame
(`BorrowsOfImports`), handles that are passed resolve, and two frames never close the same box. Assumed: the value for an unknown
item is no item, and `"moved"` is no object.

**BufferGlueProofs.** `TypeOK`, `HandlesOwned`, `FreeListsComplete`, `RawInBounds`, `ReadersBacked` for any guest; `LenIsAvailable` and `NeverPanics` for one
on the runtime; for buffers of any number and length and stacks of any depth. `Base` is what holds for any guest: both slabs' free
lists are paths, entries and the buffers of the wrappers on the stack name each other (`Owned`), what an iterator still has and what
the frames of `in_read` have taken of it is no more than `len` (`IterBacked`: several frames may read one iterator, so
this is a sum over the stack), a shim's frame lies above its buffer's wrapper, so that the entry is there when it returns
(`ShimsFine`), and above `out_write` nothing is passed (`LockKept`: a transaction whose drop would find the lock has no handles).
`RuntimeFine` is what a guest on the runtime adds: at most one shim, at the top, of the call just below it, and how far its buffer's `len` is
off until it returns (`ShimsExact`); all other lengths are exact (`LenExact`), except those of the innermost wrapper
when a trap is about to leave it, which drops them. Assumed: `Lengths` are naturals, the bounds are naturals.

**GeneratorsProofs.** `NamesDeclared`, `NothingLeftOver` and `CleanupComplete`, for any number of instructions, blocks, functions, modules and
handle types. In the host's generator (`HostInv`) the notes and the text that needs them are made at one time and turned into declarations at another, by
`EndImport` and `EndExport`; `Known(n)` is what ties them: the names that the notes so far will have declared, and
those of the first `n` closures. All text uses known names only (`TextsKnown`), a closure those of the closures in front of it (`ClosuresKnown`). Within a function notes are only
added (`Noting`), so that what is known stays known (`KnownGrows`); what the file will provide stays provided when later
functions end (`ModuleNoting`, `ProvidedGrows`). The end of a function is then a fact about texts in a row, each declaring for the next (`ConcatDeclared`), where
sets of declarations come in any order (`AnyOrder`). In the guest's (`GuestInv`) each list that an unfinished text allocates is freed by it, is still in the cleanup of its level, or
is on the list that a loop extends (`TextFine`); what the levels still have to free is disjoint (`LevelsApart`), since results are
numbered anew, so that no list is freed twice. Assumed: nothing.

**ListOwnershipProofs.** `FreesMatch` and `ReadsLive`, and that no memory is accounted for twice (`HeldOnce`), for one call with any number of lists of any
types, items and lengths, and any safe Rust in the guest. A first part (`FlattenOrdered` to `ImportWrappersAre`) is about the wrappers alone: they hold every instruction once, in the
order of their kinds (`Place`), so that when it is the turn of one, none of an earlier kind is left (`Taking`, `NotDue`).
`IInv` then says who accounts for a list's memory: a vector that the guest owns, or the wrappers, from the instruction that makes it to the one that takes it
over (`Held`, `Passed`). It is there with its size, unless the list is empty, and no two lists that are held share it (`Accounted`). `Prepared` is what
the guest's function leaves for the instructions after it, and `OwnedFine` that what a vector owns nobody else is to take over: without it, the
guest might drop what the host frees. `FreesMatch` alone is not inductive: it speaks of the free that was refused, not of the next one. Assumed: an item has a size, what
a list's items own are canonical lists, one for each item (`ListsAssumption`).

**TypePrintProofs.** `MarksExact`, `InfoExact`, `NamesDefined`, `GenericsMatch`, for every graph of types, functions of any number and order, and any
modules before. In the middle of `set_param_result_tref` the marks are exact in neither direction. `IInv` says what
they are then (`Marked`): there is a set `E` of types that have been *entered*, of which the named ones are those with the mark, and whatever a type in `E` refers
to is in `E` or `Pending`, the target of a call still to be made. What is marked or pending is reachable all along; when no call is left, `E` is closed, and so
holds everything reachable (`NothingPending`). That marking stops at a name with the mark is safe because the name is in `E`; anonymous
types are entered each time they are met. `Known` says that before the cursor of the first loop each name has exact flags (`Exact`: those of the kinds it
contains) and no mark of an earlier module, which is what makes `type_ref_info`, that looks names up, right
for the next one, although beyond the cursor entries of an earlier module remain. `DtorsFound` is the same of destructors. Graphs are well-founded by the order of
definition; `Recursion` derives from it that a recursive function over types satisfies its equation, once for `type_ref_info`, `AllBitsValid`, `type_` and `print_tref`.

What is printed is then a matter of operators, on a state in which analysis is done (`Analyzed`). A reference comes from a name inside the type it is printed for
(`TrefFrom`), printed in the same mode, unless it owns nothing or is below an out-buffer, whose items are printed as owned (`PrintedFor`). The name is marked
for that mode (`MarkedBelow`), and so has a definition in it; that there is no second definition of the same name is `NamesApart` with `DefinitionCases`. A lifetime is used only if the type
contains what lends in the mode (`TrefLends`), which is what `lifetime_for` reads off the flags (`LifetimeExact`). `OneDefinition` puts this together; its
one hard case is a type with a single name that is used in both modes: `uses_two_names` must have left it single because it has no lifetime in either. It rests on results
holding no buffers, where `print_buffer` panics: under `HandlesBorrowed`, a buffer in a result would have a lifetime and one name. Assumed: types come after the types
they refer to, lists, buffers and aliases refer to exactly one, both ends of an alias are named, and no number is a builtin type (`TypesAssumption`).

The library's induction theorems take an operator as parameter, which the provers do not. `NaturalsIn`, at the head of each module that needs it, is induction over a *set* of naturals,
from the well-foundedness of `<`; with it a recursive function over the naturals can be unfolded (`FreeListUnfolds`, `FreeIndexUnfolds`, `Recursion`).

Every safety property of a passing run is a theorem. Only model-checked: `Freed`, since liveness under fairness and `ENABLED` are beyond the prover. The four violations are TLC's
counterexamples.

## 5. Not modelled

Alignment, the conversions between types of `GuestPtr`, and the storage and scratch space of the guest's own buffer types, which
follow Rust's borrows. The text of types and of records, derives, docs and casts: strings that rustc
reads, with no state behind them; of it only names, lifetimes and modes are modelled. The error type and the parsing of options and files. Handles without a destructor, which
are never closed (`test-wasmtime/src/exports.rs:25` expects the leak), and handles of one instance given to another.
`witx` and wasmtime are external; where their behaviour matters (memory growth, traps, the order of
instructions), it is an action or an operator marked external in `PROJECT.json`.

## 6. What could come next

Buffers inside buffers of an export (`gen-wasmtime/src/lib.rs:1400`), which no test uses and `BufferGlue` leaves out; alignment, as a second number of every
region and allocation; pointers among the types of `TypeAnalysis`.
