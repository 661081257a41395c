---------------------------- MODULE GenRustWasm -----------------------------
(***************************************************************************)
(* The generator of guest bindings as a machine that is fed instructions   *)
(* (crates/gen-rust-wasm/src/lib.rs), in the style of GenWasmtime.  What   *)
(* is at stake here is memory: a list that is lowered for an import is     *)
(* allocated by the wrapper and has to be freed by it, after the call.  At *)
(* the top of the function Return frees it; in a block, where its name     *)
(* will be out of scope by then, the end of the block puts it on a list.   *)
(*                                                                         *)
(* A text is abstracted to the variables it declares at its own level, the *)
(* variables it uses, the allocations it is left with and how these are    *)
(* freed; a block's text is kept the same way until it is used.            *)
(***************************************************************************)
EXTENDS Integers, Sequences, SequencesExt

CONSTANTS
    HandleType,   \* names of handle types
    Dtors,        \* those of them that have a destructor
    MaxInsts,     \* bound: instructions in all
    MaxBlocks,    \* bound: blocks that are open or wait to be used
    MaxFuncs,     \* bound: functions of a module
    MaxModules    \* bound: modules

VARIABLES
    in_import,           \* what the generator was made for
    phase,               \* between modules, between functions or in one
    src,                 \* the text of the current block
    cleanup,             \* what the current block is to free
    block_storage,       \* both, of the blocks around it
    blocks,              \* the text of the blocks finished and not yet used
    needs_cleanup_list,
    is_dtor,
    handles_for_func,
    traits,              \* per module, the handles its trait declares
    tmp,                 \* numbers variables
    funcs,               \* the text of the module's functions
    file,                \* what finish has put out last
    insts, done, modules \* how many instructions, functions, modules

text == <<src, cleanup, block_storage, blocks, needs_cleanup_list>>
made == <<traits, funcs, file>>
vars == <<in_import, phase, text, is_dtor, handles_for_func, tmp, made, insts, done, modules>>

Empty == [declares |-> {}, uses |-> {}, allocates |-> {}, frees |-> {}]
NoFile == [funcs |-> {}, traits |-> {}]

\* Variables: the numbered results, and the list of what is still to be freed.
Result(n) == [name |-> "result", number |-> n]
CleanupList == [name |-> "cleanup_list", number |-> 0]

\* One text after the other, and the n last blocks, each in braces.
Then(t, u) == [field \in DOMAIN t |-> t[field] \cup u[field]]
InBraces(n) ==
    LET last == {blocks[i] : i \in (Len(blocks) - n + 1)..Len(blocks)}
    IN  [Empty EXCEPT !.uses = UNION {t.uses \ t.declares : t \in last},
                      !.allocates = UNION {t.allocates : t \in last},
                      !.frees = UNION {t.frees : t \in last}]

Init ==
    /\ in_import \in BOOLEAN
    /\ phase = "module"
    /\ src = Empty /\ cleanup = {} /\ block_storage = <<>> /\ blocks = <<>>
    /\ needs_cleanup_list = FALSE /\ is_dtor = FALSE
    /\ handles_for_func = {} /\ traits = {}
    /\ tmp = 0
    /\ funcs = {} /\ file = NoFile
    /\ insts = 0 /\ done = 0 /\ modules = 0

\* The start of generate.
preprocess ==
    /\ phase = "module" /\ modules < MaxModules
    /\ phase' = "between"
    /\ modules' = modules + 1 /\ done' = 0 /\ file' = NoFile
    /\ UNCHANGED <<in_import, text, is_dtor, handles_for_func, tmp, traits, funcs, insts>>

\* The start of import and export.
BeginFunc(dtor) ==
    /\ phase = "between" /\ done < MaxFuncs
    /\ dtor => Dtors # {}
    /\ phase' = "func" /\ is_dtor' = dtor
    /\ UNCHANGED <<in_import, text, handles_for_func, tmp, made, insts, done, modules>>

-----------------------------------------------------------------------------
(* impl Bindgen.                                                           *)

push_block ==
    /\ phase = "func" /\ insts < MaxInsts
    /\ Len(block_storage) + Len(blocks) < MaxBlocks
    /\ block_storage' = Append(block_storage, [src |-> src, cleanup |-> cleanup])
    /\ src' = Empty /\ cleanup' = {}
    /\ UNCHANGED <<in_import, phase, blocks, needs_cleanup_list, is_dtor, handles_for_func,
                   tmp, made, insts, done, modules>>

\* cleanup_list.extend_from_slice with all that is to be freed.
Extend == [Empty EXCEPT !.uses = cleanup \cup {CleanupList},
                        !.frees = {<<r, "by the list">> : r \in cleanup}]

\* Mutant: what the block is to free is left to the block around it.
finish_block_Outward ==
    /\ phase = "func" /\ block_storage # <<>>
    /\ blocks' = Append(blocks, src)
    /\ src' = Last(block_storage).src
    /\ cleanup' = cleanup \cup Last(block_storage).cleanup
    /\ block_storage' = Front(block_storage)
    /\ UNCHANGED <<in_import, phase, needs_cleanup_list, is_dtor, handles_for_func, tmp,
                   made, insts, done, modules>>

finish_block ==
    /\ phase = "func" /\ block_storage # <<>>
    /\ needs_cleanup_list' = (needs_cleanup_list \/ cleanup # {})
    /\ blocks' = Append(blocks, IF cleanup = {} THEN src ELSE Then(src, Extend))
    /\ src' = Last(block_storage).src
    /\ cleanup' = Last(block_storage).cleanup
    /\ block_storage' = Front(block_storage)
    /\ UNCHANGED <<in_import, phase, is_dtor, handles_for_func, tmp, made, insts, done, modules>>

\* An instruction that appends text, with the last n blocks in it.
Emit(t, n) ==
    /\ phase = "func" /\ insts < MaxInsts /\ insts' = insts + 1
    /\ Len(blocks) >= n
    /\ src' = Then(Then(src, InBraces(n)), t)
    /\ blocks' = SubSeq(blocks, 1, Len(blocks) - n)
    /\ UNCHANGED <<in_import, phase, block_storage, needs_cleanup_list, is_dtor, made,
                   done, modules>>

Text(t, n) == Emit(t, n) /\ UNCHANGED <<cleanup, handles_for_func, tmp>>

\* Conversions, records, space on the stack; loads and stores; the call.
Plain == Text(Empty, 0)
LoadStore == Text(Empty, 0)
CallWasm == in_import /\ Text(Empty, 0)
CallInterface == ~in_import /\ Text(Empty, 0)

\* A canonical list stays the caller's during an import, and is given away by
\* an export; one that is received becomes a Vec.
ListCanonLower == Text(Empty, 0)
ListCanonLift == Text(Empty, 0)

\* The blocks of the cases; of an enum they are empty, and may be dropped.
VariantLower == Text(Empty, 2)
VariantLift == Text(Empty, 2)

\* A list given to the caller of an export is the caller's; one passed to an
\* import is the wrapper's.
ListLower ==
    LET result == Result(tmp)
        owned == IF in_import THEN {result} ELSE {}
    IN  /\ blocks # <<>>
        /\ Emit([Empty EXCEPT !.declares = {result}, !.allocates = owned], 1)
        /\ cleanup' = cleanup \cup owned
        /\ tmp' = tmp + 1
        /\ UNCHANGED handles_for_func

ListLift == Text(Empty, 1)

\* Items that are raw bytes need no block; others are put in a closure.
BufferLowerPtrLen(raw) ==
    /\ in_import /\ blocks # <<>>
    /\ raw => Last(blocks) = Empty
    /\ Text(Empty, 1)

BufferLiftHandle(raw) ==
    /\ ~in_import /\ blocks # <<>>
    /\ raw => Last(blocks) = Empty
    /\ Text(Empty, 1)

\* An export's handles are types of its trait.
I32FromOwnedHandle(h) ==
    /\ ~in_import
    /\ Emit(Empty, 0)
    /\ handles_for_func' = handles_for_func \cup {h}
    /\ UNCHANGED <<cleanup, tmp>>

HandleBorrowedFromI32(h) ==
    /\ ~in_import
    /\ is_dtor => h \in Dtors
    /\ Emit(Empty, 0)
    /\ handles_for_func' = handles_for_func \cup {h}
    /\ UNCHANGED <<cleanup, tmp>>

\* The last instruction.
Return ==
    LET loop == IF needs_cleanup_list THEN {CleanupList} ELSE {}
    IN  /\ phase = "func" /\ block_storage = <<>> /\ blocks = <<>>
        /\ src' = Then(src, [Empty EXCEPT !.uses = cleanup \cup loop,
                                          !.frees = {<<r, "here">> : r \in cleanup \cup loop}])
        /\ cleanup' = {}
        /\ phase' = "returned"
        /\ UNCHANGED <<in_import, block_storage, blocks, needs_cleanup_list, is_dtor,
                       handles_for_func, tmp, made, insts, done, modules>>

-----------------------------------------------------------------------------
(* impl Generator.                                                         *)

EndFunc ==
    /\ phase = "returned" /\ phase' = "between"
    /\ src' = Empty /\ done' = done + 1
    /\ UNCHANGED <<in_import, cleanup, block_storage, blocks, is_dtor, tmp, file, insts, modules>>

\* The end of import: the list is declared in front of the text.
EndImport ==
    /\ in_import
    /\ EndFunc
    /\ funcs' = funcs \cup
         {Then(src, [Empty EXCEPT !.declares = IF needs_cleanup_list THEN {CleanupList} ELSE {}])}
    /\ needs_cleanup_list' = FALSE
    /\ UNCHANGED <<handles_for_func, traits>>

\* The end of export: the method is added to the module's trait.
EndExport ==
    /\ ~in_import
    /\ EndFunc
    /\ funcs' = funcs \cup {src}
    /\ traits' = {t \in traits : t.module # modules}
                 \cup {[module |-> modules,
                        handles |-> handles_for_func
                                    \cup UNION {t.handles : t \in {u \in traits : u.module = modules}}]}
    /\ handles_for_func' = {}
    /\ UNCHANGED needs_cleanup_list

\* The file has the traits of all modules so far: they are not taken.
finish ==
    /\ phase = "between"
    /\ file' = [funcs |-> funcs, traits |-> traits]
    /\ funcs' = {}
    /\ phase' = "module"
    /\ UNCHANGED <<in_import, text, is_dtor, handles_for_func, tmp, traits, insts, done, modules>>

Instruction ==
    \/ Plain \/ LoadStore \/ CallWasm \/ CallInterface
    \/ ListCanonLower \/ ListCanonLift
    \/ VariantLower \/ VariantLift
    \/ ListLower \/ ListLift
    \/ \E raw \in BOOLEAN : BufferLowerPtrLen(raw) \/ BufferLiftHandle(raw)
    \/ \E h \in HandleType : I32FromOwnedHandle(h) \/ HandleBorrowedFromI32(h)

Next ==
    \/ preprocess
    \/ \E dtor \in BOOLEAN : BeginFunc(dtor)
    \/ push_block \/ finish_block \/ Instruction \/ Return
    \/ EndImport \/ EndExport
    \/ finish

Spec == Init /\ [][Next]_vars

-----------------------------------------------------------------------------
(* Properties.                                                             *)

\* Whatever the nesting of blocks, the wrapper of an import frees each list
\* it allocated and did not give away exactly once: directly, or by a list
\* that is declared, that it is put on while its name is in scope, and that
\* is gone through before the wrapper returns.  An export frees nothing (the
\* assertions of import and export).
CleanupComplete ==
    /\ \A f \in file.funcs :
          /\ f.uses \subseteq f.declares
          /\ \A r \in f.allocates :
                \/ <<r, "here">> \in f.frees /\ <<r, "by the list">> \notin f.frees
                \/ /\ <<r, "by the list">> \in f.frees /\ <<r, "here">> \notin f.frees
                   /\ <<CleanupList, "here">> \in f.frees
    /\ phase = "returned" =>
          IF in_import THEN handles_for_func = {} ELSE ~needs_cleanup_list /\ src.frees = {}

=============================================================================
