---------------------------- MODULE GenWasmtime -----------------------------
(***************************************************************************)
(* The generator of host bindings as a machine that is fed instructions    *)
(* (crates/gen-wasmtime/src/lib.rs).  For each function of a module witx's *)
(* interpreter emits instructions, in nested blocks; the generator appends *)
(* text and notes in needs_* flags, sets and strings what that text wants  *)
(* declared; the end of the function and of the module turn the notes into *)
(* declarations in front of the text.  One generator serves one module     *)
(* after the other, all imports or all exports.                            *)
(*                                                                         *)
(* Text is abstracted to the names it uses, and the declarations are kept  *)
(* in the order of the file.  Which instructions make sense one after the  *)
(* other is witx's concern; here any may follow any in its call mode.      *)
(***************************************************************************)
EXTENDS Integers, Sequences, SequencesExt

CONSTANTS
    HandleType,   \* names of handle types
    Dtors,        \* those of them that have a destructor
    MaxInsts,     \* bound: instructions in all
    MaxBlocks,    \* bound: blocks that are open or wait to be used
    MaxFuncs,     \* bound: functions of a module
    MaxModules    \* bound: modules

VARIABLES
    in_import,           \* what the generator was made for
    phase,               \* between modules, between functions or in one
    src,                 \* the names used by the text of the current block
    block_storage,       \* the text of the blocks around it
    blocks,              \* the text of the blocks finished and not yet used
    closures,            \* the closures of the function, in order
    needs,               \* the needs_* flags that are set
    needs_functions,
    handles_for_func,
    all_needed_handles,
    cleanup,             \* is there return space to be freed?
    is_dtor,
    fields,              \* exports.fields of the module
    funcs,               \* the text of the module's functions
    file,                \* what finish has put out last
    insts, done, modules \* how many instructions, functions, modules

text == <<src, block_storage, blocks>>
notes == <<closures, needs, needs_functions, handles_for_func, all_needed_handles, cleanup>>
made == <<fields, funcs, file>>
vars == <<in_import, phase, text, notes, is_dtor, made, insts, done, modules>>

NoFile == [funcs |-> {}, provided |-> {}]

Init ==
    /\ in_import \in BOOLEAN
    /\ phase = "module"
    /\ src = {} /\ block_storage = <<>> /\ blocks = <<>> /\ closures = <<>>
    /\ needs = {} /\ needs_functions = {}
    /\ handles_for_func = {} /\ all_needed_handles = {}
    /\ cleanup = FALSE /\ is_dtor = FALSE
    /\ fields = {} /\ funcs = {} /\ file = NoFile
    /\ insts = 0 /\ done = 0 /\ modules = 0

\* The start of generate.
preprocess ==
    /\ phase = "module" /\ modules < MaxModules
    /\ phase' = "between"
    /\ modules' = modules + 1 /\ done' = 0 /\ file' = NoFile
    /\ UNCHANGED <<in_import, text, notes, is_dtor, fields, funcs, insts>>

\* The start of import and export.  A function may be the destructor of a
\* type that has one; imports of other types have none.
BeginFunc(dtor) ==
    /\ phase = "between" /\ done < MaxFuncs
    /\ dtor => Dtors # {}
    /\ phase' = "func" /\ is_dtor' = dtor
    /\ UNCHANGED <<in_import, text, notes, made, insts, done, modules>>

-----------------------------------------------------------------------------
(* impl Bindgen: blocks and instructions.                                  *)

push_block ==
    /\ phase = "func" /\ insts < MaxInsts
    /\ Len(block_storage) + Len(blocks) < MaxBlocks
    /\ block_storage' = Append(block_storage, src)
    /\ src' = {}
    /\ UNCHANGED <<in_import, phase, blocks, notes, is_dtor, made, insts, done, modules>>

\* What the operands of the block use is in src here already.
finish_block ==
    /\ phase = "func" /\ block_storage # <<>>
    /\ blocks' = Append(blocks, src)
    /\ src' = Last(block_storage)
    /\ block_storage' = Front(block_storage)
    /\ UNCHANGED <<in_import, phase, notes, is_dtor, made, insts, done, modules>>

\* An instruction that appends text using names, and the n last blocks.
Emit(names, n) ==
    /\ phase = "func" /\ insts < MaxInsts /\ insts' = insts + 1
    /\ Len(blocks) >= n
    /\ src' = src \cup names \cup UNION {blocks[i] : i \in (Len(blocks) - n + 1)..Len(blocks)}
    /\ blocks' = SubSeq(blocks, 1, Len(blocks) - n)
    /\ UNCHANGED <<in_import, phase, block_storage, is_dtor, made, done, modules>>

\* The same for most: flags and functions are noted and nothing else.
EmitNeeding(names, n, flags, functions) ==
    /\ Emit(names, n)
    /\ needs' = needs \cup flags
    /\ needs_functions' = needs_functions \cup functions
    /\ UNCHANGED <<closures, handles_for_func, all_needed_handles, cleanup>>

\* The guest's functions, which the text of a function looks up by name.
Func(f) == "func_" \o f
Field(f) == "self." \o f

\* Conversions, records and the call itself want nothing declared.
Plain == EmitNeeding({}, 0, {}, {})

\* Conversions and checks that call a helper of the file.
Checked == \E helper \in {"bad_int", "char_from_i32", "validate_flags"} :
    EmitNeeding({helper}, 0, {helper}, {})

Load == EmitNeeding({"memory", "load"}, 0, {"memory", "load"}, {})
Store == EmitNeeding({"memory", "store"}, 0, {"memory", "store"}, {})

VariantLift == EmitNeeding({"invalid_variant"}, 2, {"invalid_variant"}, {})
VariantLower == EmitNeeding({}, 2, {}, {})

ListCanonLower ==
    EmitNeeding({Func("witx_malloc"), "memory", "store", "slice_as_bytes"}, 0,
                {"memory", "store", "slice_as_bytes"}, {"witx_malloc"})

ListLower == EmitNeeding({Func("witx_malloc")}, 1, {}, {"witx_malloc"})

\* The parameter of an import stays where it is; the result of an export is
\* copied and freed.
ListCanonLift ==
    IF in_import
      THEN EmitNeeding({"guest_memory"}, 0, {"guest_memory"}, {})
      ELSE EmitNeeding({"memory", "copy_slice", Func("witx_free")}, 0,
                       {"memory", "copy_slice"}, {"witx_free"})

ListLift ==
    IF in_import THEN EmitNeeding({}, 1, {}, {})
    ELSE EmitNeeding({Func("witx_free")}, 1, {}, {"witx_free"})

Table(h) == h \o "_table"
Access(h) == h \o "_table_access"
Close(h) == "self." \o h \o "_close"

I32FromOwnedHandle(h) ==
    /\ in_import
    /\ Emit({Table(h)}, 0)
    /\ all_needed_handles' = all_needed_handles \cup {h}
    /\ UNCHANGED <<closures, needs, needs_functions, handles_for_func, cleanup>>

HandleBorrowedFromI32(h) ==
    /\ in_import
    /\ IF is_dtor
         THEN /\ h \in Dtors
              /\ Emit({Table(h)}, 0)
              /\ all_needed_handles' = all_needed_handles \cup {h}
              /\ UNCHANGED handles_for_func
         ELSE /\ Emit({Access(h)}, 0)
              /\ handles_for_func' = handles_for_func \cup {h}
              /\ UNCHANGED all_needed_handles
    /\ UNCHANGED <<closures, needs, needs_functions, cleanup>>

\* The new handle carries the destructor, a function of the same module.
HandleOwnedFromI32(h) ==
    /\ ~in_import
    /\ EmitNeeding(IF h \in Dtors THEN {Close(h)} ELSE {}, 0, {}, {})

\* The block of a buffer becomes a closure, unless its items are raw bytes.
Closure(n) == "closure" \o ToString(n)
NewClosure == Append(closures, [let |-> Closure(Len(closures) + 1), uses |-> Last(blocks)])

BufferLiftPtrLen(raw) ==
    /\ in_import /\ blocks # <<>>
    /\ phase = "func" /\ insts < MaxInsts /\ insts' = insts + 1
    /\ needs' = needs \cup {"guest_memory"}
    /\ blocks' = Front(blocks)
    /\ IF raw THEN /\ src' = src \cup {"guest_memory"}
                   /\ UNCHANGED closures
       ELSE /\ closures' = NewClosure
            /\ src' = src \cup {"guest_memory", Closure(Len(closures'))}
    /\ UNCHANGED <<in_import, phase, block_storage, needs_functions, handles_for_func,
                   all_needed_handles, cleanup, is_dtor, made, done, modules>>

\* An in-buffer of buffers cannot be lowered: the closure would use the
\* transaction, which is declared after it (tests/wasm.witx:183: "TODO").
BufferLowerHandle(raw) ==
    /\ ~in_import /\ blocks # <<>>
    /\ ~raw => "buffer_transaction" \notin Last(blocks)
    /\ phase = "func" /\ insts < MaxInsts /\ insts' = insts + 1
    /\ needs' = needs \cup {"buffer_transaction"}
    /\ blocks' = Front(blocks)
    /\ IF raw THEN /\ src' = src \cup {"buffer_transaction"}
                   /\ UNCHANGED closures
       ELSE /\ closures' = NewClosure
            /\ src' = src \cup {"buffer_transaction", Closure(Len(closures'))}
    /\ UNCHANGED <<in_import, phase, block_storage, needs_functions, handles_for_func,
                   all_needed_handles, cleanup, is_dtor, made, done, modules>>

\* Space for several results, in the guest; not inside a block.
allocate_i64_array ==
    /\ ~in_import /\ ~cleanup /\ block_storage = <<>> /\ blocks = <<>>
    /\ Emit({Field("witx_malloc")}, 0)
    /\ needs_functions' = needs_functions \cup {"witx_malloc", "witx_free"}
    /\ cleanup' = TRUE
    /\ UNCHANGED <<closures, needs, handles_for_func, all_needed_handles>>

\* The last instruction: what was allocated is freed.
Return ==
    /\ phase = "func" /\ block_storage = <<>> /\ blocks = <<>>
    /\ src' = src \cup IF cleanup THEN {Field("witx_free")} ELSE {}
    /\ cleanup' = FALSE
    /\ phase' = "returned"
    /\ UNCHANGED <<in_import, block_storage, blocks, closures, needs, needs_functions,
                   handles_for_func, all_needed_handles, is_dtor, made, insts, done, modules>>

-----------------------------------------------------------------------------
(* impl Generator: the ends of functions and modules.                      *)

Let(name, uses) == [let |-> name, uses |-> uses]
Body == <<Let("", src)>>
Some(cond, t) == IF cond THEN <<t>> ELSE <<>>

\* What the text of an import wants looked up or opened first, in any order.
GetFuncs == SetToSeq({Let(Func(f), {"get_func"}) : f \in needs_functions})
Accesses == SetToSeq({Let(Access(h), {Table(h)}) : h \in handles_for_func})
Memory == Some({"memory", "guest_memory"} \cap needs # {}, Let("memory", {"get_memory"}))
          \o Some("guest_memory" \in needs, Let("guest_memory", {"memory", "borrow_checker"}))

EndFunc(t) ==
    /\ phase = "returned" /\ phase' = "between"
    /\ funcs' = funcs \cup t
    /\ src' = {} /\ closures' = <<>> /\ handles_for_func' = {}
    /\ done' = done + 1
    /\ UNCHANGED <<in_import, block_storage, blocks, cleanup, is_dtor, file, insts, modules>>

\* Mutant: closures are put in front of everything.
ImportText_ClosuresFirst == closures \o GetFuncs \o Accesses \o Memory \o Body

\* The text of an import: each insert_str puts its part in front.
ImportText == GetFuncs \o Accesses \o Memory \o closures \o Body

\* The end of import.  What it needed of functions stays noted: the next
\* imports declare it as well.
EndImport ==
    /\ in_import
    /\ EndFunc({ImportText})
    /\ needs' = (needs \ {"memory", "guest_memory"})
                \cup (IF "guest_memory" \in needs THEN {"borrow_checker"} ELSE {})
                \cup (IF {"memory", "guest_memory"} \cap needs # {} THEN {"get_memory"} ELSE {})
                \cup (IF needs_functions # {} THEN {"get_func"} ELSE {})
    /\ all_needed_handles' = all_needed_handles \cup handles_for_func
    /\ UNCHANGED <<needs_functions, fields>>

\* The text of an export; in it, the guest's functions are fields of self.
ExportText ==
    SetToSeq({Let(Func(f), {Field(f)}) : f \in needs_functions})
    \o Some("memory" \in needs, Let("memory", {Field("memory")}))
    \o closures
    \o Some("buffer_transaction" \in needs, Let("buffer_transaction", {"self.buffer_glue"}))
    \o Body

\* Mutant: the flag is looked at, not taken.
EndExport_FlagStays ==
    /\ ~in_import
    /\ EndFunc(IF is_dtor THEN {} ELSE {ExportText})
    /\ needs' = (needs \ {"memory"})
                \cup (IF "buffer_transaction" \in needs THEN {"buffer_glue"} ELSE {})
                \cup (IF "memory" \in needs THEN {"get_memory"} ELSE {})
    /\ fields' = fields \cup needs_functions \cup ({"memory"} \cap needs)
    /\ needs_functions' = {}
    /\ UNCHANGED <<all_needed_handles>>

\* The end of export.  Of a destructor only the field is kept, by which new
\* handles find it.
EndExport ==
    /\ ~in_import
    /\ EndFunc(IF is_dtor THEN {} ELSE {ExportText})
    /\ needs' = (needs \ {"memory", "buffer_transaction"})
                \cup (IF "buffer_transaction" \in needs THEN {"buffer_glue"} ELSE {})
                \cup (IF "memory" \in needs THEN {"get_memory"} ELSE {})
    /\ fields' = fields \cup needs_functions \cup ({"memory"} \cap needs)
    /\ needs_functions' = {}
    /\ UNCHANGED <<all_needed_handles>>

\* The helpers print_intrinsics can print.
Intrinsics == {"store", "load", "char_from_i32", "invalid_variant", "bad_int",
               "validate_flags", "slice_as_bytes", "copy_slice"}

\* finish: the trait and add_to_linker, or the struct and new; the intrinsics.
\* The names that the functions of the module can refer to.
Provided ==
    (needs \cap (Intrinsics \cup {"get_memory"}))
    \cup IF in_import
           THEN (needs \cap {"borrow_checker", "get_func"})
                \cup {Table(h) : h \in all_needed_handles}
           ELSE {Field(f) : f \in fields} \cup {Close(h) : h \in Dtors}
                \cup IF "buffer_glue" \in needs THEN {"self.buffer_glue"} ELSE {}

\* The function new, which looks the fields up.
New == Some("memory" \in fields, Let("", {"get_memory"}))

finish ==
    /\ phase = "between"
    /\ file' = [funcs |-> funcs \cup {New}, provided |-> Provided]
    /\ funcs' = {} /\ fields' = {} /\ all_needed_handles' = {}
    /\ phase' = "module"
    /\ UNCHANGED <<in_import, text, closures, needs, needs_functions, handles_for_func,
                   cleanup, is_dtor, insts, done, modules>>

Instruction ==
    \/ Plain \/ Checked \/ Load \/ Store
    \/ VariantLift \/ VariantLower
    \/ ListCanonLower \/ ListLower \/ ListCanonLift \/ ListLift
    \/ \E h \in HandleType :
          I32FromOwnedHandle(h) \/ HandleBorrowedFromI32(h) \/ HandleOwnedFromI32(h)
    \/ \E raw \in BOOLEAN : BufferLiftPtrLen(raw) \/ BufferLowerHandle(raw)
    \/ allocate_i64_array

Next ==
    \/ preprocess
    \/ \E dtor \in BOOLEAN : BeginFunc(dtor)
    \/ push_block \/ finish_block \/ Instruction \/ Return
    \/ EndImport \/ EndExport
    \/ finish

Spec == Init /\ [][Next]_vars

-----------------------------------------------------------------------------
(* Properties.                                                             *)

\* In the text of each function every name is declared before it is used, in
\* the function itself or by the module around it: the instructions note all
\* that their text wants, also in blocks that end up in closures, and the
\* declarations are inserted in an order in which each has what it uses.
NamesDeclared ==
    \A f \in file.funcs : \A i \in DOMAIN f : \A u \in f[i].uses :
        u \in file.provided \/ \E j \in 1..(i - 1) : f[j].let = u

\* One function leaves nothing behind that the next would declare or free,
\* and the assertions of import and export hold.  (Left out: the functions
\* of the guest that imports have needed, which all later imports look up.)
NothingLeftOver ==
    /\ phase = "returned" =>
          /\ blocks = <<>> /\ ~cleanup
          /\ in_import => "buffer_transaction" \notin needs
          /\ ~in_import => handles_for_func = {} /\ {"guest_memory", "get_func"} \cap needs = {}
    /\ phase \in {"between", "module"} =>
          /\ src = {} /\ block_storage = <<>> /\ closures = <<>> /\ handles_for_func = {}
          /\ {"memory", "guest_memory", "buffer_transaction"} \cap needs = {}
          /\ ~in_import => needs_functions = {}

=============================================================================
