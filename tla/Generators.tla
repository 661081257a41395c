----------------------------- MODULE Generators -----------------------------
(***************************************************************************)
(* The command line and the procedural macros (src/bin/witx-bindgen.rs,    *)
(* crates/wasmtime-impl, crates/rust-wasm-impl): one generator, of the     *)
(* host or of the guest, made once, is given all the modules, all of them  *)
(* as imports or all as exports.  The variables are those of the generator *)
(* that was chosen; the ones only the other has keep a value that says     *)
(* nothing.                                                                *)
(***************************************************************************)
CONSTANTS HandleType, Dtors, MaxInsts, MaxBlocks, MaxFuncs, MaxModules

VARIABLES
    generator,                                            \* Box<dyn Generator>
    in_import, phase, src, block_storage, blocks, cleanup, is_dtor,
    handles_for_func, funcs, file, insts, done, modules,
    closures, needs, needs_functions, all_needed_handles, fields,   \* Wasmtime
    needs_cleanup_list, traits, tmp                                 \* RustWasm

Wasmtime == INSTANCE GenWasmtime
RustWasm == INSTANCE GenRustWasm

host == <<closures, needs, needs_functions, all_needed_handles, fields>>
guest == <<needs_cleanup_list, traits, tmp>>
vars == <<generator, Wasmtime!vars, RustWasm!vars>>

Init ==
    \/ /\ generator = "Wasmtime" /\ Wasmtime!Init
       /\ needs_cleanup_list = FALSE /\ traits = {} /\ tmp = 0
    \/ /\ generator = "RustWasm" /\ RustWasm!Init
       /\ closures = <<>> /\ needs = {} /\ needs_functions = {}
       /\ all_needed_handles = {} /\ fields = {}

Next ==
    \/ generator = "Wasmtime" /\ Wasmtime!Next /\ UNCHANGED <<generator, guest>>
    \/ generator = "RustWasm" /\ RustWasm!Next /\ UNCHANGED <<generator, host>>

Spec == Init /\ [][Next]_vars

-----------------------------------------------------------------------------

\* The properties of the generator that was chosen.  Of the host's: in the
\* text of each function every name is declared before it is used ...
NamesDeclared == generator = "Wasmtime" => Wasmtime!NamesDeclared

\* ... and no function leaves behind what the next would declare or free.
NothingLeftOver == generator = "Wasmtime" => Wasmtime!NothingLeftOver

\* Of the guest's: a wrapper frees each list it allocated, once.
CleanupComplete == generator = "RustWasm" => RustWasm!CleanupComplete

=============================================================================
