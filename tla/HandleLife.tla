---------------------------- MODULE HandleLife ------------------------------
(***************************************************************************)
(* The life of resources that one side owns and the other names by a       *)
(* handle, across calls that nest.                                         *)
(*                                                                         *)
(* A resource of the host is an item of a Table.  The guest has its index  *)
(* in a struct (gen-rust-wasm's type_handle) that closes it when dropped;  *)
(* generated closures (gen-wasmtime) get the items of the arguments,       *)
(* through an access they hold for the call, and insert those of results.  *)
(* A resource of the guest is a box in the guest's memory.  The host has   *)
(* its address in a struct that closes it when dropped or told to; the     *)
(* guest's generated functions dereference it.                             *)
(*                                                                         *)
(* Both types are ones with a destructor; others are never closed.         *)
(***************************************************************************)
EXTENDS Integers, Sequences, FiniteSets

CONSTANTS
    Item, U32Max, MaxAccesses, MaxBorrows,  \* see Table
    Object,   \* the guest's resources
    Address,  \* where the guest's allocator may put a box
    Unknown,  \* no item: what a guest's made-up handle stands for
    MaxDepth  \* bound: frames on the stack

ASSUME LifeAssumption ==
    /\ U32Max \in Nat /\ MaxAccesses \in Nat /\ MaxBorrows \in Nat /\ MaxDepth \in Nat
    /\ Unknown \notin Item /\ "moved" \notin Object

VARIABLES
    elems, next, active_borrows, access_idx, accesses,  \* see Table
    wrapped,   \* a safe guest's values of the handle type: index, item meant
    boxes,     \* the guest's boxes, by address: an object, or "moved" out
    exported,  \* the host's values of the handle type: address, object meant
    stack,     \* the frames, innermost last
    unwinding, \* "no", "panic" while a panic of the host unwinds, or "abort"
    failed,    \* "no", or the worst that has happened: "trap", "panic"
    safe       \* is the guest safe Rust, with handles from its bindings only?

T == INSTANCE Table WITH nested <- TRUE

table == <<elems, next, active_borrows, access_idx, accesses>>
vars == <<table, wrapped, boxes, exported, stack, unwinding, failed, safe>>

(***************************************************************************)
(* Frames of the guest and of the host alternate, above the host that      *)
(* embeds the guest:                                                       *)
(*   export        an exported function, with handles of the guest as args *)
(*   close_export  the guest's destructor, called by close() or by Drop    *)
(*   import        the closure of an import, with handles of the host      *)
(*   close_import  that of the host's destructor, with the item            *)
(***************************************************************************)
Wrapped == [raw : T!Handle, item : Item \cup {Unknown}]
Exported == [raw : Address, object : Object]

Import(args) == [kind |-> "import", args |-> args, todo |-> args,
                 access |-> Len(accesses) + 1, result |-> {}]
CloseImport(item) == [kind |-> "close_import", item |-> item]
Export(args) == [kind |-> "export", args |-> args]
CloseExport(h, how, again) ==
    [kind |-> "close_export", handle |-> h, how |-> how, again |-> again,
     valid |-> h.raw \in DOMAIN boxes /\ boxes[h.raw] = h.object]

Depth == Len(stack)
Top == stack[Depth]
TopIs(kinds) == Depth > 0 /\ Top.kind \in kinds
Pop(n) == stack' = SubSeq(stack, 1, Depth - n)
Push(f) == Depth < MaxDepth /\ stack' = Append(stack, f)

GuestRuns == unwinding = "no" /\ TopIs({"export", "close_export"})

\* The host's function runs in an import once its arguments are lifted, until
\* its result is lowered.
HostRuns ==
    /\ unwinding = "no"
    /\ \/ Depth = 0
       \/ TopIs({"close_import"})
       \/ TopIs({"import"}) /\ Top.todo = {} /\ Top.result = {}

\* The handles that calls on the stack have borrowed.
Lent(kind) == UNION {stack[d].args : d \in {e \in 1..Depth : stack[e].kind = kind}}

\* What the guest can pass: a reference to a handle it owns; or, as in the
\* tests `invalid_handle` and `invalid_handle_close`, any integer.
Passable == IF safe THEN wrapped ELSE [raw : T!Handle, item : {Unknown}]

\* What it can close: nothing it has lent to a call, Rust sees to that.
Closable == IF safe THEN wrapped \ Lent("import") ELSE Passable

Trapped == failed' = IF failed = "panic" THEN failed ELSE "trap"

\* The guest's frame f is left: a destructor that was called as part of an
\* unwinding lets it go on, for Drop does not look at the result.
Resume(f) == unwinding' = IF f.kind = "close_export" /\ f.again THEN "panic" ELSE "no"

Init ==
    /\ T!Init
    /\ wrapped = {} /\ exported = {}
    /\ boxes = [a \in {} |-> 0]
    /\ stack = <<>>
    /\ unwinding = "no" /\ failed = "no"
    /\ safe \in BOOLEAN

-----------------------------------------------------------------------------
(* An import with handles of the host.                                     *)

\* The guest calls it; the closure begins with an access.
CallImport(args) ==
    /\ GuestRuns
    /\ T!Access
    /\ Push(Import(args))
    /\ UNCHANGED <<wrapped, boxes, exported, unwinding, failed>>

\* Mutant: all calls share the first access.
GetArg_FirstAccess ==
    /\ unwinding = "no" /\ TopIs({"import"})
    /\ \E h \in Top.todo :
          /\ T!Get(1, h.raw)
          /\ stack' = [stack EXCEPT ![Depth].todo = @ \ {h}]
    /\ UNCHANGED <<wrapped, boxes, exported, unwinding, failed>>

\* HandleBorrowedFromI32, of each argument.
GetArg ==
    /\ unwinding = "no" /\ TopIs({"import"})
    /\ \E h \in Top.todo :
          /\ T!Get(Top.access, h.raw)
          /\ stack' = [stack EXCEPT ![Depth].todo = @ \ {h}]
    /\ UNCHANGED <<wrapped, boxes, exported, unwinding, failed>>

\* I32FromOwnedHandle, of a value that is neither in the table nor with a
\* destructor.
LowerResult(item) ==
    /\ HostRuns /\ TopIs({"import"})
    /\ \A d \in 1..Depth : stack[d].kind = "close_import" => stack[d].item # item
    /\ T!Insert(item)
    /\ stack' = [stack EXCEPT ![Depth].result = {[raw |-> next, item |-> item]}]
    /\ UNCHANGED <<wrapped, boxes, exported, unwinding, failed>>

\* The closure returns; the guest wraps the result (HandleOwnedFromI32).
EndImport ==
    /\ unwinding = "no" /\ TopIs({"import"}) /\ Top.todo = {}
    /\ T!Drop(Top.access)
    /\ wrapped' = IF safe THEN wrapped \cup Top.result ELSE wrapped
    /\ Pop(1)
    /\ UNCHANGED <<boxes, exported, unwinding, failed>>

\* Mutant: the early return is past the drop of the access.
FailImport_AccessOpen ==
    /\ unwinding = "no" /\ TopIs({"import"})
    /\ Pop(2) /\ Trapped /\ Resume(stack[Depth - 1])
    /\ UNCHANGED <<table, wrapped, boxes, exported>>

\* The closure returns early, with a trap: a handle names nothing, another
\* argument cannot be lifted, or a result not be lowered, or not be passed on
\* when the handle is in the table already.  The guest's frame goes as well,
\* and drops nothing; the host that called it gets an error.
FailImport ==
    /\ unwinding = "no" /\ TopIs({"import"})
    /\ T!Drop(Top.access)
    /\ Pop(2) /\ Trapped /\ Resume(stack[Depth - 1])
    /\ UNCHANGED <<wrapped, boxes, exported>>

\* Mutants: Drop runs after into_raw; the closure gets the item.
CloseHost_NotForgotten(h) ==
    /\ GuestRuns /\ Depth < MaxDepth
    /\ T!Remove(h.raw)
    /\ Push(CloseImport(elems[h.raw].item))
    /\ UNCHANGED <<wrapped, boxes, exported, unwinding, failed>>

CloseHost_Stays(h) ==
    /\ GuestRuns
    /\ T!IsFull(h.raw)
    /\ wrapped' = wrapped \ {h}
    /\ UNCHANGED <<table, stack, boxes, exported, unwinding, failed>>

\* The guest drops a handle, or calls its destructor (into_raw); the closure
\* takes the item out of the table and hands it to the host's destructor.
CloseHost(h) ==
    /\ GuestRuns
    /\ T!Remove(h.raw)
    /\ Push(CloseImport(elems[h.raw].item))
    /\ wrapped' = wrapped \ {h}
    /\ UNCHANGED <<boxes, exported, unwinding, failed>>

\* "failed to remove handle": the guest traps.
CloseHostFails(h) ==
    /\ GuestRuns
    /\ T!RemoveFails(h.raw)
    /\ wrapped' = wrapped \ {h}
    /\ Pop(1) /\ Trapped /\ Resume(Top)
    /\ UNCHANGED <<boxes, exported>>

EndCloseHost ==
    /\ unwinding = "no" /\ TopIs({"close_import"})
    /\ Pop(1)
    /\ UNCHANGED <<table, wrapped, boxes, exported, unwinding, failed>>

-----------------------------------------------------------------------------
(* An export with handles of the guest.                                    *)

\* The host calls it, with references to handles (I32FromBorrowedHandle);
\* the guest dereferences them (HandleBorrowedFromI32).
CallExport(args) ==
    /\ HostRuns
    /\ Push(Export(args))
    /\ UNCHANGED <<table, wrapped, boxes, exported, unwinding, failed>>

EndExport ==
    /\ unwinding = "no" /\ TopIs({"export"})
    /\ Pop(1)
    /\ UNCHANGED <<table, wrapped, boxes, exported, unwinding, failed>>

\* With a result: the guest boxes it (I32FromOwnedHandle), and the host wraps
\* the address (HandleOwnedFromI32) unless another result cannot be lifted.
EndExportBoxed(a, object) ==
    /\ unwinding = "no" /\ TopIs({"export"}) /\ safe
    /\ a \notin DOMAIN boxes
    /\ \A b \in DOMAIN boxes : boxes[b] # object
    /\ \A d \in 1..Depth : stack[d].kind = "close_export" => stack[d].handle.object # object
    /\ boxes' = [b \in DOMAIN boxes \cup {a} |-> IF b = a THEN object ELSE boxes[b]]
    /\ \/ exported' = exported \cup {[raw |-> a, object |-> object]} /\ UNCHANGED failed
       \/ UNCHANGED exported /\ Trapped
    /\ Pop(1)
    /\ UNCHANGED <<table, wrapped, unwinding>>

\* The guest traps.  Its frame drops nothing; in a destructor, the host's
\* handle is gone all the same: forgotten by close(), ignored by Drop.
Trap ==
    /\ GuestRuns
    /\ Pop(1) /\ Trapped /\ Resume(Top)
    /\ UNCHANGED <<table, wrapped, boxes, exported>>

\* The box is moved out of as the guest's destructor is entered ...
Enter(h) == boxes' = [a \in DOMAIN boxes |-> IF a = h.raw THEN "moved" ELSE boxes[a]]

\* Mutant: close() takes &self, or forgets to forget.
CloseGuest_NotForgotten(h) ==
    /\ HostRuns
    /\ \E how \in {"close", "drop"} : Push(CloseExport(h, how, FALSE))
    /\ Enter(h)
    /\ UNCHANGED <<table, wrapped, exported, unwinding, failed>>

\* The host closes or drops a handle that it has not lent to a call.
CloseGuest(h) ==
    /\ HostRuns
    /\ \E how \in {"close", "drop"} : Push(CloseExport(h, how, FALSE))
    /\ Enter(h)
    /\ exported' = exported \ {h}
    /\ UNCHANGED <<table, wrapped, unwinding, failed>>

\* ... and is freed when the destructor returns: the end of the statement.
EndCloseGuest ==
    /\ unwinding = "no" /\ TopIs({"close_export"})
    /\ boxes' = [a \in DOMAIN boxes \ {Top.handle.raw} |-> boxes[a]]
    /\ Pop(1) /\ Resume(Top)
    /\ UNCHANGED <<table, wrapped, exported, failed>>

-----------------------------------------------------------------------------
(* A panic of the host, in a function the guest has called.  wasmtime lets *)
(* it go through the guest, whose frames drop nothing, down to a host that *)
(* catches it.                                                             *)

Panic ==
    /\ HostRuns /\ Depth > 0
    /\ unwinding' = "panic" /\ failed' = "panic"
    /\ UNCHANGED <<table, wrapped, boxes, exported, stack>>

UnwindImport ==
    /\ unwinding = "panic" /\ TopIs({"import"})
    /\ T!Drop(Top.access)
    /\ Pop(1)
    /\ UNCHANGED <<wrapped, boxes, exported, unwinding, failed>>

UnwindFrame ==
    /\ unwinding = "panic" /\ TopIs({"close_import", "export"})
    /\ Pop(1)
    /\ UNCHANGED <<table, wrapped, boxes, exported, unwinding, failed>>

\* close() has not forgotten the handle yet, so it is dropped: the destructor
\* is called once more, as part of the unwinding.  A Drop that panics is left;
\* but a second panic during the first one aborts.
UnwindClose ==
    /\ unwinding = "panic" /\ TopIs({"close_export"})
    /\ IF Top.how = "close"
         THEN /\ stack' = [stack EXCEPT ![Depth] = CloseExport(Top.handle, "drop", TRUE)]
              /\ unwinding' = "no"
              /\ Enter(Top.handle)
         ELSE /\ UNCHANGED boxes
              /\ IF Top.again THEN unwinding' = "abort" /\ UNCHANGED stack
                              ELSE Pop(1) /\ UNCHANGED unwinding
    /\ UNCHANGED <<table, wrapped, exported, failed>>

Caught ==
    /\ unwinding = "panic" /\ Depth = 0
    /\ unwinding' = "no"
    /\ UNCHANGED <<table, wrapped, boxes, exported, stack, failed>>

-----------------------------------------------------------------------------

Step ==
    \/ \E args \in SUBSET Passable : CallImport(args)
    \/ GetArg \/ EndImport \/ FailImport \/ EndCloseHost
    \/ \E item \in Item : LowerResult(item)
    \/ \E h \in Closable : CloseHost(h) \/ CloseHostFails(h)
    \/ \E args \in SUBSET exported : CallExport(args)
    \/ EndExport \/ Trap \/ EndCloseGuest
    \/ \E a \in Address, object \in Object : EndExportBoxed(a, object)
    \/ \E h \in exported \ Lent("export") : CloseGuest(h)
    \/ Panic \/ UnwindImport \/ UnwindFrame \/ UnwindClose \/ Caught

Next == Step /\ UNCHANGED safe

Spec == Init /\ [][Next]_vars

-----------------------------------------------------------------------------
(* Properties.                                                             *)

\* Every handle of a safe guest, and every one it has lent to a call, names
\* the item it was made for, although indices are used again and again: none
\* is closed twice, or after it is closed.
HandlesResolve ==
    safe => \A h \in wrapped \cup Lent("import") :
                T!IsFull(h.raw) /\ elems[h.raw].item = h.item

\* A safe guest can close any handle it could drop: "table index in use" and
\* "invalid handle index" never make a destructor trap, also after calls that
\* failed halfway.
ClosesSucceed ==
    safe /\ GuestRuns => \A h \in Closable : T!IsFull(h.raw) /\ elems[h.raw].uses = 0

\* Generated code uses the table as Table.tla's nested use has it, whatever
\* the guest passes: the access of a call is the innermost one while the call
\* gets its arguments and when it ends, in whatever way.
UsesTableNested == T!Spec

\* Every handle of the host, and every one it has lent to a call, is the
\* address of a box with the object it was made for, and so is one whose
\* destructor is entered: it is entered once.  (Not so when the host panics
\* under close(): the destructor runs twice.)
BoxesLive ==
    safe /\ failed # "panic" =>
        /\ \A h \in exported \cup Lent("export") :
              h.raw \in DOMAIN boxes /\ boxes[h.raw] = h.object
        /\ \A d \in 1..Depth : stack[d].kind = "close_export" => stack[d].valid

\* While nothing fails, no resource is left without a handle that will close
\* it, on either side.
NothingLost ==
    safe /\ failed = "no" =>
        /\ {i \in DOMAIN elems : T!IsFull(i)} =
              {h.raw : h \in wrapped
                  \cup UNION {stack[d].result : d \in {e \in 1..Depth : stack[e].kind = "import"}}}
        /\ DOMAIN boxes =
              {h.raw : h \in exported
                  \cup {stack[d].handle : d \in {e \in 1..Depth : stack[e].kind = "close_export"}}}

=============================================================================
