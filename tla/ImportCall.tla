----------------------------- MODULE ImportCall -----------------------------
(***************************************************************************)
(* One guest and its memory across the calls of an imported function: the  *)
(* composition of the borrow checker with what the generated closure hands *)
(* to the host function (crates/gen-wasmtime), and with the guest running  *)
(* in between.  The function has three parameters:                         *)
(*   ptr   a GuestPtr to a list or string (crates/wasmtime/src/ptr.rs),    *)
(*         borrowed shared or mutably, as often as the function likes;      *)
(*   inb   an InBuffer, and outb an OutBuffer, of items that need          *)
(*         conversion (crates/wasmtime/src/imports.rs).                    *)
(* The borrow checker belongs to the host's state and outlives the calls;  *)
(* the values made from the parameters do not, Rust's lifetimes see to it. *)
(*                                                                         *)
(* Addresses are u32 for the checker and i32 for the items of buffers;     *)
(* both are kept as u32 here.  Additions of i32 wrap, as they do in builds *)
(* without overflow checks (others panic).                                 *)
(***************************************************************************)
EXTENDS Integers, FiniteSets

CONSTANTS
    U32Max, UsizeMax,
    ItemSize,    \* bytes of one item of inb and outb
    MaxSize,     \* bound: bytes the memory may grow to
    MaxBase      \* bound: times the memory moves

\* The size of an item is passed as a positive i32.
ASSUME ImportAssumption ==
    /\ U32Max \in Nat /\ UsizeMax \in Nat \ {0}
    /\ ItemSize \in Nat \ {0} /\ 2 * ItemSize <= U32Max
    /\ MaxSize \in 1..(U32Max + 1) /\ MaxBase \in Nat

VARIABLES
    shared_borrows, mut_borrows, next_handle, guards,  \* see BorrowChecker
    owner,   \* what each live borrow belongs to, and the base it points into;
             \* of an iterator also the next item, where it has read last, and
             \* whether all reads were in the memory
    memory,  \* the guest's memory: its size, and where the host has it
    phase,   \* who runs
    args,    \* the regions of ptr, inb and outb as the guest passed them
    out,     \* the OutBuffer: offset and len, in items
    allocates,  \* does serializing an item of outb call witx_malloc?
    in_bounds   \* does the guest only pass an outb that can be stored to?

BC == INSTANCE BorrowChecker

checker == <<shared_borrows, mut_borrows, next_handle, guards>>
vars == <<checker, owner, memory, phase, args, out, allocates, in_bounds>>

(***************************************************************************)
(* phase: "guest" no import is active; "host" the host function runs;      *)
(* "write" it is inside OutBuffer::write; "alloc" so it is, and the guest  *)
(* runs, called by the serializer; "reenter" the host function has called  *)
(* an export.                                                              *)
(***************************************************************************)
GuestRuns == phase \in {"guest", "alloc", "reenter"}

\* A buffer parameter, and the region of its items: len.checked_mul(size).
BufferArg == [offset : 0..U32Max, len : 0..U32Max]
Overflows(b) == b.len * ItemSize > U32Max
ItemsRegion(b) == [start |-> b.offset, len |-> b.len * ItemSize]

\* WasmtimeGuestMemory::base: where the memory is, and its size as a u32.
Wrap(x) == x % (U32Max + 1)
baseLen == Wrap(memory.size)
validate(r) == r.start + r.len <= baseLen

\* Mutant: the address is cast by way of u32.
Accessible_ZeroExtended(offset) == offset + ItemSize <= memory.size

\* `load` and `store` of one item: an i32 that is negative is far outside the
\* memory once it is cast to a usize.
Negative(i) == 2 * i > U32Max
Accessible(offset) == ~Negative(offset) /\ offset + ItemSize <= memory.size

Idle == [ptr |-> [start |-> 0, len |-> 0],
         inb |-> [offset |-> 0, len |-> 0], outb |-> [offset |-> 0, len |-> 0]]

Init ==
    /\ BC!Init
    /\ owner = [h \in {} |-> 0]
    /\ memory \in [base : {0}, size : 1..MaxSize]
    /\ phase = "guest"
    /\ args = Idle
    /\ out = Idle.outb
    /\ allocates \in BOOLEAN /\ in_bounds \in BOOLEAN

-----------------------------------------------------------------------------
(* The guest.                                                              *)

\* The guest calls the import.
Call(ptr, inb, outb) ==
    /\ phase = "guest"
    /\ in_bounds => \A i \in 0..(outb.len - 1) : Accessible(outb.offset + i * ItemSize)
    /\ phase' = "host"
    /\ args' = [ptr |-> ptr, inb |-> inb, outb |-> outb]
    /\ out' = outb
    /\ UNCHANGED <<checker, owner, memory>>

\* memory.grow; the host may have to move the memory.
Grow ==
    /\ GuestRuns
    /\ memory.size < MaxSize
    /\ \E base \in {memory.base, memory.base + 1} :
          base <= MaxBase /\ memory' = [base |-> base, size |-> memory.size + 1]
    /\ UNCHANGED <<checker, owner, phase, args, out>>

-----------------------------------------------------------------------------
(* Values of the host function that hold a borrow.                         *)

Owner(role) == [role |-> role, base |-> memory.base, next |-> 0, at |-> 0, inside |-> TRUE]
NewOwner(role) ==
    owner' = [h \in DOMAIN owner \cup {BC!FreshHandle} |->
                 IF h = BC!FreshHandle THEN Owner(role) ELSE owner[h]]
Disown(h) == owner' = [k \in DOMAIN owner \ {h} |-> owner[k]]

Unborrow(g) == (BC!DropShared(g) \/ BC!DropMut(g)) /\ Disown(g.handle)
Of(role) == {g \in guards : owner[g.handle].role = role}

\* GuestPtr::borrow and borrow_mut, when they succeed ...
BorrowPtr ==
    /\ phase = "host"
    /\ validate(args.ptr)
    /\ BC!SharedBorrow(args.ptr) \/ BC!MutBorrow(args.ptr)
    /\ NewOwner("ptr")
    /\ UNCHANGED <<memory, phase, args, out>>

\* ... and when a str is not UTF-8.
BorrowPtrNotUtf8 ==
    /\ phase = "host"
    /\ validate(args.ptr)
    /\ \E mut \in BOOLEAN : BC!BorrowNotUtf8(args.ptr, mut)
    /\ UNCHANGED <<owner, memory, phase, args, out>>

\* InBuffer::iter.  The region is borrowed, not validated.
Iter ==
    /\ phase = "host"
    /\ ~Overflows(args.inb)
    /\ BC!SharedBorrow(ItemsRegion(args.inb))
    /\ NewOwner("iter")
    /\ UNCHANGED <<memory, phase, args, out>>

\* InBufferIter::next, called by the host function or by the iterator it gives
\* to write.  The range is one of i32; an item that cannot be read is an error
\* and does not end the iteration.
IterNext ==
    /\ phase \in {"host", "write"}
    /\ \E g \in Of("iter") :
          LET i == owner[g.handle].next
              at == Wrap(args.inb.offset + i * ItemSize)
          IN  /\ ~Negative(args.inb.len) /\ i < args.inb.len
              /\ owner' = [owner EXCEPT ![g.handle].next = i + 1, ![g.handle].at = at,
                                        ![g.handle].inside = @ /\ Accessible(at)]
    /\ UNCHANGED <<checker, memory, phase, args, out>>

\* Drop of a Borrow, a BorrowMut or an InBufferIter.
DropValue ==
    /\ phase = "host"
    /\ \E g \in Of("ptr") \cup Of("iter") : Unborrow(g)
    /\ UNCHANGED <<memory, phase, args, out>>

\* The host function calls an export, as the docs allow: without borrows.
Reenter ==
    /\ phase = "host" /\ ~BC!has_outstanding_borrows
    /\ phase' = "reenter"
    /\ UNCHANGED <<checker, owner, memory, args, out>>

Reentered ==
    /\ phase = "reenter"
    /\ phase' = "host"
    /\ UNCHANGED <<checker, owner, memory, args, out>>

\* The host function returns, or fails: its values have been dropped.
Return ==
    /\ phase = "host" /\ Of("ptr") \cup Of("iter") = {}
    /\ phase' = "guest"
    /\ args' = Idle
    /\ out' = Idle.outb
    /\ UNCHANGED <<checker, owner, memory>>

-----------------------------------------------------------------------------
(* OutBuffer::write.                                                       *)

\* The rest of the buffer is borrowed for the time of the call.
Write ==
    /\ phase = "host"
    /\ ~Overflows(out)
    /\ BC!MutBorrow(ItemsRegion(out))
    /\ NewOwner("write")
    /\ phase' = "write"
    /\ UNCHANGED <<memory, args, out>>

\* Serializing the next item calls witx_malloc, for what the item points to.
WriteAlloc ==
    /\ phase = "write" /\ out.len # 0 /\ allocates
    /\ phase' = "alloc"
    /\ UNCHANGED <<checker, owner, memory, args, out>>

AllocReturns ==
    /\ phase = "alloc"
    /\ phase' = "write"
    /\ UNCHANGED <<checker, owner, memory, args, out>>

\* Mutant: the buffer does not become shorter.
WriteItem_NotShorter ==
    /\ phase = "write" /\ out.len # 0
    /\ Accessible(out.offset)
    /\ out' = [out EXCEPT !.offset = @ + ItemSize]
    /\ UNCHANGED <<checker, owner, memory, phase, args>>

\* The item is stored and the buffer is one item shorter.
WriteItem ==
    /\ phase = "write" /\ out.len # 0
    /\ Accessible(out.offset)
    /\ out' = [offset |-> Wrap(out.offset + ItemSize), len |-> out.len - 1]
    /\ UNCHANGED <<checker, owner, memory, phase, args>>

\* The item cannot be serialized (it is stored out of bounds, or witx_malloc
\* has trapped): write returns early, the borrow is not given back, and no
\* value is left that would.
WriteFails ==
    /\ \/ phase = "write" /\ out.len # 0 /\ ~Accessible(out.offset)
       \/ phase = "alloc"
    /\ phase' = "host"
    /\ owner' = [h \in DOMAIN owner |->
                    [owner[h] EXCEPT !.role = IF @ = "write" THEN "nobody" ELSE @]]
    /\ UNCHANGED <<checker, memory, args, out>>

\* Mutants: the error path keeps the borrow; the wrong map is asked for it.
WriteReturns_Leaks ==
    /\ phase = "write"
    /\ \/ \E g \in Of("write") : Unborrow(g)
       \/ out.len = 0 /\ UNCHANGED checker
          /\ owner' = [h \in DOMAIN owner |->
                          [owner[h] EXCEPT !.role = IF @ = "write" THEN "nobody" ELSE @]]
    /\ phase' = "host"
    /\ UNCHANGED <<memory, args, out>>

WriteReturns_Shared ==
    /\ phase = "write"
    /\ \E g \in Of("write") :
          /\ shared_borrows' = BC!Without(shared_borrows, g.handle)
          /\ guards' = guards \ {g}
          /\ Disown(g.handle)
    /\ phase' = "host"
    /\ UNCHANGED <<mut_borrows, next_handle, memory, args, out>>

\* All items are written, or there are more of them than fit: an error, but
\* the borrow is given back either way.
WriteReturns ==
    /\ phase = "write"
    /\ \E g \in Of("write") : Unborrow(g)
    /\ phase' = "host"
    /\ UNCHANGED <<memory, args, out>>

-----------------------------------------------------------------------------

CONSTANTS Ptrs, Buffers  \* the regions and buffers a guest passes

ASSUME ArgsAssumption == Ptrs \subseteq BC!Regions /\ Buffers \subseteq BufferArg

Step ==
    \/ \E ptr \in Ptrs, inb, outb \in Buffers : Call(ptr, inb, outb)
    \/ Grow
    \/ BorrowPtr \/ BorrowPtrNotUtf8 \/ Iter \/ IterNext \/ DropValue
    \/ Reenter \/ Reentered \/ Return
    \/ Write \/ WriteAlloc \/ AllocReturns \/ WriteItem \/ WriteFails \/ WriteReturns

Next == Step /\ UNCHANGED <<allocates, in_bounds>>

Spec == Init /\ [][Next]_vars

-----------------------------------------------------------------------------
(* Properties.                                                             *)

Roles == {"ptr", "iter", "write", "nobody"}

\* The state is well typed, and every borrow has exactly one owner.
TypeOK ==
    /\ BC!TypeOK
    /\ DOMAIN owner = {g.handle : g \in guards}
    /\ \A h \in DOMAIN owner :
          owner[h] \in [role : Roles, base : 0..MaxBase, next : 0..args.inb.len,
                        at : 0..U32Max, inside : BOOLEAN]
    /\ memory \in [base : 0..MaxBase, size : 1..MaxSize]
    /\ phase \in {"guest", "host", "write", "alloc", "reenter"}
    /\ allocates \in BOOLEAN /\ in_bounds \in BOOLEAN
    /\ args \in [ptr : BC!Regions, inb : BufferArg, outb : BufferArg]

\* Whatever the import does with its parameters is a use of the borrow
\* checker as BorrowChecker.tla has it, so what holds there holds here, that no
\* live reference shares a byte with a mutable one above all: a failed write,
\* too, only keeps a borrow, it does not break the tables.
UsesBorrowChecker == BC!Spec

\* OutBuffer::write never leaves the buffer the guest passed, however often
\* it is called and fails: what was written and what is left make up the
\* buffer.
WritesStayInside ==
    phase # "guest" =>
        /\ out.len <= args.outb.len
        /\ out.offset = args.outb.offset + (args.outb.len - out.len) * ItemSize

\* What an iterator reads is part of the region it has borrowed, so that
\* nobody has it borrowed mutably: where the i32 of an address overflows, it is
\* negative and the read fails.  (Not so for the items after one that failed:
\* their addresses have wrapped and may be low ones again.)
ReadsCovered ==
    \A g \in Of("iter") :
        LET o == owner[g.handle]
        IN  o.inside /\ o.next > 0 =>
                o.at .. (o.at + ItemSize - 1) \subseteq BC!Bytes(g.region)

\* When all guards are dropped, has_outstanding_borrows is false again (the
\* docs of GuestMemory): an import leaves no borrow behind.
BorrowsReturned == phase = "guest" => ~BC!has_outstanding_borrows

\* It is so whenever no item of a write can fail: also when writes run out of
\* room, strings are refused and guards dropped in any order.
SafeBorrowsReturned == in_bounds /\ ~allocates => BorrowsReturned

\* No borrow is outstanding when the guest is reentered (the docs of
\* BorrowChecker and GuestMemory), so that it cannot change memory under a
\* reference.
NoReentryUnderBorrow == phase \in {"alloc", "reenter"} => guards = {}

\* When serializing an item does not call the guest, has_outstanding_borrows is
\* the right question to ask before reentering, in spite of borrows that failed
\* writes have leaked: a host reference into guest memory points to where the
\* memory is now, although memories move.
PointersCurrent ==
    ~allocates => \A g \in Of("ptr") : owner[g.handle].base = memory.base

=============================================================================
