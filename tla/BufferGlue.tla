----------------------------- MODULE BufferGlue -----------------------------
(***************************************************************************)
(* Buffers passed to a guest by handle (crates/wasmtime/src/exports.rs).   *)
(*                                                                         *)
(* The wrapper of an exported function (crates/gen-wasmtime) puts the      *)
(* host's slices, iterators and vectors into the slabs of BufferGlue,      *)
(* calls the guest with their handles, and takes them out again when the   *)
(* wrapper's BufferTransaction is dropped, however the call ends.  The     *)
(* guest reads and writes them through the intrinsics in_len, in_read,     *)
(* out_len and out_write.                                                  *)
(*                                                                         *)
(* A slab entry is a raw pointer into the frame of the wrapper, and the    *)
(* calls nest: the guest calls imports, whose host functions call exports  *)
(* again; and the serializer of one item calls the guest's witx_malloc (or *)
(* witx_free) in the middle of in_read (out_write).  So the state is the   *)
(* two slabs and the stack of frames, host and guest.                      *)
(***************************************************************************)
EXTENDS Integers, Sequences, FiniteSets

CONSTANTS
    Lengths,     \* bound: numbers of items of the buffers passed
    MaxLen,      \* bound: the largest of them
    MaxBuffers,  \* bound: buffers of all calls on the stack
    MaxDepth     \* bound: frames on the stack

ASSUME BufferAssumption ==
    /\ Lengths \subseteq 0..MaxLen
    /\ MaxLen \in Nat /\ MaxBuffers \in Nat /\ MaxDepth \in Nat

VARIABLES
    in_buffers,   \* Slab<Buffer<Input>>
    out_buffers,  \* Slab<Buffer<Output>>
    stack,        \* the frames, innermost last
    unwinding,    \* "no", or what unwinds the stack: "trap", "panic"; or "abort"
    runtime       \* is the guest one built on the runtime of crates/rust-wasm?

glue == <<in_buffers, out_buffers, stack, unwinding>>
vars == <<glue, runtime>>

(***************************************************************************)
(* The frames:                                                             *)
(*   wrapper    the wrapper of an export, owner of a BufferTransaction and *)
(*              of the host data behind its handles: how many items are    *)
(*              left in the slice or iterator, or how much room there is.  *)
(*   wasm       the guest's exported function                              *)
(*   alloc      the guest's witx_malloc or witx_free                       *)
(*   import     a function of the host, called by the guest                *)
(*   in_read    in_read's shim, serializing items of an iterator           *)
(*   out_write  out_write's shim, deserializing items into a vector; its   *)
(*              caller holds the RefCell of the slabs all the while        *)
(***************************************************************************)
Wrapper == [kind |-> "wrapper", buffers |-> <<>>, called |-> FALSE]
Frame(kind) == [kind |-> kind]

Depth == Len(stack)
Top == stack[Depth]
TopIs(kinds) == Depth > 0 /\ Top.kind \in kinds
Below == SubSeq(stack, 1, Depth - 1)
Pushed(f) == Append(stack, f)

\* The buffers of all wrappers on the stack, as <<frame, index>>.
LiveBuffers == {p \in (1..Depth) \X (1..MaxBuffers) :
                   stack[p[1]].kind = "wrapper" /\ p[2] \in DOMAIN stack[p[1]].buffers}

\* The slabs cannot be borrowed a second time while out_write's shim runs.
Locked == \E d \in 1..Depth : stack[d].kind = "out_write"

GuestRuns == unwinding = "no" /\ TopIs({"wasm", "alloc"})
HostRuns == unwinding = "no" /\ (Depth = 0 \/ TopIs({"import"}))

-----------------------------------------------------------------------------
(* Slab: entries by index, the empty ones linked in a list.                *)

EmptySlab == [storage |-> [i \in {} |-> 0], next |-> 0]

slabLen(s) == Cardinality(DOMAIN s.storage)

Link(next) == [tag |-> "Empty", next |-> next]
Buffer(b) == [tag |-> "Full", buffer |-> b]

SlabInsert(s, b) ==
    IF s.next = slabLen(s)
      THEN [storage |-> [i \in 0..s.next |-> IF i = s.next THEN Buffer(b) ELSE s.storage[i]],
            next |-> s.next + 1]
      ELSE [storage |-> [s.storage EXCEPT ![s.next] = Buffer(b)],
            next |-> s.storage[s.next].next]

\* Mutant: the removed entry is not made the head of the list.
SlabRemove_Unlinked(s, i) == [s EXCEPT !.storage[i] = Link(s.next)]

SlabRemove(s, i) == [storage |-> [s.storage EXCEPT ![i] = Link(s.next)], next |-> i]

Allocated(s) == {i \in DOMAIN s.storage : s.storage[i].tag = "Full"}

\* get_mut(handle).len -= n
Consume(s, i, n) == [s EXCEPT !.storage[i].buffer.len = @ - n]

Slab(out) == IF out THEN out_buffers ELSE in_buffers
Get(out, h) == Slab(out).storage[h].buffer

\* The buffer's raw pointer: frame d, k-th buffer of its transaction.
Rest(out, h) == LET p == Get(out, h).ptr IN stack[p[1]].buffers[p[2]].rest
Advance(stk, out, h, n) ==
    LET p == Get(out, h).ptr IN [stk EXCEPT ![p[1]].buffers[p[2]].rest = @ - n]

Init ==
    /\ in_buffers = EmptySlab
    /\ out_buffers = EmptySlab
    /\ stack = <<>>
    /\ unwinding = "no"
    /\ runtime \in BOOLEAN

slabs == <<in_buffers, out_buffers>>

-----------------------------------------------------------------------------
(* The host's side of a call.                                              *)

\* A wrapper starts; it creates a transaction, still without handles.
BeginCall ==
    /\ HostRuns /\ Depth < MaxDepth
    /\ stack' = Pushed(Wrapper)
    /\ UNCHANGED <<slabs, unwinding>>

\* push_in_raw, push_in, push_out_raw, push_out.  While the slabs are locked
\* borrow_mut panics, and so does, during that panic, the transaction's drop.
Push(out, raw, n) ==
    /\ unwinding = "no" /\ TopIs({"wrapper"})
    /\ ~Top.called /\ Cardinality(LiveBuffers) < MaxBuffers
    /\ IF Locked
         THEN unwinding' = "abort" /\ UNCHANGED <<slabs, stack>>
         ELSE LET k == Len(Top.buffers) + 1
                  b == [len |-> n, raw |-> raw, ptr |-> <<Depth, k>>]
                  h == Slab(out).next
              IN  /\ stack' = [stack EXCEPT ![Depth].buffers =
                                  Append(@, [out |-> out, handle |-> h, rest |-> n])]
                  /\ IF out
                       THEN out_buffers' = SlabInsert(out_buffers, b) /\ UNCHANGED in_buffers
                       ELSE in_buffers' = SlabInsert(in_buffers, b) /\ UNCHANGED out_buffers
                  /\ UNCHANGED unwinding

\* The wrapper calls the exported function with the handles.
CallWasm ==
    /\ unwinding = "no" /\ TopIs({"wrapper"}) /\ ~Top.called /\ Depth < MaxDepth
    /\ stack' = Append([stack EXCEPT ![Depth].called = TRUE], Frame("wasm"))
    /\ UNCHANGED <<slabs, unwinding>>

\* Lowering arguments, lifting results, serializing or deserializing an item
\* of a buffer: each may call witx_malloc or witx_free.
CallAlloc ==
    /\ unwinding = "no" /\ Depth < MaxDepth
    /\ TopIs({"wrapper", "in_read", "out_write"})
    /\ Top.kind = "in_read" => Top.pending
    /\ Top.kind = "out_write" => Top.left > 0
    /\ stack' = Pushed(Frame("alloc"))
    /\ UNCHANGED <<slabs, unwinding>>

\* Lowering arguments or lifting results fails: a guest address out of bounds,
\* an invalid char, variant or utf-8 text.
WrapperFails ==
    /\ unwinding = "no" /\ TopIs({"wrapper"})
    /\ unwinding' = "trap"
    /\ UNCHANGED <<slabs, stack>>

\* impl Drop for BufferTransaction: the handles are removed in order, each
\* from the slab it belongs to.  (Here for one of the slabs.)
Emptied(s, out, buffers) ==
    LET after[k \in 0..Len(buffers)] ==
            IF k = 0 THEN s
            ELSE IF buffers[k].out = out THEN SlabRemove(after[k - 1], buffers[k].handle)
            ELSE after[k - 1]
    IN  after[Len(buffers)]

\* Mutant: every handle is taken for an in-buffer's.
DropTransaction_InOnly ==
    /\ in_buffers' = Emptied(in_buffers, FALSE, Top.buffers)
    /\ UNCHANGED out_buffers

DropTransaction ==
    /\ in_buffers' = Emptied(in_buffers, FALSE, Top.buffers)
    /\ out_buffers' = Emptied(out_buffers, TRUE, Top.buffers)

\* The wrapper returns.  If the slabs are locked the drop panics.
EndCall ==
    /\ unwinding = "no" /\ TopIs({"wrapper"}) /\ Top.called
    /\ stack' = Below
    /\ IF Locked THEN unwinding' = "panic" /\ UNCHANGED slabs
                 ELSE DropTransaction /\ UNCHANGED unwinding

\* A host function called by the guest returns, or fails with a trap.
ImportReturns ==
    /\ unwinding = "no" /\ TopIs({"import"})
    /\ stack' = Below
    /\ unwinding' \in {"no", "trap"}
    /\ UNCHANGED slabs

-----------------------------------------------------------------------------
(* The guest's side of a call.                                             *)

GuestCallsImport ==
    /\ GuestRuns /\ Depth < MaxDepth
    /\ stack' = Pushed(Frame("import"))
    /\ UNCHANGED <<slabs, unwinding>>

\* The guest's function returns, or traps of its own accord.
GuestReturns ==
    /\ GuestRuns
    /\ stack' = Below
    /\ unwinding' \in {"no", "trap"}
    /\ UNCHANGED slabs

\* Every intrinsic starts with a borrow_mut of the slabs, which panics when
\* they are locked, and then traps unless the handle names a buffer and,
\* for in_read and out_write, the buffer has that many items left.
IntrinsicPanics ==
    /\ GuestRuns /\ Locked
    /\ unwinding' = "panic"
    /\ UNCHANGED <<slabs, stack>>

IntrinsicTraps(out, h, n) ==
    /\ GuestRuns /\ ~Locked
    /\ h \in Allocated(Slab(out)) => n > Get(out, h).len
    /\ unwinding' = "trap"
    /\ UNCHANGED <<slabs, stack>>

\* in_len and out_len return the len of the buffer.
GetLen(out, h) ==
    /\ GuestRuns /\ ~Locked
    /\ h \in Allocated(Slab(out))
    /\ UNCHANGED glue

\* Mutants: how many items are left is not asked, or asked wrongly.
Granted_Unchecked(out, h, n) ==
    /\ GuestRuns /\ ~Locked
    /\ h \in Allocated(Slab(out))

Granted_OffByOne(out, h, n) ==
    /\ GuestRuns /\ ~Locked
    /\ h \in Allocated(Slab(out)) /\ n <= Get(out, h).len + 1

Granted(out, h, n) ==
    /\ GuestRuns /\ ~Locked
    /\ h \in Allocated(Slab(out)) /\ n <= Get(out, h).len

\* Mutant: the pointer stays where it is.
InReadRaw_NotAdvanced(h, n) ==
    /\ Granted(FALSE, h, n) /\ Get(FALSE, h).raw
    /\ in_buffers' = Consume(in_buffers, h, n)
    /\ UNCHANGED <<stack, out_buffers, unwinding>>

\* A raw buffer is copied at once, and its pointer advanced ...
InReadRaw(h, n) ==
    /\ Granted(FALSE, h, n) /\ Get(FALSE, h).raw
    /\ in_buffers' = Consume(in_buffers, h, n)
    /\ stack' = Advance(stack, FALSE, h, n)
    /\ UNCHANGED <<out_buffers, unwinding>>

OutWriteRaw(h, n) ==
    /\ Granted(TRUE, h, n) /\ Get(TRUE, h).raw
    /\ out_buffers' = Consume(out_buffers, h, n)
    /\ stack' = Advance(stack, TRUE, h, n)
    /\ UNCHANGED <<in_buffers, unwinding>>

\* ... unless the guest's memory is too small.
RawOutOfBounds(out, h, n) ==
    /\ Granted(out, h, n) /\ Get(out, h).raw
    /\ unwinding' = "trap"
    /\ UNCHANGED <<slabs, stack>>

\* Mutant: the items are counted before the shim runs, and again after.
InReadGeneral_CountsTwice(h, n) ==
    /\ Granted(FALSE, h, n) /\ ~Get(FALSE, h).raw /\ Depth < MaxDepth
    /\ in_buffers' = Consume(in_buffers, h, n)
    /\ stack' = Pushed([kind |-> "in_read", handle |-> h, left |-> n,
                        processed |-> 0, pending |-> FALSE])
    /\ UNCHANGED <<out_buffers, unwinding>>

\* in_read of an iterator drops the RefCell guard and runs the shim.
InReadGeneral(h, n) ==
    /\ Granted(FALSE, h, n) /\ ~Get(FALSE, h).raw /\ Depth < MaxDepth
    /\ stack' = Pushed([kind |-> "in_read", handle |-> h, left |-> n,
                        processed |-> 0, pending |-> FALSE])
    /\ UNCHANGED <<slabs, unwinding>>

\* The shim takes the next item; unwrap panics if there is none.
NextItem ==
    /\ unwinding = "no" /\ TopIs({"in_read"}) /\ ~Top.pending /\ Top.left > 0
    /\ UNCHANGED slabs
    /\ IF Rest(FALSE, Top.handle) > 0
         THEN /\ stack' = [Advance(stack, FALSE, Top.handle, 1) EXCEPT ![Depth].pending = TRUE]
              /\ UNCHANGED unwinding
         ELSE unwinding' = "panic" /\ UNCHANGED stack

\* The item is in the guest's memory and counted.
ItemWritten ==
    /\ unwinding = "no" /\ TopIs({"in_read"}) /\ Top.pending
    /\ stack' = [stack EXCEPT ![Depth].pending = FALSE, ![Depth].left = @ - 1,
                              ![Depth].processed = @ + 1]
    /\ UNCHANGED <<slabs, unwinding>>

\* Mutant: what was processed is not subtracted.
InReadReturns_Uncounted ==
    /\ unwinding = "no" /\ TopIs({"in_read"})
    /\ stack' = Below
    /\ \/ Top.left = 0 /\ UNCHANGED unwinding
       \/ Top.pending /\ unwinding' = "trap"
    /\ UNCHANGED slabs

\* in_read returns: what the shim processed is gone from the buffer, also if
\* an item failed, which was taken from the iterator and is not counted.
InReadReturns ==
    /\ unwinding = "no" /\ TopIs({"in_read"})
    /\ in_buffers' = Consume(in_buffers, Top.handle, Top.processed)
    /\ stack' = Below
    /\ \/ Top.left = 0 /\ UNCHANGED unwinding
       \/ Top.pending /\ unwinding' = "trap"
    /\ UNCHANGED out_buffers

\* out_write of a vector keeps the RefCell guard and runs the shim.
OutWriteGeneral(h, n) ==
    /\ Granted(TRUE, h, n) /\ ~Get(TRUE, h).raw /\ Depth < MaxDepth
    /\ stack' = Pushed([kind |-> "out_write", handle |-> h, left |-> n, want |-> n])
    /\ UNCHANGED <<slabs, unwinding>>

\* The shim deserializes an item and pushes it to the vector, which grows
\* beyond the room there was if it must (here: by MaxLen items at most).
ItemPushed ==
    /\ unwinding = "no" /\ TopIs({"out_write"}) /\ Top.left > 0
    /\ Rest(TRUE, Top.handle) > -MaxLen
    /\ stack' = [Advance(stack, TRUE, Top.handle, 1) EXCEPT ![Depth].left = @ - 1]
    /\ UNCHANGED <<slabs, unwinding>>

\* out_write returns; when an item fails to deserialize the buffer keeps its
\* len, whatever was pushed before.
OutWriteReturns ==
    /\ unwinding = "no" /\ TopIs({"out_write"})
    /\ stack' = Below
    /\ \/ /\ Top.left = 0
          /\ out_buffers' = Consume(out_buffers, Top.handle, Top.want)
          /\ UNCHANGED unwinding
       \/ Top.left > 0 /\ unwinding' = "trap" /\ UNCHANGED out_buffers
    /\ UNCHANGED in_buffers

-----------------------------------------------------------------------------
(* A trap or a panic unwinds the frames, running their destructors.        *)

\* The guest's frames have none.  A trap that reaches a shim's item (from
\* witx_malloc or witx_free) makes in_read or out_write fail in turn; in_read
\* still counts what was processed.
TrapLeavesFrame ==
    /\ unwinding = "trap" /\ TopIs({"wasm", "alloc", "in_read", "out_write"})
    /\ stack' = Below
    /\ IF Top.kind = "in_read"
         THEN in_buffers' = Consume(in_buffers, Top.handle, Top.processed)
         ELSE UNCHANGED in_buffers
    /\ UNCHANGED <<out_buffers, unwinding>>

\* The wrapper turns a trap into an Err for its caller, and its transaction
\* is dropped; a drop that finds the slabs locked panics.
TrapLeavesWrapper ==
    /\ unwinding = "trap" /\ TopIs({"wrapper"})
    /\ stack' = Below
    /\ IF Locked THEN unwinding' = "panic" /\ UNCHANGED slabs
                 ELSE unwinding' = "no" /\ DropTransaction

\* A panic goes through guest and host frames alike; the panicking drop of a
\* transaction during it aborts the process.
PanicLeavesFrame ==
    /\ unwinding = "panic" /\ Depth > 0
    /\ IF ~TopIs({"wrapper"})
         THEN stack' = Below /\ UNCHANGED <<slabs, unwinding>>
       ELSE IF Locked
         THEN unwinding' = "abort" /\ UNCHANGED <<slabs, stack>>
       ELSE stack' = Below /\ DropTransaction /\ UNCHANGED unwinding

\* The embedder catches the panic.
PanicCaught ==
    /\ unwinding = "panic" /\ Depth = 0
    /\ unwinding' = "no"
    /\ UNCHANGED <<slabs, stack>>

\* After an abort nothing happens.
Aborted == unwinding = "abort" /\ UNCHANGED glue

Unwind == \/ TrapLeavesFrame \/ TrapLeavesWrapper
          \/ PanicLeavesFrame \/ PanicCaught \/ Aborted

-----------------------------------------------------------------------------

\* The handles a guest passes: any allocated so far, and one that is not.
Handle(out) == 0..slabLen(Slab(out))

Intrinsic(out, h) ==
    \/ GetLen(out, h)
    \/ \E n \in 0..MaxLen :
           \/ Granted(out, h, n) /\ IF out THEN OutWriteRaw(h, n) \/ OutWriteGeneral(h, n)
                                           ELSE InReadRaw(h, n) \/ InReadGeneral(h, n)
           \/ RawOutOfBounds(out, h, n)
           \/ IntrinsicTraps(out, h, n)

Host == \/ BeginCall \/ CallWasm \/ CallAlloc \/ WrapperFails \/ EndCall \/ ImportReturns
        \/ \E out, raw \in BOOLEAN, n \in Lengths : Push(out, raw, n)
        \/ NextItem \/ ItemWritten \/ InReadReturns \/ ItemPushed \/ OutWriteReturns
        \/ Unwind

\* The guest runtime of crates/rust-wasm: witx_malloc and witx_free call
\* nothing, and the buffer types live no longer than the exported function
\* they were passed to, so that it uses the handles of its own call.  Any
\* other guest may use every intrinsic, import and handle at any time.
MayCall == runtime => TopIs({"wasm"})
Own(out, h) == TopIs({"wasm"}) /\
    \E k \in DOMAIN stack[Depth - 1].buffers :
        stack[Depth - 1].buffers[k].out = out /\ stack[Depth - 1].buffers[k].handle = h

Step == \/ Host
        \/ MayCall /\ GuestCallsImport
        \/ GuestReturns
        \/ MayCall /\ IntrinsicPanics
        \/ \E out \in BOOLEAN : \E h \in Handle(out) :
               (runtime => Own(out, h)) /\ Intrinsic(out, h)

Next == Step /\ UNCHANGED runtime

Spec == Init /\ [][Next]_vars

-----------------------------------------------------------------------------
(* Properties.                                                             *)

BufferRecord == [len : Nat, raw : BOOLEAN, ptr : (1..MaxDepth) \X (1..MaxBuffers)]

SlabType(s) ==
    /\ DOMAIN s.storage = 0..(slabLen(s) - 1)
    /\ s.next \in 0..slabLen(s)
    /\ \A i \in DOMAIN s.storage :
          s.storage[i] \in [tag : {"Full"}, buffer : BufferRecord]
                           \cup [tag : {"Empty"}, next : Nat]

\* The slabs are well typed; in particular no len ever goes below zero,
\* whatever the guest does while in_read's shim runs.
TypeOK ==
    /\ SlabType(in_buffers) /\ SlabType(out_buffers)
    /\ unwinding \in {"no", "trap", "panic", "abort"} /\ runtime \in BOOLEAN
    /\ \A d \in 1..Depth : stack[d].kind \in
          {"wrapper", "wasm", "alloc", "import", "in_read", "out_write"}

\* Every entry of a slab points into the frame of a wrapper that is still on
\* the stack and lists its handle, and every handle a wrapper listed has its
\* entry: no raw pointer dangles, no entry is leaked by a trap or a panic,
\* no handle names two buffers -- for any guest, however calls nest.
HandlesOwned ==
    unwinding # "abort" =>
    \A out \in BOOLEAN :
        {<<h, Get(out, h).ptr>> : h \in Allocated(Slab(out))} =
        {<<stack[p[1]].buffers[p[2]].handle, p>> :
            p \in {q \in LiveBuffers : stack[q[1]].buffers[q[2]].out = out}}

\* Along the free list of a slab: where k steps from its head lead.
FreeIndex(s) ==
    LET at[k \in Nat] == IF k = 0 THEN s.next
                         ELSE IF at[k - 1] \in DOMAIN s.storage \ Allocated(s)
                                THEN s.storage[at[k - 1]].next ELSE at[k - 1]
    IN  at

\* The free list of each slab visits every empty entry once and ends at the
\* end of the storage (the unreachable!() of Slab::insert), although the
\* transactions of nested calls remove their handles in insertion order.
FreeListsComplete ==
    \A s \in {in_buffers, out_buffers} :
        LET free == DOMAIN s.storage \ Allocated(s) IN
        /\ {FreeIndex(s)[k] : k \in 0..(Cardinality(free) - 1)} = free
        /\ FreeIndex(s)[Cardinality(free)] = slabLen(s)

\* A copy to or from a raw buffer stays inside the host's slice, for any
\* guest: the unsafe slices of in_read and out_write are as long as they say.
RawInBounds ==
    unwinding # "abort" =>
    \A out \in BOOLEAN : \A h \in Allocated(Slab(out)) :
        Get(out, h).raw => Get(out, h).len = Rest(out, h)

\* The sum of a sequence of numbers.
Total(counts) ==
    LET sum[k \in 0..Len(counts)] == IF k = 0 THEN 0 ELSE sum[k - 1] + counts[k]
    IN  sum[Len(counts)]

\* What all the frames of in_read that work on a handle have processed so far.
Reads(f, h) == f.kind = "in_read" /\ f.handle = h
Processed(h) ==
    Total([d \in 1..Depth |-> IF Reads(stack[d], h) THEN stack[d].processed ELSE 0])

\* in_read's last step finds its buffer still there (its expect) and large
\* enough to subtract what was processed, whatever the guest did from within
\* the shim, reading the same buffer again included.
ReadersBacked ==
    unwinding # "abort" =>
    \A d \in 1..Depth : stack[d].kind = "in_read" =>
        LET h == stack[d].handle IN
        h \in Allocated(in_buffers) /\ Processed(h) <= Get(FALSE, h).len

\* What len and capacity tell the guest (crates/rust-wasm/src/exports.rs) is
\* what is there: when a guest function runs, and none runs in the middle of
\* an in_read or out_write, each buffer has exactly len items left, or room
\* for len items.  (A guest that reads another call's buffer may trap in it and
\* be called again.)
LenIsAvailable ==
    runtime /\ GuestRuns /\ TopIs({"wasm"})
    /\ (\A d \in 1..Depth : stack[d].kind \notin {"in_read", "out_write"}) =>
        \A out \in BOOLEAN : \A h \in Allocated(Slab(out)) :
            Get(out, h).len = Rest(out, h)

\* Neither the unwrap in in_read's shim nor the RefCell panics, if the guest
\* is built on the guest runtime.
NeverPanics == runtime => unwinding \notin {"panic", "abort"}

=============================================================================
