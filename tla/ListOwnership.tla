---------------------------- MODULE ListOwnership ---------------------------
(***************************************************************************)
(* Who owns the guest's memory that lists live in, during one call between *)
(* the bindings of the host and of the guest.  The wrappers of both sides  *)
(* are run instruction by instruction (the emit of crates/gen-wasmtime and *)
(* crates/gen-rust-wasm); they meet in witx_malloc and witx_free.          *)
(*                                                                         *)
(* A list is canonical (its items are bytes with the same meaning on both  *)
(* sides) and then moved as it is, or its items own canonical lists        *)
(* themselves and are lowered and lifted one by one.  The guest's own      *)
(* functions are any safe Rust: they drop what they own, or hand it on.    *)
(***************************************************************************)
EXTENDS Integers, FiniteSets, Sequences, SequencesExt, Functions, FiniteSetsExt

CONSTANTS
    Canonical,  \* the types of items that are lowered canonically
    Nesting,    \* a type of items that are lists of an inner type: [Nesting -> Canonical]
    size,       \* the size of an item of a type ...
    align,      \* ... and its alignment
    Value,      \* lists that are passed: the type of the items, their number and the lengths
                \* of the lists they own
    MaxParams, MaxResults  \* bounds

\* Items take up space, and a list owns a list per item or none.
ASSUME ListsAssumption ==
    /\ size \in [Canonical \cup DOMAIN Nesting -> Nat \ {0}]
    /\ align \in [Canonical \cup DOMAIN Nesting -> Nat \ {0}]
    /\ Nesting \in [DOMAIN Nesting -> Canonical]
    /\ \A v \in Value :
          /\ v.item \in Canonical \cup DOMAIN Nesting
          /\ v.len \in Nat /\ v.of \in Seq(Nat)
          /\ IF v.item \in Canonical THEN v.of = <<>> ELSE Len(v.of) = v.len
    /\ MaxParams \in Nat /\ MaxResults \in Nat

VARIABLES
    call,     \* who calls whom, with what
    todo,     \* the instructions left of the wrappers
    heap,     \* the guest's allocator: layouts of what is allocated, by address
    at,       \* the address of each list
    owned,    \* the lists that the guest's Rust code owns, as vectors or boxed slices
    lifted,   \* the length of each list the host got back
    refused,  \* frees of what was not allocated, or not with that size
    dead,     \* lists that were read when their memory was not allocated
    failed    \* did a step of a wrapper fail?

vars == <<call, todo, heap, at, owned, lifted, refused, dead, failed>>

\* A list is named by where it is: the i-th parameter or result, and 0 or
\* the number of the item that owns it.  Space is where results are returned.
Space == <<"space", 0, 0>>
Pre(side) ==
    FlattenSeq([i \in DOMAIN call[side] |->
                  [j \in 1..(Len(call[side][i].of) + 1) |-> <<side, i, j - 1>>]])
Post(side) ==
    FlattenSeq([i \in DOMAIN call[side] |->
                  LET n == Len(call[side][i].of)
                  IN  [j \in 1..(n + 1) |-> <<side, i, IF j > n THEN 0 ELSE j>>]])
Lists(side) == ToSet(Pre(side))

Item(l) == LET v == call[l[1]][l[2]] IN IF l[3] = 0 THEN v.item ELSE Nesting[v.item]
Length(l) == LET v == call[l[1]][l[2]] IN IF l[3] = 0 THEN v.len ELSE v.of[l[3]]
IsCanonical(l) == Item(l) \in Canonical

\* The lists whose items are lowered one by one: those own the canonical ones.
Lowered(side) ==
    FlattenSeq([i \in DOMAIN call[side] |->
                  IF IsCanonical(<<side, i, 0>>) THEN <<>> ELSE <<<<side, i, 0>>>>])

\* Size and alignment of a list's memory, and of the space for results.
Layout(l) ==
    IF l = Space THEN [size |-> 8 * Len(call.results), align |-> 8]
    ELSE [size |-> Length(l) * size[Item(l)], align |-> align[Item(l)]]

Do(what, ls) == [i \in DOMAIN ls |-> [do |-> what, list |-> ls[i]]]
Once(what) == <<[do |-> what, list |-> Space]>>

\* An export's wrappers: the host lowers the parameters and makes space for
\* several results; the guest lifts them, calls its function and lowers the
\* results; the host lifts these and returns.
ExportWrappers ==
    LET space(what) == IF Len(call.results) > 1 THEN Once(what) ELSE <<>>
    IN  Do("malloc", Pre("params")) \o space("malloc")
        \o Do("guest lift", Post("params")) \o Once("export")
        \o Do("guest lower", Pre("results"))
        \o Do("host lift", Post("results")) \o space("return")

\* An import's: the guest lowers the parameters, which it keeps, and frees
\* what it allocated for that when it has lifted the results.
ImportWrappers ==
    Once("make params")
    \o Do("guest lower", Pre("params")) \o Do("host read", Post("params"))
    \o Do("malloc", Pre("results")) \o Do("guest lift", Post("results"))
    \o Do("return", Lowered("params")) \o Once("drop all")

Init ==
    /\ \E dir \in {"import", "export"},
          params \in SeqOf(Value, MaxParams), results \in SeqOf(Value, MaxResults) :
          call = [dir |-> dir, params |-> params, results |-> results]
    /\ todo = IF call.dir = "export" THEN ExportWrappers ELSE ImportWrappers
    /\ heap = <<>> /\ at = <<>>
    /\ owned = {} /\ lifted = <<>>
    /\ refused = {} /\ dead = {}
    /\ failed = FALSE

-----------------------------------------------------------------------------
(* The guest's allocator.                                                  *)

With(f, x, y) == [z \in DOMAIN f \cup {x} |-> IF z = x THEN y ELSE f[z]]

\* What a list without items points to when Rust made it: no allocation.
Dangling == 0
Unused == CHOOSE p \in 1..(Cardinality(DOMAIN heap) + 1) : p \notin DOMAIN heap

\* witx_malloc and alloc: a layout of size 0 is allocated like any other.
Alloc(l) ==
    /\ heap' = With(heap, Unused, Layout(l))
    /\ at' = With(at, l, Unused)

\* dealloc, with the size the caller takes the list to have.
Wrong(l) == at[l] \notin DOMAIN heap \/ heap[at[l]].size # Layout(l).size
Free(l) ==
    /\ heap' = Restrict(heap, DOMAIN heap \ {at[l]})
    /\ refused' = refused \cup (IF Wrong(l) THEN {l} ELSE {})

\* The items are looked at.
Read(l) == dead' = dead \cup (IF Length(l) > 0 /\ Wrong(l) THEN {l} ELSE {})

-----------------------------------------------------------------------------
(* The instructions.                                                       *)

Takes(what, l) == todo # <<>> /\ Head(todo) = [do |-> what, list |-> l] /\ todo' = Tail(todo)

\* The host's ListCanonLower, ListLower, allocate_i64_array.
HostMalloc(l) ==
    /\ Takes("malloc", l)
    /\ Alloc(l)
    /\ UNCHANGED <<call, owned, lifted, refused, dead, failed>>

\* The guest's ListCanonLift makes a Vec of the memory itself.
GuestCanonLift(l) ==
    /\ Takes("guest lift", l) /\ IsCanonical(l)
    /\ owned' = owned \cup {l}
    /\ Read(l)
    /\ UNCHANGED <<call, heap, at, lifted, refused, failed>>

\* Its ListLift makes a Vec of the lifted items and frees the memory (with an
\* alignment of 8, whatever it was allocated with: sizes are what is compared).
GuestListLift(l) ==
    /\ Takes("guest lift", l) /\ ~IsCanonical(l)
    /\ Read(l)
    /\ Free(l)
    /\ UNCHANGED <<call, at, owned, lifted, failed>>

\* Mutant: the boxed slice is not forgotten, and dropped with the wrapper.
GuestCanonLower_Dropped(l) ==
    /\ Takes("guest lower", l) /\ IsCanonical(l)
    /\ owned' = owned \ {l}
    /\ IF call.dir = "export" /\ Length(l) > 0 THEN Free(l) ELSE UNCHANGED <<heap, refused>>
    /\ UNCHANGED <<call, at, lifted, dead, failed>>

\* ListCanonLower of the guest: a result is given away (mem::forget), a
\* parameter stays where and whose it is.
GuestCanonLower(l) ==
    /\ Takes("guest lower", l) /\ IsCanonical(l)
    /\ owned' = IF call.dir = "export" THEN owned \ {l} ELSE owned
    /\ UNCHANGED <<call, heap, at, lifted, refused, dead, failed>>

GuestListLower(l) ==
    /\ Takes("guest lower", l) /\ ~IsCanonical(l)
    /\ Alloc(l)
    /\ UNCHANGED <<call, owned, lifted, refused, dead, failed>>

\* An import's parameter: a GuestPtr, or its items lifted; nothing is freed.
HostRead(l) ==
    /\ Takes("host read", l)
    /\ Read(l)
    /\ UNCHANGED <<call, heap, at, owned, lifted, refused, failed>>

\* Mutant: copy_slice passes the number of items to free.
HostCanonLift_Items(l) ==
    /\ Takes("host lift", l) /\ IsCanonical(l)
    /\ Read(l)
    /\ heap' = Restrict(heap, DOMAIN heap \ {at[l]})
    /\ refused' = refused \cup (IF Wrong(l) \/ Layout(l).size # Length(l) THEN {l} ELSE {})
    /\ lifted' = With(lifted, l, Layout(l).size)
    /\ UNCHANGED <<call, at, owned, failed>>

\* copy_slice: the length of the Vec is set to the number of bytes.
HostCanonLift(l) ==
    /\ Takes("host lift", l) /\ IsCanonical(l)
    /\ Read(l)
    /\ Free(l)
    /\ lifted' = With(lifted, l, Layout(l).size)
    /\ UNCHANGED <<call, at, owned, failed>>

\* The host's ListLift.
HostListLift(l) ==
    /\ Takes("host lift", l) /\ ~IsCanonical(l)
    /\ Read(l)
    /\ Free(l)
    /\ lifted' = With(lifted, l, Length(l))
    /\ UNCHANGED <<call, at, owned, failed>>

\* Mutant: the space for results is not freed.
Return_NoCleanup(l) ==
    /\ Takes("return", l)
    /\ IF l = Space THEN UNCHANGED <<heap, refused>> ELSE Free(l)
    /\ UNCHANGED <<call, at, owned, lifted, dead, failed>>

\* Return frees what is in cleanup, on either side.
Return(l) ==
    /\ Takes("return", l)
    /\ Free(l)
    /\ UNCHANGED <<call, at, owned, lifted, dead, failed>>

\* A step of a wrapper fails: the host returns early, or the guest traps.
\* Nothing is freed.
Fail ==
    /\ todo # <<>>
    /\ failed' = TRUE /\ todo' = <<>>
    /\ UNCHANGED <<call, heap, at, owned, lifted, refused, dead>>

-----------------------------------------------------------------------------
(* Safe Rust in the guest: the function that is exported, and the caller   *)
(* of an import.                                                           *)

GuestCode == [do : {"export", "make params", "drop all"}, list : {Space}]
GuestRuns == todo # <<>> /\ Head(todo) \in GuestCode

\* The vectors it is to have when it is done.
Wanted ==
    IF ~GuestRuns THEN {}
    ELSE {l \in CASE Head(todo).do = "export" -> Lists("results")
                  [] Head(todo).do = "make params" -> Lists("params")
                  [] OTHER -> {} : IsCanonical(l)}

\* A vector is made; an empty one has no memory.
NewVec(l) ==
    /\ GuestRuns /\ l \in Wanted \ owned
    /\ owned' = owned \cup {l}
    /\ IF Length(l) = 0 THEN at' = With(at, l, Dangling) /\ heap' = heap ELSE Alloc(l)
    /\ UNCHANGED <<call, todo, lifted, refused, dead, failed>>

\* A list is handed on.
MoveVec(k, l) ==
    /\ GuestRuns /\ k \in owned \ Wanted /\ l \in Wanted \ owned
    /\ Item(k) = Item(l) /\ Length(k) = Length(l) /\ Length(k) > 0
    /\ owned' = (owned \ {k}) \cup {l}
    /\ at' = With(at, l, at[k])
    /\ UNCHANGED <<call, todo, heap, lifted, refused, dead, failed>>

\* A list is dropped: one without items frees nothing.
DropVec(k) ==
    /\ GuestRuns /\ k \in owned \ Wanted
    /\ owned' = owned \ {k}
    /\ IF Length(k) = 0 THEN UNCHANGED <<heap, refused>> ELSE Free(k)
    /\ UNCHANGED <<call, todo, at, lifted, dead, failed>>

GuestDone ==
    /\ GuestRuns /\ owned = Wanted
    /\ todo' = Tail(todo)
    /\ UNCHANGED <<call, heap, at, owned, lifted, refused, dead, failed>>

Step ==
    \/ /\ todo # <<>>
       /\ LET l == Head(todo).list IN
          \/ HostMalloc(l) \/ Return(l)
          \/ GuestCanonLift(l) \/ GuestListLift(l)
          \/ GuestCanonLower(l) \/ GuestListLower(l)
          \/ HostRead(l) \/ HostCanonLift(l) \/ HostListLift(l)
    \/ \E l \in Wanted : NewVec(l)
    \/ \E k \in owned : DropVec(k) \/ \E l \in Wanted : MoveVec(k, l)
    \/ GuestDone

Next == Step \/ Fail

\* The thread goes on, and guest functions end.
Spec == Init /\ [][Next]_vars /\ WF_vars(Step)

-----------------------------------------------------------------------------
(* Properties.                                                             *)

\* Whoever frees a list with items frees memory that is allocated, once, and
\* with the size it has: also when a list that was received is passed on.
\* (The result of an empty list is freed though it was never allocated.)
FreesMatch == \A l \in refused : Length(l) = 0

\* No side reads a list whose memory it, or the other, has freed already.
ReadsLive == dead = {}

\* What the tests' allocator counts (test-rust-wasm/src/allocator.rs).
ALLOC_AMT == MapThenSumSet(LAMBDA p : heap[p].size, DOMAIN heap)

\* Everything allocated for a call is freed in the end, by one side or the
\* other, unless a step of the call fails ("Ensure that we properly called
\* `free` everywhere", test-wasmtime/src/exports.rs:21).
Freed == (ALLOC_AMT # 0) ~> (ALLOC_AMT = 0 \/ failed)

\* The host gets lists of the length that was passed.
ListsIntact == \A l \in DOMAIN lifted : lifted[l] = Length(l)

=============================================================================
