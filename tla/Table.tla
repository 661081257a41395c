------------------------------- MODULE Table --------------------------------
(***************************************************************************)
(* Table<T>, where the host keeps the resources a guest names by integer   *)
(* handles (crates/wasmtime/src/table.rs).  Slots are recycled through a   *)
(* free list threaded through the empty ones.  An import that works on a   *)
(* resource opens an access (the Borrows value), gets references through   *)
(* it, and they live until that access is dropped; what they pin is        *)
(* counted in the slots and listed in active_borrows, one list for all the *)
(* accesses that are open.                                                 *)
(*                                                                         *)
(* The host may be entered again while an access is open (an import calls  *)
(* an export of the guest, which calls an import), hence the stack of      *)
(* accesses.  Table is also a public type: a behaviour is one of generated *)
(* code, in which accesses nest, or one of any safe Rust, which may use or *)
(* drop any open access at any time.                                       *)
(***************************************************************************)
EXTENDS Integers, Sequences, FiniteSets

CONSTANTS
    Item,         \* the values of type T
    U32Max,       \* u32::MAX, the largest handle
    MaxAccesses,  \* bound: access_idx
    MaxBorrows    \* bound: length of active_borrows

ASSUME TableAssumption ==
    U32Max \in Nat /\ MaxAccesses \in Nat /\ MaxBorrows \in Nat

VARIABLES
    elems,           \* Vec<Slot<T>>, a function on 0 .. its length - 1
    next,            \* head of the free list; the length when it is empty
    active_borrows,  \* Vec<usize>: a slot index for every get still counted
    access_idx,      \* how many accesses are open
    accesses,        \* the open Borrows values and the references from them
    nested           \* is it generated code that uses the table?

table == <<elems, next, active_borrows, access_idx, accesses>>
vars == <<table, nested>>

elemsLen == Cardinality(DOMAIN elems)

Empty(next_empty) == [tag |-> "Empty", next_empty |-> next_empty]
Full(item, uses) == [tag |-> "Full", item |-> item, uses |-> uses]

IsFull(i) == i \in DOMAIN elems /\ elems[i].tag = "Full"
IsEmpty(i) == i \in DOMAIN elems /\ elems[i].tag = "Empty"

\* The values that are in the table; a value is moved in, so none is twice.
Stored == {elems[i].item : i \in {j \in DOMAIN elems : IsFull(j)}}

Occurrences(s, i) == Cardinality({k \in DOMAIN s : s[k] = i})

Init ==
    /\ elems = [i \in {} |-> Empty(0)]
    /\ next = 0
    /\ active_borrows = <<>>
    /\ access_idx = 0
    /\ accesses = <<>>
    /\ nested \in BOOLEAN

-----------------------------------------------------------------------------

\* The slots insert works on: one more, empty, when the free list is empty.
Grown == IF next = elemsLen
           THEN [i \in 0..elemsLen |-> IF i = elemsLen THEN Empty(next + 1) ELSE elems[i]]
           ELSE elems

\* insert, when the index fits a handle.
Insert(item) ==
    /\ item \notin Stored
    /\ next <= U32Max
    /\ elems' = [Grown EXCEPT ![next] = Full(item, 0)]
    /\ next' = Grown[next].next_empty
    /\ UNCHANGED <<active_borrows, access_idx, accesses>>

\* insert panics in u32::try_from, after it has grown the vector.
InsertPanics(item) ==
    /\ item \notin Stored
    /\ next > U32Max
    /\ elems' = Grown
    /\ UNCHANGED <<next, active_borrows, access_idx, accesses>>

\* Mutant: an access believes that every borrow is its own.
Access_FromStart ==
    /\ access_idx < MaxAccesses
    /\ access_idx' = access_idx + 1
    /\ accesses' = Append(accesses, [start |-> 0, access_idx |-> access_idx', refs |-> {}])
    /\ UNCHANGED <<elems, next, active_borrows>>

\* access
Access ==
    /\ access_idx < MaxAccesses
    /\ access_idx' = access_idx + 1
    /\ accesses' = Append(accesses,
          [start |-> Len(active_borrows), access_idx |-> access_idx', refs |-> {}])
    /\ UNCHANGED <<elems, next, active_borrows>>

\* Mutants: the count is not asked, or the slot not linked.
Remove_InUse(i) ==
    /\ IsFull(i)
    /\ elems' = [elems EXCEPT ![i] = Empty(next)]
    /\ next' = i
    /\ UNCHANGED <<active_borrows, access_idx, accesses>>

Remove_Unlinked(i) ==
    /\ IsFull(i)
    /\ elems[i].uses = 0
    /\ elems' = [elems EXCEPT ![i] = Empty(next)]
    /\ UNCHANGED <<next, active_borrows, access_idx, accesses>>

\* remove takes the item out when nothing uses it ...
Remove(i) ==
    /\ IsFull(i)
    /\ elems[i].uses = 0
    /\ elems' = [elems EXCEPT ![i] = Empty(next)]
    /\ next' = i
    /\ UNCHANGED <<active_borrows, access_idx, accesses>>

\* ... and otherwise puts the slot back: InUse or NotAllocated.
RemoveFails(i) ==
    /\ IsFull(i) => elems[i].uses # 0
    /\ UNCHANGED table

\* Mutant: the use is listed, but not counted.
Get_Uncounted(a, i) ==
    /\ IsFull(i)
    /\ Len(active_borrows) < MaxBorrows
    /\ active_borrows' = Append(active_borrows, i)
    /\ accesses' = [accesses EXCEPT ![a].refs = @ \cup {[index |-> i, item |-> elems[i].item]}]
    /\ UNCHANGED <<elems, next, access_idx>>

\* Borrows::get on the a-th open access.
Get(a, i) ==
    /\ IsFull(i)
    /\ Len(active_borrows) < MaxBorrows
    /\ active_borrows' = Append(active_borrows, i)
    /\ elems' = [elems EXCEPT ![i].uses = @ + 1]
    /\ accesses' = [accesses EXCEPT ![a].refs = @ \cup {[index |-> i, item |-> elems[i].item]}]
    /\ UNCHANGED <<next, access_idx>>

\* Borrows::get of a handle that names nothing: None.
GetNone(i) == ~IsFull(i) /\ UNCHANGED table

Gone(a) == [k \in 1..(Len(accesses) - 1) |-> accesses[IF k < a THEN k ELSE k + 1]]

Returned(drained) ==
    [i \in DOMAIN elems |->
        IF Occurrences(drained, i) = 0 THEN elems[i]
        ELSE [elems[i] EXCEPT !.uses = @ - Occurrences(drained, i)]]

\* Mutants: the list is shortened but no count; the assertion is gone.
Drop_Uncounted(a) ==
    /\ access_idx = accesses[a].access_idx
    /\ access_idx' = access_idx - 1
    /\ active_borrows' = SubSeq(active_borrows, 1, accesses[a].start)
    /\ accesses' = Gone(a)
    /\ UNCHANGED <<elems, next>>

Drop_AnyOrder(a) ==
    LET start == accesses[a].start
    IN  /\ access_idx' = access_idx - 1
        /\ active_borrows' = SubSeq(active_borrows, 1, start)
        /\ elems' = Returned(SubSeq(active_borrows, start + 1, Len(active_borrows)))
        /\ accesses' = Gone(a)
        /\ UNCHANGED next

\* impl Drop for Borrows: give back every get made since the access began.
\* What elems[i] is for a drained index i is never asked: an Empty slot there
\* would be unreachable!(), see UsesCounted.
Drop(a) ==
    LET start == accesses[a].start
    IN  /\ access_idx = accesses[a].access_idx
        /\ access_idx' = access_idx - 1
        /\ active_borrows' = SubSeq(active_borrows, 1, start)
        /\ elems' = Returned(SubSeq(active_borrows, start + 1, Len(active_borrows)))
        /\ accesses' = Gone(a)
        /\ UNCHANGED next

\* The assertion that accesses end in a stack-like fashion fails: the drop
\* panics, the value is gone and the table is as it was.
DropPanics(a) ==
    /\ access_idx # accesses[a].access_idx
    /\ accesses' = Gone(a)
    /\ UNCHANGED <<elems, next, active_borrows, access_idx>>

\* The handles a guest can pass, whether it was given them or not.
Handle == 0..U32Max

\* Generated code: an import gets references from its own access before it
\* calls the host function, and drops it when that returns; calls nest.  Safe
\* Rust: any open Borrows may be used or dropped next.
Usable == IF nested THEN {a \in DOMAIN accesses : a = Len(accesses)}
                    ELSE DOMAIN accesses

Step == \/ \E item \in Item : Insert(item) \/ InsertPanics(item)
        \/ Access
        \/ \E i \in Handle : Remove(i) \/ RemoveFails(i) \/ GetNone(i)
        \/ \E a \in Usable : \/ Drop(a) \/ DropPanics(a)
                           \/ \E i \in Handle : Get(a, i)

Next == Step /\ UNCHANGED nested

Spec == Init /\ [][Next]_vars

-----------------------------------------------------------------------------
(* Properties.                                                             *)

Slot == [tag : {"Empty"}, next_empty : Nat]
        \cup [tag : {"Full"}, item : Item, uses : Nat]

Reference == [index : DOMAIN elems, item : Item]

\* Every variable holds a value of its Rust type, and a count never goes
\* below zero (Nat).
TypeOK ==
    /\ DOMAIN elems = 0..(elemsLen - 1)
    /\ \A i \in DOMAIN elems : elems[i] \in Slot
    /\ next \in Nat
    /\ active_borrows \in Seq(DOMAIN elems)
    /\ access_idx \in Nat /\ nested \in BOOLEAN
    /\ \A a \in DOMAIN accesses :
          accesses[a] \in [start : Nat, access_idx : Nat, refs : SUBSET Reference]

\* Along the free list: where k steps from next lead.
FreeList[k \in Nat] ==
    IF k = 0 THEN next
    ELSE LET i == FreeList[k - 1]
         IN  IF IsEmpty(i) THEN elems[i].next_empty ELSE i

EmptySlots == {i \in DOMAIN elems : IsEmpty(i)}

\* The free list visits every empty slot once and then leaves the vector at
\* its very end, so that insert never overwrites an item (the unreachable!()
\* of insert), never loses a slot, and grows the vector only when it is full.
\* A failed insert or remove leaves it so.
FreeListComplete ==
    /\ {FreeList[k] : k \in 0..(Cardinality(EmptySlots) - 1)} = EmptySlots
    /\ FreeList[Cardinality(EmptySlots)] = elemsLen

\* A slot is marked in use as often as active_borrows lists it, and only full
\* slots are listed: Drop neither underflows a count nor meets an empty slot
\* (its unreachable!()), in whatever order accesses are used and dropped.
UsesCounted ==
    /\ \A k \in DOMAIN active_borrows : IsFull(active_borrows[k])
    /\ \A i \in DOMAIN elems :
          IsFull(i) => elems[i].uses = Occurrences(active_borrows, i)

\* The open accesses own disjoint tails of active_borrows, in the order of
\* their indices: no drain starts beyond the end of the list.
AccessesStacked ==
    /\ \A a \in DOMAIN accesses :
          accesses[a].start <= Len(active_borrows) /\ accesses[a].access_idx <= access_idx
    /\ \A a, b \in DOMAIN accesses :
          a < b => /\ accesses[a].access_idx < accesses[b].access_idx
                   /\ accesses[a].start <= accesses[b].start

\* While an item is borrowed from this table it cannot be removed (the doc of
\* Borrows::get): the slot a live reference came from still holds the item it
\* refers to.  The doc says so of every use of the table.
BorrowedItemsStay ==
    \A a \in DOMAIN accesses : \A r \in accesses[a].refs :
        IsFull(r.index) /\ elems[r.index].item = r.item

\* It is so when accesses nest: the reference a host function works with stays
\* good while the guest it calls back removes and inserts resources.
NestedBorrowsStay == nested => BorrowedItemsStay

\* The slots implement the map of HandleTable: each call that changes the
\* table is one step of that map.  Accesses that do not nest hold nothing: no
\* more is promised for them.
Items == [i \in {j \in DOMAIN elems : IsFull(j)} |-> elems[i].item]
HeldBy == IF nested THEN [a \in DOMAIN accesses |-> {r.index : r \in accesses[a].refs}]
                    ELSE <<>>

Map == INSTANCE HandleTable WITH items <- Items, held <- HeldBy

\* Inserts return unused handles, removes take out only what no access
\* references, and every reference ends with its access.
ImplementsHandleTable == Map!Spec

=============================================================================
