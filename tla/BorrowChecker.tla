--------------------------- MODULE BorrowChecker ----------------------------
(***************************************************************************)
(* The run-time borrow checker of the host runtime                         *)
(* (crates/wasmtime/src/region.rs) with its clients, the guards Borrow and *)
(* BorrowMut of crates/wasmtime/src/ptr.rs.                                *)
(*                                                                         *)
(* The checker never sees a reference: it knows handles and regions.  The  *)
(* references are the guards, so the guards are state of their own here,   *)
(* and the properties ask whether what the tables say is true of them.     *)
(* Guards are Rust values: they are created by a successful borrow, may    *)
(* live together in any combination, and are dropped in any order.         *)
(***************************************************************************)
EXTENDS Region

CONSTANT UsizeMax  \* usize::MAX, the last value of a BorrowHandle

ASSUME UsizeMaxAssumption == UsizeMax \in Nat \ {0}

VARIABLES
    shared_borrows,  \* HashMap<BorrowHandle, Region>, a partial function
    mut_borrows,     \* HashMap<BorrowHandle, Region>
    next_handle,     \* the next BorrowHandle to give out
    guards           \* the live Borrow and BorrowMut values

vars == <<shared_borrows, mut_borrows, next_handle, guards>>

Handles == 0 .. UsizeMax

\* A Borrow (mut = FALSE) or a BorrowMut; its pointer reaches the region.
Guard == [handle : Handles, region : Regions, mut : BOOLEAN]

EmptyMap == [h \in {} |-> 0]
Put(map, h, r) == [k \in DOMAIN map \cup {h} |-> IF k = h THEN r ELSE map[k]]
Without(map, h) == [k \in DOMAIN map \ {h} |-> map[k]]

Init ==
    /\ shared_borrows = EmptyMap
    /\ mut_borrows = EmptyMap
    /\ next_handle = 0
    /\ guards = {}

-----------------------------------------------------------------------------
(* The questions the checker answers.                                      *)

\* Mutant: one of the two maps is forgotten.
has_outstanding_borrows_MutOnly == DOMAIN mut_borrows # {}

has_outstanding_borrows ==
    ~(DOMAIN shared_borrows = {} /\ DOMAIN mut_borrows = {})

is_shared_borrowed(r) ==
    \E h \in DOMAIN shared_borrows : Overlaps(shared_borrows[h], r)

is_mut_borrowed(r) ==
    \E h \in DOMAIN mut_borrows : Overlaps(mut_borrows[h], r)

\* Mutant: mut_borrow does not look at the shared borrows.
Available_MutOnly(r, mut) == ~is_mut_borrowed(r)

\* May a borrow of r be granted, as far as the tables know?
Available(r, mut) ==
    /\ ~is_mut_borrowed(r)
    /\ mut => ~is_shared_borrowed(r)

\* Mutants: the reset looks at one map only, or never happens.
FreshHandle_NoMut == IF DOMAIN mut_borrows = {} THEN 0 ELSE next_handle
FreshHandle_NoReset == next_handle

\* new_handle: handles start again at 0 once all have been returned.
FreshHandle ==
    IF DOMAIN shared_borrows = {} /\ DOMAIN mut_borrows = {} THEN 0 ELSE next_handle

\* Mutant: the increment is not checked.
HandlesLeft_Unchecked == FreshHandle <= UsizeMax

\* new_handle fails when checked_add overflows.
HandlesLeft == FreshHandle < UsizeMax

-----------------------------------------------------------------------------
(* shared_borrow, mut_borrow and the guards made from their handles.       *)

\* PtrBorrowed: the region is lent out already.  BorrowCheckerOutOfHandles:
\* it is not, but no handle is left; new_handle then leaves next_handle
\* alone, as it only resets it when nothing is outstanding.
PtrBorrowed(r, mut) == ~Available(r, mut) /\ UNCHANGED vars
OutOfHandles(r, mut) == Available(r, mut) /\ ~HandlesLeft /\ UNCHANGED vars

SharedBorrow(r) ==
    /\ Available(r, FALSE) /\ HandlesLeft
    /\ shared_borrows' = Put(shared_borrows, FreshHandle, r)
    /\ next_handle' = FreshHandle + 1
    /\ guards' = guards \cup {[handle |-> FreshHandle, region |-> r, mut |-> FALSE]}
    /\ UNCHANGED mut_borrows

MutBorrow(r) ==
    /\ Available(r, TRUE) /\ HandlesLeft
    /\ mut_borrows' = Put(mut_borrows, FreshHandle, r)
    /\ next_handle' = FreshHandle + 1
    /\ guards' = guards \cup {[handle |-> FreshHandle, region |-> r, mut |-> TRUE]}
    /\ UNCHANGED shared_borrows

\* Mutant: the bytes are always given back as a shared borrow.
BorrowNotUtf8_Shared(r, mut) ==
    /\ Available(r, mut) /\ HandlesLeft
    /\ next_handle' = FreshHandle + 1
    /\ mut_borrows' = IF mut THEN Put(mut_borrows, FreshHandle, r) ELSE mut_borrows
    /\ UNCHANGED <<shared_borrows, guards>>

\* Pointee::validate for str: the bytes are borrowed, turn out not to be
\* UTF-8, and are given back to the table they came from before any guard
\* exists.  The handle is used up.
BorrowNotUtf8(r, mut) ==
    /\ Available(r, mut) /\ HandlesLeft
    /\ next_handle' = FreshHandle + 1
    /\ \/ /\ mut
          /\ mut_borrows' = Without(Put(mut_borrows, FreshHandle, r), FreshHandle)
          /\ UNCHANGED shared_borrows
       \/ /\ ~mut
          /\ shared_borrows' = Without(Put(shared_borrows, FreshHandle, r), FreshHandle)
          /\ UNCHANGED mut_borrows
    /\ UNCHANGED guards

\* impl Drop for Borrow: shared_unborrow of the guard's handle.
DropShared(g) ==
    /\ ~g.mut
    /\ shared_borrows' = Without(shared_borrows, g.handle)
    /\ guards' = guards \ {g}
    /\ UNCHANGED <<mut_borrows, next_handle>>

\* impl Drop for BorrowMut: mut_unborrow of the guard's handle.
DropMut(g) ==
    /\ g.mut
    /\ mut_borrows' = Without(mut_borrows, g.handle)
    /\ guards' = guards \ {g}
    /\ UNCHANGED <<shared_borrows, next_handle>>

Next ==
    \/ \E r \in Regions :
           \/ SharedBorrow(r)
           \/ MutBorrow(r)
           \/ \E mut \in BOOLEAN :
                  PtrBorrowed(r, mut) \/ OutOfHandles(r, mut) \/ BorrowNotUtf8(r, mut)
    \/ \E g \in guards : DropShared(g) \/ DropMut(g)

Spec == Init /\ [][Next]_vars

-----------------------------------------------------------------------------
(* Properties.                                                             *)

\* Every variable holds a value of its Rust type.
TypeOK ==
    /\ DOMAIN shared_borrows \subseteq Handles
    /\ shared_borrows \in [DOMAIN shared_borrows -> Regions]
    /\ DOMAIN mut_borrows \subseteq Handles
    /\ mut_borrows \in [DOMAIN mut_borrows -> Regions]
    /\ next_handle \in Handles
    /\ guards \subseteq Guard

\* The reason the checker exists (BorrowChecker::new): two live references
\* into guest memory reach a common byte only if both are shared.  Stated of
\* the guards' bytes, so it depends on the interval arithmetic of overlaps()
\* and on no handle ever being issued twice.
NoAliasing ==
    \A g, k \in guards :
        g # k /\ Bytes(g.region) \cap Bytes(k.region) # {} => ~g.mut /\ ~k.mut

\* Every live guard is the one its handle names in the table its Drop will
\* look in, and the tables hold nothing else: no drop is a double free (the
\* debug_assert of the unborrow functions), no drop releases another guard's
\* region, no borrow stays behind when its guard is gone.
GuardsTracked ==
    guards = {[handle |-> h, region |-> shared_borrows[h], mut |-> FALSE] :
                 h \in DOMAIN shared_borrows}
             \cup
             {[handle |-> h, region |-> mut_borrows[h], mut |-> TRUE] :
                 h \in DOMAIN mut_borrows}

\* A handle names one live guard, of whichever kind, although handles are
\* recycled (new_handle starts again at 0) and str borrows burn them.
HandlesUnique == \A g, k \in guards : g.handle = k.handle => g = k

\* The checker refuses exactly what it must: a region is available if and
\* only if no live guard reaches one of its bytes while one of the two is
\* mutable; and handles only run out while some guard is held (the comment
\* in new_handle), so dropping every guard always helps.
RefusalsExact ==
    /\ \A r \in Regions, mut \in BOOLEAN :
          Available(r, mut) <=>
              \A g \in guards : g.mut \/ mut => Bytes(g.region) \cap Bytes(r) = {}
    /\ ~HandlesLeft => guards # {}

\* The checker implements the per-byte readers/writer locks of ByteLocks,
\* the handles being the holders.
ByteReaders == [b \in AllBytes |->
    {h \in DOMAIN shared_borrows : b \in Bytes(shared_borrows[h])}]
ByteWriters == [b \in AllBytes |->
    {h \in DOMAIN mut_borrows : b \in Bytes(mut_borrows[h])}]

Locks == INSTANCE ByteLocks WITH
    Byte <- AllBytes, Holder <- Handles,
    readers <- ByteReaders, writers <- ByteWriters

\* Every step of the checker acquires the locks of exactly the bytes of one
\* region, releases exactly those of one guard, or touches no lock.
ImplementsByteLocks == Locks!Spec

=============================================================================
