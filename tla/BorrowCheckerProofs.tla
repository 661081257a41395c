------------------------ MODULE BorrowCheckerProofs -------------------------
(***************************************************************************)
(* Proofs about BorrowChecker, for every width of an address and of a      *)
(* handle.                                                                 *)
(***************************************************************************)
EXTENDS BorrowChecker, TLAPS

(***************************************************************************)
(* Lemmas about the operators of the specification.                        *)
(***************************************************************************)

\* Region::overlaps, which compares starts and ends, decides whether the two
\* regions have a byte in common, also when one is empty or ends beyond the
\* last address.
LEMMA OverlapsIffCommonByte ==
    ASSUME NEW a \in Regions, NEW b \in Regions
    PROVE  Overlaps(a, b) <=> Bytes(a) \cap Bytes(b) # {}
<1> USE U32MaxAssumption DEF Regions, U32
<1>1. ASSUME Overlaps(a, b) PROVE Bytes(a) \cap Bytes(b) # {}
  <2>1. CASE a.start <= b.start
    <3>1. b.start \in Bytes(a) /\ b.start \in Bytes(b)
      BY <1>1, <2>1 DEF Overlaps, Bytes
    <3> QED BY <3>1
  <2>2. CASE ~(a.start <= b.start)
    <3>1. a.start \in Bytes(a) /\ a.start \in Bytes(b)
      BY <1>1, <2>2 DEF Overlaps, Bytes
    <3> QED BY <3>1
  <2> QED BY <2>1, <2>2
<1>2. ASSUME NEW x \in Bytes(a), x \in Bytes(b) PROVE Overlaps(a, b)
  BY <1>2 DEF Overlaps, Bytes
<1> QED BY <1>1, <1>2

(***************************************************************************)
(* The inductive invariant.  NoAliasing alone is not inductive: that a new *)
(* borrow is checked against the tables helps only if the tables hold the  *)
(* region of every live guard, and the new entry may only be added to them *)
(* if its handle is not the key of an older one.                           *)
(***************************************************************************)

\* The handles in use are all below the next one, so that one is fresh.
HandlesBelowNext ==
    \A h \in DOMAIN shared_borrows \cup DOMAIN mut_borrows : h < next_handle

\* No handle is in both tables.
TablesDisjoint == DOMAIN shared_borrows \cap DOMAIN mut_borrows = {}

\* NoAliasing, as the checker sees it.
TablesCompatible ==
    \A h \in DOMAIN mut_borrows :
        /\ \A k \in DOMAIN mut_borrows :
              k # h => ~Overlaps(mut_borrows[k], mut_borrows[h])
        /\ \A k \in DOMAIN shared_borrows :
              ~Overlaps(shared_borrows[k], mut_borrows[h])

IInv ==
    /\ TypeOK
    /\ GuardsTracked
    /\ HandlesBelowNext
    /\ TablesDisjoint
    /\ TablesCompatible

\* overlaps() does not depend on the order of the two regions.
LEMMA OverlapsSymmetric ==
    ASSUME NEW a \in Regions, NEW b \in Regions, Overlaps(a, b)
    PROVE  Overlaps(b, a)
BY OverlapsIffCommonByte

\* The handle a borrow is given is in neither table.
LEMMA FreshHandleIsFresh ==
    ASSUME TypeOK, HandlesBelowNext
    PROVE  /\ FreshHandle \in Handles
           /\ FreshHandle \notin DOMAIN shared_borrows
           /\ FreshHandle \notin DOMAIN mut_borrows
           /\ \A h \in DOMAIN shared_borrows \cup DOMAIN mut_borrows : h < FreshHandle
           /\ HandlesLeft => FreshHandle + 1 \in Handles
BY UsizeMaxAssumption
   DEF TypeOK, HandlesBelowNext, FreshHandle, has_outstanding_borrows, HandlesLeft, Handles

\* What GuardsTracked says of one guard.
LEMMA TrackedGuard ==
    ASSUME GuardsTracked, NEW g \in guards
    PROVE  \/ /\ g.mut = FALSE
              /\ g.handle \in DOMAIN shared_borrows
              /\ g = [handle |-> g.handle, region |-> shared_borrows[g.handle], mut |-> FALSE]
           \/ /\ g.mut = TRUE
              /\ g.handle \in DOMAIN mut_borrows
              /\ g = [handle |-> g.handle, region |-> mut_borrows[g.handle], mut |-> TRUE]
BY DEF GuardsTracked

\* A handle names at most one guard.
LEMMA TrackedGuardsUnique ==
    ASSUME GuardsTracked, TablesDisjoint
    PROVE  HandlesUnique
<1> SUFFICES ASSUME NEW g \in guards, NEW k \in guards, g.handle = k.handle
             PROVE  g = k
  BY DEF HandlesUnique
<1>1. g.mut = k.mut
  BY TrackedGuard DEF TablesDisjoint
<1>2. CASE g.mut
  <2>1. g = [handle |-> g.handle, region |-> mut_borrows[g.handle], mut |-> TRUE]
    BY <1>2, TrackedGuard
  <2>2. k = [handle |-> k.handle, region |-> mut_borrows[k.handle], mut |-> TRUE]
    BY <1>1, <1>2, TrackedGuard
  <2> QED BY <2>1, <2>2, Zenon
<1>3. CASE ~g.mut
  <2>1. g = [handle |-> g.handle, region |-> shared_borrows[g.handle], mut |-> FALSE]
    BY <1>3, TrackedGuard
  <2>2. k = [handle |-> k.handle, region |-> shared_borrows[k.handle], mut |-> FALSE]
    BY <1>1, <1>3, TrackedGuard
  <2> QED BY <2>1, <2>2, Zenon
<1> QED BY <1>2, <1>3

\* The initial state, with no borrow and no guard.
LEMMA InitInvariant == Init => IInv
BY UsizeMaxAssumption
   DEF Init, IInv, TypeOK, GuardsTracked, HandlesBelowNext, TablesDisjoint,
       TablesCompatible, EmptyMap, Handles

\* A granted shared borrow keeps the invariant.
LEMMA SharedBorrowInvariant ==
    ASSUME IInv, NEW r \in Regions, SharedBorrow(r)
    PROVE  IInv'
<1> DEFINE h == FreshHandle
<1>1. /\ h \in Handles
      /\ h \notin DOMAIN shared_borrows
      /\ h \notin DOMAIN mut_borrows
      /\ \A k \in DOMAIN shared_borrows \cup DOMAIN mut_borrows : k < h
      /\ next_handle' = h + 1 /\ h + 1 \in Handles
  BY FreshHandleIsFresh DEF IInv, SharedBorrow
<1>2. /\ DOMAIN shared_borrows' = DOMAIN shared_borrows \cup {h}
      /\ shared_borrows'[h] = r
      /\ \A k \in DOMAIN shared_borrows :
            k # h /\ shared_borrows'[k] = shared_borrows[k]
  BY <1>1 DEF SharedBorrow, Put
<1>3. /\ mut_borrows' = mut_borrows
      /\ guards' = guards \cup {[handle |-> h, region |-> r, mut |-> FALSE]}
  BY DEF SharedBorrow
<1> HIDE DEF h
<1>4. TypeOK'
  <2>1. shared_borrows' \in [DOMAIN shared_borrows' -> Regions]
    BY <1>2 DEF IInv, TypeOK, SharedBorrow, Put
  <2>2. [handle |-> h, region |-> r, mut |-> FALSE] \in Guard
    BY <1>1 DEF Guard
  <2>3. guards' \subseteq Guard
    BY <1>3, <2>2 DEF IInv, TypeOK
  <2> QED BY <1>1, <1>2, <1>3, <2>1, <2>3 DEF IInv, TypeOK
<1>5. GuardsTracked'
  BY <1>1, <1>2, <1>3 DEF IInv, GuardsTracked
<1>6. HandlesBelowNext' /\ TablesDisjoint'
  BY <1>1, <1>2, <1>3 DEF IInv, TypeOK, HandlesBelowNext, TablesDisjoint, Handles
<1>7. TablesCompatible'
  <2> SUFFICES ASSUME NEW m \in DOMAIN mut_borrows, NEW k \in DOMAIN shared_borrows'
               PROVE  ~Overlaps(shared_borrows'[k], mut_borrows[m])
    BY <1>3 DEF IInv, TablesCompatible
  <2>1. CASE k = h
    <3>1. ~Overlaps(mut_borrows[m], r)
      BY DEF SharedBorrow, Available, is_mut_borrowed
    <3>2. mut_borrows[m] \in Regions
      BY DEF IInv, TypeOK
    <3> QED BY <2>1, <3>1, <3>2, <1>2, OverlapsSymmetric
  <2>2. CASE k # h
    BY <2>2, <1>2 DEF IInv, TablesCompatible
  <2> QED BY <2>1, <2>2
<1> QED BY <1>4, <1>5, <1>6, <1>7 DEF IInv

\* A granted mutable borrow keeps the invariant.
LEMMA MutBorrowInvariant ==
    ASSUME IInv, NEW r \in Regions, MutBorrow(r)
    PROVE  IInv'
<1> DEFINE h == FreshHandle
<1>1. /\ h \in Handles
      /\ h \notin DOMAIN shared_borrows
      /\ h \notin DOMAIN mut_borrows
      /\ \A k \in DOMAIN shared_borrows \cup DOMAIN mut_borrows : k < h
      /\ next_handle' = h + 1 /\ h + 1 \in Handles
  BY FreshHandleIsFresh DEF IInv, MutBorrow
<1>2. /\ DOMAIN mut_borrows' = DOMAIN mut_borrows \cup {h}
      /\ mut_borrows'[h] = r
      /\ \A k \in DOMAIN mut_borrows :
            k # h /\ mut_borrows'[k] = mut_borrows[k]
  BY <1>1 DEF MutBorrow, Put
<1>3. /\ shared_borrows' = shared_borrows
      /\ guards' = guards \cup {[handle |-> h, region |-> r, mut |-> TRUE]}
  BY DEF MutBorrow
<1>4. /\ \A k \in DOMAIN shared_borrows : ~Overlaps(shared_borrows[k], r)
      /\ \A k \in DOMAIN mut_borrows : ~Overlaps(mut_borrows[k], r)
  BY DEF MutBorrow, Available, is_shared_borrowed, is_mut_borrowed
<1> HIDE DEF h
<1>5. TypeOK'
  <2>1. mut_borrows' \in [DOMAIN mut_borrows' -> Regions]
    BY <1>2 DEF IInv, TypeOK, MutBorrow, Put
  <2>2. [handle |-> h, region |-> r, mut |-> TRUE] \in Guard
    BY <1>1 DEF Guard
  <2>3. guards' \subseteq Guard
    BY <1>3, <2>2 DEF IInv, TypeOK
  <2> QED BY <1>1, <1>2, <1>3, <2>1, <2>3 DEF IInv, TypeOK
<1>6. GuardsTracked'
  BY <1>1, <1>2, <1>3 DEF IInv, GuardsTracked
<1>7. HandlesBelowNext' /\ TablesDisjoint'
  BY <1>1, <1>2, <1>3 DEF IInv, TypeOK, HandlesBelowNext, TablesDisjoint, Handles
<1>8. TablesCompatible'
  <2> SUFFICES ASSUME NEW m \in DOMAIN mut_borrows'
               PROVE  /\ \A k \in DOMAIN mut_borrows' :
                            k # m => ~Overlaps(mut_borrows'[k], mut_borrows'[m])
                      /\ \A k \in DOMAIN shared_borrows :
                            ~Overlaps(shared_borrows[k], mut_borrows'[m])
    BY <1>3 DEF TablesCompatible
  <2>1. CASE m = h
    BY <2>1, <1>2, <1>4
  <2>2. CASE m # h
    <3>1. ~Overlaps(r, mut_borrows[m])
      <4>1. ~Overlaps(mut_borrows[m], r)
        BY <2>2, <1>2, <1>4
      <4>2. mut_borrows[m] \in Regions
        BY <2>2, <1>2 DEF IInv, TypeOK
      <4> QED BY <4>1, <4>2, OverlapsSymmetric
    <3> QED BY <2>2, <3>1, <1>2 DEF IInv, TablesCompatible
  <2> QED BY <2>1, <2>2
<1> QED BY <1>5, <1>6, <1>7, <1>8 DEF IInv

\* A str borrow that is taken back leaves both tables as they were: the
\* entry that goes is the one that came.
LEMMA NotUtf8Stutters ==
    ASSUME TypeOK, HandlesBelowNext, NEW r, NEW mut \in BOOLEAN, BorrowNotUtf8(r, mut)
    PROVE  UNCHANGED <<shared_borrows, mut_borrows, guards>>
<1> DEFINE h == FreshHandle
<1>1. h \notin DOMAIN shared_borrows /\ h \notin DOMAIN mut_borrows
  BY FreshHandleIsFresh
<1>2. ASSUME NEW map, h \notin DOMAIN map
      PROVE  Without(Put(map, h, r), h) = [k \in DOMAIN map |-> map[k]]
  BY <1>2 DEF Put, Without
<1>3. /\ shared_borrows = [k \in DOMAIN shared_borrows |-> shared_borrows[k]]
      /\ mut_borrows = [k \in DOMAIN mut_borrows |-> mut_borrows[k]]
  BY DEF TypeOK
<1>4. /\ Without(Put(shared_borrows, h, r), h) = shared_borrows
      /\ Without(Put(mut_borrows, h, r), h) = mut_borrows
  BY <1>1, <1>2, <1>3
<1> QED BY <1>4 DEF BorrowNotUtf8

\* A str borrow that is taken back keeps the invariant: the handle it burns
\* is above all others.
LEMMA BorrowNotUtf8Invariant ==
    ASSUME IInv, NEW r \in Regions, NEW mut \in BOOLEAN, BorrowNotUtf8(r, mut)
    PROVE  IInv'
<1>1. /\ \A k \in DOMAIN shared_borrows \cup DOMAIN mut_borrows : k < FreshHandle
      /\ next_handle' = FreshHandle + 1
      /\ FreshHandle \in Handles /\ FreshHandle + 1 \in Handles
  BY FreshHandleIsFresh DEF IInv, BorrowNotUtf8
<1>2. UNCHANGED <<shared_borrows, mut_borrows, guards>>
  BY NotUtf8Stutters DEF IInv
<1>3. HandlesBelowNext'
  BY <1>1, <1>2 DEF IInv, TypeOK, HandlesBelowNext, Handles
<1> QED BY <1>1, <1>2, <1>3 DEF IInv, TypeOK, GuardsTracked, TablesDisjoint, TablesCompatible

\* Dropping a Borrow keeps the invariant: the entry that goes is the guard's.
LEMMA DropSharedInvariant ==
    ASSUME IInv, NEW g \in guards, DropShared(g)
    PROVE  IInv'
<1>1. /\ g.handle \in DOMAIN shared_borrows
      /\ g = [handle |-> g.handle, region |-> shared_borrows[g.handle], mut |-> FALSE]
  BY DEF IInv, GuardsTracked, DropShared
<1>2. /\ DOMAIN shared_borrows' = DOMAIN shared_borrows \ {g.handle}
      /\ \A k \in DOMAIN shared_borrows' : shared_borrows'[k] = shared_borrows[k]
  BY DEF DropShared, Without
<1>3. /\ guards' = guards \ {g}
      /\ UNCHANGED <<mut_borrows, next_handle>>
  BY DEF DropShared
<1>4. TypeOK'
  <2>1. shared_borrows' \in [DOMAIN shared_borrows' -> Regions]
    BY <1>2 DEF IInv, TypeOK, DropShared, Without
  <2> QED BY <2>1, <1>2, <1>3 DEF IInv, TypeOK
<1>5. GuardsTracked'
  <2> DEFINE entry(h) == [handle |-> h, region |-> shared_borrows[h], mut |-> FALSE]
             others == {[handle |-> h, region |-> mut_borrows[h], mut |-> TRUE] :
                           h \in DOMAIN mut_borrows}
  <2>1. guards = {entry(h) : h \in DOMAIN shared_borrows} \cup others
    BY DEF IInv, GuardsTracked
  <2>2. g \notin others
    BY <1>1
  <2>3. \A h \in DOMAIN shared_borrows : entry(h) = g <=> h = g.handle
    BY <1>1
  <2>4. guards' = {entry(h) : h \in DOMAIN shared_borrows'} \cup others
    BY <1>2, <1>3, <2>1, <2>2, <2>3
  <2>5. {entry(h) : h \in DOMAIN shared_borrows'} =
        {[handle |-> h, region |-> shared_borrows'[h], mut |-> FALSE] :
            h \in DOMAIN shared_borrows'}
    BY <1>2
  <2> QED BY <1>3, <2>4, <2>5 DEF GuardsTracked
<1> QED
  BY <1>2, <1>3, <1>4, <1>5
     DEF IInv, HandlesBelowNext, TablesDisjoint, TablesCompatible

\* Dropping a BorrowMut keeps the invariant.
LEMMA DropMutInvariant ==
    ASSUME IInv, NEW g \in guards, DropMut(g)
    PROVE  IInv'
<1>1. /\ g.handle \in DOMAIN mut_borrows
      /\ g = [handle |-> g.handle, region |-> mut_borrows[g.handle], mut |-> TRUE]
  BY DEF IInv, GuardsTracked, DropMut
<1>2. /\ DOMAIN mut_borrows' = DOMAIN mut_borrows \ {g.handle}
      /\ \A k \in DOMAIN mut_borrows' : mut_borrows'[k] = mut_borrows[k]
  BY DEF DropMut, Without
<1>3. /\ guards' = guards \ {g}
      /\ UNCHANGED <<shared_borrows, next_handle>>
  BY DEF DropMut
<1>4. TypeOK'
  <2>1. mut_borrows' \in [DOMAIN mut_borrows' -> Regions]
    BY <1>2 DEF IInv, TypeOK, DropMut, Without
  <2> QED BY <2>1, <1>2, <1>3 DEF IInv, TypeOK
<1>5. GuardsTracked'
  <2> DEFINE entry(h) == [handle |-> h, region |-> mut_borrows[h], mut |-> TRUE]
             others == {[handle |-> h, region |-> shared_borrows[h], mut |-> FALSE] :
                           h \in DOMAIN shared_borrows}
  <2>1. guards = {entry(h) : h \in DOMAIN mut_borrows} \cup others
    BY DEF IInv, GuardsTracked
  <2>2. g \notin others
    BY <1>1
  <2>3. \A h \in DOMAIN mut_borrows : entry(h) = g <=> h = g.handle
    BY <1>1
  <2>4. guards' = {entry(h) : h \in DOMAIN mut_borrows'} \cup others
    BY <1>2, <1>3, <2>1, <2>2, <2>3
  <2>5. {entry(h) : h \in DOMAIN mut_borrows'} =
        {[handle |-> h, region |-> mut_borrows'[h], mut |-> TRUE] :
            h \in DOMAIN mut_borrows'}
    BY <1>2
  <2> QED BY <1>3, <2>4, <2>5 DEF GuardsTracked
<1> QED
  BY <1>2, <1>3, <1>4, <1>5
     DEF IInv, HandlesBelowNext, TablesDisjoint, TablesCompatible

\* IInv is an invariant of the specification.
THEOREM Invariance == Spec => []IInv
<1>1. IInv /\ [Next]_vars => IInv'
  <2> SUFFICES ASSUME IInv, [Next]_vars PROVE IInv'
    OBVIOUS
  <2>1. CASE UNCHANGED vars
    BY <2>1 DEF vars, IInv, TypeOK, GuardsTracked, HandlesBelowNext,
                TablesDisjoint, TablesCompatible
  <2>2. CASE \E r \in Regions : SharedBorrow(r)
    BY <2>2, SharedBorrowInvariant
  <2>3. CASE \E r \in Regions : MutBorrow(r)
    BY <2>3, MutBorrowInvariant
  <2>4. CASE \E r \in Regions, mut \in BOOLEAN :
                 PtrBorrowed(r, mut) \/ OutOfHandles(r, mut)
    BY <2>4, <2>1 DEF PtrBorrowed, OutOfHandles
  <2>5. CASE \E r \in Regions, mut \in BOOLEAN : BorrowNotUtf8(r, mut)
    BY <2>5, BorrowNotUtf8Invariant
  <2>6. CASE \E g \in guards : DropShared(g)
    BY <2>6, DropSharedInvariant
  <2>7. CASE \E g \in guards : DropMut(g)
    BY <2>7, DropMutInvariant
  <2> QED BY <2>1, <2>2, <2>3, <2>4, <2>5, <2>6, <2>7 DEF Next
<1> QED BY <1>1, InitInvariant, PTL DEF Spec

\* Every variable keeps its type, in particular next_handle fits a usize.
THEOREM TypeCorrectness == Spec => []TypeOK
BY Invariance, PTL DEF IInv

\* Every guard's drop finds its own entry, for any number of guards and any
\* interleaving of borrows and drops.
THEOREM GuardsAlwaysTracked == Spec => []GuardsTracked
BY Invariance, PTL DEF IInv

\* Two guards that are alive never have the same handle, also after handles
\* have been given out anew: a drop never releases another guard's borrow.
THEOREM HandlesAlwaysUnique == Spec => []HandlesUnique
<1>1. IInv => HandlesUnique
  BY TrackedGuardsUnique DEF IInv
<1> QED BY <1>1, Invariance, PTL

\* No reachable state has a mutable reference that shares a byte with
\* another reference.
THEOREM NeverAliased == Spec => []NoAliasing
<1>1. IInv => NoAliasing
  <2> SUFFICES ASSUME IInv, NEW g \in guards, NEW k \in guards, g # k,
                      Bytes(g.region) \cap Bytes(k.region) # {}, g.mut
               PROVE  FALSE
    BY DEF NoAliasing
  <2>1. g.region \in Regions /\ k.region \in Regions
    BY DEF IInv, TypeOK, Guard
  <2>2. Overlaps(g.region, k.region) /\ Overlaps(k.region, g.region)
    BY <2>1, OverlapsIffCommonByte
  <2>3. g.handle \in DOMAIN mut_borrows /\ g.region = mut_borrows[g.handle]
    BY DEF IInv, GuardsTracked
  <2>4. CASE k.mut
    <3>1. k.handle \in DOMAIN mut_borrows /\ k.region = mut_borrows[k.handle]
      BY <2>4 DEF IInv, GuardsTracked
    <3>2. k.handle # g.handle
      BY TrackedGuardsUnique DEF IInv, HandlesUnique
    <3> QED BY <2>2, <2>3, <3>1, <3>2 DEF IInv, TablesCompatible
  <2>5. CASE ~k.mut
    <3>1. k.handle \in DOMAIN shared_borrows /\ k.region = shared_borrows[k.handle]
      BY <2>5 DEF IInv, GuardsTracked
    <3> QED BY <2>2, <2>3, <3>1 DEF IInv, TablesCompatible
  <2> QED BY <2>4, <2>5
<1> QED BY <1>1, Invariance, PTL

\* A borrow is refused as PtrBorrowed only for a live guard that is in its
\* way, and the handles never run out while no guard is held.
THEOREM RefusesExactly == Spec => []RefusalsExact
<1>1. ASSUME IInv, NEW r \in Regions, NEW mut \in BOOLEAN
      PROVE  Available(r, mut) <=>
                 \A g \in guards : g.mut \/ mut => Bytes(g.region) \cap Bytes(r) = {}
  <2>1. ASSUME NEW g \in guards
        PROVE  Overlaps(g.region, r) <=> Bytes(g.region) \cap Bytes(r) # {}
    BY <1>1, OverlapsIffCommonByte DEF IInv, TypeOK, Guard
  <2>2. ASSUME Available(r, mut), NEW g \in guards, g.mut \/ mut
        PROVE  ~Overlaps(g.region, r)
    <3>1. CASE g.mut
      <4>1. g.handle \in DOMAIN mut_borrows /\ g.region = mut_borrows[g.handle]
        BY <1>1, <3>1 DEF IInv, GuardsTracked
      <4> QED BY <4>1, <2>2 DEF Available, is_mut_borrowed
    <3>2. CASE ~g.mut
      <4>1. g.handle \in DOMAIN shared_borrows /\ g.region = shared_borrows[g.handle]
        BY <1>1, <3>2 DEF IInv, GuardsTracked
      <4> QED BY <3>2, <4>1, <2>2 DEF Available, is_shared_borrowed
    <3> QED BY <3>1, <3>2
  <2>3. ASSUME \A g \in guards : g.mut \/ mut => ~Overlaps(g.region, r)
        PROVE  Available(r, mut)
    <3>1. ASSUME NEW h \in DOMAIN mut_borrows PROVE ~Overlaps(mut_borrows[h], r)
      <4> DEFINE g == [handle |-> h, region |-> mut_borrows[h], mut |-> TRUE]
      <4>1. g \in guards
        BY <1>1 DEF IInv, GuardsTracked
      <4> QED BY <4>1, <2>3
    <3>2. ASSUME mut, NEW h \in DOMAIN shared_borrows PROVE ~Overlaps(shared_borrows[h], r)
      <4> DEFINE g == [handle |-> h, region |-> shared_borrows[h], mut |-> FALSE]
      <4>1. g \in guards
        BY <1>1 DEF IInv, GuardsTracked
      <4> QED BY <4>1, <2>3, <3>2
    <3> QED BY <3>1, <3>2 DEF Available, is_mut_borrowed, is_shared_borrowed
  <2> QED BY <2>1, <2>2, <2>3
<1>2. ASSUME IInv, guards = {} PROVE HandlesLeft
  <2>1. DOMAIN shared_borrows = {} /\ DOMAIN mut_borrows = {}
    BY <1>2 DEF IInv, GuardsTracked
  <2> QED
    BY <2>1, UsizeMaxAssumption DEF HandlesLeft, FreshHandle, has_outstanding_borrows
<1>3. IInv => RefusalsExact
  BY <1>1, <1>2 DEF RefusalsExact
<1> QED BY <1>3, Invariance, PTL

(***************************************************************************)
(* The checker implements the per-byte locks.                              *)
(***************************************************************************)

\* Each step of the checker is a step of the locks of the bytes of one
\* region, or leaves every lock as it is.
THEOREM Refinement == Spec => ImplementsByteLocks
<1> USE DEF ByteReaders, ByteWriters
<1>1. Init => Locks!Init
  BY DEF Init, Locks!Init, EmptyMap
<1>2. IInv /\ [Next]_vars => [Locks!Next]_(Locks!vars)
  <2> SUFFICES ASSUME IInv, [Next]_vars
               PROVE  Locks!Next \/ UNCHANGED Locks!vars
    OBVIOUS
  <2>1. CASE UNCHANGED <<shared_borrows, mut_borrows>>
    BY <2>1 DEF Locks!vars
  <2>2. ASSUME NEW r \in Regions, SharedBorrow(r)
        PROVE  Locks!Next
    <3> DEFINE h == FreshHandle
               S == Bytes(r) \cap AllBytes
    <3>1. /\ h \in Handles
          /\ h \notin DOMAIN shared_borrows /\ h \notin DOMAIN mut_borrows
      BY FreshHandleIsFresh DEF IInv
    <3>2. /\ DOMAIN shared_borrows' = DOMAIN shared_borrows \cup {h}
          /\ shared_borrows'[h] = r
          /\ \A k \in DOMAIN shared_borrows : shared_borrows'[k] = shared_borrows[k]
          /\ mut_borrows' = mut_borrows
      BY <2>2, <3>1 DEF SharedBorrow, Put
    <3>3. \A k \in DOMAIN mut_borrows : Bytes(mut_borrows[k]) \cap Bytes(r) = {}
      BY <2>2, OverlapsIffCommonByte
         DEF SharedBorrow, Available, is_mut_borrowed, IInv, TypeOK
    <3> HIDE DEF h
    <3>4. Locks!AcquireShared(S, h)
      <4>1. ~Locks!Holds(h)
        BY <3>1 DEF Locks!Holds
      <4>2. \A b \in S : ByteWriters[b] = {}
        BY <3>3
      <4>3. ByteReaders' = [b \in AllBytes |-> IF b \in S THEN ByteReaders[b] \cup {h}
                                                          ELSE ByteReaders[b]]
        BY <3>1, <3>2
      <4>4. ByteWriters' = ByteWriters
        BY <3>2
      <4> QED BY <4>1, <4>2, <4>3, <4>4 DEF Locks!AcquireShared
    <3> QED BY <3>1, <3>4 DEF Locks!Next
  <2>3. ASSUME NEW r \in Regions, MutBorrow(r)
        PROVE  Locks!Next
    <3> DEFINE h == FreshHandle
               S == Bytes(r) \cap AllBytes
    <3>1. /\ h \in Handles
          /\ h \notin DOMAIN shared_borrows /\ h \notin DOMAIN mut_borrows
      BY FreshHandleIsFresh DEF IInv
    <3>2. /\ DOMAIN mut_borrows' = DOMAIN mut_borrows \cup {h}
          /\ mut_borrows'[h] = r
          /\ \A k \in DOMAIN mut_borrows : mut_borrows'[k] = mut_borrows[k]
          /\ shared_borrows' = shared_borrows
      BY <2>3, <3>1 DEF MutBorrow, Put
    <3>3. /\ \A k \in DOMAIN mut_borrows : Bytes(mut_borrows[k]) \cap Bytes(r) = {}
          /\ \A k \in DOMAIN shared_borrows : Bytes(shared_borrows[k]) \cap Bytes(r) = {}
      BY <2>3, OverlapsIffCommonByte
         DEF MutBorrow, Available, is_mut_borrowed, is_shared_borrowed, IInv, TypeOK
    <3> HIDE DEF h
    <3>4. Locks!AcquireMut(S, h)
      <4>1. ~Locks!Holds(h)
        BY <3>1 DEF Locks!Holds
      <4>2. \A b \in S : ByteReaders[b] = {} /\ ByteWriters[b] = {}
        BY <3>3
      <4>3. ByteWriters' = [b \in AllBytes |-> IF b \in S THEN ByteWriters[b] \cup {h}
                                                          ELSE ByteWriters[b]]
        BY <3>1, <3>2
      <4>4. ByteReaders' = ByteReaders
        BY <3>2
      <4> QED BY <4>1, <4>2, <4>3, <4>4 DEF Locks!AcquireMut
    <3> QED BY <3>1, <3>4 DEF Locks!Next
  <2>4. ASSUME NEW g \in guards, DropShared(g)
        PROVE  Locks!Next
    <3>1. g.handle \in DOMAIN shared_borrows /\ g.handle \notin DOMAIN mut_borrows
      BY <2>4, TrackedGuard DEF IInv, DropShared, TablesDisjoint
    <3>2. /\ DOMAIN shared_borrows' = DOMAIN shared_borrows \ {g.handle}
          /\ \A k \in DOMAIN shared_borrows' : shared_borrows'[k] = shared_borrows[k]
          /\ mut_borrows' = mut_borrows
      BY <2>4 DEF DropShared, Without
    <3>3. ByteReaders' = [b \in AllBytes |-> ByteReaders[b] \ {g.handle}]
      BY <3>2
    <3>4. ByteWriters' = [b \in AllBytes |-> ByteWriters[b] \ {g.handle}]
      BY <3>1, <3>2
    <3>5. g.handle \in Handles
      BY DEF IInv, TypeOK, Guard
    <3> QED BY <3>3, <3>4, <3>5 DEF Locks!Next, Locks!Release
  <2>5. ASSUME NEW g \in guards, DropMut(g)
        PROVE  Locks!Next
    <3>1. g.handle \in DOMAIN mut_borrows /\ g.handle \notin DOMAIN shared_borrows
      BY <2>5, TrackedGuard DEF IInv, DropMut, TablesDisjoint
    <3>2. /\ DOMAIN mut_borrows' = DOMAIN mut_borrows \ {g.handle}
          /\ \A k \in DOMAIN mut_borrows' : mut_borrows'[k] = mut_borrows[k]
          /\ shared_borrows' = shared_borrows
      BY <2>5 DEF DropMut, Without
    <3>3. ByteWriters' = [b \in AllBytes |-> ByteWriters[b] \ {g.handle}]
      BY <3>2
    <3>4. ByteReaders' = [b \in AllBytes |-> ByteReaders[b] \ {g.handle}]
      BY <3>1, <3>2
    <3>5. g.handle \in Handles
      BY DEF IInv, TypeOK, Guard
    <3> QED BY <3>3, <3>4, <3>5 DEF Locks!Next, Locks!Release
  <2>6. CASE UNCHANGED vars
    BY <2>6, <2>1 DEF vars
  <2>7. CASE \E r \in Regions, mut \in BOOLEAN : PtrBorrowed(r, mut) \/ OutOfHandles(r, mut)
    BY <2>7, <2>1 DEF PtrBorrowed, OutOfHandles, vars
  <2>8. CASE \E r \in Regions, mut \in BOOLEAN : BorrowNotUtf8(r, mut)
    <3>1. UNCHANGED <<shared_borrows, mut_borrows>>
      BY <2>8, NotUtf8Stutters DEF IInv
    <3> QED BY <3>1, <2>1
  <2> QED BY <2>2, <2>3, <2>4, <2>5, <2>6, <2>7, <2>8 DEF Next
<1> QED BY <1>1, <1>2, Invariance, PTL DEF Spec, ImplementsByteLocks, Locks!Spec
=============================================================================
