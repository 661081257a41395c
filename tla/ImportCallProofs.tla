-------------------------- MODULE ImportCallProofs ---------------------------
(***************************************************************************)
(* Proofs about ImportCall, for every width of an address and a handle,    *)
(* any size of an item, any memory and any parameters.                     *)
(***************************************************************************)
EXTENDS ImportCall, TLAPS

BCP == INSTANCE BorrowCheckerProofs

(***************************************************************************)
(* The inductive invariant.                                                *)
(***************************************************************************)

\* The types of what the guest and its call are.
CallTyped ==
    /\ memory \in [base : 0..MaxBase, size : 1..MaxSize]
    /\ phase \in {"guest", "host", "write", "alloc", "reenter"}
    /\ allocates \in BOOLEAN /\ in_bounds \in BOOLEAN
    /\ args \in [ptr : BC!Regions, inb : BufferArg, outb : BufferArg]
    /\ out \in BufferArg

\* Every borrow has an owner.
Owned == DOMAIN owner = {g.handle : g \in guards}

OwnerType == [role : Roles, base : 0..MaxBase, next : 0..U32Max, at : 0..U32Max, inside : BOOLEAN]

\* When an owner of each role lives, and what it knows of its region r.
OwnerFine(o, r) ==
    /\ o \in OwnerType
    /\ o.role = "ptr" => /\ phase \in {"host", "write", "alloc"}
                         /\ ~allocates => o.base = memory.base
    /\ o.role = "iter" => /\ phase \in {"host", "write", "alloc"}
                          /\ r = ItemsRegion(args.inb) /\ o.next <= args.inb.len
                          /\ o.inside /\ o.next > 0 =>
                                /\ o.at = args.inb.offset + (o.next - 1) * ItemSize
                                /\ ~Negative(o.at)
    /\ o.role # "iter" => o.next = 0
    /\ o.role = "write" => phase \in {"write", "alloc"}
    /\ o.role = "nobody" => ~in_bounds \/ allocates

OwnersFine == \A g \in guards : OwnerFine(owner[g.handle], g.region)

\* One write is active at a time.
OneWriter ==
    \A g, k \in guards :
        owner[g.handle].role = "write" /\ owner[k.handle].role = "write" => g = k

\* When the guest runs, called by the host.
GuestCalled == /\ phase = "alloc" => allocates
               /\ phase = "reenter" => guards = {}

\* A guest that only passes buffers that can be stored to.
OutAccessible ==
    in_bounds /\ phase # "guest" =>
        \A i \in 0..(args.outb.len - 1) : Accessible(args.outb.offset + i * ItemSize)

IInv ==
    /\ CallTyped
    /\ Owned
    /\ OwnersFine
    /\ OneWriter
    /\ GuestCalled
    /\ OutAccessible
    /\ WritesStayInside

-----------------------------------------------------------------------------
(* The call: what does not depend on the borrow checker.                   *)

\* Addresses wrap at the width of u32.
LEMMA WrapTyped ==
    ASSUME NEW x \in Nat
    PROVE  Wrap(x) \in 0..U32Max /\ (x <= U32Max => Wrap(x) = x)
BY ImportAssumption DEF Wrap

\* The region of a buffer whose size does not overflow is a region.
LEMMA ItemsRegionTyped ==
    ASSUME NEW b \in BufferArg, ~Overflows(b)
    PROVE  ItemsRegion(b) \in BC!Regions
<1>1. b.offset \in 0..U32Max /\ b.len \in Nat
  BY ImportAssumption DEF BufferArg
<1>2. b.len * ItemSize \in Nat
  BY <1>1, ImportAssumption
<1>3. b.len * ItemSize \in 0..U32Max
  BY <1>2, ImportAssumption DEF Overflows
<1> QED BY <1>1, <1>3 DEF ItemsRegion, BC!Regions, BC!U32

LEMMA CallTypedInit == Init => CallTyped
<1> SUFFICES ASSUME Init PROVE CallTyped
  OBVIOUS
<1>1. Idle \in [ptr : BC!Regions, inb : BufferArg, outb : BufferArg] /\ Idle.outb \in BufferArg
  BY ImportAssumption DEF Idle, BC!Regions, BC!U32, BufferArg
<1> QED BY <1>1, ImportAssumption DEF Init, CallTyped

\* Every step keeps the types of the call.
LEMMA CallTypedStep == CallTyped /\ [Next]_vars => CallTyped'
<1> SUFFICES ASSUME CallTyped, [Next]_vars PROVE CallTyped'
  OBVIOUS
<1> DEFINE Args == [ptr : BC!Regions, inb : BufferArg, outb : BufferArg]
<1>1. Idle \in Args /\ Idle.outb \in BufferArg
  BY ImportAssumption DEF Idle, BC!Regions, BC!U32, BufferArg
<1>2. ASSUME NEW ptr \in Ptrs, NEW inb \in Buffers, NEW outb \in Buffers,
             Call(ptr, inb, outb), UNCHANGED <<allocates, in_bounds>>
      PROVE  CallTyped'
  <2>1. [ptr |-> ptr, inb |-> inb, outb |-> outb] \in Args /\ outb \in BufferArg
    BY ArgsAssumption
  <2> HIDE DEF Args
  <2> QED BY <1>2, <2>1 DEF Call, CallTyped, Args
<1> HIDE DEF Args
<1>3. CASE Grow /\ UNCHANGED <<allocates, in_bounds>>
  <2>1. PICK base \in {memory.base, memory.base + 1} :
           base <= MaxBase /\ memory' = [base |-> base, size |-> memory.size + 1]
    BY <1>3 DEF Grow
  <2>2. memory' \in [base : 0..MaxBase, size : 1..MaxSize]
    BY <1>3, <2>1, ImportAssumption DEF Grow, CallTyped
  <2> QED BY <1>3, <2>2 DEF Grow, CallTyped
<1>4. CASE WriteItem /\ UNCHANGED <<allocates, in_bounds>>
  <2>1. out.offset \in Nat /\ out.len \in 0..U32Max /\ out.len # 0
    BY <1>4, ImportAssumption DEF WriteItem, CallTyped, BufferArg
  <2>2. Wrap(out.offset + ItemSize) \in 0..U32Max
    BY <2>1, ImportAssumption, WrapTyped
  <2>3. out' \in BufferArg
    BY <1>4, <2>1, <2>2, ImportAssumption DEF WriteItem, BufferArg
  <2> QED BY <1>4, <2>3 DEF WriteItem, CallTyped
<1>5. CASE Return /\ UNCHANGED <<allocates, in_bounds>>
  BY <1>1, <1>5 DEF Return, CallTyped, Args
<1>6. CASE (BorrowPtr \/ BorrowPtrNotUtf8 \/ Iter \/ IterNext \/ DropValue
             \/ Reenter \/ Reentered \/ Write \/ WriteAlloc \/ AllocReturns \/ WriteFails
             \/ WriteReturns) /\ UNCHANGED <<allocates, in_bounds>>
  <2>1. /\ UNCHANGED <<memory, args, out, allocates, in_bounds>>
        /\ phase' \in {"guest", "host", "write", "alloc", "reenter"}
    BY <1>6 DEF CallTyped, BorrowPtr, BorrowPtrNotUtf8, Iter, IterNext, DropValue, Reenter,
                Reentered, Write, WriteAlloc, AllocReturns, WriteFails, WriteReturns
  <2> QED BY <2>1 DEF CallTyped
<1>7. CASE UNCHANGED vars
  BY <1>7 DEF vars, CallTyped
<1> QED BY <1>2, <1>3, <1>4, <1>5, <1>6, <1>7 DEF Next, Step

-----------------------------------------------------------------------------
(* The use of the borrow checker.                                          *)

\* Whatever the import does is a step of the checker, or none.
LEMMA StepUsesChecker == CallTyped /\ [Next]_vars => [BC!Next]_(BC!vars)
<1> SUFFICES ASSUME CallTyped, [Next]_vars PROVE BC!Next \/ UNCHANGED BC!vars
  OBVIOUS
<1>1. args.ptr \in BC!Regions /\ args.inb \in BufferArg /\ out \in BufferArg
  BY DEF CallTyped
<1>2. CASE BorrowPtr
  BY <1>1, <1>2 DEF BorrowPtr, BC!Next
<1>3. CASE BorrowPtrNotUtf8
  BY <1>1, <1>3 DEF BorrowPtrNotUtf8, BC!Next
<1>4. CASE Iter
  <2>1. ItemsRegion(args.inb) \in BC!Regions
    BY <1>1, <1>4, ItemsRegionTyped DEF Iter
  <2> QED BY <1>4, <2>1 DEF Iter, BC!Next
<1>5. CASE Write
  <2>1. ItemsRegion(out) \in BC!Regions
    BY <1>1, <1>5, ItemsRegionTyped DEF Write
  <2> QED BY <1>5, <2>1 DEF Write, BC!Next
<1>6. CASE DropValue
  BY <1>6 DEF DropValue, Unborrow, Of, BC!Next
<1>7. CASE WriteReturns
  BY <1>7 DEF WriteReturns, Unborrow, Of, BC!Next
<1>8. CASE UNCHANGED checker
  BY <1>8 DEF checker, BC!vars
<1>9. CASE UNCHANGED vars
  BY <1>8, <1>9 DEF vars
<1>10. CASE \/ \E ptr \in Ptrs, inb, outb \in Buffers : Call(ptr, inb, outb)
            \/ Grow \/ IterNext \/ Reenter \/ Reentered \/ Return
            \/ WriteAlloc \/ AllocReturns \/ WriteItem \/ WriteFails
  BY <1>8, <1>10 DEF Call, Grow, IterNext, Reenter, Reentered, Return, WriteAlloc,
                     AllocReturns, WriteItem, WriteFails
<1> QED BY <1>2, <1>3, <1>4, <1>5, <1>6, <1>7, <1>9, <1>10 DEF Next, Step

\* The types of the call hold always.
LEMMA AlwaysCallTyped == Spec => []CallTyped
BY CallTypedInit, CallTypedStep, PTL DEF Spec

\* An import, with the guest running in between, uses the borrow checker as
\* BorrowChecker has it, so what is proved there holds here.
THEOREM UsesChecker == Spec => UsesBorrowChecker
<1>1. Init => BC!Init
  BY DEF Init
<1> QED BY <1>1, StepUsesChecker, AlwaysCallTyped, PTL DEF Spec, UsesBorrowChecker, BC!Spec

\* BorrowChecker is the same module in both instances.
LEMMA SameChecker == /\ BC!Init => BCP!Init
                     /\ [BC!Next]_(BC!vars) => [BCP!Next]_(BCP!vars)
<1>1. /\ BCP!Regions = BC!Regions /\ BCP!vars = BC!vars /\ BCP!FreshHandle = BC!FreshHandle
      /\ BCP!HandlesLeft <=> BC!HandlesLeft
      /\ BCP!Init <=> BC!Init
  BY DEF BCP!Regions, BC!Regions, BCP!U32, BC!U32, BCP!vars, BC!vars, BCP!FreshHandle, BC!FreshHandle,
         BCP!HandlesLeft, BC!HandlesLeft, BCP!Init, BC!Init, BCP!EmptyMap, BC!EmptyMap
<1>2. /\ \A m, h, r : BCP!Put(m, h, r) = BC!Put(m, h, r)
      /\ \A m, h : BCP!Without(m, h) = BC!Without(m, h)
  BY DEF BCP!Put, BC!Put, BCP!Without, BC!Without
<1>3. \A r, mut : BCP!Available(r, mut) <=> BC!Available(r, mut)
  BY DEF BCP!Available, BC!Available, BCP!is_mut_borrowed, BC!is_mut_borrowed,
         BCP!is_shared_borrowed, BC!is_shared_borrowed, BCP!Overlaps, BC!Overlaps
<1>4. ASSUME NEW r PROVE BC!SharedBorrow(r) => BCP!SharedBorrow(r)
  BY <1>1, <1>2, <1>3, Zenon DEF BCP!SharedBorrow, BC!SharedBorrow
<1>5. ASSUME NEW r PROVE BC!MutBorrow(r) => BCP!MutBorrow(r)
  BY <1>1, <1>2, <1>3, Zenon DEF BCP!MutBorrow, BC!MutBorrow
<1>6. ASSUME NEW r, NEW mut PROVE BC!BorrowNotUtf8(r, mut) => BCP!BorrowNotUtf8(r, mut)
  BY <1>1, <1>2, <1>3, Zenon DEF BCP!BorrowNotUtf8, BC!BorrowNotUtf8
<1>7. ASSUME NEW r, NEW mut, BC!PtrBorrowed(r, mut) \/ BC!OutOfHandles(r, mut)
      PROVE  UNCHANGED BCP!vars
  BY <1>7 DEF BC!PtrBorrowed, BC!OutOfHandles, BC!vars, BCP!vars
<1>8. ASSUME NEW g PROVE /\ BC!DropShared(g) => BCP!DropShared(g)
                         /\ BC!DropMut(g) => BCP!DropMut(g)
  BY <1>2, Zenon DEF BCP!DropShared, BC!DropShared, BCP!DropMut, BC!DropMut
<1>9. BC!Next => BCP!Next \/ UNCHANGED BCP!vars
  BY <1>1, <1>4, <1>5, <1>6, <1>7, <1>8, Zenon DEF BC!Next, BCP!Next
<1>10. UNCHANGED BC!vars => UNCHANGED BCP!vars
  BY DEF BC!vars, BCP!vars
<1> QED BY <1>1, <1>9, <1>10, Zenon

\* The invariant of the checker is one of the import.
LEMMA CheckerInvariant == Spec => []BCP!IInv
<1>1. BCP!Spec => []BCP!IInv
  BY BCP!Invariance, ImportAssumption
<1> QED BY <1>1, UsesChecker, SameChecker, PTL DEF UsesBorrowChecker, BC!Spec, BCP!Spec

-----------------------------------------------------------------------------
(* The owners.                                                             *)

\* What the checker's invariant says of the guards.
LEMMA CheckerFacts ==
    ASSUME BCP!IInv
    PROVE  /\ BC!TypeOK
           /\ \A g \in guards : g.handle # BC!FreshHandle
           /\ \A g, k \in guards : g.handle = k.handle => g = k
           /\ BC!has_outstanding_borrows <=> guards # {}
<1>1. /\ BCP!TypeOK /\ BCP!GuardsTracked /\ BCP!HandlesBelowNext /\ BCP!TablesDisjoint
  BY DEF BCP!IInv
<1>2. BC!TypeOK
  BY <1>1 DEF BCP!TypeOK, BC!TypeOK, BCP!Handles, BC!Handles, BCP!Regions, BC!Regions,
              BCP!U32, BC!U32, BCP!Guard, BC!Guard
<1>3. \A g \in guards : /\ g.handle \in DOMAIN shared_borrows \cup DOMAIN mut_borrows
                        /\ g.mut => g = [handle |-> g.handle, region |-> mut_borrows[g.handle],
                                         mut |-> TRUE]
                        /\ ~g.mut => g = [handle |-> g.handle, region |-> shared_borrows[g.handle],
                                          mut |-> FALSE]
                        /\ g.mut <=> g.handle \in DOMAIN mut_borrows
  BY <1>1 DEF BCP!GuardsTracked, BCP!TablesDisjoint
<1>4. \A g, k \in guards : g.handle = k.handle => g = k
  <2> SUFFICES ASSUME NEW g \in guards, NEW k \in guards, g.handle = k.handle PROVE g = k
    OBVIOUS
  <2>1. g.mut <=> k.mut
    BY <1>3
  <2>2. CASE g.mut
    <3>1. g = [handle |-> g.handle, region |-> mut_borrows[g.handle], mut |-> TRUE]
      BY <2>2, <1>3
    <3>2. k = [handle |-> k.handle, region |-> mut_borrows[k.handle], mut |-> TRUE]
      BY <2>1, <2>2, <1>3
    <3> QED BY <3>1, <3>2, Zenon
  <2>3. CASE ~g.mut
    <3>1. g = [handle |-> g.handle, region |-> shared_borrows[g.handle], mut |-> FALSE]
      BY <2>3, <1>3
    <3>2. k = [handle |-> k.handle, region |-> shared_borrows[k.handle], mut |-> FALSE]
      BY <2>1, <2>3, <1>3
    <3> QED BY <3>1, <3>2, Zenon
  <2> QED BY <2>2, <2>3
<1>5. \A g \in guards : g.handle # BC!FreshHandle
  <2>1. \A h \in DOMAIN shared_borrows \cup DOMAIN mut_borrows : h \in Nat /\ h < next_handle
    BY <1>1, <1>2, ImportAssumption DEF BCP!HandlesBelowNext, BC!TypeOK, BC!Handles
  <2>2. next_handle \in Nat
    BY <1>2, ImportAssumption DEF BC!TypeOK, BC!Handles
  <2> QED BY <2>1, <2>2, <1>3 DEF BC!FreshHandle
<1>6. BC!has_outstanding_borrows <=> guards # {}
  BY <1>1 DEF BCP!GuardsTracked, BC!has_outstanding_borrows
<1> QED BY <1>2, <1>4, <1>5, <1>6

\* A borrow gets an owner of its own.
LEMMA NewOwnerEffect ==
    ASSUME BCP!IInv, Owned, NEW role, NewOwner(role), NEW r,
           BC!SharedBorrow(r) \/ BC!MutBorrow(r)
    PROVE  /\ Owned'
           /\ \E new : \A g \in guards' :
                 \/ g \in guards /\ owner'[g.handle] = owner[g.handle]
                 \/ g = new /\ g.region = r /\ owner'[g.handle] = Owner(role)
<1> DEFINE h == BC!FreshHandle
<1>1. h \notin DOMAIN owner
  BY CheckerFacts DEF Owned
<1>2. PICK mut \in BOOLEAN : guards' = guards \cup {[handle |-> h, region |-> r, mut |-> mut]}
  BY DEF BC!SharedBorrow, BC!MutBorrow
<1>3. /\ DOMAIN owner' = DOMAIN owner \cup {h} /\ owner'[h] = Owner(role)
      /\ \A k \in DOMAIN owner : owner'[k] = owner[k]
  BY <1>1 DEF NewOwner
<1> DEFINE new == [handle |-> h, region |-> r, mut |-> mut]
<1>4. new.handle = h /\ new.region = r /\ guards' = guards \cup {new}
  BY <1>2
<1> HIDE DEF h, new
<1>5. Owned'
  BY <1>3, <1>4 DEF Owned
<1>6. \A g \in guards' : \/ g \in guards /\ owner'[g.handle] = owner[g.handle]
                         \/ g = new /\ g.region = r /\ owner'[g.handle] = Owner(role)
  BY <1>3, <1>4 DEF Owned
<1> QED BY <1>5, <1>6

\* A drop takes the borrow's owner along.
LEMMA UnborrowEffect ==
    ASSUME BCP!IInv, Owned, NEW g \in guards, Unborrow(g)
    PROVE  /\ Owned'
           /\ guards' = guards \ {g}
           /\ \A k \in guards' : k \in guards /\ owner'[k.handle] = owner[k.handle]
<1>1. /\ guards' = guards \ {g} /\ owner' = [k \in DOMAIN owner \ {g.handle} |-> owner[k]]
  BY DEF Unborrow, Disown, BC!DropShared, BC!DropMut
<1>2. \A k \in guards' : k \in guards /\ k.handle # g.handle
  BY <1>1, CheckerFacts
<1> QED BY <1>1, <1>2 DEF Owned

LEMMA InitInvariant == Init => IInv
<1> SUFFICES ASSUME Init PROVE IInv
  OBVIOUS
<1>1. guards = {} /\ owner = [h \in {} |-> 0] /\ phase = "guest"
  BY DEF Init, BC!Init
<1> QED BY <1>1, CallTypedInit
   DEF IInv, Owned, OwnersFine, OneWriter, GuestCalled, OutAccessible, WritesStayInside

-----------------------------------------------------------------------------
(* The steps, with the checker's invariant at hand.                        *)

LEMMA CallInvariant ==
    ASSUME IInv, NEW ptr \in Ptrs, NEW inb \in Buffers, NEW outb \in Buffers,
           Call(ptr, inb, outb), UNCHANGED <<allocates, in_bounds>>
    PROVE  Owned' /\ OwnersFine' /\ OneWriter' /\ GuestCalled' /\ OutAccessible' /\ WritesStayInside'
<1>1. /\ phase = "guest" /\ phase' = "host" /\ out' = outb
      /\ args' = [ptr |-> ptr, inb |-> inb, outb |-> outb]
      /\ UNCHANGED <<guards, owner, memory, allocates, in_bounds>>
      /\ in_bounds => \A i \in 0..(outb.len - 1) : Accessible(outb.offset + i * ItemSize)
  BY DEF Call, checker
<1>2. outb.offset \in Nat /\ outb.len \in Nat /\ args'.outb = outb
  BY <1>1, ArgsAssumption, ImportAssumption DEF BufferArg
<1>3. Owned' /\ OneWriter' /\ GuestCalled'
  BY <1>1 DEF IInv, Owned, OneWriter, GuestCalled
<1>4. OwnersFine'
  <2> SUFFICES ASSUME NEW g \in guards PROVE OwnerFine(owner[g.handle], g.region)'
    BY <1>1 DEF OwnersFine
  <2>1. OwnerFine(owner[g.handle], g.region)
    BY DEF IInv, OwnersFine
  <2>2. owner[g.handle].role = "nobody"
    BY <2>1, <1>1 DEF OwnerFine, OwnerType, Roles
  <2> QED BY <2>1, <2>2, <1>1 DEF OwnerFine
<1>5. OutAccessible'
  BY <1>1, <1>2 DEF OutAccessible, Accessible
<1>6. WritesStayInside'
  <2>1. outb.offset = outb.offset + (outb.len - outb.len) * ItemSize
    BY <1>2, ImportAssumption
  <2> QED BY <2>1, <1>1, <1>2 DEF WritesStayInside
<1> QED BY <1>3, <1>4, <1>5, <1>6

\* The memory only grows, and moves while no reference into it is live unless
\* serializing calls the guest.
LEMMA GrowInvariant ==
    ASSUME IInv, Grow, UNCHANGED <<allocates, in_bounds>>
    PROVE  Owned' /\ OwnersFine' /\ OneWriter' /\ GuestCalled' /\ OutAccessible' /\ WritesStayInside'
<1>1. /\ phase \in {"guest", "alloc", "reenter"} /\ memory'.size = memory.size + 1
      /\ UNCHANGED <<guards, owner, phase, args, out, allocates, in_bounds>>
  BY DEF Grow, GuestRuns, checker
<1>2. Owned' /\ OneWriter' /\ GuestCalled' /\ WritesStayInside'
  BY <1>1 DEF IInv, Owned, OneWriter, GuestCalled, WritesStayInside
<1>3. OwnersFine'
  <2> SUFFICES ASSUME NEW g \in guards PROVE OwnerFine(owner[g.handle], g.region)'
    BY <1>1 DEF OwnersFine
  <2>1. OwnerFine(owner[g.handle], g.region)
    BY DEF IInv, OwnersFine
  <2>2. owner[g.handle].role = "ptr" => allocates
    BY <2>1, <1>1 DEF OwnerFine, IInv, GuestCalled
  <2> QED BY <2>1, <2>2, <1>1 DEF OwnerFine
<1>4. OutAccessible'
  <2>1. \A x \in Nat : Accessible(x) => Accessible(x)'
    BY <1>1, ImportAssumption DEF Accessible, IInv, CallTyped
  <2>2. args.outb.offset \in Nat
    BY ImportAssumption DEF IInv, CallTyped, BufferArg
  <2>3. \A i \in Nat : args.outb.offset + i * ItemSize \in Nat
    BY <2>2, ImportAssumption
  <2>4. args.outb.len \in Nat
    BY ImportAssumption DEF IInv, CallTyped, BufferArg
  <2>5. \A i \in 0..(args.outb.len - 1) : i \in Nat
    BY <2>4
  <2> QED BY <2>1, <2>3, <2>5, <1>1 DEF IInv, OutAccessible
<1> QED BY <1>2, <1>3, <1>4

\* Steps that change neither a borrow nor what belongs to it.
LEMMA PhaseInvariant ==
    ASSUME IInv, BCP!IInv,
           BorrowPtrNotUtf8 \/ Reenter \/ Reentered \/ Return \/ WriteAlloc \/ AllocReturns,
           UNCHANGED <<allocates, in_bounds>>
    PROVE  Owned' /\ OwnersFine' /\ OneWriter' /\ GuestCalled' /\ OutAccessible' /\ WritesStayInside'
<1>1. UNCHANGED <<guards, owner, memory, allocates, in_bounds>>
  BY DEF BorrowPtrNotUtf8, BC!BorrowNotUtf8, Reenter, Reentered, Return, WriteAlloc,
         AllocReturns, checker
<1>2. Owned' /\ OneWriter'
  BY <1>1 DEF IInv, Owned, OneWriter
<1>3. \A g \in guards : OwnerFine(owner[g.handle], g.region)
  BY DEF IInv, OwnersFine
<1>4. CASE Return
  <2>1. phase' = "guest" /\ \A g \in guards : owner[g.handle].role \notin {"ptr", "iter"}
    BY <1>4 DEF Return, Of
  <2>2. OwnersFine'
    <3> SUFFICES ASSUME NEW g \in guards PROVE OwnerFine(owner[g.handle], g.region)'
      BY <1>1 DEF OwnersFine
    <3>1. owner[g.handle].role # "write"
      BY <1>3, <1>4 DEF OwnerFine, Return
    <3> QED BY <3>1, <2>1, <1>1, <1>3 DEF OwnerFine
  <2> QED BY <1>2, <2>1, <2>2 DEF GuestCalled, OutAccessible, WritesStayInside
<1>5. CASE Reenter
  <2>1. guards = {}
    BY <1>5, CheckerFacts DEF Reenter
  <2>2. phase # "guest" /\ UNCHANGED <<args, out>> /\ phase' = "reenter"
    BY <1>5 DEF Reenter
  <2> QED BY <1>1, <1>2, <2>1, <2>2
          DEF IInv, OwnersFine, GuestCalled, OutAccessible, Accessible, WritesStayInside
<1>6. CASE BorrowPtrNotUtf8 \/ Reentered \/ WriteAlloc \/ AllocReturns
  <2>1. /\ UNCHANGED <<args, out>> /\ phase # "guest"
        /\ \/ phase' = "host" /\ phase \in {"host", "reenter"}
           \/ phase' \in {"write", "alloc"} /\ phase \in {"write", "alloc"}
        /\ phase' = "alloc" => allocates
    BY <1>6 DEF BorrowPtrNotUtf8, Reentered, WriteAlloc, AllocReturns
  <2>2. OwnersFine'
    <3> SUFFICES ASSUME NEW g \in guards PROVE OwnerFine(owner[g.handle], g.region)'
      BY <1>1 DEF OwnersFine
    <3> QED BY <2>1, <1>1, <1>3 DEF OwnerFine
  <2>3. GuestCalled' /\ OutAccessible' /\ WritesStayInside'
    BY <1>1, <2>1 DEF IInv, GuestCalled, OutAccessible, Accessible, WritesStayInside
  <2> QED BY <1>2, <2>2, <2>3
<1> QED BY <1>4, <1>5, <1>6

\* Steps that borrow.
LEMMA BorrowInvariant ==
    ASSUME IInv, BCP!IInv, BorrowPtr \/ Iter \/ Write, UNCHANGED <<allocates, in_bounds>>
    PROVE  Owned' /\ OwnersFine' /\ OneWriter' /\ GuestCalled' /\ OutAccessible' /\ WritesStayInside'
<1>1. /\ UNCHANGED <<memory, args, out, allocates, in_bounds>> /\ phase = "host"
      /\ phase' \in {"host", "write"}
  BY DEF BorrowPtr, Iter, Write
<1>2. PICK role, r : /\ NewOwner(role) /\ (BC!SharedBorrow(r) \/ BC!MutBorrow(r))
                     /\ \/ role = "ptr"
                        \/ role = "iter" /\ r = ItemsRegion(args.inb)
                        \/ role = "write" /\ phase' = "write"
  BY DEF BorrowPtr, Iter, Write
<1>3. PICK o : o = Owner(role)
  OBVIOUS
<1>4. /\ Owned'
      /\ \E new : \A g \in guards' : \/ g \in guards /\ owner'[g.handle] = owner[g.handle]
                                     \/ g = new /\ g.region = r /\ owner'[g.handle] = o
  BY <1>2, <1>3, NewOwnerEffect DEF IInv
<1>5. PICK new : \A g \in guards' : \/ g \in guards /\ owner'[g.handle] = owner[g.handle]
                                    \/ g = new /\ g.region = r /\ owner'[g.handle] = o
  BY <1>4
<1>6. o \in OwnerType /\ o.role = role /\ o.next = 0 /\ o.base = memory.base
  <2>1. memory.base \in 0..MaxBase
    BY DEF IInv, CallTyped
  <2> QED BY <1>2, <1>3, <2>1, ImportAssumption DEF Owner, OwnerType, Roles
<1>7. \A g \in guards : OwnerFine(owner[g.handle], g.region) /\ owner[g.handle].role # "write"
  BY <1>1 DEF IInv, OwnersFine, OwnerFine
<1>8. OwnersFine'
  <2> SUFFICES ASSUME NEW g \in guards' PROVE OwnerFine(owner[g.handle], g.region)'
    BY DEF OwnersFine
  <2>1. CASE g \in guards /\ owner'[g.handle] = owner[g.handle]
    BY <2>1, <1>7, <1>1 DEF OwnerFine
  <2>2. CASE g.region = r /\ owner'[g.handle] = o
    <3>1. args.inb.len \in Nat
      BY ImportAssumption DEF IInv, CallTyped, BufferArg
    <3> QED BY <2>2, <3>1, <1>1, <1>2, <1>6 DEF OwnerFine
  <2> QED BY <1>5, <2>1, <2>2
<1>9. OneWriter'
  BY <1>5, <1>7 DEF OneWriter
<1>10. GuestCalled' /\ OutAccessible' /\ WritesStayInside'
  BY <1>1 DEF IInv, GuestCalled, OutAccessible, Accessible, WritesStayInside
<1> QED BY <1>4, <1>8, <1>9, <1>10

\* Steps that give a borrow back.
LEMMA UnborrowInvariant ==
    ASSUME IInv, BCP!IInv, DropValue \/ WriteReturns, UNCHANGED <<allocates, in_bounds>>
    PROVE  Owned' /\ OwnersFine' /\ OneWriter' /\ GuestCalled' /\ OutAccessible' /\ WritesStayInside'
<1>1. /\ UNCHANGED <<memory, args, out, allocates, in_bounds>> /\ phase \in {"host", "write"}
      /\ phase' = "host"
  BY DEF DropValue, WriteReturns
<1>2. PICK d \in guards : Unborrow(d) /\ (phase = "write" => owner[d.handle].role = "write")
  BY DEF DropValue, WriteReturns, Of
<1>3. /\ Owned' /\ guards' = guards \ {d}
      /\ \A g \in guards' : g \in guards /\ owner'[g.handle] = owner[g.handle]
  BY <1>2, UnborrowEffect DEF IInv
<1>4. \A g \in guards' : OwnerFine(owner[g.handle], g.region) /\ owner[g.handle].role # "write"
  <2> SUFFICES ASSUME NEW g \in guards'
               PROVE  OwnerFine(owner[g.handle], g.region) /\ owner[g.handle].role # "write"
    OBVIOUS
  <2>1. g \in guards /\ g # d
    BY <1>3
  <2>2. OwnerFine(owner[g.handle], g.region)
    BY <2>1 DEF IInv, OwnersFine
  <2>3. CASE phase = "host"
    BY <2>2, <2>3 DEF OwnerFine
  <2>4. CASE phase = "write"
    BY <2>1, <2>2, <2>4, <1>2 DEF IInv, OneWriter
  <2> QED BY <1>1, <2>3, <2>4
<1>5. OwnersFine'
  <2> SUFFICES ASSUME NEW g \in guards' PROVE OwnerFine(owner[g.handle], g.region)'
    BY DEF OwnersFine
  <2> QED BY <1>1, <1>3, <1>4 DEF OwnerFine
<1>6. OneWriter'
  BY <1>3, <1>4 DEF OneWriter
<1>7. GuestCalled' /\ OutAccessible' /\ WritesStayInside'
  BY <1>1 DEF IInv, GuestCalled, OutAccessible, Accessible, WritesStayInside
<1> QED BY <1>3, <1>5, <1>6, <1>7

\* The next item of an iterator whose reads were all in the memory is where the
\* buffer has it: until there the addresses have not wrapped.
LEMMA NextItem ==
    ASSUME NEW start \in 0..U32Max, NEW i \in Nat, NEW last,
           i > 0 => last = start + (i - 1) * ItemSize /\ ~Negative(last)
    PROVE  /\ Wrap(start + i * ItemSize) = start + i * ItemSize
           /\ Wrap(start + i * ItemSize) \in 0..U32Max
<1>1. CASE i = 0
  <2>1. start + i * ItemSize = start /\ start \in Nat
    BY <1>1, ImportAssumption
  <2> QED BY <2>1, WrapTyped, ImportAssumption
<1>2. CASE i > 0
  <2>1. PICK j \in Nat : i = j + 1
    BY <1>2
  <2> DEFINE p == j * ItemSize
  <2>2. p \in Nat /\ (i - 1) * ItemSize = p /\ i * ItemSize = p + ItemSize
    BY <2>1, ImportAssumption
  <2> HIDE DEF p
  <2>3. start + p + ItemSize <= U32Max
    BY <1>2, <2>2, ImportAssumption DEF Negative
  <2>4. start + i * ItemSize = start + p + ItemSize /\ start + p + ItemSize \in Nat
    BY <2>2, ImportAssumption
  <2> QED BY <2>3, <2>4, WrapTyped, ImportAssumption
<1> QED BY <1>1, <1>2

\* An iterator goes on to its next item.
LEMMA IterNextInvariant ==
    ASSUME IInv, BCP!IInv, IterNext, UNCHANGED <<allocates, in_bounds>>
    PROVE  Owned' /\ OwnersFine' /\ OneWriter' /\ GuestCalled' /\ OutAccessible' /\ WritesStayInside'
<1>1. /\ UNCHANGED <<guards, memory, phase, args, out, allocates, in_bounds>>
      /\ phase \in {"host", "write"}
  BY DEF IterNext, checker
<1>2. PICK d \in guards :
         LET i == owner[d.handle].next
             at == Wrap(args.inb.offset + i * ItemSize)
         IN  /\ owner[d.handle].role = "iter" /\ i < args.inb.len
             /\ owner' = [owner EXCEPT ![d.handle].next = i + 1, ![d.handle].at = at,
                                       ![d.handle].inside = @ /\ Accessible(at)]
  BY DEF IterNext, Of
<1>3. PICK h : h = d.handle
  OBVIOUS
<1>4. PICK i : i = owner[h].next
  OBVIOUS
<1>5. PICK at : at = Wrap(args.inb.offset + i * ItemSize)
  OBVIOUS
<1>6. OwnerFine(owner[h], d.region) /\ owner[h].role = "iter" /\ i < args.inb.len
  BY <1>2, <1>3, <1>4 DEF IInv, OwnersFine
<1>7. h \in DOMAIN owner
  BY <1>3 DEF IInv, Owned
<1>8. owner' = [owner EXCEPT ![h].next = i + 1, ![h].at = at, ![h].inside = @ /\ Accessible(at)]
  BY <1>2, <1>3, <1>4, <1>5
<1>9. /\ DOMAIN owner' = DOMAIN owner
      /\ \A k \in DOMAIN owner : k # h => owner'[k] = owner[k]
      /\ owner'[h] = [role |-> owner[h].role, base |-> owner[h].base, next |-> i + 1, at |-> at,
                      inside |-> owner[h].inside /\ Accessible(at)]
  <2>1. owner[h] \in OwnerType
    BY <1>6 DEF OwnerFine
  <2> QED BY <1>7, <1>8, <2>1 DEF OwnerType
<1>10. Owned'
  BY <1>1, <1>9 DEF IInv, Owned
<1>11. PICK inside \in BOOLEAN : inside = (owner[h].inside /\ Accessible(at))
  BY <1>6 DEF OwnerFine, OwnerType
<1>12. owner'[h].inside = inside
  <2>1. owner'[h] = [role |-> owner[h].role, base |-> owner[h].base, next |-> i + 1, at |-> at,
                     inside |-> inside]
    BY <1>9, <1>11
  <2> QED BY <2>1
<1>13. /\ i \in Nat /\ i < args.inb.len /\ args.inb.len \in 0..U32Max
       /\ args.inb.offset \in 0..U32Max
  BY <1>4, <1>6, ImportAssumption DEF OwnerFine, OwnerType, IInv, CallTyped, BufferArg
<1>14. OwnerFine(owner[h], d.region)'
  <2>1. i + 1 \in 0..U32Max /\ i + 1 <= args.inb.len /\ (i + 1) - 1 = i
    BY <1>13, ImportAssumption
  <2>2. CASE owner[h].inside
    <3>1. i > 0 => /\ owner[h].at = args.inb.offset + (i - 1) * ItemSize
                   /\ ~Negative(owner[h].at)
      BY <1>4, <1>6, <2>2 DEF OwnerFine
    <3>2. at = args.inb.offset + i * ItemSize /\ at \in 0..U32Max
      BY <1>5, <1>13, <3>1, NextItem
    <3>3. owner'[h].inside => ~Negative(at)
      BY <1>11, <1>12 DEF Accessible
    <3>4. owner'[h] \in OwnerType
      BY <1>6, <1>9, <2>1, <3>2 DEF OwnerFine, OwnerType
    <3> QED BY <1>1, <1>6, <1>9, <2>1, <3>2, <3>3, <3>4 DEF OwnerFine
  <2>3. CASE ~owner[h].inside
    <3>1. args.inb.offset + i * ItemSize \in Nat
      BY <1>13, ImportAssumption
    <3>2. at \in 0..U32Max
      BY <1>5, <3>1, WrapTyped
    <3>3. ~owner'[h].inside
      BY <1>11, <1>12, <2>3
    <3>4. owner'[h] \in OwnerType
      BY <1>6, <1>9, <2>1, <3>2 DEF OwnerFine, OwnerType
    <3> QED BY <1>1, <1>6, <1>9, <2>1, <3>3, <3>4 DEF OwnerFine
  <2> QED BY <2>2, <2>3
<1>15. OwnersFine'
  <2> SUFFICES ASSUME NEW g \in guards PROVE OwnerFine(owner[g.handle], g.region)'
    BY <1>1 DEF OwnersFine
  <2>1. CASE g = d
    BY <1>3, <1>14, <2>1
  <2>2. CASE g # d
    <3>1. g.handle # h /\ g.handle \in DOMAIN owner
      BY <1>3, <2>2, CheckerFacts DEF IInv, Owned
    <3>2. owner'[g.handle] = owner[g.handle] /\ OwnerFine(owner[g.handle], g.region)
      BY <1>9, <3>1 DEF IInv, OwnersFine
    <3> QED BY <1>1, <3>2 DEF OwnerFine
  <2> QED BY <2>1, <2>2
<1>16. OneWriter'
  <2>1. \A k \in DOMAIN owner : owner'[k].role = owner[k].role
    BY <1>9
  <2> QED BY <1>1, <2>1 DEF IInv, Owned, OneWriter
<1>17. GuestCalled' /\ OutAccessible' /\ WritesStayInside'
  BY <1>1 DEF IInv, GuestCalled, OutAccessible, Accessible, WritesStayInside
<1> QED BY <1>10, <1>15, <1>16, <1>17

\* An item is stored: what was written and what is left make up the buffer.
LEMMA WriteItemInvariant ==
    ASSUME IInv, WriteItem, UNCHANGED <<allocates, in_bounds>>
    PROVE  Owned' /\ OwnersFine' /\ OneWriter' /\ GuestCalled' /\ OutAccessible' /\ WritesStayInside'
<1>1. /\ UNCHANGED <<guards, owner, memory, phase, args, allocates, in_bounds>>
      /\ phase = "write" /\ out.len # 0 /\ Accessible(out.offset)
      /\ out' = [offset |-> Wrap(out.offset + ItemSize), len |-> out.len - 1]
  BY DEF WriteItem, checker
<1>2. Owned' /\ OneWriter' /\ GuestCalled' /\ OutAccessible'
  BY <1>1 DEF IInv, Owned, OneWriter, GuestCalled, OutAccessible, Accessible
<1>3. OwnersFine'
  <2> SUFFICES ASSUME NEW g \in guards PROVE OwnerFine(owner[g.handle], g.region)'
    BY <1>1 DEF OwnersFine
  <2> QED BY <1>1 DEF IInv, OwnersFine, OwnerFine
<1>4. WritesStayInside'
  <2>1. PICK n, k, start \in Nat : n = args.outb.len /\ k = out.len /\ start = args.outb.offset
    BY ImportAssumption DEF IInv, CallTyped, BufferArg
  <2>2. k <= n /\ k # 0 /\ out.offset = start + (n - k) * ItemSize
    BY <1>1, <2>1 DEF IInv, WritesStayInside
  <2>3. PICK j \in Nat : j = n - k
    BY <2>2
  <2>4. out'.len = k - 1 /\ k - 1 <= n /\ n - (k - 1) = j + 1
    BY <1>1, <2>1, <2>2, <2>3
  <2>5. out.offset \in Nat /\ out.offset + ItemSize = start + (j + 1) * ItemSize
    <3>1. j * ItemSize \in Nat /\ (j + 1) * ItemSize = j * ItemSize + ItemSize
      BY ImportAssumption
    <3> QED BY <2>2, <2>3, <3>1, ImportAssumption
  <2>6. out.offset + ItemSize \in Nat /\ out.offset + ItemSize <= U32Max
    BY <1>1, <2>5, ImportAssumption DEF Accessible, Negative
  <2>7. out'.offset = out.offset + ItemSize
    BY <1>1, <2>6, WrapTyped
  <2>8. out'.len <= args'.outb.len
    BY <1>1, <2>1, <2>4
  <2>9. out'.offset = args'.outb.offset + (args'.outb.len - out'.len) * ItemSize
    BY <1>1, <2>1, <2>4, <2>5, <2>7
  <2> QED BY <2>8, <2>9 DEF WritesStayInside
<1> QED BY <1>2, <1>3, <1>4

\* A write fails: only in a guest that passes buffers outside its memory, or
\* that is called to serialize.
LEMMA WriteFailsInvariant ==
    ASSUME IInv, WriteFails, UNCHANGED <<allocates, in_bounds>>
    PROVE  Owned' /\ OwnersFine' /\ OneWriter' /\ GuestCalled' /\ OutAccessible' /\ WritesStayInside'
<1>1. /\ UNCHANGED <<guards, memory, args, out, allocates, in_bounds>>
      /\ phase \in {"write", "alloc"} /\ phase' = "host"
      /\ phase = "write" => out.len # 0 /\ ~Accessible(out.offset)
      /\ owner' = [h \in DOMAIN owner |->
                      [owner[h] EXCEPT !.role = IF @ = "write" THEN "nobody" ELSE @]]
  BY DEF WriteFails, checker
<1>2. Owned' /\ GuestCalled' /\ OutAccessible' /\ WritesStayInside'
  BY <1>1 DEF IInv, Owned, GuestCalled, OutAccessible, Accessible, WritesStayInside
<1>3. ~in_bounds \/ allocates
  <2>1. CASE phase = "alloc"
    BY <2>1 DEF IInv, GuestCalled
  <2>2. CASE phase = "write"
    <3> SUFFICES ASSUME in_bounds PROVE FALSE
      OBVIOUS
    <3>1. PICK n, k, start \in Nat : n = args.outb.len /\ k = out.len /\ start = args.outb.offset
      BY ImportAssumption DEF IInv, CallTyped, BufferArg
    <3>2. k <= n /\ k # 0 /\ out.offset = start + (n - k) * ItemSize
      BY <2>2, <1>1, <3>1 DEF IInv, WritesStayInside
    <3>3. n - k \in 0..(n - 1)
      BY <3>2
    <3>4. Accessible(start + (n - k) * ItemSize)
      BY <2>2, <3>1, <3>3 DEF IInv, OutAccessible
    <3> QED BY <2>2, <1>1, <3>2, <3>4
  <2> QED BY <1>1, <2>1, <2>2
<1>4. ASSUME NEW g \in guards
      PROVE  OwnerFine(owner[g.handle], g.region)' /\ owner'[g.handle].role # "write"
  <2>1. OwnerFine(owner[g.handle], g.region) /\ g.handle \in DOMAIN owner
    BY DEF IInv, OwnersFine, Owned
  <2>2. PICK role : role = owner[g.handle].role
    OBVIOUS
  <2>3. PICK new : new = IF role = "write" THEN "nobody" ELSE role
    OBVIOUS
  <2>4. owner'[g.handle] = [owner[g.handle] EXCEPT !.role = new]
    BY <1>1, <2>1, <2>2, <2>3
  <2>5. owner[g.handle] \in OwnerType /\ role \in Roles /\ new \in Roles /\ new # "write"
        /\ (new # role => new = "nobody")
    BY <2>1, <2>2, <2>3 DEF OwnerFine, OwnerType, Roles
  <2>6. /\ owner'[g.handle] \in OwnerType /\ owner'[g.handle].role = new
        /\ owner'[g.handle].base = owner[g.handle].base
        /\ owner'[g.handle].next = owner[g.handle].next
        /\ owner'[g.handle].at = owner[g.handle].at
        /\ owner'[g.handle].inside = owner[g.handle].inside
    BY <2>4, <2>5 DEF OwnerType
  <2> QED BY <1>1, <1>3, <2>1, <2>2, <2>3, <2>5, <2>6 DEF OwnerFine
<1>5. OwnersFine' /\ OneWriter'
  BY <1>1, <1>4 DEF OwnersFine, OneWriter
<1> QED BY <1>2, <1>5

\* The invariant is inductive, with that of the borrow checker.
LEMMA StepInvariant == IInv /\ BCP!IInv /\ [Next]_vars => IInv'
<1> SUFFICES ASSUME IInv, BCP!IInv, [Next]_vars PROVE IInv'
  OBVIOUS
<1>1. CallTyped'
  BY CallTypedStep DEF IInv
<1> DEFINE Rest == Owned' /\ OwnersFine' /\ OneWriter' /\ GuestCalled' /\ OutAccessible' /\ WritesStayInside'
<1>2. CASE UNCHANGED vars
  <2>1. OwnersFine'
    <3> SUFFICES ASSUME NEW g \in guards PROVE OwnerFine(owner[g.handle], g.region)'
      BY <1>2 DEF OwnersFine, vars, checker
    <3> QED BY <1>2 DEF IInv, OwnersFine, OwnerFine, vars
  <2> QED BY <1>1, <1>2, <2>1 DEF IInv, vars, checker, Owned, OneWriter, GuestCalled,
                                  OutAccessible, Accessible, WritesStayInside
<1>3. ASSUME Next PROVE Rest
  <2> USE <1>3 DEF Next
  <2> HIDE DEF Rest
  <2>1. CASE \E ptr \in Ptrs, inb, outb \in Buffers : Call(ptr, inb, outb)
    BY <2>1, CallInvariant DEF Rest
  <2>2. CASE Grow
    BY <2>2, GrowInvariant DEF Rest
  <2>3. CASE BorrowPtrNotUtf8 \/ Reenter \/ Reentered \/ Return \/ WriteAlloc \/ AllocReturns
    BY <2>3, PhaseInvariant DEF Rest
  <2>4. CASE BorrowPtr \/ Iter \/ Write
    BY <2>4, BorrowInvariant DEF Rest
  <2>5. CASE DropValue \/ WriteReturns
    BY <2>5, UnborrowInvariant DEF Rest
  <2>6. CASE IterNext
    BY <2>6, IterNextInvariant DEF Rest
  <2>7. CASE WriteItem
    BY <2>7, WriteItemInvariant DEF Rest
  <2>8. CASE WriteFails
    BY <2>8, WriteFailsInvariant DEF Rest
  <2> QED BY <2>1, <2>2, <2>3, <2>4, <2>5, <2>6, <2>7, <2>8 DEF Step
<1> QED BY <1>1, <1>2, <1>3 DEF IInv

\* The inductive invariant holds always.
THEOREM Invariance == Spec => []IInv
BY InitInvariant, CheckerInvariant, StepInvariant, PTL DEF Spec

-----------------------------------------------------------------------------
(* What the invariant says.                                                *)

\* The state is well typed, and every borrow has exactly one owner.
THEOREM TypeCorrectness == Spec => []TypeOK
<1>1. IInv /\ BCP!IInv => TypeOK
  <2> SUFFICES ASSUME IInv, BCP!IInv PROVE TypeOK
    OBVIOUS
  <2>1. BC!TypeOK
    BY CheckerFacts
  <2>2. ASSUME NEW h \in DOMAIN owner
        PROVE  owner[h] \in [role : Roles, base : 0..MaxBase, next : 0..args.inb.len,
                             at : 0..U32Max, inside : BOOLEAN]
    <3>1. PICK g \in guards : g.handle = h
      BY DEF IInv, Owned
    <3>2. OwnerFine(owner[h], g.region)
      BY <3>1 DEF IInv, OwnersFine
    <3>3. args.inb.len \in Nat
      BY ImportAssumption DEF IInv, CallTyped, BufferArg
    <3>4. owner[h].next \in 0..args.inb.len
      BY <3>2, <3>3, ImportAssumption DEF OwnerFine, OwnerType
    <3> QED BY <3>2, <3>4 DEF OwnerFine, OwnerType
  <2> QED BY <2>1, <2>2 DEF TypeOK, IInv, CallTyped, Owned
<1> QED BY <1>1, Invariance, CheckerInvariant, PTL

\* OutBuffer::write never leaves the buffer the guest passed, however often it
\* is called and fails.
THEOREM WritesAlwaysInside == Spec => []WritesStayInside
<1>1. IInv => WritesStayInside
  BY DEF IInv
<1> QED BY <1>1, Invariance, PTL

\* What an iterator of an InBuffer reads is in the region it has borrowed, as
\* long as no read has failed.
THEOREM ReadsAlwaysCovered == Spec => []ReadsCovered
<1>1. IInv => ReadsCovered
  <2> SUFFICES ASSUME IInv, NEW g \in Of("iter"), owner[g.handle].inside, owner[g.handle].next > 0
               PROVE  owner[g.handle].at .. (owner[g.handle].at + ItemSize - 1)
                          \subseteq BC!Bytes(g.region)
    BY DEF ReadsCovered
  <2>1. OwnerFine(owner[g.handle], g.region) /\ owner[g.handle].role = "iter"
    BY DEF Of, IInv, OwnersFine
  <2>2. PICK n, i, start, at \in Nat : /\ n = args.inb.len /\ i = owner[g.handle].next
                                       /\ start = args.inb.offset /\ at = owner[g.handle].at
    BY <2>1, ImportAssumption DEF OwnerFine, OwnerType, IInv, CallTyped, BufferArg
  <2>3. /\ i > 0 /\ i <= n /\ at = start + (i - 1) * ItemSize
        /\ g.region = [start |-> start, len |-> n * ItemSize]
    BY <2>1, <2>2 DEF OwnerFine, ItemsRegion
  <2>4. PICK j, rest \in Nat : i = j + 1 /\ n = i + rest
    BY <2>3
  <2>5. /\ j * ItemSize \in Nat /\ rest * ItemSize \in Nat
        /\ n * ItemSize = j * ItemSize + ItemSize + rest * ItemSize
        /\ (i - 1) * ItemSize = j * ItemSize
    BY <2>4, ImportAssumption
  <2>6. BC!Bytes(g.region) = start .. (start + n * ItemSize - 1)
    BY <2>3 DEF BC!Bytes
  <2>7. PICK before, after \in Nat : before = j * ItemSize /\ after = rest * ItemSize
    BY <2>5
  <2>8. /\ at = start + before
        /\ BC!Bytes(g.region) = start .. (start + (before + ItemSize + after) - 1)
    BY <2>3, <2>5, <2>6, <2>7
  <2>9. PICK size \in Nat : size = ItemSize
    BY ImportAssumption
  <2>10. (start + before) .. (start + before + size - 1)
             \subseteq start .. (start + (before + size + after) - 1)
    OBVIOUS
  <2> QED BY <2>2, <2>8, <2>9, <2>10
<1> QED BY <1>1, Invariance, PTL

\* An import leaves no borrow behind when no item of a write can fail.
THEOREM SafeBorrowsAlwaysReturned == Spec => []SafeBorrowsReturned
<1>1. IInv /\ BCP!IInv => SafeBorrowsReturned
  <2> SUFFICES ASSUME IInv, BCP!IInv, in_bounds, ~allocates, phase = "guest"
               PROVE  guards = {}
    BY CheckerFacts DEF SafeBorrowsReturned, BorrowsReturned
  <2> SUFFICES ASSUME NEW g \in guards PROVE FALSE
    OBVIOUS
  <2>1. OwnerFine(owner[g.handle], g.region)
    BY DEF IInv, OwnersFine
  <2> QED BY <2>1 DEF OwnerFine, OwnerType, Roles
<1> QED BY <1>1, Invariance, CheckerInvariant, PTL

\* A host reference into guest memory points to where the memory is, when
\* serializing does not call the guest.
THEOREM PointersAlwaysCurrent == Spec => []PointersCurrent
<1>1. IInv => PointersCurrent
  BY DEF IInv, OwnersFine, OwnerFine, PointersCurrent, Of
<1> QED BY <1>1, Invariance, PTL

=============================================================================
