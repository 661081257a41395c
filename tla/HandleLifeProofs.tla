-------------------------- MODULE HandleLifeProofs ---------------------------
(***************************************************************************)
(* Proofs about HandleLife, for any number of items, objects, addresses    *)
(* and handles, and stacks of any depth, for safe guests and for others.   *)
(***************************************************************************)
EXTENDS HandleLife, FiniteSetTheorems, SequenceTheorems, TLAPS

TP == INSTANCE TableProofs WITH nested <- TRUE

(***************************************************************************)
(* The inductive invariant.                                                *)
(***************************************************************************)

ImportFrame == [kind : {"import"}, args : SUBSET Wrapped, todo : SUBSET Wrapped,
                access : Nat \ {0}, result : SUBSET Wrapped]
CloseImportFrame == [kind : {"close_import"}, item : Item]
ExportFrame == [kind : {"export"}, args : SUBSET Exported]
CloseExportFrame == [kind : {"close_export"}, handle : Exported, how : {"close", "drop"},
                     again : BOOLEAN, valid : BOOLEAN]
Frame == ImportFrame \cup CloseImportFrame \cup ExportFrame \cup CloseExportFrame

Types ==
    /\ wrapped \in SUBSET Wrapped /\ exported \in SUBSET Exported
    /\ stack \in Seq(Frame)
    /\ unwinding \in {"no", "panic", "abort"} /\ failed \in {"no", "trap", "panic"}
    /\ safe \in BOOLEAN

\* The frames of a kind.
Frames(kind) == {d \in 1..Depth : stack[d].kind = kind}

\* Below the host's frames are the guest's.
GuestBelow ==
    \A d \in Frames("import") \cup Frames("close_import") :
        d > 1 /\ stack[d - 1].kind \in {"export", "close_export"}

\* The accesses are those of the imports on the stack, in the same order.
AccessesOfImports ==
    /\ \A d \in Frames("import") : stack[d].access \in 1..Len(accesses)
    /\ \A d, e \in Frames("import") : d < e => stack[d].access < stack[e].access
    /\ \A a \in 1..Len(accesses) : \E d \in Frames("import") : stack[d].access = a

\* An import still has to get some of its arguments, and has lowered a result
\* only when it is about to return.
ImportsFine ==
    \A d \in Frames("import") :
        /\ stack[d].todo \subseteq stack[d].args
        /\ d < Depth => stack[d].result = {}

\* A handle that is the guest's, or is about to be, names its item.
Resolves(h) == T!IsFull(h.raw) /\ elems[h.raw].item = h.item

GuestHandles ==
    safe => /\ \A h \in wrapped : Resolves(h)
            /\ \A d \in Frames("import") :
                  stack[d].args \subseteq wrapped /\ \A h \in stack[d].result : Resolves(h)

\* What is borrowed of the table is borrowed by an import on the stack, since
\* it was called.
BorrowsOfImports ==
    safe => \A k \in DOMAIN active_borrows : \E d \in Frames("import") :
                /\ accesses[stack[d].access].start < k
                /\ \E h \in stack[d].args : h.raw = active_borrows[k]

\* Without a panic, nothing unwinds and no destructor runs again.
NoPanic ==
    failed # "panic" =>
        unwinding = "no" /\ \A d \in Frames("close_export") : ~stack[d].again

\* Handles of the host are addresses of boxes, and so is one that is closed,
\* by one frame.
HostHandles ==
    failed # "panic" =>
        /\ \A h \in exported : h.raw \in DOMAIN boxes /\ boxes[h.raw] = h.object
        /\ \A d \in Frames("export") : stack[d].args \subseteq exported
        /\ \A d \in Frames("close_export") :
              LET a == stack[d].handle.raw
              IN  stack[d].valid /\ a \in DOMAIN boxes /\ boxes[a] = "moved"
        /\ \A d, e \in Frames("close_export") :
              stack[d].handle.raw = stack[e].handle.raw => d = e

\* While nothing fails, the slots with items are those of the guest's handles,
\* and the boxes are those of the host's.
ItemsHeld ==
    safe /\ failed = "no" =>
        \A i : T!IsFull(i) => \/ \E h \in wrapped : h.raw = i
                             \/ \E d \in Frames("import") : \E h \in stack[d].result : h.raw = i

BoxesHeld ==
    failed = "no" =>
        \A a \in DOMAIN boxes : \/ \E h \in exported : h.raw = a
                               \/ \E d \in Frames("close_export") : stack[d].handle.raw = a

IInv ==
    /\ Types
    /\ GuestBelow
    /\ AccessesOfImports
    /\ ImportsFine
    /\ GuestHandles
    /\ BorrowsOfImports
    /\ NoPanic
    /\ HostHandles
    /\ ItemsHeld
    /\ BoxesHeld

-----------------------------------------------------------------------------
(* The table.                                                              *)

\* Nor are there several notions of cardinality.
LEMMA SameCardinality ==
    \A S : T!Cardinality(S) = Cardinality(S) /\ TP!Cardinality(S) = Cardinality(S)
BY DEF T!Cardinality, TP!Cardinality, Cardinality

\* The two instances of Table are one.
LEMMA SameOperators ==
    /\ T!vars = TP!vars /\ T!elemsLen = TP!elemsLen /\ T!Handle = TP!Handle
    /\ T!Stored = TP!Stored /\ T!Grown = TP!Grown /\ T!Usable = TP!Usable
    /\ \A i : (T!IsFull(i) <=> TP!IsFull(i)) /\ (T!IsEmpty(i) <=> TP!IsEmpty(i))
    /\ \A i, u : T!Full(i, u) = TP!Full(i, u) /\ T!Empty(i) = TP!Empty(i)
    /\ \A s, i : T!Occurrences(s, i) = TP!Occurrences(s, i)
    /\ \A a : T!Gone(a) = TP!Gone(a)
    /\ \A s : T!Returned(s) = TP!Returned(s)
<1>1. T!vars = TP!vars /\ T!elemsLen = TP!elemsLen /\ T!Handle = TP!Handle
  BY SameCardinality DEF T!vars, TP!vars, T!table, TP!table, T!elemsLen, TP!elemsLen, T!Handle, TP!Handle
<1>2. T!Usable = TP!Usable
  BY DEF T!Usable, TP!Usable
<1>3. \A i : (T!IsFull(i) <=> TP!IsFull(i)) /\ (T!IsEmpty(i) <=> TP!IsEmpty(i))
  BY DEF T!IsFull, TP!IsFull, T!IsEmpty, TP!IsEmpty
<1>4. \A i, u : T!Full(i, u) = TP!Full(i, u) /\ T!Empty(i) = TP!Empty(i)
  BY DEF T!Full, TP!Full, T!Empty, TP!Empty
<1>5. T!Stored = TP!Stored
  BY <1>3 DEF T!Stored, TP!Stored
<1>6. T!Grown = TP!Grown
  BY <1>1, <1>4 DEF T!Grown, TP!Grown
<1>7. \A s, i : T!Occurrences(s, i) = TP!Occurrences(s, i)
  BY SameCardinality DEF T!Occurrences, TP!Occurrences
<1>8. \A a : T!Gone(a) = TP!Gone(a)
  BY DEF T!Gone, TP!Gone
<1>9. \A s : T!Returned(s) = TP!Returned(s)
  BY <1>7 DEF T!Returned, TP!Returned
<1> QED BY <1>1, <1>2, <1>3, <1>4, <1>5, <1>6, <1>7, <1>8, <1>9

LEMMA SameTable == /\ T!Init => TP!Init
                   /\ [T!Next]_(T!vars) => [TP!Next]_(TP!vars)
<1>1. T!Init => TP!Init
  BY DEF T!Init, TP!Init, T!Empty, TP!Empty
<1>2. T!Access => TP!Access
  BY DEF T!Access, TP!Access
<1>3. \A item : /\ T!Insert(item) => TP!Insert(item)
                /\ T!InsertPanics(item) => TP!InsertPanics(item)
  BY SameOperators, Zenon DEF T!Insert, TP!Insert, T!InsertPanics, TP!InsertPanics
<1>4. \A i : /\ T!Remove(i) => TP!Remove(i)
             /\ T!RemoveFails(i) => TP!RemoveFails(i)
             /\ T!GetNone(i) => TP!GetNone(i)
  BY SameOperators, Zenon
     DEF T!Remove, TP!Remove, T!RemoveFails, TP!RemoveFails, T!GetNone, TP!GetNone,
         T!table, TP!table
<1>5. \A a : /\ T!Drop(a) => TP!Drop(a)
             /\ T!DropPanics(a) => TP!DropPanics(a)
             /\ \A i : T!Get(a, i) => TP!Get(a, i)
  BY SameOperators, Zenon
     DEF T!Drop, TP!Drop, T!DropPanics, TP!DropPanics, T!Get, TP!Get
<1>6. T!Next => TP!Next
  BY <1>2, <1>3, <1>4, <1>5, SameOperators, Zenon DEF T!Next, TP!Next, T!Step, TP!Step
<1>7. UNCHANGED T!vars => UNCHANGED TP!vars
  BY DEF T!vars, TP!vars, T!table, TP!table
<1> QED BY <1>1, <1>6, <1>7

\* The head of the free list is no slot with an item.
LEMMA HeadNotFull ==
    ASSUME TP!IInv PROVE ~T!IsFull(next)
<1>1. next # TP!elemsLen => TP!IsEmpty(next)
  BY TP!HeadOfFreeList, LifeAssumption
<1>2. DOMAIN elems = 0..(TP!elemsLen - 1) /\ TP!elemsLen \in Nat
  BY DEF TP!IInv, TP!Types
<1> QED BY <1>1, <1>2 DEF TP!IsEmpty, T!IsFull

\* What the invariant of the table says here.
LEMMA TableFacts ==
    ASSUME TP!IInv
    PROVE  /\ next \in Nat
           /\ \A i : T!IsFull(i) => /\ i \in DOMAIN elems
                                    /\ elems[i] = T!Full(elems[i].item, elems[i].uses)
                                    /\ elems[i].item \in Item /\ elems[i].uses \in Nat
           /\ \A i \in DOMAIN elems : T!IsFull(i) \/ T!IsEmpty(i)
           /\ active_borrows \in Seq(Nat) /\ Len(active_borrows) \in Nat
           /\ Len(accesses) \in Nat /\ DOMAIN accesses = 1..Len(accesses)
           /\ \A a \in 1..Len(accesses) : accesses[a].start \in 0..Len(active_borrows)
           /\ \A i : T!IsFull(i) /\ elems[i].uses # 0 =>
                        \E k \in DOMAIN active_borrows : active_borrows[k] = i
<1> DEFINE R == [start : Nat, access_idx : Nat \ {0}, refs : SUBSET [index : Nat, item : Item]]
<1>1. TP!Types /\ TP!UsesCounted /\ TP!AccessesStacked
  BY DEF TP!IInv
<1>2. /\ next \in Nat /\ active_borrows \in Seq(Nat) /\ accesses \in Seq(R)
      /\ elems \in [DOMAIN elems -> TP!Slot]
  BY <1>1 DEF TP!Types
<1>3. \A i : T!IsFull(i) => /\ i \in DOMAIN elems
                            /\ elems[i] = T!Full(elems[i].item, elems[i].uses)
                            /\ elems[i].item \in Item /\ elems[i].uses \in Nat
  BY <1>2 DEF T!IsFull, T!Full, TP!Slot
<1>4. \A i \in DOMAIN elems : T!IsFull(i) \/ T!IsEmpty(i)
  BY <1>2 DEF T!IsFull, T!IsEmpty, TP!Slot
<1>5. \A x \in R : x.start \in Nat
  OBVIOUS
<1> HIDE DEF R
<1>6. /\ Len(active_borrows) \in Nat /\ Len(accesses) \in Nat /\ DOMAIN accesses = 1..Len(accesses)
      /\ \A a \in 1..Len(accesses) : accesses[a].start \in Nat
  BY <1>2, <1>5
<1>7. \A a \in 1..Len(accesses) : accesses[a].start \in 0..Len(active_borrows)
  BY <1>1, <1>6 DEF TP!AccessesStacked
<1>8. ASSUME NEW i, T!IsFull(i), elems[i].uses # 0
      PROVE  \E k \in DOMAIN active_borrows : active_borrows[k] = i
  <2>1. TP!Occurrences(active_borrows, i) # 0
    BY <1>1, <1>8 DEF TP!UsesCounted, T!IsFull, TP!IsFull
  <2> SUFFICES ASSUME {k \in DOMAIN active_borrows : active_borrows[k] = i} = {} PROVE FALSE
    OBVIOUS
  <2> QED BY <2>1, FS_EmptySet, SameCardinality DEF TP!Occurrences
<1> QED BY <1>2, <1>3, <1>4, <1>6, <1>7, <1>8

\* A change that leaves in the table what was there.
Kept == /\ \A i : T!IsFull(i)' <=> T!IsFull(i)
        /\ \A i : T!IsFull(i) => elems'[i].item = elems[i].item

\* insert takes a slot that was empty or is new.
LEMMA InsertEffect ==
    ASSUME TP!IInv, NEW item \in Item, T!Insert(item)
    PROVE  /\ next \in T!Handle /\ ~T!IsFull(next)
           /\ \A i : T!IsFull(i)' <=> T!IsFull(i) \/ i = next
           /\ elems'[next].item = item
           /\ \A i : T!IsFull(i) => elems'[i].item = elems[i].item
           /\ UNCHANGED <<active_borrows, accesses>>
<1>1. PICK n \in Nat : n = T!elemsLen /\ DOMAIN elems = 0..(n - 1)
  BY SameOperators DEF TP!IInv, TP!Types
<1>2. PICK slots : slots = T!Grown
  OBVIOUS
<1>3. next = n => DOMAIN slots = 0..n
  BY <1>1, <1>2 DEF T!Grown
<1>4. next \in DOMAIN slots /\ \A i : i \in DOMAIN slots <=> i \in DOMAIN elems \/ i = next
  <2>1. next # TP!elemsLen => next \in DOMAIN elems
    <3>1. next # TP!elemsLen => TP!IsEmpty(next)
      BY TP!HeadOfFreeList, LifeAssumption
    <3> QED BY <3>1 DEF TP!IsEmpty
  <2> QED BY <1>1, <1>2, <1>3, <2>1, SameOperators DEF T!Grown
<1>5. \A i \in DOMAIN elems : i # next => slots[i] = elems[i]
  BY <1>1, <1>2 DEF T!Grown
<1>6. elems' = [slots EXCEPT ![next] = T!Full(item, 0)] /\ next <= U32Max
  BY <1>2 DEF T!Insert
<1>7. /\ \A i : i \in DOMAIN elems' <=> i \in DOMAIN elems \/ i = next
      /\ elems'[next] = T!Full(item, 0)
      /\ \A i \in DOMAIN elems : i # next => elems'[i] = elems[i]
  BY <1>4, <1>5, <1>6
<1>8. \A i : T!IsFull(i)' <=> T!IsFull(i) \/ i = next
  BY <1>7, HeadNotFull DEF T!IsFull, T!Full
<1>9. next \in T!Handle
  BY <1>6, TableFacts, LifeAssumption DEF T!Handle
<1> QED BY <1>7, <1>8, <1>9, HeadNotFull DEF T!IsFull, T!Full, T!Insert

\* remove empties one slot.
LEMMA RemoveEffect ==
    ASSUME NEW i, T!Remove(i)
    PROVE  /\ \A j : T!IsFull(j)' <=> T!IsFull(j) /\ j # i
           /\ \A j : T!IsFull(j) /\ j # i => elems'[j].item = elems[j].item
           /\ UNCHANGED <<active_borrows, accesses>>
BY DEF T!Remove, T!IsFull, T!Empty

\* access opens one more, with nothing borrowed.
LEMMA AccessEffect ==
    ASSUME TP!IInv, T!Access
    PROVE  /\ Kept /\ UNCHANGED active_borrows
           /\ Len(accesses') = Len(accesses) + 1
           /\ \A a \in 1..Len(accesses) : accesses'[a] = accesses[a]
<1>1. PICK new : accesses' = Append(accesses, new) /\ UNCHANGED <<elems, active_borrows>>
  BY DEF T!Access
<1>2. PICK S : accesses \in Seq(S)
  BY DEF TP!IInv, TP!Types
<1>3. /\ Len(accesses') = Len(accesses) + 1
      /\ \A a \in 1..Len(accesses) : accesses'[a] = accesses[a]
  BY <1>1, <1>2, AppendProperties
<1> QED BY <1>1, <1>3 DEF Kept, T!IsFull

\* get lists and counts one more use of a slot.
LEMMA GetEffect ==
    ASSUME TP!IInv, NEW a \in 1..Len(accesses), NEW i \in T!Handle, T!Get(a, i)
    PROVE  /\ Kept /\ T!IsFull(i)
           /\ active_borrows' = Append(active_borrows, i)
           /\ Len(accesses') = Len(accesses)
           /\ \A b \in 1..Len(accesses) : accesses'[b].start = accesses[b].start
<1>1. /\ T!IsFull(i) /\ active_borrows' = Append(active_borrows, i)
      /\ elems' = [elems EXCEPT ![i].uses = @ + 1]
      /\ accesses' = [accesses EXCEPT
                        ![a].refs = @ \cup {[index |-> i, item |-> elems[i].item]}]
  BY DEF T!Get
<1>2. PICK slot : slot = elems[i]
  OBVIOUS
<1>3. slot = T!Full(slot.item, slot.uses) /\ i \in DOMAIN elems
  BY <1>1, <1>2, TableFacts
<1>4. /\ DOMAIN elems' = DOMAIN elems
      /\ elems'[i] = [slot EXCEPT !.uses = slot.uses + 1]
      /\ \A j \in DOMAIN elems : j # i => elems'[j] = elems[j]
  BY <1>1, <1>2, <1>3
<1>5. elems'[i].tag = slot.tag /\ elems'[i].item = slot.item
  BY <1>3, <1>4 DEF T!Full
<1>6. Kept
  BY <1>2, <1>4, <1>5 DEF Kept, T!IsFull
<1>7. /\ Len(accesses') = Len(accesses)
      /\ \A b \in 1..Len(accesses) : accesses'[b].start = accesses[b].start
  <2> DEFINE R == [start : Nat, access_idx : Nat \ {0}, refs : SUBSET [index : Nat, item : Item]]
  <2>1. accesses \in Seq(R)
    BY DEF TP!IInv, TP!Types
  <2> HIDE DEF R
  <2>2. accesses[a] \in R
    BY <2>1
  <2>3. PICK refs : refs = accesses[a].refs \cup {[index |-> i, item |-> elems[i].item]}
    OBVIOUS
  <2>4. accesses' = [accesses EXCEPT ![a] = [accesses[a] EXCEPT !.refs = refs]]
    BY <1>1, <2>1, <2>3
  <2>5. [accesses[a] EXCEPT !.refs = refs].start = accesses[a].start
    BY <2>2 DEF R
  <2> QED BY <2>1, <2>4, <2>5
<1> QED BY <1>1, <1>6, <1>7

\* Dropping the innermost access gives back what was borrowed since it began.
LEMMA DropEffect ==
    ASSUME TP!IInv, NEW a, a = Len(accesses), a > 0, T!Drop(a)
    PROVE  /\ Kept
           /\ Len(accesses') = Len(accesses) - 1
           /\ \A b \in 1..(Len(accesses) - 1) : accesses'[b] = accesses[b]
           /\ DOMAIN active_borrows' = 1..accesses[a].start
           /\ \A k \in 1..accesses[a].start : active_borrows'[k] = active_borrows[k]
<1>1. PICK drained : elems' = T!Returned(drained)
  BY DEF T!Drop
<1>2. DOMAIN elems' = DOMAIN elems
  BY <1>1 DEF T!Returned
<1>3. ASSUME NEW i \in DOMAIN elems
      PROVE  elems'[i].tag = elems[i].tag /\ (T!IsFull(i) => elems'[i].item = elems[i].item)
  <2>1. CASE T!Occurrences(drained, i) = 0
    BY <1>1, <2>1 DEF T!Returned
  <2>2. CASE T!Occurrences(drained, i) # 0
    <3>1. PICK slot, n : slot = elems[i] /\ n = slot.uses - T!Occurrences(drained, i)
      OBVIOUS
    <3>2. elems'[i] = [slot EXCEPT !.uses = n]
      BY <1>1, <2>2, <3>1 DEF T!Returned
    <3>3. slot \in TP!Slot
      BY <3>1 DEF TP!IInv, TP!Types
    <3>4. slot.tag = "Empty" \/ slot.tag = "Full"
      BY <3>3 DEF TP!Slot
    <3> QED BY <3>1, <3>2, <3>3 DEF TP!Slot, T!IsFull
  <2> QED BY <2>1, <2>2
<1>4. Kept
  BY <1>2, <1>3 DEF Kept, T!IsFull
<1>5. PICK n \in Nat : n = Len(accesses) - 1 /\ a = n + 1
  BY TableFacts
<1>6. accesses' = [k \in 1..n |-> accesses[k]]
  BY <1>5 DEF T!Drop, T!Gone
<1>7. Len(accesses') = n
  BY <1>6
<1>8. PICK start \in 0..Len(active_borrows) : start = accesses[a].start
  BY TableFacts, <1>5
<1>9. active_borrows' = SubSeq(active_borrows, 1, start) /\ active_borrows \in Seq(Nat)
  BY <1>8, TableFacts DEF T!Drop
<1>10. /\ DOMAIN active_borrows' = 1..start
       /\ \A k \in 1..start : active_borrows'[k] = active_borrows[k]
  BY <1>9, TableFacts, SubSeqProperties
<1> QED BY <1>4, <1>5, <1>6, <1>7, <1>8, <1>10

-----------------------------------------------------------------------------
(* The stack.                                                              *)

\* The fields of a frame.
LEMMA FrameFields ==
    ASSUME Types, NEW d \in 1..Depth
    PROVE  /\ stack[d].kind \in {"import", "close_import", "export", "close_export"}
           /\ stack[d].kind = "import" => stack[d] \in ImportFrame
           /\ stack[d].kind = "export" => stack[d] \in ExportFrame
           /\ stack[d].kind = "close_export" => stack[d] \in CloseExportFrame
<1>1. stack[d] \in Frame
  BY DEF Types, Depth
<1> QED BY <1>1 DEF Frame, ImportFrame, CloseImportFrame, ExportFrame, CloseExportFrame

LEMMA PushEffect ==
    ASSUME Types, NEW f \in Frame, Push(f)
    PROVE  /\ stack' \in Seq(Frame) /\ Depth \in Nat /\ Depth' = Depth + 1
           /\ stack'[Depth + 1] = f
           /\ \A d \in 1..Depth : stack'[d] = stack[d]
           /\ \A kind : Frames(kind)' = Frames(kind) \cup {d \in {Depth + 1} : f.kind = kind}
<1>1. stack \in Seq(Frame) /\ stack' = Append(stack, f)
  BY DEF Types, Push
<1>2. /\ stack' \in Seq(Frame) /\ Len(stack) \in Nat /\ Len(stack') = Len(stack) + 1
      /\ stack'[Len(stack) + 1] = f
      /\ \A d \in 1..Len(stack) : stack'[d] = stack[d]
  BY <1>1, AppendProperties
<1>3. ASSUME NEW kind
      PROVE  Frames(kind)' = Frames(kind) \cup {d \in {Len(stack) + 1} : f.kind = kind}
  BY <1>2 DEF Frames, Depth
<1> QED BY <1>2, <1>3 DEF Depth

LEMMA PopEffect ==
    ASSUME Types, NEW n \in 1..2, n <= Depth, Pop(n)
    PROVE  /\ stack' \in Seq(Frame) /\ Depth \in Nat /\ Depth' = Depth - n
           /\ \A d \in 1..(Depth - n) : stack'[d] = stack[d]
           /\ \A kind : Frames(kind)' = {d \in Frames(kind) : d <= Depth - n}
<1>1. PICK m \in Nat : m = Len(stack) - n /\ Len(stack) = m + n
  BY DEF Types, Depth
<1>2. stack \in Seq(Frame) /\ stack' = SubSeq(stack, 1, m)
  BY <1>1 DEF Types, Pop, Depth
<1>3. /\ stack' \in Seq(Frame) /\ Len(stack') = m
      /\ \A d \in 1..m : stack'[d] = stack[d]
  BY <1>1, <1>2, SubSeqProperties
<1>4. ASSUME NEW kind
      PROVE  Frames(kind)' = {d \in Frames(kind) : d <= m}
  BY <1>1, <1>3 DEF Frames, Depth
<1> QED BY <1>1, <1>3, <1>4 DEF Depth

LEMMA ReplaceEffect ==
    ASSUME Types, Depth > 0, NEW f \in Frame, f.kind = Top.kind,
           stack' = [stack EXCEPT ![Depth] = f]
    PROVE  /\ stack' \in Seq(Frame) /\ Depth \in Nat /\ Depth' = Depth
           /\ stack'[Depth] = f
           /\ \A d \in 1..Depth : d # Depth => stack'[d] = stack[d]
           /\ \A kind : Frames(kind)' = Frames(kind)
<1>1. stack \in Seq(Frame) /\ Len(stack) \in Nat /\ Len(stack) > 0
  BY DEF Types, Depth
<1>2. /\ stack' \in Seq(Frame) /\ Len(stack') = Len(stack) /\ stack'[Len(stack)] = f
      /\ \A d \in 1..Len(stack) : d # Len(stack) => stack'[d] = stack[d]
  BY <1>1 DEF Depth
<1>3. ASSUME NEW kind PROVE Frames(kind)' = Frames(kind)
  BY <1>1, <1>2 DEF Frames, Depth, Top
<1> QED BY <1>1, <1>2, <1>3 DEF Depth

-----------------------------------------------------------------------------
(* The guest's handles and the imports on the stack.                       *)

GuestInv == AccessesOfImports /\ ImportsFine /\ GuestHandles /\ BorrowsOfImports /\ ItemsHeld

\* An import on top of the stack has the innermost access.
LEMMA TopAccess ==
    ASSUME Types, AccessesOfImports, TP!IInv, TopIs({"import"})
    PROVE  Depth \in Frames("import") /\ Top.access = Len(accesses) /\ Len(accesses) > 0
<1>1. Depth \in Nat /\ Depth \in Frames("import") /\ Top = stack[Depth]
  BY DEF Types, TopIs, Top, Frames, Depth
<1>2. Top.access \in 1..Len(accesses) /\ Len(accesses) \in Nat
  BY <1>1, TableFacts DEF AccessesOfImports
<1>3. PICK d \in Frames("import") : stack[d].access = Len(accesses)
  BY <1>2 DEF AccessesOfImports
<1>4. d = Depth \/ d < Depth
  BY <1>1 DEF Frames
<1>5. \A e \in Frames("import") : stack[e].access \in 1..Len(accesses)
  BY DEF AccessesOfImports
<1>6. CASE d < Depth
  <2>1. stack[d].access < stack[Depth].access
    BY <1>1, <1>6 DEF AccessesOfImports
  <2> QED BY <2>1, <1>1, <1>2, <1>3
<1> QED BY <1>1, <1>2, <1>3, <1>4, <1>6

\* When the guest or a destructor runs, no import has lowered a result.
LEMMA NoResults ==
    ASSUME Types, ImportsFine, ~TopIs({"import"}), NEW d \in Frames("import")
    PROVE  d < Depth /\ stack[d].result = {}
<1>1. d \in 1..Depth /\ Depth \in Nat /\ stack[d].kind = "import"
  BY DEF Frames, Types, Depth
<1>2. d # Depth
  BY <1>1 DEF TopIs, Top
<1> QED BY <1>1, <1>2 DEF ImportsFine

\* The guest has one handle of an item.
LEMMA HandlesDistinct ==
    ASSUME Types, GuestHandles, safe, NEW h \in wrapped, NEW k \in wrapped, h.raw = k.raw
    PROVE  h = k
BY DEF Types, GuestHandles, Resolves, Wrapped

\* What does not concern imports, items and the guest's handles.
LEMMA GuestStays ==
    ASSUME Types, GuestInv, Kept, UNCHANGED <<active_borrows, accesses, wrapped, safe>>,
           failed' = "no" => failed = "no",
           Frames("import")' = Frames("import"),
           \A d \in Frames("import") :
              stack'[d] = stack[d] /\ (d < Depth' => d < Depth \/ stack[d].result = {})
    PROVE  GuestInv'
<1>1. AccessesOfImports'
  BY DEF GuestInv, AccessesOfImports
<1>2. ImportsFine'
  BY DEF GuestInv, ImportsFine
<1>3. GuestHandles'
  BY DEF GuestInv, GuestHandles, Resolves, Kept
<1>4. BorrowsOfImports'
  BY DEF GuestInv, BorrowsOfImports
<1>5. ItemsHeld'
  BY DEF GuestInv, ItemsHeld, Kept
<1> QED BY <1>1, <1>2, <1>3, <1>4, <1>5 DEF GuestInv

\* The guest gives a handle away, and the table the item, if it had it.
LEMMA GuestGives ==
    ASSUME Types, GuestInv, ~TopIs({"import"}), NEW h \in Closable, wrapped' = wrapped \ {h},
           \/ Kept /\ failed' # "no"
           \/ /\ T!Remove(h.raw) /\ UNCHANGED failed,
           UNCHANGED <<active_borrows, accesses, safe>>,
           Frames("import")' = Frames("import"),
           \A d \in Frames("import") : stack'[d] = stack[d]
    PROVE  GuestInv'
<1>1. \A d \in Frames("import") : stack[d].result = {}
  BY NoResults DEF GuestInv
<1>2. AccessesOfImports'
  BY DEF GuestInv, AccessesOfImports
<1>3. ImportsFine'
  BY <1>1 DEF GuestInv, ImportsFine
<1>4. BorrowsOfImports'
  BY DEF GuestInv, BorrowsOfImports
<1>5. ASSUME safe PROVE h \in wrapped /\ \A d \in Frames("import") : h \notin stack[d].args
  BY <1>5 DEF Closable, Lent, Frames
<1>6. ASSUME safe, NEW k \in wrapped \ {h} PROVE Resolves(k)'
  <2>1. Resolves(k) /\ k.raw # h.raw
    BY <1>5, <1>6, HandlesDistinct DEF GuestInv, GuestHandles
  <2>2. CASE Kept
    BY <2>1, <2>2 DEF Kept, Resolves
  <2>3. CASE T!Remove(h.raw)
    BY <2>1, <2>3, RemoveEffect DEF Resolves
  <2> QED BY <2>2, <2>3
<1>7. GuestHandles'
  BY <1>1, <1>5, <1>6 DEF GuestInv, GuestHandles
<1>8. ItemsHeld'
  <2> SUFFICES ASSUME safe, failed' = "no", NEW i, T!IsFull(i)'
               PROVE  \E k \in wrapped \ {h} : k.raw = i
    BY DEF ItemsHeld
  <2>1. T!IsFull(i) /\ i # h.raw /\ failed = "no"
    BY RemoveEffect
  <2> QED BY <2>1, <1>1 DEF GuestInv, ItemsHeld
<1> QED BY <1>2, <1>3, <1>4, <1>7, <1>8 DEF GuestInv

\* The guest calls an import.
LEMMA GuestCalls ==
    ASSUME Types, GuestInv, TP!IInv, NEW args \in SUBSET Passable, CallImport(args), UNCHANGED safe
    PROVE  GuestInv'
<1> DEFINE n == Len(accesses)
           m == Depth
           new == [kind |-> "import", args |-> args, todo |-> args, access |-> n + 1,
                   result |-> {}]
<1>1. n \in Nat /\ m \in Nat /\ ~TopIs({"import"})
  BY TableFacts DEF Types, Depth, CallImport, GuestRuns, TopIs
<1>2. new \in Frame /\ Push(new)
  <2>1. args \subseteq Wrapped
    BY DEF Types, Passable, Wrapped
  <2> QED BY <2>1, <1>1 DEF Frame, ImportFrame, CallImport, Import
<1>3. new.kind = "import" /\ new.args = args /\ new.todo = args /\ new.access = n + 1
      /\ new.result = {}
  OBVIOUS
<1>4. /\ Kept /\ UNCHANGED <<active_borrows, wrapped, failed>>
      /\ Len(accesses') = n + 1
      /\ \A a \in 1..n : accesses'[a] = accesses[a]
  BY AccessEffect DEF CallImport
<1> HIDE DEF new
<1>5. /\ stack'[m + 1] = new /\ Depth' = m + 1
      /\ \A d \in 1..m : stack'[d] = stack[d]
      /\ Frames("import")' = Frames("import") \cup {m + 1}
  BY <1>2, <1>3, PushEffect DEF Types
<1>6. \A d \in Frames("import") : d \in 1..m /\ d < m /\ stack[d].result = {}
  BY <1>1, NoResults DEF Frames, GuestInv
<1> HIDE DEF n, m
<1>7. \A d \in Frames("import") : stack'[d] = stack[d] /\ stack[d].access \in 1..n
  BY <1>5, <1>6 DEF GuestInv, AccessesOfImports, n
<1>8. AccessesOfImports'
  <2>1. \A d \in Frames("import")' : stack'[d].access \in 1..(n + 1)
    BY <1>1, <1>3, <1>5, <1>7
  <2>2. ASSUME NEW d \in Frames("import")', NEW e \in Frames("import")', d < e
        PROVE  stack'[d].access < stack'[e].access
    <3>1. CASE e = m + 1
      <4>1. d \in Frames("import")
        BY <1>1, <1>5, <2>2, <3>1
      <4>2. stack'[e].access = n + 1
        BY <1>3, <1>5, <3>1
      <4>3. stack'[d].access \in 1..n
        BY <1>7, <4>1
      <4> QED BY <1>1, <4>2, <4>3
    <3>2. CASE e # m + 1
      <4>1. e \in Frames("import") /\ d # m + 1
        BY <1>1, <1>5, <1>6, <2>2, <3>2
      <4>2. d \in Frames("import")
        BY <1>5, <4>1
      <4> QED BY <1>7, <2>2, <4>1, <4>2 DEF GuestInv, AccessesOfImports
    <3> QED BY <3>1, <3>2
  <2>3. ASSUME NEW a \in 1..(n + 1) PROVE \E d \in Frames("import")' : stack'[d].access = a
    <3>1. CASE a = n + 1
      BY <1>3, <1>5, <3>1
    <3>2. CASE a \in 1..n
      BY <1>5, <1>7, <3>2 DEF GuestInv, AccessesOfImports, n
    <3> QED BY <1>1, <3>1, <3>2
  <2> QED BY <1>4, <2>1, <2>2, <2>3 DEF AccessesOfImports
<1>9. ImportsFine'
  BY <1>1, <1>3, <1>5, <1>6, <1>7 DEF GuestInv, ImportsFine
<1>10. GuestHandles'
  BY <1>3, <1>4, <1>5, <1>7 DEF GuestInv, GuestHandles, Resolves, Kept, Passable
<1>11. BorrowsOfImports'
  BY <1>4, <1>5, <1>7 DEF GuestInv, BorrowsOfImports
<1>12. ItemsHeld'
  BY <1>4, <1>5, <1>7 DEF GuestInv, ItemsHeld, Kept
<1> QED BY <1>8, <1>9, <1>10, <1>11, <1>12 DEF GuestInv

\* An import gets one of its arguments from the table.
LEMMA GuestLends ==
    ASSUME Types, GuestInv, TP!IInv, GetArg, UNCHANGED safe
    PROVE  GuestInv' /\ \E f \in ImportFrame : stack' = [stack EXCEPT ![Depth] = f]
<1>1. PICK h \in Top.todo : /\ T!Get(Top.access, h.raw)
                            /\ stack' = [stack EXCEPT ![Depth].todo = @ \ {h}]
  BY DEF GetArg
<1>2. PICK top, m : top = Top /\ m = Depth
  OBVIOUS
<1>3. /\ m \in Frames("import") /\ top = stack[m] /\ top.access = Len(accesses)
      /\ Len(accesses) > 0 /\ m \in Nat /\ m > 0
  BY <1>2, TopAccess DEF GuestInv, GetArg, Top, Types, Depth, TopIs
<1>4. top \in ImportFrame /\ h \in Wrapped
  BY <1>1, <1>2, <1>3, FrameFields DEF Frames, ImportFrame
<1>5. PICK todo : todo = top.todo \ {h}
  OBVIOUS
<1>6. PICK f : f = [top EXCEPT !.todo = todo]
  OBVIOUS
<1>7. /\ f \in ImportFrame /\ f.kind = "import" /\ f.args = top.args /\ f.access = top.access
      /\ f.result = top.result /\ f.todo \subseteq top.todo
  BY <1>4, <1>5, <1>6 DEF ImportFrame
<1>8. stack' = [stack EXCEPT ![m] = f]
  BY <1>1, <1>2, <1>3, <1>5, <1>6 DEF Types
<1>9. /\ Depth' = m /\ stack'[m] = f
      /\ \A d \in 1..m : d # m => stack'[d] = stack[d]
      /\ Frames("import")' = Frames("import")
  <2>1. f \in Frame
    BY <1>7 DEF Frame
  <2> QED BY <1>2, <1>3, <1>4, <1>7, <1>8, <2>1, ReplaceEffect DEF ImportFrame
<1>10. /\ Kept /\ UNCHANGED <<wrapped, failed>>
       /\ active_borrows' = Append(active_borrows, h.raw)
       /\ Len(accesses') = Len(accesses)
       /\ \A b \in 1..Len(accesses) : accesses'[b].start = accesses[b].start
  <2>1. Top.access \in 1..Len(accesses) /\ h.raw \in T!Handle
    BY <1>2, <1>3, <1>4, TableFacts DEF Wrapped
  <2> QED BY <1>1, <2>1, GetEffect DEF GetArg
<1>11. \A d \in Frames("import") : /\ stack'[d].args = stack[d].args
                                   /\ stack'[d].access = stack[d].access
                                   /\ stack'[d].result = stack[d].result
                                   /\ stack'[d].todo \subseteq stack[d].todo
  BY <1>2, <1>3, <1>7, <1>9 DEF Frames
<1>12. AccessesOfImports'
  BY <1>9, <1>10, <1>11 DEF GuestInv, AccessesOfImports
<1>13. ImportsFine'
  BY <1>2, <1>9, <1>11 DEF GuestInv, ImportsFine
<1>14. GuestHandles'
  BY <1>9, <1>10, <1>11 DEF GuestInv, GuestHandles, Resolves, Kept
<1>15. BorrowsOfImports'
  <2> SUFFICES ASSUME safe, NEW k \in DOMAIN active_borrows'
               PROVE  \E d \in Frames("import") :
                         /\ accesses'[stack[d].access].start < k
                         /\ \E j \in stack[d].args : j.raw = active_borrows'[k]
    BY <1>9, <1>11 DEF BorrowsOfImports
  <2>1. /\ active_borrows \in Seq(Nat) /\ Len(active_borrows) \in Nat /\ h.raw \in Nat
        /\ \A a \in 1..Len(accesses) : accesses[a].start \in 0..Len(active_borrows)
    BY <1>4, TableFacts, LifeAssumption DEF Wrapped, T!Handle
  <2>2. \A d \in Frames("import") : accesses'[stack[d].access].start = accesses[stack[d].access].start
    BY <1>10 DEF GuestInv, AccessesOfImports
  <2>3. /\ k \in 1..(Len(active_borrows) + 1)
        /\ k \in 1..Len(active_borrows) => active_borrows'[k] = active_borrows[k]
        /\ k = Len(active_borrows) + 1 => active_borrows'[k] = h.raw
    BY <1>10, <2>1, AppendProperties
  <2>4. CASE k \in 1..Len(active_borrows)
    BY <2>1, <2>2, <2>3, <2>4 DEF GuestInv, BorrowsOfImports
  <2>5. CASE k = Len(active_borrows) + 1
    <3>1. h \in stack[m].args
      BY <1>1, <1>2, <1>3 DEF GuestInv, ImportsFine
    <3>2. accesses'[stack[m].access].start < k
      BY <1>3, <2>1, <2>2, <2>5, TableFacts
    <3> QED BY <1>3, <2>3, <2>5, <3>1, <3>2
  <2> QED BY <2>1, <2>3, <2>4, <2>5
<1>16. ItemsHeld'
  BY <1>9, <1>10, <1>11 DEF GuestInv, ItemsHeld, Kept
<1> QED BY <1>2, <1>7, <1>8, <1>12, <1>13, <1>14, <1>15, <1>16 DEF GuestInv

\* An import inserts its result into the table.
LEMMA GuestGetsResult ==
    ASSUME Types, GuestInv, TP!IInv, NEW item \in Item, LowerResult(item), UNCHANGED safe
    PROVE  GuestInv' /\ \E f \in ImportFrame : stack' = [stack EXCEPT ![Depth] = f]
<1>1. PICK h : h = [raw |-> next, item |-> item]
  OBVIOUS
<1>2. PICK top, m : top = Top /\ m = Depth
  OBVIOUS
<1>3. m \in Frames("import") /\ top = stack[m] /\ m \in Nat /\ m > 0 /\ top.result = {}
  BY <1>2, TopAccess DEF GuestInv, LowerResult, HostRuns, Top, Types, Depth, TopIs
<1>4. top \in ImportFrame
  BY <1>3, <1>2, FrameFields DEF Frames
<1>5. /\ next \in T!Handle /\ ~T!IsFull(next)
      /\ \A i : T!IsFull(i)' <=> T!IsFull(i) \/ i = next
      /\ elems'[next].item = item
      /\ \A i : T!IsFull(i) => elems'[i].item = elems[i].item
      /\ UNCHANGED <<active_borrows, accesses, wrapped, failed>>
  BY InsertEffect DEF LowerResult
<1>6. PICK f : f = [top EXCEPT !.result = {h}]
  OBVIOUS
<1>7. /\ f \in ImportFrame /\ f.kind = "import" /\ f.args = top.args /\ f.access = top.access
      /\ f.result = {h} /\ f.todo = top.todo
  BY <1>1, <1>4, <1>5, <1>6 DEF ImportFrame, Wrapped
<1>8. stack' = [stack EXCEPT ![m] = f]
  BY <1>1, <1>2, <1>3, <1>6 DEF Types, LowerResult
<1>9. /\ Depth' = m /\ stack'[m] = f
      /\ \A d \in 1..m : d # m => stack'[d] = stack[d]
      /\ Frames("import")' = Frames("import")
  <2>1. f \in Frame
    BY <1>7 DEF Frame
  <2> QED BY <1>2, <1>3, <1>4, <1>7, <1>8, <2>1, ReplaceEffect DEF ImportFrame
<1>10. \A d \in Frames("import") : /\ stack'[d].args = stack[d].args
                                   /\ stack'[d].access = stack[d].access
                                   /\ stack'[d].todo = stack[d].todo
                                   /\ d # m => stack'[d].result = stack[d].result
                                   /\ d = m => stack'[d].result = {h} /\ stack[d].result = {}
  BY <1>2, <1>3, <1>7, <1>9 DEF Frames
<1>11. AccessesOfImports'
  BY <1>5, <1>9, <1>10 DEF GuestInv, AccessesOfImports
<1>12. ImportsFine'
  BY <1>2, <1>3, <1>9, <1>10 DEF GuestInv, ImportsFine
<1>13. \A k : Resolves(k) => Resolves(k)'
  BY <1>5 DEF Resolves
<1>14. Resolves(h)'
  BY <1>1, <1>5 DEF Resolves
<1>15. GuestHandles'
  BY <1>5, <1>9, <1>10, <1>13, <1>14 DEF GuestInv, GuestHandles
<1>16. BorrowsOfImports'
  BY <1>5, <1>9, <1>10 DEF GuestInv, BorrowsOfImports
<1>17. ItemsHeld'
  <2> SUFFICES ASSUME safe, failed = "no", NEW i, T!IsFull(i)'
               PROVE  \/ \E k \in wrapped : k.raw = i
                      \/ \E d \in Frames("import") : \E k \in stack'[d].result : k.raw = i
    BY <1>5, <1>9 DEF ItemsHeld
  <2>1. CASE i = next
    BY <1>1, <1>3, <1>10, <2>1
  <2>2. CASE T!IsFull(i)
    <3>1. CASE \E k \in wrapped : k.raw = i
      BY <3>1
    <3>2. CASE \E d \in Frames("import") : \E k \in stack[d].result : k.raw = i
      BY <1>10, <3>2
    <3> QED BY <2>2, <3>1, <3>2 DEF GuestInv, ItemsHeld
  <2> QED BY <1>5, <2>1, <2>2
<1> QED BY <1>2, <1>7, <1>8, <1>11, <1>12, <1>15, <1>16, <1>17 DEF GuestInv

\* An import ends, in whatever way.
LEMMA GuestCalled ==
    ASSUME Types, GuestInv, TP!IInv, TopIs({"import"}), T!Drop(Top.access), UNCHANGED safe,
           safe => wrapped \subseteq wrapped' /\ wrapped' \subseteq wrapped \cup Top.result,
           failed' = "no" => /\ failed = "no"
                             /\ safe => Top.result \subseteq wrapped',
           Frames("import")' = Frames("import") \ {Depth},
           \A d \in Frames("import") : d # Depth => stack'[d] = stack[d]
    PROVE  GuestInv'
<1>1. PICK m : m = Depth
  OBVIOUS
<1>2. PICK n \in Nat : n = Len(accesses) - 1 /\ Len(accesses) = n + 1
  <2>1. Len(accesses) \in Nat /\ Len(accesses) > 0
    BY TopAccess, TableFacts DEF GuestInv
  <2> QED BY <2>1
<1>3. /\ m \in Frames("import") /\ Top = stack[m] /\ stack[m].access = n + 1 /\ m \in Nat
      /\ \A d \in Frames("import") : d # m => d < m /\ d \in Nat
  BY <1>1, <1>2, TopAccess DEF GuestInv, Top, Types, Depth, Frames
<1>4. PICK start \in Nat : start = accesses[n + 1].start
  BY <1>2, TableFacts
<1>5. /\ Kept /\ Len(accesses') = n
      /\ \A a \in 1..n : accesses'[a] = accesses[a]
      /\ DOMAIN active_borrows' = 1..start
      /\ \A k \in 1..start : active_borrows'[k] = active_borrows[k]
  <2>1. Top.access = n + 1 /\ n + 1 = Len(accesses) /\ n + 1 > 0
    BY <1>2, <1>3
  <2> QED BY <1>2, <1>4, <2>1, DropEffect
<1>6. \A d \in Frames("import") : d # m => /\ stack[d].access \in 1..n /\ stack'[d] = stack[d]
                                           /\ stack[d].result = {}
  <2> SUFFICES ASSUME NEW d \in Frames("import"), d # m PROVE stack[d].access \in 1..n
    BY <1>1, <1>3 DEF GuestInv, ImportsFine
  <2>1. stack[d].access \in 1..(n + 1) /\ stack[d].access < n + 1
    BY <1>2, <1>3 DEF GuestInv, AccessesOfImports
  <2> QED BY <2>1
<1>7. AccessesOfImports'
  <2>1. \A d \in Frames("import")' : stack'[d].access \in 1..n
    BY <1>1, <1>6
  <2>2. \A d, e \in Frames("import")' : d < e => stack'[d].access < stack'[e].access
    BY <1>1, <1>6 DEF GuestInv, AccessesOfImports
  <2>3. ASSUME NEW a \in 1..n PROVE \E d \in Frames("import")' : stack'[d].access = a
    <3>1. PICK d \in Frames("import") : stack[d].access = a
      BY <1>2 DEF GuestInv, AccessesOfImports
    <3>2. d # m
      BY <1>3, <3>1
    <3> QED BY <1>1, <1>6, <3>1, <3>2
  <2> QED BY <1>5, <2>1, <2>2, <2>3 DEF AccessesOfImports
<1>8. ImportsFine'
  BY <1>1, <1>6 DEF GuestInv, ImportsFine
<1>9. \A h : Resolves(h) => Resolves(h)'
  BY <1>5 DEF Resolves, Kept
<1>10. GuestHandles'
  BY <1>1, <1>3, <1>6, <1>9 DEF GuestInv, GuestHandles
<1>11. BorrowsOfImports'
  <2> SUFFICES ASSUME safe, NEW k \in 1..start
               PROVE  \E d \in Frames("import") \ {m} :
                         /\ accesses[stack[d].access].start < k
                         /\ \E h \in stack[d].args : h.raw = active_borrows[k]
    BY <1>1, <1>5, <1>6 DEF BorrowsOfImports
  <2>1. k \in DOMAIN active_borrows
    <3>1. start <= Len(active_borrows) /\ active_borrows \in Seq(Nat) /\ Len(active_borrows) \in Nat
      BY <1>2, <1>4, TableFacts
    <3> QED BY <3>1
  <2>2. PICK d \in Frames("import") : /\ accesses[stack[d].access].start < k
                                      /\ \E h \in stack[d].args : h.raw = active_borrows[k]
    BY <2>1 DEF GuestInv, BorrowsOfImports
  <2>3. d # m
    BY <1>3, <1>4, <2>2
  <2> QED BY <2>2, <2>3
<1>12. ItemsHeld'
  BY <1>1, <1>3, <1>5, <1>6 DEF GuestInv, ItemsHeld, Kept
<1> QED BY <1>7, <1>8, <1>10, <1>11, <1>12 DEF GuestInv

-----------------------------------------------------------------------------
(* The host's handles.                                                     *)

HostInv == NoPanic /\ HostHandles /\ BoxesHeld

\* What does not concern boxes and the host's handles; a frame of a destructor
\* that goes away does so in a failure.
LEMMA HostStays ==
    ASSUME Types, HostInv, UNCHANGED <<boxes, exported>>,
           failed' # "panic" => failed # "panic" /\ unwinding' = "no",
           failed' = "no" => failed = "no" /\ Frames("close_export")' = Frames("close_export"),
           \A kind \in {"export", "close_export"} :
              /\ Frames(kind)' \subseteq Frames(kind)
              /\ \A d \in Frames(kind)' : stack'[d] = stack[d]
    PROVE  HostInv'
<1>1. NoPanic'
  BY DEF HostInv, NoPanic
<1>2. HostHandles'
  BY DEF HostInv, HostHandles
<1>3. BoxesHeld'
  BY DEF HostInv, BoxesHeld
<1> QED BY <1>1, <1>2, <1>3 DEF HostInv

\* The host calls an export.
LEMMA HostCalls ==
    ASSUME Types, HostInv, NEW args \in SUBSET exported, CallExport(args)
    PROVE  HostInv'
<1> DEFINE f == Export(args)
<1>1. f \in Frame /\ f.kind = "export" /\ f.args = args
  BY DEF Export, Frame, ExportFrame, Types
<1>2. Push(f) /\ UNCHANGED <<boxes, exported, unwinding, failed>>
  BY DEF CallExport
<1> HIDE DEF f
<1>3. PICK m \in Nat : m = Depth
  BY DEF Types, Depth
<1>4. /\ stack'[m + 1] = f /\ \A d \in 1..m : stack'[d] = stack[d]
      /\ Frames("export")' = Frames("export") \cup {m + 1}
      /\ Frames("close_export")' = Frames("close_export")
  <2>1. /\ stack'[m + 1] = f /\ \A d \in 1..m : stack'[d] = stack[d]
        /\ \A kind : Frames(kind)' = Frames(kind) \cup {d \in {m + 1} : f.kind = kind}
    BY <1>1, <1>2, <1>3, PushEffect
  <2>2. /\ Frames("export")' = Frames("export") \cup {d \in {m + 1} : f.kind = "export"}
        /\ Frames("close_export")' = Frames("close_export") \cup {d \in {m + 1} : f.kind = "close_export"}
    BY <2>1
  <2> QED BY <1>1, <2>1, <2>2
<1>5. \A kind : \A d \in Frames(kind) : stack'[d] = stack[d]
  BY <1>3, <1>4 DEF Frames
<1>6. NoPanic'
  BY <1>2, <1>4, <1>5 DEF HostInv, NoPanic
<1>7. HostHandles'
  <2>1. \A d \in Frames("export")' : stack'[d].args = args \/ d \in Frames("export")
    BY <1>1, <1>4
  <2> QED BY <1>2, <1>4, <1>5, <2>1 DEF HostInv, HostHandles
<1>8. BoxesHeld'
  BY <1>2, <1>4, <1>5 DEF HostInv, BoxesHeld
<1> QED BY <1>6, <1>7, <1>8 DEF HostInv

\* The guest boxes a result; the host has its address, or loses it in a trap.
LEMMA HostGetsResult ==
    ASSUME Types, HostInv, NEW a \in Address, NEW object \in Object, EndExportBoxed(a, object)
    PROVE  HostInv'
<1>1. PICK h \in Exported : h.raw = a /\ h.object = object /\ h = [raw |-> a, object |-> object]
  BY DEF Exported
<1>2. /\ unwinding = "no" /\ unwinding' = "no" /\ a \notin DOMAIN boxes
      /\ DOMAIN boxes' = DOMAIN boxes \cup {a} /\ boxes'[a] = object
      /\ \A b \in DOMAIN boxes : boxes'[b] = boxes[b]
      /\ \/ exported' = exported \cup {h} /\ UNCHANGED failed
         \/ exported' = exported /\ failed' # "no" /\ (failed' # "panic" => failed # "panic")
  BY <1>1 DEF EndExportBoxed, Trapped
<1>3. PICK m \in Nat : m = Depth /\ m > 0 /\ stack[m].kind = "export"
  BY DEF Types, Depth, EndExportBoxed, TopIs, Top
<1>4. /\ \A d \in 1..(m - 1) : stack'[d] = stack[d]
      /\ \A kind : Frames(kind)' = {d \in Frames(kind) : d <= m - 1}
  BY <1>3, PopEffect DEF EndExportBoxed
<1>5. Frames("close_export")' = Frames("close_export")
  BY <1>3, <1>4 DEF Frames
<1>6. \A kind : \A d \in Frames(kind)' : d \in Frames(kind) /\ stack'[d] = stack[d]
  BY <1>3, <1>4 DEF Frames
<1>7. NoPanic'
  BY <1>2, <1>5, <1>6 DEF HostInv, NoPanic
<1>8. HostHandles'
  <2> SUFFICES ASSUME failed' # "panic" PROVE HostHandles'
    BY DEF HostHandles
  <2>1. \A k \in exported' : k.raw \in DOMAIN boxes' /\ boxes'[k.raw] = k.object
    BY <1>1, <1>2 DEF HostInv, HostHandles
  <2>2. \A d \in Frames("export")' : stack'[d].args \subseteq exported'
    BY <1>2, <1>6 DEF HostInv, HostHandles
  <2>3. \A d \in Frames("close_export") :
           /\ stack'[d] = stack[d] /\ stack[d].valid
           /\ stack[d].handle.raw \in DOMAIN boxes /\ boxes[stack[d].handle.raw] = "moved"
    BY <1>2, <1>5, <1>6 DEF HostInv, HostHandles
  <2>4. \A d, e \in Frames("close_export") :
              stack[d].handle.raw = stack[e].handle.raw => d = e
    BY <1>2 DEF HostInv, HostHandles
  <2> QED BY <1>2, <1>5, <2>1, <2>2, <2>3, <2>4 DEF HostHandles
<1>9. BoxesHeld'
  <2> SUFFICES ASSUME failed' = "no", NEW b \in DOMAIN boxes'
               PROVE  \/ \E k \in exported' : k.raw = b
                      \/ \E d \in Frames("close_export") : stack[d].handle.raw = b
    BY <1>5, <1>6 DEF BoxesHeld
  <2>1. failed = "no" /\ exported' = exported \cup {h}
    BY <1>2
  <2>2. CASE b = a
    BY <1>1, <2>1, <2>2
  <2>3. CASE b \in DOMAIN boxes
    BY <2>1, <2>3 DEF HostInv, BoxesHeld
  <2> QED BY <1>2, <2>2, <2>3
<1> QED BY <1>7, <1>8, <1>9 DEF HostInv

\* The host closes a handle.
LEMMA HostCloses ==
    ASSUME Types, HostInv, NEW h \in exported \ Lent("export"), CloseGuest(h)
    PROVE  HostInv'
<1>1. PICK how \in {"close", "drop"} : Push(CloseExport(h, how, FALSE))
  BY DEF CloseGuest
<1>2. /\ unwinding = "no" /\ UNCHANGED <<unwinding, failed>> /\ exported' = exported \ {h}
      /\ boxes' = [a \in DOMAIN boxes |-> IF a = h.raw THEN "moved" ELSE boxes[a]]
  BY DEF CloseGuest, HostRuns, Enter
<1>3. PICK f : f = CloseExport(h, how, FALSE)
  OBVIOUS
<1>4. PICK valid \in BOOLEAN : valid = (h.raw \in DOMAIN boxes /\ boxes[h.raw] = h.object)
  OBVIOUS
<1>5. f = [kind |-> "close_export", handle |-> h, how |-> how, again |-> FALSE, valid |-> valid]
  BY <1>3, <1>4 DEF CloseExport
<1>6. f \in Frame /\ f.kind = "close_export" /\ f.handle = h /\ f.again = FALSE /\ f.valid = valid
  BY <1>5 DEF Frame, CloseExportFrame, Types
<1>7. PICK m \in Nat : m = Depth
  BY DEF Types, Depth
<1>8. /\ stack'[m + 1] = f /\ \A d \in 1..m : stack'[d] = stack[d]
      /\ Frames("close_export")' = Frames("close_export") \cup {m + 1}
      /\ Frames("export")' = Frames("export")
  <2>1. /\ stack'[m + 1] = f /\ \A d \in 1..m : stack'[d] = stack[d]
        /\ \A kind : Frames(kind)' = Frames(kind) \cup {d \in {m + 1} : f.kind = kind}
    BY <1>1, <1>3, <1>6, <1>7, PushEffect
  <2>2. /\ Frames("export")' = Frames("export") \cup {d \in {m + 1} : f.kind = "export"}
        /\ Frames("close_export")' = Frames("close_export") \cup {d \in {m + 1} : f.kind = "close_export"}
    BY <2>1
  <2> QED BY <1>6, <2>1, <2>2
<1>9. \A kind : \A d \in Frames(kind) : stack'[d] = stack[d]
  BY <1>7, <1>8 DEF Frames
<1>10. NoPanic'
  BY <1>2, <1>6, <1>8, <1>9 DEF HostInv, NoPanic
<1>11. HostHandles'
  <2> SUFFICES ASSUME failed # "panic" PROVE HostHandles'
    BY <1>2 DEF HostHandles
  <2>1. h.raw \in DOMAIN boxes /\ boxes[h.raw] = h.object /\ h.object \in Object /\ valid
    BY <1>4 DEF HostInv, HostHandles, Types, Exported
  <2>2. DOMAIN boxes' = DOMAIN boxes /\ boxes'[h.raw] = "moved"
        /\ \A a \in DOMAIN boxes : a # h.raw => boxes'[a] = boxes[a]
    BY <1>2, <2>1
  <2>3. ASSUME NEW k \in exported \ {h}
        PROVE  k.raw \in DOMAIN boxes' /\ boxes'[k.raw] = k.object
    <3>1. k.raw \in DOMAIN boxes /\ boxes[k.raw] = k.object
      BY DEF HostInv, HostHandles
    <3>2. k.raw # h.raw
      BY <2>1, <3>1 DEF Types, Exported
    <3> QED BY <2>2, <3>1, <3>2
  <2>4. ASSUME NEW d \in Frames("export") PROVE stack[d].args \subseteq exported \ {h}
    BY DEF HostInv, HostHandles, Lent, Frames
  <2>5. ASSUME NEW d \in Frames("close_export")
        PROVE  /\ stack[d].handle.raw # h.raw /\ stack[d].valid
               /\ stack[d].handle.raw \in DOMAIN boxes /\ boxes[stack[d].handle.raw] = "moved"
    BY <2>1, LifeAssumption DEF HostInv, HostHandles
  <2>6. \A d \in Frames("close_export")' :
           /\ d = m + 1 => stack'[d].handle.raw = h.raw /\ stack'[d].valid
           /\ d # m + 1 => d \in Frames("close_export") /\ stack'[d] = stack[d]
    BY <1>6, <1>8, <1>9, <2>1
  <2>7. \A d \in Frames("close_export")' :
           /\ stack'[d].valid
           /\ stack'[d].handle.raw \in DOMAIN boxes' /\ boxes'[stack'[d].handle.raw] = "moved"
    BY <2>1, <2>2, <2>5, <2>6
  <2>8. \A d, e \in Frames("close_export")' :
           stack'[d].handle.raw = stack'[e].handle.raw => d = e
    BY <2>5, <2>6 DEF HostInv, HostHandles
  <2>9. \A k \in exported' : k.raw \in DOMAIN boxes' /\ boxes'[k.raw] = k.object
    BY <1>2, <2>3
  <2>10. \A d \in Frames("export")' : stack'[d].args \subseteq exported'
    BY <1>2, <1>8, <1>9, <2>4
  <2> QED BY <2>7, <2>8, <2>9, <2>10 DEF HostHandles
<1>12. BoxesHeld'
  <2> SUFFICES ASSUME failed = "no", NEW a \in DOMAIN boxes
               PROVE  \/ \E k \in exported \ {h} : k.raw = a
                      \/ \E d \in Frames("close_export")' : stack'[d].handle.raw = a
    BY <1>2 DEF BoxesHeld
  <2>1. CASE a = h.raw
    BY <1>6, <1>8, <2>1
  <2>2. CASE a # h.raw
    BY <1>8, <1>9, <2>2 DEF HostInv, BoxesHeld
  <2> QED BY <2>1, <2>2
<1> QED BY <1>10, <1>11, <1>12 DEF HostInv

\* The guest's destructor returns, and the box is freed.
LEMMA HostClosed ==
    ASSUME Types, HostInv, EndCloseGuest
    PROVE  HostInv'
<1>1. PICK m \in Nat : m = Depth /\ m > 0 /\ stack[m].kind = "close_export" /\ Top = stack[m]
  BY DEF Types, Depth, EndCloseGuest, TopIs, Top
<1>2. m \in Frames("close_export")
  BY <1>1 DEF Frames
<1>3. PICK r : r = stack[m].handle.raw
  OBVIOUS
<1>4. /\ UNCHANGED <<exported, failed>>
      /\ boxes' = [a \in DOMAIN boxes \ {r} |-> boxes[a]]
      /\ unwinding' = IF stack[m].again THEN "panic" ELSE "no"
  BY <1>1, <1>3 DEF EndCloseGuest, Resume
<1>5. /\ \A d \in 1..(m - 1) : stack'[d] = stack[d]
      /\ \A kind : Frames(kind)' = {d \in Frames(kind) : d <= m - 1}
  BY <1>1, PopEffect DEF EndCloseGuest
<1>6. \A kind : \A d \in Frames(kind)' : d \in Frames(kind) /\ d # m /\ stack'[d] = stack[d]
  BY <1>1, <1>5 DEF Frames
<1>7. NoPanic'
  BY <1>2, <1>4, <1>6 DEF HostInv, NoPanic
<1>8. HostHandles'
  <2> SUFFICES ASSUME failed # "panic" PROVE HostHandles'
    BY <1>4 DEF HostHandles
  <2>1. boxes[r] = "moved"
    BY <1>2, <1>3 DEF HostInv, HostHandles
  <2>2. \A k \in exported : k.raw # r /\ k.raw \in DOMAIN boxes /\ boxes[k.raw] = k.object
    BY <2>1, LifeAssumption DEF HostInv, HostHandles, Types, Exported
  <2>3. \A d \in Frames("close_export") :
           /\ stack[d].valid /\ (d # m => stack[d].handle.raw # r)
           /\ stack[d].handle.raw \in DOMAIN boxes /\ boxes[stack[d].handle.raw] = "moved"
    BY <1>2, <1>3 DEF HostInv, HostHandles
  <2>4. \A d, e \in Frames("close_export") :
           stack[d].handle.raw = stack[e].handle.raw => d = e
    BY DEF HostInv, HostHandles
  <2>5. \A d \in Frames("export") : stack[d].args \subseteq exported
    BY DEF HostInv, HostHandles
  <2>6. \A a \in DOMAIN boxes : a # r => a \in DOMAIN boxes' /\ boxes'[a] = boxes[a]
    BY <1>4
  <2>7. \A k \in exported' : k.raw \in DOMAIN boxes' /\ boxes'[k.raw] = k.object
    BY <1>4, <2>2, <2>6
  <2>8. \A d \in Frames("close_export")' :
           /\ stack'[d].valid
           /\ stack'[d].handle.raw \in DOMAIN boxes' /\ boxes'[stack'[d].handle.raw] = "moved"
    BY <1>6, <2>3, <2>6
  <2>9. \A d, e \in Frames("close_export")' :
           stack'[d].handle.raw = stack'[e].handle.raw => d = e
    BY <1>6, <2>4
  <2>10. \A d \in Frames("export")' : stack'[d].args \subseteq exported'
    BY <1>4, <1>6, <2>5
  <2> QED BY <2>7, <2>8, <2>9, <2>10 DEF HostHandles
<1>9. BoxesHeld'
  <2> SUFFICES ASSUME failed = "no", NEW a \in DOMAIN boxes, a # r
               PROVE  \/ \E k \in exported : k.raw = a
                      \/ \E d \in Frames("close_export")' : stack'[d].handle.raw = a
    BY <1>4 DEF BoxesHeld
  <2>1. ASSUME NEW d \in Frames("close_export"), stack[d].handle.raw = a
        PROVE  d \in Frames("close_export")' /\ stack'[d] = stack[d]
    <3>1. d \in 1..m /\ d # m
      BY <1>1, <1>3, <2>1 DEF Frames
    <3> QED BY <1>1, <1>5, <3>1
  <2> QED BY <2>1 DEF HostInv, BoxesHeld
<1> QED BY <1>7, <1>8, <1>9 DEF HostInv

-----------------------------------------------------------------------------
(* The steps.                                                              *)

StackInv == Types /\ GuestBelow

LEMMA InitInvariant == Init => IInv
<1> SUFFICES ASSUME Init PROVE IInv
  OBVIOUS
<1>1. /\ wrapped = {} /\ exported = {} /\ stack = <<>> /\ unwinding = "no" /\ failed = "no"
      /\ safe \in BOOLEAN /\ boxes = [a \in {} |-> 0]
      /\ elems = [i \in {} |-> T!Empty(0)] /\ active_borrows = <<>> /\ accesses = <<>>
  BY DEF Init, T!Init
<1>2. Depth = 0 /\ \A kind : Frames(kind) = {}
  BY <1>1 DEF Depth, Frames
<1>3. Types
  BY <1>1 DEF Types
<1>4. GuestBelow /\ AccessesOfImports /\ ImportsFine /\ GuestHandles /\ BorrowsOfImports
  BY <1>1, <1>2 DEF GuestBelow, AccessesOfImports, ImportsFine, GuestHandles, BorrowsOfImports
<1>5. NoPanic /\ HostHandles /\ ItemsHeld /\ BoxesHeld
  BY <1>1, <1>2 DEF NoPanic, HostHandles, ItemsHeld, BoxesHeld, T!IsFull
<1> QED BY <1>3, <1>4, <1>5 DEF IInv

\* One frame more, above one it may be called from.
LEMMA Pushed ==
    ASSUME Types, GuestBelow, NEW f \in Frame, Push(f),
           f.kind \in {"import", "close_import"} => TopIs({"export", "close_export"})
    PROVE  stack' \in Seq(Frame) /\ GuestBelow'
<1>1. PICK m \in Nat : m = Depth
  BY DEF Types, Depth
<1>2. /\ stack' \in Seq(Frame) /\ stack'[m + 1] = f
      /\ \A d \in 1..m : stack'[d] = stack[d]
      /\ \A kind : Frames(kind)' = Frames(kind) \cup {d \in {m + 1} : f.kind = kind}
  BY <1>1, PushEffect
<1>3. ASSUME NEW d \in Frames("import")' \cup Frames("close_import")'
      PROVE  d > 1 /\ stack'[d - 1].kind \in {"export", "close_export"}
  <2>1. CASE d = m + 1 /\ f.kind \in {"import", "close_import"}
    <3>1. m > 0 /\ stack[m].kind \in {"export", "close_export"}
      BY <1>1, <2>1 DEF TopIs, Top
    <3>2. d > 1 /\ d - 1 = m /\ m \in 1..m
      BY <2>1, <3>1
    <3> QED BY <1>2, <3>1, <3>2
  <2>2. CASE d \in Frames("import") \cup Frames("close_import")
    <3>1. d > 1 /\ stack[d - 1].kind \in {"export", "close_export"}
      BY <2>2 DEF GuestBelow
    <3>2. d - 1 \in 1..m
      BY <1>1, <2>2, <3>1 DEF Frames
    <3> QED BY <1>2, <3>1, <3>2
  <2> QED BY <1>2, <2>1, <2>2
<1> QED BY <1>2, <1>3 DEF GuestBelow

\* Frames go.
LEMMA Popped ==
    ASSUME Types, GuestBelow, NEW n \in 1..2, n <= Depth, Pop(n)
    PROVE  stack' \in Seq(Frame) /\ GuestBelow'
<1>1. PICK m \in Nat : m = Depth
  BY DEF Types, Depth
<1>2. /\ stack' \in Seq(Frame)
      /\ \A d \in 1..(m - n) : stack'[d] = stack[d]
      /\ \A kind : Frames(kind)' = {d \in Frames(kind) : d <= m - n}
  BY <1>1, PopEffect
<1>3. ASSUME NEW d \in Frames("import")' \cup Frames("close_import")'
      PROVE  d > 1 /\ stack'[d - 1].kind \in {"export", "close_export"}
  <2>1. d \in Frames("import") \cup Frames("close_import") /\ d <= m - n
    BY <1>2
  <2>2. d > 1 /\ stack[d - 1].kind \in {"export", "close_export"} /\ d \in Nat
    BY <2>1 DEF GuestBelow, Frames
  <2>3. d - 1 \in 1..(m - n)
    BY <2>1, <2>2
  <2> QED BY <1>2, <2>2, <2>3
<1> QED BY <1>2, <1>3 DEF GuestBelow

\* The top frame changes, but not its kind.
LEMMA Replaced ==
    ASSUME Types, GuestBelow, Depth > 0, NEW f \in Frame, f.kind = Top.kind,
           stack' = [stack EXCEPT ![Depth] = f]
    PROVE  stack' \in Seq(Frame) /\ GuestBelow'
<1>1. PICK m \in Nat : m = Depth
  BY DEF Types, Depth
<1>2. /\ stack' \in Seq(Frame)
      /\ \A d \in 1..m : d # m => stack'[d] = stack[d]
      /\ \A kind : Frames(kind)' = Frames(kind)
  BY <1>1, ReplaceEffect
<1>3. ASSUME NEW d \in Frames("import")' \cup Frames("close_import")'
      PROVE  d > 1 /\ stack'[d - 1].kind \in {"export", "close_export"}
  <2>1. d \in Frames("import") \cup Frames("close_import")
    BY <1>2
  <2>2. d > 1 /\ stack[d - 1].kind \in {"export", "close_export"} /\ d \in 1..m
    BY <1>1, <2>1 DEF GuestBelow, Frames
  <2>3. d - 1 \in 1..m /\ d - 1 # m
    BY <2>2
  <2> QED BY <1>2, <2>2, <2>3
<1> QED BY <1>2, <1>3 DEF GuestBelow

-----------------------------------------------------------------------------

Inv == IInv /\ TP!IInv

\* What each step shows: the invariant, and that the table is used as it has to
\* be.
Goal == IInv' /\ [T!Next]_(T!vars)

LEMMA Parts == IInv <=> Types /\ GuestBelow /\ GuestInv /\ HostInv
BY DEF IInv, GuestInv, HostInv

LEMMA NextParts == Types' /\ GuestBelow' /\ GuestInv' /\ HostInv' => IInv'
BY DEF IInv, GuestInv, HostInv

\* A frame that is not an import's goes; no handle does.
LEMMA PopStep ==
    ASSUME Inv, ~TopIs({"import"}), Depth > 0, Pop(1),
           UNCHANGED <<elems, active_borrows, accesses, wrapped, safe>>,
           failed' = "no" => failed = "no"
    PROVE  stack' \in Seq(Frame) /\ GuestBelow' /\ GuestInv'
<1>1. Types /\ GuestBelow /\ GuestInv
  BY Parts DEF Inv
<1>2. PICK m \in Nat : m = Depth /\ m > 0
  BY <1>1 DEF Types, Depth
<1>3. stack' \in Seq(Frame) /\ GuestBelow'
  BY <1>1, <1>2, Popped
<1>4. /\ Depth' = m - 1
      /\ \A d \in 1..(m - 1) : stack'[d] = stack[d]
      /\ \A kind : Frames(kind)' = {d \in Frames(kind) : d <= m - 1}
  BY <1>1, <1>2, PopEffect
<1>5. \A d \in Frames("import") : d \in 1..(m - 1)
  <2> SUFFICES ASSUME NEW d \in Frames("import"), d = m PROVE FALSE
    BY <1>2 DEF Frames
  <2> QED BY <1>2 DEF TopIs, Top, Frames
<1>6. Frames("import")' = Frames("import")
  <2>1. \A d \in Frames("import") : d <= m - 1
    BY <1>2, <1>5
  <2> QED BY <1>4, <2>1
<1>7. \A d \in Frames("import") : stack'[d] = stack[d] /\ (d < Depth' => d < Depth)
  BY <1>2, <1>4, <1>5
<1>8. Kept
  BY DEF Kept, T!IsFull
<1> QED BY <1>1, <1>3, <1>6, <1>7, <1>8, GuestStays

\* What a push, a pop of one frame and a change of the top frame leave alone.
LEMMA PushKeeps ==
    ASSUME Types, NEW f \in Frame, Push(f)
    PROVE  /\ \A kind : f.kind # kind => Frames(kind)' = Frames(kind)
           /\ \A kind : \A d \in Frames(kind) : stack'[d] = stack[d]
<1>1. \A kind : Frames(kind)' = Frames(kind) \cup {d \in {Depth + 1} : f.kind = kind}
  BY PushEffect
<1>2. \A d \in 1..Depth : stack'[d] = stack[d]
  BY PushEffect
<1> QED BY <1>1, <1>2 DEF Frames

LEMMA PopKeeps ==
    ASSUME Types, NEW n \in 1..2, n <= Depth, Pop(n)
    PROVE  /\ \A kind : Frames(kind)' \subseteq Frames(kind)
           /\ \A kind : \A d \in Frames(kind)' : stack'[d] = stack[d]
           /\ n = 1 => \A kind : Top.kind # kind => Frames(kind)' = Frames(kind)
<1>1. PICK m \in Nat : m = Depth
  BY DEF Types, Depth
<1>2. /\ \A d \in 1..(m - n) : stack'[d] = stack[d]
      /\ \A kind : Frames(kind)' = {d \in Frames(kind) : d <= m - n}
  BY <1>1, PopEffect
<1>3. \A kind : \A d \in Frames(kind)' : d \in Frames(kind) /\ stack'[d] = stack[d]
  BY <1>1, <1>2 DEF Frames
<1>4. ASSUME n = 1, NEW kind, Top.kind # kind, NEW d \in Frames(kind)
      PROVE  d <= m - n
  <2>1. d \in 1..m /\ d # m
    BY <1>1, <1>4 DEF Frames, Top
  <2> QED BY <1>4, <2>1
<1> QED BY <1>2, <1>3, <1>4

LEMMA ReplaceKeeps ==
    ASSUME Types, Depth > 0, NEW f \in Frame, f.kind = Top.kind,
           stack' = [stack EXCEPT ![Depth] = f]
    PROVE  /\ \A kind : Frames(kind)' = Frames(kind)
           /\ \A kind : Top.kind # kind => \A d \in Frames(kind) : stack'[d] = stack[d]
<1>1. PICK m \in Nat : m = Depth
  BY DEF Types, Depth
<1>2. /\ \A d \in 1..m : d # m => stack'[d] = stack[d]
      /\ \A kind : Frames(kind)' = Frames(kind)
  BY <1>1, ReplaceEffect
<1>3. ASSUME NEW kind, Top.kind # kind, NEW d \in Frames(kind)
      PROVE  stack'[d] = stack[d]
  <2>1. d \in 1..m /\ d # m
    BY <1>1, <1>3 DEF Frames, Top
  <2> QED BY <1>2, <2>1
<1> QED BY <1>2, <1>3

\* What does not touch the table.
LEMMA TableUnused == UNCHANGED table => UNCHANGED T!vars
BY DEF table, T!vars, T!table

\* CallImport
LEMMA CallImportStep ==
    ASSUME Inv, NEW args \in SUBSET Passable, CallImport(args), UNCHANGED safe
    PROVE  Goal
<1>1. Types /\ GuestBelow /\ GuestInv /\ HostInv /\ TP!IInv
  BY Parts DEF Inv
<1>2. GuestInv'
  BY <1>1, GuestCalls
<1>3. PICK f : f = Import(args) /\ Push(f) /\ TopIs({"export", "close_export"})
  BY DEF CallImport, GuestRuns
<1>4. f \in Frame /\ f.kind = "import"
  <2>1. args \subseteq Wrapped /\ Len(accesses) \in Nat
    BY <1>1, TableFacts DEF Types, Passable, Wrapped
  <2> QED BY <2>1, <1>3 DEF Frame, ImportFrame, Import
<1>5. stack' \in Seq(Frame) /\ GuestBelow'
  BY <1>1, <1>3, <1>4, Pushed
<1>6. UNCHANGED <<wrapped, boxes, exported, unwinding, failed>>
  BY DEF CallImport
<1>7. \A kind \in {"export", "close_export"} :
         Frames(kind)' = Frames(kind) /\ \A d \in Frames(kind) : stack'[d] = stack[d]
  BY <1>1, <1>3, <1>4, PushKeeps
<1>8. HostInv'
  BY <1>1, <1>6, <1>7, HostStays DEF HostInv, NoPanic
<1>9. Types'
  BY <1>1, <1>5, <1>6 DEF Types
<1>10. T!Next
  BY DEF CallImport, T!Next, T!Step
<1> QED BY <1>2, <1>5, <1>8, <1>9, <1>10, NextParts DEF Goal

\* GetArg and LowerResult, which change the frame of the import.
LEMMA ReplaceStep ==
    ASSUME Inv, TopIs({"import"}), NEW f \in ImportFrame, stack' = [stack EXCEPT ![Depth] = f],
           UNCHANGED <<wrapped, boxes, exported, unwinding, failed, safe>>, GuestInv'
    PROVE  IInv'
<1>1. Types /\ GuestBelow /\ HostInv
  BY Parts DEF Inv
<1>2. f \in Frame /\ f.kind = "import" /\ Top.kind = "import" /\ Depth > 0
  BY DEF Frame, ImportFrame, TopIs
<1>3. stack' \in Seq(Frame) /\ GuestBelow'
  BY <1>1, <1>2, Replaced
<1>4. \A kind \in {"export", "close_export"} :
         Frames(kind)' = Frames(kind) /\ \A d \in Frames(kind) : stack'[d] = stack[d]
  BY <1>1, <1>2, ReplaceKeeps
<1>5. HostInv'
  BY <1>1, <1>4, HostStays DEF HostInv, NoPanic
<1>6. Types'
  BY <1>1, <1>3 DEF Types
<1> QED BY <1>3, <1>5, <1>6, NextParts

LEMMA GetArgStep ==
    ASSUME Inv, GetArg, UNCHANGED safe
    PROVE  Goal
<1>1. Types /\ GuestInv /\ TP!IInv
  BY Parts DEF Inv
<1>2. GuestInv' /\ \E f \in ImportFrame : stack' = [stack EXCEPT ![Depth] = f]
  BY <1>1, GuestLends
<1>3. IInv'
  BY <1>2, ReplaceStep DEF GetArg
<1>4. T!Next
  <2>1. PICK h \in Top.todo : T!Get(Top.access, h.raw)
    BY DEF GetArg
  <2>2. Top.access = Len(accesses) /\ Len(accesses) \in DOMAIN accesses /\ Top \in ImportFrame
    <3>1. Depth \in Frames("import") /\ Top.access = Len(accesses) /\ Len(accesses) > 0
      BY <1>1, TopAccess DEF GuestInv, GetArg
    <3> QED BY <1>1, <3>1, TableFacts, FrameFields DEF Frames, Top
  <2>3. h.raw \in T!Handle
    BY <2>2 DEF ImportFrame, Wrapped
  <2>4. Top.access \in T!Usable
    BY <2>2 DEF T!Usable
  <2> QED BY <2>1, <2>3, <2>4 DEF T!Next, T!Step
<1> QED BY <1>3, <1>4 DEF Goal

LEMMA LowerResultStep ==
    ASSUME Inv, NEW item \in Item, LowerResult(item), UNCHANGED safe
    PROVE  Goal
<1>1. Types /\ GuestInv /\ TP!IInv
  BY Parts DEF Inv
<1>2. GuestInv' /\ \E f \in ImportFrame : stack' = [stack EXCEPT ![Depth] = f]
  BY <1>1, GuestGetsResult
<1>3. IInv'
  BY <1>2, ReplaceStep DEF LowerResult
<1>4. T!Next
  BY DEF LowerResult, T!Next, T!Step
<1> QED BY <1>3, <1>4 DEF Goal

\* The ends of an import: EndImport, FailImport and UnwindImport.
LEMMA ImportEnds ==
    ASSUME Inv, TopIs({"import"}), T!Drop(Top.access), NEW n \in 1..2, Pop(n),
           UNCHANGED <<boxes, exported, safe>>, unwinding' \in {"no", "panic", "abort"},
           failed' \in {failed, "trap", "panic"},
           failed' # "panic" => failed # "panic" /\ unwinding' = "no",
           failed' = "no" => failed = "no" /\ n = 1,
           wrapped' \in {wrapped, wrapped \cup Top.result},
           failed' = "no" /\ safe => wrapped' = wrapped \cup Top.result
    PROVE  Goal
<1>1. Types /\ GuestBelow /\ GuestInv /\ HostInv /\ TP!IInv
  BY Parts DEF Inv
<1>2. /\ Depth \in Frames("import") /\ Top.access = Len(accesses) /\ Len(accesses) > 0
      /\ Top \in ImportFrame
  BY <1>1, TopAccess, FrameFields DEF GuestInv, Frames, Top
<1>3. PICK m \in Nat : m = Depth
  BY <1>1 DEF Types, Depth
<1>4. m > 1 /\ stack[m - 1].kind \in {"export", "close_export"}
  BY <1>1, <1>2, <1>3 DEF GuestBelow
<1>5. stack' \in Seq(Frame) /\ GuestBelow'
  BY <1>1, <1>3, <1>4, Popped
<1>6. /\ \A kind : Frames(kind)' = {d \in Frames(kind) : d <= m - n}
      /\ \A d \in 1..(m - n) : stack'[d] = stack[d]
  BY <1>1, <1>3, <1>4, PopEffect
<1>7. \A d \in Frames("import") : d # m => d \in 1..(m - n)
  <2> SUFFICES ASSUME NEW d \in Frames("import"), d # m, d > m - n PROVE FALSE
    BY <1>3 DEF Frames
  <2>1. d = m - 1
    BY <1>3 DEF Frames
  <2> QED BY <1>4, <2>1 DEF Frames
<1>8. Frames("import")' = Frames("import") \ {Depth}
  BY <1>3, <1>6, <1>7
<1>9. GuestInv'
  BY <1>1, <1>3, <1>6, <1>7, <1>8, GuestCalled
<1>10. /\ \A kind : Frames(kind)' \subseteq Frames(kind)
       /\ \A kind : \A d \in Frames(kind)' : stack'[d] = stack[d]
       /\ n = 1 => Frames("close_export")' = Frames("close_export")
  BY <1>1, <1>2, <1>3, <1>4, PopKeeps DEF ImportFrame
<1>11. HostInv'
  BY <1>1, <1>10, HostStays DEF HostInv, NoPanic
<1>12. Types'
  BY <1>1, <1>2, <1>5 DEF Types, ImportFrame
<1>13. T!Next
  <2>1. Top.access \in T!Usable
    BY <1>1, <1>2, TableFacts DEF T!Usable
  <2> QED BY <2>1 DEF T!Next, T!Step
<1> QED BY <1>5, <1>9, <1>11, <1>12, <1>13, NextParts DEF Goal

LEMMA ImportEndsStep ==
    ASSUME Inv, EndImport \/ FailImport \/ UnwindImport, UNCHANGED safe
    PROVE  Goal
<1>1. CASE EndImport
  <2>1. /\ TopIs({"import"}) /\ T!Drop(Top.access) /\ Pop(1) /\ unwinding' = "no"
        /\ UNCHANGED <<boxes, exported, failed>>
        /\ wrapped' = IF safe THEN wrapped \cup Top.result ELSE wrapped
    BY <1>1 DEF EndImport
  <2> QED BY <2>1, ImportEnds
<1>2. CASE FailImport
  <2>1. Types /\ GuestBelow /\ NoPanic
    BY DEF Inv, IInv
  <2>2. PICK m \in Nat : m = Depth
    BY <2>1 DEF Types, Depth
  <2>3. m \in Frames("import")
    BY <1>2, <2>2 DEF FailImport, TopIs, Top, Frames
  <2>4. m > 1
    BY <2>1, <2>3 DEF GuestBelow
  <2>5. stack[m - 1].kind = "close_export" => m - 1 \in Frames("close_export")
    BY <2>2, <2>4 DEF Frames
  <2>6. failed # "panic" /\ stack[m - 1].kind = "close_export" => ~stack[m - 1].again
    BY <2>1, <2>5 DEF NoPanic
  <2>7. Resume(stack[m - 1])
    BY <1>2, <2>2 DEF FailImport
  <2>8. unwinding' \in {"no", "panic"} /\ (failed # "panic" => unwinding' = "no")
    BY <2>6, <2>7 DEF Resume
  <2> QED BY <1>2, <2>8, ImportEnds DEF FailImport, Trapped
<1>3. CASE UnwindImport
  <2>1. failed = "panic"
    BY <1>3 DEF Inv, IInv, NoPanic, UnwindImport
  <2> QED BY <1>3, <2>1, ImportEnds DEF UnwindImport
<1> QED BY <1>1, <1>2, <1>3

\* The guest closes a handle.
LEMMA CloseHostStep ==
    ASSUME Inv, NEW h \in Closable, CloseHost(h), UNCHANGED safe
    PROVE  Goal
<1>1. Types /\ GuestBelow /\ GuestInv /\ HostInv /\ TP!IInv
  BY Parts DEF Inv
<1>2. /\ T!Remove(h.raw) /\ wrapped' = wrapped \ {h} /\ TopIs({"export", "close_export"})
      /\ UNCHANGED <<boxes, exported, unwinding, failed>>
  BY DEF CloseHost, GuestRuns
<1>3. PICK f : f = CloseImport(elems[h.raw].item) /\ Push(f)
  BY DEF CloseHost
<1>4. f \in Frame /\ f.kind = "close_import"
  <2>1. elems[h.raw].item \in Item
    BY <1>1, <1>2, TableFacts DEF T!Remove
  <2> QED BY <2>1, <1>3 DEF Frame, CloseImportFrame, CloseImport
<1>5. stack' \in Seq(Frame) /\ GuestBelow'
  BY <1>1, <1>2, <1>3, <1>4, Pushed
<1>6. \A kind \in {"import", "export", "close_export"} :
         Frames(kind)' = Frames(kind) /\ \A d \in Frames(kind) : stack'[d] = stack[d]
  BY <1>1, <1>3, <1>4, PushKeeps
<1>7. GuestInv'
  <2>1. ~TopIs({"import"})
    BY <1>2 DEF TopIs
  <2>2. UNCHANGED <<active_borrows, accesses>>
    BY <1>2, RemoveEffect
  <2> QED BY <1>1, <1>2, <1>6, <2>1, <2>2, GuestGives
<1>8. HostInv'
  BY <1>1, <1>2, <1>6, HostStays DEF HostInv, NoPanic
<1>9. Types'
  BY <1>1, <1>2, <1>5 DEF Types
<1>10. T!Next
  <2>1. h.raw \in T!Handle
    BY <1>1 DEF Closable, Passable, Types, Wrapped
  <2> QED BY <1>2, <2>1 DEF T!Next, T!Step
<1> QED BY <1>5, <1>7, <1>8, <1>9, <1>10, NextParts DEF Goal

LEMMA CloseHostFailsStep ==
    ASSUME Inv, NEW h \in Closable, CloseHostFails(h), UNCHANGED safe
    PROVE  Goal
<1>1. Types /\ GuestBelow /\ GuestInv /\ HostInv /\ TP!IInv
  BY Parts DEF Inv
<1>2. /\ T!RemoveFails(h.raw) /\ wrapped' = wrapped \ {h} /\ TopIs({"export", "close_export"})
      /\ failed' # "no" /\ (failed' # "panic" => failed # "panic") /\ failed' \in {failed, "trap"}
      /\ UNCHANGED <<boxes, exported>> /\ Pop(1) /\ Resume(Top)
  BY DEF CloseHostFails, GuestRuns, Trapped
<1>3. Depth > 0 /\ Depth \in Nat /\ Top.kind # "import" /\ ~TopIs({"import"})
  BY <1>1, <1>2 DEF TopIs, Types, Depth
<1>4. stack' \in Seq(Frame) /\ GuestBelow'
  BY <1>1, <1>2, <1>3, Popped
<1>5. /\ \A kind : Frames(kind)' \subseteq Frames(kind)
      /\ \A kind : \A d \in Frames(kind)' : stack'[d] = stack[d]
      /\ Frames("import")' = Frames("import")
  BY <1>1, <1>2, <1>3, PopKeeps
<1>6. UNCHANGED <<elems, active_borrows, accesses>> /\ UNCHANGED T!vars
  BY <1>2 DEF T!RemoveFails, T!table, T!vars
<1>7. GuestInv'
  <2>1. Kept
    BY <1>6 DEF Kept, T!IsFull
  <2> QED BY <1>1, <1>2, <1>3, <1>5, <1>6, <2>1, GuestGives
<1>8. unwinding' \in {"no", "panic"} /\ (failed # "panic" => unwinding' = "no")
  <2>1. failed # "panic" /\ Top.kind = "close_export" => ~Top.again
    BY <1>1, <1>3 DEF HostInv, NoPanic, Frames, Top
  <2> QED BY <1>2, <2>1 DEF Resume
<1>9. HostInv'
  BY <1>1, <1>2, <1>5, <1>8, HostStays
<1>10. Types'
  BY <1>1, <1>2, <1>4, <1>8 DEF Types
<1> QED BY <1>4, <1>6, <1>7, <1>9, <1>10, NextParts DEF Goal

\* EndCloseHost, EndExport, Trap and UnwindFrame: a frame goes, and nothing else.
LEMMA FrameEnds ==
    ASSUME Inv, ~TopIs({"import"}), Depth > 0, Pop(1), UNCHANGED <<table, wrapped, boxes, exported, safe>>,
           failed' \in {failed, "trap"},
           failed' = "no" => failed = "no" /\ ~TopIs({"close_export"}),
           failed' # "panic" => failed # "panic" /\ unwinding' = "no",
           unwinding' \in {"no", "panic"}
    PROVE  Goal
<1>1. Types /\ GuestBelow /\ GuestInv /\ HostInv /\ Depth \in Nat
  BY Parts DEF Inv, Types, Depth
<1>2. UNCHANGED <<elems, active_borrows, accesses>> /\ UNCHANGED T!vars
  BY TableUnused DEF table
<1>3. stack' \in Seq(Frame) /\ GuestBelow' /\ GuestInv'
  BY <1>2, PopStep
<1>4. /\ \A kind : Frames(kind)' \subseteq Frames(kind)
      /\ \A kind : \A d \in Frames(kind)' : stack'[d] = stack[d]
      /\ Top.kind # "close_export" => Frames("close_export")' = Frames("close_export")
  BY <1>1, PopKeeps
<1>5. HostInv'
  BY <1>1, <1>4, HostStays DEF TopIs
<1>6. Types'
  BY <1>1, <1>3 DEF Types
<1> QED BY <1>2, <1>3, <1>5, <1>6, NextParts DEF Goal

LEMMA FrameEndsStep ==
    ASSUME Inv, EndCloseHost \/ EndExport \/ Trap \/ UnwindFrame, UNCHANGED safe
    PROVE  Goal
<1>1. Types /\ NoPanic /\ Depth \in Nat
  BY DEF Inv, IInv, Types, Depth
<1>2. CASE EndCloseHost \/ EndExport
  BY <1>1, <1>2, FrameEnds DEF EndCloseHost, EndExport, TopIs
<1>3. CASE UnwindFrame
  BY <1>1, <1>3, FrameEnds DEF UnwindFrame, TopIs, NoPanic
<1>4. CASE Trap
  <2>1. failed # "panic" /\ Top.kind = "close_export" => ~Top.again
    BY <1>1, <1>4 DEF NoPanic, Frames, Top, Trap, GuestRuns, TopIs
  <2>2. unwinding' \in {"no", "panic"} /\ (failed # "panic" => unwinding' = "no")
    BY <1>4, <2>1 DEF Trap, Resume
  <2> QED BY <1>1, <1>4, <2>2, FrameEnds DEF Trap, Trapped, GuestRuns, TopIs
<1> QED BY <1>2, <1>3, <1>4

\* Panic and Caught, and the end in an abort: no frame goes.
LEMMA StackStays ==
    ASSUME Inv, UNCHANGED <<stack, table, wrapped, boxes, exported, safe>>,
           failed' \in {failed, "panic"}, unwinding' \in {"no", "panic", "abort"},
           failed' # "panic" => unwinding' = "no"
    PROVE  Goal
<1>1. Types /\ GuestBelow /\ GuestInv /\ HostInv
  BY Parts DEF Inv
<1>2. UNCHANGED <<elems, active_borrows, accesses>> /\ UNCHANGED T!vars
  BY TableUnused DEF table
<1>3. UNCHANGED Depth /\ \A kind : Frames(kind)' = Frames(kind)
  BY DEF Frames, Depth
<1>4. Kept
  BY <1>2 DEF Kept, T!IsFull
<1>5. failed' = "no" => failed = "no"
  OBVIOUS
<1>6. GuestInv'
  BY <1>1, <1>2, <1>3, <1>4, <1>5, GuestStays
<1>7. HostInv'
  BY <1>1, <1>3, <1>5, HostStays
<1>8. Types' /\ GuestBelow'
  BY <1>1, <1>3 DEF Types, GuestBelow
<1> QED BY <1>2, <1>6, <1>7, <1>8, NextParts DEF Goal

LEMMA StackStaysStep ==
    ASSUME Inv, Panic \/ Caught, UNCHANGED safe
    PROVE  Goal
<1>1. CASE Panic
  BY <1>1, StackStays DEF Panic
<1>2. CASE Caught
  BY <1>2, StackStays DEF Caught, Inv, IInv, NoPanic
<1> QED BY <1>1, <1>2

\* The steps of the host's handles.
LEMMA CallExportStep ==
    ASSUME Inv, NEW args \in SUBSET exported, CallExport(args), UNCHANGED safe
    PROVE  Goal
<1>1. Types /\ GuestBelow /\ GuestInv /\ HostInv
  BY Parts DEF Inv
<1>2. PICK f : f = Export(args) /\ Push(f)
  BY DEF CallExport
<1>3. f \in Frame /\ f.kind = "export"
  BY <1>1, <1>2 DEF Export, Frame, ExportFrame, Types
<1>4. UNCHANGED <<table, wrapped, exported, boxes, unwinding, failed>> /\ UNCHANGED T!vars
  BY TableUnused DEF CallExport
<1>5. stack' \in Seq(Frame) /\ GuestBelow'
  BY <1>1, <1>2, <1>3, Pushed
<1>6. Frames("import")' = Frames("import") /\ \A d \in Frames("import") : stack'[d] = stack[d]
  BY <1>1, <1>2, <1>3, PushKeeps
<1>7. Depth \in Nat /\ Depth' = Depth + 1
  BY <1>1, <1>2, <1>3, PushEffect
<1>8. \A d \in Frames("import") : d < Depth' => d < Depth \/ stack[d].result = {}
  <2>1. TopIs({"import"}) => Top.result = {}
    BY DEF CallExport, HostRuns, TopIs
  <2>2. \A d \in Frames("import") : d = Depth => TopIs({"import"}) /\ Top = stack[d]
    BY <1>7 DEF Frames, TopIs, Top
  <2> QED BY <1>7, <2>1, <2>2 DEF Frames
<1>9. Kept /\ UNCHANGED <<active_borrows, accesses>>
  BY <1>4 DEF Kept, T!IsFull, table
<1>10. GuestInv'
  BY <1>1, <1>4, <1>6, <1>8, <1>9, GuestStays
<1>11. HostInv'
  BY <1>1, HostCalls
<1>12. Types'
  BY <1>1, <1>4, <1>5 DEF Types
<1> QED BY <1>4, <1>5, <1>10, <1>11, <1>12, NextParts DEF Goal

LEMMA EndExportBoxedStep ==
    ASSUME Inv, NEW a \in Address, NEW object \in Object, EndExportBoxed(a, object), UNCHANGED safe
    PROVE  Goal
<1>1. Types /\ GuestBelow /\ GuestInv /\ HostInv
  BY Parts DEF Inv
<1>2. /\ ~TopIs({"import"}) /\ Depth > 0 /\ Pop(1)
      /\ UNCHANGED <<table, wrapped, unwinding>>
      /\ failed' \in {failed, "trap"} /\ (failed' = "no" => failed = "no")
      /\ exported' \in {exported, exported \cup {[raw |-> a, object |-> object]}}
  BY DEF EndExportBoxed, TopIs, Trapped
<1>3. UNCHANGED <<elems, active_borrows, accesses>> /\ UNCHANGED T!vars
  BY <1>2, TableUnused DEF table
<1>4. stack' \in Seq(Frame) /\ GuestBelow' /\ GuestInv'
  BY <1>2, <1>3, PopStep
<1>5. HostInv'
  BY <1>1, HostGetsResult
<1>6. Types'
  BY <1>1, <1>2, <1>4 DEF Types, Exported
<1> QED BY <1>3, <1>4, <1>5, <1>6, NextParts DEF Goal

LEMMA CloseGuestStep ==
    ASSUME Inv, NEW h \in exported \ Lent("export"), CloseGuest(h), UNCHANGED safe
    PROVE  Goal
<1>1. Types /\ GuestBelow /\ GuestInv /\ HostInv
  BY Parts DEF Inv
<1>2. PICK how \in {"close", "drop"} : Push(CloseExport(h, how, FALSE))
  BY DEF CloseGuest
<1>3. PICK f : f = CloseExport(h, how, FALSE) /\ Push(f)
  BY <1>2
<1>4. f \in Frame /\ f.kind = "close_export"
  <2>1. PICK valid \in BOOLEAN : valid = (h.raw \in DOMAIN boxes /\ boxes[h.raw] = h.object)
    OBVIOUS
  <2>2. f = [kind |-> "close_export", handle |-> h, how |-> how, again |-> FALSE, valid |-> valid]
    BY <1>3, <2>1 DEF CloseExport
  <2> QED BY <1>1, <2>2 DEF Frame, CloseExportFrame, Types
<1>5. /\ UNCHANGED <<table, wrapped, unwinding, failed>> /\ UNCHANGED T!vars
      /\ exported' = exported \ {h}
  BY TableUnused DEF CloseGuest
<1>6. stack' \in Seq(Frame) /\ GuestBelow'
  BY <1>1, <1>3, <1>4, Pushed
<1>7. Frames("import")' = Frames("import") /\ \A d \in Frames("import") : stack'[d] = stack[d]
  BY <1>1, <1>3, <1>4, PushKeeps
<1>8. Depth \in Nat /\ Depth' = Depth + 1
  BY <1>1, <1>3, <1>4, PushEffect
<1>9. \A d \in Frames("import") : d < Depth' => d < Depth \/ stack[d].result = {}
  <2>1. TopIs({"import"}) => Top.result = {}
    BY DEF CloseGuest, HostRuns, TopIs
  <2>2. \A d \in Frames("import") : d = Depth => TopIs({"import"}) /\ Top = stack[d]
    BY <1>8 DEF Frames, TopIs, Top
  <2> QED BY <1>8, <2>1, <2>2 DEF Frames
<1>10. Kept /\ UNCHANGED <<active_borrows, accesses>>
  BY <1>5 DEF Kept, T!IsFull, table
<1>11. GuestInv'
  BY <1>1, <1>5, <1>7, <1>9, <1>10, GuestStays
<1>12. HostInv'
  BY <1>1, HostCloses
<1>13. Types'
  BY <1>1, <1>5, <1>6 DEF Types
<1> QED BY <1>5, <1>6, <1>11, <1>12, <1>13, NextParts DEF Goal

LEMMA EndCloseGuestStep ==
    ASSUME Inv, EndCloseGuest, UNCHANGED safe
    PROVE  Goal
<1>1. Types /\ GuestBelow /\ GuestInv /\ HostInv
  BY Parts DEF Inv
<1>2. /\ ~TopIs({"import"}) /\ Depth > 0 /\ Pop(1)
      /\ UNCHANGED <<table, wrapped, exported, failed>> /\ unwinding' \in {"no", "panic"}
  BY DEF EndCloseGuest, TopIs, Resume
<1>3. UNCHANGED <<elems, active_borrows, accesses>> /\ UNCHANGED T!vars
  BY <1>2, TableUnused DEF table
<1>4. stack' \in Seq(Frame) /\ GuestBelow' /\ GuestInv'
  BY <1>2, <1>3, PopStep
<1>5. HostInv'
  BY <1>1, HostClosed
<1>6. Types'
  BY <1>1, <1>2, <1>4 DEF Types
<1> QED BY <1>3, <1>4, <1>5, <1>6, NextParts DEF Goal

\* A panic goes through a destructor: nothing is promised of boxes any more.
LEMMA UnwindCloseStep ==
    ASSUME Inv, UnwindClose, UNCHANGED safe
    PROVE  Goal
<1>1. Types /\ GuestBelow /\ GuestInv /\ HostInv /\ Depth \in Nat
  BY Parts DEF Inv, Types, Depth
<1>2. /\ unwinding = "panic" /\ TopIs({"close_export"}) /\ Depth > 0 /\ ~TopIs({"import"})
      /\ UNCHANGED <<table, wrapped, exported, failed>>
  BY DEF UnwindClose, TopIs
<1>3. failed = "panic"
  BY <1>1, <1>2 DEF HostInv, NoPanic
<1>4. HostInv'
  BY <1>2, <1>3 DEF HostInv, NoPanic, HostHandles, BoxesHeld
<1>5. UNCHANGED <<elems, active_borrows, accesses>> /\ UNCHANGED T!vars
  BY <1>2, TableUnused DEF table
<1>6. CASE Top.how = "close"
  <2>1. /\ stack' = [stack EXCEPT ![Depth] = CloseExport(Top.handle, "drop", TRUE)]
        /\ unwinding' = "no"
    BY <1>6 DEF UnwindClose
  <2>2. PICK f : f = CloseExport(Top.handle, "drop", TRUE)
    OBVIOUS
  <2>3. Top \in CloseExportFrame
    BY <1>1, <1>2, FrameFields DEF Top, TopIs
  <2>4. f \in Frame /\ f.kind = "close_export" /\ Top.kind = "close_export"
    <3>1. PICK h \in Exported : h = Top.handle
      BY <2>3 DEF CloseExportFrame
    <3>2. PICK valid \in BOOLEAN : valid = (h.raw \in DOMAIN boxes /\ boxes[h.raw] = h.object)
      OBVIOUS
    <3>3. f = [kind |-> "close_export", handle |-> h, how |-> "drop", again |-> TRUE, valid |-> valid]
      BY <2>2, <3>1, <3>2 DEF CloseExport
    <3> QED BY <1>2, <3>3 DEF Frame, CloseExportFrame, TopIs
  <2>5. stack' \in Seq(Frame) /\ GuestBelow'
    BY <1>1, <1>2, <2>1, <2>2, <2>4, Replaced
  <2>6. /\ Frames("import")' = Frames("import") /\ \A d \in Frames("import") : stack'[d] = stack[d]
    BY <1>1, <1>2, <2>1, <2>2, <2>4, ReplaceKeeps
  <2>7. Depth' = Depth
    BY <1>1, <1>2, <2>1, <2>2, <2>4, ReplaceEffect
  <2>8. Kept
    BY <1>5 DEF Kept, T!IsFull
  <2>9. GuestInv'
    BY <1>1, <1>2, <1>5, <2>6, <2>7, <2>8, GuestStays
  <2>10. Types'
    BY <1>1, <1>2, <2>1, <2>5 DEF Types
  <2> QED BY <1>4, <1>5, <2>5, <2>9, <2>10, NextParts DEF Goal
<1>7. CASE Top.how # "close" /\ Top.again
  BY <1>2, <1>3, <1>7, StackStays DEF UnwindClose
<1>8. CASE Top.how # "close" /\ ~Top.again
  BY <1>2, <1>3, <1>8, FrameEnds DEF UnwindClose
<1> QED BY <1>6, <1>7, <1>8

\* The invariant is inductive, with that of the table, and each step uses the
\* table as it has to be used.
LEMMA StepInvariant == Inv /\ [Next]_vars => Inv' /\ [T!Next]_(T!vars)
<1> SUFFICES ASSUME Inv, [Next]_vars PROVE Inv' /\ [T!Next]_(T!vars)
  OBVIOUS
<1>1. Goal
  <2>1. CASE UNCHANGED vars
    <3>1. UNCHANGED <<stack, table, wrapped, boxes, exported, safe, failed, unwinding>>
      BY <2>1 DEF vars
    <3> QED BY <3>1, StackStays DEF Inv, IInv, NoPanic, Types
  <2>2. ASSUME Next PROVE Goal
    <3> USE <2>2 DEF Next
    <3>1. CASE \E args \in SUBSET Passable : CallImport(args)
      BY <3>1, CallImportStep
    <3>2. CASE GetArg
      BY <3>2, GetArgStep
    <3>3. CASE \E item \in Item : LowerResult(item)
      BY <3>3, LowerResultStep
    <3>4. CASE EndImport \/ FailImport \/ UnwindImport
      BY <3>4, ImportEndsStep
    <3>5. CASE \E h \in Closable : CloseHost(h) \/ CloseHostFails(h)
      BY <3>5, CloseHostStep, CloseHostFailsStep
    <3>6. CASE EndCloseHost \/ EndExport \/ Trap \/ UnwindFrame
      BY <3>6, FrameEndsStep
    <3>7. CASE \E args \in SUBSET exported : CallExport(args)
      BY <3>7, CallExportStep
    <3>8. CASE \E a \in Address, object \in Object : EndExportBoxed(a, object)
      BY <3>8, EndExportBoxedStep
    <3>9. CASE \E h \in exported \ Lent("export") : CloseGuest(h)
      BY <3>9, CloseGuestStep
    <3>10. CASE EndCloseGuest
      BY <3>10, EndCloseGuestStep
    <3>11. CASE UnwindClose
      BY <3>11, UnwindCloseStep
    <3>12. CASE Panic \/ Caught
      BY <3>12, StackStaysStep
    <3> QED BY <3>1, <3>2, <3>3, <3>4, <3>5, <3>6, <3>7, <3>8, <3>9, <3>10, <3>11, <3>12 DEF Step
  <2> QED BY <2>1, <2>2
<1>2. [TP!Next]_(TP!vars)
  BY <1>1, SameTable DEF Goal
<1>3. TP!IInv'
  BY <1>2, LifeAssumption, TP!StepInvariant DEF Inv
<1> QED BY <1>1, <1>3 DEF Goal, Inv

LEMMA InitInv == Init => Inv
<1> SUFFICES ASSUME Init PROVE Inv
  OBVIOUS
<1>1. TP!Init
  BY SameTable DEF Init
<1>2. TP!IInv
  BY <1>1, LifeAssumption, TP!InitInvariant
<1> QED BY <1>2, InitInvariant DEF Inv

-----------------------------------------------------------------------------
(* What the invariant says.                                                *)

\* The inductive invariant holds always.
THEOREM Invariance == Spec => []Inv
BY InitInv, StepInvariant, PTL DEF Spec

\* Whatever a guest passes and however calls nest, fail and unwind, generated
\* code uses the table as Table's nested use has it; so what is proved of that
\* use holds here.
THEOREM TableAlwaysNested == Spec => UsesTableNested
<1>1. Init => T!Init
  BY DEF Init
<1> QED BY <1>1, InitInv, StepInvariant, PTL DEF Spec, UsesTableNested, T!Spec

\* Every handle of a safe guest, and every one it has lent to a call, names the
\* item it was made for.
THEOREM HandlesAlwaysResolve == Spec => []HandlesResolve
<1>1. Inv => HandlesResolve
  <2> SUFFICES ASSUME Inv, safe, NEW h \in wrapped \cup Lent("import") PROVE Resolves(h)
    BY DEF HandlesResolve, Resolves
  <2>1. h \in wrapped
    BY DEF Inv, IInv, GuestHandles, Lent, Frames
  <2> QED BY <2>1 DEF Inv, IInv, GuestHandles
<1> QED BY <1>1, Invariance, PTL

\* A safe guest can close any handle that it could drop.
THEOREM ClosesAlwaysSucceed == Spec => []ClosesSucceed
<1>1. Inv => ClosesSucceed
  <2> SUFFICES ASSUME Inv, safe, NEW h \in Closable
               PROVE  T!IsFull(h.raw) /\ elems[h.raw].uses = 0
    BY DEF ClosesSucceed
  <2>1. /\ h \in wrapped /\ T!IsFull(h.raw)
        /\ \A d \in Frames("import") : h \notin stack[d].args /\ stack[d].args \subseteq wrapped
    BY DEF Inv, IInv, GuestHandles, Resolves, Closable, Lent, Frames
  <2>2. ASSUME elems[h.raw].uses # 0 PROVE FALSE
    <3>1. PICK k \in DOMAIN active_borrows : active_borrows[k] = h.raw
      BY <2>1, <2>2, TableFacts DEF Inv
    <3>2. PICK d \in Frames("import") : \E j \in stack[d].args : j.raw = h.raw
      BY <3>1 DEF Inv, IInv, BorrowsOfImports
    <3>3. PICK j \in stack[d].args : j.raw = h.raw
      BY <3>2
    <3>4. j = h
      BY <2>1, <3>3, HandlesDistinct DEF Inv, IInv
    <3> QED BY <2>1, <3>3, <3>4
  <2> QED BY <2>1, <2>2
<1> QED BY <1>1, Invariance, PTL

\* Every handle of the host is the address of a box with its object, and a
\* destructor is entered once, as long as the host does not panic.
THEOREM BoxesAlwaysLive == Spec => []BoxesLive
<1>1. Inv => BoxesLive
  BY DEF Inv, IInv, HostHandles, BoxesLive, Lent, Frames
<1> QED BY <1>1, Invariance, PTL

\* While nothing fails, no resource is left without a handle that will close it.
THEOREM NothingEverLost == Spec => []NothingLost
<1>1. Inv => NothingLost
  <2> SUFFICES ASSUME Inv, safe, failed = "no" PROVE NothingLost
    BY DEF NothingLost
  <2> DEFINE Results == UNION {stack[d].result : d \in {e \in 1..Depth : stack[e].kind = "import"}}
             Closing == {stack[d].handle : d \in {e \in 1..Depth : stack[e].kind = "close_export"}}
  <2>1. /\ GuestHandles /\ ItemsHeld /\ HostHandles /\ BoxesHeld
    BY DEF Inv, IInv
  <2>2. \A i : T!IsFull(i) <=> \E h \in wrapped \cup Results : h.raw = i
    <3>1. ASSUME NEW i, T!IsFull(i) PROVE \E h \in wrapped \cup Results : h.raw = i
      BY <2>1, <3>1 DEF ItemsHeld, Frames
    <3>2. ASSUME NEW h \in wrapped \cup Results PROVE T!IsFull(h.raw)
      BY <2>1 DEF GuestHandles, Resolves, Frames
    <3> QED BY <3>1, <3>2
  <2>3. \A a : a \in DOMAIN boxes <=> \E h \in exported \cup Closing : h.raw = a
    <3>1. ASSUME NEW a \in DOMAIN boxes PROVE \E h \in exported \cup Closing : h.raw = a
      BY <2>1 DEF BoxesHeld, Frames
    <3>2. ASSUME NEW h \in exported \cup Closing PROVE h.raw \in DOMAIN boxes
      BY <2>1 DEF HostHandles, Frames
    <3> QED BY <3>1, <3>2
  <2>4. {i \in DOMAIN elems : T!IsFull(i)} = {h.raw : h \in wrapped \cup Results}
    BY <2>2 DEF T!IsFull
  <2>5. DOMAIN boxes = {h.raw : h \in exported \cup Closing}
    BY <2>3
  <2> QED BY <2>4, <2>5 DEF NothingLost
<1> QED BY <1>1, Invariance, PTL

=============================================================================
