---------------------------- MODULE TableProofs -----------------------------
(***************************************************************************)
(* Proofs about Table, for any number of items, handles, accesses and      *)
(* borrows, for nested use and for any other.                              *)
(***************************************************************************)
EXTENDS Table, FiniteSetTheorems, SequenceTheorems, WellFoundedInduction, TLAPS

(***************************************************************************)
(* Induction, in a form that the provers can apply.                        *)
(***************************************************************************)

\* A set with 0 and the successors of its elements has every natural.
LEMMA NaturalsIn ==
    ASSUME NEW T, 0 \in T, \A n \in Nat : n \in T => n + 1 \in T
    PROVE  \A n \in Nat : n \in T
<1> DEFINE R == OpToRel(<, Nat)
<1> SUFFICES ASSUME Nat \ T # {} PROVE FALSE
  OBVIOUS
<1>1. PICK x \in Nat \ T : \A y \in Nat \ T : ~(<<y, x>> \in R)
  <2>1. IsWellFoundedOn(R, Nat)
    BY NatLessThanWellFounded
  <2> HIDE DEF R
  <2>2. Nat \ T \in SUBSET Nat
    OBVIOUS
  <2> QED BY <2>1, <2>2, WFMin
<1>2. \A y \in Nat \ T : ~(y < x)
  BY <1>1 DEF OpToRel
<1> HIDE DEF R
<1>3. x # 0 /\ x - 1 \in Nat /\ x - 1 < x /\ (x - 1) + 1 = x
  OBVIOUS
<1> QED BY <1>1, <1>2, <1>3

(***************************************************************************)
(* Lemmas about counting.                                                  *)
(***************************************************************************)

\* The positions of a sequence that hold i.
LEMMA PositionsFinite ==
    ASSUME NEW S, NEW s \in Seq(S), NEW i
    PROVE  /\ IsFiniteSet({k \in DOMAIN s : s[k] = i})
           /\ Occurrences(s, i) \in Nat
           /\ Occurrences(s, i) = 0 <=> \A k \in DOMAIN s : s[k] # i
<1> DEFINE P == {k \in DOMAIN s : s[k] = i}
<1>1. IsFiniteSet(1..Len(s)) /\ P \in SUBSET (1..Len(s))
  BY FS_Interval
<1>2. IsFiniteSet(P)
  BY <1>1, FS_Subset
<1>3. Cardinality(P) \in Nat /\ (Cardinality(P) = 0 <=> P = {})
  BY <1>2, FS_CardinalityType, FS_EmptySet
<1> QED BY <1>2, <1>3 DEF Occurrences

\* One more element occurs once more.
LEMMA OccurrencesAppend ==
    ASSUME NEW S, NEW s \in Seq(S), NEW x \in S, NEW i
    PROVE  Occurrences(Append(s, x), i) = Occurrences(s, i) + IF x = i THEN 1 ELSE 0
<1> DEFINE P == {k \in DOMAIN s : s[k] = i}
           Q == {k \in DOMAIN Append(s, x) : Append(s, x)[k] = i}
<1>1. IsFiniteSet(P) /\ Cardinality(P) \in Nat
  BY PositionsFinite, FS_CardinalityType
<1>2. Len(s) + 1 \notin P
  OBVIOUS
<1>3. Q = IF x = i THEN P \cup {Len(s) + 1} ELSE P
  OBVIOUS
<1> HIDE DEF P, Q
<1>4. Cardinality(Q) = Cardinality(P) + IF x = i THEN 1 ELSE 0
  <2>1. Cardinality(P \cup {Len(s) + 1}) = Cardinality(P) + 1
    BY <1>1, <1>2, FS_AddElement
  <2> QED BY <1>1, <1>3, <2>1
<1> QED BY <1>4 DEF P, Q, Occurrences

\* What occurs in a sequence occurs before a cut or after it.
LEMMA OccurrencesSplit ==
    ASSUME NEW S, NEW s \in Seq(S), NEW c \in 0..Len(s), NEW i
    PROVE  Occurrences(s, i) =
             Occurrences(SubSeq(s, 1, c), i) + Occurrences(SubSeq(s, c + 1, Len(s)), i)
<1> DEFINE front == SubSeq(s, 1, c)
           back == SubSeq(s, c + 1, Len(s))
           All == {k \in DOMAIN s : s[k] = i}
           F == {k \in DOMAIN front : front[k] = i}
           B == {k \in DOMAIN back : back[k] = i}
           C == {k \in DOMAIN s : s[k] = i /\ k > c}
<1>1. /\ front \in Seq(S) /\ Len(front) = c
      /\ \A k \in 1..c : front[k] = s[k]
  BY SubSeqProperties
<1>2. /\ back \in Seq(S) /\ Len(back) = Len(s) - c
      /\ \A k \in 1..(Len(s) - c) : back[k] = s[c + k]
  BY SubSeqProperties
<1>3. All = F \cup C /\ F \cap C = {}
  BY <1>1
<1>4. IsFiniteSet(F) /\ IsFiniteSet(B) /\ IsFiniteSet(All)
  BY <1>1, <1>2, PositionsFinite
<1>5. Cardinality(C) = Cardinality(B)
  <2> DEFINE shift == [k \in B |-> c + k]
  <2>1. shift \in [B -> C]
    <3>1. ASSUME NEW k \in B PROVE c + k \in C
      <4>1. k \in 1..(Len(s) - c) /\ s[c + k] = i
        BY <1>2
      <4> QED BY <4>1
    <3> HIDE DEF B, C
    <3> QED BY <3>1
  <2>2. \A x, y \in B : shift[x] = shift[y] => x = y
    BY <1>2
  <2>3. \A z \in C : \E x \in B : shift[x] = z
    <3> SUFFICES ASSUME NEW z \in C PROVE z - c \in B /\ shift[z - c] = z
      OBVIOUS
    <3> QED BY <1>2
  <2>4. shift \in Bijection(B, C)
    <3> HIDE DEF shift, B, C
    <3> QED BY <2>1, <2>2, <2>3 DEF Bijection, Injection, Surjection, IsInjective
  <2>5. ExistsBijection(B, C)
    BY <2>4 DEF ExistsBijection
  <2> HIDE DEF B, C
  <2> QED BY <2>5, <1>4, FS_Bijection
<1>6. IsFiniteSet(C)
  BY <1>3, <1>4, FS_Subset
<1> HIDE DEF All, F, B, C
<1>7. Cardinality(All) = Cardinality(F) + Cardinality(C)
  <2>1. Cardinality(F) \in Nat /\ Cardinality(C) \in Nat
    BY <1>4, <1>6, FS_CardinalityType
  <2>2. Cardinality(F \cup C) = Cardinality(F) + Cardinality(C) - Cardinality(F \cap C)
    BY <1>4, <1>6, FS_Union
  <2>3. Cardinality(F \cap C) = 0
    BY <1>3, FS_EmptySet
  <2> QED BY <2>1, <2>2, <2>3, <1>3
<1> QED BY <1>5, <1>7 DEF All, F, B, Occurrences

(***************************************************************************)
(* The inductive invariant.                                                *)
(***************************************************************************)

\* The types of the variables, without what relates them.
Types ==
    /\ elemsLen \in Nat /\ DOMAIN elems = 0..(elemsLen - 1)
    /\ elems \in [DOMAIN elems -> Slot]
    /\ next \in Nat
    /\ active_borrows \in Seq(Nat)
    /\ access_idx \in Nat /\ nested \in BOOLEAN
    /\ accesses \in Seq([start : Nat, access_idx : Nat \ {0},
                         refs : SUBSET [index : Nat, item : Item]])

\* p is the way along the free list, of m slots.
IsFreePath(p, m) ==
    /\ p[0] = next /\ p[m] = elemsLen
    /\ \A k \in 0..(m - 1) : IsEmpty(p[k]) /\ elems[p[k]].next_empty = p[k + 1]
    /\ \A j, k \in 0..m : p[j] = p[k] => j = k
    /\ \A i \in EmptySlots : \E k \in 0..(m - 1) : p[k] = i

FreePath == \E m \in Nat : \E p \in [0..m -> Nat] : IsFreePath(p, m)

\* References name slots that exist.
RefsInside == \A a \in DOMAIN accesses : \A r \in accesses[a].refs : r.index \in DOMAIN elems

\* When accesses nest, their indices are their places in the stack.
IndicesArePlaces ==
    nested => /\ access_idx = Len(accesses)
              /\ \A a \in DOMAIN accesses : accesses[a].access_idx = a

\* The slot of a reference holds its item, and is listed in active_borrows
\* where no drop of an access opened later reaches.
RefListed(a, r) ==
    /\ IsFull(r.index) /\ elems[r.index].item = r.item
    /\ \E k \in DOMAIN active_borrows :
          /\ active_borrows[k] = r.index
          /\ \A b \in DOMAIN accesses : a < b => k <= accesses[b].start

RefsListed == nested => \A a \in DOMAIN accesses : \A r \in accesses[a].refs : RefListed(a, r)

IInv ==
    /\ Types
    /\ FreePath
    /\ UsesCounted
    /\ AccessesStacked
    /\ RefsInside
    /\ IndicesArePlaces
    /\ RefsListed

\* The length of a vector with the indices 0 .. n - 1.
LEMMA LengthOfVector ==
    ASSUME NEW n \in Nat
    PROVE  Cardinality(0..(n - 1)) = n
BY FS_Interval

\* Types gives each slot its fields.
LEMMA SlotFields ==
    ASSUME Types, NEW i \in DOMAIN elems
    PROVE  \/ /\ IsEmpty(i) /\ ~IsFull(i)
              /\ elems[i].next_empty \in Nat
              /\ elems[i] = Empty(elems[i].next_empty)
           \/ /\ IsFull(i) /\ ~IsEmpty(i)
              /\ elems[i].item \in Item /\ elems[i].uses \in Nat
              /\ elems[i] = Full(elems[i].item, elems[i].uses)
BY DEF Types, Slot, IsEmpty, IsFull, Empty, Full

\* Types gives each access its fields.
LEMMA AccessFields ==
    ASSUME Types
    PROVE  /\ DOMAIN accesses = 1..Len(accesses) /\ Len(accesses) \in Nat
           /\ DOMAIN active_borrows = 1..Len(active_borrows) /\ Len(active_borrows) \in Nat
           /\ access_idx \in Nat
           /\ \A a \in DOMAIN accesses :
                 /\ accesses[a].start \in Nat /\ accesses[a].access_idx \in Nat \ {0}
                 /\ accesses[a].refs \in SUBSET [index : Nat, item : Item]
<1> DEFINE R == [start : Nat, access_idx : Nat \ {0}, refs : SUBSET [index : Nat, item : Item]]
<1>1. accesses \in Seq(R) /\ active_borrows \in Seq(Nat) /\ access_idx \in Nat
  BY DEF Types
<1>2. \A x \in R : x.start \in Nat /\ x.access_idx \in Nat \ {0}
                   /\ x.refs \in SUBSET [index : Nat, item : Item]
  OBVIOUS
<1> HIDE DEF R
<1> QED BY <1>1, <1>2

\* The initial state: no slot, no access.
LEMMA InitInvariant == Init => IInv
<1> SUFFICES ASSUME Init PROVE IInv
  OBVIOUS
<1>1. DOMAIN elems = {} /\ next = 0 /\ active_borrows = <<>> /\ accesses = <<>> /\ access_idx = 0
  BY DEF Init
<1>2. elemsLen = 0
  BY <1>1, FS_EmptySet DEF elemsLen
<1>3. Types
  <2>1. elems \in [DOMAIN elems -> Slot]
    BY DEF Init
  <2> QED BY <1>1, <1>2, <2>1 DEF Init, Types
<1>4. FreePath
  <2> DEFINE p == [k \in 0..0 |-> 0]
  <2>1. p \in [0..0 -> Nat] /\ IsFreePath(p, 0)
    BY <1>1, <1>2 DEF IsFreePath, EmptySlots
  <2> QED BY <2>1 DEF FreePath
<1>5. UsesCounted /\ AccessesStacked /\ RefsInside /\ IndicesArePlaces /\ RefsListed
  BY <1>1 DEF UsesCounted, AccessesStacked, RefsInside, IndicesArePlaces, RefsListed
<1> QED BY <1>3, <1>4, <1>5 DEF IInv

-----------------------------------------------------------------------------
(* A step that leaves the free list alone keeps its path.                  *)

LEMMA FreePathKept ==
    ASSUME FreePath, DOMAIN elems' = DOMAIN elems, next' = next,
           \A i \in DOMAIN elems :
               /\ IsEmpty(i)' <=> IsEmpty(i)
               /\ IsEmpty(i) => elems'[i].next_empty = elems[i].next_empty
    PROVE  FreePath'
<1>0. PICK m \in Nat : \E p \in [0..m -> Nat] : IsFreePath(p, m)
  BY DEF FreePath
<1>1. PICK p \in [0..m -> Nat] : IsFreePath(p, m)
  BY <1>0
<1>2. elemsLen' = elemsLen
  BY DEF elemsLen
<1>3. \A i : IsEmpty(i)' <=> IsEmpty(i)
  BY DEF IsEmpty
<1>4. EmptySlots' = EmptySlots
  BY <1>3 DEF EmptySlots
<1>5. \A k \in 0..(m - 1) : IsEmpty(p[k])' /\ elems'[p[k]].next_empty = p[k + 1]
  BY <1>1, <1>3 DEF IsFreePath, IsEmpty
<1>6. IsFreePath(p, m)'
  BY <1>1, <1>2, <1>4, <1>5 DEF IsFreePath
<1> QED BY <1>6 DEF FreePath

\* Opening an access keeps the invariant.
LEMMA AccessInvariant ==
    ASSUME IInv, Access, UNCHANGED nested
    PROVE  IInv'
<1> DEFINE new == [start |-> Len(active_borrows), access_idx |-> access_idx', refs |-> {}]
           R == [start : Nat, access_idx : Nat \ {0}, refs : SUBSET [index : Nat, item : Item]]
<1>1. /\ access_idx' = access_idx + 1
      /\ accesses' = Append(accesses, new)
      /\ UNCHANGED <<elems, next, active_borrows, nested>>
  BY DEF Access
<1>2. accesses \in Seq(R) /\ access_idx \in Nat /\ active_borrows \in Seq(Nat)
  BY DEF IInv, Types
<1>3. new \in R
  BY <1>1, <1>2
<1>4. /\ accesses' \in Seq(R) /\ Len(accesses') = Len(accesses) + 1
      /\ DOMAIN accesses' = 1..(Len(accesses) + 1) /\ DOMAIN accesses = 1..Len(accesses)
      /\ \A a \in DOMAIN accesses : accesses'[a] = accesses[a]
      /\ accesses'[Len(accesses) + 1] = new
  BY <1>1, <1>2, <1>3, AppendProperties
<1>5. Types'
  BY <1>1, <1>2, <1>4 DEF IInv, Types, elemsLen
<1>6. FreePath' /\ UsesCounted'
  <2>1. FreePath'
    BY <1>1, FreePathKept DEF IInv, IsEmpty
  <2>2. UsesCounted'
    BY <1>1 DEF IInv, UsesCounted, IsFull, Occurrences
  <2> QED BY <2>1, <2>2
<1>4a. /\ new.start = Len(active_borrows) /\ new.access_idx = access_idx + 1 /\ new.refs = {}
      /\ access_idx \in Nat
  BY <1>1, <1>2
<1> HIDE DEF R, new
<1>7. AccessesStacked'
  BY <1>1, <1>4, <1>4a, AccessFields DEF IInv, AccessesStacked
<1>8. RefsInside' /\ IndicesArePlaces'
  <2>1. RefsInside'
    BY <1>1, <1>4, <1>4a DEF IInv, RefsInside
  <2>2. IndicesArePlaces'
    BY <1>1, <1>4, <1>4a, AccessFields DEF IInv, IndicesArePlaces
  <2> QED BY <2>1, <2>2
<1>9. RefsListed'
  <2> SUFFICES ASSUME nested, NEW a \in DOMAIN accesses', NEW r \in accesses'[a].refs
               PROVE  RefListed(a, r)'
    BY <1>1 DEF RefsListed
  <2>1. a \in DOMAIN accesses /\ r \in accesses[a].refs
    BY <1>2, <1>4, <1>4a
  <2>2. RefListed(a, r)
    BY <2>1 DEF IInv, RefsListed
  <2> QED BY <1>1, <1>4, <1>4a, <2>1, <2>2, AccessFields DEF IInv, RefListed, IsFull
<1> QED BY <1>5, <1>6, <1>7, <1>8, <1>9 DEF IInv

\* Getting a reference keeps the invariant and the items, and adds the
\* reference to those of the access.
LEMMA GetInvariant ==
    ASSUME IInv, NEW a \in Usable, NEW i \in Handle, Get(a, i), UNCHANGED nested
    PROVE  /\ IInv'
           /\ Items' = Items /\ i \in DOMAIN Items
           /\ DOMAIN accesses' = DOMAIN accesses
           /\ \A b \in DOMAIN accesses : b # a => accesses'[b].refs = accesses[b].refs
           /\ accesses'[a].refs = accesses[a].refs \cup {[index |-> i, item |-> elems[i].item]}
<1> DEFINE ref == [index |-> i, item |-> elems[i].item]
           R == [start : Nat, access_idx : Nat \ {0}, refs : SUBSET [index : Nat, item : Item]]
<1>1. /\ IsFull(i) /\ i \in DOMAIN elems /\ i \in Nat
      /\ active_borrows' = Append(active_borrows, i)
      /\ UNCHANGED <<next, access_idx, nested>>
  BY TableAssumption DEF Get, IsFull, Handle
<1>2. /\ accesses \in Seq(R) /\ a \in DOMAIN accesses /\ active_borrows \in Seq(Nat)
      /\ elems \in [DOMAIN elems -> Slot]
  BY DEF IInv, Types, Usable
<1>3. elems[i].item \in Item /\ elems[i].uses \in Nat /\ elems[i] = Full(elems[i].item, elems[i].uses)
  BY <1>1, SlotFields DEF IInv
<1>4. /\ DOMAIN elems' = DOMAIN elems
      /\ elems'[i] = Full(elems[i].item, elems[i].uses + 1)
      /\ \A j \in DOMAIN elems : j # i => elems'[j] = elems[j]
      /\ elems' \in [DOMAIN elems -> Slot]
  <2>1. elems' = [elems EXCEPT ![i] = [elems[i] EXCEPT !.uses = elems[i].uses + 1]]
    BY DEF Get
  <2>2. [elems[i] EXCEPT !.uses = @ + 1] = Full(elems[i].item, elems[i].uses + 1)
    <3> DEFINE e == elems[i]
    <3>1. e = [tag |-> "Full", item |-> e.item, uses |-> e.uses]
      BY <1>3 DEF Full
    <3> HIDE DEF e
    <3>2. [e EXCEPT !.uses = @ + 1] = [tag |-> "Full", item |-> e.item, uses |-> e.uses + 1]
      BY <3>1
    <3> QED BY <3>2 DEF Full, e
  <2>3. elems' = [elems EXCEPT ![i] = Full(elems[i].item, elems[i].uses + 1)]
    BY <2>1, <2>2, Zenon
  <2>4. Full(elems[i].item, elems[i].uses + 1) \in Slot
    BY <1>3 DEF Full, Slot
  <2> QED BY <2>3, <2>4, <1>1, <1>2
<1>5. /\ active_borrows' \in Seq(Nat) /\ Len(active_borrows') = Len(active_borrows) + 1
      /\ \A k \in DOMAIN active_borrows : active_borrows'[k] = active_borrows[k]
      /\ active_borrows'[Len(active_borrows) + 1] = i
      /\ DOMAIN active_borrows' = 1..(Len(active_borrows) + 1)
  BY <1>1, <1>2, AppendProperties
<1>6. /\ accesses' \in Seq(R) /\ DOMAIN accesses' = DOMAIN accesses /\ Len(accesses') = Len(accesses)
      /\ \A b \in DOMAIN accesses :
            /\ accesses'[b].start = accesses[b].start
            /\ accesses'[b].access_idx = accesses[b].access_idx
            /\ b # a => accesses'[b] = accesses[b]
      /\ accesses'[a].refs = accesses[a].refs \cup {ref}
  <2> DEFINE acc == accesses[a]
             new == [start |-> acc.start, access_idx |-> acc.access_idx, refs |-> acc.refs \cup {ref}]
  <2>1. acc \in R
    <3> HIDE DEF R
    <3> QED BY <1>2
  <2>2. new \in R
    BY <2>1, <1>1, <1>3
  <2>3. [acc EXCEPT !.refs = acc.refs \cup {ref}] = new
    <3> HIDE DEF acc
    <3> QED BY <2>1
  <2>4. accesses' = [accesses EXCEPT ![a] = [accesses[a] EXCEPT !.refs = accesses[a].refs \cup {ref}]]
    BY DEF Get
  <2>5. accesses' = [accesses EXCEPT ![a] = new]
    BY <2>3, <2>4, Zenon
  <2> HIDE DEF R, acc
  <2> QED BY <1>2, <2>2, <2>5, ExceptSeq DEF acc
<1>7. \A j : (IsFull(j)' <=> IsFull(j)) /\ (IsEmpty(j)' <=> IsEmpty(j))
  BY <1>1, <1>3, <1>4 DEF IsFull, IsEmpty, Full
<1>8. \A j \in DOMAIN elems : elems'[j].item = elems[j].item
  BY <1>3, <1>4 DEF Full
<1>9. Types'
  BY <1>1, <1>4, <1>5, <1>6 DEF IInv, Types, elemsLen
<1>10. FreePath'
  <2>1. \A j \in DOMAIN elems : IsEmpty(j) => elems'[j].next_empty = elems[j].next_empty
    BY <1>1, <1>4 DEF IsFull, IsEmpty
  <2> QED BY <1>1, <1>4, <1>7, <2>1, FreePathKept DEF IInv
<1>11. UsesCounted'
  <2>1. \A k \in DOMAIN active_borrows' : IsFull(active_borrows[k])'
    BY <1>1, <1>2, <1>5, <1>7 DEF IInv, UsesCounted
  <2>2. ASSUME NEW j \in DOMAIN elems', IsFull(j)'
        PROVE  elems'[j].uses = Occurrences(active_borrows, j)'
    <3>1. Occurrences(active_borrows', j) = Occurrences(active_borrows, j) + IF i = j THEN 1 ELSE 0
      <4>1. active_borrows \in Seq(Nat) /\ i \in Nat
        BY <1>1, <1>2
      <4>2. Occurrences(Append(active_borrows, i), j)
              = Occurrences(active_borrows, j) + IF i = j THEN 1 ELSE 0
        BY <4>1, OccurrencesAppend
      <4> QED BY <4>2, <1>1
    <3>2. elems[j].uses = Occurrences(active_borrows, j)
      BY <1>4, <1>7, <2>2 DEF IInv, UsesCounted
    <3>3. elems'[j].uses = elems[j].uses + IF i = j THEN 1 ELSE 0
      <4>1. CASE i = j
        BY <4>1, <1>4 DEF Full
      <4>2. CASE i # j
        <5>1. elems[j].uses \in Nat
          BY <1>4, <1>7, <2>2, SlotFields DEF IInv
        <5> QED BY <4>2, <5>1, <1>4
      <4> QED BY <4>1, <4>2
    <3> QED BY <3>1, <3>2, <3>3
  <2> QED BY <2>1, <2>2 DEF UsesCounted
<1>11a. accesses'[a].refs = accesses[a].refs \cup {ref} /\ ref.index = i
  BY <1>6
<1> HIDE DEF R
<1>12. AccessesStacked' /\ IndicesArePlaces'
  <2>1. \A b \in DOMAIN accesses :
           accesses[b].start <= Len(active_borrows') /\ accesses[b].access_idx <= access_idx
    BY <1>5, AccessFields DEF IInv, AccessesStacked
  <2>2. AccessesStacked'
    BY <2>1, <1>1, <1>6 DEF IInv, AccessesStacked
  <2>3. IndicesArePlaces'
    BY <1>1, <1>6 DEF IInv, IndicesArePlaces
  <2> QED BY <2>2, <2>3
<1>13. RefsInside'
  <2> SUFFICES ASSUME NEW b \in DOMAIN accesses, NEW r \in accesses'[b].refs
               PROVE  r.index \in DOMAIN elems
    BY <1>4, <1>6 DEF RefsInside
  <2>1. r \in accesses[b].refs \/ r = ref
    BY <1>6
  <2> QED BY <2>1, <1>1 DEF IInv, RefsInside
<1>14. RefsListed'
  <2> SUFFICES ASSUME nested, NEW b \in DOMAIN accesses', NEW r \in accesses'[b].refs
               PROVE  RefListed(b, r)'
    BY <1>1 DEF RefsListed
  <2>1. CASE b = a /\ r = ref
    <3>1. a = Len(accesses)
      BY DEF Usable
    <3>2. \A c \in DOMAIN accesses' : ~(a < c)
      BY <3>1, <1>2, <1>6
    <3>3. IsFull(r.index)' /\ elems'[r.index].item = r.item
      BY <2>1, <1>1, <1>7, <1>8
    <3>4. Len(active_borrows) + 1 \in DOMAIN active_borrows'
      BY <1>2, <1>5
    <3>5. active_borrows'[Len(active_borrows) + 1] = r.index
      BY <2>1, <1>5
    <3> QED BY <2>1, <3>2, <3>3, <3>4, <3>5 DEF RefListed
  <2>2. CASE r \in accesses[b].refs
    <3>1. RefListed(b, r)
      BY <2>2, <1>6 DEF IInv, RefsListed
    <3>2. IsFull(r.index)' /\ elems'[r.index].item = r.item
      BY <3>1, <1>7, <1>8 DEF RefListed, IsFull
    <3>3. PICK k \in DOMAIN active_borrows :
             /\ active_borrows[k] = r.index
             /\ \A c \in DOMAIN accesses : b < c => k <= accesses[c].start
      BY <3>1 DEF RefListed
    <3>4. k \in DOMAIN active_borrows' /\ active_borrows'[k] = r.index
      BY <3>3, <1>5, AccessFields DEF IInv
    <3> QED BY <3>2, <3>3, <3>4, <1>6 DEF RefListed
  <2>3. r \in accesses[b].refs \/ (b = a /\ r = ref)
    BY <1>6
  <2> QED BY <2>1, <2>2, <2>3
<1>15. Items' = Items /\ i \in DOMAIN Items
  BY <1>1, <1>4, <1>7, <1>8 DEF Items
<1> QED BY <1>6, <1>9, <1>10, <1>11, <1>12, <1>13, <1>14, <1>15 DEF IInv

\* A step that only changes slots no access has a use of keeps what the
\* invariant says of the accesses.
LEMMA AccessesKept ==
    ASSUME IInv, UNCHANGED <<active_borrows, access_idx, accesses, nested>>,
           DOMAIN elems \subseteq DOMAIN elems',
           \A j \in DOMAIN elems : IsFull(j) => elems[j].uses = 0 \/ elems'[j] = elems[j],
           \A j \in DOMAIN elems' :
               IsFull(j)' => \/ IsFull(j) /\ elems'[j] = elems[j]
                             \/ elems'[j].uses = 0 /\ (IsFull(j) => elems[j].uses = 0)
    PROVE  UsesCounted' /\ AccessesStacked' /\ RefsInside' /\ IndicesArePlaces' /\ RefsListed'
<1>1. ASSUME NEW k \in DOMAIN active_borrows
      PROVE  /\ IsFull(active_borrows[k])
             /\ elems'[active_borrows[k]] = elems[active_borrows[k]]
             /\ IsFull(active_borrows[k])'
  <2> DEFINE j == active_borrows[k]
  <2>1. IsFull(j) /\ j \in DOMAIN elems /\ elems[j].uses = Occurrences(active_borrows, j)
    BY DEF IInv, UsesCounted, IsFull
  <2>2. active_borrows \in Seq(Nat)
    BY DEF IInv, Types
  <2>3. Occurrences(active_borrows, j) # 0
    BY <2>2, PositionsFinite
  <2>4. elems'[j] = elems[j]
    BY <2>1, <2>3
  <2> QED BY <2>1, <2>4 DEF IsFull
<1>2. UsesCounted'
  <2>1. \A k \in DOMAIN active_borrows' : IsFull(active_borrows[k])'
    BY <1>1
  <2>2. ASSUME NEW j \in DOMAIN elems', IsFull(j)'
        PROVE  elems'[j].uses = Occurrences(active_borrows, j)
    <3>1. CASE IsFull(j) /\ elems'[j] = elems[j]
      BY <3>1 DEF IInv, UsesCounted, IsFull
    <3>2. CASE elems'[j].uses = 0 /\ (IsFull(j) => elems[j].uses = 0)
      <4>1. \A k \in DOMAIN active_borrows : active_borrows[k] # j
        <5> SUFFICES ASSUME NEW k \in DOMAIN active_borrows, active_borrows[k] = j PROVE FALSE
          OBVIOUS
        <5>1. IsFull(j) /\ elems[j].uses = 0 /\ j \in DOMAIN elems
          BY <1>1, <3>2 DEF IsFull
        <5>2. Occurrences(active_borrows, j) = 0
          BY <5>1 DEF IInv, UsesCounted
        <5>3. active_borrows \in Seq(Nat)
          BY DEF IInv, Types
        <5> QED BY <5>2, <5>3, PositionsFinite
      <4>2. active_borrows \in Seq(Nat)
        BY DEF IInv, Types
      <4>3. Occurrences(active_borrows, j) = 0
        BY <4>1, <4>2, PositionsFinite
      <4> QED BY <3>2, <4>3
    <3> QED BY <2>2, <3>1, <3>2
  <2> QED BY <2>1, <2>2 DEF UsesCounted, Occurrences
<1>3. AccessesStacked' /\ IndicesArePlaces'
  BY DEF IInv, AccessesStacked, IndicesArePlaces
<1>4. RefsInside'
  BY DEF IInv, RefsInside
<1>5. RefsListed'
  <2> SUFFICES ASSUME nested, NEW a \in DOMAIN accesses, NEW r \in accesses[a].refs
               PROVE  RefListed(a, r)'
    BY DEF RefsListed
  <2>1. RefListed(a, r)
    BY DEF IInv, RefsListed
  <2>2. PICK k \in DOMAIN active_borrows :
           /\ active_borrows[k] = r.index
           /\ \A b \in DOMAIN accesses : a < b => k <= accesses[b].start
    BY <2>1 DEF RefListed
  <2>3. IsFull(r.index)' /\ elems'[r.index].item = r.item
    BY <1>1, <2>1, <2>2 DEF RefListed
  <2> QED BY <2>2, <2>3 DEF RefListed
<1> QED BY <1>2, <1>3, <1>4, <1>5

\* The vector insert works on: as it is, or with one more slot.
LEMMA GrownVector ==
    ASSUME Types
    PROVE  /\ next # elemsLen => Grown = elems
           /\ next = elemsLen => /\ Grown \in [0..elemsLen -> Slot]
                                 /\ Grown[elemsLen] = Empty(next + 1)
                                 /\ \A j \in DOMAIN elems : Grown[j] = elems[j]
                                 /\ Cardinality(0..elemsLen) = elemsLen + 1
                                 /\ elemsLen \notin DOMAIN elems
<1>1. Cardinality(0..elemsLen) = elemsLen + 1
  <2>1. elemsLen + 1 \in Nat /\ (elemsLen + 1) - 1 = elemsLen
    BY DEF Types
  <2> QED BY <2>1, LengthOfVector
<1>2. Empty(next + 1) \in Slot
  BY DEF Types, Empty, Slot
<1> QED BY <1>1, <1>2 DEF Types, Grown

\* With an empty free list every slot is full; otherwise the list begins with
\* an empty slot.
LEMMA HeadOfFreeList ==
    ASSUME IInv
    PROVE  /\ next = elemsLen => \A j : ~IsEmpty(j)
           /\ next # elemsLen => IsEmpty(next)
<1>0. PICK m \in Nat : \E p \in [0..m -> Nat] : IsFreePath(p, m)
  BY DEF IInv, FreePath
<1>1. PICK p \in [0..m -> Nat] : IsFreePath(p, m)
  BY <1>0
<1>2. CASE m = 0
  <2>1. next = elemsLen
    BY <1>1, <1>2 DEF IsFreePath
  <2>2. EmptySlots = {}
    BY <1>1, <1>2 DEF IsFreePath
  <2> QED BY <2>1, <2>2 DEF EmptySlots, IsEmpty
<1>3. CASE m # 0
  <2>1. next = p[0] /\ elemsLen = p[m] /\ 0 \in 0..(m - 1) /\ m \in 0..m /\ 0 \in 0..m
    BY <1>1, <1>3 DEF IsFreePath
  <2>2. next # elemsLen /\ IsEmpty(next)
    BY <2>1, <1>1, <1>3 DEF IsFreePath
  <2> QED BY <2>2
<1> QED BY <1>2, <1>3

\* insert keeps the invariant.
LEMMA InsertInvariant ==
    ASSUME IInv, NEW item \in Item, Insert(item), UNCHANGED nested
    PROVE  IInv'
<1>1. /\ elems' = [Grown EXCEPT ![next] = Full(item, 0)] /\ next' = Grown[next].next_empty
      /\ UNCHANGED <<active_borrows, access_idx, accesses, nested>>
  BY DEF Insert
<1>2. Types
  BY DEF IInv
<1>3. Full(item, 0) \in Slot /\ Full(item, 0).tag = "Full" /\ Full(item, 0).uses = 0
  BY DEF Full, Slot
<1>4. CASE next = elemsLen
  <2>1. /\ Grown \in [0..elemsLen -> Slot] /\ Grown[elemsLen] = Empty(next + 1)
        /\ \A j \in DOMAIN elems : Grown[j] = elems[j]
        /\ Cardinality(0..elemsLen) = elemsLen + 1 /\ elemsLen \notin DOMAIN elems
    BY <1>2, <1>4, GrownVector
  <2>2. /\ elems' \in [0..elemsLen -> Slot] /\ elems'[next] = Full(item, 0)
        /\ \A j \in DOMAIN elems : elems'[j] = elems[j]
        /\ DOMAIN elems' = DOMAIN elems \cup {next} /\ DOMAIN elems' = 0..elemsLen
        /\ next' = next + 1
    <3>1. DOMAIN Grown = 0..elemsLen /\ next \in 0..elemsLen
      BY <1>2, <1>4, <2>1 DEF Types
    <3>2. next' = next + 1
      BY <1>1, <1>4, <2>1 DEF Empty
    <3>3. DOMAIN elems \cup {next} = 0..elemsLen
      BY <1>2, <1>4 DEF Types
    <3> QED BY <1>1, <1>3, <1>4, <2>1, <3>1, <3>2, <3>3
  <2>3. elemsLen' = elemsLen + 1
    BY <2>1, <2>2 DEF elemsLen
  <2>4. Types'
    BY <1>1, <1>2, <1>4, <2>2, <2>3 DEF Types
  <2>5. \A j : ~IsEmpty(j)'
    <3>1. \A j : ~IsEmpty(j)
      BY <1>4, HeadOfFreeList
    <3> QED BY <3>1, <2>2, <1>3 DEF IsEmpty
  <2>6. FreePath'
    <3>0. PICK n \in Nat : n = next'
      BY <2>4 DEF Types
    <3> DEFINE p == [k \in 0..0 |-> n]
    <3>1. p \in [0..0 -> Nat]
      OBVIOUS
    <3>2. EmptySlots' = {}
      BY <2>5 DEF EmptySlots
    <3>3. IsFreePath(p, 0)'
      BY <3>0, <3>2, <2>2, <2>3, <1>4 DEF IsFreePath
    <3> QED BY <3>1, <3>3 DEF FreePath
  <2>7. \A j \in DOMAIN elems' :
           IsFull(j)' => \/ IsFull(j) /\ elems'[j] = elems[j]
                         \/ elems'[j].uses = 0 /\ (IsFull(j) => elems[j].uses = 0)
    BY <2>1, <2>2, <1>3, <1>4 DEF IsFull
  <2>8. UsesCounted' /\ AccessesStacked' /\ RefsInside' /\ IndicesArePlaces' /\ RefsListed'
    BY <1>1, <2>2, <2>7, AccessesKept
  <2> QED BY <2>4, <2>6, <2>8 DEF IInv
<1>5. CASE next # elemsLen
  <2>1. IsEmpty(next) /\ next \in DOMAIN elems /\ ~IsFull(next)
    BY <1>5, HeadOfFreeList DEF IsEmpty, IsFull
  <2>2. /\ elems' = [elems EXCEPT ![next] = Full(item, 0)] /\ next' = elems[next].next_empty
        /\ next' \in Nat
    BY <1>1, <1>2, <1>5, <2>1, GrownVector, SlotFields
  <2>3. /\ elems' \in [DOMAIN elems -> Slot] /\ DOMAIN elems' = DOMAIN elems
        /\ elems'[next] = Full(item, 0)
        /\ \A j \in DOMAIN elems : j # next => elems'[j] = elems[j]
    BY <1>2, <1>3, <2>1, <2>2 DEF Types
  <2>4. Types'
    BY <1>1, <1>2, <2>2, <2>3 DEF Types, elemsLen
  <2>5. FreePath'
    <3>0. PICK m \in Nat : \E p \in [0..m -> Nat] : IsFreePath(p, m)
      BY DEF IInv, FreePath
    <3>1. PICK p \in [0..m -> Nat] : IsFreePath(p, m)
      BY <3>0
    <3>2. m # 0 /\ m - 1 \in Nat
      BY <3>1, <1>5 DEF IsFreePath
    <3> DEFINE q == [k \in 0..(m - 1) |-> p[k + 1]]
    <3>3. q \in [0..(m - 1) -> Nat]
      BY <3>1
    <3>4. q[0] = next' /\ q[m - 1] = elemsLen'
      <4>1. q[0] = p[1] /\ q[m - 1] = p[m] /\ 0 \in 0..(m - 1)
        BY <3>2
      <4>2. p[1] = elems[p[0]].next_empty /\ p[0] = next /\ p[m] = elemsLen
        BY <4>1, <3>1 DEF IsFreePath
      <4>3. elemsLen' = elemsLen
        BY <2>3 DEF elemsLen
      <4> QED BY <4>1, <4>2, <4>3, <2>2
    <3>5. ASSUME NEW k \in 0..((m - 1) - 1)
          PROVE  IsEmpty(q[k])' /\ elems'[q[k]].next_empty = q[k + 1]
      <4>1. /\ q[k] = p[k + 1] /\ q[k + 1] = p[(k + 1) + 1] /\ k + 1 \in 0..(m - 1)
            /\ 0 \in 0..m /\ k + 1 \in 0..m /\ k + 1 # 0
        BY <3>2
      <4>2. IsEmpty(p[k + 1]) /\ elems[p[k + 1]].next_empty = p[(k + 1) + 1]
        BY <4>1, <3>1 DEF IsFreePath
      <4>3. p[k + 1] # next
        BY <4>1, <3>1 DEF IsFreePath
      <4> QED BY <4>1, <4>2, <4>3, <2>3 DEF IsEmpty
    <3>6. ASSUME NEW j \in 0..(m - 1), NEW k \in 0..(m - 1), q[j] = q[k] PROVE j = k
      <4>1. j + 1 \in 0..m /\ k + 1 \in 0..m /\ p[j + 1] = p[k + 1]
        BY <3>2, <3>6
      <4>2. j + 1 = k + 1
        BY <4>1, <3>1 DEF IsFreePath
      <4> QED BY <4>2
    <3>7. ASSUME NEW i \in EmptySlots' PROVE \E k \in 0..((m - 1) - 1) : q[k] = i
      <4>1. i \in EmptySlots /\ i # next
        BY <2>3, <1>3 DEF EmptySlots, IsEmpty
      <4>2. PICK k \in 0..(m - 1) : p[k] = i
        BY <4>1, <3>1 DEF IsFreePath
      <4>3. k # 0
        BY <4>1, <4>2, <3>1 DEF IsFreePath
      <4>4. k - 1 \in 0..((m - 1) - 1) /\ q[k - 1] = p[k]
        BY <4>3, <3>2
      <4> QED BY <4>2, <4>4
    <3> HIDE DEF q
    <3>8. IsFreePath(q, m - 1)'
      BY <3>4, <3>5, <3>6, <3>7 DEF IsFreePath
    <3> QED BY <3>2, <3>3, <3>8 DEF FreePath
  <2>6. \A j \in DOMAIN elems : IsFull(j) => elems[j].uses = 0 \/ elems'[j] = elems[j]
    BY <2>1, <2>3
  <2>7. \A j \in DOMAIN elems' :
           IsFull(j)' => \/ IsFull(j) /\ elems'[j] = elems[j]
                         \/ elems'[j].uses = 0 /\ (IsFull(j) => elems[j].uses = 0)
    BY <2>1, <2>3, <1>3 DEF IsFull
  <2>8. UsesCounted' /\ AccessesStacked' /\ RefsInside' /\ IndicesArePlaces' /\ RefsListed'
    BY <1>1, <2>3, <2>6, <2>7, AccessesKept
  <2> QED BY <2>4, <2>5, <2>8 DEF IInv
<1> QED BY <1>4, <1>5

\* So does insert when it panics: the slot it added, if any, is the new end of
\* the free list.
LEMMA InsertPanicsInvariant ==
    ASSUME IInv, NEW item \in Item, InsertPanics(item), UNCHANGED nested
    PROVE  IInv'
<1>1. elems' = Grown /\ UNCHANGED <<next, active_borrows, access_idx, accesses, nested>>
  BY DEF InsertPanics
<1>2. Types
  BY DEF IInv
<1>3. CASE next # elemsLen
  <2>1. elems' = elems
    BY <1>1, <1>2, <1>3, GrownVector
  <2>2. FreePath'
    BY <1>1, <2>1, FreePathKept DEF IInv, IsEmpty
  <2>3. Types'
    BY <1>1, <1>2, <2>1 DEF Types, elemsLen
  <2>4. UsesCounted' /\ AccessesStacked' /\ RefsInside' /\ IndicesArePlaces' /\ RefsListed'
    BY <1>1, <2>1, AccessesKept DEF IsFull
  <2> QED BY <2>2, <2>3, <2>4 DEF IInv
<1>4. CASE next = elemsLen
  <2>1. /\ elems' \in [0..elemsLen -> Slot] /\ elems'[next] = Empty(next + 1)
        /\ \A j \in DOMAIN elems : elems'[j] = elems[j]
        /\ Cardinality(0..elemsLen) = elemsLen + 1 /\ next \notin DOMAIN elems
    BY <1>1, <1>2, <1>4, GrownVector
  <2>2. DOMAIN elems' = 0..elemsLen /\ DOMAIN elems' = DOMAIN elems \cup {next}
    BY <2>1, <1>2, <1>4 DEF Types
  <2>3. elemsLen' = elemsLen + 1
    BY <2>1, <2>2 DEF elemsLen
  <2>4. Types'
    BY <1>1, <1>2, <2>1, <2>2, <2>3 DEF Types
  <2>5. FreePath'
    <3>1. PICK n \in Nat : n = elemsLen
      BY <1>2 DEF Types
    <3> DEFINE q == [k \in 0..1 |-> n + k]
    <3>2. q \in [0..1 -> Nat] /\ q[0] = n /\ q[1] = n + 1
      OBVIOUS
    <3> HIDE DEF q
    <3>3. q[0] = next' /\ q[1] = elemsLen' /\ q[0] = next /\ q[1] = q[0] + 1
      BY <3>1, <3>2, <1>1, <1>4, <2>3
    <3>4. IsEmpty(q[0])' /\ elems'[q[0]].next_empty = q[1]
      BY <3>2, <3>3, <1>4, <2>1, <2>2 DEF IsEmpty, Empty
    <3>5. EmptySlots' = {q[0]}
      <4>1. \A j : ~IsEmpty(j)
        BY <1>4, HeadOfFreeList
      <4>2. \A j \in DOMAIN elems' : IsEmpty(j)' => j = next
        BY <4>1, <2>1, <2>2 DEF IsEmpty
      <4> QED BY <4>2, <3>3, <3>4, <1>1 DEF EmptySlots, IsEmpty
    <3>6. IsFreePath(q, 1)'
      BY <3>2, <3>3, <3>4, <3>5 DEF IsFreePath
    <3> QED BY <3>2, <3>6 DEF FreePath
  <2>6. \A j \in DOMAIN elems' : IsFull(j)' => IsFull(j) /\ elems'[j] = elems[j]
    <3>1. elems'[next].tag # "Full"
      BY <2>1 DEF Empty
    <3> QED BY <3>1, <2>1, <2>2 DEF IsFull
  <2>7. UsesCounted' /\ AccessesStacked' /\ RefsInside' /\ IndicesArePlaces' /\ RefsListed'
    BY <1>1, <2>1, <2>2, <2>6, AccessesKept
  <2> QED BY <2>4, <2>5, <2>7 DEF IInv
<1> QED BY <1>3, <1>4

\* remove keeps the invariant: the slot becomes the head of the free list, and
\* no access has a use of it.
LEMMA RemoveInvariant ==
    ASSUME IInv, NEW i \in Handle, Remove(i), UNCHANGED nested
    PROVE  IInv'
<1>1. /\ IsFull(i) /\ elems[i].uses = 0 /\ i \in DOMAIN elems /\ i \in Nat /\ ~IsEmpty(i)
      /\ elems' = [elems EXCEPT ![i] = Empty(next)] /\ next' = i
      /\ UNCHANGED <<active_borrows, access_idx, accesses, nested>>
  BY TableAssumption DEF Remove, IsFull, IsEmpty, Handle
<1>2. Types
  BY DEF IInv
<1>3. Empty(next) \in Slot /\ Empty(next).tag = "Empty" /\ Empty(next).next_empty = next
  BY <1>2 DEF Empty, Slot, Types
<1>4. /\ elems' \in [DOMAIN elems -> Slot] /\ DOMAIN elems' = DOMAIN elems
      /\ elems'[i] = Empty(next)
      /\ \A j \in DOMAIN elems : j # i => elems'[j] = elems[j]
  BY <1>1, <1>2, <1>3 DEF Types
<1>5. Types'
  BY <1>1, <1>2, <1>4 DEF Types, elemsLen
<1>6. FreePath'
  <2>0. PICK m \in Nat : \E p \in [0..m -> Nat] : IsFreePath(p, m)
    BY DEF IInv, FreePath
  <2>1. PICK p \in [0..m -> Nat] : IsFreePath(p, m)
    BY <2>0
  <2> DEFINE q == [k \in 0..(m + 1) |-> IF k = 0 THEN i ELSE p[k - 1]]
  <2>2. q \in [0..(m + 1) -> Nat]
    BY <1>1
  <2>3. q[0] = i /\ \A k \in 1..(m + 1) : q[k] = p[k - 1]
    OBVIOUS
  <2>4. \A k \in 0..m : p[k] # i
    <3>1. \A k \in 0..(m - 1) : IsEmpty(p[k])
      BY <2>1 DEF IsFreePath
    <3>2. p[m] \notin DOMAIN elems
      BY <2>1, <1>2 DEF IsFreePath, Types
    <3> QED BY <3>1, <3>2, <1>1
  <2> HIDE DEF q
  <2>5. q[0] = next' /\ q[m + 1] = elemsLen'
    <3>1. elemsLen' = elemsLen
      BY <1>4 DEF elemsLen
    <3> QED BY <3>1, <2>1, <2>3, <1>1 DEF IsFreePath
  <2>6. ASSUME NEW k \in 0..m PROVE IsEmpty(q[k])' /\ elems'[q[k]].next_empty = q[k + 1]
    <3>1. CASE k = 0
      BY <3>1, <2>1, <2>3, <1>1, <1>3, <1>4 DEF IsFreePath, IsEmpty
    <3>2. CASE k # 0
      <4>1. k - 1 \in 0..(m - 1) /\ q[k] = p[k - 1] /\ q[k + 1] = p[(k - 1) + 1] /\ k - 1 \in 0..m
        BY <3>2, <2>3
      <4>2. IsEmpty(p[k - 1]) /\ elems[p[k - 1]].next_empty = p[(k - 1) + 1] /\ p[k - 1] # i
        BY <4>1, <2>1, <2>4 DEF IsFreePath
      <4> QED BY <4>1, <4>2, <1>4 DEF IsEmpty
    <3> QED BY <3>1, <3>2
  <2>7. ASSUME NEW j \in 0..(m + 1), NEW k \in 0..(m + 1), q[j] = q[k] PROVE j = k
    <3>1. CASE j = 0 \/ k = 0
      BY <3>1, <2>3, <2>4, <2>7
    <3>2. CASE j # 0 /\ k # 0
      <4>1. j - 1 \in 0..m /\ k - 1 \in 0..m /\ p[j - 1] = p[k - 1]
        BY <3>2, <2>3, <2>7
      <4>2. j - 1 = k - 1
        BY <4>1, <2>1 DEF IsFreePath
      <4> QED BY <4>2
    <3> QED BY <3>1, <3>2
  <2>8. ASSUME NEW e \in EmptySlots' PROVE \E k \in 0..m : q[k] = e
    <3>1. CASE e = i
      BY <3>1, <2>3
    <3>2. CASE e # i
      <4>1. e \in EmptySlots
        BY <3>2, <1>4 DEF EmptySlots, IsEmpty
      <4>2. PICK k \in 0..(m - 1) : p[k] = e
        BY <4>1, <2>1 DEF IsFreePath
      <4>3. k + 1 \in 0..m /\ q[k + 1] = p[k]
        BY <2>3
      <4> QED BY <4>2, <4>3
    <3> QED BY <3>1, <3>2
  <2>9. (m + 1) - 1 = m /\ m + 1 \in Nat
    OBVIOUS
  <2>10. IsFreePath(q, m + 1)'
    BY <2>5, <2>6, <2>7, <2>8, <2>9 DEF IsFreePath
  <2> QED BY <2>2, <2>9, <2>10 DEF FreePath
<1>7. \A j \in DOMAIN elems : IsFull(j) => elems[j].uses = 0 \/ elems'[j] = elems[j]
  BY <1>1, <1>4
<1>8. \A j \in DOMAIN elems' : IsFull(j)' => IsFull(j) /\ elems'[j] = elems[j]
  BY <1>3, <1>4 DEF IsFull
<1>9. UsesCounted' /\ AccessesStacked' /\ RefsInside' /\ IndicesArePlaces' /\ RefsListed'
  BY <1>1, <1>4, <1>7, <1>8, AccessesKept
<1> QED BY <1>5, <1>6, <1>9 DEF IInv

\* The accesses without the a-th, in their order.
LEMMA GoneSequence ==
    ASSUME Types, NEW a \in DOMAIN accesses
    PROVE  /\ Gone(a) \in Seq([start : Nat, access_idx : Nat \ {0},
                               refs : SUBSET [index : Nat, item : Item]])
           /\ Len(Gone(a)) = Len(accesses) - 1 /\ DOMAIN Gone(a) = 1..(Len(accesses) - 1)
           /\ \A k \in DOMAIN Gone(a) :
                 /\ k < a => k \in DOMAIN accesses /\ Gone(a)[k] = accesses[k]
                 /\ ~(k < a) => k + 1 \in DOMAIN accesses /\ Gone(a)[k] = accesses[k + 1]
<1> DEFINE R == [start : Nat, access_idx : Nat \ {0}, refs : SUBSET [index : Nat, item : Item]]
<1>1. accesses \in Seq(R)
  BY DEF Types
<1> HIDE DEF R
<1>2. /\ DOMAIN accesses = 1..Len(accesses) /\ Len(accesses) \in Nat /\ a \in 1..Len(accesses)
      /\ \A k \in 1..Len(accesses) : accesses[k] \in R
  BY <1>1
<1>3. Len(accesses) - 1 \in Nat
  BY <1>2
<1>4. \A k \in 1..(Len(accesses) - 1) :
         /\ k \in 1..Len(accesses) /\ k + 1 \in 1..Len(accesses)
         /\ Gone(a)[k] = accesses[IF k < a THEN k ELSE k + 1]
  BY <1>2, <1>3 DEF Gone
<1>5. Gone(a) \in [1..(Len(accesses) - 1) -> R]
  BY <1>2, <1>4 DEF Gone
<1>6. Gone(a) \in Seq(R) /\ Len(Gone(a)) = Len(accesses) - 1
  BY <1>3, <1>5
<1> QED BY <1>2, <1>4, <1>5, <1>6 DEF R

\* Giving back what was counted: the full slots keep their items.
LEMMA ReturnedSlots ==
    ASSUME Types, NEW d \in Seq(Nat),
           \A j \in DOMAIN elems :
              /\ IsEmpty(j) => Occurrences(d, j) = 0
              /\ IsFull(j) => Occurrences(d, j) <= elems[j].uses
    PROVE  /\ Returned(d) \in [DOMAIN elems -> Slot]
           /\ \A j \in DOMAIN elems :
                 /\ IsEmpty(j) => Returned(d)[j] = elems[j]
                 /\ IsFull(j) => Returned(d)[j] = Full(elems[j].item, elems[j].uses - Occurrences(d, j))
<1>1. ASSUME NEW j \in DOMAIN elems
      PROVE  /\ Returned(d)[j] \in Slot
             /\ IsEmpty(j) => Returned(d)[j] = elems[j]
             /\ IsFull(j) => Returned(d)[j] = Full(elems[j].item, elems[j].uses - Occurrences(d, j))
  <2>1. Occurrences(d, j) \in Nat
    BY PositionsFinite
  <2>2. Returned(d)[j] = IF Occurrences(d, j) = 0 THEN elems[j]
                         ELSE [elems[j] EXCEPT !.uses = elems[j].uses - Occurrences(d, j)]
    BY DEF Returned
  <2>3. CASE IsEmpty(j)
    <3>1. ~IsFull(j) /\ elems[j] \in Slot
      BY <2>3 DEF IsEmpty, IsFull, Types
    <3> QED BY <3>1, <2>2, <2>3
  <2>4. CASE IsFull(j)
    <3> DEFINE e == elems[j]
               n == Occurrences(d, j)
    <3>1. /\ ~IsEmpty(j) /\ e = Full(e.item, e.uses) /\ e.item \in Item /\ e.uses \in Nat
          /\ n <= e.uses /\ n \in Nat
      BY <2>1, <2>4, SlotFields
    <3>2. [e EXCEPT !.uses = e.uses - n] = Full(e.item, e.uses - n)
      <4>1. e = [tag |-> "Full", item |-> e.item, uses |-> e.uses]
        BY <3>1 DEF Full
      <4> HIDE DEF e, n
      <4>2. [e EXCEPT !.uses = e.uses - n] = [tag |-> "Full", item |-> e.item, uses |-> e.uses - n]
        BY <4>1
      <4> QED BY <4>2 DEF Full
    <3>3. n = 0 => e = Full(e.item, e.uses - n)
      BY <3>1
    <3>4. Full(e.item, e.uses - n) \in Slot
      BY <3>1 DEF Full, Slot
    <3> HIDE DEF e, n
    <3>5. Returned(d)[j] = Full(e.item, e.uses - n)
      BY <2>2, <3>2, <3>3, Zenon DEF e, n
    <3> QED BY <3>1, <3>4, <3>5 DEF e, n
  <2>5. IsEmpty(j) \/ IsFull(j)
    BY SlotFields
  <2> QED BY <2>3, <2>4, <2>5
<1>2. Returned(d) = [j \in DOMAIN elems |-> Returned(d)[j]]
  BY DEF Returned
<1> QED BY <1>1, <1>2

\* The drop of an access keeps the invariant: only the last access can pass
\* the assertion, and what it gives back are the uses it was counted for.  The
\* items and the other accesses stay.
LEMMA DropInvariant ==
    ASSUME IInv, NEW a \in Usable, Drop(a), UNCHANGED nested
    PROVE  /\ IInv'
           /\ Items' = Items
           /\ DOMAIN accesses = 1..Len(accesses) /\ Len(accesses) \in Nat \ {0}
           /\ DOMAIN accesses' = 1..(Len(accesses) - 1)
           /\ \A b \in DOMAIN accesses' : accesses'[b] = accesses[b]
<1> DEFINE start == accesses[a].start
           front == SubSeq(active_borrows, 1, start)
           back == SubSeq(active_borrows, start + 1, Len(active_borrows))
           R == [start : Nat, access_idx : Nat \ {0}, refs : SUBSET [index : Nat, item : Item]]
<1>1. /\ access_idx = accesses[a].access_idx /\ access_idx' = access_idx - 1
      /\ active_borrows' = front /\ elems' = Returned(back) /\ accesses' = Gone(a)
      /\ next' = next /\ nested' = nested
  BY DEF Drop
<1>2. Types /\ a \in DOMAIN accesses /\ AccessesStacked
  BY DEF IInv, Usable
<1>3. a = Len(accesses)
  <2>1. \A b \in DOMAIN accesses : ~(a < b)
    <3>1. \A b \in DOMAIN accesses :
             /\ accesses[b].access_idx <= access_idx
             /\ a < b => accesses[a].access_idx < accesses[b].access_idx
      BY <1>2 DEF AccessesStacked
    <3> QED BY <3>1, <1>1, <1>2, AccessFields
  <2>2. DOMAIN accesses = 1..Len(accesses) /\ Len(accesses) \in Nat
    BY <1>2, AccessFields
  <2> QED BY <2>1, <2>2, <1>2
<1>4. active_borrows \in Seq(Nat) /\ start \in 0..Len(active_borrows)
  <2>1. active_borrows \in Seq(Nat)
    BY <1>2 DEF Types
  <2> QED BY <2>1, <1>2, AccessFields DEF AccessesStacked
<1>5. /\ accesses' \in Seq(R) /\ Len(accesses') = Len(accesses) - 1
      /\ DOMAIN accesses' = 1..(Len(accesses) - 1) /\ DOMAIN accesses = 1..Len(accesses)
      /\ Len(accesses) \in Nat
      /\ \A b \in DOMAIN accesses' : b \in DOMAIN accesses /\ b < a /\ accesses'[b] = accesses[b]
  <2> HIDE DEF R
  <2>1. DOMAIN accesses = 1..Len(accesses) /\ Len(accesses) \in Nat
    BY <1>2, AccessFields
  <2>2. \A b \in 1..(Len(accesses) - 1) : b < a
    BY <1>3, <2>1
  <2> QED BY <1>1, <1>2, <2>1, <2>2, GoneSequence DEF R
<1> HIDE DEF R
<1>6. /\ front \in Seq(Nat) /\ Len(front) = start /\ DOMAIN front = 1..start
      /\ \A k \in 1..start : front[k] = active_borrows[k] /\ k \in DOMAIN active_borrows
      /\ back \in Seq(Nat)
  <2> HIDE DEF start
  <2>1. front \in Seq(Nat) /\ Len(front) = start /\ \A k \in 1..start : front[k] = active_borrows[k]
    BY <1>4, SubSeqProperties
  <2>2. back \in Seq(Nat)
    BY <1>4, SubSeqProperties
  <2> QED BY <2>1, <2>2, <1>4
<1> HIDE DEF front, back
<1>7. ASSUME NEW j \in DOMAIN elems
      PROVE  /\ Occurrences(front, j) \in Nat /\ Occurrences(back, j) \in Nat
             /\ Occurrences(active_borrows, j) = Occurrences(front, j) + Occurrences(back, j)
             /\ IsEmpty(j) => Occurrences(back, j) = 0
             /\ IsFull(j) => elems[j].uses = Occurrences(front, j) + Occurrences(back, j)
  <2>1. Occurrences(front, j) \in Nat /\ Occurrences(back, j) \in Nat
    BY <1>6, PositionsFinite
  <2>2. Occurrences(active_borrows, j) = Occurrences(front, j) + Occurrences(back, j)
    <3> HIDE DEF start
    <3> QED BY <1>4, OccurrencesSplit DEF front, back
  <2>3. IsEmpty(j) => Occurrences(active_borrows, j) = 0
    <3>1. IsEmpty(j) => \A k \in DOMAIN active_borrows : active_borrows[k] # j
      BY DEF IInv, UsesCounted, IsEmpty, IsFull
    <3> QED BY <3>1, <1>4, PositionsFinite
  <2>4. IsFull(j) => elems[j].uses = Occurrences(active_borrows, j)
    BY DEF IInv, UsesCounted
  <2> QED BY <2>1, <2>2, <2>3, <2>4
<1>8. /\ elems' \in [DOMAIN elems -> Slot] /\ DOMAIN elems' = DOMAIN elems
      /\ \A j \in DOMAIN elems :
            /\ IsEmpty(j) => elems'[j] = elems[j]
            /\ IsFull(j) => elems'[j] = Full(elems[j].item, Occurrences(front, j))
  <2>1. /\ Returned(back) \in [DOMAIN elems -> Slot]
        /\ \A j \in DOMAIN elems :
              /\ IsEmpty(j) => Returned(back)[j] = elems[j]
              /\ IsFull(j) => Returned(back)[j]
                                = Full(elems[j].item, elems[j].uses - Occurrences(back, j))
    <3>1. \A j \in DOMAIN elems : /\ IsEmpty(j) => Occurrences(back, j) = 0
                                  /\ IsFull(j) => Occurrences(back, j) <= elems[j].uses
      BY <1>7
    <3> QED BY <3>1, <1>2, <1>6, ReturnedSlots
  <2>2. \A j \in DOMAIN elems : IsFull(j) => elems[j].uses - Occurrences(back, j) = Occurrences(front, j)
    BY <1>7
  <2> QED BY <2>1, <2>2, <1>1
<1>9. \A j : (IsFull(j)' <=> IsFull(j)) /\ (IsEmpty(j)' <=> IsEmpty(j))
  <2>1. \A j \in DOMAIN elems : IsFull(j) \/ IsEmpty(j)
    BY <1>2, SlotFields
  <2> QED BY <2>1, <1>8 DEF IsFull, IsEmpty, Full
<1>10. \A j : IsFull(j) => elems'[j].item = elems[j].item /\ elems'[j].uses = Occurrences(front, j)
  BY <1>8 DEF Full, IsFull
<1>11. Types'
  <2>1. access_idx' \in Nat
    BY <1>1, <1>2, AccessFields
  <2> QED BY <1>1, <1>2, <1>5, <1>6, <1>8, <2>1 DEF Types, elemsLen, R
<1>12. FreePath'
  <2>1. \A j \in DOMAIN elems : IsEmpty(j) => elems'[j].next_empty = elems[j].next_empty
    BY <1>8
  <2> QED BY <2>1, <1>1, <1>8, <1>9, FreePathKept DEF IInv
<1>13. UsesCounted'
  <2>1. \A k \in DOMAIN active_borrows' : IsFull(active_borrows[k])'
    BY <1>1, <1>6, <1>9 DEF IInv, UsesCounted
  <2>2. ASSUME NEW j \in DOMAIN elems', IsFull(j)'
        PROVE  elems'[j].uses = Occurrences(active_borrows, j)'
    <3>1. elems'[j].uses = Occurrences(front, j)
      BY <2>2, <1>9, <1>10
    <3> QED BY <3>1, <1>1 DEF Occurrences
  <2> QED BY <2>1, <2>2 DEF UsesCounted
<1>14. AccessesStacked'
  <2>1. \A b \in DOMAIN accesses' : accesses[b].start <= start /\ accesses[b].access_idx < access_idx
    BY <1>1, <1>2, <1>5 DEF AccessesStacked
  <2>2. \A b \in DOMAIN accesses' : accesses[b].access_idx <= access_idx - 1
    BY <2>1, <1>2, <1>5, AccessFields
  <2>3. Len(active_borrows') = start
    BY <1>1, <1>6
  <2>4. \A b \in DOMAIN accesses' : accesses'[b].start <= Len(active_borrows')
                                    /\ accesses'[b].access_idx <= access_idx'
    BY <2>1, <2>2, <2>3, <1>1, <1>5
  <2>5. \A b, c \in DOMAIN accesses' :
           b < c => /\ accesses'[b].access_idx < accesses'[c].access_idx
                    /\ accesses'[b].start <= accesses'[c].start
    BY <1>2, <1>5 DEF AccessesStacked
  <2> QED BY <2>4, <2>5 DEF AccessesStacked
<1>15. RefsInside' /\ IndicesArePlaces'
  <2>1. RefsInside'
    BY <1>5, <1>8 DEF IInv, RefsInside
  <2>2. IndicesArePlaces'
    BY <1>1, <1>5 DEF IInv, IndicesArePlaces
  <2> QED BY <2>1, <2>2
<1>16. RefsListed'
  <2> SUFFICES ASSUME nested, NEW b \in DOMAIN accesses', NEW r \in accesses'[b].refs
               PROVE  RefListed(b, r)'
    BY <1>1 DEF RefsListed
  <2>1. b \in DOMAIN accesses /\ b < a /\ r \in accesses[b].refs
    BY <1>5
  <2>2. RefListed(b, r)
    BY <2>1 DEF IInv, RefsListed
  <2>3. PICK k \in DOMAIN active_borrows :
           /\ active_borrows[k] = r.index
           /\ \A c \in DOMAIN accesses : b < c => k <= accesses[c].start
    BY <2>2 DEF RefListed
  <2>4. IsFull(r.index)' /\ elems'[r.index].item = r.item
    BY <2>2, <1>9, <1>10 DEF RefListed
  <2>5. k \in DOMAIN active_borrows' /\ active_borrows'[k] = r.index
    <3>1. k \in Nat \ {0} /\ k <= start
      BY <2>1, <2>3, <1>2, AccessFields
    <3> QED BY <3>1, <2>3, <1>1, <1>4, <1>6
  <2>6. \A c \in DOMAIN accesses' : b < c => k <= accesses'[c].start
    BY <2>3, <1>5
  <2> QED BY <2>4, <2>5, <2>6 DEF RefListed
<1>17. Items' = Items
  BY <1>8, <1>9, <1>10 DEF Items
<1> QED BY <1>2, <1>5, <1>11, <1>12, <1>13, <1>14, <1>15, <1>16, <1>17 DEF IInv

\* A drop whose assertion fails keeps the invariant: it only happens to
\* accesses that do not nest.
LEMMA DropPanicsInvariant ==
    ASSUME IInv, NEW a \in Usable, DropPanics(a), UNCHANGED nested
    PROVE  IInv' /\ ~nested
<1> DEFINE R == [start : Nat, access_idx : Nat \ {0}, refs : SUBSET [index : Nat, item : Item]]
<1>1. /\ access_idx # accesses[a].access_idx /\ accesses' = Gone(a)
      /\ UNCHANGED <<elems, next, active_borrows, access_idx, nested>>
  BY DEF DropPanics
<1>2. Types /\ a \in DOMAIN accesses
  BY DEF IInv, Usable
<1>3. /\ accesses' \in Seq(R)
      /\ \A k \in DOMAIN accesses' :
            /\ k < a => k \in DOMAIN accesses /\ accesses'[k] = accesses[k]
            /\ ~(k < a) => k + 1 \in DOMAIN accesses /\ accesses'[k] = accesses[k + 1]
      /\ DOMAIN accesses' \subseteq Nat /\ a \in Nat
  <2>1. DOMAIN accesses = 1..Len(accesses) /\ Len(accesses) \in Nat
    BY <1>2, AccessFields
  <2>2. /\ Gone(a) \in Seq(R) /\ DOMAIN Gone(a) = 1..(Len(accesses) - 1)
        /\ \A k \in DOMAIN Gone(a) :
              /\ k < a => k \in DOMAIN accesses /\ Gone(a)[k] = accesses[k]
              /\ ~(k < a) => k + 1 \in DOMAIN accesses /\ Gone(a)[k] = accesses[k + 1]
    BY <1>2, GoneSequence, Zenon
  <2> HIDE DEF R
  <2> QED BY <1>1, <1>2, <2>1, <2>2
<1> HIDE DEF R
<1>4. ~nested
  <2> SUFFICES ASSUME nested PROVE FALSE
    OBVIOUS
  <2>1. a = Len(accesses) /\ access_idx = Len(accesses) /\ accesses[a].access_idx = a
    BY <1>2 DEF Usable, IInv, IndicesArePlaces
  <2> QED BY <2>1, <1>1
<1>5. Types'
  BY <1>1, <1>2, <1>3 DEF Types, elemsLen, R
<1>6. FreePath'
  BY <1>1, FreePathKept DEF IInv, IsEmpty
<1>7. UsesCounted'
  BY <1>1 DEF IInv, UsesCounted, IsFull, Occurrences
<1>8. AccessesStacked'
  <2> DEFINE at(k) == IF k < a THEN k ELSE k + 1
  <2>1. \A k \in DOMAIN accesses' : at(k) \in DOMAIN accesses /\ accesses'[k] = accesses[at(k)]
    BY <1>3
  <2>2. \A j, k \in DOMAIN accesses' : j < k => at(j) < at(k)
    BY <1>3
  <2> HIDE DEF at
  <2> QED BY <2>1, <2>2, <1>1 DEF IInv, AccessesStacked
<1>9. RefsInside'
  BY <1>1, <1>3 DEF IInv, RefsInside
<1>10. IndicesArePlaces' /\ RefsListed'
  BY <1>1, <1>4 DEF IndicesArePlaces, RefsListed
<1> QED BY <1>4, <1>5, <1>6, <1>7, <1>8, <1>9, <1>10 DEF IInv

\* A step that leaves every variable as it is.
LEMMA StutterInvariant == IInv /\ UNCHANGED vars => IInv'
<1> SUFFICES ASSUME IInv, UNCHANGED vars PROVE IInv'
  OBVIOUS
<1>1. UNCHANGED <<elems, next, active_borrows, access_idx, accesses, nested>>
  BY DEF vars, table
<1>2. Types'
  BY <1>1 DEF IInv, Types, elemsLen
<1>3. FreePath'
  BY <1>1, FreePathKept DEF IInv, IsEmpty
<1>4. UsesCounted' /\ AccessesStacked' /\ RefsInside' /\ IndicesArePlaces' /\ RefsListed'
  BY <1>1, AccessesKept DEF IsFull
<1> QED BY <1>2, <1>3, <1>4 DEF IInv

-----------------------------------------------------------------------------

\* Every step keeps the invariant, one case for every action.
LEMMA StepInvariant == IInv /\ [Next]_vars => IInv'
<1> SUFFICES ASSUME IInv, [Next]_vars PROVE IInv'
  OBVIOUS
<1>1. ASSUME NEW item \in Item, Insert(item), UNCHANGED nested PROVE IInv'
  BY <1>1, InsertInvariant
<1>2. ASSUME NEW item \in Item, InsertPanics(item), UNCHANGED nested PROVE IInv'
  BY <1>2, InsertPanicsInvariant
<1>3. CASE Access /\ UNCHANGED nested
  BY <1>3, AccessInvariant
<1>4. ASSUME NEW i \in Handle, Remove(i), UNCHANGED nested PROVE IInv'
  BY <1>4, RemoveInvariant
<1>5. ASSUME NEW i \in Handle, RemoveFails(i) \/ GetNone(i), UNCHANGED nested PROVE IInv'
  BY <1>5, StutterInvariant DEF RemoveFails, GetNone, vars
<1>6. ASSUME NEW a \in Usable, Drop(a), UNCHANGED nested PROVE IInv'
  BY <1>6, DropInvariant
<1>7. ASSUME NEW a \in Usable, DropPanics(a), UNCHANGED nested PROVE IInv'
  BY <1>7, DropPanicsInvariant
<1>8. ASSUME NEW a \in Usable, NEW i \in Handle, Get(a, i), UNCHANGED nested PROVE IInv'
  BY <1>8, GetInvariant
<1>9. CASE UNCHANGED vars
  BY <1>9, StutterInvariant
<1> QED BY <1>1, <1>2, <1>3, <1>4, <1>5, <1>6, <1>7, <1>8, <1>9 DEF Next, Step

\* The invariant holds always.
THEOREM Invariance == Spec => []IInv
BY InitInvariant, StepInvariant, PTL DEF Spec

(***************************************************************************)
(* What the invariant says of the table.                                   *)
(***************************************************************************)

\* Every slot, count and handle keeps its type: no count goes below zero,
\* and nothing that is listed or referenced lies outside the vector.
THEOREM TypeCorrectness == Spec => []TypeOK
<1>1. IInv => TypeOK
  <2> SUFFICES ASSUME IInv PROVE TypeOK
    OBVIOUS
  <2>1. Types
    BY DEF IInv
  <2>2. DOMAIN elems = 0..(elemsLen - 1) /\ \A i \in DOMAIN elems : elems[i] \in Slot
    BY <2>1 DEF Types
  <2>3. active_borrows \in Seq(DOMAIN elems)
    <3>1. active_borrows \in Seq(Nat)
      BY <2>1 DEF Types
    <3>2. \A k \in 1..Len(active_borrows) : active_borrows[k] \in DOMAIN elems
      BY <2>1, AccessFields DEF IInv, UsesCounted, IsFull
    <3> QED BY <3>1, <3>2
  <2>4. ASSUME NEW a \in DOMAIN accesses
        PROVE  accesses[a] \in [start : Nat, access_idx : Nat, refs : SUBSET Reference]
    <3> DEFINE R == [start : Nat, access_idx : Nat \ {0}, refs : SUBSET [index : Nat, item : Item]]
               x == accesses[a]
    <3>1. x \in R
      <4> HIDE DEF R
      <4>1. accesses \in Seq(R)
        BY <2>1 DEF Types, R
      <4> QED BY <4>1
    <3>2. \A r \in x.refs : r \in Reference
      <4>1. \A r \in x.refs : r \in [index : Nat, item : Item] /\ r.index \in DOMAIN elems
        BY <3>1 DEF IInv, RefsInside
      <4> QED BY <4>1 DEF Reference
    <3> HIDE DEF x
    <3>3. x \in [start : Nat, access_idx : Nat, refs : SUBSET Reference]
      BY <3>1, <3>2
    <3> QED BY <3>3 DEF x
  <2> QED BY <2>1, <2>2, <2>3, <2>4 DEF Types, TypeOK
<1> QED BY <1>1, Invariance, PTL

\* A slot is marked in use as often as active_borrows lists it.
THEOREM UsesAlwaysCounted == Spec => []UsesCounted
BY Invariance, PTL DEF IInv

\* No drop drains beyond the end of active_borrows, or what another access
\* still counts on.
THEOREM AccessesAlwaysStacked == Spec => []AccessesStacked
BY Invariance, PTL DEF IInv

\* In generated code the item behind a live reference stays in its slot.
THEOREM NestedBorrowsAlwaysStay == Spec => []NestedBorrowsStay
<1>1. IInv => NestedBorrowsStay
  BY DEF IInv, RefsListed, RefListed, NestedBorrowsStay, BorrowedItemsStay
<1> QED BY <1>1, Invariance, PTL

(***************************************************************************)
(* The free list.                                                          *)
(***************************************************************************)

\* FreeList satisfies its recursive definition.
LEMMA FreeListUnfolds ==
    ASSUME Types, FreePath
    PROVE  /\ FreeList[0] = next
           /\ \A k \in Nat : FreeList[k + 1] = IF IsEmpty(FreeList[k])
                                               THEN elems[FreeList[k]].next_empty
                                               ELSE FreeList[k]
<1> DEFINE Body(f) == [k \in Nat |-> IF k = 0 THEN next
                                     ELSE IF IsEmpty(f[k - 1]) THEN elems[f[k - 1]].next_empty
                                          ELSE f[k - 1]]
<1>1. PICK m \in Nat : \E p \in [0..m -> Nat] : IsFreePath(p, m)
  BY DEF FreePath
<1>2. PICK p \in [0..m -> Nat] : IsFreePath(p, m)
  BY <1>1
<1> DEFINE f == [k \in Nat |-> IF k <= m THEN p[k] ELSE p[m]]
<1>3. f = Body(f)
  <2>1. ASSUME NEW k \in Nat PROVE f[k] = Body(f)[k]
    <3>1. CASE k = 0
      BY <3>1, <1>2 DEF IsFreePath
    <3>2. CASE k \in 1..m
      <4>1. k - 1 \in 0..(m - 1) /\ (k - 1) + 1 = k /\ k # 0
        BY <3>2
      <4>2. IsEmpty(p[k - 1]) /\ elems[p[k - 1]].next_empty = p[k]
        BY <4>1, <1>2 DEF IsFreePath
      <4> QED BY <4>1, <4>2
    <3>3. CASE k > m
      <4>1. k - 1 \in Nat /\ k # 0 /\ k - 1 >= m
        BY <3>3
      <4>2. f[k] = p[m] /\ f[k - 1] = p[m]
        BY <3>3, <4>1
      <4>3. ~IsEmpty(p[m])
        BY <1>2 DEF IsFreePath, IsEmpty, Types
      <4> QED BY <4>1, <4>2, <4>3
    <3> QED BY <3>1, <3>2, <3>3
  <2> QED BY <2>1
<1> HIDE DEF f
<1>4. FreeList = CHOOSE g : g = Body(g)
  BY DEF FreeList
<1> HIDE DEF Body
<1>5. FreeList = Body(FreeList)
  BY <1>3, <1>4
<1>6. ASSUME NEW k \in Nat
      PROVE  FreeList[k + 1] = IF IsEmpty(FreeList[k]) THEN elems[FreeList[k]].next_empty
                               ELSE FreeList[k]
  <2>1. k + 1 \in Nat /\ k + 1 # 0 /\ (k + 1) - 1 = k
    OBVIOUS
  <2>2. Body(FreeList)[k + 1] = IF IsEmpty(FreeList[k]) THEN elems[FreeList[k]].next_empty
                                ELSE FreeList[k]
    BY <2>1 DEF Body
  <2> QED BY <1>5, <2>2
<1>7. FreeList[0] = next
  BY <1>5 DEF Body
<1> QED BY <1>6, <1>7

\* The free list visits every empty slot once and ends at the end of the
\* vector, after any sequence of calls, failed ones among them.
THEOREM FreeListAlwaysComplete == Spec => []FreeListComplete
<1>1. IInv => FreeListComplete
  <2> SUFFICES ASSUME IInv PROVE FreeListComplete
    OBVIOUS
  <2>0. PICK m \in Nat : \E p \in [0..m -> Nat] : IsFreePath(p, m)
    BY DEF IInv, FreePath
  <2>1. PICK p \in [0..m -> Nat] : IsFreePath(p, m)
    BY <2>0
  <2>2. \A k \in Nat : k \in {j \in Nat : j <= m => FreeList[j] = p[j]}
    <3> DEFINE T == {j \in Nat : j <= m => FreeList[j] = p[j]}
    <3>1. Types /\ FreePath
      BY DEF IInv
    <3>2. 0 \in T
      BY <3>1, <2>1, FreeListUnfolds DEF IsFreePath
    <3>3. ASSUME NEW k \in Nat, k \in T PROVE k + 1 \in T
      <4> SUFFICES ASSUME k + 1 <= m PROVE FreeList[k + 1] = p[k + 1]
        OBVIOUS
      <4>1. k \in 0..(m - 1) /\ FreeList[k] = p[k]
        BY <3>3
      <4>2. IsEmpty(p[k]) /\ elems[p[k]].next_empty = p[k + 1]
        BY <4>1, <2>1 DEF IsFreePath
      <4> QED BY <4>1, <4>2, <3>1, FreeListUnfolds
    <3> HIDE DEF T
    <3>4. \A k \in Nat : k \in T
      BY <3>2, <3>3, NaturalsIn
    <3> QED BY <3>4 DEF T
  <2>3. \A k \in 0..m : FreeList[k] = p[k]
    BY <2>2
  <2>4. Cardinality(EmptySlots) = m
    <3> DEFINE first == [k \in 0..(m - 1) |-> p[k]]
    <3>1. \A k \in 0..(m - 1) : p[k] \in EmptySlots
      BY <2>1 DEF IsFreePath, EmptySlots, IsEmpty
    <3>2. first \in [0..(m - 1) -> EmptySlots]
      BY <3>1
    <3>3. \A j, k \in 0..(m - 1) : first[j] = first[k] => j = k
      BY <2>1 DEF IsFreePath
    <3>4. \A i \in EmptySlots : \E k \in 0..(m - 1) : first[k] = i
      BY <2>1 DEF IsFreePath
    <3>5. first \in Bijection(0..(m - 1), EmptySlots)
      <4> HIDE DEF first
      <4> QED BY <3>2, <3>3, <3>4 DEF Bijection, Injection, Surjection, IsInjective
    <3>6. ExistsBijection(0..(m - 1), EmptySlots)
      BY <3>5 DEF ExistsBijection
    <3>7. IsFiniteSet(0..(m - 1)) /\ Cardinality(0..(m - 1)) = m
      BY FS_Interval, LengthOfVector
    <3>8. Cardinality(EmptySlots) = Cardinality(0..(m - 1))
      BY <3>6, <3>7, FS_Bijection
    <3> QED BY <3>7, <3>8
  <2>5. {FreeList[k] : k \in 0..(m - 1)} = EmptySlots
    <3>1. \A k \in 0..(m - 1) : FreeList[k] = p[k] /\ p[k] \in EmptySlots
      BY <2>1, <2>3 DEF IsFreePath, EmptySlots, IsEmpty
    <3>2. \A i \in EmptySlots : \E k \in 0..(m - 1) : FreeList[k] = i
      BY <2>1, <3>1 DEF IsFreePath
    <3> QED BY <3>1, <3>2
  <2>6. FreeList[m] = elemsLen
    BY <2>1, <2>3 DEF IsFreePath
  <2> QED BY <2>4, <2>5, <2>6 DEF FreeListComplete
<1> QED BY <1>1, Invariance, PTL

(***************************************************************************)
(* The refinement: every step is a step of HandleTable or changes nothing  *)
(* that it sees.                                                           *)
(***************************************************************************)

\* What the accesses hold, as HandleTable sees it.
LEMMA HeldFields ==
    ASSUME Types
    PROVE  /\ nested => /\ DOMAIN HeldBy = DOMAIN accesses
                        /\ HeldBy \in Seq(SUBSET Nat) /\ Len(HeldBy) = Len(accesses)
                        /\ \A a \in DOMAIN accesses :
                              HeldBy[a] = {r.index : r \in accesses[a].refs}
           /\ ~nested => HeldBy = <<>>
<1>1. /\ DOMAIN accesses = 1..Len(accesses) /\ Len(accesses) \in Nat
      /\ \A a \in DOMAIN accesses : {r.index : r \in accesses[a].refs} \in SUBSET Nat
  BY AccessFields
<1>2. CASE nested
  <2>1. HeldBy = [a \in DOMAIN accesses |-> {r.index : r \in accesses[a].refs}]
    BY <1>2 DEF HeldBy
  <2>2. HeldBy \in [1..Len(accesses) -> SUBSET Nat]
    BY <1>1, <2>1
  <2> QED BY <1>1, <1>2, <2>1, <2>2
<1>3. CASE ~nested
  BY <1>3 DEF HeldBy
<1> QED BY <1>2, <1>3

\* Steps that HandleTable does not see.
LEMMA ItemsKept ==
    ASSUME \A j : IsFull(j)' <=> IsFull(j),
           \A j : IsFull(j) => elems'[j].item = elems[j].item
    PROVE  Items' = Items
BY DEF Items, IsFull

\* An insertion puts the item under a handle that was free.
LEMMA InsertRefines ==
    ASSUME IInv, NEW item \in Item, Insert(item), UNCHANGED nested
    PROVE  Map!Insert(next, item) /\ next \in Handle
<1>1. /\ elems' = [Grown EXCEPT ![next] = Full(item, 0)] /\ next <= U32Max
      /\ UNCHANGED <<accesses, nested>>
  BY DEF Insert
<1>2. Types /\ next \in Nat
  BY DEF IInv, Types
<1>3. /\ ~IsFull(next) /\ next \in DOMAIN Grown
      /\ DOMAIN Grown = DOMAIN elems \cup {next}
      /\ \A j \in DOMAIN elems : Grown[j] = elems[j]
  <2>1. CASE next = elemsLen
    <3>1. DOMAIN elems = 0..(elemsLen - 1) /\ elemsLen \in Nat
      BY <1>2 DEF Types
    <3>2. DOMAIN Grown = 0..elemsLen /\ \A j \in DOMAIN elems : Grown[j] = elems[j]
      BY <1>2, <2>1, GrownVector
    <3> QED BY <2>1, <3>1, <3>2 DEF IsFull
  <2>2. CASE next # elemsLen
    BY <1>2, <2>2, GrownVector, HeadOfFreeList DEF IsFull, IsEmpty
  <2> QED BY <2>1, <2>2
<1>4. /\ DOMAIN elems' = DOMAIN elems \cup {next} /\ elems'[next] = Full(item, 0)
      /\ \A j \in DOMAIN elems : j # next => elems'[j] = elems[j]
  BY <1>1, <1>3
<1>5. \A j : IsFull(j)' <=> IsFull(j) \/ j = next
  BY <1>3, <1>4 DEF IsFull, Full
<1>6. next \notin DOMAIN Items
  BY <1>3 DEF Items
<1>7. Items' = [k \in DOMAIN Items \cup {next} |-> IF k = next THEN item ELSE Items[k]]
  <2>1. DOMAIN Items' = DOMAIN Items \cup {next}
    BY <1>4, <1>5 DEF Items, IsFull
  <2>2. ASSUME NEW k \in DOMAIN Items' PROVE Items'[k] = IF k = next THEN item ELSE Items[k]
    <3>1. Items'[k] = elems'[k].item
      BY DEF Items
    <3>2. CASE k = next
      BY <3>1, <3>2, <1>4 DEF Full
    <3>3. CASE k # next
      <4>1. k \in DOMAIN Items /\ k \in DOMAIN elems /\ Items[k] = elems[k].item
        BY <2>1, <3>3 DEF Items
      <4> QED BY <3>1, <3>3, <4>1, <1>4
    <3> QED BY <3>2, <3>3
  <2>3. Items' = [k \in DOMAIN Items' |-> Items'[k]]
    BY DEF Items
  <2> QED BY <2>1, <2>2, <2>3
<1>8. HeldBy' = HeldBy
  BY <1>1 DEF HeldBy
<1>9. next \in Handle
  BY <1>1, <1>2, TableAssumption DEF Handle
<1> QED BY <1>6, <1>7, <1>8, <1>9 DEF Map!Insert

\* A removal takes out an item nobody holds.
LEMMA RemoveRefines ==
    ASSUME IInv, NEW i \in Handle, Remove(i), UNCHANGED nested
    PROVE  Map!Remove(i)
<1>1. /\ IsFull(i) /\ elems[i].uses = 0 /\ i \in DOMAIN elems
      /\ elems' = [elems EXCEPT ![i] = Empty(next)] /\ UNCHANGED <<accesses, nested>>
  BY DEF Remove, IsFull
<1>2. Types
  BY DEF IInv
<1>3. ~Map!Held(i)
  <2> SUFFICES ASSUME Map!Held(i) PROVE FALSE
    OBVIOUS
  <2>1. PICK a \in DOMAIN HeldBy : i \in HeldBy[a]
    BY DEF Map!Held
  <2>2. nested
    BY <2>1, <1>2, HeldFields
  <2>3. PICK r \in accesses[a].refs : r.index = i
    BY <2>1, <2>2, <1>2, HeldFields
  <2>4. RefListed(a, r)
    BY <2>1, <2>2, <1>2, HeldFields DEF IInv, RefsListed
  <2>5. active_borrows \in Seq(Nat) /\ Occurrences(active_borrows, i) = 0
    BY <1>1, <1>2 DEF IInv, UsesCounted, Types
  <2> QED BY <2>3, <2>4, <2>5, PositionsFinite DEF RefListed
<1>4. \A j : IsFull(j)' <=> IsFull(j) /\ j # i
  BY <1>1 DEF IsFull, Empty
<1>5. DOMAIN Items = {j \in DOMAIN elems : IsFull(j)} /\ i \in DOMAIN Items
  BY <1>1 DEF Items
<1>6. Items' = [k \in DOMAIN Items \ {i} |-> Items[k]]
  <2>1. DOMAIN Items' = DOMAIN Items \ {i}
    BY <1>1, <1>4 DEF Items
  <2>2. \A k \in DOMAIN Items' : Items'[k] = Items[k]
    BY <2>1, <1>1, <1>5 DEF Items
  <2>3. Items' = [k \in DOMAIN Items' |-> Items'[k]]
    BY DEF Items
  <2> QED BY <2>1, <2>2, <2>3
<1>7. HeldBy' = HeldBy
  BY <1>1 DEF HeldBy
<1> QED BY <1>3, <1>5, <1>6, <1>7 DEF Map!Remove

\* An access holds nothing at first.
LEMMA AccessRefines ==
    ASSUME IInv, IInv', Access, UNCHANGED nested
    PROVE  Map!Next \/ UNCHANGED <<Items, HeldBy>>
<1> DEFINE new == [start |-> Len(active_borrows), access_idx |-> access_idx', refs |-> {}]
           R == [start : Nat, access_idx : Nat \ {0}, refs : SUBSET [index : Nat, item : Item]]
<1>1. /\ accesses' = Append(accesses, new) /\ new.refs = {}
      /\ UNCHANGED <<elems, nested>>
  BY DEF Access
<1>2. Types /\ Types' /\ accesses \in Seq(R) /\ accesses' \in Seq(R) /\ nested' = nested
  BY DEF IInv, Types
<1> HIDE DEF new, R
<1>3. Items' = Items
  BY <1>1, ItemsKept DEF IsFull
<1>4. CASE nested
  <2>1. /\ DOMAIN accesses = 1..Len(accesses) /\ Len(accesses) \in Nat
        /\ \A a \in DOMAIN accesses : accesses[a] = Append(accesses, new)[a]
        /\ Append(accesses, new)[Len(accesses) + 1] = new
        /\ DOMAIN accesses' = 1..(Len(accesses) + 1)
    BY <1>1, <1>2
  <2>2. /\ HeldBy \in Seq(SUBSET Nat) /\ Len(HeldBy) = Len(accesses)
        /\ \A a \in DOMAIN accesses : HeldBy[a] = {r.index : r \in accesses[a].refs}
    BY <1>2, <1>4, HeldFields
  <2>3. HeldBy' = [a \in DOMAIN accesses' |-> {r.index : r \in accesses'[a].refs}]
    BY <1>2, <1>4 DEF HeldBy
  <2>4. {} \in SUBSET Nat /\ DOMAIN HeldBy = 1..Len(accesses)
    BY <2>1, <2>2
  <2>5. /\ Append(HeldBy, {}) \in Seq(SUBSET Nat) /\ Len(Append(HeldBy, {})) = Len(accesses) + 1
        /\ \A a \in 1..Len(accesses) : Append(HeldBy, {})[a] = HeldBy[a]
        /\ Append(HeldBy, {})[Len(accesses) + 1] = {}
    BY <2>2, <2>4, AppendProperties
  <2>6. Append(HeldBy, {}) = [a \in 1..(Len(accesses) + 1) |-> Append(HeldBy, {})[a]]
    <3> DEFINE more == Append(HeldBy, {})
    <3>1. more \in Seq(SUBSET Nat) /\ Len(more) = Len(accesses) + 1
      BY <2>5
    <3> HIDE DEF more
    <3>2. more = [a \in 1..(Len(accesses) + 1) |-> more[a]]
      BY <3>1
    <3> QED BY <3>2 DEF more
  <2>7. ASSUME NEW a \in 1..(Len(accesses) + 1)
        PROVE  {r.index : r \in accesses'[a].refs} = Append(HeldBy, {})[a]
    <3>1. CASE a = Len(accesses) + 1
      BY <3>1, <1>1, <2>1, <2>5
    <3>2. CASE a # Len(accesses) + 1
      <4>1. a \in DOMAIN accesses
        BY <3>2, <2>1
      <4> QED BY <4>1, <1>1, <2>1, <2>2, <2>5
    <3> QED BY <3>1, <3>2
  <2>8. HeldBy' = Append(HeldBy, {})
    BY <2>1, <2>3, <2>6, <2>7
  <2> QED BY <2>8, <1>3 DEF Map!Next, Map!Access
<1>5. CASE ~nested
  BY <1>2, <1>3, <1>5 DEF HeldBy
<1> QED BY <1>4, <1>5

\* A reference is one the innermost access holds.
LEMMA GetRefines ==
    ASSUME IInv, NEW a \in Usable, NEW i \in Handle, Get(a, i), UNCHANGED nested
    PROVE  Map!Next \/ UNCHANGED <<Items, HeldBy>>
<1> DEFINE ref == [index |-> i, item |-> elems[i].item]
<1>1. /\ Items' = Items /\ i \in DOMAIN Items
      /\ DOMAIN accesses' = DOMAIN accesses
      /\ \A b \in DOMAIN accesses : b # a => accesses'[b].refs = accesses[b].refs
      /\ accesses'[a].refs = accesses[a].refs \cup {ref}
      /\ ref.index = i
  BY GetInvariant
<1> HIDE DEF ref
<1>2. CASE nested
  <2>1. a = Len(accesses) /\ a \in DOMAIN accesses /\ Types
    BY <1>2 DEF Usable, IInv
  <2>2. /\ DOMAIN HeldBy = DOMAIN accesses /\ Len(HeldBy) = Len(accesses) /\ HeldBy # <<>>
        /\ \A b \in DOMAIN accesses : HeldBy[b] = {r.index : r \in accesses[b].refs}
        /\ HeldBy = [b \in DOMAIN accesses |-> HeldBy[b]]
    <3>1. /\ DOMAIN HeldBy = DOMAIN accesses /\ Len(HeldBy) = Len(accesses)
          /\ \A b \in DOMAIN accesses : HeldBy[b] = {r.index : r \in accesses[b].refs}
      BY <1>2, <2>1, HeldFields
    <3>2. HeldBy # <<>>
      BY <3>1, <2>1
    <3>3. HeldBy = [b \in DOMAIN accesses |-> HeldBy[b]]
      BY <1>2 DEF HeldBy
    <3> QED BY <3>1, <3>2, <3>3
  <2>3. HeldBy' = [b \in DOMAIN accesses |-> {r.index : r \in accesses'[b].refs}]
    BY <1>1, <1>2 DEF HeldBy
  <2>4. {r.index : r \in accesses'[a].refs} = HeldBy[a] \cup {i}
    BY <1>1, <2>1, <2>2
  <2>5. \A b \in DOMAIN accesses : b # a => {r.index : r \in accesses'[b].refs} = HeldBy[b]
    BY <1>1, <2>2
  <2>6. HeldBy' = [HeldBy EXCEPT ![Len(HeldBy)] = HeldBy[Len(HeldBy)] \cup {i}]
    BY <2>1, <2>2, <2>3, <2>4, <2>5
  <2> QED BY <1>1, <2>2, <2>6 DEF Map!Next, Map!Get
<1>3. CASE ~nested
  BY <1>1, <1>3 DEF HeldBy
<1> QED BY <1>2, <1>3

\* The drop of the innermost access releases what it holds.
LEMMA DropRefines ==
    ASSUME IInv, NEW a \in Usable, Drop(a), UNCHANGED nested
    PROVE  Map!Next \/ UNCHANGED <<Items, HeldBy>>
<1>1. /\ Items' = Items
      /\ DOMAIN accesses = 1..Len(accesses) /\ Len(accesses) \in Nat \ {0}
      /\ DOMAIN accesses' = 1..(Len(accesses) - 1)
      /\ \A b \in DOMAIN accesses' : accesses'[b] = accesses[b]
  BY DropInvariant
<1>2. CASE nested
  <2>1. Types
    BY DEF IInv
  <2>2. /\ HeldBy \in Seq(SUBSET Nat) /\ Len(HeldBy) = Len(accesses)
        /\ \A b \in DOMAIN accesses : HeldBy[b] = {r.index : r \in accesses[b].refs}
    BY <1>2, <2>1, HeldFields
  <2>3. HeldBy # <<>> /\ Len(HeldBy) \in Nat /\ Len(HeldBy) - 1 \in Nat
    BY <1>1, <2>2
  <2>4. HeldBy' = [b \in 1..(Len(accesses) - 1) |-> {r.index : r \in accesses'[b].refs}]
    BY <1>1, <1>2 DEF HeldBy
  <2>5. SubSeq(HeldBy, 1, Len(HeldBy) - 1) = [b \in 1..(Len(HeldBy) - 1) |-> HeldBy[b]]
    BY <2>2, <2>3
  <2>6. \A b \in 1..(Len(accesses) - 1) : {r.index : r \in accesses'[b].refs} = HeldBy[b]
    BY <1>1, <2>2
  <2>7. HeldBy' = SubSeq(HeldBy, 1, Len(HeldBy) - 1)
    BY <2>2, <2>4, <2>5, <2>6
  <2> QED BY <1>1, <2>3, <2>7 DEF Map!Next, Map!Release
<1>3. CASE ~nested
  BY <1>1, <1>3 DEF HeldBy
<1> QED BY <1>2, <1>3

\* Every step of the table is one of the map or is not seen there.
LEMMA StepRefines == IInv /\ IInv' /\ [Next]_vars => [Map!Next]_<<Items, HeldBy>>
<1> DEFINE seen == Map!Next \/ UNCHANGED <<Items, HeldBy>>
<1> SUFFICES ASSUME IInv, IInv', [Next]_vars PROVE seen
  OBVIOUS
<1>1. ASSUME NEW item \in Item, Insert(item), UNCHANGED nested PROVE seen
  <2>1. Map!Insert(next, item) /\ next \in Handle
    BY <1>1, InsertRefines
  <2> QED BY <2>1 DEF Map!Next
<1>2. ASSUME NEW item \in Item, InsertPanics(item), UNCHANGED nested PROVE seen
  <2>1. elems' = Grown /\ UNCHANGED <<accesses, nested>> /\ Types
    BY <1>2 DEF InsertPanics, IInv
  <2>2. \A j : (IsFull(j)' <=> IsFull(j)) /\ (IsFull(j) => elems'[j].item = elems[j].item)
    <3>1. CASE next # elemsLen
      BY <2>1, <3>1, GrownVector DEF IsFull
    <3>2. CASE next = elemsLen
      <4>1. /\ DOMAIN elems' = 0..elemsLen /\ elems'[elemsLen].tag = "Empty"
            /\ \A j \in DOMAIN elems : elems'[j] = elems[j]
        BY <2>1, <3>2, GrownVector DEF Empty
      <4>2. DOMAIN elems = 0..(elemsLen - 1) /\ elemsLen \in Nat
        BY <2>1 DEF Types
      <4> QED BY <4>1, <4>2 DEF IsFull
    <3> QED BY <3>1, <3>2
  <2>3. Items' = Items
    BY <2>2, ItemsKept
  <2> QED BY <2>1, <2>3 DEF HeldBy
<1>3. CASE Access /\ UNCHANGED nested
  BY <1>3, AccessRefines
<1>4. ASSUME NEW i \in Handle, Remove(i), UNCHANGED nested PROVE seen
  <2>1. Map!Remove(i)
    BY <1>4, RemoveRefines
  <2> QED BY <2>1 DEF Map!Next
<1>5. ASSUME NEW i \in Handle, RemoveFails(i) \/ GetNone(i), UNCHANGED nested PROVE seen
  BY <1>5 DEF RemoveFails, GetNone, table, Items, IsFull, HeldBy
<1>6. ASSUME NEW a \in Usable, Drop(a), UNCHANGED nested PROVE seen
  BY <1>6, DropRefines
<1>7. ASSUME NEW a \in Usable, DropPanics(a), UNCHANGED nested PROVE seen
  <2>1. ~nested
    BY <1>7, DropPanicsInvariant
  <2> QED BY <1>7, <2>1 DEF DropPanics, Items, IsFull, HeldBy
<1>8. ASSUME NEW a \in Usable, NEW i \in Handle, Get(a, i), UNCHANGED nested PROVE seen
  BY <1>8, GetRefines
<1>9. CASE UNCHANGED vars
  BY <1>9 DEF vars, table, Items, IsFull, HeldBy
<1> HIDE DEF seen
<1> QED BY <1>1, <1>2, <1>3, <1>4, <1>5, <1>6, <1>7, <1>8, <1>9 DEF Next, Step

\* The table implements the map of HandleTable: inserts return handles that
\* name nothing, a removal takes out an item no access references, and every
\* reference ends with its access.
THEOREM Refinement == Spec => ImplementsHandleTable
<1>1. Init => Map!Init
  <2> SUFFICES ASSUME Init PROVE Map!Init
    OBVIOUS
  <2>1. DOMAIN elems = {} /\ accesses = <<>>
    BY DEF Init
  <2>2. Items = [h \in {} |-> 0]
    BY <2>1 DEF Items
  <2>3. HeldBy = <<>>
    <3>1. [a \in DOMAIN accesses |-> {r.index : r \in accesses[a].refs}] = <<>>
      BY <2>1
    <3> QED BY <3>1 DEF HeldBy
  <2> QED BY <2>2, <2>3 DEF Map!Init
<1>2. IInv /\ IInv' /\ [Next]_vars => [Map!Next]_Map!vars
  BY StepRefines DEF Map!vars
<1> QED BY <1>1, <1>2, Invariance, PTL DEF Spec, ImplementsHandleTable, Map!Spec

=============================================================================
