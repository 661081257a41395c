------------------------ MODULE ListOwnershipProofs ------------------------
(***************************************************************************)
(* Proofs about ListOwnership: for lists of any types, lengths and number, *)
(* and any safe Rust in the guest.                                         *)
(***************************************************************************)
EXTENDS ListOwnership, FiniteSetTheorems, SequenceTheorems, WellFoundedInduction, TLAPS

(***************************************************************************)
(* Induction, in a form that the provers can apply.                        *)
(***************************************************************************)

\* A set with 0 and the successors of its elements has every natural.
LEMMA NaturalsIn ==
    ASSUME NEW T, 0 \in T, \A n \in Nat : n \in T => n + 1 \in T
    PROVE  \A n \in Nat : n \in T
<1> DEFINE R == OpToRel(<, Nat)
<1> SUFFICES ASSUME Nat \ T # {} PROVE FALSE
  OBVIOUS
<1>1. PICK x \in Nat \ T : \A y \in Nat \ T : ~(<<y, x>> \in R)
  <2>1. IsWellFoundedOn(R, Nat)
    BY NatLessThanWellFounded
  <2> HIDE DEF R
  <2>2. Nat \ T \in SUBSET Nat
    OBVIOUS
  <2> QED BY <2>1, <2>2, WFMin
<1>2. \A y \in Nat \ T : ~(y < x)
  BY <1>1 DEF OpToRel
<1> HIDE DEF R
<1>3. x # 0 /\ x - 1 \in Nat /\ x - 1 < x /\ (x - 1) + 1 = x
  OBVIOUS
<1> QED BY <1>1, <1>2, <1>3

(***************************************************************************)
(* Sequences in order.                                                     *)
(***************************************************************************)

\* No two elements of a sequence are out of order.
Ordered(s, R) == \A i, j \in DOMAIN s : i < j => <<s[i], s[j]>> \in R

AllBefore(s, t, R) == \A a \in ToSet(s), b \in ToSet(t) : <<a, b>> \in R

\* Two sequences in order, all of one before all of the other.
LEMMA JoinOrdered ==
    ASSUME NEW R, NEW D, NEW s \in Seq(D), NEW t \in Seq(D), Ordered(s, R), Ordered(t, R),
           AllBefore(s, t, R)
    PROVE  /\ s \o t \in Seq(D)
           /\ Ordered(s \o t, R)
           /\ ToSet(s \o t) = ToSet(s) \cup ToSet(t)
<1> DEFINE c == s \o t
<1>1. /\ c \in Seq(D) /\ Len(c) = Len(s) + Len(t)
      /\ \A i \in 1..Len(s) : c[i] = s[i]
      /\ \A i \in 1..Len(t) : c[Len(s) + i] = t[i]
  BY ConcatProperties
<1>2. /\ Len(s) \in Nat /\ Len(t) \in Nat /\ DOMAIN s = 1..Len(s) /\ DOMAIN t = 1..Len(t)
      /\ DOMAIN c = 1..Len(c)
  BY <1>1
<1> HIDE DEF c
<1>3. \A i \in DOMAIN c : \/ i \in DOMAIN s /\ c[i] = s[i]
                          \/ i > Len(s) /\ i - Len(s) \in DOMAIN t /\ c[i] = t[i - Len(s)]
  <2> SUFFICES ASSUME NEW i \in 1..Len(c), ~(i \in 1..Len(s))
               PROVE  i > Len(s) /\ i - Len(s) \in DOMAIN t /\ c[i] = t[i - Len(s)]
    BY <1>1, <1>2
  <2>1. i - Len(s) \in 1..Len(t) /\ i = Len(s) + (i - Len(s)) /\ i > Len(s)
    BY <1>1, <1>2
  <2> QED BY <1>1, <1>2, <2>1
<1>4. Ordered(c, R)
  <2> SUFFICES ASSUME NEW i \in DOMAIN c, NEW j \in DOMAIN c, i < j PROVE <<c[i], c[j]>> \in R
    BY DEF Ordered
  <2>1. CASE i \in DOMAIN s /\ c[i] = s[i] /\ j \in DOMAIN s /\ c[j] = s[j]
    BY <2>1 DEF Ordered
  <2>2. CASE i \in DOMAIN s /\ c[i] = s[i] /\ j - Len(s) \in DOMAIN t /\ c[j] = t[j - Len(s)]
    <3>1. c[i] \in ToSet(s) /\ c[j] \in ToSet(t)
      BY <2>2 DEF ToSet
    <3> QED BY <3>1 DEF AllBefore
  <2>3. CASE /\ i - Len(s) \in DOMAIN t /\ c[i] = t[i - Len(s)]
             /\ j - Len(s) \in DOMAIN t /\ c[j] = t[j - Len(s)]
    <3>1. i - Len(s) < j - Len(s)
      BY <1>2
    <3> QED BY <2>3, <3>1 DEF Ordered
  <2>4. CASE i > Len(s) /\ j \in DOMAIN s
    BY <2>4, <1>2
  <2> QED BY <1>3, <2>1, <2>2, <2>3, <2>4
<1>5. ToSet(c) = ToSet(s) \cup ToSet(t)
  <2>1. ToSet(c) \subseteq ToSet(s) \cup ToSet(t)
    BY <1>3 DEF ToSet
  <2>2. ToSet(s) \subseteq ToSet(c)
    BY <1>1, <1>2 DEF ToSet
  <2>3. ToSet(t) \subseteq ToSet(c)
    <3> SUFFICES ASSUME NEW i \in 1..Len(t) PROVE t[i] \in ToSet(c)
      BY <1>2 DEF ToSet
    <3>1. Len(s) + i \in DOMAIN c /\ c[Len(s) + i] = t[i]
      BY <1>1, <1>2
    <3> QED BY <3>1 DEF ToSet
  <2> QED BY <2>1, <2>2, <2>3
<1> QED BY <1>1, <1>4, <1>5 DEF c

\* The rest of a sequence in order: its head comes before all of it.
LEMMA TailOrdered ==
    ASSUME NEW R, NEW D, NEW s \in Seq(D), s # <<>>, Ordered(s, R)
    PROVE  /\ Head(s) \in D /\ Tail(s) \in Seq(D)
           /\ Ordered(Tail(s), R)
           /\ ToSet(s) = {Head(s)} \cup ToSet(Tail(s))
           /\ \A x \in ToSet(Tail(s)) : <<Head(s), x>> \in R
<1> DEFINE t == Tail(s)
<1>1. /\ Head(s) \in D /\ t \in Seq(D) /\ Len(s) \in Nat \ {0} /\ Len(t) = Len(s) - 1
      /\ \A i \in 1..Len(t) : t[i] = s[i + 1]
      /\ Head(s) = s[1] /\ DOMAIN s = 1..Len(s) /\ DOMAIN t = 1..Len(t)
  OBVIOUS
<1> HIDE DEF t
<1>2. \A i \in DOMAIN t : i + 1 \in DOMAIN s /\ 1 < i + 1 /\ t[i] = s[i + 1]
  BY <1>1
<1>3. Ordered(t, R)
  <2> SUFFICES ASSUME NEW i \in DOMAIN t, NEW j \in DOMAIN t, i < j PROVE <<t[i], t[j]>> \in R
    BY DEF Ordered
  <2>1. i + 1 < j + 1
    BY <1>1
  <2> QED BY <1>2, <2>1 DEF Ordered
<1>4. \A x \in ToSet(t) : <<Head(s), x>> \in R
  <2> SUFFICES ASSUME NEW i \in DOMAIN t PROVE <<Head(s), t[i]>> \in R
    BY DEF ToSet
  <2> QED BY <1>1, <1>2 DEF Ordered
<1>5. ToSet(s) = {Head(s)} \cup ToSet(t)
  <2>1. ASSUME NEW i \in DOMAIN s PROVE s[i] \in {Head(s)} \cup ToSet(t)
    <3>1. CASE i = 1
      BY <1>1, <3>1
    <3>2. CASE i # 1
      <4>1. i - 1 \in DOMAIN t /\ t[i - 1] = s[i]
        BY <1>1, <3>2
      <4> QED BY <4>1 DEF ToSet
    <3> QED BY <3>1, <3>2
  <2>2. Head(s) \in ToSet(s)
    BY <1>1 DEF ToSet
  <2>3. ToSet(t) \subseteq ToSet(s)
    BY <1>2 DEF ToSet
  <2>4. ToSet(s) \subseteq {Head(s)} \cup ToSet(t)
    BY <2>1 DEF ToSet
  <2> QED BY <2>2, <2>3, <2>4
<1> QED BY <1>1, <1>3, <1>4, <1>5 DEF t

\* Sequences in a row: each in order, and all of one before all of a later one.
InRow(ss, n, D, R) ==
    /\ ss \in [1..n -> Seq(D)]
    /\ \A i \in 1..n : Ordered(ss[i], R)
    /\ \A i, j \in 1..n : i < j => AllBefore(ss[i], ss[j], R)

\* They are in order when they are flattened (FlattenSeq is folded: by induction).
LEMMA FlattenOrdered ==
    ASSUME NEW R, NEW D, NEW n \in Nat, NEW ss, InRow(ss, n, D, R)
    PROVE  /\ FlattenSeq(ss) \in Seq(D)
           /\ Ordered(FlattenSeq(ss), R)
           /\ ToSet(FlattenSeq(ss)) = UNION {ToSet(ss[i]) : i \in 1..n}
<1>0. ss \in [1..n -> Seq(D)]
  BY DEF InRow
<1>1. Len(ss) = n
  BY <1>0
<1>2. CASE n = 0
  <2>1. FlattenSeq(ss) = <<>>
    BY <1>1, <1>2 DEF FlattenSeq
  <2>2. ToSet(<<>>) = {}
    BY DEF ToSet
  <2> QED BY <1>2, <2>1, <2>2 DEF Ordered
<1>3. CASE n # 0
  <2> DEFINE Flattens(f, m) == f = [i \in 1..m |-> IF i = 1 THEN ss[i] ELSE f[i - 1] \o ss[i]]
             fn == CHOOSE f : Flattens(f, n)
  <2>1. FlattenSeq(ss) = fn[n]
    BY <1>1, <1>3 DEF FlattenSeq
  <2>2. \E f : Flattens(f, n)
    <3> DEFINE T == {m \in Nat : \E f : Flattens(f, m)}
    <3>1. 0 \in T
      <4>1. Flattens(<<>>, 0)
        OBVIOUS
      <4> QED BY <4>1
    <3>2. ASSUME NEW m \in Nat, m \in T PROVE m + 1 \in T
      <4>1. PICK f : Flattens(f, m)
        BY <3>2
      <4> DEFINE g == [i \in 1..(m + 1) |->
                         IF i <= m THEN f[i] ELSE IF i = 1 THEN ss[i] ELSE f[i - 1] \o ss[i]]
      <4>2. Flattens(g, m + 1)
        <5> SUFFICES ASSUME NEW i \in 1..(m + 1)
                     PROVE  g[i] = IF i = 1 THEN ss[i] ELSE g[i - 1] \o ss[i]
          OBVIOUS
        <5>1. CASE i <= m
          <6>1. f[i] = IF i = 1 THEN ss[i] ELSE f[i - 1] \o ss[i]
            <7>1. i \in 1..m
              BY <5>1
            <7> QED BY <4>1, <7>1, Zenon
          <6>2. i # 1 => g[i - 1] = f[i - 1]
            BY <5>1
          <6> QED BY <5>1, <6>1, <6>2
        <5>2. CASE i = m + 1
          <6>1. i # 1 => g[i - 1] = f[i - 1]
            BY <5>2
          <6> QED BY <5>2, <6>1
        <5> QED BY <5>1, <5>2
      <4> HIDE DEF g, Flattens
      <4> QED BY <4>2
    <3> HIDE DEF T
    <3>3. n \in T
      BY <3>1, <3>2, NaturalsIn
    <3> QED BY <3>3 DEF T
  <2>3. Flattens(fn, n)
    <3> HIDE DEF Flattens
    <3> QED BY <2>2
  <2> HIDE DEF fn
  <2>4. fn[1] = ss[1] /\ \A i \in 1..n : i # 1 => fn[i] = fn[i - 1] \o ss[i]
    <3>1. \A i \in 1..n : fn[i] = IF i = 1 THEN ss[i] ELSE fn[i - 1] \o ss[i]
      BY <2>3, Zenon
    <3>2. 1 \in 1..n
      BY <1>3
    <3> QED BY <3>1, <3>2
  <2> HIDE DEF Flattens
  <2> DEFINE Fine(i) == /\ fn[i] \in Seq(D) /\ Ordered(fn[i], R)
                        /\ ToSet(fn[i]) = UNION {ToSet(ss[k]) : k \in 1..i}
             U == {i \in Nat : 1 <= i /\ i <= n => Fine(i)}
  <2>5. 0 \in U
    OBVIOUS
  <2>6. ASSUME NEW i \in Nat, i \in U PROVE i + 1 \in U
    <3> SUFFICES ASSUME i + 1 <= n PROVE Fine(i + 1)
      OBVIOUS
    <3>1. CASE i = 0
      <4>1. 1 \in 1..n /\ fn[i + 1] = ss[1] /\ Ordered(ss[1], R)
        BY <1>3, <2>4, <3>1 DEF InRow
      <4>2. UNION {ToSet(ss[k]) : k \in 1..(i + 1)} = ToSet(ss[1])
        BY <3>1
      <4> QED BY <1>0, <4>1, <4>2
    <3>2. CASE i # 0
      <4>1. i \in 1..n /\ i + 1 \in 1..n /\ Fine(i)
        BY <2>6, <3>2
      <4>2. PICK s : s = fn[i]
        OBVIOUS
      <4>3. PICK t : t = ss[i + 1]
        OBVIOUS
      <4>4. s \in Seq(D) /\ Ordered(s, R) /\ t \in Seq(D) /\ Ordered(t, R)
        BY <4>1, <4>2, <4>3 DEF InRow
      <4>5. AllBefore(s, t, R)
        <5>1. \A k \in 1..i : k \in 1..n /\ k < i + 1
          BY <4>1
        <5>2. \A k \in 1..i : AllBefore(ss[k], t, R)
          BY <4>1, <4>3, <5>1 DEF InRow
        <5>3. \A x \in ToSet(s) : \E k \in 1..i : x \in ToSet(ss[k])
          BY <4>1, <4>2
        <5> QED BY <5>2, <5>3 DEF AllBefore
      <4>6. s \o t \in Seq(D) /\ Ordered(s \o t, R) /\ ToSet(s \o t) = ToSet(s) \cup ToSet(t)
        BY <4>4, <4>5, JoinOrdered
      <4>7. fn[i + 1] = s \o t
        <5>1. (i + 1) - 1 = i /\ i + 1 # 1
          BY <3>2
        <5>2. fn[i + 1] = fn[(i + 1) - 1] \o ss[i + 1]
          BY <2>4, <4>1, <5>1
        <5> QED BY <4>2, <4>3, <5>1, <5>2
      <4>8. UNION {ToSet(ss[k]) : k \in 1..(i + 1)}
              = (UNION {ToSet(ss[k]) : k \in 1..i}) \cup ToSet(ss[i + 1])
        <5>1. 1..(i + 1) = 1..i \cup {i + 1}
          OBVIOUS
        <5> QED BY <5>1
      <4> QED BY <4>1, <4>2, <4>3, <4>6, <4>7, <4>8
    <3> QED BY <3>1, <3>2
  <2> HIDE DEF U
  <2>7. n \in U
    BY <2>5, <2>6, NaturalsIn
  <2> QED BY <1>3, <2>1, <2>7 DEF U
<1> QED BY <1>2, <1>3


(***************************************************************************)
(* The inductive invariant.                                                *)
(***************************************************************************)

AllLists == Lists("params") \cup Lists("results")
Exports == call.dir = "export"

\* Is an instruction still to be run?
Left(what, l) == [do |-> what, list |-> l] \in ToSet(todo)

\* The instruction that allocates a list's memory, or takes it from the vector
\* that owns it, for the other side; and those that take it over or free it.
Make(l) ==
    IF Exports THEN IF l \in Lists("results") THEN "guest lower" ELSE "malloc"
    ELSE IF l \in Lists("params") THEN "guest lower" ELSE "malloc"
Taken(l) == \E take \in {"guest lift", "host lift", "return"} : Left(take, l)

\* The lists whose memory is accounted for: by a vector, or by the wrappers.
Passed(l) == ~Left(Make(l), l) /\ Taken(l)
Held(l) == l \in owned \/ Passed(l)

\* The instructions there are, and their order.
Instr(what, ls) == {[do |-> what, list |-> l] : l \in ls}
Canonicals(ls) == {l \in ls : IsCanonical(l)}
Instrs ==
    IF Exports
      THEN Instr("malloc", Lists("params") \cup {Space}) \cup Instr("guest lift", Lists("params"))
           \cup Instr("export", {Space}) \cup Instr("guest lower", Lists("results"))
           \cup Instr("host lift", Lists("results")) \cup Instr("return", {Space})
      ELSE Instr("make params", {Space}) \cup Instr("guest lower", Lists("params"))
           \cup Instr("host read", Lists("params")) \cup Instr("malloc", Lists("results"))
           \cup Instr("guest lift", Lists("results"))
           \cup Instr("return", Lists("params") \ Canonicals(Lists("params")))
           \cup Instr("drop all", {Space})
Place(what) ==
    IF Exports
      THEN CASE what = "malloc" -> 1 [] what = "guest lift" -> 2 [] what = "export" -> 3
             [] what = "guest lower" -> 4 [] what = "host lift" -> 5 [] OTHER -> 6
      ELSE CASE what = "make params" -> 1 [] what = "guest lower" -> 2 [] what = "host read" -> 3
             [] what = "malloc" -> 4 [] what = "guest lift" -> 5 [] what = "return" -> 6
             [] OTHER -> 7
Before == {p \in Instrs \X Instrs : p[1] # p[2] /\ Place(p[1].do) <= Place(p[2].do)}

TodoFine == todo \in Seq(Instrs) /\ Ordered(todo, Before)

\* What is still to be run of an export before the guest's function is ...
\* and of an import before its parameters are read.
Prepared ==
    IF Exports
      THEN \A l \in Lists("results") :
              /\ Left("export", Space) => Left("guest lower", l)
              /\ Left("guest lower", l) /\ IsCanonical(l) => Left("export", Space) \/ l \in owned
      ELSE \A l \in Lists("params") : Left("host read", l) =>
              IF IsCanonical(l) THEN Left("make params", Space) \/ l \in owned
              ELSE Left("return", l)

\* Vectors are of canonical items, and what they own nobody else takes over.
OwnedFine ==
    \A l \in owned :
        /\ l \in AllLists /\ IsCanonical(l)
        /\ IF Exports /\ l \in Lists("results") THEN Left("guest lower", l) ELSE ~Taken(l)

HeapFine == IsFiniteSet(DOMAIN heap) /\ DOMAIN heap \subseteq Nat \ {Dangling}

\* The memory of a list that is held is there, unless it has no items.
Backed(l) ==
    /\ l \in DOMAIN at
    /\ \/ l # Space /\ Length(l) = 0 /\ at[l] = Dangling
       \/ at[l] \in DOMAIN heap /\ heap[at[l]].size = Layout(l).size

\* No memory is accounted for twice.
Accounted(ls) ==
    /\ \A l \in ls : Backed(l)
    /\ \A k, l \in ls : k # l /\ at[k] = at[l] => at[k] = Dangling
HeldLists == {l \in AllLists \cup {Space} : Held(l)}

\* Of an empty list nothing is freed that has a size.
RefusedEmpty == \A l \in refused : l \in AllLists /\ Length(l) = 0

CallFine == call \in [dir : {"import", "export"}, params : Seq(Value), results : Seq(Value)]

Running == TodoFine /\ Prepared /\ OwnedFine /\ HeapFine /\ Accounted(HeldLists)

IInv == CallFine /\ (todo # <<>> => Running) /\ RefusedEmpty /\ ReadsLive

(***************************************************************************)
(* The lists of a call.                                                    *)
(***************************************************************************)

\* The list of one parameter or result with those that its items own.
Family(side, i) == {<<side, i, j>> : j \in 0..Len(call[side][i].of)}
Names(side) == UNION {Family(side, i) : i \in DOMAIN call[side]}
Distinct(D) == {p \in D \X D : p[1] # p[2]}

\* What is passed are values.
LEMMA CallIs ==
    ASSUME CallFine, NEW side \in {"params", "results"}
    PROVE  /\ call[side] \in Seq(Value)
           /\ Len(call[side]) \in Nat /\ DOMAIN call[side] = 1..Len(call[side])
           /\ \A i \in DOMAIN call[side] :
                 call[side][i] \in Value /\ Len(call[side][i].of) \in Nat
<1>1. call[side] \in Seq(Value)
  BY DEF CallFine
<1>2. \A v \in Value : Len(v.of) \in Nat
  BY ListsAssumption DEF ListsAssumption
<1> QED BY <1>1, <1>2

\* Families have no list in common.
LEMMA FamiliesApart ==
    ASSUME NEW side, NEW i, NEW k, i # k, NEW a \in Family(side, i), NEW b \in Family(side, k)
    PROVE  a # b
BY DEF Family

\* A family in some order, and the families in a row.
Permutes(f, m) ==
    /\ \A h \in 1..(m + 1) : f[h] \in 0..m
    /\ \A j \in 0..m : \E h \in 1..(m + 1) : f[h] = j
    /\ \A h, k \in 1..(m + 1) : f[h] = f[k] => h = k
Lined(s, f, m, side, i, D) ==
    /\ s \in [1..(m + 1) -> D]
    /\ \A h \in 1..(m + 1) : s[h] = <<side, i, f[h]>>

\* A family in some order has each of its lists once.
LEMMA FamilyInOrder ==
    ASSUME NEW side, NEW i, NEW m \in Nat, NEW f, m = Len(call[side][i].of), Permutes(f, m),
           NEW D, Family(side, i) \subseteq D,
           NEW s, Lined(s, f, m, side, i, D)
    PROVE  s \in Seq(D) /\ Ordered(s, Distinct(D)) /\ ToSet(s) = Family(side, i)
<1>1. \A h \in 1..(m + 1) : s[h] = <<side, i, f[h]>> /\ s[h] \in Family(side, i)
  BY DEF Family, Lined, Permutes
<1>2. DOMAIN s = 1..(m + 1)
  BY DEF Lined
<1>3. s \in Seq(D)
  <2>1. m + 1 \in Nat /\ s \in [1..(m + 1) -> D]
    BY DEF Lined
  <2> QED BY <2>1
<1>4. Ordered(s, Distinct(D))
  <2> SUFFICES ASSUME NEW h \in 1..(m + 1), NEW k \in 1..(m + 1), h < k
               PROVE  <<s[h], s[k]>> \in Distinct(D)
    BY <1>2 DEF Ordered
  <2>1. f[h] # f[k]
    BY DEF Permutes
  <2>2. s[h] # s[k] /\ s[h] \in D /\ s[k] \in D
    BY <1>1, <2>1
  <2> QED BY <2>2 DEF Distinct
<1>5. ToSet(s) \subseteq Family(side, i)
  <2>1. \A h \in DOMAIN s : s[h] \in Family(side, i)
    BY <1>1, <1>2
  <2> QED BY <2>1, Zenon DEF ToSet
<1>6. Family(side, i) \subseteq ToSet(s)
  <2> SUFFICES ASSUME NEW j \in 0..m PROVE <<side, i, j>> \in ToSet(s)
    BY DEF Family
  <2>1. PICK h \in 1..(m + 1) : f[h] = j
    BY DEF Permutes
  <2> QED BY <1>1, <1>2, <2>1 DEF ToSet
<1> QED BY <1>3, <1>4, <1>5, <1>6

\* So have the families in a row, as Pre, Post and Lowered make them.
LEMMA FamiliesInOrder ==
    ASSUME CallFine, NEW side \in {"params", "results"}, NEW ss,
           ss \in [DOMAIN call[side] -> Seq(Names(side))],
           \A i \in DOMAIN call[side] :
              /\ Ordered(ss[i], Distinct(Names(side)))
              /\ ToSet(ss[i]) \subseteq Family(side, i)
    PROVE  /\ FlattenSeq(ss) \in Seq(Names(side))
           /\ Ordered(FlattenSeq(ss), Distinct(Names(side)))
           /\ ToSet(FlattenSeq(ss)) = UNION {ToSet(ss[i]) : i \in DOMAIN call[side]}
<1>1. PICK n \in Nat : DOMAIN call[side] = 1..n
  BY CallIs
<1>2. PICK D : D = Names(side)
  OBVIOUS
<1>3. PICK R : R = Distinct(D)
  OBVIOUS
<1>4. ss \in [1..n -> Seq(D)] /\ \A i \in 1..n : Ordered(ss[i], R)
  BY <1>1, <1>2, <1>3
<1>5. ASSUME NEW i \in 1..n, NEW j \in 1..n, i < j PROVE AllBefore(ss[i], ss[j], R)
  <2> SUFFICES ASSUME NEW a \in ToSet(ss[i]), NEW b \in ToSet(ss[j]) PROVE <<a, b>> \in R
    BY DEF AllBefore
  <2>1. a \in Family(side, i) /\ b \in Family(side, j) /\ i # j
    BY <1>1, <1>5
  <2>2. a # b
    BY <2>1, FamiliesApart
  <2>3. a \in D /\ b \in D
    BY <1>1, <1>2, <2>1 DEF Names
  <2> QED BY <1>3, <2>2, <2>3 DEF Distinct
<1>6. /\ FlattenSeq(ss) \in Seq(D) /\ Ordered(FlattenSeq(ss), R)
      /\ ToSet(FlattenSeq(ss)) = UNION {ToSet(ss[i]) : i \in 1..n}
  <2>1. ss \in [1..n -> Seq(D)]
    BY <1>4
  <2>2. \A i \in 1..n : Ordered(ss[i], R)
    BY <1>4
  <2>3. \A i, j \in 1..n : i < j => AllBefore(ss[i], ss[j], R)
    BY <1>5
  <2>4. InRow(ss, n, D, R)
    BY <2>1, <2>2, <2>3 DEF InRow
  <2> QED BY <1>1, <2>4, FlattenOrdered
<1> QED BY <1>1, <1>2, <1>3, <1>6

\* Owners first.
LEMMA PreIs ==
    ASSUME CallFine, NEW side \in {"params", "results"}
    PROVE  /\ Pre(side) \in Seq(Names(side)) /\ Ordered(Pre(side), Distinct(Names(side)))
           /\ ToSet(Pre(side)) = Names(side)
<1> DEFINE m(i) == Len(call[side][i].of)
<1>0. PICK ss : ss = [i \in DOMAIN call[side] |-> [j \in 1..(m(i) + 1) |-> <<side, i, j - 1>>]]
  OBVIOUS
<1>1. ASSUME NEW i \in DOMAIN call[side]
      PROVE  /\ ss[i] \in Seq(Names(side)) /\ Ordered(ss[i], Distinct(Names(side)))
             /\ ToSet(ss[i]) = Family(side, i)
  <2>1. PICK k \in Nat : k = m(i)
    BY CallIs
  <2>2. PICK f : f = [j \in 1..(k + 1) |-> j - 1]
    OBVIOUS
  <2>3. Permutes(f, k)
    <3>1. \A h \in 1..(k + 1) : f[h] = h - 1
      BY <2>2
    <3>2. \A j \in 0..k : j + 1 \in 1..(k + 1) /\ f[j + 1] = j
      BY <3>1
    <3>3. \A h \in 1..(k + 1) : f[h] \in 0..k
      BY <3>1
    <3> QED BY <3>1, <3>2, <3>3 DEF Permutes
  <2>4. ss[i] = [h \in 1..(k + 1) |-> <<side, i, f[h]>>]
    BY <1>0, <2>1, <2>2
  <2>5. Family(side, i) \subseteq Names(side)
    BY DEF Names
  <2>9. ASSUME NEW h \in 1..(k + 1) PROVE <<side, i, f[h]>> \in Names(side)
    BY <2>1, <2>3, <2>5 DEF Family, Permutes
  <2>6. PICK s : s = ss[i]
    OBVIOUS
  <2>7. PICK D : D = Names(side)
    OBVIOUS
  <2>8. s \in Seq(D) /\ Ordered(s, Distinct(D)) /\ ToSet(s) = Family(side, i)
    <3>1. Lined(s, f, k, side, i, D)
      BY <2>4, <2>6, <2>7, <2>9 DEF Lined
    <3> QED BY <2>1, <2>3, <2>5, <2>7, <3>1, FamilyInOrder
  <2> QED BY <2>6, <2>7, <2>8
<1>2. Pre(side) = FlattenSeq(ss) /\ DOMAIN ss = DOMAIN call[side]
  BY <1>0 DEF Pre
<1>3. ss = [i \in DOMAIN call[side] |-> ss[i]]
  BY <1>0
<1>4. /\ FlattenSeq(ss) \in Seq(Names(side)) /\ Ordered(FlattenSeq(ss), Distinct(Names(side)))
      /\ ToSet(FlattenSeq(ss)) = UNION {ToSet(ss[i]) : i \in DOMAIN call[side]}
  <2>1. \A i \in DOMAIN call[side] :
           /\ ss[i] \in Seq(Names(side)) /\ Ordered(ss[i], Distinct(Names(side)))
           /\ ToSet(ss[i]) \subseteq Family(side, i)
    BY <1>1
  <2>2. ss \in [DOMAIN call[side] -> Seq(Names(side))]
    BY <1>3, <2>1
  <2> QED BY <2>1, <2>2, FamiliesInOrder
<1>5. ToSet(Pre(side)) = Names(side)
  BY <1>1, <1>2, <1>4 DEF Names
<1> QED BY <1>2, <1>4, <1>5

\* Owners last.
LEMMA PostIs ==
    ASSUME CallFine, NEW side \in {"params", "results"}
    PROVE  /\ Post(side) \in Seq(Names(side)) /\ Ordered(Post(side), Distinct(Names(side)))
           /\ ToSet(Post(side)) = Names(side)
<1> DEFINE m(i) == Len(call[side][i].of)
<1>0. PICK ss : ss = [i \in DOMAIN call[side] |->
                    [j \in 1..(m(i) + 1) |-> <<side, i, IF j > m(i) THEN 0 ELSE j>>]]
  OBVIOUS
<1>1. ASSUME NEW i \in DOMAIN call[side]
      PROVE  /\ ss[i] \in Seq(Names(side)) /\ Ordered(ss[i], Distinct(Names(side)))
             /\ ToSet(ss[i]) = Family(side, i)
  <2>1. PICK k \in Nat : k = m(i)
    BY CallIs
  <2>2. PICK f : f = [j \in 1..(k + 1) |-> IF j > k THEN 0 ELSE j]
    OBVIOUS
  <2>3. Permutes(f, k)
    <3>1. \A h \in 1..(k + 1) : f[h] = IF h > k THEN 0 ELSE h
      BY <2>2
    <3>2. f[k + 1] = 0 /\ k + 1 \in 1..(k + 1)
      BY <3>1
    <3>3. \A j \in 1..k : j \in 1..(k + 1) /\ f[j] = j
      BY <3>1
    <3>4. \A h \in 1..(k + 1) : f[h] \in 0..k
      BY <3>1
    <3>5. \A h, j \in 1..(k + 1) : f[h] = f[j] => h = j
      BY <3>1
    <3>6. \A j \in 0..k : j = 0 \/ j \in 1..k
      OBVIOUS
    <3> QED BY <3>2, <3>3, <3>4, <3>5, <3>6 DEF Permutes
  <2>4. ss[i] = [h \in 1..(k + 1) |-> <<side, i, f[h]>>]
    BY <1>0, <2>1, <2>2
  <2>5. Family(side, i) \subseteq Names(side)
    BY DEF Names
  <2>9. ASSUME NEW h \in 1..(k + 1) PROVE <<side, i, f[h]>> \in Names(side)
    BY <2>1, <2>3, <2>5 DEF Family, Permutes
  <2>6. PICK s : s = ss[i]
    OBVIOUS
  <2>7. PICK D : D = Names(side)
    OBVIOUS
  <2>8. s \in Seq(D) /\ Ordered(s, Distinct(D)) /\ ToSet(s) = Family(side, i)
    <3>1. Lined(s, f, k, side, i, D)
      BY <2>4, <2>6, <2>7, <2>9 DEF Lined
    <3> QED BY <2>1, <2>3, <2>5, <2>7, <3>1, FamilyInOrder
  <2> QED BY <2>6, <2>7, <2>8
<1>2. Post(side) = FlattenSeq(ss) /\ DOMAIN ss = DOMAIN call[side]
  BY <1>0 DEF Post
<1>3. ss = [i \in DOMAIN call[side] |-> ss[i]]
  BY <1>0
<1>4. /\ FlattenSeq(ss) \in Seq(Names(side)) /\ Ordered(FlattenSeq(ss), Distinct(Names(side)))
      /\ ToSet(FlattenSeq(ss)) = UNION {ToSet(ss[i]) : i \in DOMAIN call[side]}
  <2>1. \A i \in DOMAIN call[side] :
           /\ ss[i] \in Seq(Names(side)) /\ Ordered(ss[i], Distinct(Names(side)))
           /\ ToSet(ss[i]) \subseteq Family(side, i)
    BY <1>1
  <2>2. ss \in [DOMAIN call[side] -> Seq(Names(side))]
    BY <1>3, <2>1
  <2> QED BY <2>1, <2>2, FamiliesInOrder
<1>5. ToSet(Post(side)) = Names(side)
  BY <1>1, <1>2, <1>4 DEF Names
<1> QED BY <1>2, <1>4, <1>5

\* The lists whose items are lowered one by one are those that are not canonical.
LEMMA LoweredIs ==
    ASSUME CallFine, NEW side \in {"params", "results"}
    PROVE  /\ Lowered(side) \in Seq(Names(side))
           /\ Ordered(Lowered(side), Distinct(Names(side)))
           /\ ToSet(Lowered(side)) = {l \in Names(side) : ~IsCanonical(l)}
<1>0. PICK ss : ss = [i \in DOMAIN call[side] |->
                        IF IsCanonical(<<side, i, 0>>) THEN <<>> ELSE <<<<side, i, 0>>>>]
  OBVIOUS
<1>1. ASSUME NEW i \in DOMAIN call[side]
      PROVE  /\ ss[i] \in Seq(Names(side)) /\ Ordered(ss[i], Distinct(Names(side)))
             /\ ToSet(ss[i]) = {l \in Family(side, i) : ~IsCanonical(l)}
  <2>1. <<side, i, 0>> \in Family(side, i) /\ Family(side, i) \subseteq Names(side)
    BY CallIs DEF Family, Names
  <2>2. ASSUME NEW l \in Family(side, i), l # <<side, i, 0>> PROVE IsCanonical(l)
    <3>1. PICK j \in 0..Len(call[side][i].of) : l = <<side, i, j>>
      BY DEF Family
    <3>2. PICK v \in Value : v = call[side][i]
      BY CallIs
    <3>3. j # 0 /\ Len(v.of) \in Nat /\ j <= Len(v.of)
      BY <2>2, <3>1, <3>2, CallIs
    <3>4. v.item \in DOMAIN Nesting
      BY <3>2, <3>3, ListsAssumption DEF ListsAssumption
    <3>5. Item(l) = Nesting[v.item]
      BY <3>1, <3>2, <3>3 DEF Item
    <3> QED BY <3>4, <3>5, ListsAssumption DEF ListsAssumption, IsCanonical
  <2>3. CASE IsCanonical(<<side, i, 0>>)
    <3>1. ss[i] = <<>>
      BY <1>0, <2>3
    <3>2. ToSet(<<>>) = {}
      BY DEF ToSet
    <3> QED BY <2>2, <2>3, <3>1, <3>2 DEF Ordered
  <2>4. CASE ~IsCanonical(<<side, i, 0>>)
    <3>1. PICK s : s = <<<<side, i, 0>>>>
      OBVIOUS
    <3>2. s \in Seq(Names(side)) /\ DOMAIN s = {1} /\ s[1] = <<side, i, 0>>
      BY <2>1, <3>1
    <3>3. ToSet(s) = {<<side, i, 0>>}
      <4>1. PICK l : l = <<side, i, 0>>
        OBVIOUS
      <4>2. ToSet(s) = {l}
        BY <3>2, <4>1, Zenon DEF ToSet
      <4> QED BY <4>1, <4>2
    <3>4. Ordered(s, Distinct(Names(side)))
      BY <3>2 DEF Ordered
    <3>5. ss[i] = s
      BY <1>0, <2>4, <3>1
    <3> QED BY <2>1, <2>2, <2>4, <3>2, <3>3, <3>4, <3>5
  <2> QED BY <2>3, <2>4
<1>2. Lowered(side) = FlattenSeq(ss) /\ DOMAIN ss = DOMAIN call[side]
  BY <1>0 DEF Lowered
<1>3. ss = [i \in DOMAIN call[side] |-> ss[i]]
  BY <1>0
<1>4. /\ FlattenSeq(ss) \in Seq(Names(side)) /\ Ordered(FlattenSeq(ss), Distinct(Names(side)))
      /\ ToSet(FlattenSeq(ss)) = UNION {ToSet(ss[i]) : i \in DOMAIN call[side]}
  <2>1. \A i \in DOMAIN call[side] :
           /\ ss[i] \in Seq(Names(side)) /\ Ordered(ss[i], Distinct(Names(side)))
           /\ ToSet(ss[i]) \subseteq Family(side, i)
    BY <1>1
  <2>2. ss \in [DOMAIN call[side] -> Seq(Names(side))]
    BY <1>3, <2>1
  <2> QED BY <2>1, <2>2, FamiliesInOrder
<1>5. ToSet(Lowered(side)) = {l \in Names(side) : ~IsCanonical(l)}
  BY <1>1, <1>2, <1>4 DEF Names
<1> QED BY <1>2, <1>4, <1>5

\* No list is on both sides, or is the space for results.
LEMMA ListsApart ==
    ASSUME CallFine
    PROVE  /\ Lists("params") \cap Lists("results") = {}
           /\ Space \notin AllLists
<1>1. Lists("params") = Names("params") /\ Lists("results") = Names("results")
  BY PreIs DEF Lists
<1>2. ASSUME NEW side, NEW l \in Names(side) PROVE l[1] = side
  BY DEF Names, Family
<1>3. \A l \in Names("params") : l[1] = "params"
  BY <1>2
<1>4. \A l \in Names("results") : l[1] = "results"
  BY <1>2
<1> QED BY <1>1, <1>3, <1>4 DEF AllLists, Space

(***************************************************************************)
(* The wrappers: in the order of their places, each instruction once.      *)
(***************************************************************************)

Segment(t, what, ls) ==
    t \in Seq(Instrs) /\ Ordered(t, Before) /\ ToSet(t) = Instr(what, ls)

\* The same instruction for several lists.
LEMMA DoIs ==
    ASSUME NEW what, NEW L, NEW s \in Seq(L), Ordered(s, Distinct(L)),
           Instr(what, ToSet(s)) \subseteq Instrs
    PROVE  Segment(Do(what, s), what, ToSet(s))
<1>1. PICK t : t = Do(what, s)
  OBVIOUS
<1>2. PICK m \in Nat : DOMAIN s = 1..m
  OBVIOUS
<1>3. DOMAIN t = DOMAIN s /\ \A i \in DOMAIN s : t[i] = [do |-> what, list |-> s[i]] /\ s[i] \in L
  BY <1>1 DEF Do
<1>4. \A i \in DOMAIN s : t[i] \in Instrs
  BY <1>3 DEF Instr, ToSet
<1>5. t \in Seq(Instrs)
  <2>1. t \in [1..m -> Instrs]
    <3>1. t = [i \in DOMAIN s |-> t[i]]
      BY <1>1, <1>3 DEF Do
    <3> QED BY <1>2, <1>3, <1>4, <3>1
  <2> QED BY <1>2, <2>1
<1>6. Ordered(t, Before)
  <2> SUFFICES ASSUME NEW i \in DOMAIN s, NEW j \in DOMAIN s, i < j
               PROVE  <<t[i], t[j]>> \in Before
    BY <1>3 DEF Ordered
  <2>1. <<s[i], s[j]>> \in Distinct(L)
    BY DEF Ordered
  <2>2. s[i] # s[j]
    BY <2>1 DEF Distinct
  <2>3. t[i].do = what /\ t[j].do = what /\ t[i].list = s[i] /\ t[j].list = s[j]
    BY <1>3
  <2>4. t[i] # t[j]
    BY <2>2, <2>3
  <2>5. Place(t[i].do) <= Place(t[j].do)
    BY <2>3 DEF Place
  <2> QED BY <1>4, <2>4, <2>5 DEF Before
<1>7. ToSet(t) = Instr(what, ToSet(s))
  BY <1>3, Zenon DEF ToSet, Instr
<1> QED BY <1>1, <1>5, <1>6, <1>7 DEF Segment

\* An instruction that is about no list.
LEMMA OnceIs ==
    ASSUME NEW what, Instr(what, {Space}) \subseteq Instrs
    PROVE  Segment(Once(what), what, {Space})
<1>1. PICK t : t = Once(what)
  OBVIOUS
<1>2. PICK i : i = [do |-> what, list |-> Space]
  OBVIOUS
<1>3. Instr(what, {Space}) = {i}
  BY <1>2, Zenon DEF Instr
<1>4. t = <<i>>
  BY <1>1, <1>2 DEF Once
<1>5. t \in Seq(Instrs) /\ DOMAIN t = {1} /\ t[1] = i
  BY <1>3, <1>4
<1>6. ToSet(t) = {i}
  BY <1>5, Zenon DEF ToSet
<1>7. Ordered(t, Before)
  BY <1>5 DEF Ordered
<1> QED BY <1>1, <1>3, <1>5, <1>6, <1>7 DEF Segment

\* What comes up to some place, and a segment for a later one.
Upto(s, last, S) ==
    s \in Seq(Instrs) /\ Ordered(s, Before) /\ ToSet(s) = S /\ \A a \in ToSet(s) : Place(a.do) <= Place(last)

Sooner(last, what) == Place(last) < Place(what)
Joined(c, s, t) == c = s \o t

\* Places are numbers ...
LEMMA PlaceIsNat == \A what : Place(what) \in 1..7
BY DEF Place

\* ... that can be compared.
LEMMA PlaceItself == \A what : Place(what) <= Place(what)
BY PlaceIsNat

\* One may be due when the other is still to be run.
Due(what, w) == Place(what) <= Place(w)

\* What is never due while another is left: as the wrappers are written.
LEMMA NotDue ==
    /\ Exports => /\ ~Due("guest lift", "malloc") /\ ~Due("return", "malloc")
                  /\ ~Due("guest lower", "export") /\ ~Due("host lift", "guest lower")
    /\ ~Exports => /\ ~Due("guest lift", "malloc") /\ ~Due("return", "guest lower")
                   /\ ~Due("return", "host read") /\ ~Due("host read", "guest lower")
                   /\ ~Due("host read", "make params") /\ ~Due("drop all", "host read")
<1>1. CASE Exports
  BY <1>1 DEF Due, Place
<1>2. CASE ~Exports
  BY <1>2 DEF Due, Place
<1> QED BY <1>1, <1>2

\* A first segment.
LEMMA SegmentUpto ==
    ASSUME NEW what, NEW ls, NEW t, Segment(t, what, ls) PROVE Upto(t, what, Instr(what, ls))
<1>1. \A a \in ToSet(t) : a.do = what
  BY DEF Segment, Instr
<1>2. Place(what) <= Place(what)
  BY PlaceIsNat
<1> QED BY <1>1, <1>2 DEF Upto, Segment

\* A segment is added after those of earlier places.
LEMMA AddSegment ==
    ASSUME NEW last, NEW S, NEW s, Upto(s, last, S), NEW what, NEW ls, NEW t, Segment(t, what, ls),
           Sooner(last, what), NEW c, Joined(c, s, t)
    PROVE  Upto(c, what, S \cup Instr(what, ls))
<1>1. \A a \in ToSet(t) : a.do = what /\ a \in Instrs
  BY DEF Segment, Instr, ToSet
<1>2. \A a \in ToSet(s) : Place(a.do) <= Place(last) /\ a \in Instrs
  BY DEF Upto, ToSet
<1>3. AllBefore(s, t, Before)
  <2> SUFFICES ASSUME NEW a \in ToSet(s), NEW b \in ToSet(t) PROVE <<a, b>> \in Before
    BY DEF AllBefore
  <2>1. Place(a.do) <= Place(last) /\ Place(b.do) = Place(what)
    BY <1>1, <1>2
  <2>2. Place(a.do) < Place(b.do) /\ Place(a.do) <= Place(b.do)
    BY <2>1, PlaceIsNat DEF Sooner
  <2>3. a # b
    BY <2>2, PlaceIsNat
  <2> QED BY <1>1, <1>2, <2>2, <2>3 DEF Before
<1>5. c \in Seq(Instrs) /\ Ordered(c, Before) /\ ToSet(c) = ToSet(s) \cup ToSet(t)
  BY <1>3, JoinOrdered DEF Upto, Segment, Joined
<1>6. \A a \in ToSet(c) : Place(a.do) <= Place(what)
  <2>1. ASSUME NEW a \in ToSet(s) PROVE Place(a.do) <= Place(what)
    BY <1>2, PlaceIsNat DEF Sooner
  <2>2. ASSUME NEW a \in ToSet(t) PROVE Place(a.do) <= Place(what)
    BY <1>1, PlaceIsNat
  <2> QED BY <1>5, <2>1, <2>2
<1> QED BY <1>5, <1>6 DEF Upto, Segment

\* The same instruction for more lists.
LEMMA JoinSegments ==
    ASSUME NEW what, NEW ls, NEW ms, NEW s, NEW t, Segment(s, what, ls), Segment(t, what, ms),
           ls \cap ms = {}
    PROVE  Segment(s \o t, what, ls \cup ms)
<1>1. \A a \in ToSet(s) : a.do = what /\ a.list \in ls /\ a \in Instrs
  BY DEF Segment, Instr, ToSet
<1>2. \A a \in ToSet(t) : a.do = what /\ a.list \in ms /\ a \in Instrs
  BY DEF Segment, Instr, ToSet
<1>3. AllBefore(s, t, Before)
  <2> SUFFICES ASSUME NEW a \in ToSet(s), NEW b \in ToSet(t) PROVE <<a, b>> \in Before
    BY DEF AllBefore
  <2>1. a # b
    BY <1>1, <1>2
  <2>2. Place(a.do) <= Place(b.do)
    BY <1>1, <1>2, PlaceIsNat
  <2> QED BY <1>1, <1>2, <2>1, <2>2 DEF Before
<1>4. PICK c : c = s \o t
  OBVIOUS
<1>5. c \in Seq(Instrs) /\ Ordered(c, Before) /\ ToSet(c) = ToSet(s) \cup ToSet(t)
  BY <1>3, <1>4, JoinOrdered DEF Segment
<1>6. Instr(what, ls) \cup Instr(what, ms) = Instr(what, ls \cup ms)
  BY Zenon DEF Instr
<1> QED BY <1>4, <1>5, <1>6 DEF Segment

\* An instruction for no list.
LEMMA NoSegment == \A what : Segment(<<>>, what, {})
<1>1. ToSet(<<>>) = {}
  BY DEF ToSet
<1>2. \A what : Instr(what, {}) = {}
  BY DEF Instr
<1> QED BY <1>1, <1>2 DEF Segment, Ordered

\* The orders in which the instructions go through the lists of a side.
LEMMA ListsAre ==
    ASSUME CallFine, NEW side \in {"params", "results"}
    PROVE  /\ Lists(side) = Names(side) /\ Space \notin Lists(side)
           /\ Pre(side) \in Seq(Lists(side)) /\ Ordered(Pre(side), Distinct(Lists(side)))
           /\ Post(side) \in Seq(Lists(side)) /\ Ordered(Post(side), Distinct(Lists(side)))
           /\ Lowered(side) \in Seq(Lists(side))
           /\ Ordered(Lowered(side), Distinct(Lists(side)))
           /\ ToSet(Pre(side)) = Lists(side) /\ ToSet(Post(side)) = Lists(side)
           /\ ToSet(Lowered(side)) = Lists(side) \ Canonicals(Lists(side))
<1>1. Lists(side) = Names(side)
  BY PreIs DEF Lists
<1>2. ToSet(Lowered(side)) = Lists(side) \ Canonicals(Lists(side))
  BY <1>1, LoweredIs DEF Canonicals
<1> QED BY <1>1, <1>2, PreIs, PostIs, LoweredIs, ListsApart DEF AllLists

\* The segments of the wrappers that are about lists.
LEMMA ListsDo ==
    ASSUME CallFine, NEW side \in {"params", "results"}, NEW what
    PROVE  /\ Instr(what, Lists(side)) \subseteq Instrs =>
                 /\ Segment(Do(what, Pre(side)), what, Lists(side))
                 /\ Segment(Do(what, Post(side)), what, Lists(side))
           /\ Instr(what, Lists(side) \ Canonicals(Lists(side))) \subseteq Instrs =>
                 Segment(Do(what, Lowered(side)), what, Lists(side) \ Canonicals(Lists(side)))
<1>1. PICK L : L = Lists(side)
  OBVIOUS
<1>2. ASSUME NEW s \in Seq(L), Ordered(s, Distinct(L)), Instr(what, ToSet(s)) \subseteq Instrs
      PROVE  Segment(Do(what, s), what, ToSet(s))
  BY <1>2, DoIs
<1>3. /\ Pre(side) \in Seq(L) /\ Ordered(Pre(side), Distinct(L)) /\ ToSet(Pre(side)) = L
      /\ Post(side) \in Seq(L) /\ Ordered(Post(side), Distinct(L)) /\ ToSet(Post(side)) = L
      /\ Lowered(side) \in Seq(L) /\ Ordered(Lowered(side), Distinct(L))
      /\ ToSet(Lowered(side)) = L \ Canonicals(L)
  BY <1>1, ListsAre
<1>4. ASSUME Instr(what, L) \subseteq Instrs
      PROVE  Segment(Do(what, Pre(side)), what, L) /\ Segment(Do(what, Post(side)), what, L)
  <2>1. Segment(Do(what, Pre(side)), what, ToSet(Pre(side)))
    BY <1>2, <1>3, <1>4
  <2>2. Segment(Do(what, Post(side)), what, ToSet(Post(side)))
    BY <1>2, <1>3, <1>4
  <2> QED BY <1>3, <2>1, <2>2
<1>5. ASSUME Instr(what, L \ Canonicals(L)) \subseteq Instrs
      PROVE  Segment(Do(what, Lowered(side)), what, L \ Canonicals(L))
  <2>1. Segment(Do(what, Lowered(side)), what, ToSet(Lowered(side)))
    BY <1>2, <1>3, <1>5
  <2> QED BY <1>3, <2>1
<1> QED BY <1>1, <1>4, <1>5

\* The space for results is used if there are several.
Spaces == IF Len(call.results) > 1 THEN {Space} ELSE {}

\* An export's wrappers.
LEMMA ExportWrappersAre ==
    ASSUME CallFine, Exports
    PROVE  /\ ExportWrappers \in Seq(Instrs) /\ Ordered(ExportWrappers, Before)
           /\ ToSet(ExportWrappers) =
                Instr("malloc", Lists("params") \cup Spaces)
                \cup Instr("guest lift", Lists("params")) \cup Instr("export", {Space})
                \cup Instr("guest lower", Lists("results"))
                \cup Instr("host lift", Lists("results")) \cup Instr("return", Spaces)
<1> DEFINE space(what) == IF Len(call.results) > 1 THEN Once(what) ELSE <<>>
           S1 == Instr("malloc", Lists("params") \cup Spaces)
           S2 == S1 \cup Instr("guest lift", Lists("params"))
           S3 == S2 \cup Instr("export", {Space})
           S4 == S3 \cup Instr("guest lower", Lists("results"))
           S5 == S4 \cup Instr("host lift", Lists("results"))
           S6 == S5 \cup Instr("return", Spaces)
<1>1. /\ Sooner("malloc", "guest lift")
      /\ Sooner("guest lift", "export")
      /\ Sooner("export", "guest lower")
      /\ Sooner("guest lower", "host lift")
      /\ Sooner("host lift", "return")
  BY DEF Place, Sooner
<1>2. /\ Instr("malloc", Lists("params")) \subseteq Instrs /\ Instr("malloc", {Space}) \subseteq Instrs
      /\ Instr("guest lift", Lists("params")) \subseteq Instrs
      /\ Instr("export", {Space}) \subseteq Instrs
      /\ Instr("guest lower", Lists("results")) \subseteq Instrs
      /\ Instr("host lift", Lists("results")) \subseteq Instrs
      /\ Instr("return", {Space}) \subseteq Instrs
  BY DEF Instrs, Instr
<1>3. ASSUME NEW what, Instr(what, {Space}) \subseteq Instrs PROVE Segment(space(what), what, Spaces)
  BY <1>3, OnceIs, NoSegment DEF Spaces
<1>4. PICK a : a = Do("malloc", Pre("params"))
  OBVIOUS
<1>5. PICK b : b = space("malloc")
  OBVIOUS
<1>6. PICK c : c = Do("guest lift", Post("params"))
  OBVIOUS
<1>7. PICK d : d = Once("export")
  OBVIOUS
<1>8. PICK e : e = Do("guest lower", Pre("results"))
  OBVIOUS
<1>9. PICK f : f = Do("host lift", Post("results"))
  OBVIOUS
<1>10. PICK g : g = space("return")
  OBVIOUS
<1>11. Segment(a, "malloc", Lists("params"))
  BY <1>2, <1>4, ListsDo
<1>12. Segment(b, "malloc", Spaces)
  BY <1>2, <1>3, <1>5
<1>13. Segment(c, "guest lift", Lists("params"))
  BY <1>2, <1>6, ListsDo
<1>14. Segment(d, "export", {Space})
  BY <1>2, <1>7, OnceIs
<1>15. Segment(e, "guest lower", Lists("results"))
  BY <1>2, <1>8, ListsDo
<1>16. Segment(f, "host lift", Lists("results"))
  BY <1>2, <1>9, ListsDo
<1>17. Segment(g, "return", Spaces)
  BY <1>2, <1>3, <1>10
<1>18. Segment(a \o b, "malloc", Lists("params") \cup Spaces)
  <2>1. Lists("params") \cap Spaces = {}
    BY ListsAre DEF Spaces
  <2> QED BY <1>11, <1>12, <2>1, JoinSegments
<1>19. PICK s1 : s1 = a \o b
  OBVIOUS
<1>20. Upto(s1, "malloc", Instr("malloc", Lists("params") \cup Spaces))
  BY <1>18, <1>19, SegmentUpto
<1>21. PICK s2 : Joined(s2, s1, c)
  BY DEF Joined
<1>22. Upto(s2, "guest lift", S2)
  BY <1>1, <1>13, <1>20, <1>21, AddSegment, Zenon
<1>23. PICK s3 : Joined(s3, s2, d)
  BY DEF Joined
<1>24. Upto(s3, "export", S3)
  BY <1>1, <1>14, <1>22, <1>23, AddSegment, Zenon
<1>25. PICK s4 : Joined(s4, s3, e)
  BY DEF Joined
<1>26. Upto(s4, "guest lower", S4)
  BY <1>1, <1>15, <1>24, <1>25, AddSegment, Zenon
<1>27. PICK s5 : Joined(s5, s4, f)
  BY DEF Joined
<1>28. Upto(s5, "host lift", S5)
  BY <1>1, <1>16, <1>26, <1>27, AddSegment, Zenon
<1>29. PICK s6 : Joined(s6, s5, g)
  BY DEF Joined
<1>30. Upto(s6, "return", S6)
  BY <1>1, <1>17, <1>28, <1>29, AddSegment, Zenon
<1>31. ExportWrappers = s6
  BY <1>4, <1>5, <1>6, <1>7, <1>8, <1>9, <1>10, <1>19, <1>21, <1>23, <1>25, <1>27, <1>29,
     Zenon DEF ExportWrappers, Joined
<1> QED BY <1>30, <1>31, Zenon DEF Upto

\* An import's wrappers.
LEMMA ImportWrappersAre ==
    ASSUME CallFine, ~Exports
    PROVE  /\ ImportWrappers \in Seq(Instrs) /\ Ordered(ImportWrappers, Before)
           /\ ToSet(ImportWrappers) = Instrs
<1> DEFINE Rest == Lists("params") \ Canonicals(Lists("params"))
           S1 == Instr("make params", {Space})
           S2 == S1 \cup Instr("guest lower", Lists("params"))
           S3 == S2 \cup Instr("host read", Lists("params"))
           S4 == S3 \cup Instr("malloc", Lists("results"))
           S5 == S4 \cup Instr("guest lift", Lists("results"))
           S6 == S5 \cup Instr("return", Rest)
           S7 == S6 \cup Instr("drop all", {Space})
<1>1. /\ Sooner("make params", "guest lower")
      /\ Sooner("guest lower", "host read")
      /\ Sooner("host read", "malloc")
      /\ Sooner("malloc", "guest lift")
      /\ Sooner("guest lift", "return")
      /\ Sooner("return", "drop all")
  BY DEF Place, Sooner
<1>2. /\ Instr("make params", {Space}) \subseteq Instrs
      /\ Instr("guest lower", Lists("params")) \subseteq Instrs
      /\ Instr("host read", Lists("params")) \subseteq Instrs
      /\ Instr("malloc", Lists("results")) \subseteq Instrs
      /\ Instr("guest lift", Lists("results")) \subseteq Instrs
      /\ Instr("return", Rest) \subseteq Instrs
      /\ Instr("drop all", {Space}) \subseteq Instrs
  BY DEF Instrs
<1>4. PICK a : a = Once("make params")
  OBVIOUS
<1>5. PICK b : b = Do("guest lower", Pre("params"))
  OBVIOUS
<1>6. PICK c : c = Do("host read", Post("params"))
  OBVIOUS
<1>7. PICK d : d = Do("malloc", Pre("results"))
  OBVIOUS
<1>8. PICK e : e = Do("guest lift", Post("results"))
  OBVIOUS
<1>9. PICK f : f = Do("return", Lowered("params"))
  OBVIOUS
<1>10. PICK g : g = Once("drop all")
  OBVIOUS
<1>11. Segment(a, "make params", {Space})
  BY <1>2, <1>4, OnceIs
<1>12. Segment(b, "guest lower", Lists("params"))
  BY <1>2, <1>5, ListsDo
<1>13. Segment(c, "host read", Lists("params"))
  BY <1>2, <1>6, ListsDo
<1>14. Segment(d, "malloc", Lists("results"))
  BY <1>2, <1>7, ListsDo
<1>15. Segment(e, "guest lift", Lists("results"))
  BY <1>2, <1>8, ListsDo
<1>16. Segment(f, "return", Rest)
  BY <1>2, <1>9, ListsDo
<1>17. Segment(g, "drop all", {Space})
  BY <1>2, <1>10, OnceIs
<1> HIDE DEF Rest
<1>20. Upto(a, "make params", Instr("make params", {Space}))
  BY <1>11, SegmentUpto
<1>21. PICK s2 : Joined(s2, a, b)
  BY DEF Joined
<1>22. Upto(s2, "guest lower", S2)
  BY <1>1, <1>12, <1>20, <1>21, AddSegment, Zenon
<1>23. PICK s3 : Joined(s3, s2, c)
  BY DEF Joined
<1>24. Upto(s3, "host read", S3)
  BY <1>1, <1>13, <1>22, <1>23, AddSegment, Zenon
<1>25. PICK s4 : Joined(s4, s3, d)
  BY DEF Joined
<1>26. Upto(s4, "malloc", S4)
  BY <1>1, <1>14, <1>24, <1>25, AddSegment, Zenon
<1>27. PICK s5 : Joined(s5, s4, e)
  BY DEF Joined
<1>28. Upto(s5, "guest lift", S5)
  BY <1>1, <1>15, <1>26, <1>27, AddSegment, Zenon
<1>29. PICK s6 : Joined(s6, s5, f)
  BY DEF Joined
<1>30. Upto(s6, "return", S6)
  BY <1>1, <1>16, <1>28, <1>29, AddSegment, Zenon
<1>31. PICK s7 : Joined(s7, s6, g)
  BY DEF Joined
<1>32. Upto(s7, "drop all", S7)
  BY <1>1, <1>17, <1>30, <1>31, AddSegment, Zenon
<1>33. ImportWrappers = s7
  BY <1>4, <1>5, <1>6, <1>7, <1>8, <1>9, <1>10, <1>21, <1>23, <1>25, <1>27, <1>29, <1>31,
     Zenon DEF ImportWrappers, Joined
<1>34. Instrs = Instr("make params", {Space}) \cup Instr("guest lower", Lists("params"))
           \cup Instr("host read", Lists("params")) \cup Instr("malloc", Lists("results"))
           \cup Instr("guest lift", Lists("results")) \cup Instr("return", Rest)
           \cup Instr("drop all", {Space})
  BY DEF Instrs, Rest
<1> QED BY <1>32, <1>33, <1>34, Zenon DEF Upto

(***************************************************************************)
(* What a call is about does not change.                                   *)
(***************************************************************************)

\* What is defined of a call alone stays.
LEMMA Same ==
    ASSUME UNCHANGED call
    PROVE  /\ CallFine' <=> CallFine
           /\ Exports' <=> Exports
           /\ Lists("params")' = Lists("params") /\ Lists("results")' = Lists("results")
           /\ AllLists' = AllLists
           /\ \A l : IsCanonical(l)' <=> IsCanonical(l)
           /\ \A l : Length(l)' = Length(l)
           /\ \A l : Layout(l)' = Layout(l)
           /\ \A what : Place(what)' = Place(what)
           /\ Instrs' = Instrs /\ Before' = Before
<1>1. CallFine' <=> CallFine
  BY DEF CallFine
<1>2. Exports' <=> Exports
  BY DEF Exports
<1>3. Lists("params")' = Lists("params") /\ Lists("results")' = Lists("results")
  BY DEF Lists, Pre
<1>4. \A l : Item(l)' = Item(l)
  BY DEF Item
<1>5. \A l : Length(l)' = Length(l)
  BY DEF Length
<1>6. \A l : IsCanonical(l)' <=> IsCanonical(l)
  BY <1>4 DEF IsCanonical
<1>7. \A l : Layout(l)' = Layout(l)
  BY <1>4, <1>5 DEF Layout
<1>8. \A what : Place(what)' = Place(what)
  BY <1>2 DEF Place
<1>9. Canonicals(Lists("params"))' = Canonicals(Lists("params"))
  BY <1>3, <1>6 DEF Canonicals
<1>10. Instrs' = Instrs
  BY <1>2, <1>3, <1>9 DEF Instrs
<1>11. Before' = Before
  BY <1>8, <1>10 DEF Before
<1> QED BY <1>1, <1>2, <1>3, <1>5, <1>6, <1>7, <1>8, <1>10, <1>11 DEF AllLists

(***************************************************************************)
(* The guest's memory.                                                     *)
(***************************************************************************)

\* There is always an address that is not in use.
LEMMA UnusedIsUnused ==
    ASSUME HeapFine PROVE Unused \in Nat \ {Dangling} /\ Unused \notin DOMAIN heap
<1>1. PICK n \in Nat : n = Cardinality(DOMAIN heap)
  BY FS_CardinalityType DEF HeapFine
<1>2. ~(1..(n + 1) \subseteq DOMAIN heap)
  <2>1. SUFFICES ASSUME 1..(n + 1) \subseteq DOMAIN heap PROVE FALSE
    OBVIOUS
  <2>2. Cardinality(1..(n + 1)) <= n
    BY <1>1, <2>1, FS_Subset DEF HeapFine
  <2>3. Cardinality(1..(n + 1)) = n + 1
    BY <1>1, FS_Interval
  <2> QED BY <1>1, <2>2, <2>3
<1>3. PICK p \in 1..(n + 1) : p \notin DOMAIN heap
  BY <1>2
<1>4. Unused \in 1..(n + 1) /\ Unused \notin DOMAIN heap
  BY <1>1, <1>3 DEF Unused
<1> QED BY <1>1, <1>4 DEF Dangling

\* Memory is allocated for one more list.
LEMMA AllocFine ==
    ASSUME HeapFine, NEW ls, Accounted(ls), NEW l, Alloc(l), UNCHANGED call,
           NEW ms, ms \subseteq ls \cup {l}
    PROVE  HeapFine' /\ Accounted(ms)'
<1>1. PICK p : p = Unused
  OBVIOUS
<1>2. p \in Nat \ {Dangling} /\ p \notin DOMAIN heap
  BY <1>1, UnusedIsUnused
<1>3. heap' = With(heap, p, Layout(l)) /\ at' = With(at, l, p)
  BY <1>1 DEF Alloc
<1>4. /\ DOMAIN heap' = DOMAIN heap \cup {p} /\ heap'[p] = Layout(l)
      /\ \A q \in DOMAIN heap : heap'[q] = heap[q]
  BY <1>2, <1>3 DEF With
<1>5. /\ DOMAIN at' = DOMAIN at \cup {l} /\ at'[l] = p
      /\ \A k \in DOMAIN at : k # l => at'[k] = at[k]
  BY <1>3 DEF With
<1>6. HeapFine'
  BY <1>2, <1>4, FS_AddElement DEF HeapFine
<1>7. /\ \A k : Length(k)' = Length(k) /\ Layout(k)' = Layout(k)
  BY Same
<1>8. ASSUME NEW k \in ls, k # l
      PROVE  k \in DOMAIN at /\ at'[k] = at[k] /\ at'[k] # p /\ Backed(k)'
  <2>1. Backed(k)
    BY DEF Accounted
  <2>2. k \in DOMAIN at /\ at'[k] = at[k]
    BY <1>5, <1>8, <2>1 DEF Backed
  <2>3. at[k] # p
    BY <1>2, <2>1 DEF Backed
  <2>4. Backed(k)'
    BY <1>4, <1>5, <1>7, <2>1, <2>2 DEF Backed
  <2> QED BY <2>2, <2>3, <2>4
<1>9. Backed(l)'
  BY <1>4, <1>5, <1>7 DEF Backed
<1>10. \A j, k \in ms : j # k /\ at'[j] = at'[k] => at'[j] = Dangling
  <2> SUFFICES ASSUME NEW j \in ms, NEW k \in ms, j # k, at'[j] = at'[k] PROVE at'[j] = Dangling
    OBVIOUS
  <2>1. j # l /\ k # l
    BY <1>5, <1>8
  <2>2. j \in ls /\ k \in ls /\ at[j] = at[k] /\ at'[j] = at[j]
    BY <1>8, <2>1
  <2> QED BY <2>2 DEF Accounted
<1>11. \A k \in ms : Backed(k)'
  BY <1>8, <1>9
<1> QED BY <1>6, <1>10, <1>11 DEF Accounted, Dangling

\* The memory of a list that is held can be freed: only of an empty list it
\* may not be there.
LEMMA FreeFine ==
    ASSUME HeapFine, NEW ls, Accounted(ls), NEW l \in ls, Free(l), UNCHANGED <<call, at>>,
           NEW ms, ms \subseteq ls \ {l}
    PROVE  /\ HeapFine' /\ Accounted(ms)'
           /\ refused' = refused \/ (refused' = refused \cup {l} /\ l # Space /\ Length(l) = 0)
<1>1. heap' = [p \in DOMAIN heap \ {at[l]} |-> heap[p]]
  BY DEF Free, Restrict
<1>2. /\ DOMAIN heap' = DOMAIN heap \ {at[l]}
      /\ \A p \in DOMAIN heap \ {at[l]} : heap'[p] = heap[p]
  BY <1>1
<1>3. HeapFine'
  <2>1. IsFiniteSet(DOMAIN heap \ {at[l]})
    BY FS_RemoveElement DEF HeapFine
  <2> QED BY <1>2, <2>1 DEF HeapFine
<1>4. \A k : Length(k)' = Length(k) /\ Layout(k)' = Layout(k)
  BY Same
<1>5. ASSUME NEW k \in ms PROVE Backed(k)'
  <2>1. k \in ls /\ k # l /\ Backed(k)
    BY DEF Accounted
  <2>2. at[k] = at[l] => at[k] = Dangling
    BY <2>1 DEF Accounted
  <2>3. at[k] \in DOMAIN heap => at[k] # at[l]
    BY <2>2 DEF HeapFine
  <2> QED BY <1>2, <1>4, <2>1, <2>3 DEF Backed
<1>6. \A j, k \in ms : j # k /\ at'[j] = at'[k] => at'[j] = Dangling
  BY DEF Accounted
<1>7. Accounted(ms)'
  BY <1>5, <1>6 DEF Accounted, Dangling
<1>8. refused' = refused \/ (refused' = refused \cup {l} /\ l # Space /\ Length(l) = 0)
  <2>1. Backed(l)
    BY DEF Accounted
  <2>2. CASE Wrong(l)
    BY <2>1, <2>2 DEF Free, Wrong, Backed
  <2>3. CASE ~Wrong(l)
    BY <2>3 DEF Free
  <2> QED BY <2>2, <2>3
<1> QED BY <1>3, <1>7, <1>8

\* A list that is held can be read.
LEMMA ReadFine ==
    ASSUME NEW ls, Accounted(ls), NEW l \in ls, Read(l) PROVE dead' = dead
<1>1. Backed(l)
  BY DEF Accounted
<1>2. Length(l) = 0 \/ ~Wrong(l)
  BY <1>1 DEF Backed, Wrong
<1>3. CASE ~Wrong(l)
  BY <1>3 DEF Read
<1>4. CASE Length(l) = 0
  BY <1>4 DEF Read
<1> QED BY <1>2, <1>3, <1>4

\* Lists that are held no more, without a free: nothing is lost but the account.
LEMMA KeepFine ==
    ASSUME HeapFine, NEW ls, Accounted(ls), UNCHANGED <<call, heap, at>>, NEW ms, ms \subseteq ls
    PROVE  HeapFine' /\ Accounted(ms)'
<1>1. \A k : Length(k)' = Length(k) /\ Layout(k)' = Layout(k)
  BY Same
<1>2. \A k \in ms : Backed(k)'
  BY <1>1 DEF Accounted, Backed
<1> QED BY <1>2 DEF HeapFine, Accounted, Dangling

\* A list without items is made.
LEMMA EmptyFine ==
    ASSUME HeapFine, NEW ls, Accounted(ls), UNCHANGED <<call, heap>>, NEW l, l # Space, Length(l) = 0,
           at' = With(at, l, Dangling), NEW ms, ms \subseteq ls \cup {l}
    PROVE  HeapFine' /\ Accounted(ms)'
<1>1. \A k : Length(k)' = Length(k) /\ Layout(k)' = Layout(k)
  BY Same
<1>2. /\ DOMAIN at' = DOMAIN at \cup {l} /\ at'[l] = Dangling
      /\ \A k \in DOMAIN at : k # l => at'[k] = at[k]
  BY DEF With
<1>3. ASSUME NEW k \in ls, k # l PROVE at'[k] = at[k] /\ Backed(k)'
  <2>1. Backed(k)
    BY DEF Accounted
  <2>2. k \in DOMAIN at /\ at'[k] = at[k]
    BY <1>2, <1>3, <2>1 DEF Backed
  <2> QED BY <1>1, <1>2, <2>1, <2>2 DEF Backed, Dangling
<1>4. Backed(l)'
  BY <1>1, <1>2 DEF Backed, Dangling
<1>5. \A j, k \in ms : j # k /\ at'[j] = at'[k] => at'[j] = Dangling
  BY <1>2, <1>3 DEF Accounted
<1>6. \A k \in ms : Backed(k)'
  BY <1>3, <1>4
<1> QED BY <1>5, <1>6 DEF HeapFine, Accounted, Dangling

\* A list is handed on, as another one of the same size.
LEMMA MoveFine ==
    ASSUME HeapFine, NEW ls, Accounted(ls), UNCHANGED <<call, heap>>, NEW k \in ls, NEW l,
           k # Space, l # Space, Length(k) = Length(l), Layout(k).size = Layout(l).size,
           at' = With(at, l, at[k]), NEW ms, ms \subseteq (ls \ {k}) \cup {l}
    PROVE  HeapFine' /\ Accounted(ms)'
<1>1. \A j : Length(j)' = Length(j) /\ Layout(j)' = Layout(j)
  BY Same
<1>2. /\ DOMAIN at' = DOMAIN at \cup {l} /\ at'[l] = at[k]
      /\ \A j \in DOMAIN at : j # l => at'[j] = at[j]
  BY DEF With
<1>3. ASSUME NEW j \in ls, j # l PROVE at'[j] = at[j] /\ Backed(j)'
  <2>1. Backed(j)
    BY DEF Accounted
  <2>2. j \in DOMAIN at /\ at'[j] = at[j]
    BY <1>2, <1>3, <2>1 DEF Backed
  <2> QED BY <1>1, <1>2, <2>1, <2>2 DEF Backed, Dangling
<1>4. Backed(l)'
  <2>1. Backed(k)
    BY DEF Accounted
  <2> QED BY <1>1, <1>2, <2>1 DEF Backed, Dangling
<1>5. \A j \in ms : j # l => j \in ls /\ j # k /\ at'[j] = at[j]
  BY <1>3
<1>6. \A i, j \in ms : i # j /\ at'[i] = at'[j] => at'[i] = Dangling
  <2> SUFFICES ASSUME NEW i \in ms, NEW j \in ms, i # j, at'[i] = at'[j] PROVE at'[i] = Dangling
    OBVIOUS
  <2>1. CASE i # l /\ j # l
    BY <1>5, <2>1 DEF Accounted
  <2>2. CASE i = l
    BY <1>2, <1>5, <2>2 DEF Accounted
  <2>3. CASE j = l
    BY <1>2, <1>5, <2>3 DEF Accounted
  <2> QED BY <2>1, <2>2, <2>3
<1>7. \A j \in ms : Backed(j)'
  BY <1>3, <1>4
<1> QED BY <1>6, <1>7 DEF HeapFine, Accounted, Dangling

(***************************************************************************)
(* The instruction whose turn it is.                                       *)
(***************************************************************************)

Legal(what, l) ==
    IF Exports
      THEN \/ what = "malloc" /\ l \in Lists("params") \cup {Space}
           \/ what = "guest lift" /\ l \in Lists("params")
           \/ what = "export" /\ l = Space
           \/ what \in {"guest lower", "host lift"} /\ l \in Lists("results")
           \/ what = "return" /\ l = Space
      ELSE \/ what \in {"make params", "drop all"} /\ l = Space
           \/ what \in {"guest lower", "host read"} /\ l \in Lists("params")
           \/ what \in {"malloc", "guest lift"} /\ l \in Lists("results")
           \/ what = "return" /\ l \in Lists("params") /\ ~IsCanonical(l)

\* The fields of an instruction.
LEMMA InstrIs == ASSUME NEW v, NEW ls, NEW a \in Instr(v, ls) PROVE a.do = v /\ a.list \in ls
BY DEF Instr

\* Which instructions there are for which lists.
LEMMA Kinds == ASSUME NEW what, NEW l, [do |-> what, list |-> l] \in Instrs PROVE Legal(what, l)
<1> DEFINE Rest == Lists("params") \ Canonicals(Lists("params"))
           Is(w, ls) == what = w /\ l \in ls
<1>1. PICK a : a = [do |-> what, list |-> l]
  OBVIOUS
<1>2. a.do = what /\ a.list = l /\ a \in Instrs
  BY <1>1
<1>3. \A w, ls : a \in Instr(w, ls) => Is(w, ls)
  BY <1>2 DEF Instr
<1>4. CASE Exports
  <2>1. \/ a \in Instr("malloc", Lists("params") \cup {Space})
        \/ a \in Instr("guest lift", Lists("params")) \/ a \in Instr("export", {Space})
        \/ a \in Instr("guest lower", Lists("results")) \/ a \in Instr("host lift", Lists("results"))
        \/ a \in Instr("return", {Space})
    BY <1>2, <1>4 DEF Instrs
  <2>2. \/ Is("malloc", Lists("params") \cup {Space})
        \/ Is("guest lift", Lists("params")) \/ Is("export", {Space})
        \/ Is("guest lower", Lists("results")) \/ Is("host lift", Lists("results"))
        \/ Is("return", {Space})
    <3> HIDE DEF Is
    <3> QED BY <1>3, <2>1
  <2> QED BY <1>4, <2>2 DEF Legal
<1>5. CASE ~Exports
  <2>1. \/ a \in Instr("make params", {Space}) \/ a \in Instr("guest lower", Lists("params"))
        \/ a \in Instr("host read", Lists("params")) \/ a \in Instr("malloc", Lists("results"))
        \/ a \in Instr("guest lift", Lists("results")) \/ a \in Instr("return", Rest)
        \/ a \in Instr("drop all", {Space})
    BY <1>2, <1>5 DEF Instrs
  <2>2. \/ Is("make params", {Space}) \/ Is("guest lower", Lists("params"))
        \/ Is("host read", Lists("params")) \/ Is("malloc", Lists("results"))
        \/ Is("guest lift", Lists("results")) \/ Is("return", Rest)
        \/ Is("drop all", {Space})
    <3> HIDE DEF Is, Rest
    <3> QED BY <1>3, <2>1
  <2>3. l \in Rest => l \in Lists("params") /\ ~IsCanonical(l)
    BY DEF Canonicals
  <2> QED BY <1>5, <2>2, <2>3 DEF Legal
<1> QED BY <1>4, <1>5

\* ... also of those that are left.
LEMMA LeftLegal == ASSUME TodoFine, NEW what, NEW l, Left(what, l) PROVE Legal(what, l)
<1>1. [do |-> what, list |-> l] \in Instrs
  BY DEF TodoFine, Left, ToSet
<1> QED BY <1>1, Kinds

\* It is one that is left, no other is due earlier, and then the others are left.
LEMMA Taking ==
    ASSUME TodoFine, UNCHANGED call, NEW what, NEW l, Takes(what, l)
    PROVE  /\ TodoFine' /\ Left(what, l) /\ Legal(what, l)
           /\ \A w, m : Left(w, m)' <=> Left(w, m) /\ ~(w = what /\ m = l)
           /\ \A w, m : Left(w, m) => Due(what, w)
<1>1. PICK a : a = [do |-> what, list |-> l]
  OBVIOUS
<1>2. todo # <<>> /\ Head(todo) = a /\ todo' = Tail(todo)
  BY <1>1 DEF Takes
<1>3. /\ todo' \in Seq(Instrs) /\ Ordered(todo', Before) /\ ToSet(todo) = {a} \cup ToSet(todo')
      /\ \A x \in ToSet(todo') : <<a, x>> \in Before
  <2>1. PICK t : t = todo
    OBVIOUS
  <2>2. t \in Seq(Instrs) /\ t # <<>> /\ Ordered(t, Before)
    BY <1>2, <2>1 DEF TodoFine
  <2>3. /\ Tail(t) \in Seq(Instrs) /\ Ordered(Tail(t), Before)
        /\ ToSet(t) = {Head(t)} \cup ToSet(Tail(t))
        /\ \A x \in ToSet(Tail(t)) : <<Head(t), x>> \in Before
    BY <2>2, TailOrdered
  <2> QED BY <1>2, <2>1, <2>3
<1>4. TodoFine'
  BY <1>3, Same DEF TodoFine
<1>5. \A x \in ToSet(todo') : x # a /\ Place(what) <= Place(x.do)
  BY <1>1, <1>3 DEF Before
<1>6. Left(what, l)
  BY <1>1, <1>3 DEF Left
<1>7. ASSUME NEW w, NEW m PROVE Left(w, m)' <=> Left(w, m) /\ ~(w = what /\ m = l)
  <2>1. PICK b : b = [do |-> w, list |-> m]
    OBVIOUS
  <2>2. b = a <=> w = what /\ m = l
    BY <1>1, <2>1
  <2>3. b \in ToSet(todo') <=> b \in ToSet(todo) /\ b # a
    BY <1>3, <1>5
  <2> QED BY <2>1, <2>2, <2>3 DEF Left
<1>8. ASSUME NEW w, NEW m, Left(w, m) PROVE Place(what) <= Place(w)
  <2>1. PICK b : b = [do |-> w, list |-> m]
    OBVIOUS
  <2>2. b \in ToSet(todo) /\ b.do = w
    BY <1>8, <2>1 DEF Left
  <2>3. CASE b = a
    <3>1. w = what
      BY <1>1, <2>2, <2>3
    <3> QED BY <3>1, PlaceIsNat
  <2>4. CASE b # a
    BY <1>3, <1>5, <2>2, <2>4
  <2> QED BY <2>3, <2>4
<1> QED BY <1>4, <1>6, <1>7, <1>8, LeftLegal DEF Due

\* The other lists are passed as before.
LEMMA OthersPassed ==
    ASSUME TodoFine, UNCHANGED call, NEW what, NEW l, Takes(what, l)
    PROVE  \A k : k # l => (Taken(k)' <=> Taken(k)) /\ (Passed(k)' <=> Passed(k))
<1> SUFFICES ASSUME NEW k, k # l PROVE (Taken(k)' <=> Taken(k)) /\ (Passed(k)' <=> Passed(k))
  OBVIOUS
<1>1. \A w : Left(w, k)' <=> Left(w, k)
  BY Taking
<1>2. Make(k)' = Make(k)
  BY Same DEF Make
<1>3. Taken(k)' <=> Taken(k)
  BY <1>1 DEF Taken
<1> QED BY <1>1, <1>2, <1>3 DEF Passed

\* ... and held as before.
LEMMA OthersHeld ==
    ASSUME TodoFine, UNCHANGED call, NEW what, NEW l, Takes(what, l), owned' \subseteq owned \cup {l}
    PROVE  /\ HeldLists' \subseteq HeldLists \cup {l}
           /\ ~Held(l)' => HeldLists' \subseteq HeldLists \ {l}
<1>1. \A k \in HeldLists' : k \in AllLists \cup {Space} /\ Held(k)'
  BY Same DEF HeldLists
<1>2. ASSUME NEW k, k # l, Held(k)' PROVE Held(k)
  BY <1>2, OthersPassed DEF Held
<1> QED BY <1>1, <1>2 DEF HeldLists

\* What is taken over is held by no vector, and by nobody afterwards.
LEMMA TakenOver ==
    ASSUME CallFine, TodoFine, OwnedFine, UNCHANGED call,
           NEW what \in {"guest lift", "host lift", "return"}, NEW l, Takes(what, l)
    PROVE  l \in HeldLists /\ l \notin owned /\ ~Taken(l)' /\ ~Passed(l)'
<1>1. /\ Left(what, l) /\ Legal(what, l)
      /\ \A w, m : Left(w, m)' <=> Left(w, m) /\ ~(w = what /\ m = l)
      /\ \A w, m : Left(w, m) => Due(what, w)
  BY Taking
<1>2. \A w : Left(w, l) => Legal(w, l)
  BY LeftLegal
<1>3. Lists("params") \cap Lists("results") = {} /\ Space \notin AllLists
  BY ListsApart
<1>4. Taken(l)
  BY <1>1 DEF Taken
<1>5. ~Left(Make(l), l)
  <2>1. SUFFICES ASSUME Left(Make(l), l) PROVE FALSE
    OBVIOUS
  <2>2. Due(what, Make(l))
    BY <1>1, <2>1
  <2>3. CASE Exports
    <3>1. CASE what = "guest lift" /\ l \in Lists("params")
      BY <1>3, <2>2, <2>3, <3>1, NotDue DEF Make
    <3>2. CASE what = "host lift" /\ l \in Lists("results")
      BY <2>2, <2>3, <3>2, NotDue DEF Make
    <3>3. CASE what = "return" /\ l = Space
      BY <1>3, <2>2, <2>3, <3>3, NotDue DEF Make, AllLists
    <3> QED BY <1>1, <2>3, <3>1, <3>2, <3>3 DEF Legal
  <2>4. CASE ~Exports
    <3>1. CASE what = "guest lift" /\ l \in Lists("results")
      BY <1>3, <2>2, <2>4, <3>1, NotDue DEF Make
    <3>2. CASE what = "return" /\ l \in Lists("params")
      BY <2>2, <2>4, <3>2, NotDue DEF Make
    <3> QED BY <1>1, <2>4, <3>1, <3>2 DEF Legal
  <2> QED BY <2>3, <2>4
<1>6. l \in AllLists \cup {Space}
  BY <1>1 DEF Legal, AllLists
<1>7. l \in HeldLists
  BY <1>4, <1>5, <1>6 DEF HeldLists, Held, Passed
<1>8. l \notin owned
  <2> SUFFICES ASSUME l \in owned PROVE FALSE
    OBVIOUS
  <2>1. l \in AllLists /\ IsCanonical(l) /\ Exports /\ l \in Lists("results") /\ Left("guest lower", l)
    BY <1>4 DEF OwnedFine
  <2>2. Make(l) = "guest lower"
    BY <2>1 DEF Make
  <2> QED BY <1>5, <2>1, <2>2
<1>9. ~Taken(l)'
  <2> SUFFICES ASSUME NEW w \in {"guest lift", "host lift", "return"}, w # what, Left(w, l)
               PROVE  FALSE
    BY <1>1 DEF Taken
  <2>1. Legal(w, l)
    BY <1>2
  <2> QED BY <1>1, <1>3, <2>1 DEF Legal, AllLists
<1> QED BY <1>7, <1>8, <1>9 DEF Passed

\* Of what the guest prepares for later instructions nothing is lost.
LEMMA PreparedKept ==
    ASSUME CallFine, TodoFine, Prepared, UNCHANGED call, NEW what, NEW l, Takes(what, l),
           what = "export" => Canonicals(Lists("results")) \subseteq owned',
           what = "make params" => Canonicals(Lists("params")) \subseteq owned',
           \A m \in owned \ owned' : Exports /\ what = "guest lower" /\ m = l
    PROVE  Prepared'
<1>1. /\ Left(what, l) /\ Legal(what, l)
      /\ \A w, m : Left(w, m)' <=> Left(w, m) /\ ~(w = what /\ m = l)
      /\ \A w, m : Left(w, m) => Due(what, w)
  BY Taking
<1>2. /\ Exports' <=> Exports
      /\ Lists("params")' = Lists("params") /\ Lists("results")' = Lists("results")
      /\ \A m : IsCanonical(m)' <=> IsCanonical(m)
  BY Same
<1>3. Space' = Space
  BY DEF Space
<1>4. CASE Exports
  <2>1. ASSUME NEW m \in Lists("results"), Left("export", Space)' PROVE Left("guest lower", m)'
    <3>1. Left("export", Space) /\ Left("guest lower", m)
      BY <1>1, <1>4, <2>1 DEF Prepared
    <3>2. what # "guest lower"
      <4>1. Due(what, "export")
        BY <1>1, <3>1
      <4> QED BY <1>4, <4>1, NotDue
    <3> QED BY <1>1, <3>1, <3>2
  <2>2. ASSUME NEW m \in Lists("results"), Left("guest lower", m)', IsCanonical(m)
        PROVE  Left("export", Space)' \/ m \in owned'
    <3>1. Left("guest lower", m) /\ ~(what = "guest lower" /\ m = l)
      BY <1>1, <2>2
    <3>2. Left("export", Space) \/ m \in owned
      BY <1>4, <2>2, <3>1 DEF Prepared
    <3>3. CASE m \in owned
      BY <3>1, <3>3
    <3>4. CASE Left("export", Space) /\ what = "export"
      BY <2>2, <3>4 DEF Canonicals
    <3>5. CASE Left("export", Space) /\ what # "export"
      BY <1>1, <3>5
    <3> QED BY <3>2, <3>3, <3>4, <3>5
  <2> QED BY <1>2, <1>3, <1>4, <2>1, <2>2 DEF Prepared
<1>5. CASE ~Exports
  <2>1. ASSUME NEW m \in Lists("params"), Left("host read", m)', IsCanonical(m)
        PROVE  Left("make params", Space)' \/ m \in owned'
    <3>1. Left("make params", Space) \/ m \in owned
      BY <1>1, <1>5, <2>1 DEF Prepared
    <3>2. CASE m \in owned
      BY <1>5, <3>2
    <3>3. CASE Left("make params", Space) /\ what = "make params"
      BY <2>1, <3>3 DEF Canonicals
    <3>4. CASE Left("make params", Space) /\ what # "make params"
      BY <1>1, <3>4
    <3> QED BY <3>1, <3>2, <3>3, <3>4
  <2>2. ASSUME NEW m \in Lists("params"), Left("host read", m)', ~IsCanonical(m)
        PROVE  Left("return", m)'
    <3>1. Left("host read", m) /\ Left("return", m)
      BY <1>1, <1>5, <2>2 DEF Prepared
    <3>2. what # "return"
      <4>1. Due(what, "host read")
        BY <1>1, <3>1
      <4> QED BY <1>5, <4>1, NotDue
    <3> QED BY <1>1, <3>1, <3>2
  <2> QED BY <1>2, <1>3, <1>5, <2>1, <2>2 DEF Prepared
<1> QED BY <1>4, <1>5

\* A vector that was owned, or that may be, stays the guest's own.
LEMMA OwnedKept ==
    ASSUME CallFine, TodoFine, OwnedFine, UNCHANGED call, NEW what, NEW l, Takes(what, l),
           owned' \subseteq owned \cup {l},
           l \in owned' => ~Taken(l)' /\ IsCanonical(l) /\ l \in AllLists
                           /\ ~(Exports /\ l \in Lists("results"))
    PROVE  OwnedFine'
<1>1. \A w, m : Left(w, m)' <=> Left(w, m) /\ ~(w = what /\ m = l)
  BY Taking
<1>2. /\ Exports' <=> Exports
      /\ AllLists' = AllLists /\ Lists("results")' = Lists("results")
      /\ \A m : IsCanonical(m)' <=> IsCanonical(m)
  BY Same
<1>3. ASSUME NEW k \in owned', k # l
      PROVE  /\ k \in AllLists /\ IsCanonical(k)
             /\ IF Exports /\ k \in Lists("results") THEN Left("guest lower", k)' ELSE ~Taken(k)'
  <2>1. k \in owned
    BY <1>3
  <2>2. Taken(k)' <=> Taken(k)
    BY <1>3, OthersPassed
  <2> QED BY <1>1, <1>3, <2>1, <2>2 DEF OwnedFine
<1>4. ASSUME NEW k \in owned'
      PROVE  /\ k \in AllLists' /\ IsCanonical(k)'
             /\ IF Exports' /\ k \in Lists("results")' THEN Left("guest lower", k)' ELSE ~Taken(k)'
  BY <1>2, <1>3
<1> QED BY <1>4 DEF OwnedFine

(***************************************************************************)
(* The steps of the wrappers.                                              *)
(***************************************************************************)

Stays == Running' /\ RefusedEmpty' /\ ReadsLive'

\* Instructions that do not change what the guest owns.
LEMMA SameOwned ==
    ASSUME CallFine, TodoFine, Prepared, OwnedFine, UNCHANGED <<call, owned>>,
           NEW what, what \notin {"export", "make params"}, NEW l, Takes(what, l),
           l \in owned => ~(Exports /\ l \in Lists("results"))
    PROVE  TodoFine' /\ Prepared' /\ OwnedFine'
<1>1. TodoFine' /\ \A w, m : Left(w, m)' => Left(w, m)
  BY Taking
<1>2. Prepared'
  BY PreparedKept
<1>3. Taken(l)' => Taken(l)
  BY <1>1 DEF Taken
<1>4. l \in owned => ~Taken(l) /\ IsCanonical(l) /\ l \in AllLists
  BY DEF OwnedFine
<1>5. OwnedFine'
  BY <1>3, <1>4, OwnedKept
<1> QED BY <1>1, <1>2, <1>5

\* Of what is refused now, too, nothing has a size.
LEMMA RefusedKept ==
    ASSUME UNCHANGED call, RefusedEmpty, NEW l \in AllLists \cup {Space},
           refused' = refused \/ (refused' = refused \cup {l} /\ l # Space /\ Length(l) = 0)
    PROVE  RefusedEmpty'
BY Same DEF RefusedEmpty

\* Nothing is read.
LEMMA LiveKept == ASSUME ReadsLive, dead' = dead PROVE ReadsLive'
BY DEF ReadsLive

\* Memory is allocated for a list.
LEMMA AllocStep ==
    ASSUME CallFine, Running, RefusedEmpty, ReadsLive, NEW what \in {"malloc", "guest lower"}, NEW l,
           Takes(what, l), Alloc(l), UNCHANGED <<call, owned, refused, dead>>,
           l \in owned => ~(Exports /\ l \in Lists("results"))
    PROVE  Stays
<1>1. TodoFine /\ Prepared /\ OwnedFine /\ HeapFine /\ Accounted(HeldLists)
  BY DEF Running
<1>2. TodoFine' /\ Prepared' /\ OwnedFine'
  BY <1>1, SameOwned
<1>3. PICK ls : ls = HeldLists
  OBVIOUS
<1>4. PICK ms : ms = HeldLists'
  OBVIOUS
<1>5. ms \subseteq ls \cup {l}
  BY <1>1, <1>3, <1>4, OthersHeld
<1>6. HeapFine' /\ Accounted(ms)'
  BY <1>1, <1>3, <1>5, AllocFine
<1>7. RefusedEmpty' /\ ReadsLive'
  BY Same DEF RefusedEmpty, ReadsLive
<1> QED BY <1>2, <1>4, <1>6, <1>7 DEF Running, Stays, Accounted

\* The host allocates.
LEMMA HostMallocStep ==
    ASSUME CallFine, Running, RefusedEmpty, ReadsLive, NEW l, HostMalloc(l) PROVE Stays
<1>1. Takes("malloc", l) /\ Alloc(l) /\ UNCHANGED <<call, owned, refused, dead>>
  BY DEF HostMalloc
<1>2. Legal("malloc", l)
  BY <1>1, Taking DEF Running
<1>3. l \in Lists("results") => ~Exports
  BY <1>2, ListsApart DEF Legal, AllLists
<1> QED BY <1>1, <1>3, AllocStep

\* The guest allocates.
LEMMA GuestListLowerStep ==
    ASSUME CallFine, Running, RefusedEmpty, ReadsLive, NEW l, GuestListLower(l) PROVE Stays
<1>1. Takes("guest lower", l) /\ Alloc(l) /\ UNCHANGED <<call, owned, refused, dead>>
  BY DEF GuestListLower
<1>2. l \notin owned
  BY DEF Running, OwnedFine, GuestListLower
<1> QED BY <1>1, <1>2, AllocStep

\* Memory is freed by whoever took the list over.
LEMMA FreeStep ==
    ASSUME CallFine, Running, RefusedEmpty, ReadsLive, NEW what \in {"guest lift", "host lift", "return"},
           NEW l, Takes(what, l), Free(l), Read(l) \/ dead' = dead, UNCHANGED <<call, at, owned>>
    PROVE  Stays
<1>1. TodoFine /\ Prepared /\ OwnedFine /\ HeapFine /\ Accounted(HeldLists)
  BY DEF Running
<1>2. l \in HeldLists /\ l \notin owned /\ ~Passed(l)'
  BY <1>1, TakenOver
<1>3. TodoFine' /\ Prepared' /\ OwnedFine'
  BY <1>1, <1>2, SameOwned
<1>4. PICK ls : ls = HeldLists
  OBVIOUS
<1>5. PICK ms : ms = HeldLists'
  OBVIOUS
<1>6. ~Held(l)'
  BY <1>2 DEF Held
<1>7. ms \subseteq ls \ {l}
  BY <1>1, <1>4, <1>5, <1>6, OthersHeld
<1>8. /\ HeapFine' /\ Accounted(ms)'
      /\ refused' = refused \/ (refused' = refused \cup {l} /\ l # Space /\ Length(l) = 0)
  BY <1>1, <1>2, <1>4, <1>7, FreeFine
<1>9. RefusedEmpty'
  <2>1. l \in AllLists \cup {Space}
    BY <1>2 DEF HeldLists
  <2> QED BY <1>8, <2>1, RefusedKept
<1>10. ReadsLive'
  <2>1. dead' = dead
    BY <1>1, <1>2, <1>4, ReadFine
  <2> QED BY <2>1, LiveKept
<1> QED BY <1>3, <1>5, <1>8, <1>9, <1>10 DEF Running, Stays, Accounted

\* Those are the liftings by copy, on either side, and the cleanup.
LEMMA FreeingSteps ==
    ASSUME CallFine, Running, RefusedEmpty, ReadsLive, NEW l,
           GuestListLift(l) \/ HostCanonLift(l) \/ HostListLift(l) \/ Return(l)
    PROVE  Stays
<1>1. CASE GuestListLift(l)
  <2>1. Takes("guest lift", l) /\ Free(l) /\ Read(l) /\ UNCHANGED <<call, at, owned>>
    BY <1>1 DEF GuestListLift
  <2> QED BY <2>1, FreeStep
<1>2. CASE HostCanonLift(l)
  <2>1. Takes("host lift", l) /\ Free(l) /\ Read(l) /\ UNCHANGED <<call, at, owned>>
    BY <1>2 DEF HostCanonLift
  <2> QED BY <2>1, FreeStep
<1>3. CASE HostListLift(l)
  <2>1. Takes("host lift", l) /\ Free(l) /\ Read(l) /\ UNCHANGED <<call, at, owned>>
    BY <1>3 DEF HostListLift
  <2> QED BY <2>1, FreeStep
<1>4. CASE Return(l)
  <2>1. Takes("return", l) /\ Free(l) /\ dead' = dead /\ UNCHANGED <<call, at, owned>>
    BY <1>4 DEF Return
  <2> QED BY <2>1, FreeStep
<1> QED BY <1>1, <1>2, <1>3, <1>4

\* Memory changes hands, and is looked at, where it is.
LEMMA KeepStep ==
    ASSUME CallFine, Running, RefusedEmpty, ReadsLive, NEW l, l \in HeldLists \/ dead' = dead,
           Read(l) \/ dead' = dead, UNCHANGED <<call, heap, at, refused>>,
           HeldLists' \subseteq HeldLists
    PROVE  HeapFine' /\ Accounted(HeldLists)' /\ RefusedEmpty' /\ ReadsLive'
<1>1. HeapFine /\ Accounted(HeldLists)
  BY DEF Running
<1>2. PICK ls : ls = HeldLists
  OBVIOUS
<1>3. PICK ms : ms = HeldLists'
  OBVIOUS
<1>4. HeapFine' /\ Accounted(ms)'
  BY <1>1, <1>2, <1>3, KeepFine
<1>5. dead' = dead
  BY <1>1, <1>2, ReadFine
<1>6. RefusedEmpty' /\ ReadsLive'
  BY <1>5, Same DEF RefusedEmpty, ReadsLive
<1> QED BY <1>3, <1>4, <1>6 DEF Accounted

\* The guest makes a vector of what it is passed.
LEMMA GuestCanonLiftStep ==
    ASSUME CallFine, Running, RefusedEmpty, ReadsLive, NEW l, GuestCanonLift(l) PROVE Stays
<1>1. /\ Takes("guest lift", l) /\ IsCanonical(l) /\ owned' = owned \cup {l} /\ Read(l)
      /\ UNCHANGED <<call, heap, at, refused>>
  BY DEF GuestCanonLift
<1>2. TodoFine /\ Prepared /\ OwnedFine
  BY DEF Running
<1>3. l \in HeldLists /\ ~Taken(l)'
  BY <1>1, <1>2, TakenOver
<1>4. HeldLists' \subseteq HeldLists
  BY <1>1, <1>2, <1>3, OthersHeld
<1>5. HeapFine' /\ Accounted(HeldLists)' /\ RefusedEmpty' /\ ReadsLive'
  BY <1>1, <1>3, <1>4, KeepStep
<1>6. TodoFine' /\ Legal("guest lift", l)
  BY <1>1, <1>2, Taking
<1>7. Prepared'
  BY <1>1, <1>2, PreparedKept
<1>8. l \in AllLists /\ ~(Exports /\ l \in Lists("results"))
  BY <1>6, ListsApart DEF Legal, AllLists
<1>9. OwnedFine'
  BY <1>1, <1>2, <1>3, <1>8, OwnedKept
<1> QED BY <1>5, <1>6, <1>7, <1>9 DEF Running, Stays

\* It gives a vector's memory away, or lends it.
LEMMA GuestCanonLowerStep ==
    ASSUME CallFine, Running, RefusedEmpty, ReadsLive, NEW l, GuestCanonLower(l) PROVE Stays
<1>1. /\ Takes("guest lower", l) /\ IsCanonical(l)
      /\ owned' = IF Exports THEN owned \ {l} ELSE owned
      /\ UNCHANGED <<call, heap, at, refused, dead>>
  BY DEF GuestCanonLower, Exports
<1>2. TodoFine /\ Prepared /\ OwnedFine
  BY DEF Running
<1>3. /\ TodoFine' /\ Left("guest lower", l) /\ Legal("guest lower", l)
      /\ \A w, m : Left(w, m)' => Left(w, m)
      /\ \A w, m : Left(w, m) => Due("guest lower", w)
  BY <1>1, <1>2, Taking
<1>4. ~Exports => ~Taken(l)'
  <2> SUFFICES ASSUME ~Exports, NEW w \in {"guest lift", "host lift", "return"}, Left(w, l)
               PROVE  FALSE
    BY <1>3 DEF Taken
  <2>1. Legal(w, l)
    BY <1>2, LeftLegal
  <2> QED BY <1>1, <1>3, <2>1, ListsApart DEF Legal, AllLists
<1>5. HeldLists' \subseteq HeldLists
  <2>1. CASE Exports
    <3>1. l \in owned /\ l \in AllLists
      <4>1. ~Left("export", Space)
        BY <1>3, <2>1, NotDue
      <4> QED BY <1>1, <1>2, <1>3, <2>1, <4>1 DEF Prepared, Legal, AllLists
    <3>2. l \in HeldLists
      BY <3>1 DEF HeldLists, Held
    <3>3. owned' \subseteq owned \cup {l}
      BY <1>1
    <3> QED BY <1>1, <1>2, <3>2, <3>3, OthersHeld
  <2>2. CASE ~Exports
    <3>1. l \in owned => l \in HeldLists
      BY <1>2 DEF HeldLists, Held, OwnedFine
    <3>2. Held(l)' => l \in owned
      BY <1>1, <1>4, <2>2 DEF Held, Passed
    <3>3. HeldLists' \subseteq HeldLists \cup {l} /\ (~Held(l)' => HeldLists' \subseteq HeldLists \ {l})
      BY <1>1, <1>2, <2>2, OthersHeld
    <3> QED BY <3>1, <3>2, <3>3
  <2> QED BY <2>1, <2>2
<1>6. HeapFine' /\ Accounted(HeldLists)' /\ RefusedEmpty' /\ ReadsLive'
  BY <1>1, <1>5, KeepStep
<1>7. Prepared'
  <2>1. \A m \in owned \ owned' : Exports /\ m = l
    BY <1>1
  <2> QED BY <1>1, <1>2, <2>1, PreparedKept
<1>8. OwnedFine'
  <2>1. l \in AllLists
    BY <1>3 DEF Legal, AllLists
  <2>2. l \in owned' => ~Exports
    BY <1>1
  <2>3. owned' \subseteq owned \cup {l}
    BY <1>1
  <2> QED BY <1>1, <1>2, <1>4, <2>1, <2>2, <2>3, OwnedKept
<1> QED BY <1>3, <1>6, <1>7, <1>8 DEF Running, Stays

\* The host reads what it was lent.
LEMMA HostReadStep ==
    ASSUME CallFine, Running, RefusedEmpty, ReadsLive, NEW l, HostRead(l) PROVE Stays
<1>1. Takes("host read", l) /\ Read(l) /\ UNCHANGED <<call, heap, at, owned, refused>>
  BY DEF HostRead
<1>2. TodoFine /\ Prepared /\ OwnedFine
  BY DEF Running
<1>3. /\ Left("host read", l) /\ Legal("host read", l)
      /\ \A w, m : Left(w, m)' <=> Left(w, m) /\ ~(w = "host read" /\ m = l)
      /\ \A w, m : Left(w, m) => Due("host read", w)
  BY <1>1, <1>2, Taking
<1>4. ~Exports /\ l \in Lists("params")
  BY <1>3 DEF Legal
<1>5. Held(l)
  <2>1. CASE IsCanonical(l)
    <3>1. ~Left("make params", Space)
      BY <1>3, <1>4, NotDue
    <3> QED BY <1>2, <1>3, <1>4, <2>1, <3>1 DEF Prepared, Held
  <2>2. CASE ~IsCanonical(l)
    <3>1. Left("return", l)
      BY <1>2, <1>3, <1>4, <2>2 DEF Prepared
    <3>2. Make(l) = "guest lower"
      BY <1>4 DEF Make
    <3>3. ~Left("guest lower", l)
      BY <1>3, <1>4, NotDue
    <3> QED BY <3>1, <3>2, <3>3 DEF Held, Passed, Taken
  <2> QED BY <2>1, <2>2
<1>6. l \in HeldLists
  BY <1>4, <1>5 DEF HeldLists, AllLists
<1>7. HeldLists' \subseteq HeldLists
  BY <1>1, <1>2, <1>6, OthersHeld
<1>8. HeapFine' /\ Accounted(HeldLists)' /\ RefusedEmpty' /\ ReadsLive'
  BY <1>1, <1>6, <1>7, KeepStep
<1>9. TodoFine' /\ Prepared' /\ OwnedFine'
  BY <1>1, <1>2, <1>4, SameOwned
<1> QED BY <1>8, <1>9 DEF Running, Stays

(***************************************************************************)
(* The steps of the guest's own code.                                      *)
(***************************************************************************)

\* Whose turn it is, and what it is to have.
LEMMA GuestTurn ==
    ASSUME CallFine, TodoFine, GuestRuns
    PROVE  \E what \in {"export", "make params", "drop all"} :
              /\ Head(todo) = [do |-> what, list |-> Space] /\ Left(what, Space)
              /\ Exports <=> what = "export"
              /\ \A w, m : Left(w, m) => Due(what, w)
              /\ Wanted = CASE what = "export" -> Canonicals(Lists("results"))
                            [] what = "make params" -> Canonicals(Lists("params"))
                            [] OTHER -> {}
<1>1. PICK what \in {"export", "make params", "drop all"} : Head(todo) = [do |-> what, list |-> Space]
  BY DEF GuestRuns, GuestCode
<1>2. todo # <<>>
  BY DEF GuestRuns
<1>3. Left(what, Space) /\ \A w, m : Left(w, m) => Due(what, w)
  <2>1. PICK a : a = [do |-> what, list |-> Space]
    OBVIOUS
  <2>2. PICK t : t = todo
    OBVIOUS
  <2>3. t \in Seq(Instrs) /\ t # <<>> /\ Ordered(t, Before) /\ Head(t) = a
    BY <1>1, <1>2, <2>1, <2>2 DEF TodoFine
  <2>4. ToSet(t) = {a} \cup ToSet(Tail(t)) /\ \A x \in ToSet(Tail(t)) : <<a, x>> \in Before
    BY <2>3, TailOrdered
  <2>5. a.do = what /\ \A x \in ToSet(Tail(t)) : Place(what) <= Place(x.do)
    BY <2>1, <2>4 DEF Before
  <2>6. \A x \in ToSet(t) : Place(what) <= Place(x.do)
    <3>1. Place(what) <= Place(what)
      BY PlaceItself, Zenon
    <3>2. Place(what) <= Place(a.do)
      BY <2>5, <3>1, Zenon
    <3> QED BY <2>4, <2>5, <3>2
  <2>7. ASSUME NEW w, NEW m, Left(w, m) PROVE Due(what, w)
    <3>1. PICK b : b = [do |-> w, list |-> m]
      OBVIOUS
    <3>2. b \in ToSet(t) /\ b.do = w
      BY <2>2, <2>7, <3>1 DEF Left
    <3> QED BY <2>6, <3>2 DEF Due
  <2>8. Left(what, Space)
    BY <2>1, <2>2, <2>4 DEF Left
  <2> QED BY <2>7, <2>8
<1>4. Exports <=> what = "export"
  BY <1>3, LeftLegal DEF Legal
<1>5. Head(todo).do = what
  <2>1. PICK a : a = [do |-> what, list |-> Space]
    OBVIOUS
  <2>2. a.do = what /\ Head(todo) = a
    BY <1>1, <2>1
  <2> QED BY <2>2
<1>6. Wanted = CASE what = "export" -> Canonicals(Lists("results"))
                 [] what = "make params" -> Canonicals(Lists("params"))
                 [] OTHER -> {}
  BY <1>5 DEF Wanted, Canonicals
<1> QED BY <1>1, <1>3, <1>4, <1>6

\* It may change what it owns: only its own lists are concerned.
LEMMA GuestOwns ==
    ASSUME CallFine, TodoFine, Prepared, OwnedFine, GuestRuns, UNCHANGED <<call, todo>>,
           owned' \subseteq owned \cup Wanted
    PROVE  TodoFine' /\ Prepared' /\ OwnedFine' /\ Wanted \subseteq AllLists
<1>1. PICK what \in {"export", "make params", "drop all"} :
              /\ Left(what, Space)
              /\ Exports <=> what = "export"
              /\ \A w, m : Left(w, m) => Due(what, w)
              /\ Wanted = CASE what = "export" -> Canonicals(Lists("results"))
                            [] what = "make params" -> Canonicals(Lists("params"))
                            [] OTHER -> {}
  BY GuestTurn
<1>2. \A w, m : Left(w, m)' <=> Left(w, m)
  BY DEF Left
<1>3. \A k : Taken(k)' <=> Taken(k)
  BY <1>2 DEF Taken
<1>4. /\ Exports' <=> Exports
      /\ AllLists' = AllLists
      /\ Lists("params")' = Lists("params") /\ Lists("results")' = Lists("results")
      /\ \A m : IsCanonical(m)' <=> IsCanonical(m)
  BY Same
<1>5. TodoFine'
  BY Same DEF TodoFine
<1>6. Prepared'
  <2>1. CASE Exports
    <3>1. Left("export", Space)
      BY <1>1, <2>1
    <3>2. \A m \in Lists("results") : Left("guest lower", m)
      BY <2>1, <3>1 DEF Prepared
    <3>3. Left("export", Space)' /\ Space' = Space
      BY <1>2, <3>1 DEF Space
    <3> QED BY <1>2, <1>4, <2>1, <3>2, <3>3 DEF Prepared
  <2>2. CASE what = "make params"
    <3>1. Left("make params", Space)' /\ ~Exports /\ Space' = Space
      BY <1>1, <1>2, <2>2 DEF Space
    <3>2. \A m \in Lists("params") : Left("host read", m) /\ ~IsCanonical(m) => Left("return", m)
      BY <3>1 DEF Prepared
    <3> QED BY <1>2, <1>4, <3>1, <3>2 DEF Prepared
  <2>3. CASE what = "drop all"
    <3>1. ~Exports /\ \A m : ~Left("host read", m)
      BY <1>1, <2>3, NotDue
    <3> QED BY <1>2, <1>4, <3>1 DEF Prepared
  <2> QED BY <1>1, <2>1, <2>2, <2>3
<1>7. ASSUME NEW k \in Wanted
      PROVE  /\ k \in AllLists /\ IsCanonical(k)
             /\ IF Exports /\ k \in Lists("results") THEN Left("guest lower", k) ELSE ~Taken(k)
  <2>1. CASE Exports
    <3>1. k \in Lists("results") /\ IsCanonical(k)
      BY <1>1, <1>7, <2>1 DEF Canonicals
    <3>2. Left("guest lower", k)
      BY <1>1, <2>1, <3>1 DEF Prepared
    <3> QED BY <2>1, <3>1, <3>2 DEF AllLists
  <2>2. CASE ~Exports
    <3>1. k \in Lists("params") /\ IsCanonical(k)
      BY <1>1, <1>7, <2>2 DEF Canonicals
    <3>2. ASSUME NEW w \in {"guest lift", "host lift", "return"}, Left(w, k) PROVE FALSE
      <4>1. Legal(w, k)
        BY <3>2, LeftLegal
      <4> QED BY <2>2, <3>1, <4>1, ListsApart DEF Legal
    <3> QED BY <2>2, <3>1, <3>2 DEF AllLists, Taken
  <2> QED BY <2>1, <2>2
<1>8. OwnedFine'
  <2>1. ASSUME NEW k \in owned'
        PROVE  /\ k \in AllLists /\ IsCanonical(k)
               /\ IF Exports /\ k \in Lists("results") THEN Left("guest lower", k) ELSE ~Taken(k)
    BY <1>7 DEF OwnedFine
  <2> QED BY <1>2, <1>3, <1>4, <2>1 DEF OwnedFine
<1> QED BY <1>5, <1>6, <1>7, <1>8

\* A vector is held by nobody else.
LEMMA OwnedNotPassed == ASSUME OwnedFine, NEW k \in owned PROVE ~Passed(k) /\ k \in HeldLists
<1>1. k \in AllLists /\ IF Exports /\ k \in Lists("results") THEN Left("guest lower", k) ELSE ~Taken(k)
  BY DEF OwnedFine
<1>2. ~Passed(k)
  BY <1>1 DEF Passed, Make
<1> QED BY <1>1, <1>2 DEF HeldLists, Held

\* Only what the guest owns is held otherwise than before.
LEMMA GuestHolds ==
    ASSUME UNCHANGED <<call, todo>>
    PROVE  /\ \A k : Passed(k)' <=> Passed(k)
           /\ \A k \in HeldLists' : k \in owned' \/ (k \in HeldLists /\ Passed(k))
<1>1. \A w, m : Left(w, m)' <=> Left(w, m)
  BY DEF Left
<1>2. \A k : Make(k)' = Make(k)
  BY Same DEF Make
<1>3. \A k : Passed(k)' <=> Passed(k)
  BY <1>1, <1>2 DEF Passed, Taken
<1>4. \A k \in HeldLists' : k \in AllLists \cup {Space} /\ Held(k)'
  BY Same DEF HeldLists
<1> QED BY <1>3, <1>4 DEF Held, HeldLists

\* A vector is made.
LEMMA NewVecStep ==
    ASSUME CallFine, Running, RefusedEmpty, ReadsLive, NEW l, NewVec(l) PROVE Stays
<1>1. /\ GuestRuns /\ l \in Wanted /\ owned' = owned \cup {l}
      /\ UNCHANGED <<call, todo, refused, dead>>
      /\ IF Length(l) = 0 THEN at' = With(at, l, Dangling) /\ heap' = heap ELSE Alloc(l)
  BY DEF NewVec
<1>2. TodoFine /\ Prepared /\ OwnedFine /\ HeapFine /\ Accounted(HeldLists)
  BY DEF Running
<1>3. TodoFine' /\ Prepared' /\ OwnedFine' /\ l \in AllLists
  <2>1. owned' \subseteq owned \cup Wanted
    BY <1>1
  <2> QED BY <1>1, <1>2, <2>1, GuestOwns
<1>4. l # Space
  BY <1>3, ListsApart
<1>5. PICK ls : ls = HeldLists
  OBVIOUS
<1>6. PICK ms : ms = HeldLists'
  OBVIOUS
<1>7. ms \subseteq ls \cup {l}
  BY <1>1, <1>2, <1>5, <1>6, GuestHolds, OwnedNotPassed
<1>8. HeapFine' /\ Accounted(ms)'
  <2>1. CASE Length(l) = 0
    <3>1. at' = With(at, l, Dangling) /\ UNCHANGED <<call, heap>>
      BY <1>1, <2>1
    <3> QED BY <1>2, <1>4, <1>5, <1>7, <2>1, <3>1, EmptyFine
  <2>2. CASE Length(l) # 0
    <3>1. Alloc(l)
      BY <1>1, <2>2
    <3> QED BY <1>1, <1>2, <1>5, <1>7, <3>1, AllocFine
  <2> QED BY <2>1, <2>2
<1>9. RefusedEmpty' /\ ReadsLive'
  BY <1>1, Same DEF RefusedEmpty, ReadsLive
<1> QED BY <1>3, <1>6, <1>8, <1>9 DEF Running, Stays, Accounted

\* A vector is handed on.
LEMMA MoveVecStep ==
    ASSUME CallFine, Running, RefusedEmpty, ReadsLive, NEW k, NEW l, MoveVec(k, l) PROVE Stays
<1>1. /\ GuestRuns /\ k \in owned /\ k \notin Wanted /\ l \in Wanted
      /\ Item(k) = Item(l) /\ Length(k) = Length(l)
      /\ owned' = (owned \ {k}) \cup {l} /\ at' = With(at, l, at[k])
      /\ UNCHANGED <<call, todo, heap, refused, dead>>
  BY DEF MoveVec
<1>2. TodoFine /\ Prepared /\ OwnedFine /\ HeapFine /\ Accounted(HeldLists)
  BY DEF Running
<1>3. TodoFine' /\ Prepared' /\ OwnedFine' /\ l \in AllLists
  <2>1. owned' \subseteq owned \cup Wanted
    BY <1>1
  <2> QED BY <1>1, <1>2, <2>1, GuestOwns
<1>4. k \in HeldLists /\ ~Passed(k) /\ k \in AllLists
  BY <1>1, <1>2, OwnedNotPassed DEF OwnedFine
<1>5. k # Space /\ l # Space
  BY <1>3, <1>4, ListsApart
<1>6. Layout(k).size = Layout(l).size
  BY <1>1, <1>5 DEF Layout
<1>7. PICK ls : ls = HeldLists
  OBVIOUS
<1>8. PICK ms : ms = HeldLists'
  OBVIOUS
<1>9. ms \subseteq (ls \ {k}) \cup {l}
  BY <1>1, <1>2, <1>4, <1>7, <1>8, GuestHolds, OwnedNotPassed
<1>10. HeapFine' /\ Accounted(ms)'
  BY <1>1, <1>2, <1>4, <1>5, <1>6, <1>7, <1>9, MoveFine
<1>11. RefusedEmpty' /\ ReadsLive'
  BY <1>1, Same DEF RefusedEmpty, ReadsLive
<1> QED BY <1>3, <1>8, <1>10, <1>11 DEF Running, Stays, Accounted

\* A vector is dropped.
LEMMA DropVecStep ==
    ASSUME CallFine, Running, RefusedEmpty, ReadsLive, NEW k, DropVec(k) PROVE Stays
<1>1. /\ GuestRuns /\ k \in owned /\ owned' = owned \ {k}
      /\ IF Length(k) = 0 THEN UNCHANGED <<heap, refused>> ELSE Free(k)
      /\ UNCHANGED <<call, todo, at, dead>>
  BY DEF DropVec
<1>2. TodoFine /\ Prepared /\ OwnedFine /\ HeapFine /\ Accounted(HeldLists)
  BY DEF Running
<1>3. TodoFine' /\ Prepared' /\ OwnedFine'
  <2>1. owned' \subseteq owned \cup Wanted
    BY <1>1
  <2> QED BY <1>1, <1>2, <2>1, GuestOwns
<1>4. k \in HeldLists /\ ~Passed(k) /\ k \in AllLists
  BY <1>1, <1>2, OwnedNotPassed DEF OwnedFine
<1>5. PICK ls : ls = HeldLists
  OBVIOUS
<1>6. PICK ms : ms = HeldLists'
  OBVIOUS
<1>7. ms \subseteq ls \ {k}
  BY <1>1, <1>2, <1>4, <1>5, <1>6, GuestHolds, OwnedNotPassed
<1>8. HeapFine' /\ Accounted(ms)' /\ RefusedEmpty'
  <2>1. CASE Length(k) = 0
    <3>1. UNCHANGED <<call, heap, at>> /\ ms \subseteq ls /\ refused' = refused
      BY <1>1, <1>7, <2>1
    <3> QED BY <1>2, <1>5, <3>1, KeepFine, Same DEF RefusedEmpty
  <2>2. CASE Length(k) # 0
    <3>1. Free(k) /\ UNCHANGED <<call, at>>
      BY <1>1, <2>2
    <3>2. /\ HeapFine' /\ Accounted(ms)'
          /\ refused' = refused \/ (refused' = refused \cup {k} /\ k # Space /\ Length(k) = 0)
      BY <1>2, <1>4, <1>5, <1>7, <3>1, FreeFine
    <3> QED BY <1>4, <3>1, <3>2, RefusedKept
  <2> QED BY <2>1, <2>2
<1>9. ReadsLive'
  BY <1>1, LiveKept
<1> QED BY <1>3, <1>6, <1>8, <1>9 DEF Running, Stays, Accounted

\* The guest's function returns.
LEMMA GuestDoneStep ==
    ASSUME CallFine, Running, RefusedEmpty, ReadsLive, GuestDone PROVE Stays
<1>1. /\ GuestRuns /\ owned = Wanted /\ todo' = Tail(todo)
      /\ UNCHANGED <<call, heap, at, owned, refused, dead>>
  BY DEF GuestDone
<1>2. TodoFine /\ Prepared /\ OwnedFine
  BY DEF Running
<1>3. PICK what \in {"export", "make params", "drop all"} :
              /\ Head(todo) = [do |-> what, list |-> Space]
              /\ Wanted = CASE what = "export" -> Canonicals(Lists("results"))
                            [] what = "make params" -> Canonicals(Lists("params"))
                            [] OTHER -> {}
  BY <1>1, <1>2, GuestTurn
<1>4. Takes(what, Space)
  BY <1>1, <1>3 DEF Takes, GuestRuns
<1>5. Space \notin owned
  BY <1>2, ListsApart DEF OwnedFine
<1>6. TodoFine' /\ \A w, m : Left(w, m)' <=> Left(w, m) /\ ~(w = what /\ m = Space)
  BY <1>1, <1>2, <1>4, Taking
<1>7. Prepared'
  <2>1. what = "export" => Canonicals(Lists("results")) \subseteq owned'
    BY <1>1, <1>3
  <2>2. what = "make params" => Canonicals(Lists("params")) \subseteq owned'
    BY <1>1, <1>3
  <2>3. owned \ owned' = {}
    BY <1>1
  <2> QED BY <1>1, <1>2, <1>4, <2>1, <2>2, <2>3, PreparedKept
<1>8. OwnedFine'
  <2>1. Space \notin owned' /\ owned' \subseteq owned \cup {Space}
    BY <1>1, <1>5
  <2> QED BY <1>1, <1>2, <1>4, <2>1, OwnedKept
<1>9. HeldLists' \subseteq HeldLists
  <2>1. Make(Space)' = Make(Space) /\ Make(Space) # what
    BY <1>1, <1>3, Same DEF Make
  <2>2. Passed(Space)' <=> Passed(Space)
    BY <1>3, <1>6, <2>1 DEF Passed, Taken
  <2>3. Held(Space)' => Space \in HeldLists
    BY <1>1, <2>2 DEF Held, HeldLists
  <2>4. /\ HeldLists' \subseteq HeldLists \cup {Space}
        /\ ~Held(Space)' => HeldLists' \subseteq HeldLists \ {Space}
    BY <1>1, <1>2, <1>4, OthersHeld
  <2> QED BY <2>3, <2>4
<1>10. HeapFine' /\ Accounted(HeldLists)' /\ RefusedEmpty' /\ ReadsLive'
  BY <1>1, <1>9, KeepStep
<1> QED BY <1>6, <1>7, <1>8, <1>10 DEF Running, Stays

(***************************************************************************)
(* The invariant.                                                          *)
(***************************************************************************)

\* Calls start with nothing held: what is to be taken over is to be made first.
LEMMA InitFine == Init => IInv
<1> SUFFICES ASSUME Init PROVE IInv
  OBVIOUS
<1>1. CallFine
  <2>1. \A S, n : SeqOf(S, n) \subseteq Seq(S)
    BY DEF SeqOf
  <2> QED BY <2>1 DEF Init, CallFine
<1>2. TodoFine
  BY <1>1, ExportWrappersAre, ImportWrappersAre DEF Init, TodoFine, Exports
<1>3. Exports =>
        ToSet(todo) = Instr("malloc", Lists("params") \cup Spaces)
                \cup Instr("guest lift", Lists("params")) \cup Instr("export", {Space})
                \cup Instr("guest lower", Lists("results"))
                \cup Instr("host lift", Lists("results")) \cup Instr("return", Spaces)
  BY <1>1, ExportWrappersAre DEF Init, Exports
<1>4. ~Exports => ToSet(todo) = Instrs
  BY <1>1, ImportWrappersAre DEF Init, Exports
<1>5. \A w, ls, l : [do |-> w, list |-> l] \in Instr(w, ls) <=> l \in ls
  <2> SUFFICES ASSUME NEW w, NEW ls, NEW l
               PROVE  [do |-> w, list |-> l] \in Instr(w, ls) <=> l \in ls
    OBVIOUS
  <2>1. \A m : [do |-> w, list |-> m] = [do |-> w, list |-> l] <=> m = l
    OBVIOUS
  <2> QED BY <2>1 DEF Instr
<1>6. ASSUME NEW l \in AllLists \cup {Space}, Taken(l) PROVE Left(Make(l), l)
  <2>1. PICK w \in {"guest lift", "host lift", "return"} : Left(w, l)
    BY <1>6 DEF Taken
  <2>2. Legal(w, l)
    BY <1>2, <2>1, LeftLegal
  <2>3. CASE Exports
    <3>1. l \in Lists("params") => Left("malloc", l)
      BY <1>3, <1>5, <2>3 DEF Left
    <3>2. l \in Lists("results") => Left("guest lower", l)
      BY <1>3, <1>5, <2>3 DEF Left
    <3>3. l = Space => Left("malloc", l)
      <4> SUFFICES ASSUME l = Space PROVE l \in Spaces
        BY <1>3, <1>5, <2>3 DEF Left
      <4>1. PICK a : a = [do |-> w, list |-> l]
        OBVIOUS
      <4>2. a \in ToSet(todo) /\ a.list = l /\ a.do = w
        BY <2>1, <4>1 DEF Left
      <4>3. \A v, ls : a \in Instr(v, ls) => w = v /\ l \in ls
        <5> SUFFICES ASSUME NEW v, NEW ls, a \in Instr(v, ls) PROVE w = v /\ l \in ls
          OBVIOUS
        <5>1. a.do = v /\ a.list \in ls
          BY InstrIs
        <5> QED BY <4>2, <5>1, Zenon
      <4>4. l \notin Lists("params") /\ l \notin Lists("results")
        BY <1>1, ListsApart DEF AllLists
      <4>5. /\ a \notin Instr("malloc", Lists("params") \cup Spaces)
            /\ a \notin Instr("export", {Space})
        <5>1. w # "malloc" /\ w # "export"
          BY <2>1
        <5> QED BY <4>3, <5>1, Zenon
      <4>6. /\ a \notin Instr("guest lift", Lists("params"))
            /\ a \notin Instr("guest lower", Lists("results"))
            /\ a \notin Instr("host lift", Lists("results"))
        BY <4>3, <4>4
      <4>7. a \in Instr("return", Spaces)
        BY <1>3, <2>3, <4>2, <4>5, <4>6
      <4> QED BY <4>3, <4>7
    <3> QED BY <1>1, <2>2, <2>3, <3>1, <3>2, <3>3, ListsApart DEF Legal, Make, AllLists
  <2>4. CASE ~Exports
    <3>1. l \in Lists("params") => Left("guest lower", l)
      BY <1>4, <1>5, <2>4 DEF Left, Instrs
    <3>2. l \in Lists("results") => Left("malloc", l)
      BY <1>4, <1>5, <2>4 DEF Left, Instrs
    <3> QED BY <1>1, <2>2, <2>4, <3>1, <3>2, ListsApart DEF Legal, Make
  <2> QED BY <2>3, <2>4
<1>7. HeldLists = {}
  BY <1>6 DEF HeldLists, Held, Passed, Init
<1>8. Prepared
  <2>1. CASE Exports
    <3>1. \A l \in Lists("results") : Left("guest lower", l)
      BY <1>3, <1>5, <2>1 DEF Left
    <3>2. Left("export", Space)
      BY <1>3, <1>5, <2>1 DEF Left
    <3> QED BY <2>1, <3>1, <3>2 DEF Prepared
  <2>2. CASE ~Exports
    <3>1. Left("make params", Space)
      BY <1>4, <1>5, <2>2 DEF Left, Instrs
    <3>2. \A l \in Lists("params") : ~IsCanonical(l) => Left("return", l)
      <4> SUFFICES ASSUME NEW l \in Lists("params"), ~IsCanonical(l) PROVE Left("return", l)
        OBVIOUS
      <4>1. l \in Lists("params") \ Canonicals(Lists("params"))
        BY DEF Canonicals
      <4>2. [do |-> "return", list |-> l] \in Instr("return", Lists("params") \ Canonicals(Lists("params")))
        BY <1>5, <4>1
      <4> QED BY <1>4, <2>2, <4>2 DEF Left, Instrs
    <3> QED BY <2>2, <3>1, <3>2 DEF Prepared
  <2> QED BY <2>1, <2>2
<1>9. OwnedFine /\ RefusedEmpty /\ ReadsLive
  BY DEF Init, OwnedFine, RefusedEmpty, ReadsLive
<1>10. HeapFine
  <2>1. DOMAIN heap = {}
    BY DEF Init
  <2> QED BY <2>1, FS_EmptySet DEF HeapFine
<1>11. Accounted(HeldLists)
  BY <1>7 DEF Accounted
<1> QED BY <1>1, <1>2, <1>8, <1>9, <1>10, <1>11 DEF IInv, Running

\* Every step keeps the invariant.
LEMMA StepFine == IInv /\ [Next]_vars => IInv'
<1> SUFFICES ASSUME IInv, [Next]_vars PROVE IInv'
  OBVIOUS
<1>1. CallFine /\ RefusedEmpty /\ ReadsLive /\ (todo # <<>> => Running)
  BY DEF IInv
<1>2. CASE UNCHANGED vars
  <2>1. UNCHANGED call /\ UNCHANGED todo /\ UNCHANGED heap /\ UNCHANGED at /\ UNCHANGED owned
        /\ UNCHANGED refused /\ UNCHANGED dead
    BY <1>2 DEF vars
  <2>2. CallFine' /\ RefusedEmpty' /\ ReadsLive'
    BY <1>1, <2>1, Same DEF RefusedEmpty, ReadsLive
  <2>3. ASSUME todo # <<>> PROVE Running'
    <3>1. TodoFine /\ Prepared /\ OwnedFine /\ HeapFine /\ Accounted(HeldLists)
      BY <1>1, <2>3 DEF Running
    <3>2. \A w, m : Left(w, m)' <=> Left(w, m)
      BY <2>1 DEF Left
    <3>3. \A k : Taken(k)' <=> Taken(k)
      BY <3>2 DEF Taken
    <3>4. TodoFine'
      BY <2>1, <3>1, Same DEF TodoFine
    <3>5. Prepared'
      BY <2>1, <3>1, <3>2, Same DEF Prepared, Space
    <3>6. OwnedFine'
      BY <2>1, <3>1, <3>2, <3>3, Same DEF OwnedFine
    <3>7. HeldLists' \subseteq HeldLists
      BY <2>1, <3>1, GuestHolds, OwnedNotPassed
    <3>8. HeapFine' /\ Accounted(HeldLists)'
      <4>1. dead' = dead /\ UNCHANGED <<call, heap, at, refused>>
        BY <2>1
      <4> QED BY <1>1, <2>3, <3>7, <4>1, KeepStep
    <3> QED BY <3>4, <3>5, <3>6, <3>8 DEF Running
  <2> QED BY <2>1, <2>2, <2>3 DEF IInv
<1>3. CASE Fail
  <2>1. todo' = <<>> /\ UNCHANGED <<call, refused, dead>>
    BY <1>3 DEF Fail
  <2>2. CallFine' /\ RefusedEmpty' /\ ReadsLive'
    BY <1>1, <2>1, Same DEF RefusedEmpty, ReadsLive
  <2> QED BY <2>1, <2>2 DEF IInv
<1>4. CASE Step
  <2>1. todo # <<>>
    <3>1. \A l : l \in Wanted => GuestRuns
      BY DEF Wanted
    <3> QED BY <1>4, <3>1 DEF Step, NewVec, DropVec, MoveVec, GuestDone, GuestRuns
  <2>2. Running
    BY <1>1, <2>1
  <2>3. UNCHANGED call
    BY <1>4 DEF Step, HostMalloc, Return, GuestCanonLift, GuestListLift, GuestCanonLower,
                GuestListLower, HostRead, HostCanonLift, HostListLift, NewVec, DropVec, MoveVec, GuestDone
  <2>4. Stays
    <3>1. ASSUME NEW l, HostMalloc(l) PROVE Stays
      BY <1>1, <2>2, <3>1, HostMallocStep
    <3>2. ASSUME NEW l, GuestListLift(l) \/ HostCanonLift(l) \/ HostListLift(l) \/ Return(l) PROVE Stays
      BY <1>1, <2>2, <3>2, FreeingSteps
    <3>3. ASSUME NEW l, GuestCanonLift(l) PROVE Stays
      BY <1>1, <2>2, <3>3, GuestCanonLiftStep
    <3>4. ASSUME NEW l, GuestCanonLower(l) PROVE Stays
      BY <1>1, <2>2, <3>4, GuestCanonLowerStep
    <3>5. ASSUME NEW l, GuestListLower(l) PROVE Stays
      BY <1>1, <2>2, <3>5, GuestListLowerStep
    <3>6. ASSUME NEW l, HostRead(l) PROVE Stays
      BY <1>1, <2>2, <3>6, HostReadStep
    <3>7. ASSUME NEW l, NewVec(l) PROVE Stays
      BY <1>1, <2>2, <3>7, NewVecStep
    <3>8. ASSUME NEW k, DropVec(k) PROVE Stays
      BY <1>1, <2>2, <3>8, DropVecStep
    <3>9. ASSUME NEW k, NEW l, MoveVec(k, l) PROVE Stays
      BY <1>1, <2>2, <3>9, MoveVecStep
    <3>10. ASSUME GuestDone PROVE Stays
      BY <1>1, <2>2, <3>10, GuestDoneStep
    <3> QED BY <1>4, <3>1, <3>2, <3>3, <3>4, <3>5, <3>6, <3>7, <3>8, <3>9, <3>10, Zenon DEF Step
  <2> QED BY <1>1, <2>3, <2>4, Same DEF IInv, Stays
<1> QED BY <1>2, <1>3, <1>4 DEF Next

\* The invariant holds of every behaviour.
LEMMA InvariantIsKept == Spec => []IInv
BY InitFine, StepFine, PTL DEF Spec

\* Whoever frees a list with items, on either side of a call, frees memory
\* that is allocated, and with the size it has: whatever lists are passed, and
\* whatever the guest's code drops, keeps or hands on.
THEOREM FreesAreMatched == Spec => []FreesMatch
<1>1. IInv => FreesMatch
  BY DEF IInv, RefusedEmpty, FreesMatch
<1> QED BY <1>1, InvariantIsKept, PTL

\* No list is read when its memory is freed already, or not yet allocated.
THEOREM ReadsAreLive == Spec => []ReadsLive
<1>1. IInv => ReadsLive
  BY DEF IInv
<1> QED BY <1>1, InvariantIsKept, PTL

\* While a call runs, no memory is accounted for twice: not by two vectors of
\* the guest, nor by a vector and by the wrappers that are to free it.
HeldOnce == todo # <<>> => Accounted(HeldLists)

\* Whatever is held is there, and once: what the guest owns is never what the
\* host, or a wrapper, frees.
THEOREM MemoryIsHeldOnce == Spec => []HeldOnce
<1>1. IInv => HeldOnce
  BY DEF IInv, Running, HeldOnce
<1> QED BY <1>1, InvariantIsKept, PTL

=============================================================================
