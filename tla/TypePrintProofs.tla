-------------------------- MODULE TypePrintProofs ---------------------------
(***************************************************************************)
(* Proofs about TypeAnalysis and TypePrint, for every graph of types and   *)
(* every sequence of functions and modules.                                *)
(***************************************************************************)
EXTENDS TypePrint, FiniteSetTheorems, SequenceTheorems, WellFoundedInduction, TLAPS

(***************************************************************************)
(* Induction, in a form that the provers can apply.                        *)
(***************************************************************************)

\* A set with 0 and the successors of its elements has every natural.
LEMMA NaturalsIn ==
    ASSUME NEW T, 0 \in T, \A n \in Nat : n \in T => n + 1 \in T
    PROVE  \A n \in Nat : n \in T
<1> DEFINE R == OpToRel(<, Nat)
<1> SUFFICES ASSUME Nat \ T # {} PROVE FALSE
  OBVIOUS
<1>1. PICK x \in Nat \ T : \A y \in Nat \ T : ~(<<y, x>> \in R)
  <2>1. IsWellFoundedOn(R, Nat)
    BY NatLessThanWellFounded
  <2> HIDE DEF R
  <2>2. Nat \ T \in SUBSET Nat
    OBVIOUS
  <2> QED BY <2>1, <2>2, WFMin
<1>2. \A y \in Nat \ T : ~(y < x)
  BY <1>1 DEF OpToRel
<1> HIDE DEF R
<1>3. x # 0 /\ x - 1 \in Nat /\ x - 1 < x /\ (x - 1) + 1 = x
  OBVIOUS
<1> QED BY <1>1, <1>2, <1>3

\* What holds of a number when it holds of all smaller ones holds of all.
LEMMA SmallerFirst ==
    ASSUME NEW m \in Nat, NEW T,
           \A n \in 1..m : (\A k \in 1..(n - 1) : k \in T) => n \in T
    PROVE  \A n \in 1..m : n \in T
<1> DEFINE U == {n \in Nat : \A k \in 1..n : k <= m => k \in T}
<1>1. 0 \in U
  OBVIOUS
<1>2. ASSUME NEW n \in Nat, n \in U PROVE n + 1 \in U
  <2>1. \A k \in 1..n : k <= m => k \in T
    BY <1>2
  <2>2. n + 1 <= m => n + 1 \in T
    <3> SUFFICES ASSUME n + 1 <= m PROVE n + 1 \in T
      OBVIOUS
    <3>1. n + 1 \in 1..m /\ (n + 1) - 1 = n
      OBVIOUS
    <3>2. \A k \in 1..n : k \in T
      BY <2>1
    <3> QED BY <3>1, <3>2
  <2>3. \A k \in 1..(n + 1) : k = n + 1 \/ k \in 1..n
    OBVIOUS
  <2> QED BY <2>1, <2>2, <2>3
<1>3. \A n \in Nat : n \in U
  <2> HIDE DEF U
  <2> QED BY <1>1, <1>2, NaturalsIn
<1> QED BY <1>3

\* The value step gives at t, a number up to m or a member of B, from a
\* function, depends on the function's values below t only.
LooksBelow(B, m, V, step) ==
    /\ m \in Nat /\ B \cap Int = {} /\ V # {}
    /\ step \in [(B \cup 1..m) \X [B \cup 1..m -> V] -> V]
    /\ \A t \in B : \A g, h \in [B \cup 1..m -> V] : step[<<t, g>>] = step[<<t, h>>]
    /\ \A t \in 1..m : \A g, h \in [B \cup 1..m -> V] :
          (\A c \in B \cup 1..(t - 1) : g[c] = h[c]) => step[<<t, g>>] = step[<<t, h>>]

Defines(B, m, V, step) ==
    \E f \in [B \cup 1..m -> V] : \A t \in B \cup 1..m : f[t] = step[<<t, f>>]

\* Such a step defines a function.
LEMMA Recursion ==
    ASSUME NEW B, NEW m, NEW V, NEW step, LooksBelow(B, m, V, step)
    PROVE  Defines(B, m, V, step)
<1> USE DEF LooksBelow, Defines
<1> DEFINE D == B \cup 1..m
           F == [D -> V]
           Upto(f, n) == \A t \in B \cup 1..n : f[t] = step[<<t, f>>]
           Defined(n) == \E f \in F : Upto(f, n)
           T == {n \in Nat : n <= m => Defined(n)}
<1>1. 0 \in T
  <2>1. PICK g \in F : TRUE
    <3>1. PICK v \in V : TRUE
      OBVIOUS
    <3>2. [t \in D |-> v] \in F
      OBVIOUS
    <3> QED BY <3>2
  <2> DEFINE f == [t \in D |-> step[<<t, g>>]]
  <2>2. f \in F
    BY <2>1
  <2>3. Upto(f, 0)
    <3>1. \A t \in B \cup 1..0 : t \in B /\ t \in D /\ f[t] = step[<<t, g>>]
      OBVIOUS
    <3> QED BY <2>1, <2>2, <3>1
  <2> HIDE DEF f, Upto
  <2> QED BY <2>2, <2>3
<1>2. ASSUME NEW n \in Nat, n \in T PROVE n + 1 \in T
  <2> SUFFICES ASSUME n + 1 <= m PROVE Defined(n + 1)
    <3> HIDE DEF Defined
    <3> QED OBVIOUS
  <2>0. Defined(n)
    <3> HIDE DEF Defined
    <3> QED BY <1>2
  <2>1. PICK g \in F : Upto(g, n)
    BY <2>0
  <2> DEFINE f == [t \in D |-> IF t = n + 1 THEN step[<<t, g>>] ELSE g[t]]
  <2>2. f \in F
    BY <2>1
  <2>3. \A t \in D : t # n + 1 => f[t] = g[t]
    BY <2>1
  <2>4. n + 1 \in 1..m /\ n + 1 \in D /\ f[n + 1] = step[<<n + 1, g>>] /\ n + 1 \notin B
    BY <2>1
  <2> HIDE DEF f
  <2>5. ASSUME NEW t \in B \cup 1..(n + 1) PROVE f[t] = step[<<t, f>>]
    <3>1. CASE t \in B
      <4>1. t # n + 1 /\ t \in D /\ t \in B \cup 1..n
        BY <3>1, <2>4
      <4>2. f[t] = step[<<t, g>>]
        BY <4>1, <2>1, <2>3
      <4> QED BY <3>1, <4>2, <2>1, <2>2
    <3>2. CASE t \in 1..n
      <4>1. t \in 1..m /\ t # n + 1 /\ t \in D /\ t \in B \cup 1..n
        BY <3>2
      <4>2. f[t] = step[<<t, g>>]
        BY <4>1, <2>1, <2>3
      <4>3. \A c \in B \cup 1..(t - 1) : c \in D /\ c # n + 1
        BY <4>1, <2>4, <3>2
      <4>4. \A c \in B \cup 1..(t - 1) : f[c] = g[c]
        BY <4>3, <2>3
      <4> QED BY <4>1, <4>2, <4>4, <2>1, <2>2
    <3>3. CASE t = n + 1
      <4>1. \A c \in B \cup 1..((n + 1) - 1) : c \in D /\ c # n + 1
        BY <2>4
      <4>2. \A c \in B \cup 1..((n + 1) - 1) : f[c] = g[c]
        BY <4>1, <2>3
      <4>3. step[<<n + 1, f>>] = step[<<n + 1, g>>]
        BY <4>2, <2>1, <2>2, <2>4
      <4> QED BY <3>3, <4>3, <2>4
    <3>4. t \in B \/ t \in 1..n \/ t = n + 1
      OBVIOUS
    <3> QED BY <3>1, <3>2, <3>3, <3>4
  <2> QED BY <2>2, <2>5
<1>3. \A n \in Nat : n \in T
  <2> HIDE DEF T
  <2> QED BY <1>1, <1>2, NaturalsIn
<1>4. Defined(m)
  <2> HIDE DEF Defined
  <2> QED BY <1>3
<1> QED BY <1>4

(***************************************************************************)
(* The graph of types.                                                     *)
(***************************************************************************)

\* What a reference may be.
TRef == Builtin \cup Node

\* The graph of a module, as the parser gives it.
LEMMA Graph ==
    ASSUME module \in Module
    PROVE  /\ Len(def) \in Nat /\ Node = 1..Len(def)
           /\ named \subseteq Node /\ Builtin \cap Int = {} /\ Builtin \cap Node = {}
           /\ \A n \in Node :
                 /\ def[n].kind \in Kind /\ def[n].of \in Seq(TRef)
                 /\ Children(n) \subseteq Builtin \cup 1..(n - 1)
                 /\ def[n].kind \in {"list", "in_buffer", "out_buffer", "alias"} =>
                       Len(def[n].of) = 1 /\ Children(n) = {def[n].of[1]}
                 /\ def[n].kind = "alias" => n \in named /\ def[n].of[1] \in named
<1> DEFINE R == [kind : Kind, of : Seq(Builtin \cup Nat)]
<1>1. PICK d : d = def
  OBVIOUS
<1>2. /\ d \in Seq(R)
      /\ named \subseteq DOMAIN d
      /\ \A n \in DOMAIN d :
            /\ \A i \in DOMAIN d[n].of : d[n].of[i] \in Builtin \cup 1..(n - 1)
            /\ d[n].kind \in {"list", "in_buffer", "out_buffer", "alias"} => Len(d[n].of) = 1
            /\ d[n].kind = "alias" => n \in named /\ d[n].of[1] \in named
  BY <1>1, TypesAssumption DEF def, named
<1>3. Builtin \cap Int = {}
  BY TypesAssumption
<1> HIDE DEF R
<1>4. Len(d) \in Nat /\ DOMAIN d = 1..Len(d) /\ \A n \in DOMAIN d : d[n] \in R
  BY <1>2
<1>5. ASSUME NEW n \in DOMAIN d
      PROVE  /\ d[n].kind \in Kind /\ d[n].of \in Seq(Builtin \cup DOMAIN d)
             /\ SeqSet(d[n].of) \subseteq Builtin \cup 1..(n - 1)
             /\ Len(d[n].of) = 1 => SeqSet(d[n].of) = {d[n].of[1]}
  <2>1. PICK o : o = d[n].of
    OBVIOUS
  <2>2. d[n].kind \in Kind /\ o \in Seq(Builtin \cup Nat)
    BY <1>4, <2>1 DEF R
  <2>3. \A i \in DOMAIN o : o[i] \in Builtin \cup 1..(n - 1)
    BY <1>2, <2>1
  <2>4. o \in Seq(Builtin \cup DOMAIN d)
    <3>1. \A i \in 1..Len(o) : o[i] \in Builtin \cup DOMAIN d
      BY <2>2, <2>3, <1>4
    <3>2. Len(o) \in Nat /\ o = [i \in 1..Len(o) |-> o[i]]
      BY <2>2
    <3>3. o \in [1..Len(o) -> Builtin \cup DOMAIN d]
      BY <3>1, <3>2
    <3> QED BY <3>2, <3>3, SeqDef
  <2>5. Len(o) = 1 => SeqSet(o) = {o[1]}
    BY <2>2 DEF SeqSet
  <2> QED BY <2>1, <2>2, <2>3, <2>4, <2>5 DEF SeqSet
<1>6. Node = 1..Len(def) /\ Len(def) \in Nat
  BY <1>1, <1>4 DEF Node
<1>7. Builtin \cap Node = {}
  BY <1>3, <1>6
<1>8. DOMAIN d = Node /\ named \subseteq Node
  BY <1>1, <1>2 DEF Node
<1> HIDE DEF R
<1>9. ASSUME NEW n \in Node
      PROVE  /\ def[n].kind \in Kind /\ def[n].of \in Seq(TRef)
             /\ Children(n) \subseteq Builtin \cup 1..(n - 1)
             /\ def[n].kind \in {"list", "in_buffer", "out_buffer", "alias"} =>
                   Len(def[n].of) = 1 /\ Children(n) = {def[n].of[1]}
             /\ def[n].kind = "alias" => n \in named /\ def[n].of[1] \in named
  <2>1. d[n] = def[n] /\ n \in DOMAIN d
    BY <1>1, <1>8
  <2>2. Children(n) = SeqSet(d[n].of)
    BY <2>1 DEF Children
  <2> QED BY <1>2, <1>5, <1>8, <2>1, <2>2 DEF TRef
<1> QED BY <1>3, <1>6, <1>7, <1>8, <1>9

\* Everything a type refers to is a type or builtin.
LEMMA ChildrenAreTRefs ==
    ASSUME module \in Module, NEW n \in Node
    PROVE  Children(n) \subseteq TRef
BY Graph DEF TRef

\* What is reachable is closed ...
LEMMA ReachableClosed ==
    ASSUME module \in Module, NEW S
    PROVE  Reachable(S) \subseteq Node /\ S \cap Node \subseteq Reachable(S) /\ Closed(Reachable(S))
BY DEF Reachable, Closed

\* ... and least.
LEMMA ReachableLeast ==
    ASSUME module \in Module, NEW S, NEW C \in SUBSET Node, S \cap Node \subseteq C, Closed(C)
    PROVE  Reachable(S) \subseteq C
BY DEF Reachable

\* More roots reach more.
LEMMA ReachableMonotone ==
    ASSUME module \in Module, NEW S, NEW T, S \subseteq T
    PROVE  Reachable(S) \subseteq Reachable(T)
<1>1. Reachable(T) \in SUBSET Node /\ S \cap Node \subseteq Reachable(T) /\ Closed(Reachable(T))
  BY ReachableClosed
<1> QED BY <1>1, ReachableLeast

\* Builtin types reach no types.
LEMMA ReachableBuiltin ==
    ASSUME module \in Module, NEW t \in Builtin
    PROVE  Reachable({t}) = {}
<1>1. {} \in SUBSET Node /\ {t} \cap Node \subseteq {} /\ Closed({})
  BY Graph DEF Closed
<1> QED BY <1>1, ReachableLeast

\* A type that is reachable makes reachable what it reaches.
LEMMA ReachableThrough ==
    ASSUME module \in Module, NEW S, NEW n \in Reachable(S)
    PROVE  Reachable({n}) \subseteq Reachable(S)
<1>1. Reachable(S) \in SUBSET Node /\ {n} \cap Node \subseteq Reachable(S) /\ Closed(Reachable(S))
  BY ReachableClosed
<1> QED BY <1>1, ReachableLeast

\* A type reaches itself and what its children reach.
LEMMA ReachableUnfolds ==
    ASSUME module \in Module, NEW n \in Node
    PROVE  Reachable({n}) = {n} \cup UNION {Reachable({c}) : c \in Children(n)}
<1> DEFINE C == {n} \cup UNION {Reachable({c}) : c \in Children(n)}
<1>1. C \in SUBSET Node
  BY ReachableClosed
<1>2. Closed(C)
  <2> SUFFICES ASSUME NEW m \in C, NEW c \in Children(m) \cap Node PROVE c \in C
    BY DEF Closed
  <2>1. CASE m = n
    <3>1. c \in Reachable({c})
      BY ReachableClosed
    <3> QED BY <2>1, <3>1
  <2>2. CASE m # n
    <3>1. PICK b \in Children(n) : m \in Reachable({b})
      BY <2>2
    <3>2. c \in Reachable({b})
      BY <3>1, ReachableClosed DEF Closed
    <3> QED BY <3>2
  <2> QED BY <2>1, <2>2
<1>3. Reachable({n}) \subseteq C
  BY <1>1, <1>2, ReachableLeast
<1>4. n \in Reachable({n})
  BY ReachableClosed
<1>5. ASSUME NEW c \in Children(n) PROVE Reachable({c}) \subseteq Reachable({n})
  <2>1. CASE c \in Node
    <3>1. c \in Reachable({n})
      BY <1>4, <2>1, ReachableClosed DEF Closed
    <3> QED BY <3>1, ReachableThrough
  <2>2. CASE c \notin Node
    <3>1. c \in Builtin
      BY <2>2, ChildrenAreTRefs DEF TRef
    <3> QED BY <3>1, ReachableBuiltin
  <2> QED BY <2>1, <2>2
<1> QED BY <1>3, <1>4, <1>5

\* A type reaches only types that are defined before it.
LEMMA ReachableBefore ==
    ASSUME module \in Module, NEW n \in Node
    PROVE  Reachable({n}) \subseteq 1..n
<1>1. 1..n \in SUBSET Node /\ {n} \cap Node \subseteq 1..n
  BY Graph
<1>2. Closed(1..n)
  <2>1. \A m \in 1..n : m \in Node /\ Children(m) \subseteq Builtin \cup 1..(m - 1) /\ 1..(m - 1) \subseteq 1..n
    BY Graph, <1>1
  <2> QED BY <2>1, Graph DEF Closed
<1> QED BY <1>1, <1>2, ReachableLeast

\* What a type contains is what it is and what its children contain.
LEMMA KindsUnfold ==
    ASSUME module \in Module, NEW n \in Node
    PROVE  Kinds(n) = {def[n].kind} \cup UNION {Kinds(c) : c \in Children(n) \cap Node}
<1> DEFINE R == Reachable({n})
           Below == UNION {Reachable({c}) : c \in Children(n)}
<1>1. R = {n} \cup Below
  BY ReachableUnfolds
<1>2. Below = UNION {Reachable({c}) : c \in Children(n) \cap Node}
  <2>1. \A c \in Children(n) : c \in Node \/ Reachable({c}) = {}
    BY ChildrenAreTRefs, ReachableBuiltin DEF TRef
  <2> QED BY <2>1
<1>3. \A m \in R : m = n \/ \E c \in Children(n) \cap Node : m \in Reachable({c})
  BY <1>1, <1>2
<1>4. n \in R /\ \A c \in Children(n) \cap Node : Reachable({c}) \subseteq R
  BY <1>1, <1>2
<1>5. Kinds(n) = {def[m].kind : m \in R}
  BY DEF Kinds
<1> HIDE DEF R
<1>6. \A c \in Children(n) \cap Node : Kinds(c) = {def[m].kind : m \in Reachable({c})}
  BY DEF Kinds
<1>7. ASSUME NEW k \in Kinds(n)
      PROVE  k = def[n].kind \/ \E c \in Children(n) \cap Node : k \in Kinds(c)
  <2>1. PICK m \in R : k = def[m].kind
    BY <1>5, <1>7
  <2>2. m = n \/ \E c \in Children(n) \cap Node : m \in Reachable({c})
    BY <1>3
  <2> QED BY <1>6, <2>1, <2>2
<1>8. ASSUME NEW c \in Children(n) \cap Node, NEW k \in Kinds(c) PROVE k \in Kinds(n)
  <2>1. PICK m \in Reachable({c}) : k = def[m].kind
    BY <1>6, <1>8
  <2>2. m \in R
    BY <1>4
  <2> QED BY <1>5, <2>1, <2>2
<1>9. def[n].kind \in Kinds(n)
  BY <1>4, <1>5
<1> QED BY <1>7, <1>8, <1>9

(***************************************************************************)
(* What analysis computes for a type.                                      *)
(***************************************************************************)

\* What is known of names is known as TypeInfo.
Typed == type_info \in [DOMAIN type_info -> TypeInfo] /\ DOMAIN type_info \subseteq named

\* A merge is a TypeInfo.
LEMMA MergeTyped ==
    ASSUME NEW infos, NEW set
    PROVE  Merge(infos, set) \in TypeInfo
BY DEF Merge, TypeInfo

\* type_ref_info satisfies its recursive definition.
LEMMA TypeRefInfoUnfolds ==
    ASSUME module \in Module, Typed, NEW t \in TRef
    PROVE  type_ref_info[t] =
             IF t \in Builtin THEN Merge({}, "none")
             ELSE IF t \in named \cap DOMAIN type_info THEN type_info[t]
             ELSE IF def[t].kind = "alias" THEN type_ref_info[def[t].of[1]]
             ELSE Merge({type_ref_info[c] : c \in Children(t)}, Own(def[t].kind))
<1> DEFINE m == Len(def)
           D == Builtin \cup 1..m
           F == [D -> TypeInfo]
           Info(x, f) == IF x \in Builtin THEN Merge({}, "none")
                         ELSE IF x \in named \cap DOMAIN type_info THEN type_info[x]
                         ELSE IF def[x].kind = "alias" THEN f[def[x].of[1]]
                         ELSE Merge({f[c] : c \in Children(x)}, Own(def[x].kind))
           step == [p \in D \X F |-> Info(p[1], p[2])]
           Body(f) == [x \in D |-> Info(x, f)]
<1>1. D = TRef /\ m \in Nat /\ Builtin \cap Int = {}
  BY Graph DEF TRef
<1>2. ASSUME NEW x \in 1..m
      PROVE  /\ x \in Node /\ x \notin Builtin
             /\ Children(x) \subseteq Builtin \cup 1..(x - 1)
             /\ Children(x) \subseteq D
             /\ def[x].kind = "alias" => def[x].of[1] \in Children(x)
  BY Graph, ChildrenAreTRefs, <1>1
<1>3. ASSUME NEW x \in D, NEW f \in F PROVE Info(x, f) \in TypeInfo
  <2>1. CASE x \in Builtin
    BY <2>1, MergeTyped
  <2>2. CASE x \in 1..m
    <3>1. x \in named \cap DOMAIN type_info => type_info[x] \in TypeInfo
      BY DEF Typed
    <3>2. def[x].kind = "alias" => f[def[x].of[1]] \in TypeInfo
      BY <1>2, <2>2
    <3> QED BY <1>2, <2>2, <3>1, <3>2, MergeTyped
  <2> QED BY <2>1, <2>2
<1>4. ASSUME NEW x \in 1..m, NEW g \in F, NEW h \in F, \A c \in Builtin \cup 1..(x - 1) : g[c] = h[c]
      PROVE  Info(x, g) = Info(x, h)
  <2>1. \A c \in Children(x) : g[c] = h[c]
    BY <1>2, <1>4
  <2>2. {g[c] : c \in Children(x)} = {h[c] : c \in Children(x)}
    BY <2>1
  <2>3. def[x].kind = "alias" => g[def[x].of[1]] = h[def[x].of[1]]
    BY <1>2, <2>1
  <2> QED BY <2>2, <2>3
<1>5. ASSUME NEW x \in Builtin, NEW g \in F, NEW h \in F PROVE Info(x, g) = Info(x, h)
  OBVIOUS
<1>6. TypeInfo # {}
  BY MergeTyped
<1> HIDE DEF Info
<1>7. step \in [D \X F -> TypeInfo]
  BY <1>3
<1>8. \A x \in D : \A f \in F : step[<<x, f>>] = Info(x, f)
  OBVIOUS
<1> HIDE DEF step
<1>9. ASSUME NEW x \in Builtin, NEW g \in F, NEW h \in F PROVE step[<<x, g>>] = step[<<x, h>>]
  <2>1. x \in D
    OBVIOUS
  <2>2. Info(x, g) = Info(x, h)
    BY <1>5
  <2> QED BY <1>8, <2>1, <2>2
<1>10. ASSUME NEW x \in 1..m, NEW g \in F, NEW h \in F, \A c \in Builtin \cup 1..(x - 1) : g[c] = h[c]
       PROVE  step[<<x, g>>] = step[<<x, h>>]
  <2>1. x \in D
    OBVIOUS
  <2>2. Info(x, g) = Info(x, h)
    BY <1>4, <1>10
  <2> QED BY <1>8, <2>1, <2>2
<1> HIDE DEF m
<1>11. \E f \in F : \A x \in D : f[x] = step[<<x, f>>]
  <2>1. LooksBelow(Builtin, m, TypeInfo, step)
    BY <1>1, <1>6, <1>7, <1>9, <1>10 DEF LooksBelow
  <2>2. PICK n, st : n = m /\ st = step
    OBVIOUS
  <2>3. LooksBelow(Builtin, n, TypeInfo, st)
    BY <2>1, <2>2
  <2>4. Defines(Builtin, n, TypeInfo, st)
    BY <2>3, Recursion
  <2> QED BY <2>2, <2>4 DEF Defines
<1>12. PICK f \in F : \A x \in D : f[x] = Info(x, f)
  BY <1>8, <1>11
<1>13. f = Body(f)
  BY <1>12
<1>14. type_ref_info = CHOOSE g : g = Body(g)
  BY <1>1 DEF type_ref_info, TRef, Info
<1> HIDE DEF Body
<1>15. type_ref_info = Body(type_ref_info)
  BY <1>13, <1>14
<1>16. type_ref_info[t] = Info(t, type_ref_info)
  BY <1>1, <1>15 DEF Body
<1> QED BY <1>16 DEF Info

\* The information on a type says what it contains ...
Exact(n, info) ==
    /\ info \in TypeInfo
    /\ info.has_list <=> "list" \in Kinds(n)
    /\ info.has_handle <=> "handle" \in Kinds(n)
    /\ info.has_in_buffer <=> "in_buffer" \in Kinds(n)
    /\ info.has_out_buffer <=> "out_buffer" \in Kinds(n)

\* ... and not yet anything on its uses.
Unused(info) == ~info.param /\ ~info.result /\ ~info.handle_with_dtor

\* The information on a type is merged from that on its children.
LEMMA MergeExact ==
    ASSUME module \in Module, NEW n \in Node, NEW f,
           \A c \in Children(n) \cap Node : Exact(c, f[c]) /\ Unused(f[c]),
           \A c \in Children(n) \cap Builtin : f[c] = Merge({}, "none")
    PROVE  LET info == Merge({f[c] : c \in Children(n)}, Own(def[n].kind))
           IN  Exact(n, info) /\ Unused(info)
<1> DEFINE infos == {f[c] : c \in Children(n)}
           info == Merge(infos, Own(def[n].kind))
<1>1. PICK k : k = def[n].kind
  OBVIOUS
<1>2. \A c \in Children(n) : c \in Node \/ c \in Builtin
  BY ChildrenAreTRefs DEF TRef
<1>3. ASSUME NEW flag \in Flags
      PROVE  info[flag] <=> flag = Own(k) \/ \E c \in Children(n) \cap Node : f[c][flag]
  <2>1. flag # "handle_with_dtor"
    BY DEF Flags
  <2>2. info[flag] <=> flag = Own(k) \/ \E i \in infos : i[flag]
    BY <1>1, <2>1 DEF Merge
  <2>3. (\E i \in infos : i[flag]) <=> \E c \in Children(n) : f[c][flag]
    OBVIOUS
  <2>4. \A c \in Children(n) \cap Builtin : ~f[c][flag]
    <3>1. flag # "none"
      BY DEF Flags
    <3>2. ~Merge({}, "none")[flag]
      BY <3>1 DEF Merge
    <3> QED BY <3>2
  <2> QED BY <1>2, <2>2, <2>3, <2>4
<1>4. ~info.handle_with_dtor
  BY DEF Merge, Own
<1>5. info \in TypeInfo
  BY MergeTyped
<1>6. \A x : x \in Kinds(n) <=> x = k \/ \E c \in Children(n) \cap Node : x \in Kinds(c)
  BY <1>1, KindsUnfold
<1>7. {"param", "result", "has_list", "has_handle", "has_in_buffer", "has_out_buffer"} \subseteq Flags
  BY DEF Flags
<1> HIDE DEF info
<1>8. ~info.param /\ ~info.result
  <2>1. "param" # Own(k) /\ "result" # Own(k)
    BY DEF Own
  <2>2. \A c \in Children(n) \cap Node : ~f[c].param /\ ~f[c].result
    BY DEF Unused
  <2> QED BY <1>3, <1>7, <2>1, <2>2
<1>9. info.has_list <=> "list" \in Kinds(n)
  <2>1. "has_list" = Own(k) <=> "list" = k
    BY DEF Own
  <2>2. \A c \in Children(n) \cap Node : f[c].has_list <=> "list" \in Kinds(c)
    BY DEF Exact
  <2> QED BY <1>3, <1>6, <1>7, <2>1, <2>2
<1>10. info.has_handle <=> "handle" \in Kinds(n)
  <2>1. "has_handle" = Own(k) <=> "handle" = k
    BY DEF Own
  <2>2. \A c \in Children(n) \cap Node : f[c].has_handle <=> "handle" \in Kinds(c)
    BY DEF Exact
  <2> QED BY <1>3, <1>6, <1>7, <2>1, <2>2
<1>11. info.has_in_buffer <=> "in_buffer" \in Kinds(n)
  <2>1. "has_in_buffer" = Own(k) <=> "in_buffer" = k
    BY DEF Own
  <2>2. \A c \in Children(n) \cap Node : f[c].has_in_buffer <=> "in_buffer" \in Kinds(c)
    BY DEF Exact
  <2> QED BY <1>3, <1>6, <1>7, <2>1, <2>2
<1>12. info.has_out_buffer <=> "out_buffer" \in Kinds(n)
  <2>1. "has_out_buffer" = Own(k) <=> "out_buffer" = k
    BY DEF Own
  <2>2. \A c \in Children(n) \cap Node : f[c].has_out_buffer <=> "out_buffer" \in Kinds(c)
    BY DEF Exact
  <2> QED BY <1>3, <1>6, <1>7, <2>1, <2>2
<1> QED BY <1>4, <1>5, <1>8, <1>9, <1>10, <1>11, <1>12 DEF Exact, Unused, info

\* An alias contains what the type it stands for does.
LEMMA AliasExact ==
    ASSUME module \in Module, NEW n \in Node, def[n].kind = "alias",
           NEW info, Exact(def[n].of[1], info)
    PROVE  Exact(n, info)
<1>1. PICK a : a = def[n].of[1]
  OBVIOUS
<1>2. Children(n) \cap Node = {a}
  BY <1>1, Graph
<1>3. Kinds(n) = {"alias"} \cup Kinds(a)
  BY <1>2, KindsUnfold
<1> QED BY <1>1, <1>3 DEF Exact

\* What is known of the names before n is exact, as long as nothing is marked.
KnownBefore(n) ==
    \A m \in named : m < n => m \in DOMAIN type_info /\ Exact(m, type_info[m]) /\ Unused(type_info[m])

\* Then type_ref_info is exact for the types before n ...
LEMMA TypeRefInfoExact ==
    ASSUME module \in Module, Typed, NEW n \in Nat, KnownBefore(n), NEW t \in Node, t < n
    PROVE  Exact(t, type_ref_info[t]) /\ Unused(type_ref_info[t])
<1> DEFINE Good(x) == Exact(x, type_ref_info[x]) /\ Unused(type_ref_info[x])
           T == {x \in 1..Len(def) : x < n => Good(x)}
<1>1. PICK m \in Nat : m = Len(def) /\ Node = 1..m
  BY Graph
<1>2. ASSUME NEW x \in 1..m, \A k \in 1..(x - 1) : k \in T PROVE x \in T
  <2> SUFFICES ASSUME x < n PROVE Good(x)
    BY <1>1
  <2>1. x \in Node /\ x \in TRef /\ x \notin Builtin
    BY <1>1, Graph DEF TRef
  <2>2. \A c \in Children(x) \cap Node : Good(c)
    <3>1. \A c \in Children(x) \cap Node : c \in 1..(x - 1) /\ c < n
      BY <2>1, <1>1, Graph
    <3> HIDE DEF Good
    <3> QED BY <3>1, <1>2
  <2>3. type_ref_info[x] =
             IF x \in named \cap DOMAIN type_info THEN type_info[x]
             ELSE IF def[x].kind = "alias" THEN type_ref_info[def[x].of[1]]
             ELSE Merge({type_ref_info[c] : c \in Children(x)}, Own(def[x].kind))
    BY <2>1, TypeRefInfoUnfolds
  <2>4. CASE x \in named
    <3>1. x \in DOMAIN type_info /\ Exact(x, type_info[x]) /\ Unused(type_info[x])
      BY <2>4 DEF KnownBefore
    <3> QED BY <2>3, <2>4, <3>1
  <2>5. CASE x \notin named
    <3>1. def[x].kind # "alias"
      BY <2>1, <2>5, Graph
    <3>2. PICK f : f = type_ref_info
      OBVIOUS
    <3>3. type_ref_info[x] = Merge({f[c] : c \in Children(x)}, Own(def[x].kind))
      BY <2>3, <2>5, <3>1, <3>2
    <3>4. \A c \in Children(x) \cap Builtin : f[c] = Merge({}, "none")
      BY <3>2, TypeRefInfoUnfolds DEF TRef
    <3>5. \A c \in Children(x) \cap Node : Exact(c, f[c]) /\ Unused(f[c])
      BY <2>2, <3>2
    <3> QED BY <2>1, <3>3, <3>4, <3>5, MergeExact
  <2> QED BY <2>4, <2>5
<1>3. \A x \in 1..m : x \in T
  <2> HIDE DEF T
  <2> QED BY <1>2, SmallerFirst
<1> QED BY <1>1, <1>3

\* ... and DefinitionInfo for n itself.
LEMMA DefinitionInfoExact ==
    ASSUME module \in Module, Typed, NEW n \in Node, KnownBefore(n)
    PROVE  Exact(n, DefinitionInfo(n)) /\ Unused(DefinitionInfo(n))
<1>1. n \in Nat /\ \A c \in Children(n) \cap Node : c < n
  BY Graph
<1>2. \A c \in Children(n) \cap Node : Exact(c, type_ref_info[c]) /\ Unused(type_ref_info[c])
  BY <1>1, TypeRefInfoExact
<1>3. CASE def[n].kind = "alias"
  <2>1. def[n].of[1] \in Children(n) \cap Node
    BY <1>3, Graph
  <2> QED BY <1>2, <1>3, <2>1, AliasExact DEF DefinitionInfo
<1>4. CASE def[n].kind # "alias"
  <2>1. PICK f : f = type_ref_info
    OBVIOUS
  <2>2. \A c \in Children(n) \cap Builtin : f[c] = Merge({}, "none")
    BY <2>1, TypeRefInfoUnfolds DEF TRef
  <2>3. \A c \in Children(n) \cap Node : Exact(c, f[c]) /\ Unused(f[c])
    BY <1>2, <2>1
  <2>4. DefinitionInfo(n) = Merge({f[c] : c \in Children(n)}, Own(def[n].kind))
    BY <1>4, <2>1 DEF DefinitionInfo
  <2> QED BY <2>2, <2>3, <2>4, MergeExact
<1> QED BY <1>3, <1>4

(***************************************************************************)
(* The inductive invariant.                                                *)
(***************************************************************************)

\* What calls of set_param_result_tref there are.
Call == [tref : TRef, flag : {"param", "result"}]

\* The functions begun so far: at most one parameter and one result, and a
\* type to close that has a name.
FuncTyped ==
    /\ func.params \in AtMostOne(Node) /\ func.results \in AtMostOne(BufferFree)
    /\ func.closes \in {0} \cup named

TypesOK ==
    /\ module \in Module /\ Typed /\ cursor \in Nat
    /\ phase \in {"typenames", "funcs", "marking"}
    /\ work \in Seq(Call) /\ (phase # "marking" => work = <<>>)
    /\ phase = "marking" => FuncTyped
    /\ roots \in [param : SUBSET Node, result : SUBSET BufferFree, closed : SUBSET named]

\* While the names are gone through, those before the cursor are known and
\* nothing is marked; afterwards all are known.
Known ==
    IF phase = "typenames" THEN KnownBefore(cursor) /\ roots = NoRoots
    ELSE \A n \in named : n \in DOMAIN type_info /\ Exact(n, type_info[n])

\* The types that are still to be marked.
Pending(calls, flag) == {calls[i].tref : i \in {j \in DOMAIN calls : calls[j].flag = flag}}

\* Only what is reachable is marked, or about to be; and from every type that
\* was entered (of which those with names are marked) marking goes on.
Marked(flag) ==
    /\ Flagged(flag) \subseteq Reachable(roots[flag])
    /\ Pending(work, flag) \subseteq Builtin \cup Reachable(roots[flag])
    /\ \E E \in SUBSET Node :
          /\ E \cap named = Flagged(flag)
          /\ roots[flag] \subseteq E \cup Pending(work, flag)
          /\ \A n \in E : Children(n) \cap Node \subseteq E \cup Pending(work, flag)

\* The destructors found are those of the functions so far.
DtorsFound ==
    \A n \in named :
        LET closed == n \in roots.closed /\ def[type_[n]].kind = "handle"
        IN  (type_info[n].handle_with_dtor <=> closed) /\ (closed => n \in handle_dtors)

IInv ==
    /\ TypesOK /\ Known
    /\ phase # "typenames" => Marked("param") /\ Marked("result") /\ DtorsFound

(***************************************************************************)
(* Steps.                                                                  *)
(***************************************************************************)

\* No step changes the module, nor what is read off it.
LEMMA SameGraph ==
    ASSUME module' = module
    PROVE  /\ def' = def /\ named' = named /\ Node' = Node /\ TRef' = TRef /\ Call' = Call
           /\ \A n : Children(n)' = Children(n)
           /\ \A S : Reachable(S)' = Reachable(S)
           /\ \A n : Kinds(n)' = Kinds(n)
           /\ BufferFree' = BufferFree
           /\ type_' = type_
<1>1. def' = def /\ named' = named /\ Node' = Node
  BY DEF def, named, Node
<1>2. \A n : Children(n)' = Children(n)
  BY <1>1 DEF Children
<1>3. \A S : Reachable(S)' = Reachable(S)
  BY <1>1, <1>2 DEF Reachable, Closed
<1>4. \A n : Kinds(n)' = Kinds(n)
  BY <1>1, <1>3 DEF Kinds
<1>5. BufferFree' = BufferFree
  BY <1>1, <1>4 DEF BufferFree
<1>6. type_' = type_
  BY <1>1 DEF type_
<1> QED BY <1>1, <1>2, <1>3, <1>4, <1>5, <1>6 DEF TRef, Call

\* The initial states satisfy the invariant.
LEMMA InitInv == Init => IInv
<1> SUFFICES ASSUME Init PROVE IInv
  OBVIOUS
<1>1. DOMAIN type_info = {}
  BY DEF Init
<1>2. Typed
  BY DEF Init, Typed
<1>3. KnownBefore(1)
  BY Graph DEF KnownBefore, Init
<1>4. roots \in [param : SUBSET Node, result : SUBSET BufferFree, closed : SUBSET named]
  BY DEF Init, NoRoots
<1>5. work \in Seq(Call)
  BY DEF Init
<1>6. TypesOK
  BY <1>2, <1>4, <1>5 DEF Init, TypesOK
<1> QED BY <1>3, <1>6 DEF Init, IInv, Known

\* The typing of what is known, when one name gets new information.
LEMMA TypedStep ==
    ASSUME Typed, module' = module, NEW n \in named, NEW i \in TypeInfo,
           type_info' = [m \in DOMAIN type_info \cup {n} |-> IF m = n THEN i ELSE type_info[m]]
    PROVE  Typed'
<1>1. named' = named
  BY SameGraph
<1> QED BY <1>1 DEF Typed

\* Nothing marked, nothing to be marked and no roots: the marks are right.
LEMMA NothingMarked ==
    ASSUME roots' = NoRoots, work' = <<>>, NEW flag \in {"param", "result"}, Flagged(flag)' = {}
    PROVE  Marked(flag)'
<1>1. Pending(work', flag) = {}
  BY DEF Pending
<1>2. roots'[flag] = {}
  BY DEF NoRoots
<1>3. {} \in SUBSET Node' /\ {} \cap named' = Flagged(flag)'
  OBVIOUS
<1> QED BY <1>1, <1>2, <1>3 DEF Marked, Pending

\* analyze, the first loop.
LEMMA AnalyzeTypeInv ==
    ASSUME IInv, AnalyzeType
    PROVE  IInv'
<1>1. module' = module /\ roots' = roots /\ work' = work /\ handle_dtors' = handle_dtors
  BY DEF AnalyzeType
<1>2. /\ module \in Module /\ Typed /\ cursor \in Nat /\ cursor \in Node /\ work = <<>>
      /\ KnownBefore(cursor) /\ roots = NoRoots
  BY DEF IInv, TypesOK, Known, AnalyzeType
<1>3. Exact(cursor, DefinitionInfo(cursor)) /\ Unused(DefinitionInfo(cursor))
  BY <1>2, DefinitionInfoExact
<1>4. PICK i : i = DefinitionInfo(cursor)
  OBVIOUS
<1>5. i \in TypeInfo
  BY <1>3, <1>4 DEF Exact
<1>6. IF cursor \notin named THEN type_info' = type_info
      ELSE type_info' = [m \in DOMAIN type_info \cup {cursor} |->
                          IF m = cursor THEN i ELSE type_info[m]]
  BY <1>4 DEF AnalyzeType
<1>7. Typed'
  <2>1. CASE cursor \in named
    BY <1>1, <1>2, <1>5, <1>6, <2>1, TypedStep
  <2>2. CASE cursor \notin named
    BY <1>1, <1>2, <1>6, <2>2, SameGraph DEF Typed
  <2> QED BY <2>1, <2>2
<1>8. ASSUME NEW m \in named, m < cursor + 1
      PROVE  m \in DOMAIN type_info' /\ Exact(m, type_info'[m]) /\ Unused(type_info'[m])
  <2>1. m \in Nat /\ (m = cursor \/ m < cursor)
    BY <1>2, <1>8, Graph
  <2>2. CASE m = cursor
    <3>1. type_info'[m] = i /\ m \in DOMAIN type_info'
      BY <1>6, <2>2
    <3> QED BY <1>3, <1>4, <2>2, <3>1
  <2>3. CASE m < cursor
    <3>1. m \in DOMAIN type_info /\ Exact(m, type_info[m]) /\ Unused(type_info[m])
      BY <1>2, <2>3 DEF KnownBefore
    <3>2. m # cursor
      BY <1>2, <2>1, <2>3
    <3>3. m \in DOMAIN type_info' /\ type_info'[m] = type_info[m]
      BY <1>6, <3>1, <3>2
    <3> QED BY <3>1, <3>3
  <2> QED BY <2>1, <2>2, <2>3
<1>9. \A n, info : Exact(n, info)' <=> Exact(n, info)
  BY <1>1, SameGraph DEF Exact
<1>10. cursor' = cursor + 1 /\ phase' = IF cursor = Len(def) THEN "funcs" ELSE "typenames"
  BY DEF AnalyzeType
<1>11. KnownBefore(cursor)'
  BY <1>1, <1>8, <1>9, <1>10, SameGraph DEF KnownBefore
<1>12. TypesOK'
  <2>1. func' = func
    BY DEF AnalyzeType
  <2>2. roots \in [param : SUBSET Node, result : SUBSET BufferFree, closed : SUBSET named]
    BY DEF IInv, TypesOK
  <2>3. (roots \in [param : SUBSET Node, result : SUBSET BufferFree, closed : SUBSET named])'
    BY <1>1, <2>2, SameGraph
  <2>4. (work \in Seq(Call))'
    BY <1>1, <1>2
  <2> QED BY <1>1, <1>2, <1>7, <1>10, <2>3, <2>4 DEF TypesOK
<1>13. CASE phase' = "typenames"
  <2>1. Known'
    BY <1>1, <1>2, <1>11, <1>13 DEF Known, NoRoots
  <2> QED BY <1>12, <1>13, <2>1 DEF IInv
<1>14. CASE phase' # "typenames"
  <2>1. \A m \in named : m < cursor + 1
    BY <1>2, <1>10, <1>14, Graph
  <2>2. Known'
    BY <1>1, <1>8, <1>9, <1>14, <2>1, SameGraph DEF Known
  <2>3. \A m \in named : ~type_info'[m].param /\ ~type_info'[m].result /\ ~type_info'[m].handle_with_dtor
    BY <1>8, <2>1 DEF Unused
  <2>4. Flagged("param")' = {} /\ Flagged("result")' = {}
    BY <1>1, <2>3, SameGraph DEF Flagged
  <2>5. Marked("param")' /\ Marked("result")'
    <3>1. roots' = NoRoots /\ work' = <<>>
      BY <1>1, <1>2
    <3> QED BY <2>4, <3>1, NothingMarked
  <2>6. DtorsFound'
    <3>1. roots'.closed = {}
      BY <1>1, <1>2 DEF NoRoots
    <3> QED BY <1>1, <2>3, <3>1, SameGraph DEF DtorsFound
  <2> QED BY <1>12, <2>2, <2>5, <2>6 DEF IInv
<1> QED BY <1>13, <1>14

\* The calls for a list of types.
LEMMA CallsFacts ==
    ASSUME NEW trefs, trefs \in Seq(TRef), NEW flag \in {"param", "result"}
    PROVE  /\ Calls(trefs, flag) \in Seq(Call)
           /\ \A g : Pending(Calls(trefs, flag), g) = IF g = flag THEN SeqSet(trefs) ELSE {}
<1>1. Len(trefs) \in Nat /\ DOMAIN trefs = 1..Len(trefs) /\ \A i \in DOMAIN trefs : trefs[i] \in TRef
  OBVIOUS
<1>2. PICK c : c = Calls(trefs, flag)
  OBVIOUS
<1>3. DOMAIN c = DOMAIN trefs /\ \A i \in DOMAIN c : c[i] = [tref |-> trefs[i], flag |-> flag]
  BY <1>2 DEF Calls
<1>4. c \in Seq(Call)
  <2>1. \A i \in 1..Len(trefs) : c[i] \in Call
    BY <1>1, <1>3 DEF Call
  <2>2. c \in [1..Len(trefs) -> Call]
    BY <1>1, <1>2, <2>1 DEF Calls
  <2> QED BY <1>1, <2>2, SeqDef
<1>5. ASSUME NEW g PROVE Pending(c, g) = IF g = flag THEN SeqSet(trefs) ELSE {}
  <2>1. \A i \in DOMAIN c : c[i].tref = trefs[i] /\ c[i].flag = flag
    BY <1>3
  <2>2. CASE g = flag
    BY <1>3, <2>1, <2>2 DEF Pending, SeqSet
  <2>3. CASE g # flag
    BY <2>1, <2>3 DEF Pending
  <2> QED BY <2>2, <2>3
<1> QED BY <1>2, <1>4, <1>5

\* What is pending in two lists of calls.
LEMMA PendingConcat ==
    ASSUME NEW a, NEW b, a \in Seq(Call), b \in Seq(Call)
    PROVE  /\ a \o b \in Seq(Call)
           /\ \A g : Pending(a \o b, g) = Pending(a, g) \cup Pending(b, g)
<1>1. PICK c : c = a \o b
  OBVIOUS
<1>2. /\ c \in Seq(Call) /\ Len(c) = Len(a) + Len(b) /\ Len(a) \in Nat /\ Len(b) \in Nat
      /\ DOMAIN c = 1..Len(c) /\ DOMAIN a = 1..Len(a) /\ DOMAIN b = 1..Len(b)
      /\ \A i \in DOMAIN c : c[i] = IF i <= Len(a) THEN a[i] ELSE b[i - Len(a)]
  BY <1>1
<1>3. ASSUME NEW g, NEW i \in DOMAIN c, c[i].flag = g
      PROVE  c[i].tref \in Pending(a, g) \cup Pending(b, g)
  <2>1. CASE i <= Len(a)
    BY <1>2, <1>3, <2>1 DEF Pending
  <2>2. CASE ~(i <= Len(a))
    <3>1. i - Len(a) \in DOMAIN b /\ c[i] = b[i - Len(a)]
      BY <1>2, <2>2
    <3> QED BY <1>3, <3>1 DEF Pending
  <2> QED BY <2>1, <2>2
<1>4. ASSUME NEW g, NEW i \in DOMAIN a, a[i].flag = g PROVE a[i].tref \in Pending(c, g)
  <2>1. i \in DOMAIN c /\ c[i] = a[i]
    BY <1>2
  <2> QED BY <1>4, <2>1 DEF Pending
<1>5. ASSUME NEW g, NEW i \in DOMAIN b, b[i].flag = g PROVE b[i].tref \in Pending(c, g)
  <2>1. i + Len(a) \in DOMAIN c /\ c[i + Len(a)] = b[i]
    BY <1>2
  <2> QED BY <1>5, <2>1 DEF Pending
<1>6. ASSUME NEW g PROVE Pending(c, g) = Pending(a, g) \cup Pending(b, g)
  BY <1>3, <1>4, <1>5 DEF Pending
<1> QED BY <1>1, <1>2, <1>6

\* What is pending is the first call and the ones after it.
LEMMA PendingHead ==
    ASSUME NEW w, w \in Seq(Call), w # <<>>
    PROVE  /\ Head(w) \in Call /\ Tail(w) \in Seq(Call)
           /\ \A g : Pending(w, g) = (IF Head(w).flag = g THEN {Head(w).tref} ELSE {})
                                      \cup Pending(Tail(w), g)
<1>1. PICK t : t = Tail(w)
  OBVIOUS
<1>2. /\ t \in Seq(Call) /\ Len(t) = Len(w) - 1 /\ Len(w) \in Nat \ {0}
      /\ DOMAIN t = 1..Len(t) /\ DOMAIN w = 1..Len(w)
      /\ \A i \in DOMAIN t : t[i] = w[i + 1]
  BY <1>1
<1>3. Head(w) = w[1] /\ Head(w) \in Call
  OBVIOUS
<1>4. ASSUME NEW g, NEW i \in DOMAIN w, w[i].flag = g
      PROVE  i = 1 \/ w[i].tref \in Pending(t, g)
  <2>1. CASE i # 1
    <3>1. i - 1 \in DOMAIN t /\ t[i - 1] = w[i]
      BY <1>2, <2>1
    <3> QED BY <1>4, <3>1 DEF Pending
  <2> QED BY <2>1
<1>5. ASSUME NEW g, NEW i \in DOMAIN t, t[i].flag = g PROVE t[i].tref \in Pending(w, g)
  <2>1. i + 1 \in DOMAIN w /\ t[i] = w[i + 1]
    BY <1>2
  <2> QED BY <1>5, <2>1 DEF Pending
<1>6. ASSUME NEW g
      PROVE  Pending(w, g) = (IF Head(w).flag = g THEN {Head(w).tref} ELSE {}) \cup Pending(t, g)
  <2>1. 1 \in DOMAIN w
    BY <1>2
  <2>2. Pending(t, g) \subseteq Pending(w, g)
    BY <1>5 DEF Pending
  <2>3. w[1].flag = g => w[1].tref \in Pending(w, g)
    BY <2>1 DEF Pending
  <2>4. \A x \in Pending(w, g) : (w[1].flag = g /\ x = w[1].tref) \/ x \in Pending(t, g)
    BY <1>4 DEF Pending
  <2> QED BY <1>3, <2>2, <2>3, <2>4
<1> QED BY <1>1, <1>2, <1>3, <1>6

\* Marking enters a type: what it refers to is pending instead.
LEMMA MarkedOn ==
    ASSUME module \in Module, module' = module, NEW flag, Marked(flag), roots'[flag] = roots[flag],
           NEW n \in Node, NEW rest, Pending(work, flag) = {n} \cup rest,
           Pending(work', flag) = Children(n) \cup rest,
           Flagged(flag)' = Flagged(flag) \cup ({n} \cap named)
    PROVE  Marked(flag)'
<1> DEFINE R == Reachable(roots[flag])
           P == Pending(work, flag)
           Q == Pending(work', flag)
<1>1. n \in R
  BY Graph DEF Marked
<1>2. Q \subseteq Builtin \cup R
  <2>1. Children(n) \subseteq Builtin \cup R
    BY <1>1, ReachableClosed, ChildrenAreTRefs DEF Closed, TRef
  <2> QED BY <2>1 DEF Marked
<1>3. Flagged(flag)' \subseteq R
  BY <1>1 DEF Marked
<1>4. PICK E \in SUBSET Node :
          /\ E \cap named = Flagged(flag)
          /\ roots[flag] \subseteq E \cup P
          /\ \A m \in E : Children(m) \cap Node \subseteq E \cup P
  BY DEF Marked
<1> DEFINE G == E \cup {n}
<1>5. /\ G \in SUBSET Node /\ G \cap named = Flagged(flag)'
      /\ roots[flag] \subseteq G \cup Q
      /\ \A m \in G : Children(m) \cap Node \subseteq G \cup Q
  BY <1>4
<1> HIDE DEF G
<1>6. Reachable(roots[flag])' = R /\ named' = named /\ Node' = Node /\ \A m : Children(m)' = Children(m)
  BY SameGraph
<1>7. Pending(work, flag)' = Q
  BY DEF Pending
<1> HIDE DEF Q, R
<1> QED BY <1>2, <1>3, <1>5, <1>6, <1>7 DEF Marked

\* Marking passes by a builtin type or one that is marked.
LEMMA MarkedPast ==
    ASSUME module \in Module, module' = module, NEW flag, Marked(flag), roots'[flag] = roots[flag],
           roots[flag] \subseteq Node,
           NEW t, t \in Builtin \cup Flagged(flag), NEW rest, Pending(work, flag) = {t} \cup rest,
           Pending(work', flag) = rest, Flagged(flag)' = Flagged(flag)
    PROVE  Marked(flag)'
<1> DEFINE R == Reachable(roots[flag])
           P == Pending(work, flag)
           Q == Pending(work', flag)
<1>1. Q \subseteq Builtin \cup R /\ Flagged(flag)' \subseteq R
  BY DEF Marked
<1>2. PICK E \in SUBSET Node :
          /\ E \cap named = Flagged(flag)
          /\ roots[flag] \subseteq E \cup P
          /\ \A m \in E : Children(m) \cap Node \subseteq E \cup P
  BY DEF Marked
<1>3. t \in E \/ t \notin Node
  BY <1>2, Graph
<1>4. /\ E \cap named = Flagged(flag)'
      /\ roots[flag] \subseteq E \cup Q
      /\ \A m \in E : Children(m) \cap Node \subseteq E \cup Q
  BY <1>2, <1>3
<1>5. Reachable(roots[flag])' = R /\ named' = named /\ Node' = Node /\ \A m : Children(m)' = Children(m)
  BY SameGraph
<1>6. Pending(work, flag)' = Q
  BY DEF Pending
<1> HIDE DEF Q, R
<1> QED BY <1>1, <1>2, <1>4, <1>5, <1>6 DEF Marked

\* The marks stay right if nothing changes for them but more roots, which are
\* then pending.
LEMMA MarkedSame ==
    ASSUME module \in Module, module' = module, NEW flag, Marked(flag), NEW new,
           new \subseteq Node, roots'[flag] = roots[flag] \cup new, roots[flag] \subseteq Node,
           Pending(work', flag) = Pending(work, flag) \cup new, Flagged(flag)' = Flagged(flag)
    PROVE  Marked(flag)'
<1> DEFINE R == Reachable(roots'[flag])
           P == Pending(work, flag)
           Q == Pending(work', flag)
<1>1. Reachable(roots[flag]) \subseteq R /\ new \subseteq R
  <2>1. PICK r, s : r = roots[flag] /\ s = roots'[flag]
    OBVIOUS
  <2>2. Reachable(r) \subseteq Reachable(s)
    BY <2>1, ReachableMonotone
  <2>3. new \subseteq Reachable(s)
    BY <2>1, ReachableClosed
  <2> QED BY <2>1, <2>2, <2>3
<1>2. Q \subseteq Builtin \cup R /\ Flagged(flag)' \subseteq R
  BY <1>1 DEF Marked
<1>3. PICK E \in SUBSET Node :
          /\ E \cap named = Flagged(flag)
          /\ roots[flag] \subseteq E \cup P
          /\ \A m \in E : Children(m) \cap Node \subseteq E \cup P
  BY DEF Marked
<1>4. /\ E \cap named = Flagged(flag)'
      /\ roots'[flag] \subseteq E \cup Q
      /\ \A m \in E : Children(m) \cap Node \subseteq E \cup Q
  BY <1>3
<1>5. Reachable(roots[flag])' = R /\ named' = named /\ Node' = Node /\ \A m : Children(m)' = Children(m)
  BY SameGraph
<1>6. Pending(work, flag)' = Q
  BY DEF Pending
<1> HIDE DEF Q, R
<1> QED BY <1>2, <1>3, <1>4, <1>5, <1>6 DEF Marked

\* The marks stay right if nothing changes for them.
LEMMA MarkedOther ==
    ASSUME module \in Module, module' = module, NEW flag, Marked(flag), roots'[flag] = roots[flag],
           roots[flag] \subseteq Node, Pending(work', flag) = Pending(work, flag),
           Flagged(flag)' = Flagged(flag)
    PROVE  Marked(flag)'
<1>1. PICK new : new = {}
  OBVIOUS
<1>2. /\ new \subseteq Node /\ roots'[flag] = roots[flag] \cup new
      /\ Pending(work', flag) = Pending(work, flag) \cup new
  BY <1>1
<1> QED BY <1>2, MarkedSame

\* After the first loop every name is known.
LEMMA AllKnown ==
    ASSUME IInv, phase # "typenames", NEW n \in named
    PROVE  n \in DOMAIN type_info /\ type_info[n] \in TypeInfo /\ Exact(n, type_info[n])
BY DEF IInv, Known, Exact

\* What is known once a name has one more flag.
SetFlag(n, flag) == [type_info EXCEPT ![n][flag] = TRUE]

\* A mark changes one flag of one name.
LEMMA MarkName ==
    ASSUME IInv, phase # "typenames", module' = module, NEW n \in named,
           NEW flag \in {"param", "result", "handle_with_dtor"},
           type_info' = SetFlag(n, flag)
    PROVE  /\ Typed' /\ \A m \in named : m \in DOMAIN type_info' /\ Exact(m, type_info'[m])
           /\ \A m \in named, f \in Flags \cup {"handle_with_dtor"} :
                 type_info'[m][f] <=> type_info[m][f] \/ (m = n /\ f = flag)
<1>1. \A m \in named : m \in DOMAIN type_info /\ type_info[m] \in TypeInfo /\ Exact(m, type_info[m])
  BY AllKnown
<1>2. DOMAIN type_info = named
  BY <1>1 DEF IInv, TypesOK, Typed
<1>3. flag \in Flags \cup {"handle_with_dtor"}
  BY DEF Flags
<1>4. type_info' = [m \in named |-> IF m = n THEN [type_info[n] EXCEPT ![flag] = TRUE] ELSE type_info[m]]
  BY <1>2 DEF SetFlag
<1>5. \A m \in named : type_info'[m] \in TypeInfo
  <2>1. [type_info[n] EXCEPT ![flag] = TRUE] \in TypeInfo
    BY <1>1, <1>3 DEF TypeInfo
  <2> QED BY <1>1, <1>4, <2>1
<1>6. Typed'
  <2>1. named' = named
    BY SameGraph
  <2> QED BY <1>4, <1>5, <2>1 DEF Typed
<1>7. ASSUME NEW m \in named, NEW f \in Flags \cup {"handle_with_dtor"}
      PROVE  type_info'[m][f] <=> type_info[m][f] \/ (m = n /\ f = flag)
  BY <1>1, <1>3, <1>4 DEF TypeInfo
<1>8. ASSUME NEW m \in named PROVE Exact(m, type_info'[m])
  <2>1. \A f \in {"has_list", "has_handle", "has_in_buffer", "has_out_buffer"} :
           type_info'[m][f] <=> type_info[m][f]
    BY <1>7 DEF Flags
  <2> QED BY <1>1, <1>5, <2>1 DEF Exact
<1> QED BY <1>4, <1>6, <1>7, <1>8

\* set_param_result_tref of a name.
LEMMA SetParamResultTrefInv ==
    ASSUME IInv, SetParamResultTref
    PROVE  IInv'
<1> DEFINE n == Head(work).tref
           flag == Head(work).flag
<1>1. /\ module' = module /\ roots' = roots /\ phase' = phase /\ phase = "marking" /\ work # <<>>
      /\ func' = func /\ cursor' = cursor /\ handle_dtors' = handle_dtors /\ n \in named
  BY DEF SetParamResultTref
<1>2. /\ module \in Module /\ work \in Seq(Call) /\ Marked("param") /\ Marked("result")
      /\ DtorsFound /\ FuncTyped /\ cursor \in Nat
      /\ roots \in [param : SUBSET Node, result : SUBSET BufferFree, closed : SUBSET named]
  BY <1>1 DEF IInv, TypesOK
<1>3. /\ Head(work) \in Call /\ Tail(work) \in Seq(Call)
      /\ \A g : Pending(work, g) = (IF flag = g THEN {n} ELSE {}) \cup Pending(Tail(work), g)
  <2>1. PICK w : w = work
    OBVIOUS
  <2> QED BY <1>1, <1>2, <2>1, PendingHead
<1>4. flag \in {"param", "result"} /\ n \in Node
  BY <1>1, <1>2, <1>3, Graph DEF Call
<1>5. def[n].of \in Seq(TRef) /\ SeqSet(def[n].of) = Children(n)
  BY <1>2, <1>4, Graph DEF Children
<1>6. IF type_info[n][flag] THEN type_info' = type_info /\ work' = Tail(work)
      ELSE /\ type_info' = [type_info EXCEPT ![n][flag] = TRUE]
           /\ work' = Calls(def[n].of, flag) \o Tail(work)
  BY DEF SetParamResultTref
<1>7. \A g \in {"param", "result"} : roots[g] \subseteq Node /\ roots'[g] = roots[g] /\ Marked(g)
  BY <1>1, <1>2 DEF BufferFree
<1>8. /\ (work \in Seq(Call))' /\ Typed'
      /\ \A m \in named : m \in DOMAIN type_info' /\ Exact(m, type_info'[m])
      /\ \A m \in named : type_info'[m].handle_with_dtor <=> type_info[m].handle_with_dtor
      /\ Marked("param")' /\ Marked("result")'
  <2>1. CASE type_info[n][flag]
    <3>1. work' = Tail(work) /\ type_info' = type_info
      BY <1>6, <2>1
    <3>2. Typed'
      BY <1>1, <3>1, SameGraph DEF IInv, TypesOK, Typed
    <3>3. n \in DOMAIN type_info
      BY <1>1, AllKnown
    <3>4. \A g : Flagged(g)' = Flagged(g)
      BY <1>1, <3>1, SameGraph DEF Flagged
    <3>5. n \in Flagged(flag)
      BY <1>1, <2>1, <3>3 DEF Flagged
    <3>6. ASSUME NEW g \in {"param", "result"} PROVE Marked(g)'
      <4>1. CASE g = flag
        <5>1. Pending(work, g) = {n} \cup Pending(work', g)
          BY <1>3, <3>1, <4>1
        <5> QED BY <1>1, <1>2, <1>7, <3>4, <3>5, <4>1, <5>1, MarkedPast
      <4>2. CASE g # flag
        <5>1. Pending(work', g) = Pending(work, g)
          BY <1>3, <3>1, <4>2
        <5> QED BY <1>1, <1>2, <1>7, <3>4, <5>1, MarkedOther
      <4> QED BY <4>1, <4>2
    <3>7. (work \in Seq(Call))'
      BY <1>1, <1>3, <3>1, SameGraph
    <3> QED BY <1>1, <3>1, <3>2, <3>6, <3>7, AllKnown
  <2>2. CASE ~type_info[n][flag]
    <3> DEFINE calls == Calls(def[n].of, flag)
    <3>1. work' = calls \o Tail(work) /\ type_info' = [type_info EXCEPT ![n][flag] = TRUE]
      BY <1>6, <2>2
    <3>2. PICK x, fl, o, b : x = n /\ fl = flag /\ o = def[n].of /\ b = Tail(work)
      OBVIOUS
    <3>3. /\ Typed' /\ \A m \in named : m \in DOMAIN type_info' /\ Exact(m, type_info'[m])
          /\ \A m \in named, f \in Flags \cup {"handle_with_dtor"} :
                type_info'[m][f] <=> type_info[m][f] \/ (m = n /\ f = flag)
      <4>1. fl \in {"param", "result", "handle_with_dtor"} /\ x \in named
            /\ type_info' = SetFlag(x, fl)
        BY <1>1, <1>4, <3>1, <3>2 DEF SetFlag
      <4>2. phase # "typenames"
        BY <1>1
      <4>3. /\ Typed' /\ \A m \in named : m \in DOMAIN type_info' /\ Exact(m, type_info'[m])
            /\ \A m \in named, f \in Flags \cup {"handle_with_dtor"} :
                  type_info'[m][f] <=> type_info[m][f] \/ (m = x /\ f = fl)
        BY <1>1, <4>1, <4>2, MarkName
      <4> QED BY <3>2, <4>3
    <3>4. Calls(o, fl) \in Seq(Call) /\ \A g : Pending(Calls(o, fl), g) = IF g = fl THEN SeqSet(o) ELSE {}
      BY <1>4, <1>5, <3>2, CallsFacts
    <3>5. PICK a : a = Calls(o, fl)
      OBVIOUS
    <3>6. a \o b \in Seq(Call) /\ \A g : Pending(a \o b, g) = Pending(a, g) \cup Pending(b, g)
      <4>1. a \in Seq(Call) /\ b \in Seq(Call)
        BY <1>3, <3>2, <3>4, <3>5
      <4> QED BY ONLY <4>1, PendingConcat
    <3>7. work' = a \o b
      BY <3>1, <3>2, <3>5
    <3>8. \A g : Pending(work', g) = (IF g = flag THEN Children(n) ELSE {}) \cup Pending(Tail(work), g)
      BY <1>5, <3>2, <3>4, <3>5, <3>6, <3>7
    <3>9. ASSUME NEW g \in {"param", "result"}
          PROVE  Flagged(g)' = Flagged(g) \cup (IF g = flag THEN {n} ELSE {})
      <4>1. g \in Flags \cup {"handle_with_dtor"}
        BY DEF Flags
      <4>2. \A m \in named : m \in DOMAIN type_info /\ m \in DOMAIN type_info'
        BY <1>1, <3>3, AllKnown
      <4>3. \A m \in named : type_info'[m][g] <=> type_info[m][g] \/ (m = n /\ g = flag)
        BY <3>3, <4>1
      <4>4. named' = named
        BY <1>1, SameGraph
      <4> QED BY <1>1, <4>2, <4>3, <4>4 DEF Flagged
    <3>10. ASSUME NEW g \in {"param", "result"} PROVE Marked(g)'
      <4>1. CASE g = flag
        <5>1. /\ Pending(work, g) = {n} \cup Pending(Tail(work), g)
              /\ Pending(work', g) = Children(n) \cup Pending(Tail(work), g)
          BY <1>3, <3>8, <4>1
        <5>2. Flagged(g)' = Flagged(g) \cup ({n} \cap named)
          BY <1>1, <3>9, <4>1
        <5>3. PICK rest : rest = Pending(Tail(work), g)
          OBVIOUS
        <5> HIDE DEF n, flag
        <5> QED BY <1>1, <1>2, <1>4, <1>7, <5>1, <5>2, <5>3, MarkedOn
      <4>2. CASE g # flag
        <5>1. Pending(work', g) = Pending(work, g)
          BY <1>3, <3>8, <4>2
        <5>2. Flagged(g)' = Flagged(g)
          BY <3>9, <4>2
        <5> QED BY <1>1, <1>2, <1>7, <5>1, <5>2, MarkedOther
      <4> QED BY <4>1, <4>2
    <3>11. (work \in Seq(Call))'
      BY <1>1, <3>6, <3>7, SameGraph
    <3>12. \A m \in named : type_info'[m].handle_with_dtor <=> type_info[m].handle_with_dtor
      BY <1>4, <3>3
    <3> QED BY <3>3, <3>10, <3>11, <3>12
  <2> QED BY <2>1, <2>2
<1>9. TypesOK'
  <2>1. (roots \in [param : SUBSET Node, result : SUBSET BufferFree, closed : SUBSET named])'
    BY <1>1, <1>2, SameGraph
  <2>2. FuncTyped'
    BY <1>1, <1>2, SameGraph DEF FuncTyped, AtMostOne
  <2> QED BY <1>1, <1>2, <1>8, <2>1, <2>2 DEF TypesOK
<1>10. Known'
  BY <1>1, <1>8, SameGraph DEF Known, Exact
<1>11. DtorsFound'
  BY <1>1, <1>2, <1>8, SameGraph DEF DtorsFound
<1> QED BY <1>8, <1>9, <1>10, <1>11 DEF IInv

\* set_param_result_ty of a type without a name.
LEMMA SetParamResultTyInv ==
    ASSUME IInv, SetParamResultTy
    PROVE  IInv'
<1> DEFINE t == Head(work).tref
           flag == Head(work).flag
<1>1. /\ module' = module /\ roots' = roots /\ phase' = phase /\ phase = "marking" /\ work # <<>>
      /\ func' = func /\ cursor' = cursor /\ handle_dtors' = handle_dtors /\ t \notin named
      /\ type_info' = type_info
      /\ work' = IF t \in Builtin THEN Tail(work) ELSE Calls(def[t].of, flag) \o Tail(work)
  BY DEF SetParamResultTy
<1>2. /\ module \in Module /\ work \in Seq(Call) /\ Marked("param") /\ Marked("result")
      /\ DtorsFound /\ FuncTyped /\ cursor \in Nat /\ Typed
      /\ roots \in [param : SUBSET Node, result : SUBSET BufferFree, closed : SUBSET named]
  BY <1>1 DEF IInv, TypesOK
<1>3. /\ Head(work) \in Call /\ Tail(work) \in Seq(Call)
      /\ \A g : Pending(work, g) = (IF flag = g THEN {t} ELSE {}) \cup Pending(Tail(work), g)
  <2>1. PICK w : w = work
    OBVIOUS
  <2> QED BY <1>1, <1>2, <2>1, PendingHead
<1>4. flag \in {"param", "result"} /\ t \in TRef
  BY <1>1, <1>2, <1>3 DEF Call
<1>5. \A g \in {"param", "result"} : roots[g] \subseteq Node /\ roots'[g] = roots[g] /\ Marked(g)
  BY <1>1, <1>2 DEF BufferFree
<1>6. \A g : Flagged(g)' = Flagged(g)
  BY <1>1, SameGraph DEF Flagged
<1>7. (work \in Seq(Call))' /\ Marked("param")' /\ Marked("result")'
  <2>1. CASE t \in Builtin
    <3>1. work' = Tail(work)
      BY <1>1, <2>1
    <3>2. ASSUME NEW g \in {"param", "result"} PROVE Marked(g)'
      <4>1. CASE g = flag
        <5>1. Pending(work, g) = {t} \cup Pending(work', g)
          BY <1>3, <3>1, <4>1
        <5> QED BY <1>1, <1>2, <1>5, <1>6, <2>1, <5>1, MarkedPast
      <4>2. CASE g # flag
        <5>1. Pending(work', g) = Pending(work, g)
          BY <1>3, <3>1, <4>2
        <5> QED BY <1>1, <1>2, <1>5, <1>6, <5>1, MarkedOther
      <4> QED BY <4>1, <4>2
    <3> QED BY <1>1, <1>3, <3>1, <3>2, SameGraph
  <2>2. CASE t \notin Builtin
    <3>1. t \in Node /\ work' = Calls(def[t].of, flag) \o Tail(work)
      BY <1>1, <1>4, <2>2 DEF TRef
    <3>2. def[t].of \in Seq(TRef) /\ SeqSet(def[t].of) = Children(t)
      BY <1>2, <3>1, Graph DEF Children
    <3>3. PICK fl, o, b : fl = flag /\ o = def[t].of /\ b = Tail(work)
      OBVIOUS
    <3>4. Calls(o, fl) \in Seq(Call) /\ \A g : Pending(Calls(o, fl), g) = IF g = fl THEN SeqSet(o) ELSE {}
      BY <1>4, <3>2, <3>3, CallsFacts
    <3>5. PICK a : a = Calls(o, fl)
      OBVIOUS
    <3>6. a \o b \in Seq(Call) /\ \A g : Pending(a \o b, g) = Pending(a, g) \cup Pending(b, g)
      <4>1. a \in Seq(Call) /\ b \in Seq(Call)
        BY <1>3, <3>3, <3>4, <3>5
      <4> QED BY ONLY <4>1, PendingConcat
    <3>7. work' = a \o b
      BY <3>1, <3>3, <3>5
    <3>8. \A g : Pending(work', g) = (IF g = flag THEN Children(t) ELSE {}) \cup Pending(Tail(work), g)
      BY <3>2, <3>3, <3>4, <3>5, <3>6, <3>7
    <3>9. ASSUME NEW g \in {"param", "result"} PROVE Marked(g)'
      <4>1. CASE g = flag
        <5>1. /\ Pending(work, g) = {t} \cup Pending(Tail(work), g)
              /\ Pending(work', g) = Children(t) \cup Pending(Tail(work), g)
          BY <1>3, <3>8, <4>1
        <5>2. Flagged(g)' = Flagged(g) \cup ({t} \cap named)
          BY <1>1, <1>6
        <5>3. PICK rest : rest = Pending(Tail(work), g)
          OBVIOUS
        <5> HIDE DEF t, flag
        <5> QED BY <1>1, <1>2, <1>5, <3>1, <5>1, <5>2, <5>3, MarkedOn
      <4>2. CASE g # flag
        <5>1. Pending(work', g) = Pending(work, g)
          BY <1>3, <3>8, <4>2
        <5> QED BY <1>1, <1>2, <1>5, <1>6, <5>1, MarkedOther
      <4> QED BY <4>1, <4>2
    <3> QED BY <1>1, <3>6, <3>7, <3>9, SameGraph
  <2> QED BY <2>1, <2>2
<1>8. TypesOK'
  <2>1. (roots \in [param : SUBSET Node, result : SUBSET BufferFree, closed : SUBSET named])'
    BY <1>1, <1>2, SameGraph
  <2>2. FuncTyped'
    BY <1>1, <1>2, SameGraph DEF FuncTyped, AtMostOne
  <2>3. Typed'
    BY <1>1, <1>2, SameGraph DEF Typed
  <2> QED BY <1>1, <1>2, <1>7, <2>1, <2>2, <2>3 DEF TypesOK
<1>9. Known'
  <2>1. \A n \in named : n \in DOMAIN type_info /\ Exact(n, type_info[n])
    BY <1>1, AllKnown
  <2> QED BY <1>1, <2>1, SameGraph DEF Known, Exact
<1>10. DtorsFound'
  BY <1>1, <1>2, SameGraph DEF DtorsFound
<1> QED BY <1>7, <1>8, <1>9, <1>10 DEF IInv

\* analyze, the second loop: the roots of a function are to be marked.
LEMMA AnalyzeFuncInv ==
    ASSUME IInv, NEW f \in Func, AnalyzeFunc(f)
    PROVE  IInv'
<1>1. /\ module' = module /\ phase = "funcs" /\ phase' = "marking" /\ func' = f
      /\ cursor' = cursor /\ handle_dtors' = handle_dtors /\ type_info' = type_info
      /\ work' = Calls(f.params, "param") \o Calls(f.results, "result")
      /\ roots' = [roots EXCEPT !.param = @ \cup SeqSet(f.params), !.result = @ \cup SeqSet(f.results)]
  BY DEF AnalyzeFunc
<1>2. /\ module \in Module /\ work = <<>> /\ Marked("param") /\ Marked("result")
      /\ DtorsFound /\ cursor \in Nat /\ Typed
      /\ roots \in [param : SUBSET Node, result : SUBSET BufferFree, closed : SUBSET named]
  BY <1>1 DEF IInv, TypesOK
<1>3. PICK ps, rs : ps = f.params /\ rs = f.results
  OBVIOUS
<1>4. ps \in AtMostOne(Node) /\ rs \in AtMostOne(BufferFree) /\ f.closes \in {0} \cup named
  BY <1>3 DEF Func, AtMostOne
<1>5. /\ ps \in Seq(TRef) /\ SeqSet(ps) \subseteq Node
      /\ rs \in Seq(TRef) /\ SeqSet(rs) \subseteq BufferFree /\ BufferFree \subseteq Node
  <2>1. ASSUME NEW S \in SUBSET Node, NEW s \in AtMostOne(S)
        PROVE  s \in Seq(TRef) /\ SeqSet(s) \subseteq S
    <3>1. CASE s = <<>>
      BY <3>1 DEF SeqSet
    <3>2. CASE s # <<>>
      <4>1. PICK n \in S : s = <<n>>
        BY <3>2 DEF AtMostOne
      <4>2. n \in TRef
        BY DEF TRef
      <4> QED BY <4>1, <4>2 DEF SeqSet
    <3> QED BY <3>1, <3>2
  <2>2. BufferFree \subseteq Node
    BY DEF BufferFree
  <2> QED BY <1>4, <2>1, <2>2
<1>6. PICK a, b : a = Calls(ps, "param") /\ b = Calls(rs, "result")
  OBVIOUS
<1>7. /\ a \in Seq(Call) /\ \A g : Pending(a, g) = IF g = "param" THEN SeqSet(ps) ELSE {}
      /\ b \in Seq(Call) /\ \A g : Pending(b, g) = IF g = "result" THEN SeqSet(rs) ELSE {}
  BY <1>5, <1>6, CallsFacts
<1>8. a \o b \in Seq(Call) /\ \A g : Pending(a \o b, g) = Pending(a, g) \cup Pending(b, g)
  BY ONLY <1>7, PendingConcat
<1>9. work' = a \o b
  BY <1>1, <1>3, <1>6
<1>10. \A g : Pending(work, g) = {}
  BY <1>2 DEF Pending
<1>11. \A g : Flagged(g)' = Flagged(g)
  BY <1>1, SameGraph DEF Flagged
<1>12. Marked("param")'
  <2>1. Pending(work', "param") = Pending(work, "param") \cup SeqSet(ps)
    BY <1>7, <1>8, <1>9, <1>10
  <2>2. roots'["param"] = roots["param"] \cup SeqSet(ps) /\ roots["param"] \subseteq Node
    BY <1>1, <1>2, <1>3
  <2>3. PICK new : new = SeqSet(ps)
    OBVIOUS
  <2> QED BY <1>1, <1>2, <1>5, <1>11, <2>1, <2>2, <2>3, MarkedSame
<1>13. Marked("result")'
  <2>1. Pending(work', "result") = Pending(work, "result") \cup SeqSet(rs)
    BY <1>7, <1>8, <1>9, <1>10
  <2>2. roots'["result"] = roots["result"] \cup SeqSet(rs) /\ roots["result"] \subseteq Node
    BY <1>1, <1>2, <1>3, <1>5
  <2>3. PICK new : new = SeqSet(rs)
    OBVIOUS
  <2> QED BY <1>1, <1>2, <1>5, <1>11, <2>1, <2>2, <2>3, MarkedSame
<1>14. TypesOK'
  <2>1. (roots \in [param : SUBSET Node, result : SUBSET BufferFree, closed : SUBSET named])'
    BY <1>1, <1>2, <1>3, <1>5, SameGraph
  <2>2. FuncTyped'
    BY <1>1, <1>3, <1>4, SameGraph DEF FuncTyped, AtMostOne
  <2>3. Typed'
    BY <1>1, <1>2, SameGraph DEF Typed
  <2>4. (work \in Seq(Call))'
    BY <1>1, <1>8, <1>9, SameGraph
  <2> QED BY <1>1, <1>2, <2>1, <2>2, <2>3, <2>4 DEF TypesOK
<1>15. Known'
  <2>1. \A n \in named : n \in DOMAIN type_info /\ Exact(n, type_info[n])
    BY <1>1, AllKnown
  <2> QED BY <1>1, <2>1, SameGraph DEF Known, Exact
<1>16. DtorsFound'
  <2>1. roots'.closed = roots.closed
    BY <1>1, <1>2
  <2> QED BY <1>1, <1>2, <2>1, SameGraph DEF DtorsFound
<1> QED BY <1>12, <1>13, <1>14, <1>15, <1>16 DEF IInv

\* maybe_set_dtor: a function that closes a handle gives it a destructor.
LEMMA MaybeSetDtorInv ==
    ASSUME IInv, MaybeSetDtor
    PROVE  IInv'
<1>1. /\ module' = module /\ phase = "marking" /\ work = <<>> /\ phase' = "funcs" /\ func' = NoFunc
      /\ cursor' = cursor /\ work' = work
      /\ IF IsDtor(func)
           THEN type_info' = [type_info EXCEPT ![func.closes]["handle_with_dtor"] = TRUE]
                /\ handle_dtors' = handle_dtors \cup {func.closes}
           ELSE type_info' = type_info /\ handle_dtors' = handle_dtors
      /\ roots' = IF func.closes \in SeqSet(func.params)
                    THEN [roots EXCEPT !.closed = @ \cup {func.closes}] ELSE roots
  BY DEF MaybeSetDtor
<1>2. /\ module \in Module /\ Marked("param") /\ Marked("result")
      /\ DtorsFound /\ FuncTyped /\ cursor \in Nat /\ Typed /\ work \in Seq(Call)
      /\ roots \in [param : SUBSET Node, result : SUBSET BufferFree, closed : SUBSET named]
  BY <1>1 DEF IInv, TypesOK
<1>3. PICK c, ps : c = func.closes /\ ps = func.params
  OBVIOUS
<1>4. ps = <<>> \/ \E n \in Node : ps = <<n>>
  BY <1>2, <1>3 DEF FuncTyped, AtMostOne
<1>5. c \in SeqSet(ps) => c \in named /\ ps = <<c>>
  <2> SUFFICES ASSUME c \in SeqSet(ps) PROVE c \in named /\ ps = <<c>>
    OBVIOUS
  <2>1. PICK n \in Node : ps = <<n>>
    BY <1>4 DEF SeqSet
  <2>2. c = n
    BY <2>1 DEF SeqSet
  <2>3. c # 0
    BY <1>2, <2>2, Graph
  <2> QED BY <1>2, <1>3, <2>1, <2>2, <2>3 DEF FuncTyped
<1>6. IsDtor(func) <=> c \in SeqSet(ps) /\ def[type_[c]].kind = "handle"
  <2>1. CASE c \in SeqSet(ps)
    <3>1. Len(ps) = 1 /\ ps[1] = c /\ c \in named
      BY <1>5, <2>1
    <3> QED BY <1>3, <2>1, <3>1 DEF IsDtor
  <2>2. CASE c \notin SeqSet(ps)
    <3>1. IsDtor(func) => c \in SeqSet(ps)
      BY <1>3, <1>4 DEF IsDtor, SeqSet
    <3> QED BY <2>2, <3>1
  <2> QED BY <2>1, <2>2
<1>7. \A n \in named : n \in DOMAIN type_info /\ Exact(n, type_info[n])
  BY <1>1, AllKnown
<1>8. /\ roots'.param = roots.param /\ roots'.result = roots.result
      /\ roots'.closed = roots.closed \cup (IF c \in SeqSet(ps) THEN {c} ELSE {})
      /\ roots' \in [param : SUBSET Node, result : SUBSET BufferFree, closed : SUBSET named]
  BY <1>1, <1>2, <1>3, <1>5
<1>9. /\ Typed' /\ \A n \in named : n \in DOMAIN type_info' /\ Exact(n, type_info'[n])
      /\ \A n \in named, f \in Flags \cup {"handle_with_dtor"} :
            type_info'[n][f] <=> type_info[n][f] \/ (IsDtor(func) /\ n = c /\ f = "handle_with_dtor")
  <2>1. CASE IsDtor(func)
    <3>1. type_info' = SetFlag(c, "handle_with_dtor") /\ c \in named
      BY <1>1, <1>3, <1>5, <1>6, <2>1 DEF SetFlag
    <3>2. phase # "typenames"
      BY <1>1
    <3>3. /\ Typed' /\ \A n \in named : n \in DOMAIN type_info' /\ Exact(n, type_info'[n])
          /\ \A n \in named, f \in Flags \cup {"handle_with_dtor"} :
                type_info'[n][f] <=> type_info[n][f] \/ (n = c /\ f = "handle_with_dtor")
      BY <1>1, <3>1, <3>2, MarkName
    <3> QED BY <2>1, <3>3
  <2>2. CASE ~IsDtor(func)
    <3>1. type_info' = type_info
      BY <1>1, <2>2
    <3> QED BY <1>1, <1>2, <1>7, <2>2, <3>1, SameGraph DEF Typed
  <2> QED BY <2>1, <2>2
<1>10. ASSUME NEW flag \in {"param", "result"} PROVE Marked(flag)'
  <2>1. flag \in Flags \cup {"handle_with_dtor"} /\ flag # "handle_with_dtor"
    BY DEF Flags
  <2>2. \A n \in named : type_info'[n][flag] <=> type_info[n][flag]
    BY <1>9, <2>1
  <2>3. Flagged(flag)' = Flagged(flag)
    BY <1>1, <1>7, <1>9, <2>2, SameGraph DEF Flagged
  <2>4. Pending(work', flag) = Pending(work, flag)
    BY <1>1
  <2>5. roots'[flag] = roots[flag] /\ roots[flag] \subseteq Node /\ Marked(flag)
    BY <1>2, <1>8 DEF BufferFree
  <2> QED BY <1>1, <1>2, <2>3, <2>4, <2>5, MarkedOther
<1>11. TypesOK'
  <2>1. (roots \in [param : SUBSET Node, result : SUBSET BufferFree, closed : SUBSET named])'
    BY <1>1, <1>8, SameGraph
  <2>2. (work \in Seq(Call))'
    BY <1>1, <1>2, SameGraph
  <2> QED BY <1>1, <1>2, <1>9, <2>1, <2>2 DEF TypesOK
<1>12. Known'
  BY <1>1, <1>9, SameGraph DEF Known, Exact
<1>13. DtorsFound'
  <2> SUFFICES ASSUME NEW n \in named
               PROVE  LET closed == n \in roots'.closed /\ def[type_[n]].kind = "handle"
                      IN  (type_info'[n].handle_with_dtor <=> closed) /\ (closed => n \in handle_dtors')
    BY <1>1, SameGraph DEF DtorsFound
  <2>1. LET closed == n \in roots.closed /\ def[type_[n]].kind = "handle"
        IN  (type_info[n].handle_with_dtor <=> closed) /\ (closed => n \in handle_dtors)
    BY <1>2 DEF DtorsFound
  <2>2. type_info'[n].handle_with_dtor <=> type_info[n].handle_with_dtor \/ (IsDtor(func) /\ n = c)
    BY <1>9
  <2>3. n \in roots'.closed <=> n \in roots.closed \/ (c \in SeqSet(ps) /\ n = c)
    BY <1>8
  <2>4. handle_dtors' = handle_dtors \cup (IF IsDtor(func) THEN {c} ELSE {})
    BY <1>1, <1>3
  <2>5. n = c => (IsDtor(func) <=> c \in SeqSet(ps) /\ def[type_[n]].kind = "handle")
    BY <1>6
  <2> QED BY <2>1, <2>2, <2>3, <2>4, <2>5
<1> QED BY <1>10, <1>11, <1>12, <1>13 DEF IInv

\* generate begins the next module.
LEMMA NextModuleInv ==
    ASSUME IInv, NextModule
    PROVE  IInv'
<1>1. /\ module' = module /\ phase = "funcs" /\ phase' = "typenames" /\ cursor' = 1
      /\ roots' = NoRoots /\ type_info' = type_info /\ work' = work
  BY DEF NextModule
<1>2. module \in Module /\ work = <<>> /\ Typed
  BY <1>1 DEF IInv, TypesOK
<1>3. KnownBefore(cursor)'
  <2>1. \A n \in named : ~(n < 1)
    BY <1>2, Graph
  <2> QED BY <1>1, <2>1, SameGraph DEF KnownBefore
<1>4. TypesOK'
  <2>1. (roots \in [param : SUBSET Node, result : SUBSET BufferFree, closed : SUBSET named])'
    BY <1>1 DEF NoRoots
  <2>2. Typed'
    BY <1>1, <1>2, SameGraph DEF Typed
  <2>3. (work \in Seq(Call))'
    BY <1>1, <1>2
  <2> QED BY <1>1, <1>2, <2>1, <2>2, <2>3 DEF TypesOK
<1>5. Known'
  BY <1>1, <1>3 DEF Known, NoRoots
<1> QED BY <1>1, <1>4, <1>5 DEF IInv

\* Every step preserves the invariant.
LEMMA Invariance == Spec => []IInv
<1>1. ASSUME IInv, [Next]_vars PROVE IInv'
  <2>1. CASE AnalyzeType
    BY <1>1, <2>1, AnalyzeTypeInv
  <2>2. ASSUME NEW f \in Func, AnalyzeFunc(f) PROVE IInv'
    BY <1>1, <2>2, AnalyzeFuncInv
  <2>3. CASE SetParamResultTref
    BY <1>1, <2>3, SetParamResultTrefInv
  <2>4. CASE SetParamResultTy
    BY <1>1, <2>4, SetParamResultTyInv
  <2>5. CASE MaybeSetDtor
    BY <1>1, <2>5, MaybeSetDtorInv
  <2>6. CASE NextModule
    BY <1>1, <2>6, NextModuleInv
  <2>7. CASE UNCHANGED vars
    <3>1. /\ module' = module /\ type_info' = type_info /\ handle_dtors' = handle_dtors
          /\ phase' = phase /\ cursor' = cursor /\ func' = func /\ work' = work /\ roots' = roots
      BY <2>7 DEF vars
    <3>2. TypesOK'
      <4>1. TypesOK
        BY <1>1 DEF IInv
      <4> QED BY <3>1, <4>1, SameGraph DEF TypesOK, Typed, FuncTyped, AtMostOne
    <3>3. Known'
      BY <1>1, <3>1, SameGraph DEF IInv, Known, KnownBefore, Exact
    <3>4. \A flag : Flagged(flag)' = Flagged(flag)
      BY <3>1, SameGraph DEF Flagged
    <3>5. phase # "typenames" => Marked("param")' /\ Marked("result")' /\ DtorsFound'
      <4> SUFFICES ASSUME phase # "typenames" PROVE Marked("param")' /\ Marked("result")' /\ DtorsFound'
        OBVIOUS
      <4>1. \A flag \in {"param", "result"} : roots[flag] \subseteq Node /\ Marked(flag)
        BY <1>1 DEF IInv, TypesOK, BufferFree
      <4>2. Marked("param")' /\ Marked("result")'
        BY <1>1, <3>1, <3>4, <4>1, MarkedOther DEF IInv, TypesOK
      <4>3. DtorsFound'
        BY <1>1, <3>1, SameGraph DEF IInv, DtorsFound
      <4> QED BY <4>2, <4>3
    <3> QED BY <3>1, <3>2, <3>3, <3>5 DEF IInv
  <2> QED BY <1>1, <2>1, <2>2, <2>3, <2>4, <2>5, <2>6, <2>7 DEF Next
<1> QED BY <1>1, InitInv, PTL DEF Spec

(***************************************************************************)
(* What analysis finds.                                                    *)
(***************************************************************************)

\* When no call of set_param_result_tref is left, the marks are exact.
LEMMA NothingPending ==
    ASSUME module \in Module, work = <<>>, NEW flag, Marked(flag), roots[flag] \subseteq Node
    PROVE  Flagged(flag) = Reachable(roots[flag]) \cap named
<1>1. Pending(work, flag) = {}
  BY DEF Pending
<1>2. PICK E \in SUBSET Node :
          /\ E \cap named = Flagged(flag) /\ roots[flag] \subseteq E
          /\ \A n \in E : Children(n) \cap Node \subseteq E
  BY <1>1 DEF Marked
<1>3. PICK r : r = roots[flag]
  OBVIOUS
<1>4. Reachable(r) \subseteq E
  <2>1. r \cap Node \subseteq E /\ Closed(E)
    BY <1>2, <1>3 DEF Closed
  <2> QED BY <2>1, ReachableLeast
<1>5. Flagged(flag) \subseteq Reachable(r) /\ Flagged(flag) \subseteq named
  BY <1>3 DEF Marked, Flagged
<1> QED BY <1>2, <1>3, <1>4, <1>5

\* Whatever the functions and the graph of types, exactly the names that a
\* parameter (a result) refers to, at any depth, are marked so.
THEOREM MarksAlwaysExact == Spec => []MarksExact
<1>1. IInv => MarksExact
  <2> SUFFICES ASSUME IInv, phase = "funcs", NEW flag \in {"param", "result"}
               PROVE  Flagged(flag) = Reachable(roots[flag]) \cap named
    BY DEF MarksExact
  <2>1. module \in Module /\ work = <<>> /\ Marked(flag) /\ roots[flag] \subseteq Node
    BY DEF IInv, TypesOK, BufferFree
  <2> QED BY <2>1, NothingPending
<1> QED BY <1>1, Invariance, PTL

\* Whatever the graph and the modules before, the has_ flags say what a type
\* contains, and destructors are those of this module's functions.
THEOREM InfoAlwaysExact == Spec => []InfoExact
<1>1. IInv => InfoExact
  <2> SUFFICES ASSUME IInv, phase = "funcs", NEW n \in named
               PROVE  LET closed == n \in roots.closed /\ def[type_[n]].kind = "handle"
                      IN  /\ \A f \in {"list", "handle", "in_buffer", "out_buffer"} :
                                type_info[n][Own(f)] <=> f \in Kinds(n)
                          /\ type_info[n].handle_with_dtor <=> closed
                          /\ closed => n \in handle_dtors
    BY DEF InfoExact
  <2>1. Exact(n, type_info[n]) /\ DtorsFound
    BY AllKnown DEF IInv
  <2>2. /\ Own("list") = "has_list" /\ Own("handle") = "has_handle"
        /\ Own("in_buffer") = "has_in_buffer" /\ Own("out_buffer") = "has_out_buffer"
    BY DEF Own
  <2>3. \A f \in {"list", "handle", "in_buffer", "out_buffer"} : type_info[n][Own(f)] <=> f \in Kinds(n)
    BY <2>1, <2>2 DEF Exact
  <2> QED BY <2>1, <2>3 DEF DtorsFound
<1> QED BY <1>1, Invariance, PTL

(***************************************************************************)
(* What is printed for a type.                                             *)
(***************************************************************************)

\* Where what is printed for the value of a type comes from: it is a lifetime
\* of the type's own, or printed for a child, in the mode the kind asks for.
LendsItself(t, mode) ==
    \/ def[t].kind \in {"in_buffer", "out_buffer"}
    \/ def[t].kind = "list" /\ mode \in {"AllBorrowed", "LeafBorrowed"}
Passes(t, mode, c, m) ==
    \/ m = mode
    \/ m = "AllBorrowed" /\ mode = "LeafBorrowed" /\ def[t].kind = "list" /\ AllBitsValid[c]
    \/ m = "Owned" /\ def[t].kind = "out_buffer"

\* print_value prints nothing else.
LEMMA ValuePrints ==
    ASSUME module \in Module, NEW t \in Node, NEW mode \in Mode, NEW below, NEW r \in print_value(t, mode, below)
    PROVE  \/ r \in Lifetime /\ LendsItself(t, mode)
           \/ \E c \in Children(t), m \in Mode : r \in below[c][m] /\ Passes(t, mode, c, m)
<1>1. PICK k, a : k = def[t].kind /\ a = def[t].of[1]
  OBVIOUS
<1>2. k \in {"list", "in_buffer", "out_buffer"} => a \in Children(t)
  BY <1>1, Graph
<1>3. "AllBorrowed" \in Mode /\ "Owned" \in Mode
  BY DEF Mode, ParamMode
<1>4. CASE k = "list"
  <2>1. r \in print_list(a, mode, below[a])
    BY <1>1, <1>4 DEF print_value
  <2>2. CASE a = char
    BY <1>1, <1>4, <2>1, <2>2 DEF print_list, LendsItself
  <2>3. CASE a # char /\ (mode = "AllBorrowed" \/ (mode = "LeafBorrowed" /\ AllBitsValid[a]))
    BY <1>1, <1>2, <1>3, <1>4, <2>1, <2>3 DEF print_list, LendsItself, Passes
  <2>4. CASE a # char /\ ~(mode = "AllBorrowed" \/ (mode = "LeafBorrowed" /\ AllBitsValid[a]))
    BY <1>1, <1>2, <1>4, <2>1, <2>4 DEF print_list, Passes
  <2> QED BY <2>2, <2>3, <2>4
<1>5. CASE k = "in_buffer"
  <2>1. r \in print_buffer(a, FALSE, mode, below[a])
    BY <1>1, <1>5 DEF print_value
  <2> QED BY <1>1, <1>2, <1>5, <2>1 DEF print_buffer, LendsItself, Passes
<1>6. CASE k = "out_buffer"
  <2>1. r \in print_buffer(a, TRUE, mode, below[a])
    BY <1>1, <1>6 DEF print_value
  <2> QED BY <1>1, <1>2, <1>3, <1>6, <2>1 DEF print_buffer, LendsItself, Passes
<1>7. CASE k \notin {"list", "in_buffer", "out_buffer"}
  <2>1. r \in UNION {below[c][mode] : c \in Children(t)}
    BY <1>1, <1>7 DEF print_value
  <2> QED BY <2>1 DEF Passes
<1> QED BY <1>4, <1>5, <1>6, <1>7

\* print_tref satisfies its recursive definition.
LEMMA PrintTrefUnfolds ==
    ASSUME module \in Module, NEW default, NEW t \in TRef, NEW mode \in Mode
    PROVE  LET tref == print_tref(default)
           IN  tref[t][mode] = IF t \in Builtin THEN {}
                               ELSE IF t \in named THEN print_name(t, mode, default)
                               ELSE print_value(t, mode, [c \in Children(t) |-> tref[c]])
<1> DEFINE m == Len(def)
           D == Builtin \cup 1..m
           X == Lifetime \cup UNION {print_name(x, k, default) : x \in named, k \in Mode}
           V == [Mode -> SUBSET X]
           F == [D -> V]
           ToPrint(x, k, f) == IF x \in Builtin THEN {}
                               ELSE IF x \in named THEN print_name(x, k, default)
                               ELSE print_value(x, k, [c \in Children(x) |-> f[c]])
           step == [p \in D \X F |-> [k \in Mode |-> ToPrint(p[1], k, p[2])]]
           Body(f) == [x \in D |-> [k \in Mode |-> ToPrint(x, k, f)]]
<1>1. D = TRef /\ m \in Nat /\ Builtin \cap Int = {}
  BY Graph DEF TRef
<1>2. ASSUME NEW x \in 1..m
      PROVE  /\ x \in Node /\ x \notin Builtin
             /\ Children(x) \subseteq Builtin \cup 1..(x - 1)
             /\ Children(x) \subseteq D
  BY Graph, ChildrenAreTRefs, <1>1
<1>3. ASSUME NEW x \in D, NEW k \in Mode, NEW f \in F PROVE ToPrint(x, k, f) \subseteq X
  <2>1. CASE x \in Builtin
    BY <2>1
  <2>2. CASE x \in 1..m /\ x \in named
    BY <1>2, <2>2
  <2>3. CASE x \in 1..m /\ x \notin named
    <3> DEFINE below == [c \in Children(x) |-> f[c]]
    <3>1. \A c \in Children(x), l \in Mode : below[c][l] \subseteq X
      BY <1>2, <2>3
    <3>2. ToPrint(x, k, f) = print_value(x, k, below)
      BY <1>2, <2>3
    <3> HIDE DEF below
    <3>3. ASSUME NEW r \in print_value(x, k, below) PROVE r \in X
      <4>1. \/ r \in Lifetime /\ LendsItself(x, k)
            \/ \E c \in Children(x), l \in Mode : r \in below[c][l] /\ Passes(x, k, c, l)
        <5>1. PICK b : b = below
          OBVIOUS
        <5> HIDE DEF X
        <5> QED BY <1>2, <2>3, <3>3, <5>1, ValuePrints
      <4> HIDE DEF X
      <4>2. Lifetime \subseteq X
        BY DEF X
      <4> QED BY <3>1, <4>1, <4>2
    <3> HIDE DEF X, ToPrint
    <3> QED BY <3>2, <3>3
  <2> QED BY <2>1, <2>2, <2>3
<1>4. ASSUME NEW x \in 1..m, NEW g \in F, NEW h \in F, \A c \in Builtin \cup 1..(x - 1) : g[c] = h[c],
             NEW k \in Mode
      PROVE  ToPrint(x, k, g) = ToPrint(x, k, h)
  <2>1. \A c \in Children(x) : g[c] = h[c]
    BY <1>2, <1>4
  <2>2. [c \in Children(x) |-> g[c]] = [c \in Children(x) |-> h[c]]
    BY <2>1
  <2> QED BY <2>2
<1>5. ASSUME NEW x \in Builtin, NEW g \in F, NEW h \in F, NEW k \in Mode PROVE ToPrint(x, k, g) = ToPrint(x, k, h)
  OBVIOUS
<1>6. V # {}
  <2>1. [k \in Mode |-> {}] \in V
    OBVIOUS
  <2> HIDE DEF V
  <2> QED BY <2>1
<1> HIDE DEF ToPrint, X
<1>7. step \in [D \X F -> V]
  BY <1>3
<1>8. \A x \in D : \A f \in F : step[<<x, f>>] = [k \in Mode |-> ToPrint(x, k, f)]
  OBVIOUS
<1> HIDE DEF step, V
<1>9. ASSUME NEW x \in Builtin, NEW g \in F, NEW h \in F PROVE step[<<x, g>>] = step[<<x, h>>]
  <2>1. x \in D
    OBVIOUS
  <2>2. \A k \in Mode : ToPrint(x, k, g) = ToPrint(x, k, h)
    BY <1>5
  <2>3. [k \in Mode |-> ToPrint(x, k, g)] = [k \in Mode |-> ToPrint(x, k, h)]
    BY <2>2
  <2> QED BY <1>8, <2>1, <2>3
<1>10. ASSUME NEW x \in 1..m, NEW g \in F, NEW h \in F, \A c \in Builtin \cup 1..(x - 1) : g[c] = h[c]
       PROVE  step[<<x, g>>] = step[<<x, h>>]
  <2>1. x \in D
    OBVIOUS
  <2>2. \A k \in Mode : ToPrint(x, k, g) = ToPrint(x, k, h)
    BY <1>4, <1>10
  <2>3. [k \in Mode |-> ToPrint(x, k, g)] = [k \in Mode |-> ToPrint(x, k, h)]
    BY <2>2
  <2> QED BY <1>8, <2>1, <2>3
<1> HIDE DEF m
<1>11. \E f \in F : \A x \in D : f[x] = step[<<x, f>>]
  <2>1. LooksBelow(Builtin, m, V, step)
    BY <1>1, <1>6, <1>7, <1>9, <1>10 DEF LooksBelow
  <2>2. PICK n, st, v : n = m /\ st = step /\ v = V
    OBVIOUS
  <2>3. LooksBelow(Builtin, n, v, st)
    BY <2>1, <2>2
  <2>4. Defines(Builtin, n, v, st)
    BY <2>3, Recursion
  <2> QED BY <2>2, <2>4 DEF Defines
<1>12. PICK f \in F : \A x \in D : f[x] = [k \in Mode |-> ToPrint(x, k, f)]
  BY <1>8, <1>11
<1>13. f = Body(f)
  BY <1>12
<1>14. print_tref(default) = CHOOSE g : g = Body(g)
  BY <1>1 DEF print_tref, TRef, ToPrint
<1> HIDE DEF Body
<1>15. print_tref(default) = Body(print_tref(default))
  BY <1>13, <1>14
<1>16. print_tref(default)[t][mode] = ToPrint(t, mode, print_tref(default))
  BY <1>1, <1>15 DEF Body
<1> QED BY <1>16 DEF ToPrint

\* all_bits_valid satisfies its recursive definition.
LEMMA AllBitsValidUnfolds ==
    ASSUME module \in Module, NEW t \in Node
    PROVE  AllBitsValid[t] <=> /\ def[t].kind \in {"record", "alias"}
                               /\ \A c \in Children(t) : AllBitsValid[c]
<1> DEFINE m == Len(def)
           D == Builtin \cup 1..m
           F == [D -> BOOLEAN]
           Valid(x, f) == IF x \in Builtin THEN x \in all_bits_valid
                          ELSE /\ def[x].kind \in {"record", "alias"}
                               /\ \A c \in Children(x) : f[c]
           step == [p \in D \X F |-> Valid(p[1], p[2])]
           Body(f) == [x \in D |-> Valid(x, f)]
<1>1. D = TRef /\ Node = 1..m /\ m \in Nat /\ Builtin \cap Int = {}
  BY Graph DEF TRef
<1>2. ASSUME NEW x \in 1..m
      PROVE  x \notin Builtin /\ Children(x) \subseteq Builtin \cup 1..(x - 1)
  BY Graph, <1>1
<1>3. ASSUME NEW x \in D, NEW f \in F PROVE Valid(x, f) \in BOOLEAN
  <2>1. CASE x \in Builtin
    <3>1. (x \in all_bits_valid) \in BOOLEAN
      BY SMT
    <3> QED BY <2>1, <3>1, Zenon
  <2>2. CASE x \notin Builtin
    <3> DEFINE v == /\ def[x].kind \in {"record", "alias"}
                    /\ \A c \in Children(x) : f[c]
    <3>1. v \in BOOLEAN
      BY Zenon
    <3>2. Valid(x, f) = v
      BY <2>2, Zenon
    <3> QED BY <3>1, <3>2, Zenon
  <2> QED BY <2>1, <2>2
<1>4. ASSUME NEW x \in 1..m, NEW g \in F, NEW h \in F, \A c \in Builtin \cup 1..(x - 1) : g[c] = h[c]
      PROVE  Valid(x, g) = Valid(x, h)
  <2>1. \A c \in Children(x) : g[c] = h[c]
    BY <1>2, <1>4
  <2>2. (\A c \in Children(x) : g[c]) <=> (\A c \in Children(x) : h[c])
    BY <2>1
  <2> QED BY <2>2
<1>5. ASSUME NEW x \in Builtin, NEW g \in F, NEW h \in F PROVE Valid(x, g) = Valid(x, h)
  OBVIOUS
<1> HIDE DEF Valid
<1>6. step \in [D \X F -> BOOLEAN]
  BY <1>3
<1>7. \A x \in D : \A f \in F : step[<<x, f>>] = Valid(x, f)
  OBVIOUS
<1> HIDE DEF step
<1>8. ASSUME NEW x \in Builtin, NEW g \in F, NEW h \in F PROVE step[<<x, g>>] = step[<<x, h>>]
  <2>1. x \in D
    OBVIOUS
  <2>2. Valid(x, g) = Valid(x, h)
    BY <1>5
  <2> QED BY <1>7, <2>1, <2>2
<1>9. ASSUME NEW x \in 1..m, NEW g \in F, NEW h \in F, \A c \in Builtin \cup 1..(x - 1) : g[c] = h[c]
      PROVE  step[<<x, g>>] = step[<<x, h>>]
  <2>1. x \in D
    OBVIOUS
  <2>2. Valid(x, g) = Valid(x, h)
    BY <1>4, <1>9
  <2> QED BY <1>7, <2>1, <2>2
<1> HIDE DEF m
<1>10. \E f \in F : \A x \in D : f[x] = step[<<x, f>>]
  <2>1. LooksBelow(Builtin, m, BOOLEAN, step)
    BY <1>1, <1>6, <1>8, <1>9 DEF LooksBelow
  <2>2. PICK n, st : n = m /\ st = step
    OBVIOUS
  <2>3. LooksBelow(Builtin, n, BOOLEAN, st)
    BY <2>1, <2>2
  <2>4. Defines(Builtin, n, BOOLEAN, st)
    BY <2>3, Recursion
  <2> QED BY <2>2, <2>4 DEF Defines
<1>11. PICK f \in F : \A x \in D : f[x] = Valid(x, f)
  BY <1>7, <1>10
<1>12. f = Body(f)
  BY <1>11
<1>13. AllBitsValid = CHOOSE g : g = Body(g)
  BY <1>1 DEF AllBitsValid, TRef, Valid
<1> HIDE DEF Body
<1>14. AllBitsValid = Body(AllBitsValid)
  BY <1>12, <1>13
<1>15. AllBitsValid[t] = Valid(t, AllBitsValid)
  BY <1>1, <1>14 DEF Body
<1> QED BY <1>1, <1>2, <1>15 DEF Valid

\* type_ satisfies its recursive definition.
LEMMA TypeUnfolds ==
    ASSUME module \in Module, NEW t \in Node
    PROVE  type_[t] = IF def[t].kind = "alias" THEN type_[def[t].of[1]] ELSE t
<1> DEFINE m == Len(def)
           D == {} \cup 1..m
           F == [D -> 1..m]
           To(x, f) == IF def[x].kind = "alias" THEN f[def[x].of[1]] ELSE x
           step == [p \in D \X F |-> To(p[1], p[2])]
           Body(f) == [x \in D |-> To(x, f)]
<1>1. D = Node /\ Node = 1..m /\ m \in Nat
  BY Graph
<1>2. ASSUME NEW x \in 1..m, def[x].kind = "alias"
      PROVE  def[x].of[1] \in {} \cup 1..(x - 1) /\ def[x].of[1] \in D
  <2>1. def[x].of[1] \in Children(x) /\ def[x].of[1] \in Node
    BY <1>1, <1>2, Graph
  <2> QED BY <1>1, <2>1, Graph
<1>3. ASSUME NEW x \in D, NEW f \in F PROVE To(x, f) \in 1..m
  BY <1>2
<1>4. ASSUME NEW x \in 1..m, NEW g \in F, NEW h \in F, \A c \in {} \cup 1..(x - 1) : g[c] = h[c]
      PROVE  To(x, g) = To(x, h)
  BY <1>2, <1>4
<1> HIDE DEF To
<1>5. step \in [D \X F -> 1..m]
  BY <1>3
<1>6. \A x \in D : \A f \in F : step[<<x, f>>] = To(x, f)
  OBVIOUS
<1> HIDE DEF step
<1>7. ASSUME NEW x \in 1..m, NEW g \in F, NEW h \in F, \A c \in {} \cup 1..(x - 1) : g[c] = h[c]
      PROVE  step[<<x, g>>] = step[<<x, h>>]
  <2>1. To(x, g) = To(x, h)
    BY <1>4, <1>7
  <2> QED BY <1>6, <2>1
<1>8. 1..m # {}
  BY <1>1
<1> HIDE DEF m
<1>9. \E f \in F : \A x \in D : f[x] = step[<<x, f>>]
  <2>1. LooksBelow({}, m, 1..m, step)
    BY <1>1, <1>5, <1>7, <1>8 DEF LooksBelow
  <2>2. PICK n, st : n = m /\ st = step
    OBVIOUS
  <2>3. LooksBelow({}, n, 1..n, st)
    BY <2>1, <2>2
  <2>4. Defines({}, n, 1..n, st)
    BY <2>3, Recursion
  <2> QED BY <2>2, <2>4 DEF Defines
<1>10. PICK f \in F : \A x \in D : f[x] = To(x, f)
  BY <1>6, <1>9
<1>11. f = Body(f)
  BY <1>10
<1>12. type_ = CHOOSE g : g = Body(g)
  BY <1>1 DEF type_, To
<1> HIDE DEF Body
<1>13. type_ = Body(type_)
  BY <1>11, <1>12
<1> QED BY <1>1, <1>13 DEF Body, To

\* Without aliases of handles, what stands for a handle is one.
LEMMA HandlesAreHandles ==
    ASSUME module \in Module, ~HandleAliased, NEW n \in named
    PROVE  /\ IsHandle(n) <=> def[n].kind = "handle"
           /\ def[n].kind = "alias" => def[def[n].of[1]].kind # "handle"
<1>1. n \in Node
  BY Graph
<1>2. def[n].kind = "handle" => IsHandle(n)
  BY <1>1, TypeUnfolds DEF IsHandle
<1>3. IsHandle(n) => def[n].kind = "handle"
  <2>1. def[n].kind # "alias" => type_[n] = n
    BY <1>1, TypeUnfolds
  <2> QED BY <2>1 DEF IsHandle, HandleAliased
<1>4. def[n].kind = "alias" => def[def[n].of[1]].kind # "handle"
  <2> SUFFICES ASSUME def[n].kind = "alias", def[def[n].of[1]].kind = "handle" PROVE FALSE
    OBVIOUS
  <2>1. PICK a : a = def[n].of[1]
    OBVIOUS
  <2>2. a \in Node
    BY <1>1, <2>1, Graph
  <2>3. type_[n] = type_[a] /\ type_[a] = a
    BY <1>1, <2>1, <2>2, TypeUnfolds
  <2> QED BY <2>1, <2>3 DEF IsHandle, HandleAliased
<1> QED BY <1>2, <1>3, <1>4

\* A type that owns nothing, and one below an out-buffer.
Plain(w) == Kinds(w) \cap {"list", "handle", "in_buffer", "out_buffer"} = {}
UnderOut(w) == \E o \in Node : def[o].kind = "out_buffer" /\ w \in Reachable({o}) /\ w # o

\* What a part contains the whole contains.
LEMMA KindsBelow ==
    ASSUME module \in Module, NEW t, NEW w \in Reachable({t})
    PROVE  Kinds(w) \subseteq Kinds(t)
<1>1. Reachable({w}) \subseteq Reachable({t})
  BY ReachableThrough
<1> QED BY <1>1 DEF Kinds

\* A type of which every bit pattern is a value owns nothing.
LEMMA ValidPlain ==
    ASSUME module \in Module, NEW t \in Node, AllBitsValid[t]
    PROVE  Plain(t)
<1> DEFINE T == {x \in 1..Len(def) : AllBitsValid[x] => Plain(x)}
<1>1. PICK m \in Nat : m = Len(def) /\ Node = 1..m
  BY Graph
<1>2. ASSUME NEW x \in 1..m, \A k \in 1..(x - 1) : k \in T PROVE x \in T
  <2> SUFFICES ASSUME AllBitsValid[x] PROVE Plain(x)
    BY <1>1
  <2>1. x \in Node /\ def[x].kind \in {"record", "alias"} /\ \A c \in Children(x) : AllBitsValid[c]
    BY <1>1, AllBitsValidUnfolds
  <2>2. \A c \in Children(x) \cap Node : c \in 1..(x - 1)
    BY <1>1, <2>1, Graph
  <2>3. \A c \in Children(x) \cap Node : Plain(c)
    BY <1>2, <2>1, <2>2
  <2>4. \A k \in Kinds(x) : k = def[x].kind \/ \E c \in Children(x) \cap Node : k \in Kinds(c)
    BY <2>1, KindsUnfold
  <2>5. \A k \in {"list", "handle", "in_buffer", "out_buffer"} : k # def[x].kind
    BY <2>1
  <2>6. \A k \in Kinds(x) : k \notin {"list", "handle", "in_buffer", "out_buffer"}
    BY <2>3, <2>4, <2>5 DEF Plain
  <2> QED BY <2>6 DEF Plain
<1>3. \A x \in 1..m : x \in T
  <2> HIDE DEF T
  <2> QED BY <1>2, SmallerFirst
<1> QED BY <1>1, <1>3

\* Where a reference that is printed for a type comes from: a name in it, which
\* is printed in the same mode, owns nothing, or is below an out-buffer.
PrintedFor(w, m, mode) == m = mode \/ Plain(w) \/ (m = "Owned" /\ UnderOut(w))

From(t, mode, default, r) ==
    \E w \in Reachable({t}) \cap named, m \in Mode :
        r \in print_name(w, m, default) /\ PrintedFor(w, m, mode)

\* The value of a type refers to what its children refer to.
LEMMA ValueFrom ==
    ASSUME module \in Module, NEW t \in Node, NEW mode \in Mode, NEW default, NEW below,
           \A c \in Children(t), m \in Mode : \A r \in below[c][m] \ Lifetime :
              c \in Node /\ From(c, m, default, r),
           NEW r \in print_value(t, mode, below) \ Lifetime
    PROVE  From(t, mode, default, r)
<1>1. PICK c \in Children(t), m \in Mode : r \in below[c][m] /\ Passes(t, mode, c, m)
  BY ValuePrints
<1>2. c \in Node /\ From(c, m, default, r)
  BY <1>1
<1>3. PICK w \in Reachable({c}) \cap named, k \in Mode :
          r \in print_name(w, k, default) /\ PrintedFor(w, k, m)
  BY <1>2 DEF From
<1>4. w \in Reachable({t}) /\ w # t
  <2>1. w \in Reachable({t})
    <3>1. Reachable({t}) = {t} \cup UNION {Reachable({b}) : b \in Children(t)}
      BY ReachableUnfolds
    <3> QED BY <1>3, <3>1
  <2>2. w \in 1..c /\ c \in 1..(t - 1)
    BY <1>2, <1>3, ReachableBefore, Graph
  <2>3. t \in Nat
    BY Graph
  <2> QED BY <2>1, <2>2, <2>3
<1>5. PrintedFor(w, k, mode)
  <2>1. CASE m = mode
    BY <1>3, <2>1
  <2>2. CASE m = "Owned" /\ def[t].kind = "out_buffer"
    <3>1. UnderOut(w)
      BY <1>4, <2>2 DEF UnderOut
    <3> QED BY <1>3, <2>2, <3>1 DEF PrintedFor
  <2>3. CASE AllBitsValid[c]
    <3>1. Plain(w)
      BY <1>2, <1>3, <2>3, ValidPlain, KindsBelow DEF Plain
    <3> QED BY <3>1 DEF PrintedFor
  <2> QED BY <1>1, <2>1, <2>2, <2>3 DEF Passes
<1> QED BY <1>3, <1>4, <1>5 DEF From

\* So what is printed for a type refers to names in it.
LEMMA TrefFrom ==
    ASSUME module \in Module, NEW default, NEW t \in Node, NEW mode \in Mode,
           NEW r \in print_tref(default)[t][mode] \ Lifetime
    PROVE  From(t, mode, default, r)
<1> DEFINE tref == print_tref(default)
           Good(x) == \A k \in Mode : \A q \in tref[x][k] \ Lifetime : From(x, k, default, q)
           T == {x \in 1..Len(def) : Good(x)}
<1>1. PICK m \in Nat : m = Len(def) /\ Node = 1..m
  BY Graph
<1>2. ASSUME NEW x \in 1..m, \A c \in 1..(x - 1) : c \in T PROVE x \in T
  <2> SUFFICES ASSUME NEW k \in Mode, NEW q \in tref[x][k] \ Lifetime PROVE From(x, k, default, q)
    BY <1>1
  <2>1. x \in Node /\ x \in TRef /\ x \notin Builtin
    BY <1>1, Graph DEF TRef
  <2>2. CASE x \in named
    <3>1. q \in print_name(x, k, default)
      BY <2>1, <2>2, PrintTrefUnfolds
    <3>2. x \in Reachable({x})
      BY <2>1, ReachableUnfolds
    <3> QED BY <2>2, <3>1, <3>2 DEF From, PrintedFor
  <2>3. CASE x \notin named
    <3>1. PICK below : below = [c \in Children(x) |-> tref[c]]
      OBVIOUS
    <3>2. q \in print_value(x, k, below) \ Lifetime
      BY <2>1, <2>3, <3>1, PrintTrefUnfolds
    <3>3. ASSUME NEW c \in Children(x), NEW l \in Mode, NEW p \in below[c][l] \ Lifetime
          PROVE  c \in Node /\ From(c, l, default, p)
      <4>1. p \in tref[c][l]
        BY <3>1, <3>3
      <4>2. c \in TRef
        BY <2>1, ChildrenAreTRefs
      <4>3. c \notin Builtin
        BY <4>1, <4>2, PrintTrefUnfolds
      <4>4. c \in Node /\ c \in 1..(x - 1)
        BY <2>1, <4>2, <4>3, Graph DEF TRef
      <4>5. Good(c)
        <5> HIDE DEF Good
        <5> QED BY <1>2, <4>4
      <4> QED BY <3>3, <4>1, <4>4, <4>5
    <3> HIDE DEF tref
    <3> QED BY <2>1, <3>2, <3>3, ValueFrom
  <2> QED BY <2>2, <2>3
<1>3. t \in T
  <2>1. \A x \in 1..m : x \in T
    <3> HIDE DEF T
    <3> QED BY <1>2, SmallerFirst
  <2> QED BY <1>1, <2>1
<1> QED BY <1>3

\* The fields of a reference.
LEMMA RefFields ==
    ASSUME NEW name, NEW lt
    PROVE  Ref(name, lt).name = name /\ (Ref(name, lt).lt <=> lt)
BY DEF Ref

\* A name is printed with a lifetime only if it has one.
LEMMA NameLifetime ==
    ASSUME NEW n, NEW mode, NEW default, NEW r \in print_name(n, mode, default), r.lt
    PROVE  lifetime_for(type_info[n], mode)
<1> DEFINE lt == lifetime_for(type_info[n], mode)
<1> SUFFICES ASSUME ~lt PROVE FALSE
  OBVIOUS
<1>1. CASE IsHandle(n)
  <2>1. r = Ref(<<n, "">>, FALSE)
    BY <1>1 DEF print_name
  <2> QED BY <2>1, RefFields
<1>2. CASE ~IsHandle(n)
  <2>1. r = Ref(result_name(n, default), lt)
    BY <1>2 DEF print_name
  <2> QED BY <2>1, RefFields
<1> QED BY <1>1, <1>2

\* The kinds for which a type, or what prints its value, uses a lifetime.
Lends(mode) == CASE mode = "HandlesBorrowed" -> {"handle", "in_buffer", "out_buffer"}
                 [] mode = "Owned" -> {"in_buffer", "out_buffer"}
                 [] OTHER -> {"list", "handle", "in_buffer", "out_buffer"}

\* What passes a mode on lends in all the cases the mode passed on does.
LEMMA PassesLends ==
    ASSUME NEW t, NEW mode \in Mode, NEW c, NEW m \in Mode, Passes(t, mode, c, m)
    PROVE  Lends(m) \subseteq Lends(mode)
BY DEF Passes, Lends, Mode, ParamMode

\* A type whose information is exact has a lifetime in a mode if it contains
\* what lends in the mode.
LEMMA LifetimeExact ==
    ASSUME NEW n, NEW info, Exact(n, info), NEW mode \in Mode
    PROVE  lifetime_for(info, mode) <=> mode # "Owned" /\ Kinds(n) \cap Lends(mode) # {}
<1>1. CASE mode = "Owned"
  BY <1>1 DEF lifetime_for
<1>2. CASE mode = "HandlesBorrowed"
  <2>1. lifetime_for(info, mode) <=> info.has_handle \/ info.has_in_buffer \/ info.has_out_buffer
    BY <1>2 DEF lifetime_for
  <2>2. Lends(mode) = {"handle", "in_buffer", "out_buffer"}
    BY <1>2 DEF Lends
  <2> QED BY <1>2, <2>1, <2>2 DEF Exact
<1>3. CASE mode \in {"AllBorrowed", "LeafBorrowed"}
  <2>1. lifetime_for(info, mode) <=>
           info.has_list \/ info.has_handle \/ info.has_in_buffer \/ info.has_out_buffer
    BY <1>3 DEF lifetime_for, owns_data
  <2>2. Lends(mode) = {"list", "handle", "in_buffer", "out_buffer"}
    BY <1>3 DEF Lends
  <2> QED BY <1>3, <2>1, <2>2 DEF Exact
<1> QED BY <1>1, <1>2, <1>3 DEF Mode, ParamMode

\* The value of a type uses a lifetime only if it contains what lends.
LEMMA ValueLends ==
    ASSUME module \in Module, NEW t \in Node, NEW mode \in Mode, NEW below,
           \A c \in Children(t), m \in Mode : \A r \in below[c][m] :
              r.lt => c \in Node /\ Kinds(c) \cap Lends(m) # {},
           NEW r \in print_value(t, mode, below), r.lt
    PROVE  Kinds(t) \cap Lends(mode) # {}
<1>1. def[t].kind \in Kinds(t) /\ \A c \in Children(t) \cap Node : Kinds(c) \subseteq Kinds(t)
  BY KindsUnfold
<1>2. CASE LendsItself(t, mode)
  <2>1. def[t].kind \in Lends(mode)
    BY <1>2 DEF LendsItself, Lends, Mode, ParamMode
  <2> QED BY <1>1, <2>1
<1>3. CASE \E c \in Children(t), m \in Mode : r \in below[c][m] /\ Passes(t, mode, c, m)
  <2>1. PICK c \in Children(t), m \in Mode : r \in below[c][m] /\ Passes(t, mode, c, m)
    BY <1>3
  <2>2. c \in Node /\ Kinds(c) \cap Lends(m) # {}
    BY <2>1
  <2>3. Lends(m) \subseteq Lends(mode)
    BY <2>1, PassesLends
  <2> QED BY <1>1, <2>2, <2>3
<1> QED BY <1>2, <1>3, ValuePrints

\* So does what is printed for a type.
LEMMA TrefLends ==
    ASSUME module \in Module, \A n \in named : Exact(n, type_info[n]), NEW default,
           NEW t \in Node, NEW mode \in Mode, NEW r \in print_tref(default)[t][mode], r.lt
    PROVE  Kinds(t) \cap Lends(mode) # {}
<1> DEFINE tref == print_tref(default)
           Good(x) == \A k \in Mode : \A q \in tref[x][k] : q.lt => Kinds(x) \cap Lends(k) # {}
           T == {x \in 1..Len(def) : Good(x)}
<1>1. PICK m \in Nat : m = Len(def) /\ Node = 1..m
  BY Graph
<1>2. ASSUME NEW x \in 1..m, \A c \in 1..(x - 1) : c \in T PROVE x \in T
  <2> SUFFICES ASSUME NEW k \in Mode, NEW q \in tref[x][k], q.lt PROVE Kinds(x) \cap Lends(k) # {}
    BY <1>1
  <2>1. x \in Node /\ x \in TRef /\ x \notin Builtin
    BY <1>1, Graph DEF TRef
  <2>2. CASE x \in named
    <3>1. q \in print_name(x, k, default)
      BY <2>1, <2>2, PrintTrefUnfolds
    <3>2. PICK i : i = type_info[x]
      OBVIOUS
    <3>3. lifetime_for(i, k)
      BY <3>1, <3>2, NameLifetime
    <3>4. Exact(x, i)
      BY <2>2, <3>2
    <3> QED BY <3>3, <3>4, LifetimeExact
  <2>3. CASE x \notin named
    <3>1. PICK below : below = [c \in Children(x) |-> tref[c]]
      OBVIOUS
    <3>2. q \in print_value(x, k, below)
      BY <2>1, <2>3, <3>1, PrintTrefUnfolds
    <3>3. ASSUME NEW c \in Children(x), NEW l \in Mode, NEW p \in below[c][l], p.lt
          PROVE  c \in Node /\ Kinds(c) \cap Lends(l) # {}
      <4>1. p \in tref[c][l]
        BY <3>1, <3>3
      <4>2. c \in TRef
        BY <2>1, ChildrenAreTRefs
      <4>3. c \notin Builtin
        BY <4>1, <4>2, PrintTrefUnfolds
      <4>4. c \in Node /\ c \in 1..(x - 1)
        BY <2>1, <4>2, <4>3, Graph DEF TRef
      <4>5. Good(c)
        <5> HIDE DEF Good
        <5> QED BY <1>2, <4>4
      <4> QED BY <3>3, <4>1, <4>4, <4>5
    <3> HIDE DEF tref
    <3> QED BY <2>1, <3>2, <3>3, ValueLends
  <2> QED BY <2>2, <2>3
<1>3. t \in T
  <2>1. \A x \in 1..m : x \in T
    <3> HIDE DEF T
    <3> QED BY <1>2, SmallerFirst
  <2> QED BY <1>1, <2>1
<1> QED BY <1>3

(***************************************************************************)
(* Definitions and references.                                             *)
(***************************************************************************)

\* What is known when a module is printed.
Analyzed ==
    /\ module \in Module
    /\ \A n \in named : n \in DOMAIN type_info /\ Exact(n, type_info[n])
    /\ \A n \in named : /\ type_info[n].param <=> n \in Reachable(roots.param)
                        /\ type_info[n].result <=> n \in Reachable(roots.result)
    /\ roots.param \subseteq Node /\ roots.result \subseteq BufferFree

\* Between two functions everything is.
LEMMA FuncsAnalyzed ==
    ASSUME IInv, phase = "funcs"
    PROVE  Analyzed
<1>1. module \in Module /\ work = <<>> /\ roots.param \subseteq Node /\ roots.result \subseteq BufferFree
  BY DEF IInv, TypesOK
<1>2. roots["param"] \subseteq Node /\ roots["result"] \subseteq Node
  BY <1>1 DEF BufferFree
<1>3. \A n \in named : n \in DOMAIN type_info /\ Exact(n, type_info[n])
  BY AllKnown
<1>4. Marked("param") /\ Marked("result")
  BY DEF IInv
<1>5. /\ Flagged("param") = Reachable(roots["param"]) \cap named
      /\ Flagged("result") = Reachable(roots["result"]) \cap named
  BY <1>1, <1>2, <1>4, NothingPending
<1>6. \A n \in named : /\ type_info[n].param <=> n \in Reachable(roots.param)
                       /\ type_info[n].result <=> n \in Reachable(roots.result)
  BY <1>3, <1>5 DEF Flagged
<1> QED BY <1>1, <1>3, <1>6 DEF Analyzed

\* Results contain no buffers.
LEMMA ResultsBufferFree ==
    ASSUME Analyzed, NEW n \in named, type_info[n].result
    PROVE  "in_buffer" \notin Kinds(n) /\ "out_buffer" \notin Kinds(n)
<1>1. module \in Module
  BY DEF Analyzed
<1>2. PICK b, r : b = BufferFree /\ r = roots.result
  OBVIOUS
<1>3. b \in SUBSET Node /\ r \cap Node \subseteq b
  BY <1>2 DEF Analyzed, BufferFree
<1>4. Closed(b)
  <2>1. ASSUME NEW m \in b, NEW c \in Children(m) \cap Node PROVE c \in b
    <3>1. m \in Node /\ Kinds(m) \cap {"in_buffer", "out_buffer"} = {}
      BY <1>2 DEF BufferFree
    <3>2. Kinds(c) \subseteq Kinds(m)
      <4>1. Kinds(m) = {def[m].kind} \cup UNION {Kinds(x) : x \in Children(m) \cap Node}
        BY <1>1, <3>1, KindsUnfold
      <4> QED BY <4>1
    <3> QED BY <1>2, <3>1, <3>2 DEF BufferFree
  <2> QED BY <2>1 DEF Closed
<1>5. Reachable(r) \subseteq b
  BY <1>1, <1>3, <1>4, ReachableLeast
<1>6. n \in BufferFree
  BY <1>2, <1>5 DEF Analyzed
<1> QED BY <1>6 DEF BufferFree

\* What a marked type refers to is marked.
LEMMA MarkedBelow ==
    ASSUME Analyzed, NEW t, NEW w \in Reachable({t}) \cap named
    PROVE  /\ t \in Reachable(roots.param) => type_info[w].param
           /\ t \in Reachable(roots.result) => type_info[w].result
<1>1. PICK p, r : p = roots.param /\ r = roots.result
  OBVIOUS
<1>2. module \in Module
  BY DEF Analyzed
<1>3. t \in Reachable(p) => w \in Reachable(p)
  BY <1>2, ReachableThrough
<1>4. t \in Reachable(r) => w \in Reachable(r)
  BY <1>2, ReachableThrough
<1> QED BY <1>1, <1>3, <1>4 DEF Analyzed

\* What a reference is: to a handle, always the same; to another type, in a
\* mode in which it is used, or in which it makes no difference.
Uses(w, m, default) ==
    \/ m = default /\ type_info[w].param
    \/ m = "Owned" /\ type_info[w].result
    \/ (type_info[w].param \/ type_info[w].result) /\ (Plain(w) \/ (m = "Owned" /\ UnderOut(w)))

NameRef(w, m, default) ==
    LET lt == lifetime_for(type_info[w], m)
    IN  Ref(IF lt THEN param_name(w, default) ELSE result_name(w, default), lt)

Refers(default, r) ==
    \E w \in named, m \in Mode :
        /\ Uses(w, m, default)
        /\ r = IF def[w].kind = "handle" THEN Ref(<<w, "">>, FALSE) ELSE NameRef(w, m, default)

\* What is printed for a type that is used in a mode refers to such names.
LEMMA FromRefers ==
    ASSUME Analyzed, ~HandleAliased, NEW default \in ParamMode, NEW t, NEW mode \in Mode,
           \/ mode = default /\ t \in Reachable(roots.param)
           \/ mode = "Owned" /\ t \in Reachable(roots.result),
           NEW r, r \notin Lifetime, From(t, mode, default, r)
    PROVE  Refers(default, r)
<1>1. PICK w \in Reachable({t}) \cap named, m \in Mode :
          r \in print_name(w, m, default) /\ PrintedFor(w, m, mode)
  BY DEF From
<1>2. /\ t \in Reachable(roots.param) => type_info[w].param
      /\ t \in Reachable(roots.result) => type_info[w].result
  BY <1>1, MarkedBelow
<1>3. Uses(w, m, default)
  BY <1>1, <1>2 DEF PrintedFor, Uses
<1>4. IsHandle(w) <=> def[w].kind = "handle"
  BY HandlesAreHandles DEF Analyzed
<1>5. r = IF def[w].kind = "handle" THEN Ref(<<w, "">>, FALSE) ELSE NameRef(w, m, default)
  <2>1. CASE IsHandle(w)
    <3>1. r = Ref(<<w, "">>, FALSE)
      BY <1>1, <2>1 DEF print_name
    <3> QED BY <1>4, <2>1, <3>1
  <2>2. CASE ~IsHandle(w)
    <3>1. r = NameRef(w, m, default)
      BY <1>1, <2>2 DEF print_name, NameRef
    <3> QED BY <1>4, <2>2, <3>1
  <2> QED BY <2>1, <2>2
<1> QED BY <1>3, <1>5 DEF Refers

\* The names of different types differ, and a type's two names do if it has two.
LEMMA NamesApart ==
    ASSUME NEW n, NEW default
    PROVE  /\ param_name(n, default)[1] = n /\ result_name(n, default)[1] = n
           /\ param_name(n, default) # <<>> /\ result_name(n, default) # <<>>
           /\ uses_two_names(type_info[n], default) <=> param_name(n, default) # result_name(n, default)
BY DEF param_name, result_name

\* The name of a handle is its own.
LEMMA HandleNames ==
    ASSUME NEW n
    PROVE  <<n, "">>[1] = n /\ <<n, "">> # <<>>
OBVIOUS

\* The definitions, one by one.
HandleDef(n) == [name |-> <<n, "">>, lt |-> FALSE, body |-> {}]
TypeDef(n, name, mode, default, tref) ==
    [name |-> name, lt |-> lifetime_for(type_info[n], mode), body |-> print_typedef(n, mode, default, tref)]

Defined(n, d, default, tref) ==
    \/ type_info[n].param /\ d = TypeDef(n, param_name(n, default), default, default, tref)
    \/ /\ type_info[n].result /\ (~type_info[n].param \/ uses_two_names(type_info[n], default))
       /\ d = TypeDef(n, result_name(n, default), "Owned", default, tref)

\* There are no others.
LEMMA DefinitionCases ==
    ASSUME NEW default \in ParamMode, NEW tref, NEW d
    PROVE  d \in Definitions(default, tref) <=>
              \E n \in named : IF def[n].kind = "handle" THEN d = HandleDef(n) ELSE Defined(n, d, default, tref)
<1>1. default # "Owned"
  BY DEF ParamMode
<1>2. ASSUME NEW n
      PROVE  (\E e \in modes_of(n, default) : d = TypeDef(n, e.name, e.mode, default, tref))
                <=> Defined(n, d, default, tref)
  <2>1. PICK a, b : /\ a = [name |-> param_name(n, default), mode |-> default]
                    /\ b = [name |-> result_name(n, default), mode |-> "Owned"]
    OBVIOUS
  <2>2. a.name = param_name(n, default) /\ a.mode = default /\ b.name = result_name(n, default) /\ b.mode = "Owned"
    BY <2>1
  <2>3. a \in modes_of(n, default) <=> type_info[n].param
    BY <2>1, <2>2 DEF modes_of
  <2>4. b \in modes_of(n, default) <=>
           type_info[n].result /\ (~type_info[n].param \/ uses_two_names(type_info[n], default))
    BY <1>1, <2>1, <2>2 DEF modes_of
  <2>5. modes_of(n, default) \subseteq {a, b}
    BY <2>1 DEF modes_of
  <2> QED BY <2>2, <2>3, <2>4, <2>5 DEF Defined
<1>3. Definitions(default, tref) =
         {HandleDef(n) : n \in {m \in named : def[m].kind = "handle"}}
         \cup UNION {{TypeDef(n, e.name, e.mode, default, tref) : e \in modes_of(n, default)} :
                      n \in {m \in named : def[m].kind # "handle"}}
  BY DEF Definitions, HandleDef, TypeDef
<1>4. d \in Definitions(default, tref) <=>
         \/ \E n \in {m \in named : def[m].kind = "handle"} : d = HandleDef(n)
         \/ \E n \in {m \in named : def[m].kind # "handle"} :
               \E e \in modes_of(n, default) : d = TypeDef(n, e.name, e.mode, default, tref)
  BY <1>3
<1> QED BY <1>2, <1>4

\* The fields of a definition.
LEMMA DefinitionFields ==
    ASSUME NEW n, NEW name, NEW mode, NEW default, NEW tref
    PROVE  /\ HandleDef(n).name = <<n, "">> /\ ~HandleDef(n).lt /\ HandleDef(n).body = {}
           /\ TypeDef(n, name, mode, default, tref).name = name
           /\ TypeDef(n, name, mode, default, tref).lt <=> lifetime_for(type_info[n], mode)
           /\ TypeDef(n, name, mode, default, tref).body = print_typedef(n, mode, default, tref)
BY DEF HandleDef, TypeDef

\* A definition has the name of its type, and a handle's is its own.
LEMMA DefinitionNames ==
    ASSUME NEW default \in ParamMode, NEW tref, NEW w \in named, NEW d \in Definitions(default, tref),
           d.name[1] = w
    PROVE  IF def[w].kind = "handle" THEN d = HandleDef(w) ELSE Defined(w, d, default, tref)
<1>1. PICK n \in named : IF def[n].kind = "handle" THEN d = HandleDef(n) ELSE Defined(n, d, default, tref)
  BY DefinitionCases
<1>2. d.name[1] = n
  <2>1. PICK H, P, R : H = <<n, "">> /\ P = param_name(n, default) /\ R = result_name(n, default)
    OBVIOUS
  <2>2. H[1] = n /\ P[1] = n /\ R[1] = n
    <3>1. H[1] = n
      BY ONLY <2>1, HandleNames
    <3> QED BY <2>1, <3>1, NamesApart
  <2>3. CASE def[n].kind = "handle"
    <3>1. d.name = H
      BY <1>1, <2>1, <2>3, DefinitionFields
    <3> QED BY ONLY <2>2, <3>1
  <2>4. CASE def[n].kind # "handle"
    <3>1. /\ TypeDef(n, P, default, default, tref).name = P
          /\ TypeDef(n, R, "Owned", default, tref).name = R
      BY DEF TypeDef
    <3>2. d.name = P \/ d.name = R
      BY <1>1, <2>1, <2>4, <3>1 DEF Defined
    <3> QED BY ONLY <2>2, <3>2
  <2> QED BY <2>3, <2>4
<1> QED BY <1>1, <1>2

\* A definition that is printed is there.
LEMMA DefinitionThere ==
    ASSUME NEW default \in ParamMode, NEW tref, NEW w \in named, NEW d,
           IF def[w].kind = "handle" THEN d = HandleDef(w) ELSE Defined(w, d, default, tref)
    PROVE  d \in Definitions(default, tref)
BY DefinitionCases

\* A type that owns nothing has no lifetime in any mode.
LEMMA PlainLifetime ==
    ASSUME NEW w, NEW info, Exact(w, info), Plain(w), NEW mode \in Mode
    PROVE  ~lifetime_for(info, mode)
<1>1. Lends(mode) \subseteq {"list", "handle", "in_buffer", "out_buffer"}
  BY DEF Lends
<1> QED BY <1>1, LifetimeExact DEF Plain

\* A reference to a type with one definition has the lifetime that has.
LEMMA OneNameLifetime ==
    ASSUME Analyzed, ~BorrowedOutItems, NEW default \in ParamMode, NEW w \in named, ~IsHandle(w),
           NEW m \in Mode, Uses(w, m, default), ~uses_two_names(type_info[w], default)
    PROVE  lifetime_for(type_info[w], m) <=>
              lifetime_for(type_info[w], IF type_info[w].param THEN default ELSE "Owned")
<1> DEFINE info == type_info[w]
<1>1. Exact(w, info) /\ module \in Module
  BY DEF Analyzed
<1>2. default \in Mode /\ "Owned" \in Mode
  BY DEF Mode
<1>3. ~lifetime_for(info, "Owned")
  BY DEF lifetime_for
<1>4. Plain(w) => ~lifetime_for(info, m) /\ ~lifetime_for(info, default)
  <2>1. PICK i : i = info
    OBVIOUS
  <2> QED BY <1>1, <1>2, <2>1, PlainLifetime
<1>5. info.param /\ info.result => ~lifetime_for(info, default)
  <2> SUFFICES ASSUME info.param, info.result PROVE ~lifetime_for(info, default)
    OBVIOUS
  <2>1. ~info.has_in_buffer /\ ~info.has_out_buffer
    BY <1>1, ResultsBufferFree DEF Exact
  <2>2. ~owns_data(info) \/ (default = "HandlesBorrowed" /\ ~info.has_handle)
    BY DEF uses_two_names
  <2> QED BY <2>1, <2>2 DEF lifetime_for, owns_data
<1>6. UnderOut(w) => Plain(w) \/ info.result
  <2> SUFFICES ASSUME UnderOut(w), ~info.result PROVE Plain(w)
    OBVIOUS
  <2>1. ~owns_data(info)
    BY DEF UnderOut, BorrowedOutItems
  <2> QED BY <1>1, <2>1 DEF owns_data, Exact, Plain
<1>7. \/ m = default /\ info.param
      \/ m = "Owned" /\ info.result
      \/ Plain(w)
  BY <1>6 DEF Uses
<1> HIDE DEF info
<1>8. CASE m = default /\ info.param
  BY <1>8 DEF info
<1>9. CASE m = "Owned" /\ info.result
  BY <1>3, <1>5, <1>9 DEF info
<1>10. CASE Plain(w)
  BY <1>3, <1>4, <1>10 DEF info
<1> QED BY <1>7, <1>8, <1>9, <1>10

\* A type with two names has a lifetime where it is borrowed.
LEMMA TwoNamesLifetime ==
    ASSUME NEW info, NEW default \in ParamMode, uses_two_names(info, default)
    PROVE  lifetime_for(info, default) /\ info.param /\ info.result
BY DEF uses_two_names, lifetime_for, ParamMode

\* Every reference has one definition, with a lifetime if the reference has.
LEMMA OneDefinition ==
    ASSUME Analyzed, ~HandleAliased, NEW default \in ParamMode, NEW tref, NEW r, Refers(default, r)
    PROVE  \E d \in Definitions(default, tref) :
              /\ d.name = r.name
              /\ \A e \in Definitions(default, tref) : e.name = r.name => e = d
              /\ ~BorrowedOutItems => (d.lt <=> r.lt)
<1>1. PICK w \in named, m \in Mode :
          /\ Uses(w, m, default)
          /\ r = IF def[w].kind = "handle" THEN Ref(<<w, "">>, FALSE) ELSE NameRef(w, m, default)
  BY DEF Refers
<1>2. module \in Module /\ (IsHandle(w) <=> def[w].kind = "handle")
  BY HandlesAreHandles DEF Analyzed
<1>3. CASE def[w].kind = "handle"
  <2>1. r.name = <<w, "">> /\ ~r.lt
    BY <1>1, <1>3, RefFields
  <2>2. PICK d : d = HandleDef(w)
    OBVIOUS
  <2>3. d \in Definitions(default, tref) /\ d.name = r.name /\ ~d.lt
    BY <1>3, <2>1, <2>2, DefinitionThere, DefinitionFields
  <2>4. ASSUME NEW e \in Definitions(default, tref), e.name = r.name PROVE e = d
    <3>1. PICK H : H = <<w, "">>
      OBVIOUS
    <3>2. H[1] = w
      BY ONLY <3>1, HandleNames
    <3>3. e.name = H
      BY <2>1, <2>4, <3>1
    <3>4. e.name[1] = w
      BY ONLY <3>2, <3>3
    <3> QED BY <1>3, <2>2, <2>4, <3>4, DefinitionNames
  <2> QED BY <2>1, <2>3, <2>4
<1>4. CASE def[w].kind # "handle"
  <2>1. PICK info, P, R : info = type_info[w] /\ P = param_name(w, default) /\ R = result_name(w, default)
    OBVIOUS
  <2> DEFINE two == uses_two_names(info, default)
             lt == lifetime_for(info, m)
  <2>2. r.name = (IF lt THEN P ELSE R) /\ (r.lt <=> lt)
    BY <1>1, <1>4, <2>1, RefFields DEF NameRef
  <2>3. P[1] = w /\ R[1] = w /\ (two <=> P # R)
    BY <2>1, NamesApart
  <2>4. ASSUME NEW e \in Definitions(default, tref), e.name = r.name
        PROVE  \/ info.param /\ e = TypeDef(w, P, default, default, tref) /\ e.name = P
               \/ info.result /\ (~info.param \/ two) /\ e = TypeDef(w, R, "Owned", default, tref) /\ e.name = R
    <3>1. e.name = P \/ e.name = R
      BY <2>2, <2>4
    <3>2. e.name[1] = w
      BY ONLY <2>3, <3>1
    <3>3. Defined(w, e, default, tref)
      BY <1>4, <2>4, <3>2, DefinitionNames
    <3>4. /\ TypeDef(w, P, default, default, tref).name = P
          /\ TypeDef(w, R, "Owned", default, tref).name = R
      BY DEF TypeDef
    <3> QED BY <2>1, <3>3, <3>4 DEF Defined
  <2>5. PICK b, o : b = TypeDef(w, P, default, default, tref) /\ o = TypeDef(w, R, "Owned", default, tref)
    OBVIOUS
  <2>6. /\ b.name = P /\ (b.lt <=> lifetime_for(info, default))
        /\ o.name = R /\ (o.lt <=> lifetime_for(info, "Owned"))
    <3>1. PICK own : own = "Owned"
      OBVIOUS
    <3>2. /\ TypeDef(w, P, default, default, tref).name = P
          /\ TypeDef(w, P, default, default, tref).lt <=> lifetime_for(type_info[w], default)
          /\ TypeDef(w, R, own, default, tref).name = R
          /\ TypeDef(w, R, own, default, tref).lt <=> lifetime_for(type_info[w], own)
      BY DEF TypeDef
    <3> QED BY <2>1, <2>5, <3>1, <3>2
  <2>7. info.param => b \in Definitions(default, tref)
    <3>1. info.param => Defined(w, b, default, tref)
      BY <2>1, <2>5 DEF Defined
    <3> QED BY <1>4, <3>1, DefinitionThere
  <2>8. info.result /\ (~info.param \/ two) => o \in Definitions(default, tref)
    <3>1. info.result /\ (~info.param \/ two) => Defined(w, o, default, tref)
      BY <2>1, <2>5 DEF Defined
    <3> QED BY <1>4, <3>1, DefinitionThere
  <2>9. ~lifetime_for(info, "Owned")
    BY DEF lifetime_for
  <2>10. two => lifetime_for(info, default) /\ info.param /\ info.result
    BY TwoNamesLifetime
  <2>11. ~two /\ ~BorrowedOutItems => (lt <=> lifetime_for(info, IF info.param THEN default ELSE "Owned"))
    BY <1>1, <1>2, <1>4, <2>1, OneNameLifetime
  <2>12. info.param \/ info.result
    BY <1>1, <2>1 DEF Uses
  <2> HIDE DEF two, lt
  <2>13. CASE two /\ lt
    BY <2>2, <2>3, <2>4, <2>5, <2>6, <2>7, <2>10, <2>13
  <2>14. CASE two /\ ~lt
    BY <2>2, <2>3, <2>4, <2>5, <2>6, <2>8, <2>9, <2>10, <2>14
  <2>15. CASE ~two /\ info.param
    BY <2>2, <2>3, <2>4, <2>5, <2>6, <2>7, <2>11, <2>15
  <2>16. CASE ~two /\ ~info.param
    BY <2>2, <2>3, <2>4, <2>5, <2>6, <2>8, <2>11, <2>12, <2>16
  <2> QED BY <2>13, <2>14, <2>15, <2>16
<1> QED BY <1>3, <1>4

\* A type is used in the mode in which it is defined.
DefinedIn(n, m, default) ==
    \/ m = default /\ type_info[n].param
    \/ m = "Owned" /\ type_info[n].result

\* What a definition that is not a handle's says is printed in such a mode.
LEMMA DefinitionBody ==
    ASSUME NEW default \in ParamMode, NEW tref, NEW d \in Definitions(default, tref)
    PROVE  \/ ~d.lt /\ d.body = {}
           \/ \E n \in named, m \in Mode :
                 /\ DefinedIn(n, m, default)
                 /\ d.lt <=> lifetime_for(type_info[n], m)
                 /\ d.body = print_typedef(n, m, default, tref)
<1>1. PICK n \in named : IF def[n].kind = "handle" THEN d = HandleDef(n) ELSE Defined(n, d, default, tref)
  BY DefinitionCases
<1>2. CASE def[n].kind = "handle"
  BY <1>1, <1>2, DefinitionFields
<1>3. CASE def[n].kind # "handle"
  <2>1. PICK P, R, own : P = param_name(n, default) /\ R = result_name(n, default) /\ own = "Owned"
    OBVIOUS
  <2>2. default \in Mode /\ own \in Mode
    BY <2>1 DEF Mode
  <2>3. \/ type_info[n].param /\ d = TypeDef(n, P, default, default, tref)
        \/ type_info[n].result /\ d = TypeDef(n, R, own, default, tref)
    BY <1>1, <1>3, <2>1 DEF Defined
  <2>4. CASE type_info[n].param /\ d = TypeDef(n, P, default, default, tref)
    <3>1. d.lt <=> lifetime_for(type_info[n], default)
      BY <2>4 DEF TypeDef
    <3>2. d.body = print_typedef(n, default, default, tref)
      BY <2>4 DEF TypeDef
    <3> QED BY <2>2, <2>4, <3>1, <3>2 DEF DefinedIn
  <2>5. CASE type_info[n].result /\ d = TypeDef(n, R, own, default, tref)
    <3>1. d.lt <=> lifetime_for(type_info[n], own)
      BY <2>5 DEF TypeDef
    <3>2. d.body = print_typedef(n, own, default, tref)
      BY <2>5 DEF TypeDef
    <3> QED BY <2>1, <2>2, <2>5, <3>1, <3>2 DEF DefinedIn
  <2> QED BY <2>3, <2>4, <2>5
<1> QED BY <1>2, <1>3

\* An alias has the lifetimes of the type it stands for, and refers to it.
LEMMA AliasPrints ==
    ASSUME Analyzed, NEW n \in named, def[n].kind = "alias", NEW mode \in Mode, NEW default, NEW tref,
           NEW r \in print_typedef(n, mode, default, tref)
    PROVE  \E a \in Reachable({n}) \cap named :
              /\ a = def[n].of[1]
              /\ r = NameRef(a, mode, default)
              /\ r.lt <=> lifetime_for(type_info[n], mode)
<1>1. module \in Module /\ n \in Node
  BY Graph DEF Analyzed
<1>2. PICK a, i, j : a = def[n].of[1] /\ i = type_info[n] /\ j = type_info[a]
  OBVIOUS
<1>3. a \in named /\ a \in Node /\ a \in Children(n)
  BY <1>1, <1>2, Graph
<1>4. a \in Reachable({n})
  BY <1>1, <1>3, ReachableClosed DEF Closed
<1>5. Kinds(n) = {"alias"} \cup Kinds(a)
  <2>1. Children(n) \cap Node = {a}
    BY <1>1, <1>2, Graph
  <2> QED BY <1>1, <2>1, KindsUnfold
<1>6. Exact(n, i) /\ Exact(a, j)
  BY <1>2, <1>3 DEF Analyzed
<1>7. "alias" \notin Lends(mode)
  BY DEF Lends
<1>8. lifetime_for(i, mode) = lifetime_for(j, mode)
  <2>1. lifetime_for(i, mode) <=> lifetime_for(j, mode)
    BY <1>5, <1>6, <1>7, LifetimeExact
  <2> QED BY <2>1 DEF lifetime_for
<1>9. PICK P, R : P = param_name(a, default) /\ R = result_name(a, default)
  OBVIOUS
<1>10. r = Ref(IF lifetime_for(i, mode) THEN P ELSE R, lifetime_for(i, mode))
  BY <1>2, <1>9 DEF print_typedef
<1>11. r = NameRef(a, mode, default)
  <2>1. NameRef(a, mode, default) = Ref(IF lifetime_for(j, mode) THEN P ELSE R, lifetime_for(j, mode))
    BY <1>2, <1>9 DEF NameRef
  <2> QED BY <1>8, <1>10, <2>1
<1>12. r.lt <=> lifetime_for(i, mode)
  BY <1>10 DEF Ref
<1> QED BY <1>2, <1>3, <1>4, <1>11, <1>12

\* A definition refers to types in modes in which they are used.
LEMMA BodyRefers ==
    ASSUME Analyzed, ~HandleAliased, NEW default \in ParamMode,
           NEW d \in Definitions(default, print_tref(default)), NEW r \in d.body, r \notin Lifetime
    PROVE  Refers(default, r)
<1>1. PICK tref : tref = print_tref(default)
  OBVIOUS
<1>2. PICK n \in named, m \in Mode :
          DefinedIn(n, m, default) /\ d.body = print_typedef(n, m, default, tref)
  BY <1>1, DefinitionBody
<1>3. module \in Module /\ n \in Node
  BY Graph DEF Analyzed
<1>4. \/ m = default /\ n \in Reachable(roots.param)
      \/ m = "Owned" /\ n \in Reachable(roots.result)
  BY <1>2 DEF DefinedIn, Analyzed
<1>5. CASE def[n].kind = "alias"
  <2>1. PICK a \in Reachable({n}) \cap named : a = def[n].of[1] /\ r = NameRef(a, m, default)
    BY <1>2, <1>5, AliasPrints
  <2>2. Uses(a, m, default)
    BY <1>4, <2>1, MarkedBelow DEF Uses
  <2>3. def[a].kind # "handle"
    BY <1>3, <1>5, <2>1, HandlesAreHandles
  <2> QED BY <2>1, <2>2, <2>3 DEF Refers
<1>6. CASE def[n].kind # "alias"
  <2>1. r \in print_value(n, m, tref) \ Lifetime
    BY <1>2, <1>6 DEF print_typedef
  <2>2. ASSUME NEW c \in Children(n), NEW k \in Mode, NEW q \in tref[c][k] \ Lifetime
        PROVE  c \in Node /\ From(c, k, default, q)
    <3>1. c \in TRef
      BY <1>3, ChildrenAreTRefs
    <3>2. c \notin Builtin
      BY <1>1, <1>3, <2>2, <3>1, PrintTrefUnfolds
    <3>3. c \in Node
      BY <3>1, <3>2 DEF TRef
    <3> QED BY <1>1, <1>3, <2>2, <3>3, TrefFrom
  <2>3. From(n, m, default, r)
    BY <1>3, <2>1, <2>2, ValueFrom
  <2> QED BY <1>4, <2>3, FromRefers
<1> QED BY <1>5, <1>6

\* So does a signature.
LEMMA SignatureRefers ==
    ASSUME Analyzed, ~HandleAliased, NEW default \in ParamMode,
           NEW r \in Signatures(default, print_tref(default)), r \notin Lifetime
    PROVE  Refers(default, r)
<1>1. PICK p, s : p = roots.param /\ s = roots.result
  OBVIOUS
<1>2. module \in Module /\ p \subseteq Node /\ s \subseteq Node
  BY <1>1 DEF Analyzed, BufferFree
<1>3. p \subseteq Reachable(p) /\ s \subseteq Reachable(s)
  BY <1>2, ReachableClosed
<1>4. PICK own : own = "Owned"
  OBVIOUS
<1>5. default \in Mode /\ own \in Mode
  BY <1>4 DEF Mode
<1>6. \/ \E t \in p : r \in print_tref(default)[t][default]
      \/ \E t \in s : r \in print_tref(default)[t][own]
  BY <1>1, <1>4 DEF Signatures
<1>7. CASE \E t \in p : r \in print_tref(default)[t][default]
  <2>1. PICK t \in p : r \in print_tref(default)[t][default]
    BY <1>7
  <2>2. From(t, default, default, r)
    BY <1>2, <1>5, <2>1, TrefFrom
  <2> QED BY <1>1, <1>3, <1>5, <2>1, <2>2, FromRefers
<1>8. CASE \E t \in s : r \in print_tref(default)[t][own]
  <2>1. PICK t \in s : r \in print_tref(default)[t][own]
    BY <1>8
  <2>2. From(t, own, default, r)
    BY <1>2, <1>5, <2>1, TrefFrom
  <2> QED BY <1>1, <1>3, <1>4, <1>5, <2>1, <2>2, FromRefers
<1> QED BY <1>6, <1>7, <1>8

\* A definition that uses a lifetime declares it.
LEMMA BodyLends ==
    ASSUME Analyzed, NEW default \in ParamMode,
           NEW d \in Definitions(default, print_tref(default)), NEW r \in d.body, r.lt
    PROVE  d.lt
<1>1. PICK tref : tref = print_tref(default)
  OBVIOUS
<1>2. PICK n \in named, m \in Mode :
          /\ DefinedIn(n, m, default)
          /\ d.lt <=> lifetime_for(type_info[n], m)
          /\ d.body = print_typedef(n, m, default, tref)
  BY <1>1, DefinitionBody
<1>3. module \in Module /\ n \in Node /\ \A w \in named : Exact(w, type_info[w])
  BY Graph DEF Analyzed
<1>4. CASE def[n].kind = "alias"
  <2>1. r.lt <=> lifetime_for(type_info[n], m)
    <3>1. r \in print_typedef(n, m, default, tref)
      BY <1>2
    <3> QED BY <1>4, <3>1, AliasPrints
  <2> QED BY <1>2, <2>1
<1>5. CASE def[n].kind # "alias"
  <2>1. r \in print_value(n, m, tref)
    BY <1>2, <1>5 DEF print_typedef
  <2>2. ASSUME NEW c \in Children(n), NEW k \in Mode, NEW q \in tref[c][k], q.lt
        PROVE  c \in Node /\ Kinds(c) \cap Lends(k) # {}
    <3>1. c \in TRef
      BY <1>3, ChildrenAreTRefs
    <3>2. c \notin Builtin
      BY <1>1, <1>3, <2>2, <3>1, PrintTrefUnfolds
    <3>3. c \in Node
      BY <3>1, <3>2 DEF TRef
    <3> QED BY <1>1, <1>3, <2>2, <3>3, TrefLends
  <2>3. Kinds(n) \cap Lends(m) # {}
    BY <1>3, <2>1, <2>2, ValueLends
  <2>4. m # "Owned"
    <3> SUFFICES ASSUME m = "Owned" PROVE FALSE
      OBVIOUS
    <3>1. type_info[n].result
      BY <1>2 DEF DefinedIn, ParamMode
    <3>2. "in_buffer" \notin Kinds(n) /\ "out_buffer" \notin Kinds(n)
      BY <3>1, ResultsBufferFree
    <3> QED BY <2>3, <3>2 DEF Lends
  <2>5. PICK i : i = type_info[n]
    OBVIOUS
  <2>6. lifetime_for(i, m)
    BY <1>3, <2>3, <2>4, <2>5, LifetimeExact
  <2> QED BY <1>2, <2>5, <2>6
<1> QED BY <1>4, <1>5

\* Every reference in the module, from signatures or definitions.
LEMMA PrintedRefers ==
    ASSUME Analyzed, ~HandleAliased, NEW default \in ParamMode,
           NEW r \in Printed(default).refs, r \notin Lifetime
    PROVE  Refers(default, r)
<1>1. \/ r \in Signatures(default, print_tref(default))
      \/ \E d \in Definitions(default, print_tref(default)) : r \in d.body
  BY DEF Printed
<1> QED BY <1>1, SignatureRefers, BodyRefers

\* No definition has the name that stands for the lifetime itself.
LEMMA NamesNotEmpty ==
    ASSUME NEW default \in ParamMode, NEW tref, NEW d \in Definitions(default, tref)
    PROVE  d.name # <<>>
<1>1. PICK n \in named : IF def[n].kind = "handle" THEN d = HandleDef(n) ELSE Defined(n, d, default, tref)
  BY DefinitionCases
<1>2. PICK H, P, R : H = <<n, "">> /\ P = param_name(n, default) /\ R = result_name(n, default)
  OBVIOUS
<1>3. H # <<>> /\ P # <<>> /\ R # <<>>
  <2>1. H # <<>>
    BY ONLY <1>2, HandleNames
  <2> QED BY <1>2, <2>1, NamesApart
<1>4. d.name = H \/ d.name = P \/ d.name = R
  <2>1. /\ TypeDef(n, P, default, default, tref).name = P
        /\ TypeDef(n, R, "Owned", default, tref).name = R
    BY DEF TypeDef
  <2>2. HandleDef(n).name = H
    BY <1>2 DEF HandleDef
  <2> QED BY <1>1, <1>2, <2>1, <2>2 DEF Defined
<1> QED BY ONLY <1>3, <1>4

\* Definitions and references have a lifetime or have none.
LEMMA LifetimesBoolean ==
    ASSUME NEW default \in ParamMode, NEW tref
    PROVE  /\ \A d \in Definitions(default, tref) : d.lt \in BOOLEAN
           /\ \A r : Refers(default, r) => r.lt \in BOOLEAN
<1>1. ASSUME NEW n, NEW name, NEW mode
      PROVE  TypeDef(n, name, mode, default, tref).lt \in BOOLEAN /\ HandleDef(n).lt \in BOOLEAN
  BY DEF TypeDef, HandleDef, lifetime_for
<1>2. ASSUME NEW d \in Definitions(default, tref) PROVE d.lt \in BOOLEAN
  <2>1. PICK n \in named : IF def[n].kind = "handle" THEN d = HandleDef(n) ELSE Defined(n, d, default, tref)
    BY DefinitionCases
  <2>2. PICK P, R : P = param_name(n, default) /\ R = result_name(n, default)
    OBVIOUS
  <2>3. \/ d = HandleDef(n)
        \/ d = TypeDef(n, P, default, default, tref)
        \/ d = TypeDef(n, R, "Owned", default, tref)
    BY <2>1, <2>2 DEF Defined
  <2> QED BY <1>1, <2>3
<1>3. ASSUME NEW r, Refers(default, r) PROVE r.lt \in BOOLEAN
  <2>1. PICK w \in named, m \in Mode :
            r = IF def[w].kind = "handle" THEN Ref(<<w, "">>, FALSE) ELSE NameRef(w, m, default)
    BY <1>3 DEF Refers
  <2>2. CASE def[w].kind = "handle"
    BY <2>1, <2>2 DEF Ref
  <2>3. CASE def[w].kind # "handle"
    BY <2>1, <2>3 DEF NameRef, Ref, lifetime_for
  <2> QED BY <2>2, <2>3
<1> QED BY <1>2, <1>3

\* Whatever the module's types and functions, every name that is printed is
\* defined exactly once, in each of the modes the generators use.
THEOREM NamesAlwaysDefined == Spec => []NamesDefined
<1>1. IInv => NamesDefined
  <2> SUFFICES ASSUME IInv, phase = "funcs", ~HandleAliased, NEW default \in ParamMode,
                      NEW r \in Printed(default).refs \ Lifetime
               PROVE  Cardinality({d \in Printed(default).defs : d.name = r.name}) = 1
    BY DEF NamesDefined
  <2>1. Refers(default, r)
    BY FuncsAnalyzed, PrintedRefers
  <2>2. PICK tref : tref = print_tref(default)
    OBVIOUS
  <2>3. PICK d \in Definitions(default, tref) :
            /\ d.name = r.name
            /\ \A e \in Definitions(default, tref) : e.name = r.name => e = d
    BY <2>1, FuncsAnalyzed, OneDefinition
  <2>4. Printed(default).defs = Definitions(default, tref)
    BY <2>2 DEF Printed
  <2>5. {e \in Printed(default).defs : e.name = r.name} = {d}
    BY <2>3, <2>4
  <2> QED BY <2>5, FS_Singleton
<1> QED BY <1>1, Invariance, PTL

\* And every reference has the generics of the definition it refers to, which
\* has those that it uses.
THEOREM GenericsAlwaysMatch == Spec => []GenericsMatch
<1>1. IInv => GenericsMatch
  <2> SUFFICES ASSUME IInv, phase = "funcs", ~HandleAliased, ~BorrowedOutItems, NEW default \in ParamMode
               PROVE  /\ \A d \in Printed(default).defs : (\E r \in d.body : r.lt) => d.lt
                      /\ \A r \in Printed(default).refs, d \in Printed(default).defs :
                            r.name = d.name => r.lt = d.lt
    BY DEF GenericsMatch
  <2>1. Analyzed
    BY FuncsAnalyzed
  <2>2. PICK tref : tref = print_tref(default)
    OBVIOUS
  <2>3. Printed(default).defs = Definitions(default, tref)
    BY <2>2 DEF Printed
  <2>4. ASSUME NEW d \in Printed(default).defs, NEW r \in d.body, r.lt PROVE d.lt
    BY <2>1, <2>2, <2>3, <2>4, BodyLends
  <2>5. ASSUME NEW r \in Printed(default).refs, NEW d \in Printed(default).defs, r.name = d.name
        PROVE  r.lt = d.lt
    <3>1. r \notin Lifetime
      <4>1. d.name # <<>>
        BY <2>3, NamesNotEmpty
      <4> QED BY <2>5, <4>1 DEF Lifetime, Ref
    <3>2. Refers(default, r)
      BY <2>1, <3>1, PrintedRefers
    <3>3. d.lt <=> r.lt
      BY <2>1, <2>3, <2>5, <3>2, OneDefinition
    <3>4. d.lt \in BOOLEAN /\ r.lt \in BOOLEAN
      BY <2>3, <3>2, LifetimesBoolean
    <3> QED BY <3>3, <3>4
  <2> QED BY <2>4, <2>5
<1> QED BY <1>1, Invariance, PTL

=============================================================================
