-------------------------- MODULE GeneratorsProofs --------------------------
(***************************************************************************)
(* Proofs about Generators, for any number of instructions, blocks,        *)
(* functions, modules and handle types.                                    *)
(***************************************************************************)
EXTENDS Generators, Integers, Sequences, FiniteSetTheorems, SequenceTheorems, TLAPS

(***************************************************************************)
(* Sequences of declarations.                                              *)
(***************************************************************************)

\* What some declarations declare, and whether each has what it uses among
\* the names given and the declarations before it.
LetsOf(t) == {t[i].let : i \in DOMAIN t}
Declared(t, given) ==
    \A i \in DOMAIN t : \A u \in t[i].uses : u \in given \/ \E j \in 1..(i - 1) : t[j].let = u

\* A set as a sequence.
LEMMA AnyOrder ==
    ASSUME NEW S, IsFiniteSet(S), NEW D, S \subseteq D
    PROVE  /\ Wasmtime!SetToSeq(S) \in Seq(D)
           /\ {Wasmtime!SetToSeq(S)[i] : i \in DOMAIN Wasmtime!SetToSeq(S)} = S
<1>1. PICK n \in Nat : ExistsBijection(1..n, S)
  BY FS_NatBijection
<1>2. Wasmtime!Cardinality(S) = n
  <2>1. Cardinality(S) = n
    BY <1>1, FS_CountingElements
  <2> QED BY <2>1 DEF Wasmtime!Cardinality, Cardinality
<1>3. PICK f \in [1..n -> S] : Wasmtime!IsInjective(f) /\ \A s \in S : \E i \in 1..n : f[i] = s
  <2>1. PICK f \in Bijection(1..n, S) : TRUE
    BY <1>1 DEF ExistsBijection
  <2>2. f \in [1..n -> S] /\ \A s \in S : \E i \in 1..n : f[i] = s
    BY <2>1 DEF Bijection, Surjection
  <2>3. \A i, j \in 1..n : f[i] = f[j] => i = j
    BY <2>1 DEF Bijection, Injection, IsInjective
  <2> QED BY <2>2, <2>3 DEF Wasmtime!IsInjective
<1> DEFINE q == Wasmtime!SetToSeq(S)
<1>4. q \in [1..n -> S] /\ Wasmtime!IsInjective(q)
  BY <1>2, <1>3 DEF Wasmtime!SetToSeq
<1> HIDE DEF q
<1>5. \A i, j \in 1..n : q[i] = q[j] => i = j
  BY <1>4 DEF Wasmtime!IsInjective
<1>6. \A s \in S : \E i \in 1..n : q[i] = s
  <2>1. q \in Injection(1..n, S)
    BY <1>4, <1>5 DEF Injection, IsInjective
  <2>2. IsFiniteSet(1..n) /\ Cardinality(1..n) = n /\ Cardinality(S) = n
    BY <1>1, FS_Interval, FS_CountingElements
  <2>3. q \in Surjection(1..n, S)
    BY <1>1, <2>1, <2>2, FS_Injection, FS_CountingElements
  <2> QED BY <2>3 DEF Surjection
<1>7. q \in Seq(D)
  <2>1. q \in [1..n -> D]
    BY <1>4
  <2> QED BY <1>1, <2>1
<1>8. DOMAIN q = 1..n
  BY <1>4
<1> QED BY <1>4, <1>6, <1>7, <1>8 DEF q


\* One text after another: the first declares for the second.
LEMMA ConcatDeclared ==
    ASSUME NEW D, NEW s \in Seq(D), NEW t \in Seq(D), NEW given,
           Declared(s, given), Declared(t, given \cup LetsOf(s))
    PROVE  /\ s \o t \in Seq(D)
           /\ Declared(s \o t, given)
           /\ LetsOf(s \o t) = LetsOf(s) \cup LetsOf(t)
<1> DEFINE c == s \o t
<1>1. /\ c \in Seq(D) /\ Len(c) = Len(s) + Len(t)
      /\ \A i \in 1..Len(s) : c[i] = s[i]
      /\ \A i \in 1..Len(t) : c[Len(s) + i] = t[i]
  BY ConcatProperties
<1>2. /\ Len(s) \in Nat /\ Len(t) \in Nat /\ DOMAIN s = 1..Len(s) /\ DOMAIN t = 1..Len(t)
      /\ DOMAIN c = 1..Len(c)
  BY <1>1
<1> HIDE DEF c
<1>3. Declared(c, given)
  <2> SUFFICES ASSUME NEW i \in DOMAIN c, NEW u \in c[i].uses, u \notin given
               PROVE  \E j \in 1..(i - 1) : c[j].let = u
    BY DEF Declared
  <2>1. CASE i <= Len(s)
    <3>1. i \in 1..Len(s) /\ c[i] = s[i]
      BY <1>1, <1>2, <2>1
    <3>2. PICK j \in 1..(i - 1) : s[j].let = u
      BY <1>2, <3>1 DEF Declared
    <3>3. j \in 1..Len(s)
      BY <1>2, <3>1
    <3> QED BY <1>1, <3>2, <3>3
  <2>2. CASE i > Len(s)
    <3>1. PICK k \in 1..Len(t) : i = Len(s) + k
      <4>1. i - Len(s) \in 1..Len(t)
        BY <1>1, <1>2, <2>2
      <4> QED BY <4>1, <1>1, <1>2
    <3>2. c[i] = t[k]
      BY <1>1, <3>1
    <3>3. CASE u \in LetsOf(s)
      <4>1. PICK j \in 1..Len(s) : s[j].let = u
        BY <1>2, <3>3 DEF LetsOf
      <4>2. j \in 1..(i - 1)
        BY <1>2, <2>2
      <4> QED BY <1>1, <4>1, <4>2
    <3>4. CASE u \notin LetsOf(s)
      <4>1. PICK j \in 1..(k - 1) : t[j].let = u
        BY <1>2, <3>2, <3>4 DEF Declared
      <4>2. j \in 1..Len(t) /\ Len(s) + j \in 1..(i - 1)
        BY <1>2, <3>1
      <4> QED BY <1>1, <4>1, <4>2
    <3> QED BY <3>3, <3>4
  <2> QED BY <1>1, <1>2, <2>1, <2>2
<1>4. LetsOf(c) = LetsOf(s) \cup LetsOf(t)
  <2>1. \A i \in DOMAIN c : c[i].let \in LetsOf(s) \cup LetsOf(t)
    <3> SUFFICES ASSUME NEW i \in 1..Len(c) PROVE c[i].let \in LetsOf(s) \cup LetsOf(t)
      BY <1>2
    <3>1. CASE i <= Len(s)
      <4>1. i \in 1..Len(s) /\ c[i] = s[i]
        BY <1>1, <1>2, <3>1
      <4>2. s[i].let \in LetsOf(s)
        BY <1>2, <4>1 DEF LetsOf
      <4> QED BY <4>1, <4>2
    <3>2. CASE i > Len(s)
      <4>1. i - Len(s) \in 1..Len(t) /\ i = Len(s) + (i - Len(s))
        BY <1>1, <1>2, <3>2
      <4>2. c[i] = t[i - Len(s)]
        BY <1>1, <4>1
      <4>3. t[i - Len(s)].let \in LetsOf(t)
        BY <1>2, <4>1 DEF LetsOf
      <4> QED BY <4>2, <4>3
    <3> QED BY <1>1, <1>2, <3>1, <3>2
  <2>2. \A i \in 1..Len(s) : i \in DOMAIN c /\ c[i] = s[i]
    BY <1>1, <1>2
  <2>3. \A i \in 1..Len(t) : Len(s) + i \in DOMAIN c /\ c[Len(s) + i] = t[i]
    BY <1>1, <1>2
  <2>4. LetsOf(s) \subseteq LetsOf(c) /\ LetsOf(t) \subseteq LetsOf(c)
    <3>1. ASSUME NEW i \in 1..Len(s) PROVE s[i].let \in LetsOf(c)
      BY <2>2 DEF LetsOf
    <3>2. ASSUME NEW i \in 1..Len(t) PROVE t[i].let \in LetsOf(c)
      BY <2>3 DEF LetsOf
    <3> QED BY <1>2, <3>1, <3>2 DEF LetsOf
  <2>5. LetsOf(c) \subseteq LetsOf(s) \cup LetsOf(t)
    BY <2>1 DEF LetsOf
  <2> QED BY <2>4, <2>5
<1> QED BY <1>1, <1>3, <1>4 DEF c

\* Declarations that need only what is given, and one or none of them.
LEMMA PlainDeclared ==
    ASSUME NEW D, NEW s \in Seq(D), NEW given, \A i \in DOMAIN s : s[i].uses \subseteq given
    PROVE  Declared(s, given)
BY DEF Declared

LEMMA SomeDeclared ==
    ASSUME NEW D, NEW cond \in BOOLEAN, NEW t \in D, NEW given, cond => t.uses \subseteq given
    PROVE  LET s == Wasmtime!Some(cond, t) IN
           /\ s \in Seq(D) /\ Declared(s, given)
           /\ LetsOf(s) = IF cond THEN {t.let} ELSE {}
<1>1. CASE cond
  <2> DEFINE s == Wasmtime!Some(cond, t)
  <2>1. s = <<t>>
    BY <1>1 DEF Wasmtime!Some
  <2>2. s \in Seq(D) /\ DOMAIN s = {1} /\ s[1] = t
    BY <2>1
  <2> HIDE DEF s
  <2>3. LetsOf(s) = {t.let}
    BY <2>2 DEF LetsOf
  <2>4. Declared(s, given)
    BY <1>1, <2>2 DEF Declared
  <2> QED BY <1>1, <2>2, <2>3, <2>4 DEF s
<1>2. CASE ~cond
  <2> DEFINE s == Wasmtime!Some(cond, t)
  <2>1. s = <<>>
    BY <1>2 DEF Wasmtime!Some
  <2>2. s \in Seq(D) /\ DOMAIN s = {}
    BY <2>1
  <2> HIDE DEF s
  <2>3. LetsOf(s) = {} /\ Declared(s, given)
    BY <2>2 DEF LetsOf, Declared
  <2> QED BY <1>2, <2>2, <2>3 DEF s
<1> QED BY <1>1, <1>2

\* More may be given than is needed.
LEMMA DeclaredMore ==
    ASSUME NEW t, NEW given, Declared(t, given), NEW more, given \subseteq more
    PROVE  Declared(t, more)
BY DEF Declared


(***************************************************************************)
(* The inductive invariant of the host's generator.                        *)
(***************************************************************************)

Functions == {"witx_malloc", "witx_free"}
ImportNotes == Wasmtime!Intrinsics
                 \cup {"memory", "guest_memory", "get_memory", "borrow_checker", "get_func"}
ExportNotes == Wasmtime!Intrinsics
                 \cup {"memory", "buffer_transaction", "get_memory", "buffer_glue"}

\* The names a text can use.
Name == ImportNotes \cup ExportNotes \cup {"self.buffer_glue"}
        \cup {Wasmtime!Func(f) : f \in Functions}
        \cup {Wasmtime!Field(f) : f \in Functions \cup {"memory"}}
        \cup {Wasmtime!Table(h) : h \in HandleType} \cup {Wasmtime!Access(h) : h \in HandleType}
        \cup {Wasmtime!Close(h) : h \in HandleType}
        \cup {Wasmtime!Closure(n) : n \in Nat}
Decl == [let : Name \cup {""}, uses : SUBSET Name]

\* What is noted, and on which side.
NotesFine ==
    /\ in_import \in BOOLEAN /\ cleanup \in BOOLEAN
    /\ needs \subseteq (IF in_import THEN ImportNotes ELSE ExportNotes)
    /\ needs_functions \subseteq Functions
    /\ handles_for_func \subseteq HandleType /\ IsFiniteSet(handles_for_func)
    /\ in_import => ~cleanup /\ fields = {}
    /\ ~in_import => handles_for_func = {}
    /\ cleanup => "witx_free" \in needs_functions
    /\ "memory" \in fields => "get_memory" \in needs

TextsTyped ==
    /\ src \in SUBSET Name
    /\ block_storage \in Seq(SUBSET Name) /\ blocks \in Seq(SUBSET Name)
    /\ closures \in Seq(Decl)

\* Between functions nothing is open and nothing is noted.
PhasesFine ==
    /\ phase \in {"module", "between", "func", "returned"}
    /\ phase # "func" => block_storage = <<>> /\ blocks = <<>> /\ ~cleanup
    /\ phase \in {"between", "module"} =>
          /\ src = {} /\ closures = <<>> /\ handles_for_func = {}
          /\ {"memory", "guest_memory", "buffer_transaction"} \cap needs = {}
          /\ ~in_import => needs_functions = {}

\* The names that the end of the function will have declared or found
\* declared, with n closures before them.
Known(n) ==
    (needs \cap (Wasmtime!Intrinsics \cup {"memory", "guest_memory", "buffer_transaction"}))
    \cup {Wasmtime!Func(f) : f \in needs_functions}
    \cup {closures[i].let : i \in 1..n}
    \cup IF in_import
           THEN {Wasmtime!Access(h) : h \in handles_for_func}
                \cup {Wasmtime!Table(h) : h \in all_needed_handles}
           ELSE {Wasmtime!Field(f) : f \in needs_functions} \cup {Wasmtime!Close(h) : h \in Dtors}

TextsKnown ==
    /\ src \subseteq Known(Len(closures))
    /\ \A i \in DOMAIN block_storage : block_storage[i] \subseteq Known(Len(closures))
    /\ \A i \in DOMAIN blocks : blocks[i] \subseteq Known(Len(closures))

\* A closure uses what is declared in front of it.
ClosuresKnown ==
    \A i \in DOMAIN closures :
        /\ closures[i].uses \subseteq Known(i - 1)
        /\ ~in_import => "buffer_transaction" \notin closures[i].uses

FuncsDeclared == \A f \in funcs : Declared(f, Wasmtime!Provided)

HostInv ==
    /\ NotesFine
    /\ TextsTyped
    /\ PhasesFine
    /\ TextsKnown
    /\ ClosuresKnown
    /\ FuncsDeclared
    /\ Wasmtime!NamesDeclared


(***************************************************************************)
(* The instructions of the host's generator.                               *)
(***************************************************************************)

\* Notes are only added while a function is generated.
Noting ==
    /\ needs \subseteq needs' /\ needs_functions \subseteq needs_functions'
    /\ handles_for_func \subseteq handles_for_func'
    /\ all_needed_handles \subseteq all_needed_handles'
    /\ UNCHANGED <<in_import, fields>>

LEMMA KnownGrows ==
    ASSUME Noting, NEW n \in Nat, \A i \in 1..n : closures'[i].let = closures[i].let
    PROVE  Known(n) \subseteq Known(n)'
<1> SUFFICES ASSUME NEW u \in Known(n) PROVE u \in Known(n)'
  OBVIOUS
<1>1. CASE u \in needs
             \cap (Wasmtime!Intrinsics \cup {"memory", "guest_memory", "buffer_transaction"})
  BY <1>1, Zenon DEF Known, Noting, Wasmtime!Intrinsics
<1>2. CASE u \in {Wasmtime!Func(f) : f \in needs_functions}
  BY <1>2, Zenon DEF Known, Noting, Wasmtime!Func
<1>3. CASE u \in {closures[i].let : i \in 1..n}
  BY <1>3 DEF Known
<1>4. CASE in_import /\ u \in {Wasmtime!Access(h) : h \in handles_for_func}
                             \cup {Wasmtime!Table(h) : h \in all_needed_handles}
  BY <1>4, Zenon DEF Known, Noting, Wasmtime!Access, Wasmtime!Table
<1>5. CASE ~in_import /\ u \in {Wasmtime!Field(f) : f \in needs_functions}
                              \cup {Wasmtime!Close(h) : h \in Dtors}
  BY <1>5, Zenon DEF Known, Noting, Wasmtime!Field, Wasmtime!Close
<1> QED BY <1>1, <1>2, <1>3, <1>4, <1>5, Zenon DEF Known

\* What has been noted for the end of the module stays noted.
ModuleNotes == Wasmtime!Intrinsics \cup {"get_memory", "borrow_checker", "get_func", "buffer_glue"}
ModuleNoting ==
    /\ needs \cap ModuleNotes \subseteq needs'
    /\ all_needed_handles \subseteq all_needed_handles' /\ fields \subseteq fields'
    /\ UNCHANGED in_import

LEMMA ProvidedGrows ==
    ASSUME ModuleNoting PROVE Wasmtime!Provided \subseteq Wasmtime!Provided'
<1> SUFFICES ASSUME NEW u \in Wasmtime!Provided PROVE u \in Wasmtime!Provided'
  OBVIOUS
<1>1. CASE u \in needs \cap (Wasmtime!Intrinsics \cup {"get_memory"})
  <2>1. u \in needs \cap ModuleNotes
    BY <1>1, Zenon DEF ModuleNotes, Wasmtime!Intrinsics
  <2> QED BY <1>1, <2>1, Zenon DEF Wasmtime!Provided, ModuleNoting, Wasmtime!Intrinsics
<1>2. CASE in_import /\ u \in (needs \cap {"borrow_checker", "get_func"})
                             \cup {Wasmtime!Table(h) : h \in all_needed_handles}
  <2>1. CASE u \in needs \cap {"borrow_checker", "get_func"}
    <3>1. u \in needs \cap ModuleNotes
      BY <2>1, Zenon DEF ModuleNotes, Wasmtime!Intrinsics
    <3> QED BY <1>2, <2>1, <3>1, Zenon DEF Wasmtime!Provided, ModuleNoting
  <2>2. CASE u \in {Wasmtime!Table(h) : h \in all_needed_handles}
    BY <1>2, <2>2, Zenon DEF Wasmtime!Provided, ModuleNoting, Wasmtime!Table
  <2> QED BY <1>2, <2>1, <2>2
<1>3. CASE ~in_import /\ u \in {Wasmtime!Field(f) : f \in fields} \cup {Wasmtime!Close(h) : h \in Dtors}
  BY <1>3, Zenon DEF Wasmtime!Provided, ModuleNoting, Wasmtime!Field, Wasmtime!Close
<1>4. CASE ~in_import /\ "buffer_glue" \in needs /\ u = "self.buffer_glue"
  <2>1. "buffer_glue" \in needs \cap ModuleNotes
    BY <1>4, Zenon DEF ModuleNotes
  <2> QED BY <1>4, <2>1, Zenon DEF Wasmtime!Provided, ModuleNoting
<1> QED BY <1>1, <1>2, <1>3, <1>4, Zenon DEF Wasmtime!Provided

\* The functions and the file that there are stay as they were.
LEMMA MadeKept ==
    ASSUME HostInv, Noting, UNCHANGED <<funcs, file>>
    PROVE  FuncsDeclared' /\ Wasmtime!NamesDeclared'
<1>1. Wasmtime!NamesDeclared'
  BY DEF HostInv, Wasmtime!NamesDeclared
<1>2. FuncsDeclared'
  <2> SUFFICES ASSUME NEW f \in funcs PROVE Declared(f, Wasmtime!Provided')
    BY DEF FuncsDeclared
  <2>1. Declared(f, Wasmtime!Provided)
    BY DEF HostInv, FuncsDeclared
  <2>2. ModuleNoting
    BY DEF Noting, ModuleNoting
  <2> QED BY <2>1, <2>2, ProvidedGrows, DeclaredMore
<1> QED BY <1>1, <1>2


\* A step in the middle of a function that adds texts made of known names, and
\* closures or none.
LEMMA Generating ==
    ASSUME HostInv, phase' = "func", Noting, NotesFine', TextsTyped', TextsKnown',
           UNCHANGED <<funcs, file>>, NEW n \in Nat, n = Len(closures),
           \/ UNCHANGED closures
           \/ \E c \in Decl : /\ closures' = Append(closures, c)
                              /\ c.uses \subseteq Known(n)'
                              /\ ~in_import => "buffer_transaction" \notin c.uses
    PROVE  HostInv'
<1>1. PhasesFine'
  BY DEF PhasesFine
<1>2. closures \in Seq(Decl) /\ DOMAIN closures = 1..n
  BY DEF HostInv, TextsTyped
<1>3. /\ \A i \in 1..n : closures'[i] = closures[i]
      /\ \A i \in DOMAIN closures' : \/ i \in 1..n
                                     \/ /\ i = n + 1
                                        /\ closures'[i].uses \subseteq Known(n)'
                                        /\ ~in_import => "buffer_transaction" \notin closures'[i].uses
  <2>1. CASE UNCHANGED closures
    BY <1>2, <2>1
  <2>2. CASE \E c \in Decl : /\ closures' = Append(closures, c)
                             /\ c.uses \subseteq Known(n)'
                             /\ ~in_import => "buffer_transaction" \notin c.uses
    <3>1. PICK c \in Decl : /\ closures' = Append(closures, c)
                            /\ c.uses \subseteq Known(n)'
                            /\ ~in_import => "buffer_transaction" \notin c.uses
      BY <2>2
    <3>2. /\ DOMAIN closures' = 1..(n + 1) /\ closures'[n + 1] = c
          /\ \A i \in 1..n : closures'[i] = closures[i]
      BY <1>2, <3>1
    <3>3. \A i \in 1..(n + 1) : i \in 1..n \/ i = n + 1
      OBVIOUS
    <3> QED BY <3>1, <3>2, <3>3
  <2> QED BY <2>1, <2>2
<1>4. ClosuresKnown'
  <2> SUFFICES ASSUME NEW i \in DOMAIN closures'
               PROVE  /\ closures'[i].uses \subseteq Known(i - 1)'
                      /\ ~in_import' => "buffer_transaction" \notin closures'[i].uses
    BY DEF ClosuresKnown
  <2>1. in_import' = in_import
    BY DEF Noting
  <2>2. CASE i \in 1..n
    <3>1. /\ closures[i].uses \subseteq Known(i - 1)
          /\ ~in_import => "buffer_transaction" \notin closures[i].uses
      BY <1>2, <2>2 DEF HostInv, ClosuresKnown
    <3>2. i - 1 \in Nat /\ \A j \in 1..(i - 1) : closures'[j].let = closures[j].let
      BY <1>3, <2>2
    <3>3. Known(i - 1) \subseteq Known(i - 1)'
      BY <3>2, KnownGrows
    <3> QED BY <1>3, <2>1, <2>2, <3>1, <3>3
  <2>3. CASE i = n + 1
    <3>1. i - 1 = n /\ ~(i \in 1..n)
      BY <2>3
    <3>2. closures'[i].uses \subseteq Known(n)' /\ (~in_import => "buffer_transaction" \notin closures'[i].uses)
      BY <1>3, <3>1
    <3> QED BY <2>1, <3>1, <3>2, Zenon
  <2> QED BY <1>3, <2>2, <2>3
<1> QED BY <1>1, <1>4, MadeKept DEF HostInv

\* The last blocks of the ones that wait, and the ones before.
LEMMA BlocksTaken ==
    ASSUME TextsTyped, NEW n \in Nat, n <= Len(blocks)
    PROVE  /\ SubSeq(blocks, 1, Len(blocks) - n) \in Seq(SUBSET Name)
           /\ \A i \in DOMAIN SubSeq(blocks, 1, Len(blocks) - n) :
                 i \in DOMAIN blocks /\ SubSeq(blocks, 1, Len(blocks) - n)[i] = blocks[i]
           /\ \A i \in (Len(blocks) - n + 1)..Len(blocks) : i \in DOMAIN blocks
<1>1. blocks \in Seq(SUBSET Name) /\ Len(blocks) \in Nat /\ DOMAIN blocks = 1..Len(blocks)
  BY DEF TextsTyped
<1>2. PICK m : m = Len(blocks) - n
  OBVIOUS
<1>3. m \in 0..Len(blocks)
  BY <1>1, <1>2
<1>4. /\ SubSeq(blocks, 1, m) \in Seq(SUBSET Name) /\ DOMAIN SubSeq(blocks, 1, m) = 1..m
      /\ \A i \in 1..m : SubSeq(blocks, 1, m)[i] = blocks[i]
  BY <1>1, <1>3, SubSeqProperties
<1> QED BY <1>1, <1>2, <1>3, <1>4

\* An instruction whose names are known when it has noted what it needs.
LEMMA Emitting ==
    ASSUME HostInv, NEW names \in SUBSET Name, NEW n \in Nat, Wasmtime!Emit(names, n),
           UNCHANGED closures, Noting, NotesFine', names \subseteq Known(Len(closures))'
    PROVE  HostInv'
<1>1. /\ phase = "func" /\ phase' = phase /\ n <= Len(blocks)
      /\ src' = src \cup names \cup UNION {blocks[i] : i \in (Len(blocks) - n + 1)..Len(blocks)}
      /\ blocks' = SubSeq(blocks, 1, Len(blocks) - n)
      /\ UNCHANGED <<block_storage, funcs, file>>
  <2>1. TextsTyped /\ Len(blocks) \in Nat
    BY DEF HostInv, TextsTyped
  <2> QED BY <2>1 DEF Wasmtime!Emit, Wasmtime!made
<1>2. TextsTyped /\ TextsKnown /\ closures \in Seq(Decl) /\ Len(closures) \in Nat
  BY DEF HostInv, TextsTyped
<1>3. /\ blocks' \in Seq(SUBSET Name)
      /\ \A i \in DOMAIN blocks' : i \in DOMAIN blocks /\ blocks'[i] = blocks[i]
      /\ \A i \in (Len(blocks) - n + 1)..Len(blocks) : i \in DOMAIN blocks
  BY <1>1, <1>2, BlocksTaken
<1>4. Known(Len(closures)) \subseteq Known(Len(closures))'
  BY <1>2, KnownGrows
<1>5. TextsTyped'
  <2>1. src \in SUBSET Name /\ \A i \in DOMAIN blocks : blocks[i] \in SUBSET Name
    BY <1>2 DEF TextsTyped
  <2>2. src' \in SUBSET Name
    BY <1>1, <1>3, <2>1
  <2> QED BY <1>1, <1>2, <1>3, <2>2 DEF TextsTyped
<1>6. TextsKnown'
  <2>0. PICK m \in Nat : m = Len(closures)
    BY <1>2
  <2>1. PICK K : K = Known(m)'
    OBVIOUS
  <2>2. K = Known(Len(closures))'
    BY <2>0, <2>1
  <2>3. \A i \in DOMAIN blocks : blocks[i] \subseteq K
    BY <1>2, <1>4, <2>2 DEF TextsKnown
  <2>4. src \subseteq K /\ names \subseteq K /\ \A i \in DOMAIN block_storage : block_storage[i] \subseteq K
    BY <1>2, <1>4, <2>2 DEF TextsKnown
  <2>5. \A i \in (Len(blocks) - n + 1)..Len(blocks) : blocks[i] \subseteq K
    BY <1>3, <2>3
  <2>6. src' \subseteq K
    BY <1>1, <2>4, <2>5
  <2>7. \A i \in DOMAIN blocks' : blocks'[i] \subseteq K
    BY <1>3, <2>3
  <2> QED BY <1>1, <2>2, <2>4, <2>6, <2>7 DEF TextsKnown
<1> QED BY <1>1, <1>2, <1>5, <1>6, Generating

\* The same of an instruction that only notes flags and functions.
LEMMA Needing ==
    ASSUME HostInv, NEW names \in SUBSET Name, NEW n \in Nat, NEW flags, NEW functions,
           Wasmtime!EmitNeeding(names, n, flags, functions),
           flags \subseteq (IF in_import THEN ImportNotes ELSE ExportNotes),
           functions \subseteq Functions,
           \A u \in names :
              \/ u \in flags \cap (Wasmtime!Intrinsics \cup {"memory", "guest_memory"})
              \/ u \in {Wasmtime!Func(f) : f \in functions}
              \/ ~in_import /\ u \in {Wasmtime!Close(h) : h \in Dtors}
    PROVE  HostInv'
<1>1. /\ Wasmtime!Emit(names, n)
      /\ needs' = needs \cup flags /\ needs_functions' = needs_functions \cup functions
      /\ UNCHANGED <<closures, handles_for_func, all_needed_handles, cleanup, in_import, fields>>
  BY DEF Wasmtime!EmitNeeding, Wasmtime!Emit, Wasmtime!made
<1>2. Noting
  BY <1>1 DEF Noting
<1>3. NotesFine'
  <2>1. NotesFine
    BY DEF HostInv
  <2>2. needs' \subseteq (IF in_import THEN ImportNotes ELSE ExportNotes)
    BY <1>1, <2>1 DEF NotesFine
  <2> QED BY <1>1, <2>1, <2>2, Zenon DEF NotesFine
<1>4. names \subseteq Known(Len(closures))'
  <2> SUFFICES ASSUME NEW u \in names PROVE u \in Known(Len(closures))'
    OBVIOUS
  <2>1. CASE u \in flags \cap (Wasmtime!Intrinsics \cup {"memory", "guest_memory"})
    BY <1>1, <2>1, Zenon DEF Known, Wasmtime!Intrinsics
  <2>2. CASE u \in {Wasmtime!Func(f) : f \in functions}
    <3>1. functions \subseteq needs_functions'
      BY <1>1
    <3> QED BY <2>2, <3>1, Zenon DEF Known, Wasmtime!Func
  <2>3. CASE ~in_import /\ u \in {Wasmtime!Close(h) : h \in Dtors}
    BY <1>1, <2>3, Zenon DEF Known, Wasmtime!Close
  <2> QED BY <2>1, <2>2, <2>3
<1> QED BY <1>1, <1>2, <1>3, <1>4, Emitting

\* The names of the helpers and of the guest's functions are names.
LEMMA NamesAre ==
    /\ Wasmtime!Intrinsics \subseteq Name /\ {"memory", "guest_memory"} \subseteq Name
    /\ \A f \in Functions : Wasmtime!Func(f) \in Name /\ Wasmtime!Field(f) \in Name
    /\ \A h \in HandleType : /\ Wasmtime!Table(h) \in Name /\ Wasmtime!Access(h) \in Name
                             /\ Wasmtime!Close(h) \in Name
    /\ \A n \in Nat : Wasmtime!Closure(n) \in Name
<1>1. Wasmtime!Intrinsics \subseteq Name /\ {"memory", "guest_memory"} \subseteq Name
  BY Zenon DEF Name, ImportNotes
<1>2. \A f \in Functions : Wasmtime!Func(f) \in Name /\ Wasmtime!Field(f) \in Name
  BY Zenon DEF Name, Wasmtime!Func, Wasmtime!Field
<1>3. \A h \in HandleType : /\ Wasmtime!Table(h) \in Name /\ Wasmtime!Access(h) \in Name
                            /\ Wasmtime!Close(h) \in Name
  BY Zenon DEF Name, Wasmtime!Table, Wasmtime!Access, Wasmtime!Close
<1>4. \A n \in Nat : Wasmtime!Closure(n) \in Name
  BY Zenon DEF Name, Wasmtime!Closure
<1> QED BY <1>1, <1>2, <1>3, <1>4

\* The instructions that only note flags and functions.
LEMMA PlainInstructions ==
    ASSUME HostInv,
           \/ Wasmtime!Plain \/ Wasmtime!Checked \/ Wasmtime!Load \/ Wasmtime!Store
           \/ Wasmtime!VariantLift \/ Wasmtime!VariantLower
           \/ Wasmtime!ListCanonLower \/ Wasmtime!ListLower
           \/ Wasmtime!ListCanonLift \/ Wasmtime!ListLift
    PROVE  HostInv'
<1>1. /\ "witx_malloc" \in Functions /\ "witx_free" \in Functions
      /\ {"bad_int", "char_from_i32", "validate_flags", "load", "store", "invalid_variant",
          "slice_as_bytes", "copy_slice"} \subseteq Wasmtime!Intrinsics
  BY DEF Functions, Wasmtime!Intrinsics
<1>2. /\ Wasmtime!Intrinsics \subseteq ImportNotes /\ Wasmtime!Intrinsics \subseteq ExportNotes
      /\ "memory" \in ImportNotes /\ "memory" \in ExportNotes /\ "guest_memory" \in ImportNotes
  BY DEF ImportNotes, ExportNotes
<1>3. /\ Wasmtime!Func("witx_malloc") \in Name /\ Wasmtime!Func("witx_free") \in Name
      /\ Wasmtime!Intrinsics \subseteq Name /\ "memory" \in Name /\ "guest_memory" \in Name
  BY <1>1, NamesAre
<1>4. /\ Wasmtime!Func("witx_malloc") \in {Wasmtime!Func(f) : f \in {"witx_malloc"}}
      /\ Wasmtime!Func("witx_free") \in {Wasmtime!Func(f) : f \in {"witx_free"}}
  BY Zenon
<1>5. CASE Wasmtime!Plain
  BY <1>5, Needing DEF Wasmtime!Plain
<1>6. CASE Wasmtime!Checked
  <2>1. PICK helper \in {"bad_int", "char_from_i32", "validate_flags"} :
                Wasmtime!EmitNeeding({helper}, 0, {helper}, {})
    BY <1>6 DEF Wasmtime!Checked
  <2>2. helper \in Wasmtime!Intrinsics
    BY <1>1
  <2> QED BY <1>2, <1>3, <2>1, <2>2, Needing
<1>7. CASE Wasmtime!Load
  BY <1>1, <1>2, <1>3, <1>7, Needing DEF Wasmtime!Load
<1>8. CASE Wasmtime!Store
  <2> DEFINE names == {"memory", "store"}
  <2>1. Wasmtime!EmitNeeding(names, 0, names, {})
    BY <1>8 DEF Wasmtime!Store
  <2>2. /\ names \in SUBSET Name /\ names \subseteq IF in_import THEN ImportNotes ELSE ExportNotes
        /\ \A u \in names : u \in names \cap (Wasmtime!Intrinsics \cup {"memory", "guest_memory"})
    BY <1>1, <1>2, <1>3
  <2> HIDE DEF names
  <2> QED BY <2>1, <2>2, Needing
<1>9. CASE Wasmtime!VariantLift
  BY <1>1, <1>2, <1>3, <1>9, Needing DEF Wasmtime!VariantLift
<1>10. CASE Wasmtime!VariantLower
  BY <1>10, Needing DEF Wasmtime!VariantLower
<1>11. CASE Wasmtime!ListCanonLower
  BY <1>1, <1>2, <1>3, <1>4, <1>11, Needing DEF Wasmtime!ListCanonLower
<1>12. CASE Wasmtime!ListLower
  BY <1>1, <1>2, <1>3, <1>4, <1>12, Needing DEF Wasmtime!ListLower
<1>13. CASE Wasmtime!ListCanonLift
  <2>1. CASE in_import
    BY <1>1, <1>2, <1>3, <1>13, <2>1, Needing DEF Wasmtime!ListCanonLift
  <2>2. CASE ~in_import
    BY <1>1, <1>2, <1>3, <1>4, <1>13, <2>2, Needing DEF Wasmtime!ListCanonLift
  <2> QED BY <2>1, <2>2
<1>14. CASE Wasmtime!ListLift
  <2>1. CASE in_import
    BY <1>14, <2>1, Needing DEF Wasmtime!ListLift
  <2>2. CASE ~in_import
    <3>1. Wasmtime!EmitNeeding({Wasmtime!Func("witx_free")}, 1, {}, {"witx_free"})
      BY <1>14, <2>2 DEF Wasmtime!ListLift
    <3> QED BY <1>1, <1>3, <1>4, <3>1, Needing
  <2> QED BY <2>1, <2>2
<1> QED BY <1>5, <1>6, <1>7, <1>8, <1>9, <1>10, <1>11, <1>12, <1>13, <1>14

\* The instructions for handles.
LEMMA HandleInstructions ==
    ASSUME HostInv, NEW h \in HandleType,
           \/ Wasmtime!I32FromOwnedHandle(h)
           \/ Wasmtime!HandleBorrowedFromI32(h)
           \/ Wasmtime!HandleOwnedFromI32(h)
    PROVE  HostInv'
<1>1. NotesFine
  BY DEF HostInv
<1>2. Wasmtime!Table(h) \in Name /\ Wasmtime!Access(h) \in Name /\ Wasmtime!Close(h) \in Name
  BY NamesAre
<1>3. ASSUME Wasmtime!Emit({Wasmtime!Table(h)}, 0), in_import,
             all_needed_handles' = all_needed_handles \cup {h},
             UNCHANGED <<closures, needs, needs_functions, handles_for_func, cleanup>>
      PROVE  HostInv'
  <2>1. UNCHANGED <<in_import, fields>>
    BY <1>3 DEF Wasmtime!Emit, Wasmtime!made
  <2>2. Noting
    BY <1>3, <2>1 DEF Noting
  <2>3. NotesFine'
    BY <1>1, <1>3, <2>1 DEF NotesFine
  <2>4. Wasmtime!Table(h) \in Known(Len(closures))'
    <3>1. h \in all_needed_handles' /\ in_import'
      BY <1>3, <2>1
    <3> QED BY <3>1, Zenon DEF Known, Wasmtime!Table
  <2>5. {Wasmtime!Table(h)} \subseteq Known(Len(closures))' /\ {Wasmtime!Table(h)} \in SUBSET Name
    BY <1>2, <2>4
  <2> QED BY <1>3, <2>2, <2>3, <2>5, Emitting
<1>4. ASSUME Wasmtime!Emit({Wasmtime!Access(h)}, 0), in_import,
             handles_for_func' = handles_for_func \cup {h},
             UNCHANGED <<closures, needs, needs_functions, all_needed_handles, cleanup>>
      PROVE  HostInv'
  <2>1. UNCHANGED <<in_import, fields>>
    BY <1>4 DEF Wasmtime!Emit, Wasmtime!made
  <2>2. Noting
    BY <1>4, <2>1 DEF Noting
  <2>3. NotesFine'
    <3>1. IsFiniteSet(handles_for_func')
      BY <1>1, <1>4, FS_AddElement DEF NotesFine
    <3> QED BY <1>1, <1>4, <2>1, <3>1 DEF NotesFine
  <2>4. Wasmtime!Access(h) \in Known(Len(closures))'
    <3>1. h \in handles_for_func' /\ in_import'
      BY <1>4, <2>1
    <3> QED BY <3>1, Zenon DEF Known, Wasmtime!Access
  <2>5. {Wasmtime!Access(h)} \subseteq Known(Len(closures))' /\ {Wasmtime!Access(h)} \in SUBSET Name
    BY <1>2, <2>4
  <2> QED BY <1>4, <2>2, <2>3, <2>5, Emitting
<1>5. CASE Wasmtime!I32FromOwnedHandle(h)
  BY <1>3, <1>5 DEF Wasmtime!I32FromOwnedHandle
<1>6. CASE Wasmtime!HandleBorrowedFromI32(h)
  BY <1>3, <1>4, <1>6 DEF Wasmtime!HandleBorrowedFromI32
<1>7. CASE Wasmtime!HandleOwnedFromI32(h)
  <2>1. CASE h \in Dtors
    <3>1. Wasmtime!EmitNeeding({Wasmtime!Close(h)}, 0, {}, {}) /\ ~in_import
      BY <1>7, <2>1 DEF Wasmtime!HandleOwnedFromI32
    <3>2. Wasmtime!Close(h) \in {Wasmtime!Close(g) : g \in Dtors}
      BY <2>1, Zenon
    <3> QED BY <1>2, <3>1, <3>2, Needing
  <2>2. CASE h \notin Dtors
    BY <1>7, <2>2, Needing DEF Wasmtime!HandleOwnedFromI32
  <2> QED BY <2>1, <2>2
<1> QED BY <1>5, <1>6, <1>7

\* What the instructions for buffers have in common: a block is used up, and
\* becomes a closure or, when its items are raw bytes, nothing.
LEMMA BufferMade ==
    ASSUME HostInv, NEW raw \in BOOLEAN, NEW g \in {"guest_memory", "buffer_transaction"},
           g \in (IF in_import THEN ImportNotes ELSE ExportNotes),
           phase = "func", blocks # <<>>,
           ~raw /\ ~in_import => "buffer_transaction" \notin Wasmtime!Last(blocks),
           needs' = needs \cup {g},
           blocks' = Wasmtime!Front(blocks),
           IF raw THEN src' = src \cup {g} /\ UNCHANGED closures
           ELSE /\ closures' = Wasmtime!NewClosure
                /\ src' = src \cup {g, Wasmtime!Closure(Len(closures'))},
           UNCHANGED <<in_import, phase, block_storage, needs_functions, handles_for_func,
                       all_needed_handles, cleanup, fields, funcs, file>>
    PROVE  HostInv'
<1>1. NotesFine /\ TextsTyped /\ TextsKnown
  BY DEF HostInv
<1>2. PICK n \in Nat : n = Len(closures)
  BY <1>1 DEF TextsTyped
<1>3. Noting
  BY DEF Noting
<1>4. NotesFine'
  <2>1. needs' \subseteq (IF in_import THEN ImportNotes ELSE ExportNotes)
    BY <1>1 DEF NotesFine
  <2> QED BY <1>1, <2>1 DEF NotesFine
<1>5. Len(blocks) \in Nat /\ Len(blocks) >= 1 /\ DOMAIN blocks = 1..Len(blocks)
  BY <1>1 DEF TextsTyped
<1>6. /\ Wasmtime!Last(blocks) \in SUBSET Name /\ Wasmtime!Last(blocks) \subseteq Known(n)
      /\ blocks' \in Seq(SUBSET Name)
      /\ \A i \in DOMAIN blocks' : i \in DOMAIN blocks /\ blocks'[i] = blocks[i]
  <2>1. Wasmtime!Last(blocks) \in SUBSET Name /\ Wasmtime!Last(blocks) \subseteq Known(n)
    BY <1>1, <1>2, <1>5 DEF TextsTyped, TextsKnown, Wasmtime!Last
  <2>2. blocks' = SubSeq(blocks, 1, Len(blocks) - 1)
    BY DEF Wasmtime!Front
  <2> QED BY <1>1, <1>5, <2>1, <2>2, BlocksTaken
<1>7. \A i \in 1..n : closures'[i].let = closures[i].let
  <2>1. CASE raw
    BY <2>1
  <2>2. CASE ~raw
    <3>1. \E c : closures' = Append(closures, c)
      BY <2>2, Zenon DEF Wasmtime!NewClosure
    <3>2. closures \in Seq(Decl)
      BY <1>1 DEF TextsTyped
    <3> QED BY <1>2, <3>1, <3>2
  <2> QED BY <2>1, <2>2
<1>8. Known(n) \subseteq Known(n)'
  BY <1>2, <1>3, <1>7, KnownGrows
<1>9. g \in Name /\ g \in Known(n)'
  <2>1. g \in Name
    BY Zenon DEF Name, ImportNotes, ExportNotes
  <2>2. g \in needs'
    OBVIOUS
  <2> QED BY <2>1, <2>2, Zenon DEF Known
<1>10. CASE raw
  <2>1. TextsTyped'
    BY <1>1, <1>6, <1>9, <1>10 DEF TextsTyped
  <2>2. TextsKnown'
    <3>1. PICK K : K = Known(n)'
      OBVIOUS
    <3>2. K = Known(Len(closures))'
      BY <1>2, <1>10, <3>1
    <3>3. src' \subseteq K
      BY <1>1, <1>2, <1>8, <1>9, <1>10, <3>1 DEF TextsKnown
    <3>4. \A i \in DOMAIN block_storage : block_storage[i] \subseteq K
      BY <1>1, <1>2, <1>8, <3>1 DEF TextsKnown
    <3>5. \A i \in DOMAIN blocks' : blocks'[i] \subseteq K
      BY <1>1, <1>2, <1>6, <1>8, <3>1 DEF TextsKnown
    <3> QED BY <3>2, <3>3, <3>4, <3>5 DEF TextsKnown
  <2> QED BY <1>2, <1>3, <1>4, <1>10, <2>1, <2>2, Generating
<1>11. CASE ~raw
  <2>1. PICK c : c = [let |-> Wasmtime!Closure(n + 1), uses |-> Wasmtime!Last(blocks)]
    OBVIOUS
  <2>2. Wasmtime!Closure(n + 1) \in Name
    BY NamesAre
  <2>3. c \in Decl
    BY <1>6, <2>1, <2>2 DEF Decl
  <2>4. closures' = Append(closures, c)
    BY <1>2, <1>11, <2>1 DEF Wasmtime!NewClosure
  <2>5. /\ closures' \in Seq(Decl) /\ Len(closures') = n + 1 /\ closures'[n + 1] = c
        /\ \A i \in 1..n : closures'[i] = closures[i]
    BY <1>1, <1>2, <2>3, <2>4 DEF TextsTyped
  <2>6. TextsTyped'
    <3>1. src' \in SUBSET Name
      BY <1>1, <1>9, <1>11, <2>2, <2>5 DEF TextsTyped
    <3> QED BY <1>1, <1>6, <2>5, <3>1 DEF TextsTyped
  <2>7. PICK m \in Nat : m = n + 1
    OBVIOUS
  <2>8. Known(n)' \subseteq Known(m)' /\ Wasmtime!Closure(n + 1) \in Known(m)'
    <3>1. 1..n \subseteq 1..m /\ m \in 1..m /\ closures'[m].let = Wasmtime!Closure(n + 1)
      BY <2>1, <2>5, <2>7
    <3>2. {closures'[i].let : i \in 1..n} \subseteq {closures'[i].let : i \in 1..m}
      BY <3>1
    <3>3. Wasmtime!Closure(n + 1) \in {closures'[i].let : i \in 1..m}
      BY <3>1
    <3> QED BY <3>2, <3>3, Zenon DEF Known
  <2>9. TextsKnown'
    <3>1. PICK K : K = Known(m)'
      OBVIOUS
    <3>2. K = Known(Len(closures))'
      BY <2>5, <2>7, <3>1
    <3>3. src' \subseteq K
      BY <1>1, <1>2, <1>8, <1>9, <1>11, <2>5, <2>8, <3>1 DEF TextsKnown
    <3>4. \A i \in DOMAIN block_storage : block_storage[i] \subseteq K
      BY <1>1, <1>2, <1>8, <2>8, <3>1 DEF TextsKnown
    <3>5. \A i \in DOMAIN blocks' : blocks'[i] \subseteq K
      BY <1>1, <1>2, <1>6, <1>8, <2>8, <3>1 DEF TextsKnown
    <3> QED BY <3>2, <3>3, <3>4, <3>5 DEF TextsKnown
  <2>10. c.uses \subseteq Known(n)' /\ (~in_import => "buffer_transaction" \notin c.uses)
    BY <1>6, <1>8, <1>11, <2>1
  <2> QED BY <1>2, <1>3, <1>4, <2>3, <2>4, <2>6, <2>9, <2>10, Generating
<1> QED BY <1>10, <1>11

LEMMA BufferInstructions ==
    ASSUME HostInv, NEW raw \in BOOLEAN,
           Wasmtime!BufferLiftPtrLen(raw) \/ Wasmtime!BufferLowerHandle(raw)
    PROVE  HostInv'
<1>1. "guest_memory" \in ImportNotes /\ "buffer_transaction" \in ExportNotes
  BY DEF ImportNotes, ExportNotes
<1>2. CASE Wasmtime!BufferLiftPtrLen(raw)
  <2>1. UNCHANGED <<in_import, phase, block_storage, needs_functions, handles_for_func,
                    all_needed_handles, cleanup, fields, funcs, file>>
    BY <1>2 DEF Wasmtime!BufferLiftPtrLen, Wasmtime!made
  <2> DEFINE g == "guest_memory"
  <2>2. /\ in_import /\ phase = "func" /\ blocks # <<>>
        /\ needs' = needs \cup {g} /\ blocks' = Wasmtime!Front(blocks)
        /\ IF raw THEN src' = src \cup {g} /\ UNCHANGED closures
           ELSE /\ closures' = Wasmtime!NewClosure
                /\ src' = src \cup {g, Wasmtime!Closure(Len(closures'))}
    BY <1>2, Zenon DEF Wasmtime!BufferLiftPtrLen
  <2>3. g \in {"guest_memory", "buffer_transaction"} /\ g \in ImportNotes
    BY <1>1
  <2> HIDE DEF g
  <2> QED BY <2>1, <2>2, <2>3, BufferMade
<1>3. CASE Wasmtime!BufferLowerHandle(raw)
  <2>1. UNCHANGED <<in_import, phase, block_storage, needs_functions, handles_for_func,
                    all_needed_handles, cleanup, fields, funcs, file>>
    BY <1>3 DEF Wasmtime!BufferLowerHandle, Wasmtime!made
  <2> DEFINE g == "buffer_transaction"
  <2>2. /\ ~in_import /\ phase = "func" /\ blocks # <<>>
        /\ ~raw => "buffer_transaction" \notin Wasmtime!Last(blocks)
        /\ needs' = needs \cup {g} /\ blocks' = Wasmtime!Front(blocks)
        /\ IF raw THEN src' = src \cup {g} /\ UNCHANGED closures
           ELSE /\ closures' = Wasmtime!NewClosure
                /\ src' = src \cup {g, Wasmtime!Closure(Len(closures'))}
    BY <1>3, Zenon DEF Wasmtime!BufferLowerHandle
  <2>3. g \in {"guest_memory", "buffer_transaction"} /\ g \in ExportNotes
    BY <1>1
  <2> HIDE DEF g
  <2> QED BY <2>1, <2>2, <2>3, BufferMade
<1> QED BY <1>2, <1>3

LEMMA ArrayAllocated ==
    ASSUME HostInv, Wasmtime!allocate_i64_array
    PROVE  HostInv'
<1>1. /\ Wasmtime!Emit({Wasmtime!Field("witx_malloc")}, 0) /\ ~in_import
      /\ needs_functions' = needs_functions \cup {"witx_malloc", "witx_free"} /\ cleanup'
      /\ UNCHANGED <<closures, needs, handles_for_func, all_needed_handles, in_import, fields>>
  BY DEF Wasmtime!allocate_i64_array, Wasmtime!Emit, Wasmtime!made
<1>2. "witx_malloc" \in Functions /\ "witx_free" \in Functions
  BY DEF Functions
<1>3. Noting
  BY <1>1 DEF Noting
<1>4. NotesFine'
  <2>1. cleanup' \in BOOLEAN
    BY DEF Wasmtime!allocate_i64_array
  <2> QED BY <1>1, <1>2, <2>1 DEF HostInv, NotesFine
<1>5. Wasmtime!Field("witx_malloc") \in Known(Len(closures))'
  <2>1. "witx_malloc" \in needs_functions' /\ ~in_import'
    BY <1>1
  <2> QED BY <2>1, Zenon DEF Known, Wasmtime!Field
<1>6. Wasmtime!Field("witx_malloc") \in Name
  BY <1>2, NamesAre
<1> QED BY <1>1, <1>3, <1>4, <1>5, <1>6, Emitting

LEMMA HostInstruction ==
    ASSUME HostInv, Wasmtime!Instruction
    PROVE  HostInv'
<1>1. CASE \/ Wasmtime!Plain \/ Wasmtime!Checked \/ Wasmtime!Load \/ Wasmtime!Store
           \/ Wasmtime!VariantLift \/ Wasmtime!VariantLower
           \/ Wasmtime!ListCanonLower \/ Wasmtime!ListLower
           \/ Wasmtime!ListCanonLift \/ Wasmtime!ListLift
  BY <1>1, PlainInstructions
<1>2. ASSUME NEW h \in HandleType,
             \/ Wasmtime!I32FromOwnedHandle(h)
             \/ Wasmtime!HandleBorrowedFromI32(h)
             \/ Wasmtime!HandleOwnedFromI32(h)
      PROVE  HostInv'
  BY <1>2, HandleInstructions
<1>3. ASSUME NEW raw \in BOOLEAN, Wasmtime!BufferLiftPtrLen(raw) \/ Wasmtime!BufferLowerHandle(raw)
      PROVE  HostInv'
  BY <1>3, BufferInstructions
<1>4. CASE Wasmtime!allocate_i64_array
  BY <1>4, ArrayAllocated
<1> QED BY <1>1, <1>2, <1>3, <1>4 DEF Wasmtime!Instruction

\* Blocks are opened and finished; what is known stays known.
LEMMA HostBlocks ==
    ASSUME HostInv, Wasmtime!push_block \/ Wasmtime!finish_block
    PROVE  HostInv'
<1>1. TextsTyped /\ TextsKnown /\ NotesFine
  BY DEF HostInv
<1>2. PICK n \in Nat : n = Len(closures)
  BY <1>1 DEF TextsTyped
<1>3. /\ phase' = "func"
      /\ UNCHANGED <<in_import, closures, needs, needs_functions, handles_for_func,
                     all_needed_handles, cleanup, fields, funcs, file>>
  BY DEF Wasmtime!push_block, Wasmtime!finish_block, Wasmtime!notes, Wasmtime!made
<1>4. Noting /\ NotesFine'
  BY <1>1, <1>3 DEF Noting, NotesFine
<1>5. PICK K : K = Known(n)
  OBVIOUS
<1>6. Known(n)' = K
  BY <1>3, <1>5, Zenon DEF Known, Wasmtime!Intrinsics
<1>7. TextsTyped' /\ TextsKnown'
  <2>1. /\ src \subseteq K /\ src \in SUBSET Name
        /\ \A i \in DOMAIN block_storage : block_storage[i] \subseteq K
        /\ \A i \in DOMAIN blocks : blocks[i] \subseteq K
    BY <1>1, <1>2, <1>5 DEF TextsKnown, TextsTyped
  <2>2. block_storage \in Seq(SUBSET Name) /\ blocks \in Seq(SUBSET Name) /\ closures \in Seq(Decl)
    BY <1>1 DEF TextsTyped
  <2>3. /\ src' \subseteq K /\ src' \in SUBSET Name
        /\ block_storage' \in Seq(SUBSET Name)
        /\ \A i \in DOMAIN block_storage' : block_storage'[i] \subseteq K
        /\ blocks' \in Seq(SUBSET Name)
        /\ \A i \in DOMAIN blocks' : blocks'[i] \subseteq K
    <3>1. CASE Wasmtime!push_block
      <4>1. block_storage' = Append(block_storage, src) /\ src' = {} /\ blocks' = blocks
        BY <3>1 DEF Wasmtime!push_block
      <4> QED BY <2>1, <2>2, <4>1
    <3>2. CASE Wasmtime!finish_block
      <4>1. /\ block_storage # <<>> /\ blocks' = Append(blocks, src)
            /\ src' = block_storage[Len(block_storage)]
            /\ block_storage' = SubSeq(block_storage, 1, Len(block_storage) - 1)
        BY <3>2 DEF Wasmtime!finish_block, Wasmtime!Last, Wasmtime!Front
      <4>2. Len(block_storage) \in Nat /\ Len(block_storage) >= 1
        BY <2>2, <4>1
      <4>3. PICK m \in Nat : m = Len(block_storage) - 1
        BY <4>2
      <4>4. /\ block_storage' \in Seq(SUBSET Name) /\ DOMAIN block_storage' = 1..m
            /\ \A i \in 1..m : i \in DOMAIN block_storage /\ block_storage'[i] = block_storage[i]
        BY <2>2, <4>1, <4>2, <4>3
      <4>5. src' \subseteq K /\ src' \in SUBSET Name
        BY <2>1, <2>2, <4>1, <4>2
      <4> QED BY <2>1, <2>2, <4>1, <4>4, <4>5
    <3> QED BY <3>1, <3>2
  <2>4. Known(Len(closures))' = K
    <3>1. n = Len(closures')
      BY <1>2, <1>3
    <3> QED BY <1>6, <3>1
  <2> QED BY <1>3, <2>2, <2>3, <2>4 DEF TextsTyped, TextsKnown
<1> QED BY <1>2, <1>3, <1>4, <1>7, Generating

(***************************************************************************)
(* The steps of the host's generator between functions.                    *)
(***************************************************************************)

\* Nothing is open and nothing is noted.
LEMMA AtRest ==
    ASSUME NotesFine', PhasesFine', phase' \in {"module", "between"},
           FuncsDeclared', Wasmtime!NamesDeclared'
    PROVE  HostInv'
<1>1. /\ src' = {} /\ closures' = <<>> /\ block_storage' = <<>> /\ blocks' = <<>>
  BY DEF PhasesFine
<1>2. TextsTyped'
  BY <1>1 DEF TextsTyped
<1>3. TextsKnown' /\ ClosuresKnown'
  <2>1. /\ src' \subseteq Known(Len(closures))'
        /\ DOMAIN closures' = {} /\ DOMAIN block_storage' = {} /\ DOMAIN blocks' = {}
    BY <1>1
  <2> QED BY <2>1, Zenon DEF TextsKnown, ClosuresKnown
<1> QED BY <1>2, <1>3 DEF HostInv

\* A module or a function is begun, or nothing happens at all.
LEMMA HostUntouched ==
    ASSUME HostInv, PhasesFine', Wasmtime!NamesDeclared',
           UNCHANGED <<in_import, src, block_storage, blocks, closures, needs, needs_functions,
                       handles_for_func, all_needed_handles, cleanup, fields, funcs>>
    PROVE  HostInv'
<1>1. NotesFine' /\ TextsTyped'
  BY DEF HostInv, NotesFine, TextsTyped
<1>2. \A n : Known(n)' = Known(n)
  BY Zenon DEF Known, Wasmtime!Intrinsics
<1>3. TextsKnown'
  BY <1>2, Zenon DEF HostInv, TextsKnown
<1>4. ClosuresKnown'
  BY <1>2, Zenon DEF HostInv, ClosuresKnown
<1>5. FuncsDeclared'
  <2>1. Noting
    BY DEF Noting
  <2>2. ModuleNoting
    BY DEF ModuleNoting
  <2>3. Wasmtime!Provided \subseteq Wasmtime!Provided'
    BY <2>2, ProvidedGrows
  <2> SUFFICES ASSUME NEW f \in funcs PROVE Declared(f, Wasmtime!Provided')
    BY DEF FuncsDeclared
  <2> QED BY <2>3, DeclaredMore DEF HostInv, FuncsDeclared
<1> QED BY <1>1, <1>3, <1>4, <1>5 DEF HostInv

LEMMA HostBegin ==
    ASSUME HostInv, Wasmtime!preprocess \/ \E dtor \in BOOLEAN : Wasmtime!BeginFunc(dtor)
    PROVE  HostInv'
<1>1. /\ UNCHANGED <<in_import, src, block_storage, blocks, closures, needs, needs_functions,
                     handles_for_func, all_needed_handles, cleanup, fields, funcs>>
      /\ phase \in {"module", "between"} /\ phase' \in {"between", "func"}
      /\ file' \in {file, Wasmtime!NoFile}
  BY DEF Wasmtime!preprocess, Wasmtime!BeginFunc, Wasmtime!text, Wasmtime!notes, Wasmtime!made
<1>2. PhasesFine'
  BY <1>1 DEF HostInv, PhasesFine
<1>3. Wasmtime!NamesDeclared'
  BY <1>1 DEF HostInv, Wasmtime!NamesDeclared, Wasmtime!NoFile
<1> QED BY <1>1, <1>2, <1>3, HostUntouched

LEMMA HostStutters ==
    ASSUME HostInv, UNCHANGED Wasmtime!vars
    PROVE  HostInv'
<1>1. UNCHANGED <<in_import, src, block_storage, blocks, closures, needs, needs_functions,
                  handles_for_func, all_needed_handles, cleanup, fields, funcs, file, phase>>
  BY DEF Wasmtime!vars, Wasmtime!text, Wasmtime!notes, Wasmtime!made
<1>2. PhasesFine' /\ Wasmtime!NamesDeclared'
  BY <1>1 DEF HostInv, PhasesFine, Wasmtime!NamesDeclared
<1> QED BY <1>1, <1>2, HostUntouched

LEMMA HostReturn ==
    ASSUME HostInv, Wasmtime!Return
    PROVE  HostInv'
<1>1. /\ phase = "func" /\ phase' = "returned" /\ block_storage = <<>> /\ blocks = <<>>
      /\ src' = src \cup (IF cleanup THEN {Wasmtime!Field("witx_free")} ELSE {}) /\ cleanup' = FALSE
      /\ UNCHANGED <<in_import, block_storage, blocks, closures, needs, needs_functions,
                     handles_for_func, all_needed_handles, fields, funcs, file>>
  BY DEF Wasmtime!Return, Wasmtime!made
<1>2. NotesFine /\ TextsTyped /\ PhasesFine /\ TextsKnown
  BY DEF HostInv
<1>3. NotesFine' /\ PhasesFine'
  BY <1>1, <1>2 DEF NotesFine, PhasesFine
<1>4. \A n : Known(n)' = Known(n)
  BY <1>1, Zenon DEF Known, Wasmtime!Intrinsics
<1>5. TextsTyped'
  <2>1. "witx_free" \in Functions
    BY DEF Functions
  <2>2. Wasmtime!Field("witx_free") \in Name
    BY <2>1, NamesAre
  <2> QED BY <1>1, <1>2, <2>2 DEF TextsTyped
<1>6. TextsKnown'
  <2>1. cleanup => Wasmtime!Field("witx_free") \in Known(Len(closures))
    <3>1. cleanup => "witx_free" \in needs_functions /\ ~in_import
      BY <1>2 DEF NotesFine
    <3> QED BY <3>1, Zenon DEF Known, Wasmtime!Field
  <2>2. Known(Len(closures))' = Known(Len(closures))
    BY <1>1, Zenon DEF Known, Wasmtime!Intrinsics
  <2>3. src' \subseteq Known(Len(closures))
    BY <1>1, <1>2, <2>1 DEF TextsKnown
  <2>4. DOMAIN block_storage' = {} /\ DOMAIN blocks' = {}
    BY <1>1
  <2> QED BY <2>2, <2>3, <2>4, Zenon DEF TextsKnown
<1>7. ClosuresKnown'
  BY <1>1, <1>4, Zenon DEF HostInv, ClosuresKnown
<1>8. FuncsDeclared' /\ Wasmtime!NamesDeclared'
  <2>1. Noting
    BY <1>1 DEF Noting
  <2> QED BY <1>1, <2>1, MadeKept
<1> QED BY <1>3, <1>5, <1>6, <1>7, <1>8 DEF HostInv

LEMMA HostFinish ==
    ASSUME HostInv, Wasmtime!finish
    PROVE  HostInv'
<1>1. /\ phase = "between" /\ phase' = "module"
      /\ file' = [funcs |-> funcs \cup {Wasmtime!New}, provided |-> Wasmtime!Provided]
      /\ funcs' = {} /\ fields' = {}
      /\ UNCHANGED <<in_import, src, block_storage, blocks, closures, needs, needs_functions,
                     handles_for_func, cleanup>>
  BY DEF Wasmtime!finish, Wasmtime!text
<1>2. NotesFine' /\ PhasesFine'
  BY <1>1 DEF HostInv, NotesFine, PhasesFine
<1>3. FuncsDeclared'
  BY <1>1 DEF FuncsDeclared
<1>4. Declared(Wasmtime!New, Wasmtime!Provided)
  <2>1. CASE "memory" \in fields
    <3>1. "get_memory" \in needs
      BY <2>1 DEF HostInv, NotesFine
    <3>2. "get_memory" \in Wasmtime!Provided
      BY <3>1, Zenon DEF Wasmtime!Provided
    <3>3. PICK t : t = [let |-> "", uses |-> {"get_memory"}]
      OBVIOUS
    <3>4. Wasmtime!New = <<t>>
      BY <2>1, <3>3 DEF Wasmtime!New, Wasmtime!Some, Wasmtime!Let
    <3>5. DOMAIN Wasmtime!New = {1} /\ Wasmtime!New[1] = t
      BY <3>4
    <3>6. t.uses = {"get_memory"}
      BY <3>3
    <3> QED BY <3>2, <3>5, <3>6, Zenon DEF Declared
  <2>2. CASE "memory" \notin fields
    <3>1. Wasmtime!New = <<>>
      BY <2>2 DEF Wasmtime!New, Wasmtime!Some
    <3>2. DOMAIN Wasmtime!New = {}
      BY <3>1
    <3> QED BY <3>2, Zenon DEF Declared
  <2> QED BY <2>1, <2>2
<1>5. \A f \in funcs \cup {Wasmtime!New} : Declared(f, Wasmtime!Provided)
  BY <1>4 DEF HostInv, FuncsDeclared
<1>6. Wasmtime!NamesDeclared'
  <2>1. file'.funcs = funcs \cup {Wasmtime!New} /\ file'.provided = Wasmtime!Provided
    BY <1>1
  <2> QED BY <1>5, <2>1, Zenon DEF Wasmtime!NamesDeclared, Declared
<1> QED BY <1>1, <1>2, <1>3, <1>6, AtRest

(***************************************************************************)
(* The ends of functions.                                                  *)
(***************************************************************************)

\* A set of declarations, one for each member of a finite set, in any order.
LEMMA AllDeclared ==
    ASSUME NEW S, IsFiniteSet(S), NEW f \in [S -> Decl], NEW given,
           \A x \in S : f[x].uses \subseteq given
    PROVE  LET s == Wasmtime!SetToSeq({f[x] : x \in S}) IN
           /\ s \in Seq(Decl) /\ Declared(s, given)
           /\ LetsOf(s) = {f[x].let : x \in S}
<1> DEFINE T == {f[x] : x \in S}
           s == Wasmtime!SetToSeq(T)
<1>1. IsFiniteSet(T) /\ T \subseteq Decl
  <2>1. f \in Surjection(S, T)
    BY DEF Surjection
  <2> QED BY <2>1, FS_Surjection
<1>2. s \in Seq(Decl) /\ {s[i] : i \in DOMAIN s} = T
  BY <1>1, AnyOrder
<1> HIDE DEF s
<1>3. \A i \in DOMAIN s : \E x \in S : s[i] = f[x]
  <2>1. \A i \in DOMAIN s : s[i] \in T
    BY <1>2
  <2> QED BY <2>1
<1>4. \A x \in S : \E i \in DOMAIN s : s[i] = f[x]
  <2>1. \A x \in S : f[x] \in {s[i] : i \in DOMAIN s}
    BY <1>2
  <2> QED BY <2>1
<1>5. Declared(s, given)
  BY <1>2, <1>3, PlainDeclared
<1>6. LetsOf(s) = {f[x].let : x \in S}
  BY <1>3, <1>4 DEF LetsOf
<1> QED BY <1>2, <1>5, <1>6 DEF s

LEMMA FunctionsFinite ==
    ASSUME NotesFine PROVE IsFiniteSet(needs_functions)
<1>1. IsFiniteSet(Functions)
  <2>1. IsFiniteSet({}) /\ {} \cup {"witx_malloc"} = {"witx_malloc"}
        /\ {"witx_malloc"} \cup {"witx_free"} = Functions
    BY FS_EmptySet DEF Functions
  <2> QED BY <2>1, FS_AddElement
<1> QED BY <1>1, FS_Subset DEF NotesFine

\* The closures and the text of a function, after declarations of all the
\* rest that is known.
LEMMA ClosuresDeclared ==
    ASSUME HostInv, NEW given,
           Known(0) \subseteq given
    PROVE  Declared(closures, given)
<1>1. TextsTyped /\ ClosuresKnown
  BY DEF HostInv
<1>2. DOMAIN closures = 1..Len(closures) /\ Len(closures) \in Nat
  BY <1>1 DEF TextsTyped
<1> SUFFICES ASSUME NEW i \in DOMAIN closures, NEW u \in closures[i].uses, u \notin given
             PROVE  \E j \in 1..(i - 1) : closures[j].let = u
  BY DEF Declared
<1>3. u \in Known(i - 1)
  BY <1>1 DEF ClosuresKnown
<1>4. u \notin Known(0)
  OBVIOUS
<1>5. u \in {closures[j].let : j \in 1..(i - 1)}
  BY <1>3, <1>4, Zenon DEF Known
<1> QED BY <1>5

\* A declaration is typed when its names are.
LEMMA LetTyped ==
    ASSUME NEW name \in Name \cup {""}, NEW uses \in SUBSET Name
    PROVE  /\ Wasmtime!Let(name, uses) \in Decl
           /\ Wasmtime!Let(name, uses).let = name /\ Wasmtime!Let(name, uses).uses = uses
BY DEF Decl, Wasmtime!Let

\* Each insertion of import puts in front what is used behind it.
LEMMA ImportTextDeclared ==
    ASSUME HostInv, in_import, NEW given,
           needs \cap Wasmtime!Intrinsics \subseteq given,
           {"memory", "guest_memory"} \cap needs # {} => "get_memory" \in given,
           "guest_memory" \in needs => "borrow_checker" \in given,
           needs_functions # {} => "get_func" \in given,
           \A h \in handles_for_func \cup all_needed_handles : Wasmtime!Table(h) \in given
    PROVE  Declared(Wasmtime!ImportText, given)
<1>1. NotesFine /\ TextsTyped /\ TextsKnown
  BY DEF HostInv
<1>2. /\ "get_func" \in Name /\ "get_memory" \in Name /\ "borrow_checker" \in Name
      /\ "memory" \in Name /\ "guest_memory" \in Name
  BY Zenon DEF Name, ImportNotes
<1> DEFINE s1 == Wasmtime!GetFuncs
           s2 == Wasmtime!Accesses
           s3 == Wasmtime!Memory
           s4 == Wasmtime!Body
<1>3. /\ s1 \in Seq(Decl) /\ Declared(s1, given)
      /\ LetsOf(s1) = {Wasmtime!Func(f) : f \in needs_functions}
  <2> DEFINE g == [f \in needs_functions |-> Wasmtime!Let(Wasmtime!Func(f), {"get_func"})]
  <2>1. \A f \in needs_functions : Wasmtime!Func(f) \in Name
    BY <1>1, NamesAre DEF NotesFine
  <2>2. \A f \in needs_functions : /\ g[f] \in Decl /\ g[f].let = Wasmtime!Func(f)
                                   /\ g[f].uses = {"get_func"}
    BY <1>2, <2>1, LetTyped
  <2>3. s1 = Wasmtime!SetToSeq({g[f] : f \in needs_functions})
    <3>1. {g[f] : f \in needs_functions}
            = {Wasmtime!Let(Wasmtime!Func(f), {"get_func"}) : f \in needs_functions}
      OBVIOUS
    <3> QED BY <3>1, Zenon DEF Wasmtime!GetFuncs
  <2>4. g \in [needs_functions -> Decl] /\ IsFiniteSet(needs_functions)
    BY <1>1, <2>2, FunctionsFinite
  <2>5. \A f \in needs_functions : g[f].uses \subseteq given
    BY <2>2
  <2> HIDE DEF g, s1
  <2>6. /\ s1 \in Seq(Decl) /\ Declared(s1, given) /\ LetsOf(s1) = {g[f].let : f \in needs_functions}
    BY <2>3, <2>4, <2>5, AllDeclared
  <2> QED BY <2>2, <2>6
<1>4. /\ s2 \in Seq(Decl) /\ Declared(s2, given)
      /\ LetsOf(s2) = {Wasmtime!Access(h) : h \in handles_for_func}
  <2> DEFINE g == [h \in handles_for_func |-> Wasmtime!Let(Wasmtime!Access(h), {Wasmtime!Table(h)})]
  <2>1. \A h \in handles_for_func : Wasmtime!Access(h) \in Name /\ Wasmtime!Table(h) \in Name
    BY <1>1, NamesAre DEF NotesFine
  <2>2. \A h \in handles_for_func : /\ g[h] \in Decl /\ g[h].let = Wasmtime!Access(h)
                                    /\ g[h].uses = {Wasmtime!Table(h)}
    BY <2>1, LetTyped
  <2>3. s2 = Wasmtime!SetToSeq({g[h] : h \in handles_for_func})
    <3>1. {g[h] : h \in handles_for_func}
            = {Wasmtime!Let(Wasmtime!Access(h), {Wasmtime!Table(h)}) : h \in handles_for_func}
      OBVIOUS
    <3> QED BY <3>1, Zenon DEF Wasmtime!Accesses
  <2>4. g \in [handles_for_func -> Decl] /\ IsFiniteSet(handles_for_func)
    BY <1>1, <2>2 DEF NotesFine
  <2>5. \A h \in handles_for_func : g[h].uses \subseteq given
    BY <2>2
  <2> HIDE DEF g, s2
  <2>6. /\ s2 \in Seq(Decl) /\ Declared(s2, given) /\ LetsOf(s2) = {g[h].let : h \in handles_for_func}
    BY <2>3, <2>4, <2>5, AllDeclared
  <2> QED BY <2>2, <2>6
<1>5. /\ s3 \in Seq(Decl) /\ Declared(s3, given)
      /\ LetsOf(s3) = {"memory", "guest_memory"} \cap (needs \cup
                         (IF "guest_memory" \in needs THEN {"memory"} ELSE {}))
  <2>1. PICK m : m = Wasmtime!Let("memory", {"get_memory"})
    OBVIOUS
  <2>2. PICK g : g = Wasmtime!Let("guest_memory", {"memory", "borrow_checker"})
    OBVIOUS
  <2>3. /\ m \in Decl /\ m.let = "memory" /\ m.uses = {"get_memory"}
        /\ g \in Decl /\ g.let = "guest_memory" /\ g.uses = {"memory", "borrow_checker"}
    <3>1. m \in Decl /\ m.let = "memory" /\ m.uses = {"get_memory"}
      BY <1>2, <2>1, LetTyped
    <3>2. g \in Decl /\ g.let = "guest_memory" /\ g.uses = {"memory", "borrow_checker"}
      <4>1. PICK uses \in SUBSET Name : uses = {"memory", "borrow_checker"}
        BY <1>2
      <4>2. g = Wasmtime!Let("guest_memory", uses) /\ "guest_memory" \in Name \cup {""}
        BY <1>2, <2>2, <4>1
      <4>3. g \in Decl /\ g.let = "guest_memory" /\ g.uses = uses
        BY <4>2, LetTyped
      <4> QED BY <4>1, <4>3
    <3> QED BY <3>1, <3>2
  <2> DEFINE any == {"memory", "guest_memory"} \cap needs # {}
             lent == "guest_memory" \in needs
             t1 == Wasmtime!Some(any, m)
             t2 == Wasmtime!Some(lent, g)
  <2>4. any \in BOOLEAN /\ lent \in BOOLEAN /\ (lent => any)
    OBVIOUS
  <2>5. s3 = t1 \o t2
    BY <2>1, <2>2, Zenon DEF Wasmtime!Memory
  <2>6. any => m.uses \subseteq given
    BY <2>3
  <2>7. lent => g.uses \subseteq given \cup {"memory"}
    BY <2>3
  <2>8. LetsOf(t1) \cup LetsOf(t2) = {"memory", "guest_memory"} \cap (needs \cup
                         (IF "guest_memory" \in needs THEN {"memory"} ELSE {}))
    <3>1. LetsOf(t1) = IF any THEN {"memory"} ELSE {}
      BY <2>3, <2>4, <2>6, SomeDeclared
    <3>2. LetsOf(t2) = IF lent THEN {"guest_memory"} ELSE {}
      BY <2>3, <2>4, <2>7, SomeDeclared
    <3> HIDE DEF t1, t2
    <3> QED BY <3>1, <3>2
  <2> HIDE DEF any, lent, s3
  <2>9. t1 \in Seq(Decl) /\ Declared(t1, given) /\ LetsOf(t1) = IF any THEN {m.let} ELSE {}
    BY <2>3, <2>4, <2>6, SomeDeclared
  <2>10. PICK more : more = given \cup LetsOf(t1)
    OBVIOUS
  <2>11. lent => g.uses \subseteq more
    BY <2>3, <2>4, <2>7, <2>9, <2>10
  <2>12. t2 \in Seq(Decl) /\ Declared(t2, more)
    BY <2>3, <2>4, <2>11, SomeDeclared
  <2> HIDE DEF t1, t2
  <2> QED BY <2>5, <2>8, <2>9, <2>10, <2>12, ConcatDeclared
<1> DEFINE lets == LetsOf(s1) \cup LetsOf(s2) \cup LetsOf(s3)
<1>6. Known(0) \subseteq given \cup lets
  <2> SUFFICES ASSUME NEW u \in Known(0), u \notin given PROVE u \in lets
    OBVIOUS
  <2>1. "buffer_transaction" \notin needs
    <3>1. "buffer_transaction" \notin ImportNotes
      BY DEF ImportNotes, Wasmtime!Intrinsics
    <3> QED BY <1>1, <3>1 DEF NotesFine
  <2>2. \/ u \in needs \cap {"memory", "guest_memory"}
        \/ u \in {Wasmtime!Func(f) : f \in needs_functions}
        \/ u \in {Wasmtime!Access(h) : h \in handles_for_func}
    <3>1. ~(u \in needs \cap Wasmtime!Intrinsics)
      OBVIOUS
    <3>2. ~(u \in {Wasmtime!Table(h) : h \in all_needed_handles})
      BY Zenon
    <3>3. ~(u \in {closures[i].let : i \in 1..0})
      <4>1. \A i \in 1..0 : FALSE
        OBVIOUS
      <4> QED BY <4>1
    <3> QED BY <2>1, <3>1, <3>2, <3>3, Zenon DEF Known
  <2> HIDE DEF s1, s2, s3
  <2> QED BY <1>3, <1>4, <1>5, <2>2
<1>7. closures \in Seq(Decl) /\ Declared(closures, given \cup lets)
  BY <1>1, <1>6, ClosuresDeclared DEF TextsTyped
<1>8. s4 \in Seq(Decl) /\ Declared(s4, given \cup lets \cup LetsOf(closures))
  <2>1. src \subseteq given \cup lets \cup LetsOf(closures)
    <3>1. {closures[i].let : i \in 1..Len(closures)} = LetsOf(closures)
      <4>1. DOMAIN closures = 1..Len(closures)
        BY <1>1 DEF TextsTyped
      <4> QED BY <4>1, Zenon DEF LetsOf
    <3>2. Known(Len(closures)) \subseteq Known(0) \cup LetsOf(closures)
      BY <3>1, Zenon DEF Known
    <3> QED BY <1>1, <1>6, <3>2, Zenon DEF TextsKnown
  <2>2. PICK b : b = Wasmtime!Let("", src)
    OBVIOUS
  <2>3. b \in Decl /\ b.uses = src
    BY <1>1, <2>2, LetTyped DEF TextsTyped
  <2>4. s4 = <<b>>
    BY <2>2, Zenon DEF Wasmtime!Body
  <2>5. s4 \in Seq(Decl) /\ DOMAIN s4 = {1} /\ s4[1] = b
    <3> HIDE DEF s4
    <3> QED BY <2>3, <2>4
  <2> HIDE DEF s4
  <2>6. \A i \in DOMAIN s4 : s4[i].uses \subseteq given \cup lets \cup LetsOf(closures)
    <3> HIDE DEF lets
    <3> QED BY <2>1, <2>3, <2>5
  <2> QED BY <2>5, <2>6, PlainDeclared
<1>9. Wasmtime!ImportText = s1 \o s2 \o s3 \o closures \o s4
  BY Zenon DEF Wasmtime!ImportText
<1> HIDE DEF s1, s2, s3, s4
<1>10. /\ s1 \o s2 \in Seq(Decl) /\ Declared(s1 \o s2, given)
       /\ LetsOf(s1 \o s2) = LetsOf(s1) \cup LetsOf(s2)
  <2>1. Declared(s2, given \cup LetsOf(s1))
    BY <1>4, DeclaredMore
  <2> QED BY <1>3, <1>4, <2>1, ConcatDeclared
<1>11. PICK q \in Seq(Decl) : q = s1 \o s2
  BY <1>10
<1>12. Declared(q, given) /\ LetsOf(q) = LetsOf(s1) \cup LetsOf(s2)
  BY <1>10, <1>11
<1>13. /\ q \o s3 \in Seq(Decl) /\ Declared(q \o s3, given)
       /\ LetsOf(q \o s3) = LetsOf(q) \cup LetsOf(s3)
  <2>1. s3 \in Seq(Decl) /\ Declared(s3, given \cup LetsOf(q))
    BY <1>5, DeclaredMore
  <2>2. Declared(q, given)
    BY <1>12
  <2> QED BY <2>1, <2>2, ConcatDeclared
<1>14. PICK r \in Seq(Decl) : r = q \o s3
  BY <1>13
<1>15. Declared(r, given) /\ LetsOf(r) = LetsOf(q) \cup LetsOf(s3)
  BY <1>13, <1>14
<1>16. LetsOf(r) = lets
  BY <1>12, <1>15
<1> HIDE DEF lets
<1>17. /\ r \o closures \in Seq(Decl) /\ Declared(r \o closures, given)
       /\ LetsOf(r \o closures) = LetsOf(r) \cup LetsOf(closures)
  <2>1. closures \in Seq(Decl) /\ Declared(closures, given \cup LetsOf(r))
    BY <1>7, <1>16
  <2>2. Declared(r, given)
    BY <1>15
  <2> QED BY <2>1, <2>2, ConcatDeclared
<1>18. PICK p \in Seq(Decl) : p = r \o closures
  BY <1>17
<1>19. Declared(p, given) /\ LetsOf(p) = LetsOf(r) \cup LetsOf(closures)
  BY <1>17, <1>18
<1>20. Declared(p \o s4, given)
  <2>1. given \cup LetsOf(p) = given \cup lets \cup LetsOf(closures)
    BY <1>16, <1>19
  <2>2. s4 \in Seq(Decl) /\ Declared(s4, given \cup LetsOf(p))
    BY <1>8, <2>1
  <2>3. Declared(p, given)
    BY <1>19
  <2> QED BY <2>2, <2>3, ConcatDeclared
<1> QED BY <1>9, <1>11, <1>14, <1>18, <1>20

\* The parts of the text of an export come in an order that fits as well.
LEMMA ExportTextDeclared ==
    ASSUME HostInv, ~in_import, NEW given,
           needs \cap Wasmtime!Intrinsics \subseteq given,
           \A f \in needs_functions : Wasmtime!Field(f) \in given,
           "memory" \in needs => Wasmtime!Field("memory") \in given,
           "buffer_transaction" \in needs => "self.buffer_glue" \in given,
           \A h \in Dtors : Wasmtime!Close(h) \in given
    PROVE  Declared(Wasmtime!ExportText, given)
<1>1. NotesFine /\ TextsTyped /\ TextsKnown /\ ClosuresKnown
  BY DEF HostInv
<1>2. /\ Wasmtime!Field("memory") \in Name /\ "self.buffer_glue" \in Name
      /\ "memory" \in Name /\ "buffer_transaction" \in Name
  BY Zenon DEF Name, ExportNotes, Wasmtime!Field
<1> DEFINE s1 == Wasmtime!SetToSeq({Wasmtime!Let(Wasmtime!Func(f), {Wasmtime!Field(f)})
                                      : f \in needs_functions})
           s2 == Wasmtime!Some("memory" \in needs, Wasmtime!Let("memory", {Wasmtime!Field("memory")}))
           s3 == Wasmtime!Some("buffer_transaction" \in needs,
                               Wasmtime!Let("buffer_transaction", {"self.buffer_glue"}))
           s4 == Wasmtime!Body
<1>3. /\ s1 \in Seq(Decl) /\ Declared(s1, given)
      /\ LetsOf(s1) = {Wasmtime!Func(f) : f \in needs_functions}
  <2> DEFINE g == [f \in needs_functions |-> Wasmtime!Let(Wasmtime!Func(f), {Wasmtime!Field(f)})]
  <2>1. \A f \in needs_functions : Wasmtime!Func(f) \in Name /\ Wasmtime!Field(f) \in Name
    BY <1>1, NamesAre DEF NotesFine
  <2>2. \A f \in needs_functions : /\ g[f] \in Decl /\ g[f].let = Wasmtime!Func(f)
                                   /\ g[f].uses = {Wasmtime!Field(f)}
    BY <2>1, LetTyped
  <2>3. s1 = Wasmtime!SetToSeq({g[f] : f \in needs_functions})
    <3>1. {g[f] : f \in needs_functions}
            = {Wasmtime!Let(Wasmtime!Func(f), {Wasmtime!Field(f)}) : f \in needs_functions}
      OBVIOUS
    <3> QED BY <3>1, Zenon
  <2>4. g \in [needs_functions -> Decl] /\ IsFiniteSet(needs_functions)
    BY <1>1, <2>2, FunctionsFinite
  <2>5. \A f \in needs_functions : g[f].uses \subseteq given
    BY <2>2
  <2> HIDE DEF g, s1
  <2>6. /\ s1 \in Seq(Decl) /\ Declared(s1, given) /\ LetsOf(s1) = {g[f].let : f \in needs_functions}
    BY <2>3, <2>4, <2>5, AllDeclared
  <2> QED BY <2>2, <2>6
<1>4. /\ s2 \in Seq(Decl) /\ Declared(s2, given)
      /\ LetsOf(s2) = IF "memory" \in needs THEN {"memory"} ELSE {}
  <2>1. PICK m : m = Wasmtime!Let("memory", {Wasmtime!Field("memory")})
    OBVIOUS
  <2>2. m \in Decl /\ m.let = "memory" /\ m.uses = {Wasmtime!Field("memory")}
    BY <1>2, <2>1, LetTyped
  <2> DEFINE cond == "memory" \in needs
  <2>3. cond \in BOOLEAN
    OBVIOUS
  <2>4. s2 = Wasmtime!Some(cond, m) /\ (cond => m.uses \subseteq given)
    BY <2>1, <2>2
  <2>5. cond <=> "memory" \in needs
    OBVIOUS
  <2> HIDE DEF s2, cond
  <2> QED BY <2>2, <2>3, <2>4, <2>5, SomeDeclared
<1>5. /\ s3 \in Seq(Decl) /\ Declared(s3, given)
      /\ LetsOf(s3) = IF "buffer_transaction" \in needs THEN {"buffer_transaction"} ELSE {}
  <2>1. PICK m : m = Wasmtime!Let("buffer_transaction", {"self.buffer_glue"})
    OBVIOUS
  <2>2. m \in Decl /\ m.let = "buffer_transaction" /\ m.uses = {"self.buffer_glue"}
    BY <1>2, <2>1, LetTyped
  <2> DEFINE cond == "buffer_transaction" \in needs
  <2>3. cond \in BOOLEAN
    OBVIOUS
  <2>4. s3 = Wasmtime!Some(cond, m) /\ (cond => m.uses \subseteq given)
    BY <2>1, <2>2
  <2>5. cond <=> "buffer_transaction" \in needs
    OBVIOUS
  <2> HIDE DEF s3, cond
  <2> QED BY <2>2, <2>3, <2>4, <2>5, SomeDeclared
<1> DEFINE lets == LetsOf(s1) \cup LetsOf(s2)
<1>6. Known(0) \subseteq given \cup lets \cup LetsOf(s3)
  <2> SUFFICES ASSUME NEW u \in Known(0), u \notin given PROVE u \in lets \cup LetsOf(s3)
    OBVIOUS
  <2>1. "guest_memory" \notin needs
    <3>1. "guest_memory" \notin ExportNotes
      BY DEF ExportNotes, Wasmtime!Intrinsics
    <3> QED BY <1>1, <3>1 DEF NotesFine
  <2>2. \/ u \in needs \cap {"memory", "buffer_transaction"}
        \/ u \in {Wasmtime!Func(f) : f \in needs_functions}
    <3>1. ~(u \in needs \cap Wasmtime!Intrinsics)
      OBVIOUS
    <3>2. ~(u \in {Wasmtime!Close(h) : h \in Dtors})
      BY Zenon
    <3>3. ~(u \in {Wasmtime!Field(f) : f \in needs_functions})
      BY Zenon
    <3>4. ~(u \in {closures[i].let : i \in 1..0})
      <4>1. \A i \in 1..0 : FALSE
        OBVIOUS
      <4> QED BY <4>1
    <3> QED BY <2>1, <3>1, <3>2, <3>3, <3>4, Zenon DEF Known
  <2> HIDE DEF s1, s2, s3
  <2> QED BY <1>3, <1>4, <1>5, <2>2
<1>7. closures \in Seq(Decl) /\ Declared(closures, given \cup lets)
  <2>1. closures \in Seq(Decl)
    BY <1>1 DEF TextsTyped
  <2>2. Declared(closures, given \cup lets \cup LetsOf(s3))
    BY <1>6, ClosuresDeclared
  <2>3. ASSUME NEW i \in DOMAIN closures, NEW u \in closures[i].uses
        PROVE  u \in given \cup lets \/ \E j \in 1..(i - 1) : closures[j].let = u
    <3>1. u # "buffer_transaction"
      BY <1>1 DEF ClosuresKnown
    <3>2. u \in given \cup lets \cup LetsOf(s3) \/ \E j \in 1..(i - 1) : closures[j].let = u
      BY <2>2, Zenon DEF Declared
    <3> HIDE DEF lets, s3
    <3> QED BY <1>5, <3>1, <3>2
  <2> QED BY <2>1, <2>3, Zenon DEF Declared
<1>8. s4 \in Seq(Decl) /\ Declared(s4, given \cup lets \cup LetsOf(closures) \cup LetsOf(s3))
  <2>1. src \subseteq given \cup lets \cup LetsOf(closures) \cup LetsOf(s3)
    <3>1. {closures[i].let : i \in 1..Len(closures)} = LetsOf(closures)
      <4>1. DOMAIN closures = 1..Len(closures)
        BY <1>1 DEF TextsTyped
      <4> QED BY <4>1, Zenon DEF LetsOf
    <3>2. Known(Len(closures)) \subseteq Known(0) \cup LetsOf(closures)
      BY <3>1, Zenon DEF Known
    <3> QED BY <1>1, <1>6, <3>2, Zenon DEF TextsKnown
  <2>2. PICK b : b = Wasmtime!Let("", src)
    OBVIOUS
  <2>3. b \in Decl /\ b.uses = src
    BY <1>1, <2>2, LetTyped DEF TextsTyped
  <2>4. s4 = <<b>>
    BY <2>2, Zenon DEF Wasmtime!Body
  <2>5. s4 \in Seq(Decl) /\ DOMAIN s4 = {1} /\ s4[1] = b
    <3> HIDE DEF s4
    <3> QED BY <2>3, <2>4
  <2> HIDE DEF s4
  <2>6. \A i \in DOMAIN s4 : s4[i].uses \subseteq given \cup lets \cup LetsOf(closures) \cup LetsOf(s3)
    <3> HIDE DEF lets, s3
    <3> QED BY <2>1, <2>3, <2>5
  <2> QED BY <2>5, <2>6, PlainDeclared
<1>9. Wasmtime!ExportText = s1 \o s2 \o closures \o s3 \o s4
  BY Zenon DEF Wasmtime!ExportText
<1> HIDE DEF s1, s2, s3, s4
<1>10. /\ s1 \o s2 \in Seq(Decl) /\ Declared(s1 \o s2, given)
       /\ LetsOf(s1 \o s2) = LetsOf(s1) \cup LetsOf(s2)
  <2>1. Declared(s2, given \cup LetsOf(s1))
    BY <1>4, DeclaredMore
  <2> QED BY <1>3, <1>4, <2>1, ConcatDeclared
<1>11. PICK q \in Seq(Decl) : q = s1 \o s2
  BY <1>10
<1>12. Declared(q, given) /\ LetsOf(q) = lets
  BY <1>10, <1>11
<1> HIDE DEF lets
<1>13. /\ q \o closures \in Seq(Decl) /\ Declared(q \o closures, given)
       /\ LetsOf(q \o closures) = LetsOf(q) \cup LetsOf(closures)
  <2>1. closures \in Seq(Decl) /\ Declared(closures, given \cup LetsOf(q))
    BY <1>7, <1>12
  <2>2. Declared(q, given)
    BY <1>12
  <2> QED BY <2>1, <2>2, ConcatDeclared
<1>14. PICK r \in Seq(Decl) : r = q \o closures
  BY <1>13
<1>15. Declared(r, given) /\ LetsOf(r) = LetsOf(q) \cup LetsOf(closures)
  BY <1>13, <1>14
<1>16. /\ r \o s3 \in Seq(Decl) /\ Declared(r \o s3, given)
       /\ LetsOf(r \o s3) = LetsOf(r) \cup LetsOf(s3)
  <2>1. s3 \in Seq(Decl) /\ Declared(s3, given \cup LetsOf(r))
    BY <1>5, DeclaredMore
  <2>2. Declared(r, given)
    BY <1>15
  <2> QED BY <2>1, <2>2, ConcatDeclared
<1>17. PICK p \in Seq(Decl) : p = r \o s3
  BY <1>16
<1>18. Declared(p, given) /\ LetsOf(p) = LetsOf(r) \cup LetsOf(s3)
  BY <1>16, <1>17
<1>19. Declared(p \o s4, given)
  <2>1. given \cup LetsOf(p) = given \cup lets \cup LetsOf(closures) \cup LetsOf(s3)
    BY <1>12, <1>15, <1>18
  <2>2. s4 \in Seq(Decl) /\ Declared(s4, given \cup LetsOf(p))
    BY <1>8, <2>1
  <2>3. Declared(p, given)
    BY <1>18
  <2> QED BY <2>2, <2>3, ConcatDeclared
<1> QED BY <1>9, <1>11, <1>14, <1>17, <1>19

\* The functions that there were, and the new one.
LEMMA HostEndFunc ==
    ASSUME HostInv, Wasmtime!EndImport \/ Wasmtime!EndExport
    PROVE  HostInv'
<1>1. /\ phase = "returned" /\ phase' = "between"
      /\ src' = {} /\ closures' = <<>> /\ handles_for_func' = {}
      /\ UNCHANGED <<in_import, block_storage, blocks, cleanup, file>>
  BY DEF Wasmtime!EndImport, Wasmtime!EndExport, Wasmtime!EndFunc
<1>2. NotesFine /\ PhasesFine /\ FuncsDeclared
  BY DEF HostInv
<1>3. Wasmtime!NamesDeclared'
  BY <1>1 DEF HostInv, Wasmtime!NamesDeclared
<1>4. CASE Wasmtime!EndImport
  <2>1. /\ in_import /\ funcs' = funcs \cup {Wasmtime!ImportText}
        /\ needs' = (needs \ {"memory", "guest_memory"})
                    \cup (IF "guest_memory" \in needs THEN {"borrow_checker"} ELSE {})
                    \cup (IF {"memory", "guest_memory"} \cap needs # {} THEN {"get_memory"} ELSE {})
                    \cup (IF needs_functions # {} THEN {"get_func"} ELSE {})
        /\ all_needed_handles' = all_needed_handles \cup handles_for_func
        /\ UNCHANGED <<needs_functions, fields>>
    BY <1>4, Zenon DEF Wasmtime!EndImport, Wasmtime!EndFunc
  <2>2. needs' \subseteq ImportNotes
    BY <1>2, <2>1 DEF NotesFine, ImportNotes
  <2>3. NotesFine'
    BY <1>1, <1>2, <2>1, <2>2, FS_EmptySet DEF NotesFine
  <2>4. "buffer_transaction" \notin needs'
    BY <2>2 DEF ImportNotes, Wasmtime!Intrinsics
  <2>5. PhasesFine'
    BY <1>1, <1>2, <2>1, <2>4 DEF PhasesFine
  <2>6. "memory" \notin ModuleNotes /\ "guest_memory" \notin ModuleNotes
    BY DEF ModuleNotes, Wasmtime!Intrinsics
  <2>7. ModuleNoting
    BY <1>1, <2>1, <2>6 DEF ModuleNoting
  <2>8. Declared(Wasmtime!ImportText, Wasmtime!Provided')
    <3>1. PICK given : given = Wasmtime!Provided'
      OBVIOUS
    <3>2. needs' \cap (Wasmtime!Intrinsics \cup {"get_memory"}) \subseteq given
      BY <3>1, Zenon DEF Wasmtime!Provided, Wasmtime!Intrinsics
    <3>3. in_import' /\ needs' \cap {"borrow_checker", "get_func"} \subseteq given
      BY <1>1, <2>1, <3>1, Zenon DEF Wasmtime!Provided
    <3>4. \A h \in handles_for_func \cup all_needed_handles : Wasmtime!Table(h) \in given
      BY <2>1, <3>1, <3>3, Zenon DEF Wasmtime!Provided, Wasmtime!Table
    <3>5. needs \cap Wasmtime!Intrinsics \subseteq given
      <4>1. needs \cap Wasmtime!Intrinsics \subseteq needs'
        BY <2>1, <2>6, Zenon DEF ModuleNotes
      <4> QED BY <3>2, <4>1
    <3>6. /\ {"memory", "guest_memory"} \cap needs # {} => "get_memory" \in given
          /\ "guest_memory" \in needs => "borrow_checker" \in given
          /\ needs_functions # {} => "get_func" \in given
      BY <2>1, <3>2, <3>3
    <3> QED BY <2>1, <3>1, <3>4, <3>5, <3>6, ImportTextDeclared
  <2>9. FuncsDeclared'
    <3> SUFFICES ASSUME NEW f \in funcs PROVE Declared(f, Wasmtime!Provided')
      BY <2>1, <2>8 DEF FuncsDeclared
    <3> QED BY <1>2, <2>7, ProvidedGrows, DeclaredMore DEF FuncsDeclared
  <2> QED BY <1>1, <1>3, <2>3, <2>5, <2>9, AtRest
<1>5. CASE Wasmtime!EndExport
  <2>1. /\ ~in_import /\ funcs' \subseteq funcs \cup {Wasmtime!ExportText}
        /\ needs' = (needs \ {"memory", "buffer_transaction"})
                    \cup (IF "buffer_transaction" \in needs THEN {"buffer_glue"} ELSE {})
                    \cup (IF "memory" \in needs THEN {"get_memory"} ELSE {})
        /\ fields' = fields \cup needs_functions \cup ({"memory"} \cap needs)
        /\ needs_functions' = {}
        /\ UNCHANGED all_needed_handles
    BY <1>5 DEF Wasmtime!EndExport, Wasmtime!EndFunc
  <2>2. needs' \subseteq ExportNotes
    BY <1>2, <2>1 DEF NotesFine, ExportNotes
  <2>3. NotesFine'
    <3>1. ~cleanup
      BY <1>1, <1>2 DEF PhasesFine
    <3>2. "memory" \in fields' => "get_memory" \in needs'
      <4>1. "memory" \notin Functions
        BY DEF Functions
      <4> QED BY <1>2, <2>1, <4>1 DEF NotesFine
    <3> QED BY <1>1, <1>2, <2>1, <2>2, <3>1, <3>2, FS_EmptySet DEF NotesFine
  <2>4. "guest_memory" \notin needs'
    BY <2>2 DEF ExportNotes, Wasmtime!Intrinsics
  <2>5. PhasesFine'
    BY <1>1, <1>2, <2>1, <2>4 DEF PhasesFine
  <2>6. "memory" \notin ModuleNotes /\ "buffer_transaction" \notin ModuleNotes
    BY DEF ModuleNotes, Wasmtime!Intrinsics
  <2>7. ModuleNoting
    BY <1>1, <2>1, <2>6 DEF ModuleNoting
  <2>8. Declared(Wasmtime!ExportText, Wasmtime!Provided')
    <3>1. PICK given : given = Wasmtime!Provided'
      OBVIOUS
    <3>2. needs' \cap (Wasmtime!Intrinsics \cup {"get_memory"}) \subseteq given
      BY <3>1, Zenon DEF Wasmtime!Provided, Wasmtime!Intrinsics
    <3>3. ~in_import'
      BY <1>1, <2>1
    <3>4. /\ \A f \in fields' : Wasmtime!Field(f) \in given
          /\ \A h \in Dtors : Wasmtime!Close(h) \in given
          /\ "buffer_glue" \in needs' => "self.buffer_glue" \in given
      BY <3>1, <3>3, Zenon DEF Wasmtime!Provided, Wasmtime!Field, Wasmtime!Close
    <3>5. needs \cap Wasmtime!Intrinsics \subseteq given
      <4>1. needs \cap Wasmtime!Intrinsics \subseteq needs'
        BY <2>1, <2>6, Zenon DEF ModuleNotes
      <4> QED BY <3>2, <4>1
    <3>6. /\ \A f \in needs_functions : f \in fields'
          /\ "memory" \in needs => "memory" \in fields'
          /\ "buffer_transaction" \in needs => "self.buffer_glue" \in given
      BY <2>1, <3>4
    <3>7. /\ \A f \in needs_functions : Wasmtime!Field(f) \in given
          /\ "memory" \in needs => Wasmtime!Field("memory") \in given
      BY <3>4, <3>6
    <3> QED BY <2>1, <3>1, <3>4, <3>5, <3>6, <3>7, ExportTextDeclared
  <2>9. FuncsDeclared'
    <3> SUFFICES ASSUME NEW f \in funcs PROVE Declared(f, Wasmtime!Provided')
      BY <2>1, <2>8 DEF FuncsDeclared
    <3> QED BY <1>2, <2>7, ProvidedGrows, DeclaredMore DEF FuncsDeclared
  <2> QED BY <1>1, <1>3, <2>3, <2>5, <2>9, AtRest
<1> QED BY <1>4, <1>5

LEMMA HostStarts ==
    ASSUME Wasmtime!Init
    PROVE  HostInv
<1>1. /\ in_import \in BOOLEAN /\ phase = "module"
      /\ src = {} /\ block_storage = <<>> /\ blocks = <<>> /\ closures = <<>>
      /\ needs = {} /\ needs_functions = {} /\ handles_for_func = {} /\ cleanup = FALSE
      /\ fields = {} /\ funcs = {} /\ file = Wasmtime!NoFile
  BY DEF Wasmtime!Init
<1>2. NotesFine
  BY <1>1, FS_EmptySet DEF NotesFine
<1>3. TextsTyped /\ PhasesFine
  BY <1>1 DEF TextsTyped, PhasesFine
<1>4. TextsKnown /\ ClosuresKnown
  <2>1. src \subseteq Known(Len(closures))
    BY <1>1
  <2>2. DOMAIN closures = {} /\ DOMAIN block_storage = {} /\ DOMAIN blocks = {}
    BY <1>1
  <2> QED BY <2>1, <2>2, Zenon DEF TextsKnown, ClosuresKnown
<1>5. FuncsDeclared /\ Wasmtime!NamesDeclared
  BY <1>1 DEF FuncsDeclared, Wasmtime!NamesDeclared, Wasmtime!NoFile
<1> QED BY <1>2, <1>3, <1>4, <1>5 DEF HostInv

LEMMA HostSteps ==
    ASSUME HostInv, Wasmtime!Next \/ UNCHANGED Wasmtime!vars
    PROVE  HostInv'
BY HostBegin, HostBlocks, HostInstruction, HostReturn, HostEndFunc, HostFinish, HostStutters
   DEF Wasmtime!Next

\* What the host's invariant says of the properties.
LEMMA HostLeavesNothing ==
    ASSUME HostInv
    PROVE  Wasmtime!NothingLeftOver
<1>1. NotesFine /\ PhasesFine
  BY DEF HostInv
<1>2. "buffer_transaction" \notin ImportNotes
  BY DEF ImportNotes, Wasmtime!Intrinsics
<1>3. "guest_memory" \notin ExportNotes /\ "get_func" \notin ExportNotes
  BY DEF ExportNotes, Wasmtime!Intrinsics
<1> QED BY <1>1, <1>2, <1>3 DEF NotesFine, PhasesFine, Wasmtime!NothingLeftOver

(***************************************************************************)
(* The inductive invariant of the guest's generator.                       *)
(***************************************************************************)

Var == {RustWasm!Result(n) : n \in Nat} \cup {RustWasm!CleanupList}
Freed == {"here", "by the list"}
Text == [declares : SUBSET Var, uses : SUBSET Var, allocates : SUBSET Var,
         frees : SUBSET (Var \X Freed)]
Level == [src : Text, cleanup : SUBSET Var]

\* The results there are, and those a text puts on the list.
Results == {RustWasm!Result(n) : n \in 0..(tmp - 1)}
Listed(t) == {r \in Var : <<r, "by the list">> \in t.frees}

GuestTyped ==
    /\ in_import \in BOOLEAN /\ needs_cleanup_list \in BOOLEAN /\ tmp \in Nat
    /\ src \in Text /\ cleanup \in SUBSET Var
    /\ block_storage \in Seq(Level) /\ blocks \in Seq(Text)

GuestPhases ==
    /\ phase \in {"module", "between", "func", "returned"}
    /\ phase # "func" => block_storage = <<>> /\ blocks = <<>> /\ cleanup = {}
    /\ phase \in {"between", "module"} => src = RustWasm!Empty /\ ~needs_cleanup_list
    /\ in_import => handles_for_func = {}
    /\ ~in_import => ~needs_cleanup_list

\* A text that is not complete: the lists it allocated are yet to be freed or
\* are on the list.
TextFine(t, c) ==
    /\ t.uses \subseteq t.declares \cup {RustWasm!CleanupList}
    /\ RustWasm!CleanupList \in t.uses => needs_cleanup_list
    /\ c \subseteq t.declares /\ c \subseteq Results
    /\ t.allocates \subseteq c \cup Listed(t)
    /\ t.frees \subseteq Results \X {"by the list"}
    /\ t.frees # {} => needs_cleanup_list
    /\ ~in_import => c = {}

TextsFine ==
    /\ TextFine(src, cleanup)
    /\ \A i \in DOMAIN block_storage : TextFine(block_storage[i].src, block_storage[i].cleanup)
    /\ \A i \in DOMAIN blocks : TextFine(blocks[i], {})

\* What is yet to be freed at one level is not so at another one, and is not
\* on the list.
OnList ==
    Listed(src) \cup (UNION {Listed(block_storage[i].src) : i \in DOMAIN block_storage})
                \cup (UNION {Listed(blocks[i]) : i \in DOMAIN blocks})
LevelsApart ==
    /\ cleanup \cap OnList = {}
    /\ \A i \in DOMAIN block_storage :
          /\ block_storage[i].cleanup \cap OnList = {}
          /\ block_storage[i].cleanup \cap cleanup = {}
          /\ \A j \in DOMAIN block_storage :
                i # j => block_storage[i].cleanup \cap block_storage[j].cleanup = {}

\* A function: CleanupComplete's first part says so of each in the file.
FreedOnce(f) ==
    \A r \in f.allocates :
        \/ <<r, "here">> \in f.frees /\ <<r, "by the list">> \notin f.frees
        \/ /\ <<r, "by the list">> \in f.frees /\ <<r, "here">> \notin f.frees
           /\ <<RustWasm!CleanupList, "here">> \in f.frees
FuncFine(f) == f.uses \subseteq f.declares /\ FreedOnce(f)

\* The text after Return lacks the declaration of the list only.
Complete ==
    /\ src.uses \subseteq src.declares
                     \cup (IF needs_cleanup_list THEN {RustWasm!CleanupList} ELSE {})
    /\ FreedOnce(src)
    /\ ~in_import => src.frees = {}

GuestInv ==
    /\ GuestTyped
    /\ GuestPhases
    /\ phase # "returned" => TextsFine /\ LevelsApart
    /\ phase = "returned" => Complete
    /\ \A f \in funcs \cup file.funcs : FuncFine(f)

(***************************************************************************)
(* The texts of the guest's generator.                                     *)
(***************************************************************************)

LEMMA ThenIs ==
    ASSUME NEW t \in Text, NEW u \in Text
    PROVE  /\ RustWasm!Then(t, u) \in Text
           /\ RustWasm!Then(t, u).declares = t.declares \cup u.declares
           /\ RustWasm!Then(t, u).uses = t.uses \cup u.uses
           /\ RustWasm!Then(t, u).allocates = t.allocates \cup u.allocates
           /\ RustWasm!Then(t, u).frees = t.frees \cup u.frees
<1>1. PICK s : s = RustWasm!Then(t, u)
  OBVIOUS
<1> DEFINE F == {"declares", "uses", "allocates", "frees"}
<1>2. DOMAIN t = F
  BY DEF Text
<1>3. s = [field \in F |-> t[field] \cup u[field]]
  BY <1>1, <1>2, Zenon DEF RustWasm!Then
<1>4. /\ s.declares = t.declares \cup u.declares /\ s.uses = t.uses \cup u.uses
      /\ s.allocates = t.allocates \cup u.allocates /\ s.frees = t.frees \cup u.frees
  BY <1>3
<1>5. /\ t.declares \cup u.declares \in SUBSET Var /\ t.uses \cup u.uses \in SUBSET Var
      /\ t.allocates \cup u.allocates \in SUBSET Var
      /\ t.frees \cup u.frees \in SUBSET (Var \X Freed)
  BY DEF Text
<1>6. s = [declares |-> s.declares, uses |-> s.uses, allocates |-> s.allocates, frees |-> s.frees]
  BY <1>3
<1>7. s \in Text
  BY <1>4, <1>5, <1>6 DEF Text
<1> QED BY <1>1, <1>4, <1>7

\* Texts that add one thing or two.
LEMMA EmptyIs ==
    /\ RustWasm!Empty \in Text
    /\ RustWasm!Empty.declares = {} /\ RustWasm!Empty.uses = {}
    /\ RustWasm!Empty.allocates = {} /\ RustWasm!Empty.frees = {}
BY DEF Text, RustWasm!Empty

LEMMA WithIs ==
    ASSUME NEW u, NEW a, NEW f
    PROVE  [RustWasm!Empty EXCEPT !.uses = u, !.allocates = a, !.frees = f]
             = [declares |-> {}, uses |-> u, allocates |-> a, frees |-> f]
<1>1. \A d, v, b, g, x : /\ [[declares |-> d, uses |-> v, allocates |-> b, frees |-> g] EXCEPT !.uses = x]
                             = [declares |-> d, uses |-> x, allocates |-> b, frees |-> g]
                        /\ [[declares |-> d, uses |-> v, allocates |-> b, frees |-> g] EXCEPT !.allocates = x]
                             = [declares |-> d, uses |-> v, allocates |-> x, frees |-> g]
                        /\ [[declares |-> d, uses |-> v, allocates |-> b, frees |-> g] EXCEPT !.frees = x]
                             = [declares |-> d, uses |-> v, allocates |-> b, frees |-> x]
  OBVIOUS
<1>2. PICK e : e = [declares |-> {}, uses |-> u, allocates |-> {}, frees |-> {}]
  OBVIOUS
<1>3. PICK g : g = [declares |-> {}, uses |-> u, allocates |-> a, frees |-> {}]
  OBVIOUS
<1>4. e = [RustWasm!Empty EXCEPT !.uses = u]
  BY <1>1, <1>2 DEF RustWasm!Empty
<1>5. g = [e EXCEPT !.allocates = a]
  BY <1>1, <1>2, <1>3
<1>6. [g EXCEPT !.frees = f] = [declares |-> {}, uses |-> u, allocates |-> a, frees |-> f]
  BY <1>1, <1>3
<1> QED BY <1>4, <1>5, <1>6

LEMMA UseAndFreeIs ==
    ASSUME NEW u, NEW f
    PROVE  [RustWasm!Empty EXCEPT !.uses = u, !.frees = f]
             = [declares |-> {}, uses |-> u, allocates |-> {}, frees |-> f]
<1>1. \A d, v, a, g, x :
         /\ [[declares |-> d, uses |-> v, allocates |-> a, frees |-> g] EXCEPT !.uses = x]
              = [declares |-> d, uses |-> x, allocates |-> a, frees |-> g]
         /\ [[declares |-> d, uses |-> v, allocates |-> a, frees |-> g] EXCEPT !.frees = x]
              = [declares |-> d, uses |-> v, allocates |-> a, frees |-> x]
  OBVIOUS
<1>2. PICK g : g = [declares |-> {}, uses |-> u, allocates |-> {}, frees |-> {}]
  OBVIOUS
<1>3. g = [RustWasm!Empty EXCEPT !.uses = u]
  BY <1>1, <1>2 DEF RustWasm!Empty
<1>4. [g EXCEPT !.frees = f] = [declares |-> {}, uses |-> u, allocates |-> {}, frees |-> f]
  BY <1>1, <1>2
<1> QED BY <1>3, <1>4

\* Of blocks in braces, what is used and not declared there is used, and what
\* they allocate and free is.
LEMMA BracesAre ==
    ASSUME GuestTyped, NEW n \in Nat, n <= Len(blocks)
    PROVE  LET last == (Len(blocks) - n + 1)..Len(blocks)
               b == RustWasm!InBraces(n)
           IN  /\ last \subseteq DOMAIN blocks
               /\ b \in Text /\ b.declares = {}
               /\ \A x \in b.uses : \E i \in last : x \in blocks[i].uses \ blocks[i].declares
               /\ \A x \in b.allocates : \E i \in last : x \in blocks[i].allocates
               /\ \A x : x \in b.frees <=> \E i \in last : x \in blocks[i].frees
<1> DEFINE last == (Len(blocks) - n + 1)..Len(blocks)
           them == {blocks[i] : i \in last}
           uses == UNION {t.uses \ t.declares : t \in them}
           allocates == UNION {t.allocates : t \in them}
           frees == UNION {t.frees : t \in them}
<1>1. blocks \in Seq(Text) /\ Len(blocks) \in Nat /\ DOMAIN blocks = 1..Len(blocks)
  BY DEF GuestTyped
<1>2. last \subseteq DOMAIN blocks
  BY <1>1
<1>3. \A i \in last : blocks[i] \in Text
  BY <1>1, <1>2
<1>4. RustWasm!InBraces(n)
        = [declares |-> {}, uses |-> uses, allocates |-> allocates, frees |-> frees]
  <2>1. RustWasm!InBraces(n)
          = [RustWasm!Empty EXCEPT !.uses = uses, !.allocates = allocates, !.frees = frees]
    BY Zenon DEF RustWasm!InBraces
  <2> HIDE DEF uses, allocates, frees
  <2> QED BY <2>1, WithIs
<1>5. uses \in SUBSET Var /\ allocates \in SUBSET Var /\ frees \in SUBSET (Var \X Freed)
  <2>1. \A t \in them : t \in Text
    BY <1>3
  <2>2. \A t \in them : t.uses \subseteq Var /\ t.allocates \subseteq Var /\ t.frees \subseteq Var \X Freed
    BY <2>1 DEF Text
  <2> HIDE DEF them
  <2> QED BY <2>2
<1>6. /\ \A x \in uses : \E i \in last : x \in blocks[i].uses \ blocks[i].declares
      /\ \A x \in allocates : \E i \in last : x \in blocks[i].allocates
      /\ \A x : x \in frees <=> \E i \in last : x \in blocks[i].frees
  <2>1. \A x \in uses : \E i \in last : x \in blocks[i].uses \ blocks[i].declares
    OBVIOUS
  <2>2. \A x \in allocates : \E i \in last : x \in blocks[i].allocates
    OBVIOUS
  <2>3. \A x : x \in frees <=> \E i \in last : x \in blocks[i].frees
    OBVIOUS
  <2> QED BY <2>1, <2>2, <2>3
<1> HIDE DEF last, uses, allocates, frees
<1>7. PICK b : b = RustWasm!InBraces(n)
  OBVIOUS
<1>8. /\ b \in Text /\ b.declares = {} /\ b.uses = uses
      /\ b.allocates = allocates /\ b.frees = frees
  BY <1>4, <1>5, <1>7 DEF Text
<1> QED BY <1>2, <1>6, <1>7, <1>8 DEF last

\* A text that is fine stays so while results are added and the list, once
\* needed, stays needed.
LEMMA ResultsGrow ==
    ASSUME tmp \in Nat, tmp' \in Nat, tmp' >= tmp
    PROVE  Results \subseteq Results'
<1>1. 0..(tmp - 1) \subseteq 0..(tmp' - 1)
  <2>1. \A i, j \in Nat : j >= i => 0..(i - 1) \subseteq 0..(j - 1)
    OBVIOUS
  <2> QED BY <2>1
<1> QED BY <1>1, Zenon DEF Results, RustWasm!Result

LEMMA TextKept ==
    ASSUME NEW t, NEW c, TextFine(t, c), Results \subseteq Results', UNCHANGED in_import,
           needs_cleanup_list => needs_cleanup_list'
    PROVE  TextFine(t, c)'
BY DEF TextFine, RustWasm!CleanupList

\* All that is on the list is a result.
LEMMA OnListResults ==
    ASSUME GuestTyped, TextsFine
    PROVE  OnList \subseteq Results
<1>1. ASSUME NEW t, NEW c, TextFine(t, c) PROVE Listed(t) \subseteq Results
  BY <1>1 DEF TextFine, Listed
<1>2. Listed(src) \subseteq Results
  BY <1>1 DEF TextsFine
<1>3. \A i \in DOMAIN block_storage : Listed(block_storage[i].src) \subseteq Results
  BY <1>1 DEF TextsFine
<1>4. \A i \in DOMAIN blocks : Listed(blocks[i]) \subseteq Results
  BY <1>1 DEF TextsFine
<1> QED BY <1>2, <1>3, <1>4, Zenon DEF OnList

\* A step in the middle of a function keeps what has been put out.
LEMMA FuncsKept ==
    ASSUME GuestInv, UNCHANGED <<funcs, file>>
    PROVE  \A f \in funcs' \cup file'.funcs : FuncFine(f)'
BY DEF GuestInv, FuncFine, FreedOnce, RustWasm!CleanupList

\* An instruction: its text declares new results, some of which are to be
\* freed at this level, and takes in the last blocks with what they free.
LEMMA GuestEmitting ==
    ASSUME GuestInv, NEW t \in Text, NEW n \in Nat, RustWasm!Emit(t, n),
           NEW owned \in SUBSET Var,
           t.uses = {}, t.frees = {}, t.allocates = owned, owned \subseteq t.declares,
           cleanup' = cleanup \cup owned, tmp' \in Nat, tmp' >= tmp,
           owned \subseteq Results', owned \cap Results = {}, ~in_import => owned = {},
           in_import => handles_for_func' = {}
    PROVE  GuestInv'
<1>1. /\ phase = "func" /\ phase' = phase /\ n <= Len(blocks)
      /\ src' = RustWasm!Then(RustWasm!Then(src, RustWasm!InBraces(n)), t)
      /\ blocks' = SubSeq(blocks, 1, Len(blocks) - n)
      /\ UNCHANGED <<in_import, block_storage, needs_cleanup_list, funcs, file>>
  <2>1. Len(blocks) \in Nat
    BY DEF GuestInv, GuestTyped
  <2> QED BY <2>1 DEF RustWasm!Emit, RustWasm!made
<1>2. GuestTyped /\ GuestPhases /\ TextsFine /\ LevelsApart
  BY <1>1 DEF GuestInv
<1>3. PICK b : b = RustWasm!InBraces(n)
  OBVIOUS
<1>4. PICK last : last = (Len(blocks) - n + 1)..Len(blocks)
  OBVIOUS
<1>5. /\ last \subseteq DOMAIN blocks /\ b \in Text /\ b.declares = {}
      /\ \A x \in b.uses : \E i \in last : x \in blocks[i].uses \ blocks[i].declares
      /\ \A x \in b.allocates : \E i \in last : x \in blocks[i].allocates
      /\ \A x : x \in b.frees <=> \E i \in last : x \in blocks[i].frees
  BY <1>1, <1>2, <1>3, <1>4, BracesAre
<1>6. /\ src' \in Text
      /\ src'.declares = src.declares \cup t.declares /\ src'.uses = src.uses \cup b.uses
      /\ src'.allocates = src.allocates \cup b.allocates \cup owned
      /\ src'.frees = src.frees \cup b.frees
  <2>1. src \in Text
    BY <1>2 DEF GuestTyped
  <2>2. PICK s : s = RustWasm!Then(src, b)
    OBVIOUS
  <2>3. /\ s \in Text /\ s.declares = src.declares \cup b.declares /\ s.uses = src.uses \cup b.uses
        /\ s.allocates = src.allocates \cup b.allocates /\ s.frees = src.frees \cup b.frees
    BY <1>5, <2>1, <2>2, ThenIs
  <2>4. src' = RustWasm!Then(s, t)
    BY <1>1, <1>3, <2>2
  <2>5. /\ src' \in Text /\ src'.declares = s.declares \cup t.declares
        /\ src'.uses = s.uses \cup t.uses /\ src'.allocates = s.allocates \cup t.allocates
        /\ src'.frees = s.frees \cup t.frees
    BY <2>3, <2>4, ThenIs
  <2> QED BY <1>5, <2>3, <2>5
<1>7. /\ blocks' \in Seq(Text)
      /\ \A i \in DOMAIN blocks' : i \in DOMAIN blocks /\ blocks'[i] = blocks[i]
  <2>1. blocks \in Seq(Text) /\ Len(blocks) \in Nat /\ DOMAIN blocks = 1..Len(blocks)
    BY <1>2 DEF GuestTyped
  <2>2. PICK m : m = Len(blocks) - n
    OBVIOUS
  <2>3. m \in 0..Len(blocks)
    BY <1>1, <2>1, <2>2
  <2>4. /\ SubSeq(blocks, 1, m) \in Seq(Text) /\ DOMAIN SubSeq(blocks, 1, m) = 1..m
        /\ \A i \in 1..m : SubSeq(blocks, 1, m)[i] = blocks[i]
    BY <2>1, <2>3, SubSeqProperties
  <2> QED BY <1>1, <2>1, <2>2, <2>3, <2>4
<1>8. Results \subseteq Results'
  BY <1>2, ResultsGrow DEF GuestTyped
<1>9. GuestTyped' /\ GuestPhases'
  BY <1>1, <1>2, <1>6, <1>7 DEF GuestTyped, GuestPhases
<1>10. /\ b.uses \subseteq {RustWasm!CleanupList} /\ (b.uses # {} => needs_cleanup_list)
       /\ b.allocates \subseteq Listed(b)
       /\ b.frees \subseteq Results \X {"by the list"} /\ (b.frees # {} => needs_cleanup_list)
       /\ Listed(b) \subseteq OnList
  <2>1. \A i \in last : TextFine(blocks[i], {}) /\ i \in DOMAIN blocks
    BY <1>2, <1>5 DEF TextsFine
  <2>2. \A i \in last : /\ blocks[i].uses \ blocks[i].declares \subseteq {RustWasm!CleanupList}
                        /\ (RustWasm!CleanupList \in blocks[i].uses => needs_cleanup_list)
                        /\ blocks[i].allocates \subseteq Listed(blocks[i])
                        /\ blocks[i].frees \subseteq Results \X {"by the list"}
                        /\ (blocks[i].frees # {} => needs_cleanup_list)
    BY <2>1, Zenon DEF TextFine
  <2>3. \A i \in last : Listed(blocks[i]) \subseteq Listed(b)
    BY <1>5 DEF Listed
  <2>4. \A x \in Listed(b) : \E i \in last : x \in Listed(blocks[i])
    BY <1>5 DEF Listed
  <2>5. Listed(b) \subseteq OnList
    BY <2>1, <2>4 DEF OnList
  <2> QED BY <1>5, <2>2, <2>3, <2>5
<1>11. TextFine(src, cleanup)
  BY <1>2 DEF TextsFine
<1>12. Listed(src') = Listed(src) \cup Listed(b)
  BY <1>6 DEF Listed
<1>13. TextFine(src, cleanup)'
  <2>1. PICK s : s = src'
    OBVIOUS
  <2>2. PICK c : c = cleanup'
    OBVIOUS
  <2>3. s.uses \subseteq s.declares \cup {RustWasm!CleanupList}
    BY <1>6, <1>10, <1>11, <2>1 DEF TextFine
  <2>4. RustWasm!CleanupList \in s.uses => needs_cleanup_list
    BY <1>6, <1>10, <1>11, <2>1 DEF TextFine
  <2>5. c \subseteq s.declares /\ c \subseteq Results'
    BY <1>6, <1>8, <1>11, <2>1, <2>2 DEF TextFine
  <2>6. s.allocates \subseteq c \cup Listed(s)
    BY <1>6, <1>10, <1>11, <1>12, <2>1, <2>2 DEF TextFine
  <2>7. s.frees \subseteq Results' \X {"by the list"}
    BY <1>6, <1>8, <1>10, <1>11, <2>1 DEF TextFine
  <2>8. s.frees # {} => needs_cleanup_list
    BY <1>6, <1>10, <1>11, <2>1 DEF TextFine
  <2>9. ~in_import => c = {}
    BY <1>11, <2>2 DEF TextFine
  <2>10. TextFine(s, c)'
    BY <1>1, <2>3, <2>4, <2>5, <2>6, <2>7, <2>8, <2>9, Zenon
       DEF TextFine, Listed, Var, RustWasm!Result, RustWasm!CleanupList
  <2> QED BY <2>1, <2>2, <2>10
<1>14. TextsFine'
  <2>1. ASSUME NEW i \in DOMAIN block_storage
        PROVE  TextFine(block_storage[i].src, block_storage[i].cleanup)'
    <3>1. PICK s : s = block_storage[i].src
      OBVIOUS
    <3>2. PICK c : c = block_storage[i].cleanup
      OBVIOUS
    <3>3. TextFine(s, c)'
      BY <1>1, <1>2, <1>8, <3>1, <3>2, TextKept DEF TextsFine
    <3> QED BY <1>1, <3>1, <3>2, <3>3
  <2>2. ASSUME NEW i \in DOMAIN blocks'
        PROVE  TextFine(blocks[i], {})'
    <3>1. PICK s : s = blocks[i]
      OBVIOUS
    <3>2. TextFine(s, {})'
      BY <1>1, <1>2, <1>7, <1>8, <3>1, TextKept DEF TextsFine
    <3> QED BY <1>7, <3>1, <3>2
  <2> QED BY <1>1, <1>13, <2>1, <2>2 DEF TextsFine
<1>15. LevelsApart'
  <2>1. OnList' \subseteq OnList
    <3>1. Listed(src') \subseteq OnList
      BY <1>10, <1>12 DEF OnList
    <3>2. \A i \in DOMAIN block_storage' : Listed(block_storage'[i].src) \subseteq OnList
      BY <1>1 DEF OnList
    <3>3. \A i \in DOMAIN blocks' : Listed(blocks'[i]) \subseteq OnList
      BY <1>7 DEF OnList
    <3>4. OnList' = Listed(src') \cup (UNION {Listed(block_storage'[i].src) : i \in DOMAIN block_storage'})
                                 \cup (UNION {Listed(blocks'[i]) : i \in DOMAIN blocks'})
      BY DEF OnList, Listed, Var, RustWasm!Result, RustWasm!CleanupList
    <3> QED BY <3>1, <3>2, <3>3, <3>4
  <2>2. OnList \subseteq Results
    BY <1>2, OnListResults
  <2>3. cleanup' \cap OnList' = {}
    BY <1>2, <2>1, <2>2 DEF LevelsApart
  <2>4. ASSUME NEW i \in DOMAIN block_storage
        PROVE  block_storage[i].cleanup \cap OnList' = {} /\ block_storage[i].cleanup \cap cleanup' = {}
    <3>1. block_storage[i].cleanup \subseteq Results
      BY <1>2, <2>4 DEF TextsFine, TextFine
    <3>2. block_storage[i].cleanup \cap OnList = {} /\ block_storage[i].cleanup \cap cleanup = {}
      BY <1>2 DEF LevelsApart
    <3> QED BY <2>1, <3>1, <3>2
  <2> QED BY <1>1, <1>2, <2>3, <2>4 DEF LevelsApart
<1> QED BY <1>1, <1>9, <1>14, <1>15, FuncsKept DEF GuestInv

LEMMA GuestText ==
    ASSUME GuestInv, NEW n \in Nat, RustWasm!Emit(RustWasm!Empty, n),
           UNCHANGED <<cleanup, tmp>>, in_import => UNCHANGED handles_for_func
    PROVE  GuestInv'
<1>1. GuestTyped /\ GuestPhases
  BY DEF GuestInv
<1>2. PICK t \in Text : t = RustWasm!Empty
  BY EmptyIs
<1>3. t.uses = {} /\ t.frees = {} /\ t.allocates = {}
  BY <1>2, EmptyIs
<1>4. PICK owned \in SUBSET Var : owned = {}
  OBVIOUS
<1>5. /\ t.allocates = owned /\ owned \subseteq t.declares /\ cleanup' = cleanup \cup owned
      /\ owned \subseteq Results' /\ owned \cap Results = {} /\ (~in_import => owned = {})
  BY <1>3, <1>4
<1>6. tmp' \in Nat /\ tmp' >= tmp /\ (in_import => handles_for_func' = {})
  BY <1>1 DEF GuestTyped, GuestPhases
<1> QED BY <1>2, <1>3, <1>5, <1>6, GuestEmitting

\* A list that an import lowers is a new result, which this level frees.
LEMMA GuestListLower ==
    ASSUME GuestInv, RustWasm!ListLower
    PROVE  GuestInv'
<1>1. GuestTyped /\ GuestPhases
  BY DEF GuestInv
<1>2. PICK result : result = RustWasm!Result(tmp)
  OBVIOUS
<1>3. PICK owned : owned = IF in_import THEN {result} ELSE {}
  OBVIOUS
<1>4. PICK t : t = [RustWasm!Empty EXCEPT !.declares = {result}, !.allocates = owned]
  OBVIOUS
<1>5. /\ RustWasm!Emit(t, 1) /\ cleanup' = cleanup \cup owned /\ tmp' = tmp + 1
      /\ UNCHANGED handles_for_func
  BY <1>2, <1>3, <1>4 DEF RustWasm!ListLower
<1>6. result \in Var /\ owned \in SUBSET Var
  <2>1. result \in Var
    BY <1>1, <1>2, Zenon DEF GuestTyped, Var, RustWasm!Result
  <2> QED BY <1>3, <2>1
<1>7. /\ t \in Text /\ t.declares = {result} /\ t.allocates = owned /\ t.uses = {} /\ t.frees = {}
  <2>1. \A x, y : [RustWasm!Empty EXCEPT !.declares = x, !.allocates = y]
                    = [declares |-> x, uses |-> {}, allocates |-> y, frees |-> {}]
    <3>1. \A d, v, b, g, x :
             /\ [[declares |-> d, uses |-> v, allocates |-> b, frees |-> g] EXCEPT !.declares = x]
                  = [declares |-> x, uses |-> v, allocates |-> b, frees |-> g]
             /\ [[declares |-> d, uses |-> v, allocates |-> b, frees |-> g] EXCEPT !.allocates = x]
                  = [declares |-> d, uses |-> v, allocates |-> x, frees |-> g]
      OBVIOUS
    <3> SUFFICES ASSUME NEW x, NEW y
                 PROVE  [RustWasm!Empty EXCEPT !.declares = x, !.allocates = y]
                          = [declares |-> x, uses |-> {}, allocates |-> y, frees |-> {}]
      OBVIOUS
    <3>2. PICK e : e = [declares |-> x, uses |-> {}, allocates |-> {}, frees |-> {}]
      OBVIOUS
    <3>3. e = [RustWasm!Empty EXCEPT !.declares = x]
      BY <3>1, <3>2 DEF RustWasm!Empty
    <3>4. [e EXCEPT !.allocates = y] = [declares |-> x, uses |-> {}, allocates |-> y, frees |-> {}]
      BY <3>1, <3>2
    <3> QED BY <3>3, <3>4
  <2>2. t = [declares |-> {result}, uses |-> {}, allocates |-> owned, frees |-> {}]
    BY <1>4, <2>1
  <2> QED BY <1>6, <2>2 DEF Text
<1>8. result \in Results' /\ result \notin Results
  <2>1. tmp \in 0..(tmp' - 1) /\ \A k \in 0..(tmp - 1) : k # tmp
    BY <1>1, <1>5 DEF GuestTyped
  <2>2. result \in Results'
    BY <1>2, <2>1, Zenon DEF Results, RustWasm!Result
  <2>3. \A k \in 0..(tmp - 1) : result # RustWasm!Result(k)
    BY <1>2, <2>1 DEF RustWasm!Result
  <2> QED BY <2>2, <2>3, Zenon DEF Results
<1>9. /\ owned \subseteq t.declares /\ owned \subseteq Results' /\ owned \cap Results = {}
      /\ (~in_import => owned = {}) /\ tmp' \in Nat /\ tmp' >= tmp
      /\ (in_import => handles_for_func' = {})
  <2>1. owned \subseteq {result}
    BY <1>3
  <2>2. owned \subseteq t.declares /\ owned \subseteq Results' /\ owned \cap Results = {}
    BY <1>7, <1>8, <2>1
  <2>3. tmp' \in Nat /\ tmp' >= tmp
    BY <1>1, <1>5 DEF GuestTyped
  <2> QED BY <1>1, <1>3, <1>5, <2>2, <2>3 DEF GuestPhases
<1> QED BY <1>5, <1>6, <1>7, <1>9, GuestEmitting

LEMMA GuestInstruction ==
    ASSUME GuestInv, RustWasm!Instruction
    PROVE  GuestInv'
<1>1. ASSUME NEW n \in Nat, RustWasm!Text(RustWasm!Empty, n) PROVE GuestInv'
  BY <1>1, GuestText DEF RustWasm!Text
<1>2. CASE \/ RustWasm!Plain \/ RustWasm!LoadStore \/ RustWasm!CallWasm \/ RustWasm!CallInterface
           \/ RustWasm!ListCanonLower \/ RustWasm!ListCanonLift
  BY <1>1, <1>2 DEF RustWasm!Plain, RustWasm!LoadStore, RustWasm!CallWasm,
                    RustWasm!CallInterface, RustWasm!ListCanonLower, RustWasm!ListCanonLift
<1>3. CASE RustWasm!VariantLower \/ RustWasm!VariantLift \/ RustWasm!ListLift
  BY <1>1, <1>3 DEF RustWasm!VariantLower, RustWasm!VariantLift, RustWasm!ListLift
<1>4. ASSUME NEW raw \in BOOLEAN, RustWasm!BufferLowerPtrLen(raw) \/ RustWasm!BufferLiftHandle(raw)
      PROVE  GuestInv'
  BY <1>1, <1>4 DEF RustWasm!BufferLowerPtrLen, RustWasm!BufferLiftHandle
<1>5. ASSUME NEW h \in HandleType,
             RustWasm!I32FromOwnedHandle(h) \/ RustWasm!HandleBorrowedFromI32(h)
      PROVE  GuestInv'
  <2>1. RustWasm!Emit(RustWasm!Empty, 0) /\ ~in_import /\ UNCHANGED <<cleanup, tmp>>
    BY <1>5 DEF RustWasm!I32FromOwnedHandle, RustWasm!HandleBorrowedFromI32
  <2> QED BY <2>1, GuestText
<1>6. CASE RustWasm!ListLower
  BY <1>6, GuestListLower
<1> QED BY <1>2, <1>3, <1>4, <1>5, <1>6 DEF RustWasm!Instruction

\* What is on the list, when the texts are among others or are added to.
LEMMA OnListPrimed ==
    OnList' = Listed(src') \cup (UNION {Listed(block_storage'[i].src) : i \in DOMAIN block_storage'})
                           \cup (UNION {Listed(blocks'[i]) : i \in DOMAIN blocks'})
BY DEF OnList, Listed, Var, RustWasm!Result, RustWasm!CleanupList

LEMMA GuestPush ==
    ASSUME GuestInv, RustWasm!push_block
    PROVE  GuestInv'
<1>1. /\ phase = "func" /\ phase' = phase /\ src' = RustWasm!Empty /\ cleanup' = {}
      /\ block_storage' = Append(block_storage, [src |-> src, cleanup |-> cleanup])
      /\ UNCHANGED <<in_import, blocks, needs_cleanup_list, handles_for_func, tmp, funcs, file>>
  BY DEF RustWasm!push_block, RustWasm!made
<1>2. GuestTyped /\ GuestPhases /\ TextsFine /\ LevelsApart
  BY <1>1 DEF GuestInv
<1>3. PICK level \in Level : /\ block_storage' = Append(block_storage, level)
                             /\ level.src = src /\ level.cleanup = cleanup
  <2>1. PICK level : level = [src |-> src, cleanup |-> cleanup]
    OBVIOUS
  <2>2. level \in Level /\ level.src = src /\ level.cleanup = cleanup
    BY <1>2, <2>1 DEF GuestTyped, Level
  <2> QED BY <1>1, <2>1, <2>2
<1>4. PICK m \in Nat : m = Len(block_storage)
  BY <1>2 DEF GuestTyped
<1>5. /\ block_storage' \in Seq(Level) /\ DOMAIN block_storage = 1..m
      /\ DOMAIN block_storage' = 1..(m + 1) /\ block_storage'[m + 1] = level
      /\ \A i \in 1..m : block_storage'[i] = block_storage[i]
  BY <1>2, <1>3, <1>4 DEF GuestTyped
<1>6. \A i \in 1..(m + 1) : i \in 1..m \/ (i = m + 1 /\ i \notin 1..m)
  OBVIOUS
<1>7. GuestTyped' /\ GuestPhases'
  BY <1>1, <1>2, <1>5, EmptyIs DEF GuestTyped, GuestPhases
<1>8. Results \subseteq Results'
  BY <1>1, Zenon DEF Results, RustWasm!Result
<1>9. TextsFine'
  <2>1. TextFine(src, cleanup)'
    <3>1. TextFine(RustWasm!Empty, {})
      BY EmptyIs DEF TextFine
    <3>2. PICK t : t = RustWasm!Empty
      OBVIOUS
    <3>3. TextFine(t, {})'
      BY <1>1, <1>8, <3>1, <3>2, TextKept
    <3> QED BY <1>1, <3>2, <3>3
  <2>2. ASSUME NEW i \in DOMAIN block_storage'
        PROVE  TextFine(block_storage[i].src, block_storage[i].cleanup)'
    <3>1. PICK t : t = block_storage'[i].src
      OBVIOUS
    <3>2. PICK c : c = block_storage'[i].cleanup
      OBVIOUS
    <3>3. TextFine(t, c)
      BY <1>2, <1>3, <1>5, <1>6, <3>1, <3>2 DEF TextsFine
    <3>4. TextFine(t, c)'
      BY <1>1, <1>8, <3>3, TextKept
    <3> QED BY <3>1, <3>2, <3>4
  <2>3. ASSUME NEW i \in DOMAIN blocks'
        PROVE  TextFine(blocks[i], {})'
    <3>1. PICK t : t = blocks[i]
      OBVIOUS
    <3>2. TextFine(t, {})'
      BY <1>1, <1>2, <1>8, <3>1, TextKept DEF TextsFine
    <3> QED BY <1>1, <3>1, <3>2
  <2> QED BY <2>1, <2>2, <2>3 DEF TextsFine
<1>10. LevelsApart'
  <2>1. OnList' \subseteq OnList
    <3>1. Listed(src') = {}
      BY <1>1, EmptyIs DEF Listed
    <3>2. \A i \in DOMAIN block_storage' : Listed(block_storage'[i].src) \subseteq OnList
      BY <1>3, <1>5, <1>6 DEF OnList
    <3>3. \A i \in DOMAIN blocks' : Listed(blocks'[i]) \subseteq OnList
      BY <1>1 DEF OnList
    <3> QED BY <3>1, <3>2, <3>3, OnListPrimed
  <2>2. ASSUME NEW i \in DOMAIN block_storage'
        PROVE  /\ block_storage'[i].cleanup \cap OnList' = {}
               /\ \A j \in DOMAIN block_storage' :
                     i # j => block_storage'[i].cleanup \cap block_storage'[j].cleanup = {}
    <3>1. block_storage'[i].cleanup \cap OnList' = {}
      BY <1>2, <1>3, <1>5, <1>6, <2>1 DEF LevelsApart
    <3>2. ASSUME NEW j \in DOMAIN block_storage', i # j
          PROVE  block_storage'[i].cleanup \cap block_storage'[j].cleanup = {}
      BY <1>2, <1>3, <1>5, <1>6, <3>2 DEF LevelsApart
    <3> QED BY <3>1, <3>2
  <2> QED BY <1>1, <2>2 DEF LevelsApart
<1> QED BY <1>1, <1>7, <1>9, <1>10, FuncsKept DEF GuestInv

\* The end of a block: what it is to free goes on the list.
LEMMA BlockListed ==
    ASSUME GuestTyped, TextFine(src, cleanup),
           needs_cleanup_list' = (needs_cleanup_list \/ cleanup # {}),
           UNCHANGED <<in_import, tmp>>,
           NEW b, b = IF cleanup = {} THEN src ELSE RustWasm!Then(src, RustWasm!Extend)
    PROVE  b \in Text /\ TextFine(b, {})' /\ Listed(b) = Listed(src) \cup cleanup
<1>1. src \in Text /\ cleanup \in SUBSET Var
  BY DEF GuestTyped
<1>2. Results' = Results
  BY Zenon DEF Results, RustWasm!Result
<1>3. CASE cleanup = {}
  <2>1. PICK t : t = src
    OBVIOUS
  <2>2. TextFine(t, {})'
    BY <1>2, <1>3, <2>1, TextKept
  <2>3. b = src
    BY <1>3
  <2> QED BY <1>1, <1>3, <2>1, <2>2, <2>3
<1>4. CASE cleanup # {}
  <2> DEFINE frees == {<<r, "by the list">> : r \in cleanup}
             uses == cleanup \cup {RustWasm!CleanupList}
  <2>1. PICK e : e = RustWasm!Extend
    OBVIOUS
  <2>2. e = [declares |-> {}, uses |-> uses, allocates |-> {}, frees |-> frees]
    <3>1. RustWasm!Extend = [RustWasm!Empty EXCEPT !.uses = uses, !.frees = frees]
      BY Zenon DEF RustWasm!Extend
    <3> HIDE DEF uses, frees
    <3> QED BY <2>1, <3>1, UseAndFreeIs
  <2>3. frees \subseteq cleanup \X {"by the list"}
    <3> SUFFICES ASSUME NEW r \in cleanup PROVE <<r, "by the list">> \in cleanup \X {"by the list"}
      BY Zenon
    <3> QED OBVIOUS
  <2>4. \A r : r \in cleanup <=> <<r, "by the list">> \in frees
    OBVIOUS
  <2>5. uses \in SUBSET Var /\ frees \in SUBSET (Var \X Freed)
    <3>1. RustWasm!CleanupList \in Var
      BY Zenon DEF Var
    <3>2. cleanup \X {"by the list"} \subseteq Var \X Freed
      BY <1>1 DEF Freed
    <3> HIDE DEF frees
    <3> QED BY <1>1, <2>3, <3>1, <3>2
  <2> HIDE DEF frees
  <2>6. e \in Text /\ e.declares = {} /\ e.uses = uses /\ e.allocates = {} /\ e.frees = frees
    <3> HIDE DEF uses
    <3> QED BY <2>2, <2>5 DEF Text
  <2>7. b = RustWasm!Then(src, e)
    BY <1>4, <2>1
  <2>8. /\ b \in Text /\ b.declares = src.declares /\ b.uses = src.uses \cup uses
        /\ b.allocates = src.allocates /\ b.frees = src.frees \cup frees
    <3> HIDE DEF uses
    <3>1. e \in Text
      BY <2>6
    <3>2. /\ b \in Text /\ b.declares = src.declares \cup e.declares /\ b.uses = src.uses \cup e.uses
          /\ b.allocates = src.allocates \cup e.allocates /\ b.frees = src.frees \cup e.frees
      BY <1>1, <2>7, <3>1, ThenIs
    <3> QED BY <2>6, <3>2
  <2>9. Listed(b) = Listed(src) \cup cleanup
    BY <1>1, <2>4, <2>8 DEF Listed
  <2>10. /\ b.uses \subseteq b.declares \cup {RustWasm!CleanupList}
         /\ b.allocates \subseteq Listed(b) /\ b.frees \subseteq Results' \X {"by the list"}
    <3>1. b.uses \subseteq b.declares \cup {RustWasm!CleanupList}
      BY <2>8 DEF TextFine
    <3>2. b.allocates \subseteq Listed(b)
      BY <2>8, <2>9 DEF TextFine
    <3>3. frees \subseteq Results \X {"by the list"} /\ src.frees \subseteq Results \X {"by the list"}
      BY <2>3 DEF TextFine
    <3> QED BY <1>2, <2>8, <3>1, <3>2, <3>3
  <2>11. TextFine(b, {})'
    <3>1. needs_cleanup_list' = TRUE
      BY <1>4
    <3> QED BY <2>10, <3>1 DEF TextFine, Listed, Var, RustWasm!Result, RustWasm!CleanupList
  <2> QED BY <2>8, <2>9, <2>11
<1> QED BY <1>3, <1>4

LEMMA GuestPop ==
    ASSUME GuestInv, RustWasm!finish_block
    PROVE  GuestInv'
<1>1. /\ phase = "func" /\ phase' = phase /\ block_storage # <<>>
      /\ needs_cleanup_list' = (needs_cleanup_list \/ cleanup # {})
      /\ blocks' = Append(blocks, IF cleanup = {} THEN src ELSE RustWasm!Then(src, RustWasm!Extend))
      /\ src' = block_storage[Len(block_storage)].src
      /\ cleanup' = block_storage[Len(block_storage)].cleanup
      /\ block_storage' = SubSeq(block_storage, 1, Len(block_storage) - 1)
      /\ UNCHANGED <<in_import, handles_for_func, tmp, funcs, file>>
  BY DEF RustWasm!finish_block, RustWasm!made, RustWasm!Last, RustWasm!Front
<1>2. GuestTyped /\ GuestPhases /\ TextsFine /\ LevelsApart
  BY <1>1 DEF GuestInv
<1>3. PICK b : b = IF cleanup = {} THEN src ELSE RustWasm!Then(src, RustWasm!Extend)
  OBVIOUS
<1>4. b \in Text /\ TextFine(b, {})' /\ Listed(b) = Listed(src) \cup cleanup
  BY <1>1, <1>2, <1>3, BlockListed DEF TextsFine
<1>5. PICK m \in Nat : Len(block_storage) = m + 1
  <2>1. Len(block_storage) \in Nat /\ Len(block_storage) >= 1
    BY <1>1, <1>2 DEF GuestTyped
  <2> QED BY <2>1
<1>6. PICK level \in Level : level = block_storage[m + 1]
  BY <1>2, <1>5 DEF GuestTyped
<1>7. /\ DOMAIN block_storage = 1..(m + 1) /\ m + 1 \in DOMAIN block_storage
      /\ block_storage' \in Seq(Level) /\ DOMAIN block_storage' = 1..m
      /\ \A i \in 1..m : /\ i \in DOMAIN block_storage /\ i # m + 1
                         /\ block_storage'[i] = block_storage[i]
      /\ src' = level.src /\ cleanup' = level.cleanup
  <2>1. block_storage \in Seq(Level)
    BY <1>2 DEF GuestTyped
  <2>2. block_storage' = SubSeq(block_storage, 1, m)
    BY <1>1, <1>5
  <2> QED BY <1>1, <1>5, <1>6, <2>1, <2>2
<1>8. PICK n \in Nat : n = Len(blocks)
  BY <1>2 DEF GuestTyped
<1>9. /\ blocks' \in Seq(Text) /\ DOMAIN blocks = 1..n /\ DOMAIN blocks' = 1..(n + 1)
      /\ blocks'[n + 1] = b /\ \A i \in 1..n : blocks'[i] = blocks[i]
  <2>1. blocks' = Append(blocks, b)
    BY <1>1, <1>3
  <2> QED BY <1>2, <1>4, <1>8, <2>1 DEF GuestTyped
<1>10. \A i \in 1..(n + 1) : i \in 1..n \/ i = n + 1
  OBVIOUS
<1>11. GuestTyped' /\ GuestPhases'
  <2>1. needs_cleanup_list' \in BOOLEAN
    BY <1>1
  <2>2. src' \in Text /\ cleanup' \in SUBSET Var
    BY <1>7 DEF Level
  <2>3. ~in_import => cleanup = {}
    BY <1>2 DEF TextsFine, TextFine
  <2> QED BY <1>1, <1>2, <1>7, <1>9, <2>1, <2>2, <2>3 DEF GuestTyped, GuestPhases
<1>12. Results \subseteq Results'
  BY <1>1, Zenon DEF Results, RustWasm!Result
<1>13. TextsFine'
  <2>1. TextFine(src, cleanup)'
    <3>1. PICK t : t = level.src
      OBVIOUS
    <3>2. PICK c : c = level.cleanup
      OBVIOUS
    <3>3. TextFine(t, c)
      BY <1>2, <1>6, <1>7, <3>1, <3>2 DEF TextsFine
    <3>4. TextFine(t, c)'
      BY <1>1, <1>12, <3>3, TextKept
    <3> QED BY <1>7, <3>1, <3>2, <3>4
  <2>2. ASSUME NEW i \in DOMAIN block_storage'
        PROVE  TextFine(block_storage[i].src, block_storage[i].cleanup)'
    <3>1. PICK t : t = block_storage[i].src
      OBVIOUS
    <3>2. PICK c : c = block_storage[i].cleanup
      OBVIOUS
    <3>3. TextFine(t, c)
      BY <1>2, <1>7, <3>1, <3>2 DEF TextsFine
    <3>4. TextFine(t, c)'
      BY <1>1, <1>12, <3>3, TextKept
    <3> QED BY <1>7, <3>1, <3>2, <3>4
  <2>3. ASSUME NEW i \in DOMAIN blocks'
        PROVE  TextFine(blocks[i], {})'
    <3>1. CASE i \in 1..n
      <4>1. PICK t : t = blocks[i]
        OBVIOUS
      <4>2. TextFine(t, {})
        BY <1>2, <1>9, <3>1, <4>1 DEF TextsFine
      <4>3. TextFine(t, {})'
        BY <1>1, <1>12, <4>2, TextKept
      <4> QED BY <1>9, <3>1, <4>1, <4>3
    <3>2. CASE i = n + 1
      BY <1>4, <1>9, <3>2
    <3> QED BY <1>9, <1>10, <3>1, <3>2
  <2> QED BY <2>1, <2>2, <2>3 DEF TextsFine
<1>14. LevelsApart'
  <2>1. OnList' \subseteq OnList \cup cleanup
    <3>1. Listed(src') \subseteq OnList
      BY <1>6, <1>7 DEF OnList
    <3>2. \A i \in DOMAIN block_storage' : Listed(block_storage'[i].src) \subseteq OnList
      BY <1>7 DEF OnList
    <3>3. \A i \in DOMAIN blocks' : Listed(blocks'[i]) \subseteq OnList \cup cleanup
      BY <1>4, <1>9, <1>10 DEF OnList
    <3> QED BY <3>1, <3>2, <3>3, OnListPrimed
  <2>2. \A i \in DOMAIN block_storage :
           /\ block_storage[i].cleanup \cap (OnList \cup cleanup) = {}
           /\ \A j \in DOMAIN block_storage :
                 i # j => block_storage[i].cleanup \cap block_storage[j].cleanup = {}
    BY <1>2 DEF LevelsApart
  <2>3. cleanup' \cap OnList' = {}
    BY <1>6, <1>7, <2>1, <2>2
  <2>4. ASSUME NEW i \in DOMAIN block_storage'
        PROVE  /\ block_storage'[i].cleanup \cap OnList' = {}
               /\ block_storage'[i].cleanup \cap cleanup' = {}
               /\ \A j \in DOMAIN block_storage' :
                     i # j => block_storage'[i].cleanup \cap block_storage'[j].cleanup = {}
    <3>1. i \in DOMAIN block_storage /\ i # m + 1 /\ block_storage'[i] = block_storage[i]
      BY <1>7
    <3>2. block_storage'[i].cleanup \cap OnList' = {}
      BY <2>1, <2>2, <3>1
    <3>3. block_storage'[i].cleanup \cap cleanup' = {}
      BY <1>6, <1>7, <2>2, <3>1
    <3>4. ASSUME NEW j \in DOMAIN block_storage', i # j
          PROVE  block_storage'[i].cleanup \cap block_storage'[j].cleanup = {}
      BY <1>7, <2>2, <3>1, <3>4
    <3> QED BY <3>2, <3>3, <3>4
  <2> QED BY <2>3, <2>4 DEF LevelsApart
<1> QED BY <1>1, <1>11, <1>13, <1>14, FuncsKept DEF GuestInv

\* Return frees what the top level is to free, and what is on the list.
LEMMA GuestReturn ==
    ASSUME GuestInv, RustWasm!Return
    PROVE  GuestInv'
<1> DEFINE loop == IF needs_cleanup_list THEN {RustWasm!CleanupList} ELSE {}
           uses == cleanup \cup loop
           frees == {<<r, "here">> : r \in uses}
<1>1. /\ phase = "func" /\ phase' = "returned" /\ block_storage = <<>> /\ blocks = <<>>
      /\ src' = RustWasm!Then(src, [RustWasm!Empty EXCEPT !.uses = uses, !.frees = frees])
      /\ cleanup' = {}
      /\ UNCHANGED <<in_import, block_storage, blocks, needs_cleanup_list, handles_for_func, tmp,
                     funcs, file>>
  BY DEF RustWasm!Return, RustWasm!made
<1>2. GuestTyped /\ GuestPhases /\ TextsFine /\ LevelsApart
  BY <1>1 DEF GuestInv
<1>3. TextFine(src, cleanup) /\ src \in Text /\ cleanup \in SUBSET Var
  BY <1>2 DEF TextsFine, GuestTyped
<1>4. uses \in SUBSET Var /\ frees \in SUBSET (Var \X Freed)
  <2>1. uses \in SUBSET Var
    <3>1. RustWasm!CleanupList \in Var
      BY Zenon DEF Var
    <3> QED BY <1>3, <3>1
  <2>2. \A r \in uses : <<r, "here">> \in Var \X Freed
    <3> HIDE DEF uses
    <3> QED BY <2>1 DEF Freed
  <2> HIDE DEF uses
  <2> QED BY <2>1, <2>2
<1>5. /\ \A r : r \in uses <=> <<r, "here">> \in frees
      /\ \A r : <<r, "by the list">> \notin frees
  <2> HIDE DEF uses
  <2> QED OBVIOUS
<1> HIDE DEF frees
<1>6. PICK e : e = [RustWasm!Empty EXCEPT !.uses = uses, !.frees = frees]
  OBVIOUS
<1>7. e \in Text /\ e.declares = {} /\ e.uses = uses /\ e.allocates = {} /\ e.frees = frees
  <2> HIDE DEF uses
  <2>1. e = [declares |-> {}, uses |-> uses, allocates |-> {}, frees |-> frees]
    BY <1>6, UseAndFreeIs
  <2> QED BY <1>4, <2>1 DEF Text
<1>8. /\ src' \in Text /\ src'.declares = src.declares /\ src'.uses = src.uses \cup uses
      /\ src'.allocates = src.allocates /\ src'.frees = src.frees \cup frees
  <2> HIDE DEF uses
  <2>1. src' = RustWasm!Then(src, e)
    BY <1>1, <1>6
  <2>2. /\ src' \in Text /\ src'.declares = src.declares \cup e.declares
        /\ src'.uses = src.uses \cup e.uses /\ src'.allocates = src.allocates \cup e.allocates
        /\ src'.frees = src.frees \cup e.frees
    BY <1>3, <1>7, <2>1, ThenIs
  <2> QED BY <1>7, <2>2
<1>9. GuestTyped' /\ GuestPhases'
  BY <1>1, <1>2, <1>8 DEF GuestTyped, GuestPhases
<1>10. Complete'
  <2>1. src'.uses \subseteq src'.declares \cup loop
    <3>1. src.uses \subseteq src.declares \cup loop
      BY <1>3 DEF TextFine
    <3>2. uses \subseteq src.declares \cup loop
      BY <1>3 DEF TextFine
    <3> HIDE DEF uses, loop
    <3> QED BY <1>8, <3>1, <3>2
  <2>2. FreedOnce(src)'
    <3> SUFFICES ASSUME NEW r \in src'.allocates
                 PROVE  \/ <<r, "here">> \in src'.frees /\ <<r, "by the list">> \notin src'.frees
                        \/ /\ <<r, "by the list">> \in src'.frees /\ <<r, "here">> \notin src'.frees
                           /\ <<RustWasm!CleanupList, "here">> \in src'.frees
      BY Zenon DEF FreedOnce, RustWasm!CleanupList
    <3>1. r \in src.allocates /\ r \in Var /\ src.frees \subseteq Results \X {"by the list"}
      BY <1>3, <1>8 DEF TextFine, Text
    <3>2. <<r, "here">> \notin src.frees
      BY <3>1
    <3>3. CASE r \in cleanup
      <4>1. r \notin Listed(src)
        BY <1>2, <3>3 DEF LevelsApart, OnList
      <4>2. <<r, "by the list">> \notin src.frees
        BY <3>1, <4>1 DEF Listed
      <4>3. r \in uses
        BY <3>3
      <4> QED BY <1>5, <1>8, <4>2, <4>3
    <3>4. CASE r \notin cleanup
      <4>1. <<r, "by the list">> \in src.frees
        BY <1>3, <3>1, <3>4 DEF TextFine, Listed
      <4>2. r \in Results /\ needs_cleanup_list
        BY <1>3, <3>1, <4>1 DEF TextFine
      <4>3. r # RustWasm!CleanupList
        BY <4>2 DEF Results, RustWasm!Result, RustWasm!CleanupList
      <4>4. r \notin uses /\ RustWasm!CleanupList \in uses
        BY <3>4, <4>2, <4>3
      <4> HIDE DEF uses
      <4> QED BY <1>5, <1>8, <3>2, <4>1, <4>4
    <3> QED BY <3>3, <3>4
  <2>3. ~in_import => src'.frees = {}
    <3>1. ASSUME ~in_import PROVE src'.frees = {}
      <4>1. ~needs_cleanup_list /\ cleanup = {}
        BY <1>2, <1>3, <3>1 DEF GuestPhases, TextFine
      <4>2. src.frees = {} /\ uses = {}
        BY <1>3, <4>1 DEF TextFine
      <4>3. frees = {}
        BY <4>2 DEF frees
      <4> QED BY <1>8, <4>2, <4>3
    <3> QED BY <3>1
  <2> QED BY <1>1, <2>1, <2>2, <2>3, Zenon DEF Complete, RustWasm!CleanupList
<1> QED BY <1>1, <1>9, <1>10, FuncsKept DEF GuestInv

(***************************************************************************)
(* The steps of the guest's generator between functions.                   *)
(***************************************************************************)

LEMMA GuestAtRest ==
    ASSUME src = RustWasm!Empty, cleanup = {}, block_storage = <<>>, blocks = <<>>
    PROVE  TextsFine /\ LevelsApart
<1>1. DOMAIN block_storage = {} /\ DOMAIN blocks = {}
  OBVIOUS
<1>2. TextFine(src, cleanup)
  BY EmptyIs DEF TextFine
<1>3. TextsFine
  BY <1>1, <1>2, Zenon DEF TextsFine
<1>4. LevelsApart
  <2>1. cleanup \cap OnList = {}
    OBVIOUS
  <2> QED BY <1>1, <2>1, Zenon DEF LevelsApart
<1> QED BY <1>3, <1>4

LEMMA GuestRests ==
    ASSUME GuestTyped', GuestPhases', phase' \in {"module", "between", "func"},
           src' = RustWasm!Empty, cleanup' = {}, block_storage' = <<>>, blocks' = <<>>,
           \A f \in funcs' \cup file'.funcs : FuncFine(f)'
    PROVE  GuestInv'
<1>1. TextsFine' /\ LevelsApart'
  <2>1. DOMAIN block_storage' = {} /\ DOMAIN blocks' = {}
    OBVIOUS
  <2>2. TextFine(src, cleanup)'
    <3>1. PICK t : t = RustWasm!Empty
      OBVIOUS
    <3>2. /\ t.declares = {} /\ t.uses = {} /\ t.allocates = {} /\ t.frees = {}
      BY <3>1, EmptyIs
    <3>3. TextFine(t, {})'
      BY <3>2 DEF TextFine
    <3> QED BY <3>1, <3>3
  <2>3. TextsFine'
    BY <2>1, <2>2, Zenon DEF TextsFine
  <2>4. cleanup' \cap OnList' = {}
    OBVIOUS
  <2>5. LevelsApart'
    BY <2>1, <2>4, Zenon DEF LevelsApart
  <2> QED BY <2>3, <2>5
<1> QED BY <1>1 DEF GuestInv

LEMMA GuestStarts ==
    ASSUME RustWasm!Init
    PROVE  GuestInv
<1>1. /\ in_import \in BOOLEAN /\ phase = "module"
      /\ src = RustWasm!Empty /\ cleanup = {} /\ block_storage = <<>> /\ blocks = <<>>
      /\ needs_cleanup_list = FALSE /\ handles_for_func = {} /\ tmp = 0
      /\ funcs = {} /\ file = RustWasm!NoFile
  BY DEF RustWasm!Init
<1>2. GuestTyped /\ GuestPhases
  <2>1. block_storage \in Seq(Level) /\ blocks \in Seq(Text)
    BY <1>1
  <2>2. GuestTyped
    BY <1>1, <2>1, EmptyIs DEF GuestTyped
  <2>3. GuestPhases
    BY <1>1 DEF GuestPhases
  <2> QED BY <2>2, <2>3
<1>3. TextsFine /\ LevelsApart
  BY <1>1, GuestAtRest
<1>4. funcs \cup file.funcs = {}
  BY <1>1 DEF RustWasm!NoFile
<1> QED BY <1>1, <1>2, <1>3, <1>4 DEF GuestInv

LEMMA GuestBegin ==
    ASSUME GuestInv, RustWasm!preprocess \/ \E dtor \in BOOLEAN : RustWasm!BeginFunc(dtor)
    PROVE  GuestInv'
<1>1. /\ UNCHANGED <<in_import, src, cleanup, block_storage, blocks, needs_cleanup_list,
                     handles_for_func, tmp, funcs>>
      /\ phase \in {"module", "between"} /\ phase' \in {"between", "func"}
      /\ file' \in {file, RustWasm!NoFile}
  BY DEF RustWasm!preprocess, RustWasm!BeginFunc, RustWasm!text, RustWasm!made
<1>2. GuestTyped /\ GuestPhases
  BY DEF GuestInv
<1>3. /\ src' = RustWasm!Empty /\ cleanup' = {} /\ block_storage' = <<>> /\ blocks' = <<>>
  BY <1>1, <1>2 DEF GuestPhases
<1>4. GuestTyped' /\ GuestPhases'
  BY <1>1, <1>2, <1>3 DEF GuestTyped, GuestPhases
<1>5. \A f \in funcs' \cup file'.funcs : FuncFine(f)'
  <2>1. funcs' \cup file'.funcs \subseteq funcs \cup file.funcs
    BY <1>1 DEF RustWasm!NoFile
  <2> QED BY <2>1 DEF GuestInv, FuncFine, FreedOnce, RustWasm!CleanupList
<1> QED BY <1>1, <1>3, <1>4, <1>5, GuestRests

LEMMA GuestStutters ==
    ASSUME GuestInv, UNCHANGED RustWasm!vars
    PROVE  GuestInv'
<1>1. UNCHANGED <<in_import, phase, src, cleanup, block_storage, blocks, needs_cleanup_list,
                  handles_for_func, tmp, funcs, file>>
  BY DEF RustWasm!vars, RustWasm!text, RustWasm!made
<1>2. GuestTyped' /\ GuestPhases'
  BY <1>1 DEF GuestInv, GuestTyped, GuestPhases
<1>3. Complete' <=> Complete
  BY <1>1 DEF Complete, FreedOnce, RustWasm!CleanupList
<1>4. Results' = Results /\ OnList' = OnList
  <2>1. Results' = Results
    BY <1>1, Zenon DEF Results, RustWasm!Result
  <2>2. OnList' = OnList
    BY <1>1, OnListPrimed DEF OnList
  <2> QED BY <2>1, <2>2
<1>5. LevelsApart' <=> LevelsApart
  BY <1>1, <1>4 DEF LevelsApart
<1>6. TextsFine => TextsFine'
  <2>1. \A t, c : TextFine(t, c) => TextFine(t, c)'
    BY <1>1, <1>4, TextKept
  <2>2. ASSUME TextsFine PROVE TextFine(src, cleanup)'
    BY <1>1, <2>1, <2>2 DEF TextsFine
  <2>3. ASSUME TextsFine, NEW i \in DOMAIN block_storage
        PROVE  TextFine(block_storage[i].src, block_storage[i].cleanup)'
    BY <1>1, <2>1, <2>3 DEF TextsFine
  <2>4. ASSUME TextsFine, NEW i \in DOMAIN blocks PROVE TextFine(blocks[i], {})'
    BY <1>1, <2>1, <2>4 DEF TextsFine
  <2> QED BY <1>1, <2>2, <2>3, <2>4 DEF TextsFine
<1> QED BY <1>1, <1>2, <1>3, <1>5, <1>6, FuncsKept DEF GuestInv

\* The text of an import gets its list declared; that of an export has none.
LEMMA GuestEndFunc ==
    ASSUME GuestInv, RustWasm!EndImport \/ RustWasm!EndExport
    PROVE  GuestInv'
<1>1. /\ phase = "returned" /\ phase' = "between" /\ src' = RustWasm!Empty
      /\ UNCHANGED <<in_import, cleanup, block_storage, blocks, tmp, file>>
  BY DEF RustWasm!EndImport, RustWasm!EndExport, RustWasm!EndFunc
<1>2. GuestTyped /\ GuestPhases /\ Complete
  BY <1>1 DEF GuestInv
<1>3. cleanup' = {} /\ block_storage' = <<>> /\ blocks' = <<>>
  BY <1>1, <1>2 DEF GuestPhases
<1>4. \A f \in funcs \cup file.funcs : FuncFine(f)'
  BY DEF GuestInv, FuncFine, FreedOnce, RustWasm!CleanupList
<1>5. CASE RustWasm!EndImport
  <2> DEFINE loop == IF needs_cleanup_list THEN {RustWasm!CleanupList} ELSE {}
  <2>1. PICK f : f = RustWasm!Then(src, [RustWasm!Empty EXCEPT !.declares = loop])
    OBVIOUS
  <2>2. /\ in_import /\ funcs' = funcs \cup {f}
        /\ needs_cleanup_list' = FALSE /\ UNCHANGED handles_for_func
    BY <1>5, <2>1 DEF RustWasm!EndImport
  <2>3. PICK e : e = [RustWasm!Empty EXCEPT !.declares = loop]
    OBVIOUS
  <2>4. e \in Text /\ e.declares = loop /\ e.uses = {} /\ e.allocates = {} /\ e.frees = {}
    <3>1. loop \in SUBSET Var
      <4>1. RustWasm!CleanupList \in Var
        BY Zenon DEF Var
      <4> QED BY <4>1
    <3> HIDE DEF loop
    <3>2. e = [declares |-> loop, uses |-> {}, allocates |-> {}, frees |-> {}]
      BY <2>3 DEF RustWasm!Empty
    <3> QED BY <3>1, <3>2 DEF Text
  <2>5. /\ f.declares = src.declares \cup loop /\ f.uses = src.uses
        /\ f.allocates = src.allocates /\ f.frees = src.frees
    <3> HIDE DEF loop
    <3>1. src \in Text /\ e \in Text
      BY <1>2, <2>4 DEF GuestTyped
    <3>2. f = RustWasm!Then(src, e)
      BY <2>1, <2>3
    <3>3. /\ f.declares = src.declares \cup e.declares /\ f.uses = src.uses \cup e.uses
          /\ f.allocates = src.allocates \cup e.allocates /\ f.frees = src.frees \cup e.frees
      BY <3>1, <3>2, ThenIs
    <3> QED BY <2>4, <3>3
  <2>6. FuncFine(f)'
    <3>1. f.uses \subseteq f.declares
      BY <1>2, <2>5 DEF Complete
    <3>2. FreedOnce(f)
      BY <1>2, <2>5, Zenon DEF Complete, FreedOnce
    <3> QED BY <3>1, <3>2 DEF FuncFine, FreedOnce, RustWasm!CleanupList
  <2>7. \A g \in funcs' \cup file'.funcs : FuncFine(g)'
    BY <1>1, <1>4, <2>2, <2>6
  <2>8. GuestTyped' /\ GuestPhases'
    BY <1>1, <1>2, <1>3, <2>2, EmptyIs DEF GuestTyped, GuestPhases
  <2> QED BY <1>1, <1>3, <2>7, <2>8, GuestRests
<1>6. CASE RustWasm!EndExport
  <2>1. /\ ~in_import /\ funcs' = funcs \cup {src} /\ handles_for_func' = {}
        /\ UNCHANGED needs_cleanup_list
    BY <1>6 DEF RustWasm!EndExport
  <2>2. PICK f : f = src
    OBVIOUS
  <2>3. FuncFine(f)'
    <3>1. ~needs_cleanup_list
      BY <1>2, <2>1 DEF GuestPhases
    <3>2. f.uses \subseteq f.declares /\ FreedOnce(f)
      BY <1>2, <2>2, <3>1 DEF Complete
    <3> QED BY <3>2 DEF FuncFine, FreedOnce, RustWasm!CleanupList
  <2>4. \A g \in funcs' \cup file'.funcs : FuncFine(g)'
    BY <1>1, <1>4, <2>1, <2>2, <2>3
  <2>5. GuestTyped' /\ GuestPhases'
    BY <1>1, <1>2, <1>3, <2>1, EmptyIs DEF GuestTyped, GuestPhases
  <2> QED BY <1>1, <1>3, <2>4, <2>5, GuestRests
<1> QED BY <1>5, <1>6

LEMMA GuestFinish ==
    ASSUME GuestInv, RustWasm!finish
    PROVE  GuestInv'
<1>1. /\ phase = "between" /\ phase' = "module"
      /\ funcs' \cup file'.funcs = funcs
      /\ UNCHANGED <<in_import, src, cleanup, block_storage, blocks, needs_cleanup_list,
                     handles_for_func, tmp>>
  BY DEF RustWasm!finish, RustWasm!text
<1>2. GuestTyped /\ GuestPhases
  BY DEF GuestInv
<1>3. /\ src' = RustWasm!Empty /\ cleanup' = {} /\ block_storage' = <<>> /\ blocks' = <<>>
  BY <1>1, <1>2 DEF GuestPhases
<1>4. GuestTyped' /\ GuestPhases'
  BY <1>1, <1>2, <1>3 DEF GuestTyped, GuestPhases
<1>5. \A f \in funcs' \cup file'.funcs : FuncFine(f)'
  BY <1>1 DEF GuestInv, FuncFine, FreedOnce, RustWasm!CleanupList
<1> QED BY <1>1, <1>3, <1>4, <1>5, GuestRests

LEMMA GuestSteps ==
    ASSUME GuestInv, RustWasm!Next \/ UNCHANGED RustWasm!vars
    PROVE  GuestInv'
BY GuestBegin, GuestPush, GuestPop, GuestInstruction, GuestReturn, GuestEndFunc, GuestFinish,
   GuestStutters DEF RustWasm!Next

\* What the guest's invariant says of the property.
LEMMA GuestCleansUp ==
    ASSUME GuestInv
    PROVE  RustWasm!CleanupComplete
<1>1. \A f \in file.funcs : FuncFine(f)
  BY DEF GuestInv
<1>2. phase = "returned" => IF in_import THEN handles_for_func = {}
                            ELSE ~needs_cleanup_list /\ src.frees = {}
  BY DEF GuestInv, GuestPhases, Complete
<1> QED BY <1>1, <1>2, Zenon DEF FuncFine, FreedOnce, RustWasm!CleanupComplete

(***************************************************************************)
(* The generator that was chosen.                                          *)
(***************************************************************************)

IInv ==
    /\ generator \in {"Wasmtime", "RustWasm"}
    /\ generator = "Wasmtime" => HostInv
    /\ generator = "RustWasm" => GuestInv

\* The invariant is inductive: at every step the names a text uses are known,
\* and what it allocated is freed or is going to be.
THEOREM Invariance == Spec => []IInv
<1>1. Init => IInv
  BY HostStarts, GuestStarts DEF Init, IInv
<1>2. IInv /\ [Next]_vars => IInv'
  <2> SUFFICES ASSUME IInv, [Next]_vars PROVE IInv'
    OBVIOUS
  <2>1. CASE generator = "Wasmtime" /\ Wasmtime!Next /\ UNCHANGED <<generator, guest>>
    BY <2>1, HostSteps DEF IInv
  <2>2. CASE generator = "RustWasm" /\ RustWasm!Next /\ UNCHANGED <<generator, host>>
    BY <2>2, GuestSteps DEF IInv
  <2>3. CASE UNCHANGED vars
    <3>1. UNCHANGED generator /\ UNCHANGED Wasmtime!vars /\ UNCHANGED RustWasm!vars
      BY <2>3 DEF vars
    <3> QED BY <3>1, HostSteps, GuestSteps DEF IInv
  <2> QED BY <2>1, <2>2, <2>3 DEF Next
<1> QED BY <1>1, <1>2, PTL DEF Spec

\* In the text of each function of the host every name is declared before it
\* is used, by itself or by the module: whatever the instructions, and also in
\* blocks that end up in closures (gen-wasmtime's import, export and finish).
THEOREM NamesAlwaysDeclared == Spec => []NamesDeclared
<1>1. IInv => NamesDeclared
  BY DEF IInv, HostInv, NamesDeclared
<1> QED BY <1>1, Invariance, PTL

\* No function of the host leaves notes, text or closures for the next one,
\* and the assertions at its end hold (gen-wasmtime's import and export).
THEOREM NothingEverLeftOver == Spec => []NothingLeftOver
<1>1. IInv => NothingLeftOver
  BY HostLeavesNothing DEF IInv, NothingLeftOver
<1> QED BY <1>1, Invariance, PTL

\* The wrapper of an import frees each list it allocated once, directly or by
\* the list of what is to be freed, however its blocks are nested; an export
\* frees none (gen-rust-wasm's finish_block, Return, import and export).
THEOREM CleanupAlwaysComplete == Spec => []CleanupComplete
<1>1. IInv => CleanupComplete
  BY GuestCleansUp DEF IInv, CleanupComplete
<1> QED BY <1>1, Invariance, PTL

=============================================================================
