---------------------------- MODULE TypeAnalysis ----------------------------
(***************************************************************************)
(* What the generators know of a module's types before they print          *)
(* (crates/gen-core/src/lib.rs): analyze first computes, name by name, what a *)
(* type contains, and then marks, function by function, which types are    *)
(* used in parameters and which in results.  generate does so for one      *)
(* module after the other with the same generator, whose Types are kept.   *)
(*                                                                         *)
(* A module's types are a graph: a node is a type, named or anonymous, and *)
(* refers to nodes before it or to builtin types.  Variants are analyzed   *)
(* and printed as records are; a pointer is left out, it is analyzed as    *)
(* the alias of an anonymous type.                                         *)
(***************************************************************************)
EXTENDS Integers, Sequences, FiniteSets

CONSTANTS
    Module,      \* the modules the parser accepts: types in order, and their names
    Builtin,     \* the builtin types
    MaxModules,  \* bound: the modules given to one generator
    MaxRoots     \* bound: the types that a module's functions take and return

Kind == {"list", "in_buffer", "out_buffer", "record", "handle", "alias"}

\* Definitions come before their uses, no integer is a builtin type, a list or
\* a buffer has one type of items, and both ends of an alias have names.
ASSUME TypesAssumption ==
    /\ MaxModules \in Nat /\ MaxRoots \in Nat /\ Builtin \cap Int = {}
    /\ \A m \in Module :
          /\ m.def \in Seq([kind : Kind, of : Seq(Builtin \cup Nat)])
          /\ m.named \subseteq DOMAIN m.def
          /\ \A n \in DOMAIN m.def :
                /\ \A i \in DOMAIN m.def[n].of : m.def[n].of[i] \in Builtin \cup 1..(n - 1)
                /\ m.def[n].kind \in {"list", "in_buffer", "out_buffer", "alias"} =>
                      Len(m.def[n].of) = 1
                /\ m.def[n].kind = "alias" => n \in m.named /\ m.def[n].of[1] \in m.named

VARIABLES
    module,        \* the module being generated
    type_info,     \* HashMap<Id, TypeInfo>, a function on names
    handle_dtors,  \* the n such that `n_close` is in HashSet<Id>
    phase,         \* where analyze is
    cursor,        \* the next type of module.typenames()
    func,          \* the function being analyzed
    work,          \* the calls of set_param_result_tref still to be made
    roots,         \* history: what functions take and return, and what they close
    modules        \* how many modules have been begun

vars == <<module, type_info, handle_dtors, phase, cursor, func, work, roots, modules>>

def == module.def
named == module.named
Node == DOMAIN def

SeqSet(s) == {s[i] : i \in DOMAIN s}
Children(n) == SeqSet(def[n].of)

\* The nodes reachable from S: what every closed set around S contains.
Closed(C) == \A n \in C : Children(n) \cap Node \subseteq C
Reachable(S) == {n \in Node : \A C \in SUBSET Node : S \cap Node \subseteq C /\ Closed(C) => n \in C}
Kinds(n) == {def[m].kind : m \in Reachable({n})}

-----------------------------------------------------------------------------

Flags == {"param", "result", "has_list", "has_handle", "has_out_buffer", "has_in_buffer"}
TypeInfo == [Flags \cup {"handle_with_dtor"} -> BOOLEAN]

\* bitor_assign over the parts of a type, starting from the default, and the
\* flag the type itself sets; handle_with_dtor is no part of it.
Merge(infos, set) ==
    [f \in Flags \cup {"handle_with_dtor"} |->
        f = set \/ (f # "handle_with_dtor" /\ \E i \in infos : i[f])]

Own(kind) == CASE kind = "list" -> "has_list"
               [] kind = "handle" -> "has_handle"
               [] kind = "in_buffer" -> "has_in_buffer"
               [] kind = "out_buffer" -> "has_out_buffer"
               [] OTHER -> "none"

\* type_ref_info: a name that is known is not looked into again.
type_ref_info[t \in Builtin \cup Node] ==
    IF t \in Builtin THEN Merge({}, "none")
    ELSE IF t \in named \cap DOMAIN type_info THEN type_info[t]
    ELSE IF def[t].kind = "alias" THEN type_ref_info[def[t].of[1]]
    ELSE Merge({type_ref_info[c] : c \in Children(t)}, Own(def[t].kind))

\* The same for the type a name is being given: the name itself is not
\* looked up, which may be known from an earlier module.
DefinitionInfo(n) ==
    IF def[n].kind = "alias" THEN type_ref_info[def[n].of[1]]
    ELSE Merge({type_ref_info[c] : c \in Children(n)}, Own(def[n].kind))

-----------------------------------------------------------------------------

NoFunc == [params |-> <<>>, results |-> <<>>, closes |-> 0]
NoRoots == [param |-> {}, result |-> {}, closed |-> {}]

Init ==
    /\ module \in Module
    /\ type_info = [n \in {} |-> {}]
    /\ handle_dtors = {}
    /\ phase = "typenames" /\ cursor = 1
    /\ func = NoFunc /\ work = <<>> /\ roots = NoRoots
    /\ modules = 1

\* Mutant: what is known of a name is kept.
AnalyzeType_Known ==
    /\ phase = "typenames" /\ cursor \in Node
    /\ type_info' = IF cursor \notin named \ DOMAIN type_info THEN type_info
                    ELSE [n \in DOMAIN type_info \cup {cursor} |->
                            IF n = cursor THEN DefinitionInfo(n) ELSE type_info[n]]
    /\ cursor' = cursor + 1
    /\ phase' = IF cursor = Len(def) THEN "funcs" ELSE phase
    /\ UNCHANGED <<module, handle_dtors, func, work, roots, modules>>

\* analyze, first loop.
AnalyzeType ==
    /\ phase = "typenames" /\ cursor \in Node
    /\ type_info' = IF cursor \notin named THEN type_info
                    ELSE [n \in DOMAIN type_info \cup {cursor} |->
                            IF n = cursor THEN DefinitionInfo(n) ELSE type_info[n]]
    /\ cursor' = cursor + 1
    /\ phase' = IF cursor = Len(def) THEN "funcs" ELSE phase
    /\ UNCHANGED <<module, handle_dtors, func, work, roots, modules>>

\* A function has at most one parameter and one result here, and may be
\* named after the type it closes.  Results hold no buffers (print_buffer
\* panics).
BufferFree == {n \in Node : Kinds(n) \cap {"in_buffer", "out_buffer"} = {}}
AtMostOne(S) == {<<>>} \cup {<<n>> : n \in S}

Func ==
    [params : AtMostOne(Node), results : AtMostOne(BufferFree), closes : {0}]
    \cup [params : {<<n>> : n \in Node}, results : {<<>>}, closes : named]

Calls(trefs, flag) == [i \in DOMAIN trefs |-> [tref |-> trefs[i], flag |-> flag]]

\* analyze, second loop: all the parameters, then all the results ...
AnalyzeFunc(f) ==
    /\ phase = "funcs"
    /\ func' = f
    /\ work' = Calls(f.params, "param") \o Calls(f.results, "result")
    /\ roots' = [roots EXCEPT !.param = @ \cup SeqSet(f.params),
                              !.result = @ \cup SeqSet(f.results)]
    /\ Cardinality(roots'.param) + Cardinality(roots'.result) <= MaxRoots
    /\ phase' = "marking"
    /\ UNCHANGED <<module, type_info, handle_dtors, cursor, modules>>

\* Mutant: a type that has either mark is taken to be done.
SetParamResultTref_Either ==
    LET n == Head(work).tref
        flag == Head(work).flag
    IN  /\ phase = "marking" /\ work # <<>>
        /\ n \in named
        /\ IF type_info[n].param \/ type_info[n].result
             THEN type_info' = type_info /\ work' = Tail(work)
             ELSE /\ type_info' = [type_info EXCEPT ![n][flag] = TRUE]
                  /\ work' = Calls(def[n].of, flag) \o Tail(work)
        /\ UNCHANGED <<module, handle_dtors, phase, cursor, func, roots, modules>>

\* set_param_result_tref of a name: what has the mark is not entered again.
SetParamResultTref ==
    LET n == Head(work).tref
        flag == Head(work).flag
    IN  /\ phase = "marking" /\ work # <<>>
        /\ n \in named
        /\ IF type_info[n][flag]
             THEN type_info' = type_info /\ work' = Tail(work)
             ELSE /\ type_info' = [type_info EXCEPT ![n][flag] = TRUE]
                  /\ work' = Calls(def[n].of, flag) \o Tail(work)
        /\ UNCHANGED <<module, handle_dtors, phase, cursor, func, roots, modules>>

\* set_param_result_ty: a type without a name passes the mark on.
SetParamResultTy ==
    LET t == Head(work).tref
    IN  /\ phase = "marking" /\ work # <<>>
        /\ t \notin named
        /\ work' = IF t \in Builtin THEN Tail(work)
                   ELSE Calls(def[t].of, Head(work).flag) \o Tail(work)
        /\ UNCHANGED <<module, type_info, handle_dtors, phase, cursor, func, roots, modules>>

\* type_: what a name stands for once the aliases are followed.
type_[n \in Node] == IF def[n].kind = "alias" THEN type_[def[n].of[1]] ELSE n

\* The function is `n_close`, of one parameter, of the type named n, a handle.
IsDtor(f) ==
    /\ Len(f.params) = 1 /\ f.params[1] \in named
    /\ f.closes = f.params[1]
    /\ def[type_[f.closes]].kind = "handle"

\* maybe_set_dtor, the end of the second loop's body.
MaybeSetDtor ==
    /\ phase = "marking" /\ work = <<>>
    /\ IF IsDtor(func)
         THEN /\ type_info' = [type_info EXCEPT ![func.closes]["handle_with_dtor"] = TRUE]
              /\ handle_dtors' = handle_dtors \cup {func.closes}
         ELSE UNCHANGED <<type_info, handle_dtors>>
    /\ roots' = IF func.closes \in SeqSet(func.params)
                  THEN [roots EXCEPT !.closed = @ \cup {func.closes}] ELSE roots
    /\ phase' = "funcs" /\ func' = NoFunc
    /\ UNCHANGED <<module, cursor, work, modules>>

\* generate has printed the module, and is given the next one: here one of
\* the same types and of other functions.  Nothing of Types is reset.
NextModule ==
    /\ phase = "funcs" /\ modules < MaxModules
    /\ modules' = modules + 1
    /\ phase' = "typenames" /\ cursor' = 1
    /\ roots' = NoRoots
    /\ UNCHANGED <<module, type_info, handle_dtors, func, work>>

Next ==
    \/ AnalyzeType
    \/ \E f \in Func : AnalyzeFunc(f)
    \/ SetParamResultTref
    \/ SetParamResultTy
    \/ MaybeSetDtor
    \/ NextModule

Spec == Init /\ [][Next]_vars

-----------------------------------------------------------------------------
(* Properties.                                                             *)

\* The names that have a flag.
Flagged(flag) == {n \in named \cap DOMAIN type_info : type_info[n][flag]}

\* A type is marked as used in parameters (in results) exactly if a parameter
\* (a result) of some function of this module refers to it, through names,
\* anonymous types and aliases alike (the doc of TypeInfo: "transitively").
MarksExact ==
    phase = "funcs" =>
        \A flag \in {"param", "result"} : Flagged(flag) = Reachable(roots[flag]) \cap named

\* The has_ flags say what a type contains at any depth, and a type has a
\* destructor exactly if a function of this module closes it, whatever an
\* earlier module of the generator said of the same names.  (handle_dtors does
\* keep what earlier modules close; here it lacks nothing.)
InfoExact ==
    phase = "funcs" =>
        \A n \in named :
            LET closed == n \in roots.closed /\ def[type_[n]].kind = "handle"
                contained == Kinds(n)
            IN  /\ \A f \in {"list", "handle", "in_buffer", "out_buffer"} :
                      type_info[n][Own(f)] <=> f \in contained
                /\ type_info[n].handle_with_dtor <=> closed
                /\ closed => n \in handle_dtors

=============================================================================
