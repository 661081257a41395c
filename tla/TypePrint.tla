----------------------------- MODULE TypePrint ------------------------------
(***************************************************************************)
(* How types are printed in Rust (crates/gen-rust/src/lib.rs), from what   *)
(* TypeAnalysis found out.  A type is printed in a mode, which says what   *)
(* is borrowed.  One that owns data and is used as parameter and as result *)
(* is defined twice, XParam and XResult; whoever refers to it has to pick  *)
(* the name, and the lifetime, that its definition has.  The generators    *)
(* print what analysis has marked, hence these operators over its state.   *)
(***************************************************************************)
EXTENDS TypeAnalysis

CONSTANTS
    char,           \* the builtin type of which a list is a string
    all_bits_valid  \* the builtin types every bit pattern of which is a value

\* default_param_mode: of imports and exports of gen-wasmtime, of imports and
\* exports of gen-rust-wasm.
ParamMode == {"LeafBorrowed", "AllBorrowed", "HandlesBorrowed"}
Mode == ParamMode \cup {"Owned"}

owns_data(info) == info.has_list \/ info.has_handle \/ info.has_in_buffer \/ info.has_out_buffer

\* Mutant: out-buffers are forgotten.
lifetime_for_NoOut(info, mode) ==
    \/ mode \in {"AllBorrowed", "LeafBorrowed"}
       /\ (info.has_list \/ info.has_handle \/ info.has_in_buffer)
    \/ mode = "HandlesBorrowed" /\ (info.has_handle \/ info.has_in_buffer)

\* Does a type have a lifetime parameter when it is printed in a mode?
lifetime_for(info, mode) ==
    \/ mode \in {"AllBorrowed", "LeafBorrowed"} /\ owns_data(info)
    \/ mode = "HandlesBorrowed" /\ (info.has_handle \/ info.has_in_buffer \/ info.has_out_buffer)

uses_two_names(info, default) ==
    /\ owns_data(info) /\ info.param /\ info.result
    /\ default = "HandlesBorrowed" => info.has_handle

param_name(n, default) == <<n, IF uses_two_names(type_info[n], default) THEN "Param" ELSE "">>
result_name(n, default) == <<n, IF uses_two_names(type_info[n], default) THEN "Result" ELSE "">>

\* Mutant: a parameter that is a result as well is printed once only.
modes_of_Once(n, default) ==
    LET info == type_info[n]
    IN  {d \in {[name |-> param_name(n, default), mode |-> default],
                [name |-> result_name(n, default), mode |-> "Owned"]} :
            IF d.mode = default THEN info.param ELSE info.result /\ ~info.param}

\* The definitions printed for a type.
modes_of(n, default) ==
    LET info == type_info[n]
    IN  {d \in {[name |-> param_name(n, default), mode |-> default],
                [name |-> result_name(n, default), mode |-> "Owned"]} :
            IF d.mode = default THEN info.param
            ELSE info.result /\ (~info.param \/ uses_two_names(info, default))}

\* witx's all_bits_valid (external).
AllBitsValid[t \in Builtin \cup Node] ==
    IF t \in Builtin THEN t \in all_bits_valid
    ELSE /\ def[t].kind \in {"record", "alias"}
         /\ \A c \in Children(t) : AllBitsValid[c]

IsHandle(t) == t \in named /\ def[type_[t]].kind = "handle"

\* What is printed for a type: the names it refers to, each with a lifetime
\* or without, and whether it uses the lifetime in some other place.
Ref(name, lt) == [name |-> name, lt |-> lt]
Lifetime == {Ref(<<>>, TRUE)}

\* print_list of the element c; below[m] is what is printed for c in mode m.
print_list(c, mode, below) ==
    IF c = char THEN IF mode \in {"AllBorrowed", "LeafBorrowed"} THEN Lifetime ELSE {}
    ELSE IF mode = "AllBorrowed" \/ (mode = "LeafBorrowed" /\ AllBitsValid[c])
      THEN Lifetime \cup below["AllBorrowed"]
      ELSE below[mode]

\* print_buffer, likewise, in any call mode: what a callee puts out is owned.
print_buffer(c, out, mode, below) ==
    Lifetime \cup below[IF out THEN "Owned" ELSE mode]

\* The value a type is defined to be, or an anonymous one is; below[c][m] is
\* what is printed for c in mode m.
print_value(n, mode, below) ==
    CASE def[n].kind = "list" -> print_list(def[n].of[1], mode, below[def[n].of[1]])
      [] def[n].kind = "in_buffer" -> print_buffer(def[n].of[1], FALSE, mode, below[def[n].of[1]])
      [] def[n].kind = "out_buffer" -> print_buffer(def[n].of[1], TRUE, mode, below[def[n].of[1]])
      [] OTHER -> UNION {below[c][mode] : c \in Children(n)}

print_name(t, mode, default) ==
    LET lt == lifetime_for(type_info[t], mode)
    IN  IF IsHandle(t) THEN {Ref(<<t, "">>, FALSE)} \cup IF lt THEN Lifetime ELSE {}
        ELSE {Ref(IF lt THEN param_name(t, default) ELSE result_name(t, default), lt)}

print_tref(default) ==
    LET printed[t \in Builtin \cup Node] ==
          [mode \in Mode |->
             IF t \in Builtin THEN {}
             ELSE IF t \in named THEN print_name(t, mode, default)
             ELSE print_value(t, mode, [c \in Children(t) |-> printed[c]])]
    IN  printed

\* print_typedef_record, _variant, _buffer and print_type_list; an alias
\* prints the generics of the type it stands for, also if that is a handle.
print_typedef(n, mode, default, tref) ==
    LET lt == lifetime_for(type_info[n], mode)
    IN  IF def[n].kind = "alias"
          THEN {Ref(IF lt THEN param_name(def[n].of[1], default)
                          ELSE result_name(def[n].of[1], default), lt)}
          ELSE print_value(n, mode, tref)

\* What the generators print for the module: a handle is a struct or a type
\* of the trait, whether it is used or not.
Definitions(default, tref) ==
    {[name |-> <<n, "">>, lt |-> FALSE, body |-> {}] : n \in {m \in named : def[m].kind = "handle"}}
    \cup UNION {{[name |-> d.name, lt |-> lifetime_for(type_info[n], d.mode),
                  body |-> print_typedef(n, d.mode, default, tref)] : d \in modes_of(n, default)} :
                n \in {m \in named : def[m].kind # "handle"}}

\* print_signature of all functions.
Signatures(default, tref) ==
    (UNION {tref[t][default] : t \in roots.param}) \cup (UNION {tref[t]["Owned"] : t \in roots.result})

-----------------------------------------------------------------------------
(* Properties.                                                             *)

\* The definitions of a module and all the references from them or from
\* signatures.
Printed(default) ==
    LET tref == print_tref(default)
        defs == Definitions(default, tref)
    IN  [defs |-> defs, refs |-> Signatures(default, tref) \cup UNION {d.body : d \in defs}]

\* An alias of a handle is given names and generics the handle does not have.
HandleAliased == \E n \in named : def[n].kind = "alias" /\ IsHandle(n)

\* Every type that a signature or a definition refers to is defined, once,
\* under the name the reference uses, in every mode: marking, the choice of
\* names and the choice of modes agree.
NamesDefined ==
    phase = "funcs" /\ ~HandleAliased =>
        \A default \in ParamMode :
            LET p == Printed(default)
            IN  \A r \in p.refs \ Lifetime : Cardinality({d \in p.defs : d.name = r.name}) = 1

\* The items of an out-buffer are printed as owned, but a type below it that
\* owns data and is no result has only its borrowed definition.
BorrowedOutItems ==
    \E n \in Node : \E m \in Reachable({n}) \cap named :
        /\ def[n].kind = "out_buffer" /\ m # n /\ ~IsHandle(m)
        /\ owns_data(type_info[m]) /\ ~type_info[m].result

\* A reference has a lifetime argument exactly if the definition has the
\* parameter, and a definition that uses the lifetime declares it.
GenericsMatch ==
    phase = "funcs" /\ ~HandleAliased /\ ~BorrowedOutItems =>
        \A default \in ParamMode :
            LET p == Printed(default)
            IN  /\ \A d \in p.defs : (\E r \in d.body : r.lt) => d.lt
                /\ \A r \in p.refs, d \in p.defs : r.name = d.name => r.lt = d.lt

=============================================================================
