----------------------------- MODULE MCTypePrint ---------------------------
(* Modules of three types for TypeAnalysis and TypePrint: of all kinds,    *)
(* with and without names, the last one containing the second and one of   *)
(* them the first, so that types are shared and nested three deep.         *)
EXTENDS TypePrint, TLC

CONSTANT u8

Refs(n) == {<<u8>>} \cup (IF n = 1 THEN {<<char>>} ELSE {<<m>> : m \in 1..(n - 1)})

Types(n) ==
    [kind : {"list"}, of : Refs(n)]
    \cup [kind : {"in_buffer", "out_buffer"}, of : Refs(n) \ {<<char>>}]
    \cup [kind : {"record"}, of : Refs(n) \cup IF n = 3 THEN {<<1, 2>>} ELSE {}]
    \cup [kind : {"alias"}, of : {<<m>> : m \in 1..(n - 1)}]
    \cup {[kind |-> "handle", of |-> <<>>]}

Shapes == {<<a, b, c>> : a \in Types(1), b \in Types(2), c \in Types(3)}

\* A type that is used by no other adds nothing to the ones that are.
Connected(d) == \A n \in 1..2 : \E m \in (n + 1)..3 : n \in {d[m].of[i] : i \in DOMAIN d[m].of}

\* No test has buffers of buffers (tests/wasm.witx:184 leaves one out).
BuffersOfBuffers(d) ==
    LET Buffers == {n \in 1..3 : d[n].kind \in {"in_buffer", "out_buffer"}}
        Below(n) == {d[n].of[i] : i \in DOMAIN d[n].of}
    IN  \E n, m \in Buffers : m \in Below(n) \/ \E k \in Below(n) \ {u8, char} : m \in Below(k)

MCModule ==
    {m \in [def : {s \in Shapes : Connected(s) /\ ~BuffersOfBuffers(s)}, named : SUBSET (1..3) \ {{}}] :
        /\ \A n \in 1..3 : m.def[n].kind \in {"handle", "alias"} => n \in m.named
        /\ \A n \in 1..3 : m.def[n].kind = "alias" => m.def[n].of[1] \in m.named}

=============================================================================
