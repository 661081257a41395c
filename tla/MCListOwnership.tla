-------------------------- MODULE MCListOwnership --------------------------
(* Lists of bytes, of 32-bit integers and of up to two strings.           *)
EXTENDS ListOwnership

MCSize == [u8 |-> 1, u32 |-> 4, string |-> 8]
MCAlign == [u8 |-> 1, u32 |-> 4, string |-> 4]
MCNesting == [string |-> "u8"]

MCValue ==
    [item : {"u8"}, len : 0..1, of : {<<>>}]
    \cup {[item |-> "u32", len |-> 1, of |-> <<>>]}
    \cup {[item |-> "string", len |-> Len(of), of |-> of] : of \in SeqOf(0..1, 2)}

=============================================================================
