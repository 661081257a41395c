------------------------------ MODULE MCTable -------------------------------
(* Small instances of Table.  With three items for the handles 0 and 1 the *)
(* slots are recycled in every order and the handles run out; three        *)
(* accesses are open at once; two gets let one item be borrowed twice, by  *)
(* one access or by two.  The items are interchangeable.                   *)
EXTENDS Table, TLC

ItemSymmetry == Permutations(Item)

=============================================================================
