---------------------------- MODULE MCHandleLife ----------------------------
(* Small instances of HandleLife: two items for two indices of the table,  *)
(* and two objects for two addresses, so that both are used again by       *)
(* another.  Six frames hold three calls from the host and three calls     *)
(* back, nested, each of which may lend or close handles; three references *)
(* to items are held at once, to one item or to both.                      *)
EXTENDS HandleLife, TLC

LifeSymmetry == Permutations(Item) \cup Permutations(Object) \cup Permutations(Address)

=============================================================================
