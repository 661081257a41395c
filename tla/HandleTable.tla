---------------------------- MODULE HandleTable -----------------------------
(***************************************************************************)
(* What the table of host resources promises, without slots, counts or a   *)
(* free list: a map from handles to items, and a stack of accesses, each   *)
(* holding references to some of the items.  An item that a live access    *)
(* holds stays where it is.                                                *)
(***************************************************************************)
EXTENDS Integers, Sequences

CONSTANTS Handle, Item

VARIABLES items,  \* the items, by handle: a function on the allocated handles
          held    \* held[i]: the handles the i-th live access references

vars == <<items, held>>

Init == items = [h \in {} |-> 0] /\ held = <<>>

Held(h) == \E i \in DOMAIN held : h \in held[i]

\* An insertion finds a handle that names nothing.
Insert(h, x) ==
    /\ h \notin DOMAIN items
    /\ items' = [k \in DOMAIN items \cup {h} |-> IF k = h THEN x ELSE items[k]]
    /\ UNCHANGED held

\* Only an item that nobody references can be taken out.
Remove(h) ==
    /\ h \in DOMAIN items /\ ~Held(h)
    /\ items' = [k \in DOMAIN items \ {h} |-> items[k]]
    /\ UNCHANGED held

Access == held' = Append(held, {}) /\ UNCHANGED items

\* The innermost access takes a reference to an item that is there.
Get(h) ==
    /\ held # <<>> /\ h \in DOMAIN items
    /\ held' = [held EXCEPT ![Len(held)] = @ \cup {h}]
    /\ UNCHANGED items

\* The innermost access ends, and with it all its references.
Release ==
    /\ held # <<>>
    /\ held' = SubSeq(held, 1, Len(held) - 1)
    /\ UNCHANGED items

Next ==
    \/ \E h \in Handle : \/ \E x \in Item : Insert(h, x)
                         \/ Remove(h)
                         \/ Get(h)
    \/ Access
    \/ Release

Spec == Init /\ [][Next]_vars

=============================================================================
