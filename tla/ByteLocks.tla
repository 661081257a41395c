----------------------------- MODULE ByteLocks ------------------------------
(***************************************************************************)
(* What the borrow checker promises, without regions, handles or tables:   *)
(* every byte of guest memory is a readers/writer lock.  A holder takes    *)
(* the locks of a set of bytes at once or not at all, and gives all of     *)
(* them back at once.                                                      *)
(***************************************************************************)
CONSTANTS Byte, Holder

VARIABLES readers,  \* readers[b]: the holders of a shared reference to b
          writers   \* writers[b]: the holders of a mutable reference to b

vars == <<readers, writers>>

Init == /\ readers = [b \in Byte |-> {}]
        /\ writers = [b \in Byte |-> {}]

Holds(h) == \E b \in Byte : h \in readers[b] \cup writers[b]

AcquireShared(S, h) ==
    /\ ~Holds(h)
    /\ \A b \in S : writers[b] = {}
    /\ readers' = [b \in Byte |-> IF b \in S THEN readers[b] \cup {h} ELSE readers[b]]
    /\ UNCHANGED writers

AcquireMut(S, h) ==
    /\ ~Holds(h)
    /\ \A b \in S : readers[b] = {} /\ writers[b] = {}
    /\ writers' = [b \in Byte |-> IF b \in S THEN writers[b] \cup {h} ELSE writers[b]]
    /\ UNCHANGED readers

Release(h) ==
    /\ readers' = [b \in Byte |-> readers[b] \ {h}]
    /\ writers' = [b \in Byte |-> writers[b] \ {h}]

Next == \E h \in Holder :
            \/ \E S \in SUBSET Byte : AcquireShared(S, h) \/ AcquireMut(S, h)
            \/ Release(h)

Spec == Init /\ [][Next]_vars

=============================================================================
