---------------------------- MODULE MCImportCall -----------------------------
(* Small instances of ImportCall: a list of two bytes at 0, and one of one    *)
(* byte at 1; in- and out-buffers of no or two items of two bytes at 0, which *)
(* overlap the lists and each other, and of one or two at 3, where items are  *)
(* at negative addresses and then beyond the last one.  The memory has one to *)
(* five bytes, which are all that can be addressed and a length of 0 mod 5.   *)
(* The handles of the borrow checker run out at the fourth borrow.            *)
EXTENDS ImportCall

MCPtrs == {[start |-> 0, len |-> 2], [start |-> 1, len |-> 1]}
MCBuffers == [offset : {0}, len : {0, 2}] \cup [offset : {3}, len : {1, 2}]
=============================================================================
