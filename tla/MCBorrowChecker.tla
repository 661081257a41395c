--------------------------- MODULE MCBorrowChecker --------------------------
(* A small instance of BorrowChecker: addresses and lengths 0..2, so that  *)
(* regions can be empty, adjacent, nested or overlapping and end beyond    *)
(* the last address; handles 0..3, of which new_handle gives out three, so *)
(* that they run out while guards are held.                                *)
EXTENDS BorrowChecker
=============================================================================
