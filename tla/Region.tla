------------------------------- MODULE Region -------------------------------
(***************************************************************************)
(* Regions of a guest's linear memory (crates/wasmtime/src/region.rs) and  *)
(* the question the borrow checker asks about them.  Addresses and lengths *)
(* are u32; the ends of a region are computed in u64, so they never wrap.  *)
(***************************************************************************)
EXTENDS Integers

CONSTANT U32Max  \* u32::MAX

ASSUME U32MaxAssumption == U32Max \in Nat

U32 == 0..U32Max

\* struct Region: any pair of u32, also one that ends past the last address.
Regions == [start : U32, len : U32]

\* The bytes a Rust reference to the region can reach: what overlaps() is
\* meant to compare.
Bytes(r) == r.start .. (r.start + r.len - 1)

\* Every byte some region can reach.
AllBytes == 0 .. (2 * U32Max)

\* Mutant: the last byte of the first region is taken for its end.
Overlaps_HalfOpen(a, b) ==
    /\ a.len # 0 /\ b.len # 0
    /\ IF a.start <= b.start
         THEN a.start + (a.len - 1) > b.start
         ELSE b.start + (b.len - 1) > a.start

\* Region::overlaps, by the order of the starts.
Overlaps(a, b) ==
    /\ a.len # 0 /\ b.len # 0
    /\ IF a.start <= b.start
         THEN a.start + (a.len - 1) >= b.start
         ELSE b.start + (b.len - 1) >= a.start

=============================================================================
