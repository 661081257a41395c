---------------------------- MODULE MCBufferGlue ----------------------------
(* Small instances of BufferGlue.  Six frames hold a call (wrapper, wasm)  *)
(* that calls an import that calls an export again, whose guest function   *)
(* reads or writes a buffer; or one whose reading or writing of a buffer   *)
(* calls the guest's allocator, which may call imports and these exports,  *)
(* under out_write too, which keeps the slabs locked.  There are two       *)
(* buffers: both of one call, or one of each of two.  One of two items     *)
(* is read in one piece or in two, and fails at the first item or at the   *)
(* second; shorter buffers are what remains of it.                         *)
EXTENDS BufferGlue
=============================================================================
