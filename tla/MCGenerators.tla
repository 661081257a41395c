---------------------------- MODULE MCGenerators ---------------------------
(* Two handle types, one with a destructor.                                *)
EXTENDS Generators

=============================================================================
