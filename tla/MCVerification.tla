-------------------------- MODULE MCVerification --------------------------
(* Verification on small instances. *)
EXTENDS Verification

\* One mutation of a gate and one of a flop.
MCSuite == <<"nand_to_and", "reset_never_asserts">>
=============================================================================
