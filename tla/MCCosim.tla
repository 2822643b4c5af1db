------------------------------- MODULE MCCosim ------------------------------
(***************************************************************************)
(* Cosim with every instruction kind, in a directory an earlier invocation *)
(* has left full of files.                                                 *)
(***************************************************************************)
EXTENDS Cosim

MCKinds == {"alu", "calu", "store", "sig", "jal", "csrw", "csrr", "csrrw", "fp", "ecall"}

MCLeftovers == {Earlier}
=============================================================================
