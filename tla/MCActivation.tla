---------------------------- MODULE MCActivation ------------------------------
(***************************************************************************)
(* Activation on a small instance.  Builds and Guardians are model values; *)
(* no symmetry is declared for them, since the run checks a liveness       *)
(* property beside the invariants.                                         *)
(***************************************************************************)
EXTENDS Activation, TLC

===============================================================================
