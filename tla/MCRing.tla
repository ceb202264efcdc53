------------------------------- MODULE MCRing -------------------------------
(***************************************************************************)
(* Values for the constants of Ring.                                       *)
(***************************************************************************)
EXTENDS Ring

AnyDelay == SUBSET {"guest", "kernel"}
=============================================================================
