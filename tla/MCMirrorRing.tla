--------------------------- MODULE MCMirrorRing ---------------------------
(* Instances of MirrorRing: all constants are given by the configurations. *)
EXTENDS MirrorRing
===========================================================================
