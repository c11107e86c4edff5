----------------------------- MODULE MCRingNode -----------------------------
(* Instances of RingNode: both dump modules.                               *)
EXTENDS RingNode

BothDumpers == {"dma", "software"}
=============================================================================
