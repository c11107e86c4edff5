------------------------ MODULE MCGradientAssembly ------------------------
(* Instances of GradientAssembly: chunks are numbered as in the NCCL ring. *)
EXTENDS GradientAssembly

CONSTANT Shape    \* which pair of streams the instance mirrors

FourChunks == 0..3

\* Two nodes: the inbound stream carries one chunk of each pass, the
\* outbound stream the other; two passes, in any order. In the first
\* iteration the passes are cut at other places.
\* Four nodes: one pass, both streams carry three of the four chunks, in the
\* order of the ring.
MCOwn ==
  CASE Shape = "two_nodes"  -> [t \in {0, 1} |-> IF t = 0 THEN {0, 2} ELSE {1, 3}]
    [] Shape = "four_nodes" -> [t \in {0, 1} |-> IF t = 0 THEN {0, 2, 3} ELSE {1, 2, 3}]

MCOwnFirst ==
  IF Shape = "two_nodes" THEN [t \in {0, 1} |-> IF t = 0 THEN {0, 1} ELSE {2, 3}]
  ELSE MCOwn

MCBefore ==
  CASE Shape = "two_nodes"  -> [t \in {0, 1} |-> {}]
    [] Shape = "four_nodes" ->
         [t \in {0, 1} |-> IF t = 0 THEN {<<0, 3>>, <<0, 2>>, <<3, 2>>}
                                    ELSE {<<3, 2>>, <<3, 1>>, <<2, 1>>}]
===========================================================================
