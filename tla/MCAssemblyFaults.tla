-------------------------- MODULE MCAssemblyFaults --------------------------
(* Instance of AssemblyFaults: the two-node streams of MCGradientAssembly.  *)
EXTENDS AssemblyFaults

FourChunks == 0..3

\* One stream carries chunks 0 and 2, the other 1 and 3, in this order; in the
\* first iteration other pairs.
TwoNodesFirst == [t \in {0, 1} |-> IF t = 0 THEN {0, 1} ELSE {2, 3}]
TwoNodes == [t \in {0, 1} |-> IF t = 0 THEN {0, 2} ELSE {1, 3}]
Ascending == [t \in {0, 1} |-> {<<c, d>> \in FourChunks \X FourChunks : c < d}]
=============================================================================
