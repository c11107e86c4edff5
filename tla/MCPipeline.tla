------------------------------ MODULE MCPipeline ------------------------------
(* Instance of Pipeline: the smallest build for a ring of two whose buckets *)
(* have a whole and a last transfer and whose streams are equally long.     *)
EXTENDS Pipeline, TLC

SmallBuild ==
  [ring |-> 2, piece |-> 6, grain |-> 2,
   length |-> 0 :> 64 @@ 1 :> 16 @@ 2 :> 16 @@ 3 :> 16 @@ 4 :> 16,
   cut |-> [i \in 0 .. 4 |-> 2]]

\* The inbound stream carries the first halves of the transfers, the other
\* the second halves: the first iteration is one bucket of 64, the later ones
\* have buckets of 16.
Halves(length) == [t \in {0, 1} |->
  {c \in 0 .. 63 : LET n == c % length
                       last == length - 4
                   IN  t = IF n < last THEN (n % 12) \div 6 ELSE (n - last) \div 2}]
SmallFirst == Halves(64)
SmallLater == Halves(16)

\* The premise of the theorems about GradientAssembly.
ASSUME StreamsMatched == G!Matched
=============================================================================
