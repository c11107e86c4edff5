----------------------------- MODULE Checkpoint -----------------------------
(***************************************************************************)
(* What the checkpoint node promises to the optimizer that runs on it:     *)
(* the gradient of every training iteration is assembled from its chunks,  *)
(* each chunk once, and is handed over only when it is whole.  Iteration   *)
(* iter + 1 is the one being assembled.                                    *)
(***************************************************************************)
EXTENDS Naturals

CONSTANTS
  Chunks      \* the positions of the result buffer

VARIABLES
  iter,       \* number of gradients handed over
  have        \* chunks of gradient iter + 1 that are in the result buffer

vars == <<iter, have>>

TypeOK == iter \in Nat /\ have \subseteq Chunks

Init == iter = 0 /\ have = {}

\* One more chunk of the current iteration reaches the result buffer.
Collect(c) ==
  /\ c \notin have
  /\ have' = have \cup {c}
  /\ UNCHANGED iter

\* The whole gradient is handed over and the next iteration begins empty.
Deliver ==
  /\ have = Chunks
  /\ iter' = iter + 1
  /\ have' = {}

Next == Deliver \/ \E c \in Chunks : Collect(c)

Spec == Init /\ [][Next]_vars
=============================================================================
