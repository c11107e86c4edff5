------------------------------ MODULE Pipeline ------------------------------
(***************************************************************************)
(* From the mirrored traffic to the gradient the optimizer reads: the two  *)
(* packet parsers, each counting the packets of one direction, in front of *)
(* the two extractor threads and the updater.  The only thing that passes  *)
(* from a parser to its thread is the index in each slot of its ring.      *)
(* GradientAssembly assumes what the streams carry; here it is what the    *)
(* parsers report, so that assumption is checked: the whole implements     *)
(* GradientAssembly with streams cut as the two parsers cut them.          *)
(***************************************************************************)
EXTENDS Integers, FiniteSets

CONSTANTS
  Build,      \* compile-time parameters of both parsers
  OwnFirst, Own,             \* the streams, as in GradientAssembly
  BC_LENGTH, BC_LENGTH2,     \* the two broadcasts, inbound
  MaxIter,    \* bound: iterations the training runs
  NoPacket, Invalid          \* as in GradientAssembly

Chunks == 0 .. Build.length[0] - 1

\* As Decode and GradientAssembly assume of their parts.
ASSUME PipelineAssumption ==
  /\ Build.ring \in Nat \ {0, 1}
  /\ Build.piece \in Nat \ {0} /\ Build.grain \in Nat \ {0}
  /\ Build.length \in [0 .. 4 -> Nat \ {0}] /\ Build.cut \in [0 .. 4 -> Nat]
  /\ BC_LENGTH \in Nat /\ BC_LENGTH2 \in Nat \ {0} /\ MaxIter \in Nat \ {0}
  /\ {OwnFirst, Own} \subseteq [{0, 1} -> SUBSET Chunks]
  /\ NoPacket \notin Chunks /\ Invalid \notin Chunks /\ Invalid # NoPacket

VARIABLES
  \* The inbound parser, in front of thread 0: Decode's variables.
  i_epoch, i_w, i_t, i_k, i_p, i_opening, i_due,
  i_gather, i_length, i_iter, i_write, i_trans, i_chunk, i_pac, i_chosen,
  i_result,
  \* The outbound parser, in front of thread 1.
  o_epoch, o_w, o_t, o_k, o_p, o_opening, o_due,
  o_gather, o_length, o_iter, o_write, o_trans, o_chunk, o_pac, o_chosen,
  o_result,
  \* The extractor threads, the updater and the result memory.
  head, pc, wait_for_next_iter, local_iter_num, reg, UPDATER, UPDATER_FLAG,
  copy_num, iter_num, res, upc,
  \* For the properties.
  coming,     \* coming[t]: positions of that iteration not shown yet
  carrying,   \* carrying[t]: iteration of the packet stream t shows
  truth,      \* truth[t]: position the payload shown belongs to, -1 for none
  placed      \* placed[c]: position the payload copied to c belongs to

inbound == <<i_epoch, i_w, i_t, i_k, i_p, i_opening, i_due, i_gather,
             i_length, i_iter, i_write, i_trans, i_chunk, i_pac, i_chosen,
             i_result>>
outbound == <<o_epoch, o_w, o_t, o_k, o_p, o_opening, o_due, o_gather,
              o_length, o_iter, o_write, o_trans, o_chunk, o_pac, o_chosen,
              o_result>>
extractor == <<pc, wait_for_next_iter, local_iter_num, reg, UPDATER,
               UPDATER_FLAG, copy_num, iter_num, res, upc>>
aux == <<coming, carrying, truth, placed>>
vars == <<inbound, outbound, head, extractor, aux>>

\* Nothing is lost: the counters that only losses touch never change.
In == INSTANCE Decode WITH
  Builds <- {Build}, LossyOps <- {}, MaxFirstLost <- 0,
  build <- Build, dir <- "inbound",
  intact <- TRUE, clean <- TRUE, behind <- 0, upset <- FALSE,
  epoch <- i_epoch, w <- i_w, t <- i_t, k <- i_k, p <- i_p,
  opening <- i_opening, due <- i_due, got <- {},
  bc_gather_num <- i_gather, cur_bc_length <- i_length, iter_num <- i_iter,
  cur_write_num <- i_write, cur_trans_num <- i_trans,
  cur_chunk_num <- i_chunk, cur_pac_num <- i_pac, chosen <- i_chosen,
  result <- i_result

Out == INSTANCE Decode WITH
  Builds <- {Build}, LossyOps <- {}, MaxFirstLost <- 0,
  build <- Build, dir <- "outbound",
  intact <- TRUE, clean <- TRUE, behind <- 0, upset <- FALSE,
  epoch <- o_epoch, w <- o_w, t <- o_t, k <- o_k, p <- o_p,
  opening <- o_opening, due <- o_due, got <- {},
  bc_gather_num <- o_gather, cur_bc_length <- o_length, iter_num <- o_iter,
  cur_write_num <- o_write, cur_trans_num <- o_trans,
  cur_chunk_num <- o_chunk, cur_pac_num <- o_pac, chosen <- o_chosen,
  result <- o_result

G == INSTANCE GradientAssembly WITH
  Before <- [t \in {0, 1} |-> {}], RING_NUMS <- Build.ring,
  source <- carrying, left <- coming

\* The positions of an iteration that stream t never carries: one chunk of
\* each transfer, which the node receives final and does not pass on.
NotSent(e, t) ==
  IF t = 0 THEN In!ChunkPositions(e, (In!Rank + 1) % In!RING_NUMS)
  ELSE Out!ChunkPositions(e, (Out!Rank + 1) % Out!RING_NUMS)

\* The streams are cut as the two directions of the all-reduce cut them.
StreamsCut ==
  /\ OwnFirst = [t \in {0, 1} |-> Chunks \ NotSent(0, t)]
  /\ Own = [t \in {0, 1} |-> Chunks \ NotSent(1, t)]

-----------------------------------------------------------------------------
Init ==
  /\ In!Init /\ Out!Init /\ StreamsCut
  /\ coming = OwnFirst
  /\ carrying = [t \in {0, 1} |-> 1]
  /\ truth = [t \in {0, 1} |-> -1]
  /\ placed = [c \in Chunks |-> -1]
  /\ G!Init

\* What the ring shows after a packet with this result.
Shown(index) == IF index = -1 THEN Invalid ELSE index

\* A packet of stream t, whose payload belongs at position c, shows index.
Show(t, index, c) ==
  /\ head' = [head EXCEPT ![t] = Shown(index)]
  /\ truth' = [truth EXCEPT ![t] = c]
  /\ coming' = [coming EXCEPT ![t] = @ \ {index}]
  /\ UNCHANGED <<extractor, carrying, placed>>

\* A payload belongs at a position if it is part of a final sum. Packets of
\* other flows are left to Decode: like partial sums they show as Invalid.
ParseInbound ==
  /\ head[0] = NoPacket
  /\ \/ /\ carrying[0] = i_epoch + 1 /\ In!DataPacket
        /\ Show(0, i_result', IF In!IsFinal(i_k) THEN In!Place ELSE -1)
     \/ In!BroadcastPacket /\ Show(0, i_result', -1)
  /\ UNCHANGED outbound

ParseOutbound ==
  /\ head[1] = NoPacket
  /\ carrying[1] = o_epoch + 1 /\ Out!DataPacket
  /\ Show(1, o_result', IF Out!IsFinal(o_k) THEN Out!Place ELSE -1)
  /\ UNCHANGED inbound

\* The next packet with data is the first one of the next iteration.
NextIteration(t) ==
  /\ head[t] = NoPacket
  /\ carrying[t] = IF t = 0 THEN i_epoch ELSE o_epoch
  /\ carrying[t] < MaxIter
  /\ carrying' = [carrying EXCEPT ![t] = @ + 1]
  /\ coming' = [coming EXCEPT ![t] = @ \cup Own[t]]
  /\ UNCHANGED <<inbound, outbound, head, extractor, truth, placed>>

\* The threads and the updater take their steps as in GradientAssembly.
Extract(t) ==
  /\ UNCHANGED <<inbound, outbound, coming, carrying, truth>>
  /\ G!Step(t)
  /\ placed' = IF pc[t] = "copy" THEN [placed EXCEPT ![head[t]] = truth[t]]
               ELSE placed

Update ==
  /\ UNCHANGED <<inbound, outbound, aux>>
  /\ G!Updater

Next ==
  \/ ParseInbound \/ ParseOutbound
  \/ \E t \in {0, 1} : NextIteration(t) \/ Extract(t)
  \/ Update

Spec == Init /\ [][Next]_vars

-----------------------------------------------------------------------------
(* Properties.                                                             *)

PipelineTypeOK ==
  /\ In!TypeOK /\ Out!TypeOK /\ G!TypeOK
  /\ carrying \in [{0, 1} -> 1 .. MaxIter]
  /\ truth \in [{0, 1} -> Chunks \cup {-1}]
  /\ placed \in [Chunks -> Chunks \cup {-1}]

\* End to end: when a gradient is handed over, every position of the result
\* memory holds the final sum that belongs there, of the iteration handed
\* over, although parsers, threads and updater only ever count.
GradientInPlace ==
  upc \in {"clear", "bump"} =>
    \A c \in Chunks : res[c] = iter_num + 1 /\ placed[c] = c

\* Nothing is stranded: when the traffic has ended and every ring is read,
\* the last gradient has been handed over or is about to be.
NothingStranded ==
  /\ i_epoch = MaxIter /\ o_epoch = MaxIter
  /\ \A t \in {0, 1} : head[t] = NoPacket /\ pc[t] = "poll"
  /\ upc = "poll"
  => iter_num = MaxIter \/ (iter_num = MaxIter - 1 /\ G!Ready)

\* What the parsers report are streams as GradientAssembly has them: every
\* position of a stream's share once per iteration and nothing else.
AssemblySpec == G!Spec
=============================================================================
