-------------------------- MODULE GradientAssembly --------------------------
(***************************************************************************)
(* The Data Extractor and the Updater: two extractor threads, one per      *)
(* mirrored stream (bound_flag 0 reads the inbound ring, bound_flag 1 the  *)
(* outbound ring), copy the parsed chunks into the result shared memory;   *)
(* the updater polls the two copy counters, clears them, bumps the         *)
(* iteration number and lets the optimizer read the result memory in       *)
(* place.  The threads share UPDATER (which chunks were already taken) and *)
(* UPDATER_FLAG (the hand-shake around clearing UPDATER), with no lock.    *)
(*                                                                         *)
(* A position of the result buffer holds the number of the iteration whose *)
(* data was last copied there (0: the zeros of the initial memset).        *)
(***************************************************************************)
EXTENDS Integers, FiniteSets

CONSTANTS
  Chunks,     \* the CHUNK_NUMS positions of the result buffer
  OwnFirst,   \* OwnFirst[t]: the chunks the stream of thread t carries in the
              \* first iteration, which reduces the gradient as one bucket
  Own,        \* Own[t]: those of every later one, which reduces many
  Before,     \* Before[t]: pairs <<c, d>> where c travels before d
  RING_NUMS,  \* the ring size the extractor is compiled with
  MaxIter,    \* bound: iterations the training runs
  NoPacket,   \* the ring shows no unread packet
  Invalid     \* a packet the parser marked with payload_index = 0

Bound == {0, 1}

\* The streams carry chunks of this buffer; the two marks are no chunks.
ASSUME StreamAssumption ==
  /\ IsFiniteSet(Chunks)
  /\ {OwnFirst, Own} \subseteq [Bound -> SUBSET Chunks]
  /\ Before \in [Bound -> SUBSET (Chunks \X Chunks)]
  /\ NoPacket \notin Chunks /\ Invalid \notin Chunks /\ Invalid # NoPacket
  /\ RING_NUMS \in Nat \ {0}
  /\ MaxIter \in Nat

CHUNK_NUMS == Cardinality(Chunks)

\* The chunks of iteration j that travel on stream t.
Share(j, t) == IF j = 1 THEN OwnFirst[t] ELSE Own[t]

\* The copy count at which a thread stops and waits for the next iteration.
Limit == (CHUNK_NUMS \div RING_NUMS) * (RING_NUMS - 1)

VARIABLES
  source,     \* source[t]: iteration the stream of t is carrying
  left,       \* left[t]: chunks of that iteration still to come
  head,       \* head[t]: the slot at extractor_read_index of ring t
  pc, wait_for_next_iter, local_iter_num, reg,   \* locals of thread t
  UPDATER, UPDATER_FLAG,                         \* shared by the threads
  copy_num, iter_num, res,                       \* the result shared memory
  upc                                            \* control of the updater

stream == <<source, left, head>>
thread == <<pc, wait_for_next_iter, local_iter_num, reg>>
vars == <<source, left, head, pc, wait_for_next_iter, local_iter_num, reg,
          UPDATER, UPDATER_FLAG, copy_num, iter_num, res, upc>>

TypeOK ==
  /\ source \in [Bound -> Nat]
  /\ left \in [Bound -> SUBSET Chunks]
  /\ head \in [Bound -> Chunks \cup {NoPacket, Invalid}]
  /\ pc \in [Bound -> {"poll", "mark", "copy", "load", "store",
                       "fill", "flag", "spin"}]
  /\ wait_for_next_iter \in [Bound -> BOOLEAN]
  /\ local_iter_num \in [Bound -> Nat]
  /\ reg \in [Bound -> Nat]
  /\ UPDATER \in [Chunks -> {0, 1}]
  /\ UPDATER_FLAG \in {0, 1, 2}
  /\ copy_num \in [Bound -> Nat]
  /\ iter_num \in Nat
  /\ res \in [Chunks -> Nat]
  /\ upc \in {"poll", "clear", "bump", "use"}

\* After the memset of the result memory by thread 0; the documented start
\* order brings the traffic up only after the extractor and the updater.
Init ==
  /\ source = [t \in Bound |-> 1]
  /\ left = OwnFirst
  /\ head = [t \in Bound |-> NoPacket]
  /\ pc = [t \in Bound |-> "poll"]
  /\ wait_for_next_iter = [t \in Bound |-> FALSE]
  /\ local_iter_num = [t \in Bound |-> 0]
  /\ reg = [t \in Bound |-> 0]
  /\ UPDATER = [c \in Chunks |-> 0]
  /\ UPDATER_FLAG = 0
  /\ copy_num = [t \in Bound |-> 0]
  /\ iter_num = 0
  /\ res = [c \in Chunks |-> 0]
  /\ upc = "poll"

-----------------------------------------------------------------------------
(* The parsers, seen from the extractor: each ring is a FIFO, so its       *)
(* unread packets are represented by the one at extractor_read_index.      *)

PublishChunk(t) ==
  /\ head[t] = NoPacket
  /\ \E c \in left[t] :
       /\ \A b \in Before[t] : b[2] = c => b[1] \notin left[t]
       /\ head' = [head EXCEPT ![t] = c]
       /\ left' = [left EXCEPT ![t] = @ \ {c}]
  /\ UNCHANGED <<source, thread, UPDATER, UPDATER_FLAG, copy_num, iter_num,
                 res, upc>>

PublishInvalid(t) ==
  /\ head[t] = NoPacket
  /\ head' = [head EXCEPT ![t] = Invalid]
  /\ UNCHANGED <<source, left, thread, UPDATER, UPDATER_FLAG, copy_num,
                 iter_num, res, upc>>

\* Training goes on whether or not the checkpoint node keeps up: nothing
\* flows back from here to the training nodes.
NextSource(t) ==
  /\ head[t] = NoPacket /\ left[t] = {}
  /\ source[t] < MaxIter
  /\ source' = [source EXCEPT ![t] = @ + 1]
  /\ left' = [left EXCEPT ![t] = Share(source[t] + 1, t)]
  /\ UNCHANGED <<head, thread, UPDATER, UPDATER_FLAG, copy_num, iter_num,
                 res, upc>>

-----------------------------------------------------------------------------
(* exract_data, thread t.  A poll that finds nothing to do sleeps and      *)
(* changes no state: it is a stuttering step.                              *)

\* Mutants: the limit tested before the increment, and tested with >.
LimitReachedEarly(n) == n = Limit + 1
LimitReachedPast(n) == n > Limit

\* The count n just stored makes the thread wait for the next iteration.
LimitReached(n) == n = Limit

\* Mutants: thread 1 does not wait; or leaves the flag up for the next time.
FlagUpAlways == TRUE
FlagLoweredNot == 1

FlagUp == UPDATER_FLAG = 1
FlagLowered == 2

Reading(t) == pc[t] = "poll" /\ head[t] # NoPacket /\ ~wait_for_next_iter[t]

Consume(t) == head' = [head EXCEPT ![t] = NoPacket]

\* The packet at the head is passed over and counts for nothing.
PassOver(t) ==
  /\ Consume(t)
  /\ UNCHANGED <<source, left, thread, UPDATER, UPDATER_FLAG, copy_num,
                 iter_num, res, upc>>

SkipInvalid(t) == Reading(t) /\ head[t] = Invalid /\ PassOver(t)

ToMark(t) ==
  /\ pc' = [pc EXCEPT ![t] = "mark"]
  /\ UNCHANGED <<stream, wait_for_next_iter, local_iter_num, reg, UPDATER,
                 UPDATER_FLAG, copy_num, iter_num, res, upc>>

\* The test of UPDATER and the mark are separate memory accesses; a chunk
\* that is marked already is a duplicate.
Test(t) ==
  /\ Reading(t) /\ head[t] \in Chunks
  /\ IF UPDATER[head[t]] = 0 THEN ToMark(t) ELSE PassOver(t)

Mark(t) ==
  /\ pc[t] = "mark"
  /\ UPDATER' = [UPDATER EXCEPT ![head[t]] = 1]
  /\ pc' = [pc EXCEPT ![t] = "copy"]
  /\ UNCHANGED <<stream, wait_for_next_iter, local_iter_num, reg,
                 UPDATER_FLAG, copy_num, iter_num, res, upc>>

Copy(t) ==
  /\ pc[t] = "copy"
  /\ res' = [res EXCEPT ![head[t]] = source[t]]
  /\ pc' = [pc EXCEPT ![t] = "load"]
  /\ UNCHANGED <<stream, wait_for_next_iter, local_iter_num, reg, UPDATER,
                 UPDATER_FLAG, copy_num, iter_num, upc>>

\* "*copy_num += 1" is a load and a store on memory the updater also writes.
LoadCount(t) ==
  /\ pc[t] = "load"
  /\ reg' = [reg EXCEPT ![t] = copy_num[t]]
  /\ pc' = [pc EXCEPT ![t] = "store"]
  /\ UNCHANGED <<stream, wait_for_next_iter, local_iter_num, UPDATER,
                 UPDATER_FLAG, copy_num, iter_num, res, upc>>

\* The limit is compared with the value just stored, kept in a register.
StoreCount(t) ==
  /\ pc[t] = "store"
  /\ copy_num' = [copy_num EXCEPT ![t] = reg[t] + 1]
  /\ wait_for_next_iter' =
       [wait_for_next_iter EXCEPT ![t] = LimitReached(reg[t] + 1)]
  /\ Consume(t)
  /\ pc' = [pc EXCEPT ![t] = "poll"]
  /\ UNCHANGED <<source, left, local_iter_num, reg, UPDATER, UPDATER_FLAG,
                 iter_num, res, upc>>

\* The waiting branch looks at iter_num only while its ring has a packet.
Wake(t) ==
  /\ pc[t] = "poll" /\ head[t] # NoPacket /\ wait_for_next_iter[t]
  /\ iter_num # local_iter_num[t]
  /\ wait_for_next_iter' = [wait_for_next_iter EXCEPT ![t] = FALSE]
  /\ local_iter_num' = [local_iter_num EXCEPT ![t] = @ + 1]
  /\ pc' = [pc EXCEPT ![t] = IF t = 0 THEN "fill" ELSE "spin"]
  /\ UNCHANGED <<stream, reg, UPDATER, UPDATER_FLAG, copy_num, iter_num, res,
                 upc>>

FillZero(t) ==
  /\ pc[t] = "fill"
  /\ UPDATER' = [c \in Chunks |-> 0]
  /\ pc' = [pc EXCEPT ![t] = "flag"]
  /\ UNCHANGED <<stream, wait_for_next_iter, local_iter_num, reg,
                 UPDATER_FLAG, copy_num, iter_num, res, upc>>

RaiseFlag(t) ==
  /\ pc[t] = "flag"
  /\ UPDATER_FLAG' = 1
  /\ pc' = [pc EXCEPT ![t] = "poll"]
  /\ UNCHANGED <<stream, wait_for_next_iter, local_iter_num, reg, UPDATER,
                 copy_num, iter_num, res, upc>>

SpinDone(t) ==
  /\ pc[t] = "spin" /\ FlagUp
  /\ UPDATER_FLAG' = FlagLowered
  /\ pc' = [pc EXCEPT ![t] = "poll"]
  /\ UNCHANGED <<stream, wait_for_next_iter, local_iter_num, reg, UPDATER,
                 copy_num, iter_num, res, upc>>

-----------------------------------------------------------------------------
(* Extractor::get_data_ptr and the optimizer step that follows it.         *)

\* Mutants: one chunk too early; one counter or none cleared; total subtracted.
ReadyOffByOne == copy_num[0] + copy_num[1] >= CHUNK_NUMS - 1
ClearedOne == [copy_num EXCEPT ![0] = 0]
ClearedNone == copy_num
ClearedByTotal == [t \in Bound |-> copy_num[t] - CHUNK_NUMS]

Ready == copy_num[0] + copy_num[1] >= CHUNK_NUMS
ClearedCounts == [t \in Bound |-> 0]

\* The two loads of the poll are one step: between two clears the counters
\* only grow, so a sum that reaches the total stays there.
PollReady ==
  /\ upc = "poll" /\ Ready
  /\ upc' = "clear"
  /\ UNCHANGED <<stream, thread, UPDATER, UPDATER_FLAG, copy_num, iter_num,
                 res>>

ClearCounts ==
  /\ upc = "clear"
  /\ copy_num' = ClearedCounts
  /\ upc' = "bump"
  /\ UNCHANGED <<stream, thread, UPDATER, UPDATER_FLAG, iter_num, res>>

BumpIter ==
  /\ upc = "bump"
  /\ iter_num' = iter_num + 1
  /\ upc' = "use"
  /\ UNCHANGED <<stream, thread, UPDATER, UPDATER_FLAG, copy_num, res>>

\* optimizer.step() reads the result memory in place until it is done.
OptimizerDone ==
  /\ upc = "use"
  /\ upc' = "poll"
  /\ UNCHANGED <<stream, thread, UPDATER, UPDATER_FLAG, copy_num, iter_num,
                 res>>

-----------------------------------------------------------------------------
Step(t) ==
  \/ SkipInvalid(t) \/ Test(t) \/ Mark(t) \/ Copy(t)
  \/ LoadCount(t) \/ StoreCount(t) \/ Wake(t) \/ FillZero(t) \/ RaiseFlag(t)
  \/ SpinDone(t)

Updater == PollReady \/ ClearCounts \/ BumpIter \/ OptimizerDone

Source(t) == PublishChunk(t) \/ PublishInvalid(t) \/ NextSource(t)

Next == Updater \/ \E t \in Bound : Step(t) \/ Source(t)

Spec == Init /\ [][Next]_vars

\* Threads and updater are scheduled; training proceeds, and a stream carries
\* finitely many other packets before its next data (strong fairness).
Fairness ==
  /\ WF_vars(Updater)
  /\ \A t \in Bound : /\ WF_vars(Step(t))
                      /\ SF_vars(PublishChunk(t) \/ NextSource(t))

FairSpec == Spec /\ Fairness

-----------------------------------------------------------------------------
(* Properties.                                                             *)

\* A gradient is handed over only when every position holds the data of
\* exactly the iteration being handed over, although the updater looks at
\* nothing but the two counters (mem_extract.cpp:76-124).
DeliveredComplete ==
  upc \in {"clear", "bump"} => \A c \in Chunks : res[c] = iter_num + 1

\* While the optimizer reads the result memory in place, a position may be
\* overwritten by the following iteration but never by a later one, nor is
\* it left from an earlier one: the threads run at most one iteration ahead.
OptimizerOneIterationAhead ==
  upc = "use" => \A c \in Chunks : res[c] \in {iter_num, iter_num + 1}

\* What main.cpp:231 says of the moment the threads start to overwrite: the
\* data has been read.
OverwriteAfterRead ==
  upc = "use" => \A c \in Chunks : res[c] = iter_num

\* A packet that is about to be tested against UPDATER is never mistaken for
\* a duplicate, and belongs to the iteration the thread collects: marks of
\* the previous iteration are gone before either thread collects again.
NoStaleMark ==
  \A t \in Bound : Reading(t) /\ head[t] \in Chunks =>
    /\ UPDATER[head[t]] = 0
    /\ source[t] = local_iter_num[t] + 1

\* Clearing UPDATER never destroys a mark of the iteration being collected:
\* when marks go, the other thread has not begun to collect.
ClearIsExclusive ==
  [][(\E c \in Chunks : UPDATER[c] = 1 /\ UPDATER'[c] = 0) =>
       /\ iter_num = local_iter_num[0]
       /\ wait_for_next_iter[1] \/ pc[1] = "spin"
       /\ \A c \in Chunks : res[c] = iter_num]_vars

\* The wait test of main.cpp:181 compares with =, so a counter that stepped
\* past the limit would never stop its thread: with RING_NUMS 2 it cannot,
\* whatever the streams carry, as a hand-over needs both threads at the limit.
NeverPastLimit == \A t \in Bound : copy_num[t] <= Limit

\* The counters are cleared when no thread is between the load and the
\* store of its increment, so no increment survives a clear or is lost in it.
NoIncrementLost ==
  [][copy_num' = [t \in Bound |-> 0] /\ copy_num' # copy_num =>
       \A t \in Bound : pc[t] = "poll" /\ wait_for_next_iter[t]]_vars

\* Every iteration the training runs is handed to the optimizer.
EveryIterationDelivered == \A k \in 1..MaxIter : <>(iter_num = k)

\* The threads and the updater together implement the abstract checkpoint.
C == INSTANCE Checkpoint WITH
       iter <- iter_num, have <- {c \in Chunks : res[c] = iter_num + 1}

CheckpointSpec == C!Spec

-----------------------------------------------------------------------------
(* The inductive invariant for matched streams: in an iteration each chunk *)
(* travels on one stream, and each stream carries as many as its thread    *)
(* waits for. Which chunk travels where may change after the first one.    *)

Matched ==
  /\ \A P \in {OwnFirst, Own} :
       /\ P[0] \cup P[1] = Chunks /\ P[0] \cap P[1] = {}
       /\ \A t \in Bound : Cardinality(P[t]) = Limit
  /\ Limit > 0

\* The chunks thread t collects for the iteration being assembled.
Due(t) == Share(iter_num + 1, t)

\* The chunks of iteration local_iter_num[t] + 1 that thread t is done with.
Taken(t) ==
  IF source[t] = local_iter_num[t] THEN {}
  ELSE IF source[t] = local_iter_num[t] + 1
       THEN Share(source[t], t) \ (left[t] \cup {head[t]})
       ELSE Share(local_iter_num[t] + 1, t)

Resetting(t) == pc[t] \in {"fill", "flag", "spin"}
Full(t)  == wait_for_next_iter[t] /\ local_iter_num[t] = iter_num
Stale(t) == wait_for_next_iter[t] /\ local_iter_num[t] + 1 = iter_num

\* Thread 0 has cleared UPDATER for the iteration now being collected.
Cleared == local_iter_num[0] = iter_num /\ pc[0] # "fill"

StreamInv(t) ==
  /\ source[t] > 0
  /\ left[t] \subseteq Share(source[t], t)
  /\ head[t] \in Share(source[t], t) \cup {NoPacket, Invalid}
  /\ head[t] \notin left[t]

ControlInv(t) ==
  /\ wait_for_next_iter[t] => pc[t] = "poll"
  /\ pc[t] \in {"fill", "flag"} => t = 0
  /\ pc[t] = "spin" => t = 1
  /\ pc[t] \in {"mark", "copy", "load", "store"} => head[t] \in Chunks
  /\ pc[t] = "store" => reg[t] = copy_num[t]

\* Nothing of the iteration the stream carries is left, or all of it is.
AllPassed(t) == left[t] = {} /\ head[t] \notin Chunks
AllToCome(t) == Share(source[t], t) \subseteq left[t] \cup {head[t]}

WaitingInv(t) == wait_for_next_iter[t] =>
  /\ Full(t) \/ Stale(t)
  /\ \/ source[t] = local_iter_num[t] + 1 /\ AllPassed(t)
     \/ source[t] = local_iter_num[t] + 2 /\ AllToCome(t)

CollectingInv(t) == ~wait_for_next_iter[t] =>
  /\ local_iter_num[t] = iter_num
  /\ \/ source[t] = local_iter_num[t] /\ AllPassed(t)
     \/ source[t] = local_iter_num[t] + 1
  /\ Taken(t) # Due(t)
  /\ Resetting(t) => Taken(t) = {}

CountInv(t) ==
  copy_num[t] = IF ~wait_for_next_iter[t] THEN Cardinality(Taken(t))
                ELSE IF Full(t) /\ upc # "bump" THEN Limit ELSE 0

MarkInv(t) == \A c \in Due(t) :
  UPDATER[c] = 1 <=>
    IF Resetting(t) \/ Stale(t) THEN ~Cleared
    ELSE \/ Full(t)
         \/ c \in Taken(t)
         \/ c = head[t] /\ pc[t] \in {"copy", "load", "store"}

ResInv(t) == \A c \in Due(t) :
  res[c] = IF \/ Full(t)
              \/ ~wait_for_next_iter[t] /\ c \in Taken(t)
              \/ c = head[t] /\ pc[t] \in {"load", "store"}
           THEN iter_num + 1
           ELSE iter_num

\* UPDATER_FLAG is 1 exactly while thread 0 is past its reset and thread 1
\* is not; thread 1 is never past its reset before thread 0.
FlagInv ==
  /\ UPDATER_FLAG = 1 <=> /\ Cleared /\ pc[0] # "flag"
                          /\ Stale(1) \/ pc[1] = "spin"
  /\ Stale(0) \/ pc[0] \in {"fill", "flag"} => Stale(1) \/ pc[1] = "spin"

UpdaterInv == upc \in {"clear", "bump"} => \A t \in Bound : Full(t)

ThreadInv(t) ==
  /\ StreamInv(t) /\ ControlInv(t) /\ WaitingInv(t) /\ CollectingInv(t)
  /\ CountInv(t) /\ MarkInv(t) /\ ResInv(t)

IInv ==
  /\ TypeOK
  /\ \A t \in Bound : ThreadInv(t)
  /\ FlagInv
  /\ UpdaterInv

-----------------------------------------------------------------------------
(* The inductive invariant for streams of any content: no thread ever      *)
(* counts past its limit, and the updater clears only full counts.         *)

LimitInv ==
  /\ TypeOK
  /\ \A t \in Bound :
       /\ pc[t] = "store" => reg[t] = copy_num[t]
       /\ ~wait_for_next_iter[t] =>
            local_iter_num[t] = iter_num /\ copy_num[t] < Limit
       /\ wait_for_next_iter[t] =>
            /\ pc[t] = "poll"
            /\ \/ Full(t) /\ copy_num[t] = IF upc = "bump" THEN 0 ELSE Limit
               \/ Stale(t) /\ copy_num[t] = 0
       /\ upc \in {"clear", "bump"} => Full(t)
=============================================================================
