----------------------- MODULE GradientAssemblyProofs -----------------------
(***************************************************************************)
(* Proofs about GradientAssembly for every set of chunks and every pair of *)
(* matched streams.                                                        *)
(***************************************************************************)
EXTENDS GradientAssembly, FiniteSetTheorems, TLAPS

USE DEF Bound, AllPassed, AllToCome

\* What holds of each of the two divisions of the chunks.
LEMMA ShareFacts ==
  ASSUME Matched, NEW t \in Bound, NEW j
  PROVE  /\ IsFiniteSet(Share(j, t)) /\ Share(j, t) \subseteq Chunks
         /\ Cardinality(Share(j, t)) = Limit /\ Share(j, t) # {}
         /\ NoPacket \notin Share(j, t) /\ Invalid \notin Share(j, t)
<1>1. Share(j, t) \subseteq Chunks /\ Cardinality(Share(j, t)) = Limit
  BY StreamAssumption DEF Share, Matched
<1>2. IsFiniteSet(Share(j, t))
  BY <1>1, StreamAssumption, FS_Subset
<1>3. Share(j, t) # {}
  BY <1>1, FS_EmptySet DEF Matched
<1> QED
  BY <1>1, <1>2, <1>3, StreamAssumption

LEMMA DueFacts ==
  ASSUME Matched
  PROVE  /\ Due(0) \cup Due(1) = Chunks /\ Due(0) \cap Due(1) = {}
         /\ \A t \in Bound : Due(t) \subseteq Chunks
<1>1. Due(0) \cup Due(1) = Chunks /\ Due(0) \cap Due(1) = {}
  <2>1. CASE iter_num + 1 = 1
    BY <2>1 DEF Due, Share, Matched
  <2>2. CASE iter_num + 1 # 1
    BY <2>2 DEF Due, Share, Matched
  <2> QED
    BY <2>1, <2>2
<1> QED
  BY <1>1

LEMMA LimitFacts ==
  ASSUME Matched
  PROVE  /\ Limit \in Nat /\ CHUNK_NUMS \in Nat
         /\ CHUNK_NUMS = 2 * Limit
<1> DEFINE A == Share(2, 0)
           B == Share(2, 1)
<1>1. /\ IsFiniteSet(A) /\ Cardinality(A) = Limit
      /\ IsFiniteSet(B) /\ Cardinality(B) = Limit
  BY ShareFacts
<1>2. A \cup B = Chunks /\ A \cap B = {}
  BY DEF Share, Matched
<1>3. CHUNK_NUMS \in Nat
  BY StreamAssumption, FS_CardinalityType DEF CHUNK_NUMS
<1>4. Limit \in Nat
  BY <1>1, FS_CardinalityType
<1> HIDE DEF A, B
<1>5. Cardinality(A \cup B) =
        Cardinality(A) + Cardinality(B) - Cardinality(A \cap B)
  BY <1>1, FS_Union
<1>6. Cardinality({}) = 0
  BY FS_EmptySet
<1>7. CHUNK_NUMS = Limit + Limit - 0
  BY <1>1, <1>2, <1>5, <1>6, Zenon DEF CHUNK_NUMS
<1> QED
  BY <1>3, <1>4, <1>7

\* A chunk the stream shows is one of the iteration the stream carries.
LEMMA HeadFacts ==
  ASSUME Matched, TypeOK, NEW t \in Bound, StreamInv(t)
  PROVE  /\ head[t] \in Chunks <=> head[t] \in Share(source[t], t)
         /\ head[t] \in {NoPacket, Invalid} <=> head[t] \notin Chunks
BY ShareFacts, StreamAssumption DEF StreamInv

\* What thread t is done with grows by the packet it consumes.
LEMMA TakenFacts ==
  ASSUME Matched, IInv, NEW t \in Bound, ~wait_for_next_iter[t]
  PROVE  /\ IsFiniteSet(Taken(t)) /\ Cardinality(Taken(t)) \in Nat
         /\ Taken(t) \subseteq Due(t) /\ Taken(t) # Due(t)
         /\ Cardinality(Taken(t)) < Limit
<1>1. Taken(t) \subseteq Due(t) /\ Taken(t) # Due(t)
  BY DEF IInv, ThreadInv, CollectingInv, Taken, Due
<1>2. IsFiniteSet(Due(t)) /\ Cardinality(Due(t)) = Limit
  BY ShareFacts DEF Due
<1> QED
  BY <1>1, <1>2, FS_Subset, FS_CardinalityType

\* Neither the stream nor the updater moves on.
LEMMA SameShare ==
  ASSUME NEW t \in Bound, source'[t] = source[t], iter_num' = iter_num
  PROVE  /\ Share(source[t], t)' = Share(source[t], t)
         /\ Due(t)' = Due(t)
BY DEF Share, Due

\* A step that leaves alone what thread u and its chunks depend on.
LEMMA Frame ==
  ASSUME TypeOK, NEW u \in Bound, ThreadInv(u),
         source'[u] = source[u], left'[u] = left[u], head'[u] = head[u],
         pc'[u] = pc[u], wait_for_next_iter'[u] = wait_for_next_iter[u],
         local_iter_num'[u] = local_iter_num[u], reg'[u] = reg[u],
         copy_num'[u] = copy_num[u], iter_num' = iter_num,
         upc' = "bump" <=> upc = "bump",
         Cleared' <=> Cleared,
         \A c \in Due(u) : UPDATER'[c] = UPDATER[c] /\ res'[c] = res[c]
  PROVE  ThreadInv(u)'
<1>1. /\ Due(u)' = Due(u)
      /\ Share(source[u], u)' = Share(source[u], u)
  BY SameShare
<1>2. Taken(u)' = Taken(u)
  BY DEF Taken, Share
<1>3. /\ Full(u)' <=> Full(u)
      /\ Stale(u)' <=> Stale(u)
      /\ Resetting(u)' <=> Resetting(u)
  BY DEF Full, Stale, Resetting
<1>4. StreamInv(u)' /\ ControlInv(u)'
  BY <1>1 DEF ThreadInv, StreamInv, ControlInv
<1>5. WaitingInv(u)' /\ CollectingInv(u)'
  BY <1>1, <1>2, <1>3 DEF ThreadInv, WaitingInv, CollectingInv
<1>6. CountInv(u)'
  BY <1>2, <1>3 DEF ThreadInv, CountInv
<1>7. MarkInv(u)'
  BY <1>1, <1>2, <1>3 DEF ThreadInv, MarkInv
<1>8. ResInv(u)'
  BY <1>1, <1>2, <1>3 DEF ThreadInv, ResInv
<1> QED
  BY <1>4, <1>5, <1>6, <1>7, <1>8 DEF ThreadInv

-----------------------------------------------------------------------------
(* The invariant holds initially.                                          *)

LEMMA InitInv == Matched /\ Init => IInv
<1> SUFFICES ASSUME Matched, Init PROVE IInv
  OBVIOUS
<1>1. TypeOK
  BY LimitFacts, StreamAssumption DEF TypeOK, Init
<1>2. Cardinality({}) = 0
  BY FS_EmptySet
<1>3. ASSUME NEW t \in Bound PROVE ThreadInv(t)
  <2>1. /\ Taken(t) = {} /\ Due(t) # {}
        /\ Due(t) = OwnFirst[t] /\ Share(source[t], t) = OwnFirst[t]
    BY ShareFacts DEF Init, Taken, Due, Share
  <2>2. StreamInv(t) /\ ControlInv(t) /\ WaitingInv(t)
    BY <2>1, StreamAssumption DEF Init, StreamInv, ControlInv, WaitingInv
  <2>3. CollectingInv(t) /\ CountInv(t)
    BY <1>2, <2>1 DEF Init, CollectingInv, CountInv, Resetting
  <2>4. MarkInv(t) /\ ResInv(t)
    BY <2>1, StreamAssumption
    DEF Init, MarkInv, ResInv, Resetting, Stale, Full
  <2> QED
    BY <2>2, <2>3, <2>4 DEF ThreadInv
<1>4. FlagInv /\ UpdaterInv
  BY DEF Init, FlagInv, UpdaterInv, Cleared, Stale
<1> QED
  BY <1>1, <1>3, <1>4 DEF IInv

-----------------------------------------------------------------------------
(* The streams.                                                            *)

LEMMA PublishChunkInv ==
  ASSUME Matched, IInv, NEW t \in Bound, PublishChunk(t)
  PROVE  IInv'
<1> USE DEF IInv
<1>1. PICK c \in left[t] : /\ head' = [head EXCEPT ![t] = c]
                           /\ left' = [left EXCEPT ![t] = @ \ {c}]
  BY DEF PublishChunk
<1>2. /\ left[t] \subseteq Share(source[t], t) /\ c \in Chunks
      /\ head[t] = NoPacket /\ head[t] \notin Chunks
  BY <1>1, ShareFacts, StreamAssumption DEF ThreadInv, StreamInv, PublishChunk
<1>3. TypeOK'
  BY <1>1, <1>2 DEF TypeOK, PublishChunk, thread
<1>4. /\ Due(t)' = Due(t)
      /\ Share(source[t], t)' = Share(source[t], t)
  BY SameShare DEF PublishChunk, thread
<1>5. Taken(t)' = Taken(t) /\ (Cleared' <=> Cleared)
  <2>1. /\ left'[t] = left[t] \ {c} /\ head'[t] = c
        /\ source' = source /\ local_iter_num' = local_iter_num
    BY <1>1 DEF PublishChunk, thread, TypeOK
  <2>2. Share(source[t], t) \ (left'[t] \cup {head'[t]}) =
          Share(source[t], t) \ (left[t] \cup {head[t]})
    BY <1>1, <1>2, <2>1, ShareFacts
  <2>3. Taken(t)' = Taken(t)
    BY <1>4, <2>1, <2>2 DEF Taken, Share
  <2> QED
    BY <2>3 DEF Cleared, PublishChunk, thread
<1>6. ThreadInv(t)'
  <2> USE DEF PublishChunk, thread, TypeOK, ThreadInv
  <2>1. StreamInv(t)' /\ ControlInv(t)'
    BY <1>1, <1>2, <1>4 DEF StreamInv, ControlInv
  <2>2. WaitingInv(t)'
    BY <1>1, <1>2, <1>4, ShareFacts DEF WaitingInv, Full, Stale
  <2>3. CollectingInv(t)'
    BY <1>1, <1>2, <1>5, <1>4 DEF CollectingInv, Resetting
  <2>4. CountInv(t)'
    BY <1>5 DEF CountInv, Full
  <2>5. pc[t] = "poll" \/ Resetting(t)
    BY <1>2 DEF ControlInv, Resetting
  <2>6. MarkInv(t)' /\ ResInv(t)'
    BY <1>2, <1>5, <1>4, <2>5 DEF MarkInv, ResInv, Resetting, Full, Stale
  <2> QED
    BY <2>1, <2>2, <2>3, <2>4, <2>6
<1>7. ASSUME NEW u \in Bound, u # t PROVE ThreadInv(u)'
  BY <1>1, <1>5, <1>7, Frame DEF PublishChunk, thread, TypeOK
<1>8. FlagInv' /\ UpdaterInv'
  BY <1>5 DEF FlagInv, UpdaterInv, Full, Stale, PublishChunk, thread
<1> QED
  BY <1>3, <1>6, <1>7, <1>8

LEMMA PublishInvalidInv ==
  ASSUME Matched, IInv, NEW t \in Bound, PublishInvalid(t)
  PROVE  IInv'
<1> USE DEF IInv
<1>1. head[t] \notin Chunks /\ Invalid \notin Chunks
  BY StreamAssumption DEF PublishInvalid
<1>2. /\ Due(t)' = Due(t)
      /\ Share(source[t], t)' = Share(source[t], t)
  BY SameShare DEF PublishInvalid, thread
<1>3. TypeOK'
  BY DEF TypeOK, PublishInvalid, thread
<1>4. \A j : NoPacket \notin Share(j, t) /\ Invalid \notin Share(j, t)
  BY ShareFacts
<1>5. Taken(t)' = Taken(t) /\ (Cleared' <=> Cleared)
  <2>1. Taken(t)' = Taken(t)
    <3>1. /\ source' = source /\ local_iter_num' = local_iter_num
          /\ left' = left /\ head[t] = NoPacket /\ head'[t] = Invalid
      BY DEF PublishInvalid, thread, TypeOK
    <3>2. Share(source[t], t) \ (left[t] \cup {NoPacket}) =
            Share(source[t], t) \ (left[t] \cup {Invalid})
      BY <1>4
    <3> QED
      BY <1>2, <3>1, <3>2 DEF Taken, Share
  <2> QED
    BY <2>1 DEF Cleared, PublishInvalid, thread
<1>6. ThreadInv(t)'
  <2> USE DEF PublishInvalid, thread, TypeOK, ThreadInv
  <2>1. StreamInv(t)' /\ ControlInv(t)'
    BY <1>1, <1>2, ShareFacts DEF StreamInv, ControlInv
  <2>2. WaitingInv(t)'
    BY <1>1, <1>2, ShareFacts DEF WaitingInv, Full, Stale
  <2>3. CollectingInv(t)' /\ CountInv(t)'
    BY <1>1, <1>5, <1>2 DEF CollectingInv, Resetting, CountInv, Full
  <2>4. MarkInv(t)' /\ ResInv(t)'
    BY <1>1, <1>5, <1>2, DueFacts DEF MarkInv, ResInv, Resetting, Full, Stale
  <2> QED
    BY <2>1, <2>2, <2>3, <2>4
<1>7. ASSUME NEW u \in Bound, u # t PROVE ThreadInv(u)'
  BY <1>5, <1>7, Frame DEF PublishInvalid, thread, TypeOK
<1>8. FlagInv' /\ UpdaterInv'
  BY <1>5 DEF FlagInv, UpdaterInv, Full, Stale, PublishInvalid, thread
<1> QED
  BY <1>3, <1>6, <1>7, <1>8

LEMMA NextSourceInv ==
  ASSUME Matched, IInv, NEW t \in Bound, NextSource(t)
  PROVE  IInv'
<1> USE DEF IInv
<1>1. /\ head[t] = NoPacket /\ head[t] \notin Chunks /\ left[t] = {}
      /\ left'[t] = Share(source[t] + 1, t) /\ head' = head
      /\ source'[t] = source[t] + 1
  BY StreamAssumption DEF NextSource, TypeOK
<1>2. /\ Due(t)' = Due(t)
      /\ Share(source[t], t)' = Share(source[t] + 1, t)
  BY <1>1 DEF NextSource, thread, Due, Share
<1>3. \A j : Share(j, t) \subseteq Chunks /\ Share(j, t) # {}
         /\ NoPacket \notin Share(j, t)
  BY ShareFacts
<1>4. TypeOK'
  BY <1>1, <1>3 DEF TypeOK, NextSource, thread
<1>5. (Cleared' <=> Cleared)
  BY DEF Cleared, NextSource, thread
<1>6. ThreadInv(t)'
  <2> USE DEF NextSource, thread, TypeOK, ThreadInv
  <2>1. StreamInv(t)' /\ ControlInv(t)'
    BY <1>1, <1>3, <1>2 DEF StreamInv, ControlInv
  <2>2. CASE wait_for_next_iter[t]
    <3>1. source[t] = local_iter_num[t] + 1
      <4>1. ~(Share(source[t], t) \subseteq left[t] \cup {head[t]})
        BY <1>1, <1>3
      <4> QED
        BY <2>2, <4>1 DEF WaitingInv
    <3>2. /\ source'[t] = local_iter_num[t] + 2
          /\ (Full(t)' <=> Full(t)) /\ (Stale(t)' <=> Stale(t))
      BY <1>1, <3>1 DEF Full, Stale
    <3>3. WaitingInv(t)' /\ CollectingInv(t)' /\ CountInv(t)'
      BY <1>1, <1>2, <2>2, <3>2 DEF WaitingInv, CollectingInv, CountInv
    <3>4. MarkInv(t)' /\ ResInv(t)'
      BY <1>5, <1>2, <2>2, <3>2 DEF MarkInv, ResInv, Resetting, WaitingInv
    <3> QED
      BY <2>1, <3>3, <3>4
  <2>3. CASE ~wait_for_next_iter[t]
    <3>1. source[t] = local_iter_num[t]
      <4>1. source[t] = iter_num + 1 =>
              Due(t) \ (left[t] \cup {head[t]}) = Due(t)
        BY <1>1, <1>3 DEF Due
      <4> QED
        BY <2>3, <4>1 DEF CollectingInv, Taken, Due
    <3>2. Taken(t) = {} /\ Taken(t)' = {}
      BY <1>1, <1>2, <3>1 DEF Taken
    <3>3. WaitingInv(t)' /\ CollectingInv(t)' /\ CountInv(t)'
      <4>1. /\ Due(t) # {}
            /\ local_iter_num[t] = iter_num /\ source'[t] = iter_num + 1
        BY <1>1, <1>3, <2>3, <3>1 DEF Due, CollectingInv
      <4>2. WaitingInv(t)' /\ CollectingInv(t)'
        BY <1>2, <2>3, <3>2, <4>1 DEF WaitingInv, CollectingInv, Resetting
      <4>3. CountInv(t)'
        BY <2>3, <3>2 DEF CountInv
      <4> QED
        BY <4>2, <4>3
    <3>4. MarkInv(t)' /\ ResInv(t)'
      BY <1>1, <1>5, <1>2, <2>3, <3>2
      DEF MarkInv, ResInv, Resetting, Full, Stale
    <3> QED
      BY <2>1, <3>3, <3>4
  <2> QED
    BY <2>2, <2>3
<1>7. ASSUME NEW u \in Bound, u # t PROVE ThreadInv(u)'
  BY <1>5, <1>7, Frame DEF NextSource, thread, TypeOK
<1>8. FlagInv' /\ UpdaterInv'
  BY <1>5 DEF FlagInv, UpdaterInv, Full, Stale, NextSource, thread
<1> QED
  BY <1>4, <1>6, <1>7, <1>8

-----------------------------------------------------------------------------
(* The threads.                                                            *)

\* A packet the thread reads belongs to the iteration it collects.
LEMMA ReadingFacts ==
  ASSUME Matched, IInv, NEW t \in Bound, ~wait_for_next_iter[t],
         head[t] \in Chunks
  PROVE  /\ source[t] = local_iter_num[t] + 1 /\ local_iter_num[t] = iter_num
         /\ head[t] \notin Taken(t) /\ head[t] \in Due(t)
         /\ Taken(t) = Due(t) \ (left[t] \cup {head[t]})
         /\ upc \notin {"clear", "bump"}
<1>1. source[t] = local_iter_num[t] + 1 /\ local_iter_num[t] = iter_num
  BY DEF IInv, ThreadInv, CollectingInv
<1>2. Share(source[t], t) = Due(t) /\ head[t] \in Due(t)
  BY <1>1, HeadFacts DEF Due, IInv, ThreadInv
<1>3. Taken(t) = Due(t) \ (left[t] \cup {head[t]})
  BY <1>1, <1>2 DEF Taken, IInv, TypeOK
<1> QED
  BY <1>1, <1>2, <1>3 DEF IInv, UpdaterInv, Full

LEMMA SkipInvalidInv ==
  ASSUME Matched, IInv, NEW t \in Bound, SkipInvalid(t)
  PROVE  IInv'
<1> USE DEF IInv
<1>1. head[t] \notin Chunks /\ NoPacket \notin Chunks
  BY StreamAssumption DEF SkipInvalid, PassOver
<1>2. /\ Due(t)' = Due(t)
      /\ Share(source[t], t)' = Share(source[t], t)
  BY SameShare DEF SkipInvalid, PassOver, thread
<1>3. TypeOK'
  BY DEF TypeOK, SkipInvalid, PassOver, Consume, thread
<1>4. Taken(t)' = Taken(t) /\ (Cleared' <=> Cleared)
  BY <1>1, ShareFacts DEF Taken, Cleared, SkipInvalid, PassOver, Consume, thread, TypeOK
<1>5. ThreadInv(t)'
  <2> USE DEF SkipInvalid, PassOver, Reading, Consume, thread, TypeOK, ThreadInv
  <2>0. NoPacket \notin left[t]
    BY <1>1, ShareFacts DEF StreamInv
  <2>1. StreamInv(t)' /\ ControlInv(t)'
    BY <1>1, <1>2, <2>0 DEF StreamInv, ControlInv
  <2>2. WaitingInv(t)' /\ CollectingInv(t)' /\ CountInv(t)'
    BY <1>1, <1>4, <1>2, ShareFacts DEF WaitingInv, CollectingInv, Resetting, CountInv, Full
  <2>3. MarkInv(t)' /\ ResInv(t)'
    BY <1>1, <1>4, <1>2, DueFacts DEF MarkInv, ResInv, Resetting, Full, Stale
  <2> QED
    BY <2>1, <2>2, <2>3
<1>6. ASSUME NEW u \in Bound, u # t PROVE ThreadInv(u)'
  BY <1>4, <1>6, Frame DEF SkipInvalid, PassOver, Consume, thread, TypeOK
<1>7. FlagInv' /\ UpdaterInv'
  BY <1>4 DEF FlagInv, UpdaterInv, Full, Stale, SkipInvalid, PassOver, thread
<1> QED
  BY <1>3, <1>5, <1>6, <1>7

\* With matched streams no packet is ever taken for a duplicate.
LEMMA NoDuplicate ==
  ASSUME Matched, IInv, NEW t \in Bound, Reading(t), head[t] \in Chunks
  PROVE  /\ UPDATER[head[t]] = 0
         /\ source[t] = local_iter_num[t] + 1
<1>1. head[t] \in Due(t)
  BY ReadingFacts DEF Reading
<1>2. UPDATER[head[t]] # 1
  BY <1>1, ReadingFacts
  DEF Reading, IInv, ThreadInv, MarkInv, Resetting, Stale, Full
<1> QED
  BY <1>1, <1>2, ReadingFacts DEF Reading, IInv, TypeOK

LEMMA TestInv ==
  ASSUME Matched, IInv, NEW t \in Bound, Test(t)
  PROVE  IInv'
<1> USE DEF IInv
<1>a. Reading(t) /\ head[t] \in Chunks /\ UPDATER[head[t]] = 0 /\ ToMark(t)
  BY NoDuplicate DEF Test
<1>1. \A u \in Bound : /\ Due(u)' = Due(u)
                       /\ Share(source[u], u)' = Share(source[u], u)
  BY <1>a, SameShare DEF ToMark, stream
<1>2. head[t] \in Due(t)
  BY <1>a, ReadingFacts DEF Reading
<1>3. TypeOK'
  BY <1>a DEF TypeOK, ToMark, stream
<1>4. Taken(t)' = Taken(t) /\ (Cleared' <=> Cleared)
  BY <1>1, <1>a DEF Taken, Cleared, Share, ToMark, Reading, stream, TypeOK
<1>5. ThreadInv(t)'
  <2> USE <1>a DEF ToMark, Reading, stream, TypeOK, ThreadInv
  <2>1. StreamInv(t)' /\ ControlInv(t)' /\ WaitingInv(t)'
    BY <1>1, <1>2 DEF StreamInv, ControlInv, WaitingInv
  <2>2. CollectingInv(t)' /\ CountInv(t)'
    BY <1>1, <1>4 DEF CollectingInv, Resetting, CountInv, Full
  <2>3. MarkInv(t)' /\ ResInv(t)'
    BY <1>1, <1>4 DEF MarkInv, ResInv, Resetting, Full, Stale
  <2> QED
    BY <2>1, <2>2, <2>3
<1>6. ASSUME NEW u \in Bound, u # t PROVE ThreadInv(u)'
  BY <1>a, <1>4, <1>6, Frame DEF ToMark, stream, TypeOK
<1>7. FlagInv' /\ UpdaterInv'
  BY <1>a, <1>4
  DEF FlagInv, UpdaterInv, Full, Stale, ToMark, Reading, stream, TypeOK
<1> QED
  BY <1>3, <1>5, <1>6, <1>7

LEMMA MarkInvariance ==
  ASSUME Matched, IInv, NEW t \in Bound, Mark(t)
  PROVE  IInv'
<1> USE DEF IInv
<1>1. \A u \in Bound : /\ Due(u)' = Due(u)
                       /\ Share(source[u], u)' = Share(source[u], u)
  BY SameShare DEF Mark, stream
<1>2. head[t] \in Due(t) /\ head[t] \in Chunks /\ ~wait_for_next_iter[t]
  BY ReadingFacts DEF Mark, ThreadInv, ControlInv
<1>3. TypeOK'
  BY DEF TypeOK, Mark, stream
<1>4. Taken(t)' = Taken(t) /\ (Cleared' <=> Cleared)
  BY <1>1 DEF Taken, Cleared, Share, Mark, stream, TypeOK
<1>5. ThreadInv(t)'
  <2> USE DEF Mark, stream, TypeOK, ThreadInv
  <2>1. StreamInv(t)' /\ ControlInv(t)' /\ WaitingInv(t)'
    BY <1>1, <1>2 DEF StreamInv, ControlInv, WaitingInv
  <2>2. CollectingInv(t)' /\ CountInv(t)'
    BY <1>1, <1>4 DEF CollectingInv, Resetting, CountInv, Full
  <2>3. MarkInv(t)'
    BY <1>1, <1>2, <1>4, DueFacts DEF MarkInv, Resetting, Full, Stale
  <2>4. ResInv(t)'
    BY <1>1, <1>2, <1>4 DEF ResInv, Full
  <2> QED
    BY <2>1, <2>2, <2>3, <2>4
<1>6. ASSUME NEW u \in Bound, u # t PROVE ThreadInv(u)'
  <2>1. head[t] \notin Due(u)
    BY <1>2, <1>6, DueFacts
  <2>2. \A c \in Due(u) : UPDATER'[c] = UPDATER[c] /\ res'[c] = res[c]
    BY <2>1, DueFacts DEF Mark, TypeOK
  <2> QED
    BY <1>4, <1>6, <2>2, Frame DEF Mark, stream, TypeOK
<1>7. FlagInv' /\ UpdaterInv'
  BY <1>4 DEF FlagInv, UpdaterInv, Full, Stale, Mark, stream, TypeOK
<1> QED
  BY <1>3, <1>5, <1>6, <1>7

LEMMA CopyInv ==
  ASSUME Matched, IInv, NEW t \in Bound, Copy(t)
  PROVE  IInv'
<1> USE DEF IInv
<1>1. \A u \in Bound : /\ Due(u)' = Due(u)
                       /\ Share(source[u], u)' = Share(source[u], u)
  BY SameShare DEF Copy, stream
<1>2. head[t] \in Due(t) /\ head[t] \in Chunks /\ ~wait_for_next_iter[t]
  BY ReadingFacts DEF Copy, ThreadInv, ControlInv
<1>3. TypeOK'
  BY DEF TypeOK, Copy, stream
<1>4. Taken(t)' = Taken(t) /\ (Cleared' <=> Cleared)
  BY <1>1 DEF Taken, Cleared, Share, Copy, stream, TypeOK
<1>5. ThreadInv(t)'
  <2> USE DEF Copy, stream, TypeOK, ThreadInv
  <2>1. StreamInv(t)' /\ ControlInv(t)' /\ WaitingInv(t)'
    BY <1>1, <1>2 DEF StreamInv, ControlInv, WaitingInv
  <2>2. CollectingInv(t)' /\ CountInv(t)'
    BY <1>1, <1>4 DEF CollectingInv, Resetting, CountInv, Full
  <2>3. MarkInv(t)'
    BY <1>1, <1>2, <1>4 DEF MarkInv, Resetting, Full, Stale
  <2>4. ResInv(t)'
    BY <1>1, <1>2, <1>4, DueFacts, ReadingFacts DEF ResInv, Full
  <2> QED
    BY <2>1, <2>2, <2>3, <2>4
<1>6. ASSUME NEW u \in Bound, u # t PROVE ThreadInv(u)'
  <2>1. head[t] \notin Due(u)
    BY <1>2, <1>6, DueFacts
  <2>2. \A c \in Due(u) : UPDATER'[c] = UPDATER[c] /\ res'[c] = res[c]
    BY <2>1, DueFacts DEF Copy, TypeOK
  <2> QED
    BY <1>4, <1>6, <2>2, Frame DEF Copy, stream, TypeOK
<1>7. FlagInv' /\ UpdaterInv'
  BY <1>4 DEF FlagInv, UpdaterInv, Full, Stale, Copy, stream, TypeOK
<1> QED
  BY <1>3, <1>5, <1>6, <1>7

LEMMA LoadCountInv ==
  ASSUME Matched, IInv, NEW t \in Bound, LoadCount(t)
  PROVE  IInv'
<1> USE DEF IInv
<1>1. \A u \in Bound : /\ Due(u)' = Due(u)
                       /\ Share(source[u], u)' = Share(source[u], u)
  BY SameShare DEF LoadCount, stream
<1>2. TypeOK'
  BY DEF TypeOK, LoadCount, stream
<1>3. Taken(t)' = Taken(t) /\ (Cleared' <=> Cleared)
  BY <1>1 DEF Taken, Cleared, Share, LoadCount, stream, TypeOK
<1>4. ThreadInv(t)'
  <2> USE DEF LoadCount, stream, TypeOK, ThreadInv
  <2>1. StreamInv(t)' /\ ControlInv(t)' /\ WaitingInv(t)'
    BY <1>1 DEF StreamInv, ControlInv, WaitingInv, Full, Stale
  <2>2. CollectingInv(t)' /\ CountInv(t)'
    BY <1>1, <1>3 DEF CollectingInv, Resetting, CountInv, Full
  <2>3. MarkInv(t)' /\ ResInv(t)'
    BY <1>1, <1>3 DEF MarkInv, ResInv, Resetting, Full, Stale
  <2> QED
    BY <2>1, <2>2, <2>3
<1>5. ASSUME NEW u \in Bound, u # t PROVE ThreadInv(u)'
  BY <1>3, <1>5, Frame DEF LoadCount, stream, TypeOK
<1>6. FlagInv' /\ UpdaterInv'
  BY <1>3 DEF FlagInv, UpdaterInv, Full, Stale, LoadCount, stream, TypeOK
<1> QED
  BY <1>2, <1>4, <1>5, <1>6

LEMMA StoreCountInv ==
  ASSUME Matched, IInv, NEW t \in Bound, StoreCount(t)
  PROVE  IInv'
<1> USE DEF IInv
<1>1. /\ Due(t)' = Due(t)
      /\ Share(source[t], t)' = Share(source[t], t)
  BY SameShare DEF StoreCount
<1>2. /\ head[t] \in Chunks /\ head[t] \in Due(t) /\ ~wait_for_next_iter[t]
      /\ reg[t] = copy_num[t]
  BY ReadingFacts DEF StoreCount, ThreadInv, ControlInv
<1>3. NoPacket \notin Chunks /\ Limit \in Nat /\ Due(t) \subseteq Chunks
  BY LimitFacts, DueFacts, StreamAssumption
<1>4. TypeOK'
  BY DEF TypeOK, StoreCount, Consume, LimitReached
<1>5. Taken(t)' = Taken(t) \cup {head[t]}
  <2>1. /\ source' = source /\ local_iter_num' = local_iter_num
        /\ left' = left /\ head'[t] = NoPacket
    BY DEF StoreCount, Consume, TypeOK
  <2>2. Taken(t)' = Due(t) \ (left[t] \cup {NoPacket})
    BY <1>2, <2>1, ReadingFacts DEF Taken, TypeOK, Due, Share
  <2>3. head[t] \notin left[t]
    BY DEF ThreadInv, StreamInv
  <2> QED
    BY <1>2, <1>3, <2>2, <2>3, ReadingFacts
<1>6. /\ copy_num[t] = Cardinality(Taken(t))
      /\ Cardinality(Taken(t)') = copy_num[t] + 1
  <2>1. copy_num[t] = Cardinality(Taken(t))
    BY <1>2 DEF ThreadInv, CountInv
  <2>2. head[t] \notin Taken(t) /\ IsFiniteSet(Taken(t))
    BY <1>2, ReadingFacts, TakenFacts
  <2>3. Cardinality(Taken(t) \cup {head[t]}) = Cardinality(Taken(t)) + 1
    BY <2>2, FS_AddElement
  <2> QED
    BY <1>5, <2>1, <2>3
<1>7. wait_for_next_iter'[t] <=> Taken(t)' = Due(t)
  <2>1. wait_for_next_iter'[t] <=> Cardinality(Taken(t)') = Limit
    BY <1>2, <1>6 DEF StoreCount, TypeOK, LimitReached
  <2>2. Taken(t)' \subseteq Due(t) /\ IsFiniteSet(Due(t))
    BY <1>2, <1>5, TakenFacts, ShareFacts DEF Due
  <2>3. Taken(t)' # Due(t) => Cardinality(Taken(t)') # Cardinality(Due(t))
    BY <2>2, FS_Subset
  <2>4. Cardinality(Due(t)) = Limit
    BY ShareFacts DEF Due
  <2> QED
    BY <1>3, <2>1, <2>3, <2>4
<1>8. Cleared' <=> Cleared
  BY DEF Cleared, StoreCount, TypeOK
<1>9. ThreadInv(t)'
  <2> USE DEF StoreCount, Consume, TypeOK, ThreadInv
  <2>1. StreamInv(t)' /\ ControlInv(t)'
    BY <1>1, <1>2, <1>3, HeadFacts DEF StreamInv, ControlInv
  <2>2. WaitingInv(t)'
    <3> SUFFICES ASSUME wait_for_next_iter'[t] PROVE WaitingInv(t)'
      BY DEF WaitingInv
    <3>1. Taken(t) \cup {head[t]} = Due(t)
      BY <1>5, <1>7
    <3>2. left[t] = {}
      BY <1>2, <3>1, ReadingFacts DEF StreamInv, Due
    <3> QED
      BY <1>2, <1>3, <3>2, ReadingFacts DEF WaitingInv, Full
  <2>3. CollectingInv(t)'
    BY <1>1, <1>2, <1>7, ReadingFacts DEF CollectingInv, Resetting
  <2>4. CountInv(t)'
    <3>1. copy_num'[t] = Cardinality(Taken(t)')
      BY <1>2, <1>6
    <3>2. wait_for_next_iter'[t] => copy_num'[t] = Limit
      BY <1>2 DEF LimitReached
    <3>3. Full(t)' <=> wait_for_next_iter'[t]
      BY <1>2, ReadingFacts DEF Full
    <3> QED
      BY <1>2, <3>1, <3>2, <3>3, ReadingFacts DEF CountInv
  <2>5. ~Stale(t)' /\ ~Resetting(t)' /\ ~Stale(t) /\ ~Resetting(t)
    BY <1>2, ReadingFacts DEF Stale, Resetting
  <2>6. MarkInv(t)'
    BY <1>1, <1>2, <1>5, <1>7, <2>5, ReadingFacts DEF MarkInv, Full
  <2>7. ResInv(t)'
    BY <1>1, <1>2, <1>5, <1>7, ReadingFacts DEF ResInv, Full
  <2> QED
    BY <2>1, <2>2, <2>3, <2>4, <2>6, <2>7
<1>10. ASSUME NEW u \in Bound, u # t PROVE ThreadInv(u)'
  BY <1>8, <1>10, Frame DEF StoreCount, Consume, TypeOK
<1>11. FlagInv' /\ UpdaterInv'
  <2>1. upc \notin {"clear", "bump"}
    BY <1>2, ReadingFacts
  <2>2. ~Stale(t)' /\ ~Stale(t)
    BY <1>2, ReadingFacts DEF Stale, StoreCount, TypeOK
  <2> QED
    BY <1>8, <2>1, <2>2 DEF FlagInv, UpdaterInv, Stale, StoreCount, TypeOK
<1> QED
  BY <1>4, <1>9, <1>10, <1>11

\* A thread that wakes has been left behind by the updater, and its ring is
\* at the first packet of the next iteration or not yet there.
LEMMA WakeInv ==
  ASSUME Matched, IInv, NEW t \in Bound, Wake(t)
  PROVE  IInv'
<1> USE DEF IInv
<1>1. /\ Due(t)' = Due(t)
      /\ Share(source[t], t)' = Share(source[t], t)
  BY SameShare DEF Wake, stream
<1>2. Stale(t) /\ ~Full(t) /\ wait_for_next_iter[t] /\ pc[t] = "poll"
  BY DEF Wake, ThreadInv, WaitingInv, Full
<1>3. upc \notin {"clear", "bump"}
  BY <1>2 DEF UpdaterInv
<1>4. TypeOK'
  BY DEF TypeOK, Wake, stream
<1>5. /\ local_iter_num'[t] = iter_num /\ ~wait_for_next_iter'[t]
      /\ pc'[t] = IF t = 0 THEN "fill" ELSE "spin"
      /\ Resetting(t)' /\ ~Stale(t)' /\ ~Full(t)'
  BY <1>2 DEF Wake, Stale, Full, Resetting, TypeOK
<1>6. Cleared' <=> Cleared
  BY <1>2, <1>5 DEF Cleared, Stale, Wake, TypeOK
<1>7. Taken(t)' = {}
  <2>1. \/ source'[t] = local_iter_num'[t]
        \/ /\ source'[t] = local_iter_num'[t] + 1
           /\ Share(source[t], t)' \subseteq left'[t] \cup {head'[t]}
    BY <1>1, <1>2, <1>5 DEF ThreadInv, WaitingInv, Wake, stream, TypeOK, Stale
  <2> QED
    BY <2>1 DEF Taken
<1>8. ThreadInv(t)'
  <2> USE DEF Wake, stream, ThreadInv
  <2>1. StreamInv(t)' /\ ControlInv(t)' /\ WaitingInv(t)'
    BY <1>1, <1>5 DEF StreamInv, ControlInv, WaitingInv
  <2>2. CollectingInv(t)'
    BY <1>1, <1>2, <1>5, <1>7, ShareFacts DEF CollectingInv, Due, WaitingInv, Stale, TypeOK
  <2>3. CountInv(t)'
    BY <1>2, <1>5, <1>7, FS_EmptySet DEF CountInv
  <2>4. MarkInv(t)'
    BY <1>1, <1>2, <1>5, <1>6 DEF MarkInv
  <2>5. ResInv(t)'
    BY <1>1, <1>2, <1>5, <1>7 DEF ResInv, Wake
  <2> QED
    BY <2>1, <2>2, <2>3, <2>4, <2>5
<1>9. ASSUME NEW u \in Bound, u # t PROVE ThreadInv(u)'
  BY <1>6, <1>9, Frame DEF Wake, stream, TypeOK
<1>10. FlagInv' /\ UpdaterInv'
  <2>1. UpdaterInv'
    BY <1>3 DEF UpdaterInv, Wake
  <2>2. CASE t = 0
    <3>1. ~Cleared /\ (Stale(1) \/ pc[1] = "spin")
      BY <1>2, <2>2 DEF FlagInv, Stale, Cleared, TypeOK
    <3>2. (Stale(1)' <=> Stale(1)) /\ pc'[1] = pc[1]
      BY <2>2 DEF Stale, Wake, TypeOK
    <3> QED
      BY <1>6, <2>1, <3>1, <3>2 DEF FlagInv, Wake, stream
  <2>3. CASE t = 1
    <3>1. (Stale(0)' <=> Stale(0)) /\ pc'[0] = pc[0] /\ pc'[1] = "spin"
      BY <1>5, <2>3 DEF Stale, Wake, TypeOK
    <3> QED
      BY <1>2, <1>6, <2>1, <2>3, <3>1 DEF FlagInv, Wake, stream
  <2> QED
    BY <2>1, <2>2, <2>3
<1> QED
  BY <1>4, <1>8, <1>9, <1>10

\* Thread 0 clears the marks of both threads: thread 1 is behind it.
LEMMA FillZeroInv ==
  ASSUME Matched, IInv, NEW t \in Bound, FillZero(t)
  PROVE  IInv'
<1> USE DEF IInv
<1>1. \A u \in Bound : /\ Due(u)' = Due(u)
                       /\ Share(source[u], u)' = Share(source[u], u)
  BY SameShare DEF FillZero, stream
<1>2. t = 0 /\ pc[0] = "fill" /\ ~wait_for_next_iter[0] /\ Resetting(0)
  BY DEF FillZero, ThreadInv, ControlInv, Resetting
<1>3. local_iter_num[0] = iter_num /\ Taken(0) = {}
  BY <1>2 DEF ThreadInv, CollectingInv
<1>4. Stale(1) \/ pc[1] = "spin"
  BY <1>2 DEF FlagInv
<1>5. ~Cleared /\ Cleared'
  BY <1>2, <1>3 DEF Cleared, FillZero, TypeOK
<1>6. TypeOK'
  BY DEF TypeOK, FillZero, stream
<1>7. \A u \in Bound :
        /\ Taken(u)' = Taken(u) /\ (Full(u)' <=> Full(u))
        /\ (Stale(u)' <=> Stale(u)) /\ (Resetting(u)' <=> Resetting(u))
        /\ \A c \in Due(u) : UPDATER'[c] = 0
  BY <1>1, <1>2, DueFacts
  DEF Taken, Share, Full, Stale, Resetting, FillZero, stream, TypeOK
<1>8. ThreadInv(0)'
  <2> USE DEF FillZero, stream, TypeOK, ThreadInv
  <2>1. StreamInv(0)' /\ ControlInv(0)' /\ WaitingInv(0)'
    BY <1>1, <1>2, <1>7 DEF StreamInv, ControlInv, WaitingInv
  <2>2. CollectingInv(0)' /\ CountInv(0)'
    BY <1>1, <1>2, <1>7 DEF CollectingInv, CountInv
  <2>3. MarkInv(0)'
    BY <1>1, <1>2, <1>5, <1>7 DEF MarkInv
  <2>4. ResInv(0)'
    BY <1>1, <1>2, <1>7 DEF ResInv
  <2> QED
    BY <2>1, <2>2, <2>3, <2>4
<1>9. ThreadInv(1)'
  <2> USE DEF FillZero, stream, TypeOK, ThreadInv
  <2>1. pc'[1] = pc[1]
    BY <1>2
  <2>2. StreamInv(1)' /\ ControlInv(1)' /\ WaitingInv(1)'
    BY <1>1, <2>1, <1>7 DEF StreamInv, ControlInv, WaitingInv
  <2>3. CollectingInv(1)' /\ CountInv(1)'
    BY <1>1, <2>1, <1>7 DEF CollectingInv, CountInv
  <2>4. MarkInv(1)'
    BY <1>1, <1>4, <1>5, <1>7 DEF MarkInv, Resetting
  <2>5. ResInv(1)'
    BY <1>1, <2>1, <1>7 DEF ResInv
  <2> QED
    BY <2>2, <2>3, <2>4, <2>5
<1>10. FlagInv' /\ UpdaterInv'
  <2>1. pc'[0] = "flag" /\ pc'[1] = pc[1] /\ UPDATER_FLAG' = UPDATER_FLAG
    BY <1>2 DEF FillZero, TypeOK
  <2> QED
    BY <1>4, <1>5, <1>7, <2>1 DEF FlagInv, UpdaterInv, FillZero
<1> QED
  BY <1>6, <1>8, <1>9, <1>10

LEMMA RaiseFlagInv ==
  ASSUME Matched, IInv, NEW t \in Bound, RaiseFlag(t)
  PROVE  IInv'
<1> USE DEF IInv
<1>1. \A u \in Bound : /\ Due(u)' = Due(u)
                       /\ Share(source[u], u)' = Share(source[u], u)
  BY SameShare DEF RaiseFlag, stream
<1>2. t = 0 /\ pc[0] = "flag" /\ ~wait_for_next_iter[0] /\ Resetting(0)
  BY DEF RaiseFlag, ThreadInv, ControlInv, Resetting
<1>3. local_iter_num[0] = iter_num /\ Taken(0) = {}
  BY <1>2 DEF ThreadInv, CollectingInv
<1>4. Stale(1) \/ pc[1] = "spin"
  BY <1>2 DEF FlagInv
<1>5. Cleared /\ (Cleared' <=> Cleared)
  BY <1>2, <1>3 DEF Cleared, RaiseFlag, TypeOK
<1>6. TypeOK'
  BY DEF TypeOK, RaiseFlag, stream
<1>7. \A u \in Bound : /\ Taken(u)' = Taken(u)
                       /\ (Full(u)' <=> Full(u)) /\ (Stale(u)' <=> Stale(u))
  BY <1>1 DEF Taken, Share, Full, Stale, RaiseFlag, stream, TypeOK
<1>8. pc'[0] = "poll" /\ pc'[1] = pc[1] /\ ~Resetting(0)'
  BY <1>2 DEF RaiseFlag, TypeOK, Resetting
<1>9. ThreadInv(0)'
  <2> USE DEF RaiseFlag, stream, TypeOK, ThreadInv
  <2>1. StreamInv(0)' /\ ControlInv(0)' /\ WaitingInv(0)'
    BY <1>1, <1>2, <1>7, <1>8 DEF StreamInv, ControlInv, WaitingInv
  <2>2. CollectingInv(0)' /\ CountInv(0)'
    BY <1>1, <1>2, <1>7, <1>8 DEF CollectingInv, CountInv
  <2>3. ~Full(0) /\ ~Stale(0)
    BY <1>2 DEF Full, Stale
  <2>4. MarkInv(0)'
    BY <1>1, <1>2, <1>3, <1>5, <1>7, <1>8, <2>3 DEF MarkInv
  <2>5. ResInv(0)'
    BY <1>1, <1>2, <1>3, <1>7, <1>8 DEF ResInv
  <2> QED
    BY <2>1, <2>2, <2>4, <2>5
<1>10. ThreadInv(1)'
  BY <1>2, <1>5, <1>8, Frame DEF RaiseFlag, stream, TypeOK
<1>11. FlagInv' /\ UpdaterInv'
  BY <1>4, <1>5, <1>7, <1>8 DEF FlagInv, UpdaterInv, RaiseFlag
<1> QED
  BY <1>6, <1>9, <1>10, <1>11

LEMMA SpinDoneInv ==
  ASSUME Matched, IInv, NEW t \in Bound, SpinDone(t)
  PROVE  IInv'
<1> USE DEF IInv
<1>1. \A u \in Bound : /\ Due(u)' = Due(u)
                       /\ Share(source[u], u)' = Share(source[u], u)
  BY SameShare DEF SpinDone, stream
<1>2. t = 1 /\ pc[1] = "spin" /\ ~wait_for_next_iter[1] /\ Resetting(1)
  BY DEF SpinDone, ThreadInv, ControlInv, Resetting
<1>3. local_iter_num[1] = iter_num /\ Taken(1) = {}
  BY <1>2 DEF ThreadInv, CollectingInv
<1>4. Cleared /\ pc[0] # "flag" /\ pc[0] # "fill"
  BY <1>2 DEF FlagInv, Cleared, SpinDone, FlagUp
<1>5. ~Stale(0)
  BY <1>4 DEF Cleared, Stale, TypeOK
<1>6. pc'[1] = "poll" /\ pc'[0] = pc[0] /\ ~Resetting(1)' /\ UPDATER_FLAG' = 2
  BY <1>2 DEF SpinDone, TypeOK, Resetting, FlagLowered
<1>7. Cleared' <=> Cleared
  BY <1>6 DEF Cleared, SpinDone
<1>8. TypeOK'
  BY <1>6 DEF TypeOK, SpinDone, stream
<1>9. \A u \in Bound : /\ Taken(u)' = Taken(u)
                       /\ (Full(u)' <=> Full(u)) /\ (Stale(u)' <=> Stale(u))
  BY <1>1 DEF Taken, Share, Full, Stale, SpinDone, stream, TypeOK
<1>10. ~Full(1) /\ ~Stale(1)
  BY <1>2 DEF Full, Stale
<1>11. ThreadInv(1)'
  <2> USE DEF SpinDone, stream, TypeOK, ThreadInv
  <2>1. StreamInv(1)' /\ ControlInv(1)' /\ WaitingInv(1)'
    BY <1>1, <1>2, <1>6, <1>9 DEF StreamInv, ControlInv, WaitingInv
  <2>2. CollectingInv(1)' /\ CountInv(1)'
    BY <1>1, <1>2, <1>6, <1>9 DEF CollectingInv, CountInv
  <2>3. MarkInv(1)'
    BY <1>1, <1>2, <1>3, <1>4, <1>6, <1>9, <1>10 DEF MarkInv
  <2>4. ResInv(1)'
    BY <1>1, <1>2, <1>3, <1>6, <1>9 DEF ResInv
  <2> QED
    BY <2>1, <2>2, <2>3, <2>4
<1>12. ThreadInv(0)'
  BY <1>2, <1>6, <1>7, Frame DEF SpinDone, stream, TypeOK
<1>13. FlagInv' /\ UpdaterInv'
  BY <1>4, <1>5, <1>6, <1>9, <1>10 DEF FlagInv, UpdaterInv, SpinDone
<1> QED
  BY <1>8, <1>11, <1>12, <1>13

-----------------------------------------------------------------------------
(* The updater.                                                            *)

\* Each counter is at most Limit and the buffer has twice as many chunks, so
\* the sum reaches the total only when both threads wait with a full share.
LEMMA ReadyFacts ==
  ASSUME Matched, IInv, Ready, upc = "poll"
  PROVE  \A t \in Bound : Full(t)
<1>1. ASSUME NEW t \in Bound
      PROVE  copy_num[t] <= Limit /\ (~Full(t) => copy_num[t] < Limit)
  <2>1. CASE ~wait_for_next_iter[t]
    <3>1. copy_num[t] = Cardinality(Taken(t))
      BY <2>1 DEF IInv, ThreadInv, CountInv
    <3> QED
      BY <2>1, <3>1, TakenFacts, LimitFacts
  <2>2. CASE wait_for_next_iter[t]
    BY <2>2, LimitFacts DEF IInv, ThreadInv, CountInv, Matched
  <2> QED
    BY <2>1, <2>2
<1>2. copy_num[0] + copy_num[1] >= 2 * Limit
  BY LimitFacts DEF Ready
<1>3. copy_num[0] \in Nat /\ copy_num[1] \in Nat /\ Limit \in Nat
  BY LimitFacts DEF IInv, TypeOK
<1> QED
  BY <1>1, <1>2, <1>3

LEMMA PollReadyInv ==
  ASSUME Matched, IInv, PollReady
  PROVE  IInv'
<1> USE DEF IInv
<1>1. \A t \in Bound : Full(t)
  BY ReadyFacts DEF PollReady
<1>2. TypeOK'
  BY DEF TypeOK, PollReady, stream, thread
<1>3. (Cleared' <=> Cleared) /\ \A t \in Bound : Full(t)' /\ (Stale(t)' <=> Stale(t))
  BY <1>1 DEF Cleared, Full, Stale, PollReady, thread
<1>4. ASSUME NEW u \in Bound PROVE ThreadInv(u)'
  BY <1>3, Frame DEF PollReady, stream, thread
<1>5. FlagInv' /\ UpdaterInv'
  BY <1>3 DEF FlagInv, UpdaterInv, PollReady, thread
<1> QED
  BY <1>2, <1>4, <1>5

LEMMA ClearCountsInv ==
  ASSUME Matched, IInv, ClearCounts
  PROVE  IInv'
<1> USE DEF IInv
<1>1. \A t \in Bound : /\ Due(t)' = Due(t)
                       /\ Share(source[t], t)' = Share(source[t], t)
  BY SameShare DEF ClearCounts, stream
<1>2. \A t \in Bound : Full(t) /\ wait_for_next_iter[t]
  BY DEF ClearCounts, UpdaterInv, Full
<1>3. TypeOK'
  BY DEF TypeOK, ClearCounts, ClearedCounts, stream, thread
<1>4. \A t \in Bound : /\ Full(t)' /\ (Stale(t)' <=> Stale(t))
                       /\ Taken(t)' = Taken(t)
                       /\ (Resetting(t)' <=> Resetting(t))
  BY <1>1, <1>2 DEF Full, Stale, Taken, Share, Resetting, ClearCounts, stream, thread
<1>5. Cleared' <=> Cleared
  BY DEF Cleared, ClearCounts, thread
<1>6. ASSUME NEW u \in Bound PROVE ThreadInv(u)'
  <2> USE DEF ClearCounts, ClearedCounts, stream, thread, ThreadInv
  <2>1. StreamInv(u)' /\ WaitingInv(u)' /\ CollectingInv(u)'
    BY <1>1, <1>2, <1>4 DEF StreamInv, WaitingInv, CollectingInv
  <2>2. ControlInv(u)'
    BY <1>2 DEF ControlInv
  <2>3. CountInv(u)'
    BY <1>2, <1>4 DEF CountInv
  <2>4. MarkInv(u)' /\ ResInv(u)'
    BY <1>1, <1>2, <1>4, <1>5 DEF MarkInv, ResInv
  <2> QED
    BY <2>1, <2>2, <2>3, <2>4
<1>7. FlagInv' /\ UpdaterInv'
  BY <1>4, <1>5 DEF FlagInv, UpdaterInv, ClearCounts, thread
<1> QED
  BY <1>3, <1>6, <1>7

LEMMA BumpIterInv ==
  ASSUME Matched, IInv, BumpIter
  PROVE  IInv'
<1> USE DEF IInv
<1>1. \A t \in Bound : Full(t) /\ wait_for_next_iter[t] /\ pc[t] = "poll"
  BY DEF BumpIter, UpdaterInv, Full, ThreadInv, ControlInv
<1>2. \A t \in Bound : Share(source[t], t)' = Share(source[t], t)
  BY DEF Share, BumpIter, stream
\* The next iteration may deal the chunks out to the streams anew: what the
\* invariant says of a chunk no longer depends on its stream.
<1>3. \A c \in Chunks : UPDATER[c] = 1 /\ res[c] = iter_num + 1
  <2> SUFFICES ASSUME NEW c \in Chunks
               PROVE  UPDATER[c] = 1 /\ res[c] = iter_num + 1
    OBVIOUS
  <2>1. PICK t \in Bound : c \in Due(t)
    BY DueFacts
  <2>2. ~Resetting(t) /\ ~Stale(t) /\ Full(t)
    BY <1>1 DEF Resetting, Stale, Full, TypeOK
  <2> QED
    BY <2>1, <2>2 DEF ThreadInv, MarkInv, ResInv
<1>4. \A t \in Bound : Due(t)' \subseteq Chunks
  BY ShareFacts DEF Due, Share
<1>5. TypeOK'
  BY DEF TypeOK, BumpIter, stream, thread
<1>6. \A t \in Bound : /\ Stale(t)' /\ ~Full(t)' /\ ~Stale(t)
                       /\ ~Resetting(t)' /\ ~Resetting(t)
  BY <1>1 DEF Full, Stale, Resetting, BumpIter, stream, thread, TypeOK
<1>7. ~Cleared'
  BY <1>1 DEF Cleared, Full, BumpIter, thread, TypeOK
<1>8. ASSUME NEW u \in Bound PROVE ThreadInv(u)'
  <2> USE DEF BumpIter, stream, thread, ThreadInv
  <2>1. StreamInv(u)' /\ WaitingInv(u)' /\ CollectingInv(u)'
    BY <1>2, <1>1, <1>6 DEF StreamInv, WaitingInv, CollectingInv
  <2>2. ControlInv(u)'
    BY <1>1 DEF ControlInv
  <2>3. CountInv(u)'
    BY <1>1, <1>6 DEF CountInv
  <2>4. MarkInv(u)'
    BY <1>6, <1>7, <1>3, <1>4 DEF MarkInv
  <2>5. ResInv(u)'
    BY <1>1, <1>6, <1>3, <1>4 DEF ResInv
  <2> QED
    BY <2>1, <2>2, <2>3, <2>4, <2>5
<1>9. FlagInv' /\ UpdaterInv'
  <2>1. UPDATER_FLAG # 1
    BY <1>1, <1>6 DEF FlagInv
  <2> QED
    BY <1>6, <1>7, <2>1 DEF FlagInv, UpdaterInv, BumpIter, thread
<1> QED
  BY <1>5, <1>8, <1>9

LEMMA OptimizerDoneInv ==
  ASSUME Matched, IInv, OptimizerDone
  PROVE  IInv'
<1> USE DEF IInv
<1>1. TypeOK'
  BY DEF TypeOK, OptimizerDone, stream, thread
<1>2. (Cleared' <=> Cleared) /\ \A t \in Bound : (Stale(t)' <=> Stale(t))
  BY DEF Cleared, Stale, OptimizerDone, thread
<1>3. ASSUME NEW u \in Bound PROVE ThreadInv(u)'
  BY <1>2, Frame DEF OptimizerDone, stream, thread
<1>4. FlagInv' /\ UpdaterInv'
  BY <1>2 DEF FlagInv, UpdaterInv, OptimizerDone, thread
<1> QED
  BY <1>1, <1>3, <1>4

-----------------------------------------------------------------------------
(* The theorems.                                                           *)

LEMMA StutterInv ==
  ASSUME IInv, UNCHANGED vars
  PROVE  IInv'
<1>1. Cleared' <=> Cleared
  BY DEF Cleared, vars
<1>2. ASSUME NEW u \in Bound PROVE ThreadInv(u)'
  BY <1>1, Frame DEF IInv, vars
<1>3. TypeOK' /\ FlagInv' /\ UpdaterInv'
  BY <1>1 DEF IInv, TypeOK, FlagInv, UpdaterInv, Full, Stale, vars
<1> QED
  BY <1>2, <1>3 DEF IInv

LEMMA NextInv ==
  ASSUME Matched, IInv, [Next]_vars
  PROVE  IInv'
<1>1. CASE UNCHANGED vars
  BY <1>1, StutterInv
<1>2. CASE Updater
  BY <1>2, PollReadyInv, ClearCountsInv, BumpIterInv, OptimizerDoneInv
  DEF Updater
<1>3. ASSUME NEW t \in Bound, Source(t) PROVE IInv'
  BY <1>3, PublishChunkInv, PublishInvalidInv, NextSourceInv DEF Source
<1>4. ASSUME NEW t \in Bound, Step(t) PROVE IInv'
  BY <1>4, SkipInvalidInv, TestInv, MarkInvariance, CopyInv, LoadCountInv,
     StoreCountInv, WakeInv, FillZeroInv, RaiseFlagInv, SpinDoneInv
  DEF Step
<1> QED
  BY <1>1, <1>2, <1>3, <1>4 DEF Next

\* The inductive invariant holds in every reachable state.
THEOREM AssemblyInvariant == Matched => (Spec => []IInv)
<1> SUFFICES ASSUME Matched PROVE Spec => []IInv
  OBVIOUS
<1>1. Init => IInv
  BY InitInv
<1>2. IInv /\ [Next]_vars => IInv'
  BY NextInv
<1> QED
  BY <1>1, <1>2, PTL DEF Spec

\* Every variable keeps its type.
THEOREM AssemblyTypeCorrect == Matched => (Spec => []TypeOK)
<1>1. IInv => TypeOK
  BY DEF IInv
<1> QED
  BY <1>1, AssemblyInvariant, PTL

\* Whatever the order of the packets and of the steps of threads and updater,
\* the updater hands over only gradients that are whole: every position holds
\* the data of exactly the iteration handed over.
THEOREM DeliveryIsComplete == Matched => (Spec => []DeliveredComplete)
<1> SUFFICES ASSUME Matched PROVE Spec => []DeliveredComplete
  OBVIOUS
<1>1. IInv => DeliveredComplete
  <2> SUFFICES ASSUME IInv, upc \in {"clear", "bump"},
                      NEW c \in Chunks
               PROVE  res[c] = iter_num + 1
    BY DEF DeliveredComplete
  <2>1. PICK t \in Bound : c \in Due(t)
    BY DueFacts
  <2> QED
    BY <2>1 DEF IInv, UpdaterInv, Full, ThreadInv, ResInv
<1> QED
  BY <1>1, AssemblyInvariant, PTL

\* While the optimizer reads in place, a position holds the data of the
\* iteration handed over or of the one that follows, never any other.
THEOREM OptimizerAtMostOneAhead ==
  Matched => (Spec => []OptimizerOneIterationAhead)
<1> SUFFICES ASSUME Matched PROVE Spec => []OptimizerOneIterationAhead
  OBVIOUS
<1>1. IInv => OptimizerOneIterationAhead
  <2> SUFFICES ASSUME IInv, NEW c \in Chunks
               PROVE  res[c] \in {iter_num, iter_num + 1}
    BY DEF OptimizerOneIterationAhead
  <2>1. PICK t \in Bound : c \in Due(t)
    BY DueFacts
  <2> QED
    BY <2>1
    DEF IInv, TypeOK, ThreadInv, ResInv, WaitingInv, CollectingInv, Full, Stale
<1> QED
  BY <1>1, AssemblyInvariant, PTL

\* A thread never takes a packet of the new iteration for a duplicate: the
\* marks of the previous iteration are gone before it reads.
THEOREM MarksAreFresh == Matched => (Spec => []NoStaleMark)
<1> SUFFICES ASSUME Matched PROVE Spec => []NoStaleMark
  OBVIOUS
<1>1. IInv => NoStaleMark
  BY NoDuplicate DEF NoStaleMark
<1> QED
  BY <1>1, AssemblyInvariant, PTL

\* UPDATER is cleared only by thread 0 and only while thread 1 is behind it.
THEOREM ClearingIsExclusive == Matched => (Spec => ClearIsExclusive)
<1> SUFFICES ASSUME Matched PROVE Spec => ClearIsExclusive
  OBVIOUS
<1>1. ASSUME IInv, [Next]_vars, NEW c \in Chunks,
             UPDATER[c] = 1, UPDATER'[c] = 0
      PROVE  /\ iter_num = local_iter_num[0]
             /\ wait_for_next_iter[1] \/ pc[1] = "spin"
             /\ \A d \in Chunks : res[d] = iter_num
  <2>1. PICK t \in Bound : FillZero(t)
    <3>1. ASSUME NEW t \in Bound, Mark(t) PROVE UPDATER'[c] # 0
      BY <1>1, <3>1 DEF Mark, IInv, TypeOK
    <3> QED
      BY <1>1, <3>1
      DEF Next, Step, Source, Updater, PublishChunk, PublishInvalid,
          NextSource, SkipInvalid, PassOver, Test, ToMark, Copy, LoadCount,
          StoreCount, Wake, RaiseFlag, SpinDone, PollReady, ClearCounts,
          BumpIter, OptimizerDone, vars
  <2>2. t = 0 /\ pc[0] = "fill" /\ ~wait_for_next_iter[0] /\ Resetting(0)
    BY <1>1, <2>1 DEF FillZero, IInv, ThreadInv, ControlInv, Resetting
  <2>3. Stale(1) \/ pc[1] = "spin"
    BY <1>1, <2>2 DEF IInv, FlagInv
  <2>4. local_iter_num[0] = iter_num /\ Taken(0) = {}
    BY <1>1, <2>2 DEF IInv, ThreadInv, CollectingInv
  <2>5. \A d \in Due(0) : res[d] = iter_num
    BY <1>1, <2>2, <2>4 DEF IInv, ThreadInv, ResInv, Full
  <2>6. \A d \in Due(1) : res[d] = iter_num
    <3>1. CASE Stale(1)
      BY <1>1, <3>1 DEF IInv, ThreadInv, ControlInv, ResInv, Stale, Full, TypeOK
    <3>2. CASE pc[1] = "spin"
      <4>1. /\ ~wait_for_next_iter[1] /\ Taken(1) = {}
            /\ local_iter_num[1] = iter_num
        BY <1>1, <3>2
        DEF IInv, ThreadInv, ControlInv, CollectingInv, Resetting
      <4> QED
        BY <1>1, <3>2, <4>1 DEF IInv, ThreadInv, ResInv, Full
    <3> QED
      BY <2>3, <3>1, <3>2
  <2> QED
    BY <2>3, <2>4, <2>5, <2>6, DueFacts DEF Stale
<1>2. IInv /\ [Next]_vars =>
        [(\E c \in Chunks : UPDATER[c] = 1 /\ UPDATER'[c] = 0) =>
           /\ iter_num = local_iter_num[0]
           /\ wait_for_next_iter[1] \/ pc[1] = "spin"
           /\ \A c \in Chunks : res[c] = iter_num]_vars
  BY <1>1
<1> QED
  BY <1>2, AssemblyInvariant, PTL DEF Spec, ClearIsExclusive

\* The threads and the updater implement the abstract checkpoint: copying a
\* chunk collects it, bumping iter_num delivers, all else is invisible.
THEOREM AssemblyImplementsCheckpoint == Matched => (Spec => CheckpointSpec)
<1> SUFFICES ASSUME Matched PROVE Spec => CheckpointSpec
  OBVIOUS
<1> DEFINE have == {c \in Chunks : res[c] = iter_num + 1}
<1>1. Init => C!Init
  BY DEF Init, C!Init
<1>2. ASSUME IInv, [Next]_vars PROVE [C!Next]_C!vars
  <2>1. CASE res' = res /\ iter_num' = iter_num
    BY <2>1 DEF C!vars
  <2>2. ASSUME NEW t \in Bound, Copy(t) PROVE C!Next
    <3>1. head[t] \in Chunks /\ ~wait_for_next_iter[t]
      BY <1>2, <2>2 DEF Copy, IInv, ThreadInv, ControlInv
    <3>2. /\ source[t] = iter_num + 1 /\ local_iter_num[t] = iter_num
          /\ head[t] \notin Taken(t) /\ head[t] \in Due(t)
      BY <1>2, <3>1, ReadingFacts
    <3>3. res[head[t]] = iter_num /\ head[t] \in Chunks /\ iter_num \in Nat
      BY <1>2, <2>2, <3>1, <3>2
      DEF Copy, IInv, ThreadInv, ResInv, TypeOK, Full
    <3>4. head[t] \notin have /\ have' = have \cup {head[t]}
      BY <1>2, <2>2, <3>2, <3>3 DEF Copy, IInv, TypeOK
    <3>5. C!Collect(head[t])
      BY <2>2, <3>4 DEF C!Collect, Copy
    <3>6. \E c \in Chunks : C!Collect(c)
      BY <3>3, <3>5 DEF C!Collect
    <3> QED
      BY <3>6 DEF C!Next
  <2>3. CASE BumpIter
    <3>1. \A c \in Chunks : res[c] = iter_num + 1
      <4> SUFFICES ASSUME NEW c \in Chunks PROVE res[c] = iter_num + 1
        OBVIOUS
      <4>1. PICK t \in Bound : c \in Due(t)
        BY DueFacts
      <4> QED
        BY <1>2, <2>3, <4>1
        DEF BumpIter, IInv, UpdaterInv, Full, ThreadInv, ResInv
    <3>2. iter_num \in Nat
      BY <1>2 DEF IInv, TypeOK
    <3>3. have = Chunks /\ have' = {}
      BY <2>3, <3>1, <3>2 DEF BumpIter
    <3> QED
      BY <2>3, <3>3 DEF C!Next, C!Deliver, BumpIter
  <2> QED
    BY <1>2, <2>1, <2>2, <2>3
    DEF Next, Step, Source, Updater, PublishChunk, PublishInvalid,
        NextSource, SkipInvalid, PassOver, Test, ToMark, Mark, LoadCount,
        StoreCount, Wake, FillZero, RaiseFlag, SpinDone, PollReady,
        ClearCounts, OptimizerDone, vars
<1> QED
  BY <1>1, <1>2, AssemblyInvariant, PTL DEF Spec, CheckpointSpec, C!Spec

\* The counters are cleared while both threads wait with nothing in flight,
\* so the unlocked increments of the threads never meet the clear.
THEOREM ClearMeetsNoIncrement == Matched => (Spec => NoIncrementLost)
<1> SUFFICES ASSUME Matched PROVE Spec => NoIncrementLost
  OBVIOUS
<1>1. ASSUME IInv, [Next]_vars,
             copy_num' = [t \in Bound |-> 0], copy_num' # copy_num
      PROVE  \A t \in Bound : pc[t] = "poll" /\ wait_for_next_iter[t]
  <2>1. ASSUME NEW t \in Bound, StoreCount(t) PROVE FALSE
    <3>1. copy_num'[t] = reg[t] + 1 /\ reg[t] \in Nat
      BY <1>1, <2>1 DEF StoreCount, IInv, TypeOK
    <3> QED
      BY <1>1, <3>1
  <2>2. ClearCounts
    BY <1>1, <2>1
    DEF Next, Step, Source, Updater, PublishChunk, PublishInvalid,
        NextSource, SkipInvalid, PassOver, Test, ToMark, Mark, Copy, LoadCount,
        Wake, FillZero, RaiseFlag, SpinDone, PollReady, BumpIter,
        OptimizerDone, vars, stream, thread
  <2> QED
    BY <1>1, <2>2
    DEF ClearCounts, IInv, UpdaterInv, Full, ThreadInv, ControlInv
<1>2. IInv /\ [Next]_vars =>
        [copy_num' = [t \in Bound |-> 0] /\ copy_num' # copy_num =>
           \A t \in Bound : pc[t] = "poll" /\ wait_for_next_iter[t]]_vars
  BY <1>1
<1> QED
  BY <1>2, AssemblyInvariant, PTL DEF Spec, NoIncrementLost

-----------------------------------------------------------------------------
(* Streams of any content, with the ring size the extractor is built with. *)

RingOfTwo == RING_NUMS = 2 /\ CHUNK_NUMS > 1

\* Two full threads never add up to more chunks than there are.
LEMMA HalfFacts ==
  ASSUME RingOfTwo
  PROVE  Limit \in Nat /\ Limit > 0 /\ CHUNK_NUMS \in Nat
         /\ CHUNK_NUMS >= 2 * Limit
<1>1. CHUNK_NUMS \in Nat
  BY StreamAssumption, FS_CardinalityType DEF CHUNK_NUMS
<1>2. Limit = CHUNK_NUMS \div 2
  BY <1>1 DEF RingOfTwo, Limit
<1> QED
  BY <1>1, <1>2 DEF RingOfTwo

LEMMA LimitInit == RingOfTwo /\ Init => LimitInv
<1> SUFFICES ASSUME RingOfTwo, Init PROVE LimitInv
  OBVIOUS
<1>1. TypeOK
  BY StreamAssumption DEF Init, TypeOK
<1> QED
  BY <1>1, HalfFacts DEF Init, LimitInv

\* Whatever the streams carry, the types are kept.
LEMMA TypesKept ==
  ASSUME TypeOK, [Next]_vars
  PROVE  TypeOK'
<1> USE DEF TypeOK
<1>1. CASE UNCHANGED vars
  BY <1>1 DEF vars
<1>2. CASE Updater
  BY <1>2
  DEF Updater, PollReady, ClearCounts, ClearedCounts, BumpIter,
      OptimizerDone, stream, thread
<1>3. ASSUME NEW t \in Bound, Source(t) PROVE TypeOK'
  <2>1. CASE PublishChunk(t)
    BY <2>1 DEF PublishChunk, thread
  <2>2. CASE PublishInvalid(t)
    BY <2>2 DEF PublishInvalid, thread
  <2>3. CASE NextSource(t)
    BY <2>3, StreamAssumption DEF NextSource, thread, Share
  <2> QED
    BY <1>3, <2>1, <2>2, <2>3 DEF Source
<1>4. ASSUME NEW t \in Bound, Step(t) PROVE TypeOK'
  <2>1. CASE SkipInvalid(t)
    BY <2>1 DEF SkipInvalid, PassOver, Consume, thread
  <2>2. CASE Test(t)
    BY <2>2 DEF Test, ToMark, PassOver, Consume, stream, thread
  <2>3. CASE Mark(t)
    BY <2>3 DEF Mark, stream
  <2>4. CASE Copy(t)
    BY <2>4 DEF Copy, stream
  <2>5. CASE LoadCount(t)
    BY <2>5 DEF LoadCount, stream
  <2>6. CASE StoreCount(t)
    BY <2>6 DEF StoreCount, LimitReached, Consume
  <2>7. CASE Wake(t)
    BY <2>7 DEF Wake, stream
  <2>8. CASE FillZero(t)
    BY <2>8 DEF FillZero, stream
  <2>9. CASE RaiseFlag(t) \/ SpinDone(t)
    BY <2>9 DEF RaiseFlag, SpinDone, FlagLowered, stream
  <2> QED
    BY <1>4, <2>1, <2>2, <2>3, <2>4, <2>5, <2>6, <2>7, <2>8, <2>9 DEF Step
<1> QED
  BY <1>1, <1>2, <1>3, <1>4 DEF Next

LEMMA LimitNext ==
  ASSUME RingOfTwo, LimitInv, [Next]_vars
  PROVE  LimitInv'
<1> USE DEF LimitInv
<1>1. TypeOK'
  BY TypesKept
<1> USE DEF TypeOK
<1>2. CASE UNCHANGED vars
  BY <1>1, <1>2 DEF vars, Full, Stale
<1>3. CASE PollReady
  <2>1. \A t \in Bound : copy_num[t] <= Limit /\ (~Full(t) => copy_num[t] < Limit)
    BY <1>3, HalfFacts DEF PollReady
  <2>2. \A t \in Bound : Full(t)
    BY <1>3, <2>1, HalfFacts DEF PollReady, Ready
  <2> QED
    BY <1>1, <1>3, <2>2 DEF PollReady, thread, Full, Stale
<1>4. CASE ClearCounts
  BY <1>1, <1>4 DEF ClearCounts, ClearedCounts, thread, Full, Stale
<1>5. CASE BumpIter
  BY <1>1, <1>5 DEF BumpIter, thread, Full, Stale
<1>6. CASE OptimizerDone
  BY <1>1, <1>6 DEF OptimizerDone, thread, Full, Stale
<1>7. ASSUME NEW t \in Bound, Source(t) PROVE LimitInv'
  BY <1>1, <1>7
  DEF Source, PublishChunk, PublishInvalid, NextSource, thread, Full, Stale
<1>8. ASSUME NEW t \in Bound, Step(t) PROVE LimitInv'
  <2>1. CASE SkipInvalid(t)
    BY <1>1, <2>1 DEF SkipInvalid, PassOver, thread, Full, Stale
  <2>2. CASE Test(t) \/ Mark(t) \/ Copy(t)
    BY <1>1, <2>2
    DEF Test, ToMark, PassOver, thread, Mark, Copy, Reading, Full, Stale
  <2>3. CASE LoadCount(t)
    BY <1>1, <2>3 DEF LoadCount, Full, Stale
  <2>4. CASE StoreCount(t)
    <3>1. /\ ~wait_for_next_iter[t] /\ copy_num[t] < Limit
          /\ local_iter_num[t] = iter_num /\ upc \notin {"clear", "bump"}
          /\ copy_num'[t] = copy_num[t] + 1
      BY <2>4 DEF StoreCount, Full
    <3>2. copy_num'[t] <= Limit /\ wait_for_next_iter'[t] = (copy_num'[t] = Limit)
      BY <2>4, <3>1, HalfFacts DEF StoreCount, LimitReached
    <3> QED
      BY <1>1, <2>4, <3>1, <3>2, HalfFacts DEF StoreCount, Full, Stale
  <2>5. CASE Wake(t)
    <3>1. Stale(t) /\ copy_num[t] = 0 /\ upc \notin {"clear", "bump"}
      BY <2>5 DEF Wake, Full, Stale
    <3> QED
      BY <1>1, <2>5, <3>1, HalfFacts DEF Wake, Full, Stale
  <2>6. CASE FillZero(t) \/ RaiseFlag(t) \/ SpinDone(t)
    BY <1>1, <2>6 DEF FillZero, RaiseFlag, SpinDone, Full, Stale
  <2> QED
    BY <1>8, <2>1, <2>2, <2>3, <2>4, <2>5, <2>6 DEF Step
<1> QED
  BY <1>2, <1>3, <1>4, <1>5, <1>6, <1>7, <1>8 DEF Next, Updater

\* The invariant behind the limit: a thread collects below it and waits
\* exactly at it, and the updater clears two full counts.
THEOREM LimitInvariant == RingOfTwo => (Spec => []LimitInv)
<1> SUFFICES ASSUME RingOfTwo PROVE Spec => []LimitInv
  OBVIOUS
<1> QED
  BY LimitInit, LimitNext, PTL DEF Spec

\* The equality test of the limit is safe with two nodes: whatever arrives,
\* duplicates and foreign chunks included, no thread counts past it.
THEOREM LimitNeverPassed == RingOfTwo => (Spec => []NeverPastLimit)
<1> SUFFICES ASSUME RingOfTwo PROVE Spec => []NeverPastLimit
  OBVIOUS
<1>1. LimitInv => NeverPastLimit
  <2> SUFFICES ASSUME LimitInv, NEW t \in Bound PROVE copy_num[t] <= Limit
    BY DEF NeverPastLimit
  <2> QED
    BY HalfFacts DEF LimitInv, TypeOK
<1> QED
  BY <1>1, LimitInvariant, PTL
=============================================================================
