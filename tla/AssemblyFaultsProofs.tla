------------------------ MODULE AssemblyFaultsProofs ------------------------
(***************************************************************************)
(* Proofs about AssemblyFaults: what a gradient consists of, and what the  *)
(* counters may do, after any number of lost chunks or restarts.           *)
(***************************************************************************)
EXTENDS AssemblyFaults, GradientAssemblyProofs

-----------------------------------------------------------------------------
(* What holds whatever happens.                                            *)

\* A waiting thread polls; the hand-shake has a part for each thread; a packet
\* in hand is a chunk.
ThreadOK(t) ==
  /\ wait_for_next_iter[t] => pc[t] = "poll"
  /\ pc[t] \in {"fill", "flag"} => t = 0
  /\ pc[t] = "spin" => t = 1
  /\ pc[t] \in {"mark", "copy", "load", "store"} => head[t] \in Chunks

\* Counting begins at an iteration the stream has carried, and so does the
\* first gap.
GapOK(t) ==
  /\ base[t] \in 1 .. source[t]
  /\ first[t] \in 0 .. source[t]
  /\ first[t] = 0 <=> lost[t] = 0

\* Thread 0 does nothing before it has zeroed the result memory, and thread 1
\* leaves a mark before anything else that lasts.
StartInv ==
  starting =>
    /\ fault = "extractor"
    /\ pc[0] = "poll" /\ ~wait_for_next_iter[0] /\ local_iter_num[0] = 0
    /\ UPDATER_FLAG = 0
    /\ (\A c \in Chunks : UPDATER[c] = 0) =>
         /\ pc[1] \in {"poll", "mark"} /\ ~wait_for_next_iter[1]
         /\ local_iter_num[1] = 0

AnyInv ==
  /\ FaultTypeOK
  /\ \A t \in Bound : StreamInv(t) /\ ThreadOK(t) /\ GapOK(t)
  /\ StartInv

LEMMA ShareTypes ==
  ASSUME NEW t \in Bound, NEW j
  PROVE  /\ Share(j, t) \subseteq Chunks
         /\ NoPacket \notin Share(j, t) /\ Invalid \notin Share(j, t)
BY StreamAssumption DEF Share, Bound

LEMMA AnyInit == FaultInit => AnyInv
<1> SUFFICES ASSUME FaultInit PROVE AnyInv
  OBVIOUS
<1>1. TypeOK
  BY StreamAssumption DEF FaultInit, Init, TypeOK, Bound
<1>2. FaultTypeOK
  <2>1. base \in [Bound -> Nat] /\ lost \in [Bound -> Nat]
        /\ first \in [Bound -> Nat]
    BY DEF FaultInit
  <2>2. restarts \in 0 .. MaxRestart
    BY FaultAssumption DEF FaultInit
  <2> QED
    BY <1>1, <2>1, <2>2 DEF FaultInit, FaultTypeOK
<1>3. ASSUME NEW t \in Bound PROVE StreamInv(t) /\ ThreadOK(t) /\ GapOK(t)
  <2>1. Share(source[t], t) = OwnFirst[t]
    BY DEF FaultInit, Init, Share
  <2>2. StreamInv(t)
    BY <2>1, ShareTypes DEF FaultInit, Init, StreamInv
  <2> QED
    BY <2>2 DEF FaultInit, Init, ThreadOK, GapOK
<1> QED
  BY <1>2, <1>3 DEF AnyInv, StartInv, FaultInit

LEMMA UpdaterAny ==
  ASSUME AnyInv, Updater, UNCHANGED faultAux
  PROVE  AnyInv'
<1>1. TypeOK'
  BY TypesKept DEF AnyInv, FaultTypeOK, Next
<1>2. UNCHANGED <<stream, thread, UPDATER, UPDATER_FLAG>>
  BY DEF Updater, PollReady, ClearCounts, BumpIter, OptimizerDone
<1>3. ASSUME NEW t \in Bound PROVE StreamInv(t)' /\ ThreadOK(t)' /\ GapOK(t)'
  BY <1>2 DEF AnyInv, stream, thread, faultAux, StreamInv, Share, ThreadOK, GapOK
<1>4. StartInv'
  BY <1>2 DEF AnyInv, StartInv, thread, faultAux
<1> QED
  BY <1>1, <1>3, <1>4 DEF AnyInv, FaultTypeOK, faultAux

\* A stream moves on without the threads.
LEMMA StreamKept ==
  ASSUME AnyInv, NEW t \in Bound, Source(t)
  PROVE  /\ \A u \in Bound : StreamInv(u)' /\ source'[u] >= source[u]
         /\ \A u \in Bound : head[u] # NoPacket => head'[u] = head[u]
<1> USE DEF AnyInv, FaultTypeOK, TypeOK
<1>1. ASSUME NEW u \in Bound, u # t
      PROVE  StreamInv(u)' /\ source'[u] >= source[u] /\ head'[u] = head[u]
  <2>1. /\ source'[u] = source[u] /\ left'[u] = left[u]
        /\ head'[u] = head[u]
    BY <1>1 DEF Source, PublishChunk, PublishInvalid, NextSource
  <2> QED
    BY <2>1 DEF StreamInv, Share
<1>2. StreamInv(t)' /\ source'[t] >= source[t] /\ head[t] = NoPacket
  <2>1. CASE PublishChunk(t)
    BY <2>1 DEF PublishChunk, StreamInv, Share
  <2>2. CASE PublishInvalid(t)
    <3>1. Invalid \notin left[t]
      BY ShareTypes DEF StreamInv
    <3> QED
      BY <2>2, <3>1 DEF PublishInvalid, StreamInv, Share
  <2>3. CASE NextSource(t)
    <3>1. /\ left'[t] = Share(source[t] + 1, t)
          /\ source'[t] = source[t] + 1 /\ head'[t] = NoPacket
      BY <2>3 DEF NextSource
    <3>2. Share(source[t], t)' = Share(source[t] + 1, t)
      BY <3>1 DEF Share
    <3> QED
      BY <2>3, <3>1, <3>2, ShareTypes DEF NextSource, StreamInv
  <2> QED
    BY <2>1, <2>2, <2>3 DEF Source
<1> QED
  BY <1>1, <1>2

LEMMA SourceAny ==
  ASSUME AnyInv, NEW t \in Bound, Source(t), UNCHANGED faultAux
  PROVE  AnyInv'
<1>1. TypeOK'
  BY TypesKept DEF AnyInv, FaultTypeOK, Next
<1>2. UNCHANGED <<thread, UPDATER, UPDATER_FLAG>>
  BY DEF Source, PublishChunk, PublishInvalid, NextSource
<1>3. ASSUME NEW u \in Bound PROVE StreamInv(u)' /\ ThreadOK(u)' /\ GapOK(u)'
  <2>1. NoPacket \notin Chunks /\ source'[u] \in Nat /\ source[u] \in Nat
    BY <1>1, StreamAssumption DEF TypeOK, AnyInv, FaultTypeOK
  <2>2. ThreadOK(u)'
    BY <1>2, <2>1, StreamKept DEF AnyInv, thread, ThreadOK
  <2>3. GapOK(u)'
    BY <2>1, StreamKept DEF AnyInv, faultAux, GapOK
  <2> QED
    BY <2>2, <2>3, StreamKept
<1>4. StartInv'
  BY <1>2 DEF AnyInv, StartInv, thread, faultAux
<1> QED
  BY <1>1, <1>3, <1>4 DEF AnyInv, FaultTypeOK, faultAux

\* A thread consumes a packet or leaves the stream alone.
LEMMA StepKeeps ==
  ASSUME AnyInv, NEW t \in Bound, Step(t)
  PROVE  /\ source' = source /\ left' = left
         /\ \A u \in Bound : \/ head'[u] = head[u]
                             \/ u = t /\ head'[u] = NoPacket
         /\ \A u \in Bound \ {t} :
              /\ pc'[u] = pc[u] /\ reg'[u] = reg[u]
              /\ wait_for_next_iter'[u] = wait_for_next_iter[u]
              /\ local_iter_num'[u] = local_iter_num[u]
              /\ copy_num'[u] = copy_num[u]
         /\ UNCHANGED <<iter_num, upc>>
<1> USE DEF AnyInv, FaultTypeOK, TypeOK, stream, thread
<1>1. CASE SkipInvalid(t)
  BY <1>1 DEF SkipInvalid, PassOver, Consume
<1>2. CASE Test(t)
  BY <1>2 DEF Test, ToMark, PassOver, Consume
<1>3. CASE Mark(t) \/ Copy(t) \/ LoadCount(t)
  BY <1>3 DEF Mark, Copy, LoadCount
<1>4. CASE StoreCount(t)
  BY <1>4 DEF StoreCount, Consume
<1>5. CASE Wake(t)
  BY <1>5 DEF Wake
<1>6. CASE FillZero(t) \/ RaiseFlag(t) \/ SpinDone(t)
  BY <1>6 DEF FillZero, RaiseFlag, SpinDone
<1> QED
  BY <1>1, <1>2, <1>3, <1>4, <1>5, <1>6 DEF Step

LEMMA ThreadKept ==
  ASSUME AnyInv, NEW t \in Bound, Step(t)
  PROVE  \A u \in Bound : ThreadOK(u)'
<1> USE DEF AnyInv, FaultTypeOK, TypeOK, stream, thread
<1>1. ASSUME NEW u \in Bound \ {t} PROVE ThreadOK(u)'
  BY StepKeeps DEF ThreadOK
<1>2. ThreadOK(t)'
  <2>1. CASE SkipInvalid(t) \/ Test(t)
    BY <2>1 DEF SkipInvalid, Test, ToMark, PassOver, Reading, ThreadOK
  <2>2. CASE Mark(t) \/ Copy(t) \/ LoadCount(t)
    BY <2>2 DEF Mark, Copy, LoadCount, ThreadOK
  <2>3. CASE StoreCount(t)
    BY <2>3 DEF StoreCount, ThreadOK
  <2>4. CASE Wake(t)
    BY <2>4 DEF Wake, ThreadOK, Bound
  <2>5. CASE FillZero(t) \/ RaiseFlag(t) \/ SpinDone(t)
    BY <2>5 DEF FillZero, RaiseFlag, SpinDone, ThreadOK
  <2> QED
    BY <2>1, <2>2, <2>3, <2>4, <2>5 DEF Step
<1> QED
  BY <1>1, <1>2

\* While thread 0 is starting, thread 1 marks a chunk before it copies it and
\* cannot get past its first iteration without a mark.
LEMMA StartKept ==
  ASSUME AnyInv, NEW t \in Bound, Undisturbed(t)
  PROVE  StartInv'
<1> SUFFICES ASSUME starting PROVE StartInv'
  BY DEF Undisturbed, faultAux, StartInv
<1> USE DEF AnyInv, FaultTypeOK, TypeOK, stream, thread
<1>1. t = 1 /\ Step(1) /\ UNCHANGED faultAux
  BY DEF Undisturbed, Bound
<1>2. pc[1] \notin {"fill", "flag"}
  BY <1>1 DEF ThreadOK, Bound
<1>3. /\ pc'[0] = "poll" /\ ~wait_for_next_iter'[0] /\ local_iter_num'[0] = 0
  BY <1>1, StepKeeps DEF StartInv, Bound
<1>4. ~SpinDone(1) /\ ~FillZero(1) /\ ~RaiseFlag(1)
  BY <1>2 DEF StartInv, SpinDone, FlagUp, FillZero, RaiseFlag
<1>5. UPDATER_FLAG' = 0
  BY <1>1, <1>4 DEF StartInv, Step, SkipInvalid, Test, ToMark, PassOver, Mark,
     Copy, LoadCount, StoreCount, Wake
<1>6. ASSUME \A c \in Chunks : UPDATER'[c] = 0
      PROVE  /\ pc'[1] \in {"poll", "mark"} /\ ~wait_for_next_iter'[1]
             /\ local_iter_num'[1] = 0
  <2>1. ~Mark(1)
    BY <1>6, <1>1 DEF Mark, ThreadOK, Bound
  <2>2. UPDATER' = UPDATER
    BY <1>1, <1>4, <2>1 DEF Step, SkipInvalid, Test, ToMark, PassOver, Copy,
       LoadCount, StoreCount, Wake
  <2>3. /\ pc[1] \in {"poll", "mark"} /\ ~wait_for_next_iter[1]
        /\ local_iter_num[1] = 0
    BY <1>6, <2>2 DEF StartInv
  <2>4. SkipInvalid(1) \/ Test(1)
    BY <1>1, <1>4, <2>1, <2>3 DEF Step, Copy, LoadCount, StoreCount, Wake
  <2> QED
    BY <2>3, <2>4 DEF SkipInvalid, Test, ToMark, PassOver, Bound
<1> QED
  BY <1>1, <1>3, <1>5, <1>6 DEF StartInv, faultAux

LEMMA StepAny ==
  ASSUME AnyInv, NEW t \in Bound, Undisturbed(t)
  PROVE  AnyInv'
<1>1. Step(t) /\ UNCHANGED faultAux
  BY DEF Undisturbed
<1>2. TypeOK'
  BY <1>1, TypesKept DEF AnyInv, FaultTypeOK, Next
<1>3. ASSUME NEW u \in Bound PROVE StreamInv(u)' /\ GapOK(u)'
  <2>1. /\ source'[u] = source[u] /\ left'[u] = left[u]
        /\ head'[u] = head[u] \/ head'[u] = NoPacket
    BY <1>1, StepKeeps
  <2>2. NoPacket \notin left[u]
    BY ShareTypes DEF AnyInv, StreamInv
  <2> QED
    BY <1>1, <2>1, <2>2 DEF AnyInv, StreamInv, Share, GapOK, faultAux
<1> QED
  BY <1>1, <1>2, <1>3, ThreadKept, StartKept DEF AnyInv, FaultTypeOK, faultAux

LEMMA LoseAny ==
  ASSUME AnyInv, NEW t \in Bound, Lose(t)
  PROVE  AnyInv'
<1> USE DEF AnyInv, FaultTypeOK, TypeOK, thread
<1>1. TypeOK'
  BY DEF Lose
<1>2. lost' \in [Bound -> Nat] /\ first' \in [Bound -> Nat]
  BY DEF Lose, Gap
<1>3. ASSUME NEW u \in Bound PROVE StreamInv(u)' /\ ThreadOK(u)'
  BY DEF Lose, StreamInv, Share, ThreadOK
<1>4. ASSUME NEW u \in Bound PROVE GapOK(u)'
  <2>1. /\ lost'[u] = IF u = t THEN lost[u] + 1 ELSE lost[u]
        /\ first'[u] = IF u = t /\ first[u] = 0 THEN source[u] ELSE first[u]
    BY DEF Lose, Gap
  <2>2. /\ source[u] \in Nat /\ source[u] > 0
        /\ first[u] \in Nat /\ lost[u] \in Nat
    BY DEF StreamInv
  <2> QED
    BY <2>1, <2>2 DEF Lose, GapOK
<1>5. StartInv'
  BY DEF Lose, StartInv
<1> QED
  BY <1>1, <1>2, <1>3, <1>4, <1>5 DEF Lose

LEMMA UpdaterRestartAny ==
  ASSUME AnyInv, UpdaterRestart
  PROVE  AnyInv'
<1> USE DEF AnyInv, FaultTypeOK, stream, thread
<1>1. TypeOK'
  BY DEF UpdaterRestart, TypeOK
<1>2. spoilt' \in BOOLEAN
  BY DEF UpdaterRestart
<1>3. restarts' \in 0 .. MaxRestart
  BY FaultAssumption DEF UpdaterRestart
<1>4. ASSUME NEW u \in Bound PROVE StreamInv(u)' /\ ThreadOK(u)' /\ GapOK(u)'
  BY DEF UpdaterRestart, StreamInv, Share, ThreadOK, GapOK
<1>5. StartInv'
  BY DEF UpdaterRestart, StartInv
<1> QED
  BY <1>1, <1>2, <1>3, <1>4, <1>5 DEF UpdaterRestart

LEMMA ExtractorRestartAny ==
  ASSUME AnyInv, ExtractorRestart
  PROVE  AnyInv'
<1> USE DEF AnyInv, FaultTypeOK, stream
<1>1. TypeOK'
  BY DEF ExtractorRestart, TypeOK, Bound
<1>2. restarts' \in 0 .. MaxRestart
  BY FaultAssumption DEF ExtractorRestart
<1>3. ASSUME NEW u \in Bound PROVE StreamInv(u)' /\ ThreadOK(u)' /\ GapOK(u)'
  BY DEF ExtractorRestart, StreamInv, Share, ThreadOK, GapOK, Bound
<1>4. StartInv'
  BY DEF ExtractorRestart, StartInv, Bound
<1> QED
  BY <1>1, <1>2, <1>3, <1>4 DEF ExtractorRestart

LEMMA ZeroAny ==
  ASSUME AnyInv, ZeroResult
  PROVE  AnyInv'
<1> USE DEF AnyInv, FaultTypeOK, stream, thread
<1>1. TypeOK'
  BY DEF ZeroResult, Zeroed, TypeOK
<1>2. /\ lost' \in [Bound -> Nat] /\ first' \in [Bound -> Nat]
      /\ base' \in [Bound -> Nat]
  BY DEF ZeroResult, Gap, TypeOK
<1>3. spoilt' \in BOOLEAN
  BY DEF ZeroResult
<1>4. ASSUME NEW u \in Bound PROVE StreamInv(u)' /\ ThreadOK(u)'
  BY DEF ZeroResult, StreamInv, Share, ThreadOK
<1>5. ASSUME NEW u \in Bound PROVE GapOK(u)'
  <2>1. /\ lost'[u] = lost[u] + 1 /\ base'[u] = source[u]
        /\ first'[u] = IF first[u] = 0 THEN source[u] ELSE first[u]
        /\ source'[u] = source[u]
    BY DEF ZeroResult, Gap
  <2>2. /\ source[u] \in Nat /\ source[u] > 0
        /\ first[u] \in Nat /\ lost[u] \in Nat
    BY DEF StreamInv, TypeOK
  <2> QED
    BY <2>1, <2>2 DEF GapOK
<1>6. StartInv'
  BY DEF ZeroResult, StartInv
<1> QED
  BY <1>1, <1>2, <1>3, <1>4, <1>5, <1>6 DEF ZeroResult

LEMMA AnyStutter ==
  ASSUME AnyInv, UNCHANGED faultVars
  PROVE  AnyInv'
<1> USE DEF faultVars, faultAux, vars
<1>1. FaultTypeOK'
  BY DEF AnyInv, FaultTypeOK, TypeOK
<1>2. ASSUME NEW u \in Bound PROVE StreamInv(u)' /\ ThreadOK(u)' /\ GapOK(u)'
  BY DEF AnyInv, StreamInv, Share, ThreadOK, GapOK
<1> QED
  BY <1>1, <1>2 DEF AnyInv, StartInv

LEMMA AnyNext ==
  ASSUME AnyInv, [FaultNext]_faultVars
  PROVE  AnyInv'
BY AnyStutter, UpdaterAny, SourceAny, StepAny, LoseAny, UpdaterRestartAny,
   ExtractorRestartAny, ZeroAny DEF FaultNext

THEOREM AnyInvariant == FaultSpec => []AnyInv
BY AnyInit, AnyNext, PTL DEF FaultSpec

\* Counters and locals keep their types through losses and restarts.
THEOREM FaultTypeCorrect == FaultSpec => []FaultTypeOK
<1>1. AnyInv => FaultTypeOK
  BY DEF AnyInv
<1> QED
  BY <1>1, AnyInvariant, PTL

-----------------------------------------------------------------------------
(* The limit, whatever the streams carry.                                  *)

\* After a restart of the updater in the middle of a hand-over both threads
\* wait for the step of iter_num.
Stopped ==
  fault = "updater" /\ spoilt =>
    /\ upc = "poll"
    /\ \A t \in Bound : Full(t) /\ copy_num[t] = 0

LimitFaultInv ==
  /\ AnyInv
  /\ ~starting /\ ~spoilt => LimitInv
  /\ Stopped

LEMMA StoppedStays ==
  ASSUME RingOfTwo, LimitFaultInv, [FaultNext]_faultVars
  PROVE  Stopped'
<1> USE DEF LimitFaultInv, AnyInv, FaultTypeOK, TypeOK
<1>1. CASE UpdaterRestart
  <2>1. ~starting
    BY <1>1 DEF StartInv, UpdaterRestart
  <2>2. CASE spoilt
    BY <1>1, <2>2 DEF UpdaterRestart, Stopped, thread, Full
  <2>3. CASE ~spoilt
    BY <1>1, <2>1, <2>3 DEF UpdaterRestart, Stopped, LimitInv, thread, Full
  <2> QED
    BY <2>2, <2>3
<1>2. CASE ~UpdaterRestart
  <2> SUFFICES ASSUME fault' = "updater", spoilt' PROVE Stopped'
    BY DEF Stopped
  <2>1. fault = "updater"
    BY DEF FaultNext, faultVars, faultAux, Undisturbed, Lose, UpdaterRestart,
       ExtractorRestart, ZeroResult
  <2>2. ~ExtractorRestart /\ ~ZeroResult /\ \A t \in Bound : ~Lose(t)
    BY <2>1 DEF ExtractorRestart, ZeroResult, StartInv, Lose
  <2>3. [Next]_vars /\ UNCHANGED faultAux
    BY <1>2, <2>2 DEF FaultNext, Undisturbed, faultVars, Next
  <2>4. spoilt
    BY <2>3 DEF faultAux
  <2>5. upc = "poll" /\ \A t \in Bound : Full(t) /\ copy_num[t] = 0
    BY <2>1, <2>4 DEF Stopped
  <2>6. ~Updater
    <3>1. ~Ready
      BY <2>5, HalfFacts DEF Ready, Bound
    <3> QED
      BY <2>5, <3>1 DEF Updater, PollReady, ClearCounts, BumpIter, OptimizerDone
  <2>7. \A t \in Bound : ~Step(t)
    BY <2>5 DEF Step, SkipInvalid, Test, Reading, Mark, Copy, LoadCount,
       StoreCount, Wake, FillZero, RaiseFlag, SpinDone, Full, ThreadOK
  <2>8. UNCHANGED <<upc, wait_for_next_iter, local_iter_num, iter_num, copy_num>>
    BY <2>3, <2>6, <2>7 DEF Next, vars, Source, PublishChunk, PublishInvalid,
       NextSource, thread
  <2> QED
    BY <2>3, <2>5, <2>8 DEF Stopped, Full, faultAux
<1> QED
  BY <1>1, <1>2

LEMMA LimitFaultNext ==
  ASSUME RingOfTwo, LimitFaultInv, [FaultNext]_faultVars
  PROVE  LimitFaultInv'
<1> USE DEF LimitFaultInv
<1>1. AnyInv'
  BY AnyNext
<1>2. ASSUME ~starting', ~spoilt' PROVE LimitInv'
  <2>1. CASE ZeroResult
    <3>1. /\ upc \in {"poll", "use"} /\ \A c \in Chunks : UPDATER[c] = 0
      BY <1>2, <2>1 DEF ZeroResult, AnyInv, FaultTypeOK, TypeOK
    <3>2. \A t \in Bound : /\ pc[t] \in {"poll", "mark"}
                           /\ ~wait_for_next_iter[t] /\ local_iter_num[t] = 0
      BY <2>1, <3>1 DEF ZeroResult, AnyInv, StartInv, Bound
    <3>3. TypeOK'
      BY <1>1 DEF AnyInv, FaultTypeOK
    <3>4. /\ \A t \in Bound : copy_num'[t] = 0
          /\ iter_num' = 0 /\ UNCHANGED <<thread, upc>>
      BY <2>1 DEF ZeroResult, Zeroed
    <3> QED
      BY <3>1, <3>2, <3>3, <3>4, HalfFacts DEF LimitInv, Full, Stale, thread
  <2>2. CASE UpdaterRestart
    <3>1. LimitInv /\ upc # "bump"
      BY <1>2, <2>2 DEF UpdaterRestart
    <3>2. TypeOK'
      BY <1>1 DEF AnyInv, FaultTypeOK
    <3> QED
      BY <2>2, <3>1, <3>2 DEF UpdaterRestart, LimitInv, Full, Stale, thread
  <2>3. ASSUME NEW t \in Bound, Lose(t) PROVE LimitInv'
    <3>1. LimitInv
      BY <1>2, <2>3 DEF Lose
    <3>2. TypeOK'
      BY <1>1 DEF AnyInv, FaultTypeOK
    <3> QED
      BY <2>3, <3>1, <3>2 DEF Lose, LimitInv, Full, Stale, thread
  <2>4. ~ExtractorRestart
    BY <1>2 DEF ExtractorRestart
  <2>5. CASE [Next]_vars /\ UNCHANGED faultAux
    BY <1>2, <2>5, LimitNext DEF faultAux
  <2> QED
    BY <2>1, <2>2, <2>3, <2>4, <2>5
    DEF FaultNext, Undisturbed, faultVars, Next
<1> QED
  BY <1>1, <1>2, StoppedStays

LEMMA LimitFaultInit ==
  ASSUME RingOfTwo, FaultInit
  PROVE  LimitFaultInv
BY AnyInit, LimitInit DEF FaultInit, LimitFaultInv, Stopped

\* The limit stays safe, and a thread at it stays there, whatever is lost and
\* whatever process is restarted.
THEOREM LimitFaultInvariant == RingOfTwo => (FaultSpec => []LimitFaultInv)
<1> SUFFICES ASSUME RingOfTwo PROVE FaultSpec => []LimitFaultInv
  OBVIOUS
<1> QED
  BY LimitFaultInit, LimitFaultNext, PTL DEF FaultSpec

\* With two nodes no loss and no restart that meets no hand-over makes a
\* counter step past the limit its thread compares it with.
THEOREM LimitIsKept == RingOfTwo => (FaultSpec => []LimitKept)
<1> SUFFICES ASSUME RingOfTwo PROVE FaultSpec => []LimitKept
  OBVIOUS
<1>1. LimitFaultInv => LimitKept
  <2> SUFFICES ASSUME LimitInv, NEW t \in Bound PROVE copy_num[t] <= Limit
    BY DEF LimitKept, Orderly, LimitFaultInv
  <2> QED
    BY HalfFacts DEF LimitInv, TypeOK
<1> QED
  BY <1>1, LimitFaultInvariant, PTL

\* An updater that is restarted after clearing the counters and before moving
\* iter_num on (mem_extract.cpp:121-124) never hands over a gradient again.
THEOREM StopIsForGood == RingOfTwo => (FaultSpec => []StoppedForGood)
<1> SUFFICES ASSUME RingOfTwo PROVE FaultSpec => []StoppedForGood
  OBVIOUS
<1>1. LimitFaultInv => StoppedForGood
  BY DEF LimitFaultInv, Stopped, StoppedForGood
<1> QED
  BY <1>1, LimitFaultInvariant, PTL

-----------------------------------------------------------------------------
(* The gaps. A gap costs a thread at most the rest of an iteration: it is  *)
(* behind by fewer iterations than it has gaps, or what it lacks is still  *)
(* to come in the iteration its stream carries.                            *)

\* The iteration thread t collects for.
Round(t) == base[t] + local_iter_num[t]

InHand(t) == pc[t] \in {"copy", "load", "store"}

\* The chunks thread t has for it.
Got(t) ==
  IF Resetting(t) THEN {}
  ELSE {c \in Wanted(t) : UPDATER[c] = 1 /\ ~(c = head[t] /\ InHand(t))}

\* All it lacks is still to come in the iteration the stream carries.
Completable(t) == Wanted(t) \subseteq Got(t) \cup left[t] \cup {head[t]}

GapWaiting(t) == wait_for_next_iter[t] =>
  /\ Full(t) \/ Stale(t)
  /\ Round(t) <= source[t]
  /\ source[t] = Round(t) => AllPassed(t)
  /\ \/ source[t] <= Round(t) + lost[t]
     \/ source[t] = Round(t) + lost[t] + 1 /\ AllToCome(t)

GapCollecting(t) == ~wait_for_next_iter[t] =>
  /\ local_iter_num[t] = iter_num
  /\ Got(t) # Wanted(t)
  /\ \/ source[t] + 1 = Round(t) /\ AllPassed(t) /\ Got(t) = {}
     \/ source[t] \in Round(t) .. Round(t) + lost[t]
  /\ source[t] = Round(t) => Got(t) \cap (left[t] \cup {head[t]}) = {}
  /\ source[t] = Round(t) + lost[t] => Completable(t)
  /\ Round(t) = 1 => source[t] = 1

GapCount(t) ==
  /\ pc[t] = "store" => reg[t] = copy_num[t]
  /\ copy_num[t] = IF ~wait_for_next_iter[t] THEN Cardinality(Got(t))
                   ELSE IF Full(t) /\ upc # "bump" THEN Limit ELSE 0

GapMark(t) ==
  /\ Full(t) => \A c \in Wanted(t) : UPDATER[c] = 1
  /\ Resetting(t) \/ Stale(t) =>
       \A c \in Wanted(t) : UPDATER[c] = 1 <=> ~Cleared
  /\ InHand(t) => UPDATER[head[t]] = 1
  /\ pc[t] = "mark" => UPDATER[head[t]] = 0

GapRes(t) ==
  /\ \A c \in Wanted(t) :
       Full(t) \/ (~wait_for_next_iter[t] /\ c \in Got(t)) =>
         res[c] \in Round(t) .. Round(t) + lost[t]
  /\ pc[t] \in {"load", "store"} => res[head[t]] = source[t]

\* From the first loss on an iteration the stream is not ahead of cannot be
\* completed, and one that is complete has newer data.
GapLoss(t) == fault = "loss" =>
  /\ ~wait_for_next_iter[t] /\ first[t] \in 1 .. Round(t) =>
       source[t] >= Round(t) /\ (source[t] = Round(t) => ~Completable(t))
  /\ wait_for_next_iter[t] /\ source[t] = Round(t) => first[t] = 0
  /\ wait_for_next_iter[t] /\ source[t] = Round(t) + 1 /\ first[t] # 0 =>
       ~AllToCome(t)
  /\ Full(t) /\ first[t] \in 1 .. Round(t) =>
       \E c \in Wanted(t) : res[c] > Round(t)

GapThread(t) ==
  /\ GapWaiting(t) /\ GapCollecting(t) /\ GapCount(t) /\ GapMark(t)
  /\ GapRes(t) /\ GapLoss(t)

\* Both streams are counted from their first iteration, or both from one of
\* those that are divided alike.
OneBase == (\A t \in Bound : base[t] = 1) \/ (\A t \in Bound : base[t] > 1)

GapCore ==
  /\ OneBase /\ FlagInv /\ UpdaterInv
  /\ \A t \in Bound : GapThread(t)

GapInv == AnyInv /\ (Orderly => GapCore)

-----------------------------------------------------------------------------
LEMMA Numbers ==
  ASSUME AnyInv, NEW t \in Bound
  PROVE  /\ source[t] \in Nat /\ source[t] > 0 /\ lost[t] \in Nat
         /\ base[t] \in Nat /\ base[t] > 0 /\ base[t] <= source[t]
         /\ first[t] \in Nat /\ first[t] <= source[t]
         /\ first[t] = 0 <=> lost[t] = 0
         /\ iter_num \in Nat /\ local_iter_num[t] \in Nat
         /\ Round(t) \in Nat /\ Round(t) > 0 /\ Nominal(t) \in Nat
         /\ Round(t) = base[t] + local_iter_num[t]
         /\ Nominal(t) = base[t] + iter_num
BY DEF AnyInv, FaultTypeOK, TypeOK, StreamInv, GapOK, Round, Nominal

LEMMA WantedFacts ==
  ASSUME Matched, AnyInv, OneBase
  PROVE  /\ Wanted(0) \cup Wanted(1) = Chunks /\ Wanted(0) \cap Wanted(1) = {}
         /\ \A t \in Bound :
              /\ IsFiniteSet(Wanted(t)) /\ Wanted(t) \subseteq Chunks
              /\ Cardinality(Wanted(t)) = Limit /\ Wanted(t) # {}
              /\ NoPacket \notin Wanted(t) /\ Invalid \notin Wanted(t)
<1>1. Wanted(0) \cup Wanted(1) = Chunks /\ Wanted(0) \cap Wanted(1) = {}
  <2>1. CASE \A t \in Bound : base[t] = 1
    <3>1. CASE iter_num = 0
      BY <2>1, <3>1 DEF Wanted, Share, Matched, Bound
    <3>2. CASE iter_num # 0
      <4>1. 1 + iter_num # 1
        BY <3>2 DEF AnyInv, FaultTypeOK, TypeOK
      <4> QED
        BY <2>1, <4>1 DEF Wanted, Share, Matched, Bound
    <3> QED
      BY <3>1, <3>2
  <2>2. CASE \A t \in Bound : base[t] > 1
    <3>1. \A t \in Bound : base[t] + iter_num # 1
      BY <2>2, Numbers
    <3> QED
      BY <3>1 DEF Wanted, Share, Matched, Bound
  <2> QED
    BY <2>1, <2>2 DEF OneBase
<1>2. ASSUME NEW t \in Bound
      PROVE  /\ IsFiniteSet(Wanted(t)) /\ Wanted(t) \subseteq Chunks
             /\ Cardinality(Wanted(t)) = Limit /\ Wanted(t) # {}
             /\ NoPacket \notin Wanted(t) /\ Invalid \notin Wanted(t)
  BY ShareFacts DEF Wanted
<1> QED
  BY <1>1, <1>2

\* A thread that collects gets chunks of its share: the stream carries an
\* iteration that is divided like the one it collects for.
LEMMA SameDivision ==
  ASSUME AnyInv, NEW t \in Bound, GapCollecting(t), ~wait_for_next_iter[t],
         source[t] >= Round(t)
  PROVE  /\ Share(source[t], t) = Wanted(t)
         /\ left[t] \subseteq Wanted(t)
         /\ head[t] \in Wanted(t) \cup {NoPacket, Invalid}
<1>1. Wanted(t) = Share(Round(t), t)
  BY DEF GapCollecting, Wanted, Round
<1>2. Share(source[t], t) = Wanted(t)
  BY <1>1, Numbers DEF GapCollecting, Share
<1> QED
  BY <1>2 DEF AnyInv, StreamInv

\* A chunk in the head slot is one the thread that polls or works on it wants.
LEMMA HeadWanted ==
  ASSUME AnyInv, NEW t \in Bound, GapCollecting(t), ~wait_for_next_iter[t],
         head[t] \in Chunks
  PROVE  /\ head[t] \in Wanted(t) /\ Share(source[t], t) = Wanted(t)
         /\ left[t] \subseteq Wanted(t) /\ head[t] \notin left[t]
         /\ source[t] \in Round(t) .. Round(t) + lost[t]
<1>1. source[t] \in Round(t) .. Round(t) + lost[t]
  BY DEF GapCollecting, AllPassed
<1>2. source[t] >= Round(t)
  BY <1>1, Numbers
<1>3. NoPacket \notin Chunks /\ Invalid \notin Chunks
  BY StreamAssumption
<1> QED
  BY <1>1, <1>2, <1>3, SameDivision DEF AnyInv, StreamInv

\* A packet is in hand only while the thread collects.
LEMMA WorkCollects ==
  ASSUME AnyInv, GapCore, NEW t \in Bound,
         pc[t] \in {"mark", "copy", "load", "store"}
  PROVE  ~wait_for_next_iter[t] /\ ~Resetting(t) /\ head[t] \in Wanted(t)
<1>1. ~wait_for_next_iter[t] /\ head[t] \in Chunks
  BY DEF AnyInv, ThreadOK
<1> QED
  BY <1>1, HeadWanted DEF GapCore, GapThread, Resetting

\* A step that leaves alone what thread u and its chunks depend on.
LEMMA GapFrame ==
  ASSUME AnyInv, GapCore, NEW u \in Bound,
         source'[u] = source[u], left'[u] = left[u], head'[u] = head[u],
         pc'[u] = pc[u], wait_for_next_iter'[u] = wait_for_next_iter[u],
         local_iter_num'[u] = local_iter_num[u], reg'[u] = reg[u],
         copy_num'[u] = copy_num[u], iter_num' = iter_num,
         base'[u] = base[u], lost'[u] = lost[u], first'[u] = first[u],
         fault' = fault,
         upc' = "bump" <=> upc = "bump",
         Cleared' <=> Cleared,
         \A c \in Wanted(u) : UPDATER'[c] = UPDATER[c] /\ res'[c] = res[c]
  PROVE  GapThread(u)'
<1>1. /\ Wanted(u)' = Wanted(u) /\ Round(u)' = Round(u)
      /\ Share(source[u], u)' = Share(source[u], u)
  BY DEF Wanted, Round, Share
<1>2. /\ Full(u)' <=> Full(u)
      /\ Stale(u)' <=> Stale(u)
      /\ Resetting(u)' <=> Resetting(u)
      /\ InHand(u)' <=> InHand(u)
  BY DEF Full, Stale, Resetting, InHand
<1>3. Got(u)' = Got(u)
  BY <1>1, <1>2 DEF Got
<1>4. Completable(u)' <=> Completable(u)
  BY <1>1, <1>3 DEF Completable
<1>5. GapThread(u)
  BY DEF GapCore
<1>6. GapWaiting(u)'
  BY <1>1, <1>2, <1>5 DEF GapThread, GapWaiting, AllPassed, AllToCome
<1>7. GapCollecting(u)'
  BY <1>1, <1>3, <1>4, <1>5 DEF GapThread, GapCollecting, AllPassed
<1>8. GapCount(u)'
  BY <1>2, <1>3, <1>5 DEF GapThread, GapCount
<1>9. GapMark(u)' /\ GapRes(u)'
  <2>1. pc[u] \in {"mark", "copy", "load", "store"} => head[u] \in Wanted(u)
    BY WorkCollects
  <2>2. GapMark(u)'
    BY <1>1, <1>2, <1>5, <2>1 DEF GapThread, GapMark, InHand
  <2>3. GapRes(u)'
    BY <1>1, <1>2, <1>3, <1>5, <2>1 DEF GapThread, GapRes
  <2> QED
    BY <2>2, <2>3
<1>10. GapLoss(u)'
  BY <1>1, <1>2, <1>4, <1>5 DEF GapThread, GapLoss, AllToCome
<1> QED
  BY <1>6, <1>7, <1>8, <1>9, <1>10 DEF GapThread

\* A step of thread t, or of its stream, that disturbs nobody else.
LEMMA OnlyThread ==
  ASSUME AnyInv, GapCore, NEW t \in Bound,
         \A u \in Bound \ {t} :
           /\ source'[u] = source[u] /\ left'[u] = left[u]
           /\ head'[u] = head[u] /\ pc'[u] = pc[u]
           /\ wait_for_next_iter'[u] = wait_for_next_iter[u]
           /\ local_iter_num'[u] = local_iter_num[u]
           /\ reg'[u] = reg[u] /\ copy_num'[u] = copy_num[u]
           /\ lost'[u] = lost[u] /\ first'[u] = first[u]
           /\ \A c \in Wanted(u) : UPDATER'[c] = UPDATER[c] /\ res'[c] = res[c],
         iter_num' = iter_num, base' = base, fault' = fault, upc' = upc,
         Cleared' <=> Cleared,
         FlagInv', UpdaterInv', GapThread(t)'
  PROVE  GapCore'
<1>1. ASSUME NEW u \in Bound, u # t PROVE GapThread(u)'
  BY <1>1, GapFrame
<1> QED
  BY <1>1 DEF GapCore, OneBase

LEMMA StreamCore ==
  ASSUME AnyInv, GapCore, NEW t \in Bound, head[t] = NoPacket,
         UNCHANGED <<thread, UPDATER, UPDATER_FLAG, copy_num, iter_num, res,
                     upc, fault, base>>,
         \A u \in Bound \ {t} :
           /\ source'[u] = source[u] /\ left'[u] = left[u]
           /\ head'[u] = head[u]
           /\ lost'[u] = lost[u] /\ first'[u] = first[u]
  PROVE  /\ Wanted(t)' = Wanted(t) /\ Round(t)' = Round(t)
         /\ wait_for_next_iter'[t] = wait_for_next_iter[t]
         /\ Full(t)' <=> Full(t)
         /\ Stale(t)' <=> Stale(t)
         /\ Got(t)' = Got(t)
         /\ GapCount(t)' /\ GapMark(t)'
         /\ ~InHand(t) /\ pc[t] # "mark" /\ pc'[t] = pc[t]
         /\ GapThread(t)' => GapCore'
<1> USE DEF thread
<1>1. /\ Wanted(t)' = Wanted(t) /\ Round(t)' = Round(t)
      /\ wait_for_next_iter'[t] = wait_for_next_iter[t]
      /\ Full(t)' <=> Full(t)
      /\ Stale(t)' <=> Stale(t)
      /\ Resetting(t)' <=> Resetting(t)
  BY DEF Wanted, Share, Round, Full, Stale, Resetting
<1>2. ~InHand(t) /\ pc[t] # "mark" /\ ~InHand(t)'
  BY StreamAssumption DEF AnyInv, ThreadOK, InHand
<1>3. Got(t)' = Got(t)
  BY <1>1, <1>2 DEF Got
<1>4. GapCount(t)'
  BY <1>1, <1>3 DEF GapCore, GapThread, GapCount
<1>5. GapMark(t)'
  BY <1>1, <1>2 DEF GapCore, GapThread, GapMark, Cleared
<1>6. FlagInv' /\ UpdaterInv'
  BY DEF GapCore, FlagInv, Cleared, Stale, UpdaterInv, Full
<1>7. GapThread(t)' => GapCore'
  <2> SUFFICES ASSUME GapThread(t)' PROVE GapCore'
    OBVIOUS
  <2> QED
    BY <1>6, OnlyThread DEF Cleared
<1> QED
  BY <1>1, <1>2, <1>3, <1>4, <1>5, <1>7

\* What a stream loses nothing by it still has.
LEMMA PublishGap ==
  ASSUME Matched, AnyInv, GapCore, NEW t \in Bound,
         PublishChunk(t) \/ PublishInvalid(t), UNCHANGED faultAux
  PROVE  GapCore'
<1> USE DEF faultAux
<1>1. head[t] = NoPacket /\ GapThread(t)
  BY DEF PublishChunk, PublishInvalid, GapCore
<1>2. /\ Wanted(t)' = Wanted(t) /\ Round(t)' = Round(t)
      /\ wait_for_next_iter'[t] = wait_for_next_iter[t]
      /\ Full(t)' <=> Full(t)
      /\ Stale(t)' <=> Stale(t)
      /\ Got(t)' = Got(t)
      /\ GapCount(t)' /\ GapMark(t)'
      /\ ~InHand(t) /\ pc[t] # "mark" /\ pc'[t] = pc[t]
      /\ GapThread(t)' => GapCore'
  <2>1. UNCHANGED <<thread, UPDATER, UPDATER_FLAG, copy_num, iter_num, res,
                    upc, fault, base>>
    BY DEF PublishChunk, PublishInvalid
  <2>2. \A u \in Bound \ {t} :
           /\ source'[u] = source[u] /\ left'[u] = left[u]
           /\ head'[u] = head[u]
           /\ lost'[u] = lost[u] /\ first'[u] = first[u]
    BY DEF PublishChunk, PublishInvalid, AnyInv, FaultTypeOK, TypeOK
  <2> QED
    BY <1>1, <2>1, <2>2, StreamCore
<1>3. /\ source' = source /\ lost' = lost /\ first' = first /\ fault' = fault
      /\ res' = res
  BY DEF PublishChunk, PublishInvalid
<1>4. /\ left[t] \subseteq Chunks
      /\ Share(source[t], t)' = Share(source[t], t)
      /\ NoPacket \notin Share(source[t], t)
      /\ Invalid \notin Share(source[t], t)
  BY <1>3, ShareTypes DEF AnyInv, FaultTypeOK, TypeOK, Share
\* What is to come is the same; a stream that has passed stays so.
<1>5. /\ left'[t] \cup ({head'[t]} \cap Chunks)
           = left[t] \cup ({head[t]} \cap Chunks)
      /\ AllPassed(t)' <=> AllPassed(t)
  <2>1. CASE PublishInvalid(t)
    BY <1>1, <2>1, StreamAssumption
    DEF PublishInvalid, AllPassed, AnyInv, FaultTypeOK, TypeOK
  <2>2. CASE PublishChunk(t)
    BY <1>1, <1>4, <2>2, StreamAssumption
    DEF PublishChunk, AllPassed, AnyInv, FaultTypeOK, TypeOK
  <2> QED
    BY <2>1, <2>2
<1>6. /\ AllToCome(t)' <=> AllToCome(t)
      /\ Completable(t)' <=> Completable(t)
      /\ (Got(t) \cap (left[t] \cup {head[t]}))' = Got(t) \cap (left[t] \cup {head[t]})
  <2>1. Share(source[t], t) \subseteq Chunks /\ Wanted(t) \subseteq Chunks
        /\ Got(t) \subseteq Chunks
    BY ShareTypes DEF Wanted, Got
  <2>2. AllToCome(t)' <=> AllToCome(t)
    BY <1>3, <1>4, <1>5, <2>1 DEF AllToCome
  <2>3. Completable(t)' <=> Completable(t)
    BY <1>2, <1>5, <2>1 DEF Completable
  <2>4. (Got(t) \cap (left[t] \cup {head[t]}))' = Got(t) \cap (left[t] \cup {head[t]})
    BY <1>2, <1>5, <2>1
  <2> QED
    BY <2>2, <2>3, <2>4
<1>7. GapWaiting(t)'
  BY <1>1, <1>2, <1>3, <1>5, <1>6 DEF GapThread, GapWaiting
<1>8. GapCollecting(t)'
  <2>1. iter_num' = iter_num /\ local_iter_num' = local_iter_num
    BY DEF PublishChunk, PublishInvalid, thread
  <2> QED
    BY <1>1, <1>2, <1>3, <1>5, <1>6, <2>1 DEF GapThread, GapCollecting
<1>9. GapRes(t)'
  BY <1>1, <1>2, <1>3 DEF GapThread, GapRes, InHand
<1>10. GapLoss(t)'
  BY <1>1, <1>2, <1>3, <1>6 DEF GapThread, GapLoss
<1> QED
  BY <1>2, <1>7, <1>8, <1>9, <1>10 DEF GapThread

\* A stream begins its next iteration: a thread with as many gaps as it is
\* behind is waiting by then, any other falls behind by one.
LEMMA NextSourceGap ==
  ASSUME Matched, AnyInv, GapCore, Orderly, NEW t \in Bound, NextSource(t),
         UNCHANGED faultAux
  PROVE  GapCore'
<1> USE DEF faultAux
<1>1. /\ head[t] = NoPacket /\ left[t] = {}
      /\ source'[t] = source[t] + 1 /\ head' = head
      /\ left'[t] = Share(source[t] + 1, t)
      /\ GapThread(t)
  BY DEF NextSource, GapCore, AnyInv, FaultTypeOK, TypeOK
<1>2. /\ Wanted(t)' = Wanted(t) /\ Round(t)' = Round(t)
      /\ wait_for_next_iter'[t] = wait_for_next_iter[t]
      /\ Full(t)' <=> Full(t)
      /\ Stale(t)' <=> Stale(t)
      /\ Got(t)' = Got(t)
      /\ GapCount(t)' /\ GapMark(t)'
      /\ ~InHand(t) /\ pc[t] # "mark" /\ pc'[t] = pc[t]
      /\ GapThread(t)' => GapCore'
  <2>1. UNCHANGED <<thread, UPDATER, UPDATER_FLAG, copy_num, iter_num, res,
                    upc, fault, base>>
    BY DEF NextSource
  <2>2. \A u \in Bound \ {t} :
           /\ source'[u] = source[u] /\ left'[u] = left[u]
           /\ head'[u] = head[u]
           /\ lost'[u] = lost[u] /\ first'[u] = first[u]
    BY DEF NextSource, AnyInv, FaultTypeOK, TypeOK
  <2> QED
    BY <1>1, <2>1, <2>2, StreamCore
<1>3. lost' = lost /\ first' = first /\ res' = res /\ iter_num' = iter_num
      /\ local_iter_num' = local_iter_num /\ fault' = fault
  BY DEF NextSource, thread
<1>4. Share(source[t], t)' = Share(source[t] + 1, t)
  BY <1>1 DEF Share
<1>5. AllToCome(t)' /\ ~AllPassed(t)'
  <2>1. Share(source[t] + 1, t) # {}
    BY ShareFacts
  <2> QED
    BY <1>1, <1>4, <2>1 DEF AllToCome, AllPassed
<1>6. AllPassed(t) /\ (Share(source[t], t) # {} => ~AllToCome(t))
  BY <1>1, StreamAssumption, ShareTypes DEF AllPassed, AllToCome
<1>7. ~AllToCome(t)
  BY <1>6, ShareFacts
<1>8. NoPacket \notin Wanted(t) /\ Got(t) \subseteq Wanted(t) /\ Wanted(t) # {}
  BY WantedFacts DEF GapCore, Got
\* What is not there at the end of an iteration has not come with it.
<1>9. Completable(t) => Got(t) = Wanted(t)
  BY <1>1, <1>8 DEF Completable
<1>10. GapWaiting(t)'
  <2> SUFFICES ASSUME wait_for_next_iter[t] PROVE GapWaiting(t)'
    BY <1>2 DEF GapWaiting
  <2>1. /\ Full(t) \/ Stale(t)
        /\ Round(t) <= source[t]
        /\ source[t] <= Round(t) + lost[t]
    BY <1>1, <1>7 DEF GapThread, GapWaiting
  <2>2. /\ Round(t) <= source[t] + 1 /\ source[t] + 1 # Round(t)
        /\ source[t] + 1 <= Round(t) + lost[t] + 1
        /\ \/ source[t] + 1 <= Round(t) + lost[t]
           \/ source[t] + 1 = Round(t) + lost[t] + 1
    BY <1>1, <1>7, <2>1, Numbers DEF GapThread, GapWaiting
  <2> QED
    BY <1>1, <1>2, <1>3, <1>5, <2>1, <2>2 DEF GapWaiting, GapThread
<1>11. ASSUME ~wait_for_next_iter[t]
       PROVE  /\ source[t] # Round(t) + lost[t]
              /\ source[t] + 1 \in Round(t) .. Round(t) + lost[t]
              /\ source[t] + 1 = Round(t) => Got(t) = {}
              /\ Round(t) # 1
  <2>1. source[t] # Round(t) + lost[t]
    BY <1>1, <1>9, <1>11 DEF GapThread, GapCollecting
  <2>2. source[t] + 1 \in Round(t) .. Round(t) + lost[t]
    BY <1>1, <1>11, <2>1, Numbers DEF GapThread, GapCollecting
  <2>3. source[t] + 1 = Round(t) => Got(t) = {}
    BY <1>1, <1>11, <2>2, Numbers DEF GapThread, GapCollecting
  <2>4. Round(t) # 1
    <3> SUFFICES ASSUME Round(t) = 1 PROVE FALSE
      OBVIOUS
    <3>1. source[t] = 1
      BY <1>1, <1>11 DEF GapThread, GapCollecting
    <3>2. first[t] = 0
      BY <3>1, Numbers DEF Orderly
    <3> QED
      BY <2>1, <3>1, <3>2, Numbers
  <2> QED
    BY <2>1, <2>2, <2>3, <2>4
<1>12. ASSUME ~wait_for_next_iter[t]
       PROVE  Share(source[t] + 1, t) = Wanted(t)
  <2>1. Wanted(t) = Share(Round(t), t)
    BY <1>1, <1>12 DEF GapThread, GapCollecting, Wanted, Round
  <2> QED
    BY <1>11, <1>12, <2>1, Numbers DEF Share
<1>13. GapCollecting(t)'
  <2> SUFFICES ASSUME ~wait_for_next_iter[t] PROVE GapCollecting(t)'
    BY <1>2 DEF GapCollecting
  <2>1. Completable(t)'
    BY <1>1, <1>2, <1>12 DEF Completable
  <2>2. source[t] + 1 = Round(t) => Got(t) = {}
    BY <1>11
  <2> QED
    BY <1>1, <1>2, <1>3, <1>11, <2>1, <2>2 DEF GapThread, GapCollecting
<1>14. GapRes(t)'
  BY <1>1, <1>2, <1>3 DEF GapThread, GapRes, InHand
<1>15. GapLoss(t)'
  <2> SUFFICES ASSUME fault = "loss" PROVE GapLoss(t)'
    BY <1>3 DEF GapLoss
  <2>1. ASSUME ~wait_for_next_iter[t], first[t] \in 1 .. Round(t)
        PROVE  source[t] + 1 >= Round(t) /\ source[t] + 1 # Round(t)
    BY <1>1, <2>1, Numbers DEF GapThread, GapLoss
  <2>2. ASSUME wait_for_next_iter[t]
        PROVE  /\ source[t] + 1 # Round(t)
               /\ source[t] + 1 = Round(t) + 1 => first[t] = 0
    BY <1>1, <2>2, Numbers DEF GapThread, GapLoss, GapWaiting
  <2> QED
    BY <1>1, <1>2, <1>3, <2>1, <2>2 DEF GapThread, GapLoss
<1> QED
  BY <1>2, <1>10, <1>13, <1>14, <1>15 DEF GapThread

\* A lost chunk is missing from what the stream still has, and from what the
\* thread has unless it took it from the iteration before.
LEMMA LoseGap ==
  ASSUME Matched, AnyInv, GapCore, NEW t \in Bound, Lose(t)
  PROVE  GapCore'
<1>1. PICK c \in left[t] : left'[t] = left[t] \ {c}
  BY DEF Lose, AnyInv, FaultTypeOK, TypeOK
<1>2. /\ head[t] = NoPacket /\ head' = head /\ source' = source
      /\ lost'[t] = lost[t] + 1
      /\ first'[t] = IF first[t] = 0 THEN source[t] ELSE first[t]
      /\ fault' = fault /\ fault = "loss" /\ res' = res
      /\ iter_num' = iter_num /\ local_iter_num' = local_iter_num
      /\ GapThread(t)
  BY DEF Lose, Gap, GapCore, AnyInv, FaultTypeOK, TypeOK, thread
<1>3. /\ Wanted(t)' = Wanted(t) /\ Round(t)' = Round(t)
      /\ wait_for_next_iter'[t] = wait_for_next_iter[t]
      /\ Full(t)' <=> Full(t)
      /\ Stale(t)' <=> Stale(t)
      /\ Got(t)' = Got(t)
      /\ GapCount(t)' /\ GapMark(t)'
      /\ ~InHand(t) /\ pc[t] # "mark" /\ pc'[t] = pc[t]
      /\ GapThread(t)' => GapCore'
  <2>1. UNCHANGED <<thread, UPDATER, UPDATER_FLAG, copy_num, iter_num, res,
                    upc, fault, base>>
    BY DEF Lose
  <2>2. \A u \in Bound \ {t} :
           /\ source'[u] = source[u] /\ left'[u] = left[u]
           /\ head'[u] = head[u]
           /\ lost'[u] = lost[u] /\ first'[u] = first[u]
    BY DEF Lose, Gap, AnyInv, FaultTypeOK, TypeOK
  <2> QED
    BY <1>2, <2>1, <2>2, StreamCore
<1>4. /\ c \in Share(source[t], t) /\ c # NoPacket
      /\ Share(source[t], t)' = Share(source[t], t)
  BY <1>2, ShareTypes DEF AnyInv, StreamInv, Share
<1>5. ~AllPassed(t) /\ ~AllToCome(t)'
  BY <1>1, <1>2, <1>4 DEF AllPassed, AllToCome
<1>6. GapWaiting(t)'
  <2> SUFFICES ASSUME wait_for_next_iter[t] PROVE GapWaiting(t)'
    BY <1>3 DEF GapWaiting
  <2>1. source[t] <= Round(t) + lost'[t] /\ source[t] # Round(t)
    BY <1>2, <1>5, Numbers DEF GapThread, GapWaiting
  <2> QED
    BY <1>2, <1>3, <2>1 DEF GapThread, GapWaiting
<1>7. GapCollecting(t)'
  <2> SUFFICES ASSUME ~wait_for_next_iter[t] PROVE GapCollecting(t)'
    BY <1>3 DEF GapCollecting
  <2>1. source[t] \in Round(t) .. Round(t) + lost[t]
    BY <1>2, <1>5 DEF GapThread, GapCollecting
  <2>2. /\ source[t] \in Round(t) .. Round(t) + lost'[t]
        /\ source[t] # Round(t) + lost'[t]
    BY <1>2, <2>1, Numbers
  <2> QED
    BY <1>1, <1>2, <1>3, <2>2 DEF GapThread, GapCollecting
<1>8. GapRes(t)'
  <2>1. ASSUME NEW r, r \in Round(t) .. Round(t) + lost[t]
        PROVE  r \in Round(t) .. Round(t) + lost'[t]
    BY <1>2, <2>1, Numbers
  <2> QED
    BY <1>2, <1>3, <2>1 DEF GapThread, GapRes, InHand
<1>9. GapLoss(t)'
  <2>1. ASSUME ~wait_for_next_iter[t], first'[t] \in 1 .. Round(t)
        PROVE  source[t] >= Round(t) /\ (source[t] = Round(t) => ~Completable(t)')
    <3>1. source[t] >= Round(t)
      BY <1>2, <1>5, <2>1, Numbers DEF GapThread, GapCollecting
    <3>2. ASSUME source[t] = Round(t) PROVE ~Completable(t)'
      <4>1. c \in Wanted(t)
        BY <1>2, <1>4, <2>1, <3>1, SameDivision DEF GapThread
      <4>2. c \notin Got(t)
        BY <1>2, <2>1, <3>2 DEF GapThread, GapCollecting
      <4> QED
        BY <1>1, <1>2, <1>3, <1>4, <4>1, <4>2 DEF Completable
    <3> QED
      BY <3>1, <3>2
  <2>2. ASSUME wait_for_next_iter[t] PROVE source[t] # Round(t)
    BY <1>2, <1>5, <2>2 DEF GapThread, GapWaiting
  <2>3. ASSUME Full(t), first'[t] \in 1 .. Round(t)
        PROVE  \E d \in Wanted(t) : res[d] > Round(t)
    <3>1. source[t] > Round(t)
      BY <1>2, <2>2, <2>3, Numbers DEF GapThread, GapWaiting, Full
    <3>2. first[t] \in 1 .. Round(t)
      BY <1>2, <2>3, <3>1, Numbers
    <3> QED
      BY <1>2, <2>3, <3>2 DEF GapThread, GapLoss
  <2> QED
    BY <1>2, <1>3, <1>5, <2>1, <2>2, <2>3 DEF GapLoss
<1> QED
  BY <1>3, <1>6, <1>7, <1>8, <1>9 DEF GapThread

-----------------------------------------------------------------------------
(* A thread at work.                                                       *)

\* A thread that takes a packet leaves the hand-shake and the other thread
\* alone, and no hand-over is under way.
LEMMA WorkCore ==
  ASSUME AnyInv, GapCore, NEW t \in Bound,
         ~wait_for_next_iter[t], ~Resetting(t), ~Resetting(t)',
         UNCHANGED <<source, left, local_iter_num, UPDATER_FLAG, iter_num, upc,
                     faultAux>>,
         \A u \in Bound \ {t} :
           /\ head'[u] = head[u] /\ pc'[u] = pc[u]
           /\ wait_for_next_iter'[u] = wait_for_next_iter[u]
           /\ reg'[u] = reg[u] /\ copy_num'[u] = copy_num[u]
           /\ \A c \in Wanted(u) : UPDATER'[c] = UPDATER[c] /\ res'[c] = res[c]
  PROVE  /\ Wanted(t)' = Wanted(t) /\ Round(t)' = Round(t)
         /\ Share(source[t], t)' = Share(source[t], t)
         /\ ~Full(t) /\ ~Stale(t) /\ ~Stale(t)'
         /\ Full(t)' <=> wait_for_next_iter'[t]
         /\ upc \notin {"clear", "bump"}
         /\ GapThread(t)' => GapCore'
<1> USE DEF faultAux
<1>1. /\ Wanted(t)' = Wanted(t) /\ Round(t)' = Round(t)
      /\ Share(source[t], t)' = Share(source[t], t)
  BY DEF Wanted, Share, Round
<1>2. local_iter_num[t] = iter_num
  BY DEF GapCore, GapThread, GapCollecting
<1>3. /\ ~Full(t) /\ ~Stale(t) /\ ~Stale(t)'
      /\ Full(t)' <=> wait_for_next_iter'[t]
  BY <1>2, Numbers DEF Full, Stale
<1>4. upc \notin {"clear", "bump"}
  BY <1>3 DEF GapCore, UpdaterInv
<1>5. /\ Cleared' <=> Cleared
      /\ pc[t] \notin {"fill", "flag", "spin"} /\ pc'[t] \notin {"fill", "flag", "spin"}
  BY DEF Cleared, Resetting, Bound
<1>6. \A u \in Bound : Stale(u)' <=> Stale(u)
  BY <1>3 DEF Stale
<1>7. FlagInv'
  BY <1>5, <1>6 DEF GapCore, FlagInv, Bound
<1>8. UpdaterInv'
  BY <1>4 DEF UpdaterInv
<1>9. GapThread(t)' => GapCore'
  <2> SUFFICES ASSUME GapThread(t)' PROVE GapCore'
    OBVIOUS
  <2> QED
    BY <1>5, <1>7, <1>8, OnlyThread
<1> QED
  BY <1>1, <1>3, <1>4, <1>9

\* Passing over a packet: an invalid one, or a chunk the thread has.
LEMMA PassOverGap ==
  ASSUME Matched, AnyInv, GapCore, NEW t \in Bound, Reading(t), PassOver(t),
         head[t] = Invalid \/ head[t] \in Got(t), UNCHANGED faultAux
  PROVE  GapCore'
<1>1. /\ ~wait_for_next_iter[t] /\ pc[t] = "poll" /\ GapThread(t)
      /\ head'[t] = NoPacket /\ left' = left /\ source' = source
      /\ pc' = pc /\ wait_for_next_iter' = wait_for_next_iter
      /\ UNCHANGED <<local_iter_num, reg, UPDATER, copy_num, iter_num, res, upc>>
  BY DEF Reading, PassOver, Consume, GapCore, AnyInv, FaultTypeOK, TypeOK, thread
<1>2. ~Resetting(t) /\ ~Resetting(t)' /\ ~InHand(t) /\ ~InHand(t)'
  BY <1>1 DEF Resetting, InHand
<1>3. /\ Wanted(t)' = Wanted(t) /\ Round(t)' = Round(t)
      /\ Share(source[t], t)' = Share(source[t], t)
      /\ ~Full(t) /\ ~Stale(t) /\ ~Stale(t)'
      /\ Full(t)' <=> wait_for_next_iter'[t]
      /\ upc \notin {"clear", "bump"}
      /\ GapThread(t)' => GapCore'
  <2>1. \A u \in Bound \ {t} : head'[u] = head[u]
    BY DEF PassOver, Consume, AnyInv, FaultTypeOK, TypeOK
  <2>2. UPDATER_FLAG' = UPDATER_FLAG
    BY DEF PassOver
  <2> QED
    BY <1>1, <1>2, <2>1, <2>2, WorkCore
<1>4. Got(t)' = Got(t)
  BY <1>1, <1>2, <1>3 DEF Got
<1>5. /\ NoPacket \notin Wanted(t) /\ Invalid \notin Wanted(t)
      /\ Got(t) \subseteq Wanted(t) /\ NoPacket \notin Chunks
  BY WantedFacts, StreamAssumption DEF GapCore, Got
<1>6. Completable(t)' <=> Completable(t)
  BY <1>1, <1>3, <1>4, <1>5 DEF Completable
<1>7. AllPassed(t) => AllPassed(t)'
  BY <1>1, <1>5 DEF AllPassed
<1>8. GapCollecting(t)'
  <2>1. lost' = lost
    BY DEF faultAux
  <2> QED
    BY <1>1, <1>3, <1>4, <1>5, <1>6, <1>7, <2>1 DEF GapThread, GapCollecting
<1>9. GapWaiting(t)' /\ GapCount(t)'
  BY <1>1, <1>3, <1>4 DEF GapThread, GapWaiting, GapCount
<1>10. GapMark(t)' /\ GapRes(t)'
  BY <1>1, <1>2, <1>3, <1>4 DEF GapThread, GapMark, GapRes, InHand, faultAux
<1>11. GapLoss(t)'
  BY <1>1, <1>3, <1>6 DEF GapThread, GapLoss, faultAux
<1> QED
  BY <1>3, <1>8, <1>9, <1>10, <1>11 DEF GapThread

LEMMA SkipInvalidGap ==
  ASSUME Matched, AnyInv, GapCore, NEW t \in Bound, SkipInvalid(t),
         UNCHANGED faultAux
  PROVE  GapCore'
BY PassOverGap DEF SkipInvalid

\* A chunk that is marked is one the thread has.
LEMMA TestGap ==
  ASSUME Matched, AnyInv, GapCore, NEW t \in Bound, Test(t), UNCHANGED faultAux
  PROVE  GapCore'
<1>1. /\ ~wait_for_next_iter[t] /\ pc[t] = "poll" /\ GapThread(t)
      /\ head[t] \in Chunks
  BY DEF Test, Reading, GapCore
<1>2. head[t] \in Wanted(t)
  BY <1>1, HeadWanted DEF GapThread
<1>3. ~Resetting(t) /\ ~InHand(t)
  BY <1>1 DEF Resetting, InHand
<1>4. CASE UPDATER[head[t]] # 0
  <2>1. UPDATER[head[t]] = 1
    BY <1>1, <1>4 DEF AnyInv, FaultTypeOK, TypeOK
  <2>2. head[t] \in Got(t)
    BY <1>2, <1>3, <2>1 DEF Got
  <2> QED
    BY <1>4, <2>2, PassOverGap DEF Test
<1>5. CASE UPDATER[head[t]] = 0
  <2>1. /\ pc'[t] = "mark" /\ head' = head /\ left' = left /\ source' = source
        /\ UNCHANGED <<wait_for_next_iter, local_iter_num, reg, UPDATER,
                       UPDATER_FLAG, copy_num, iter_num, res, upc>>
    BY <1>5 DEF Test, ToMark, AnyInv, FaultTypeOK, TypeOK, stream
  <2>2. ~Resetting(t)' /\ ~InHand(t)'
    BY <2>1 DEF Resetting, InHand
  <2>3. /\ Wanted(t)' = Wanted(t) /\ Round(t)' = Round(t)
        /\ Share(source[t], t)' = Share(source[t], t)
        /\ ~Full(t) /\ ~Stale(t) /\ ~Stale(t)'
        /\ Full(t)' <=> wait_for_next_iter'[t]
        /\ upc \notin {"clear", "bump"}
        /\ GapThread(t)' => GapCore'
    <3>1. \A u \in Bound \ {t} : pc'[u] = pc[u]
      BY <1>5 DEF Test, ToMark, AnyInv, FaultTypeOK, TypeOK
    <3> QED
      BY <1>1, <1>3, <2>1, <2>2, <3>1, WorkCore
  <2>4. Got(t)' = Got(t)
    BY <1>3, <2>1, <2>2, <2>3 DEF Got
  <2>5. (Completable(t)' <=> Completable(t)) /\ (AllPassed(t)' <=> AllPassed(t))
    BY <2>1, <2>3, <2>4 DEF Completable, AllPassed
  <2>6. GapCollecting(t)'
    BY <1>1, <2>1, <2>3, <2>4, <2>5 DEF GapThread, GapCollecting, faultAux
  <2>7. GapWaiting(t)' /\ GapCount(t)'
    BY <1>1, <2>1, <2>3, <2>4 DEF GapThread, GapWaiting, GapCount
  <2>8. GapMark(t)' /\ GapRes(t)'
    BY <1>1, <1>5, <2>1, <2>2, <2>3, <2>4
    DEF GapThread, GapMark, GapRes, InHand, faultAux
  <2>9. GapLoss(t)'
    BY <1>1, <2>1, <2>3, <2>5 DEF GapThread, GapLoss, faultAux
  <2> QED
    BY <2>3, <2>6, <2>7, <2>8, <2>9 DEF GapThread
<1> QED
  BY <1>4, <1>5

\* The packet in hand is no chunk the thread has, before it is counted.
LEMMA HandGap ==
  ASSUME Matched, AnyInv, GapCore, NEW t \in Bound,
         Mark(t) \/ Copy(t) \/ LoadCount(t), UNCHANGED faultAux
  PROVE  GapCore'
<1>1. /\ pc[t] \in {"mark", "copy", "load"} /\ GapThread(t)
      /\ pc'[t] \in {"copy", "load", "store"}
      /\ head' = head /\ left' = left /\ source' = source
      /\ UNCHANGED <<wait_for_next_iter, local_iter_num, UPDATER_FLAG, copy_num,
                     iter_num, upc>>
  BY DEF Mark, Copy, LoadCount, GapCore, AnyInv, FaultTypeOK, TypeOK, stream
<1>2. /\ ~wait_for_next_iter[t] /\ head[t] \in Wanted(t) /\ head[t] \in Chunks
      /\ ~Resetting(t) /\ ~Resetting(t)' /\ InHand(t)'
  BY <1>1, WorkCollects DEF Resetting, InHand, AnyInv, ThreadOK
<1>3. \A c \in Chunks \ {head[t]} : UPDATER'[c] = UPDATER[c] /\ res'[c] = res[c]
  BY <1>2 DEF Mark, Copy, LoadCount, AnyInv, FaultTypeOK, TypeOK
<1>4. \A u \in Bound \ {t} : head[t] \notin Wanted(u) /\ Wanted(u) \subseteq Chunks
  BY <1>2, WantedFacts DEF GapCore, Bound
<1>5. /\ Wanted(t)' = Wanted(t) /\ Round(t)' = Round(t)
      /\ Share(source[t], t)' = Share(source[t], t)
      /\ ~Full(t) /\ ~Stale(t) /\ ~Stale(t)'
      /\ Full(t)' <=> wait_for_next_iter'[t]
      /\ upc \notin {"clear", "bump"}
      /\ GapThread(t)' => GapCore'
  <2>1. \A u \in Bound \ {t} : pc'[u] = pc[u] /\ reg'[u] = reg[u]
    BY DEF Mark, Copy, LoadCount, AnyInv, FaultTypeOK, TypeOK
  <2>2. \A u \in Bound \ {t} : \A c \in Wanted(u) :
          UPDATER'[c] = UPDATER[c] /\ res'[c] = res[c]
    BY <1>3, <1>4
  <2> QED
    BY <1>1, <1>2, <2>1, <2>2, WorkCore
<1>6. UPDATER'[head[t]] = 1
  BY <1>1, <1>2 DEF Mark, Copy, LoadCount, GapThread, GapMark, InHand,
     AnyInv, FaultTypeOK, TypeOK
<1>7. Got(t) = {c \in Wanted(t) \ {head[t]} : UPDATER[c] = 1}
  BY <1>1, <1>2 DEF Got, InHand, GapThread, GapMark
<1>8. Got(t)' = Got(t)
  <2>1. Got(t)' = {c \in Wanted(t) : UPDATER'[c] = 1 /\ ~(c = head[t])}
    BY <1>1, <1>2, <1>5 DEF Got
  <2>2. Wanted(t) \subseteq Chunks
    BY WantedFacts DEF GapCore
  <2> QED
    BY <1>3, <1>7, <2>1, <2>2
<1>9. /\ Completable(t)' <=> Completable(t)
      /\ AllPassed(t)' <=> AllPassed(t)
  BY <1>1, <1>5, <1>8 DEF Completable, AllPassed
<1>10. GapCollecting(t)' /\ GapWaiting(t)'
  BY <1>1, <1>2, <1>5, <1>8, <1>9
  DEF GapThread, GapCollecting, GapWaiting, faultAux
<1>11. GapCount(t)'
  <2>1. pc'[t] = "store" => reg'[t] = copy_num[t]
    BY <1>1 DEF Mark, Copy, LoadCount, AnyInv, FaultTypeOK, TypeOK
  <2> QED
    BY <1>1, <1>2, <1>5, <1>8, <2>1 DEF GapThread, GapCount
<1>12. GapMark(t)'
  BY <1>1, <1>2, <1>5, <1>6 DEF GapMark
<1>13. GapRes(t)'
  <2>1. pc'[t] \in {"load", "store"} => res'[head[t]] = source[t]
    BY <1>1, <1>2 DEF Mark, Copy, LoadCount, AnyInv, FaultTypeOK, TypeOK,
       GapThread, GapRes
  <2>2. \A c \in Got(t) : c \in Wanted(t) /\ res'[c] = res[c]
    <3>1. Wanted(t) \subseteq Chunks
      BY WantedFacts DEF GapCore
    <3> QED
      BY <1>3, <1>7, <3>1
  <2> QED
    BY <1>1, <1>2, <1>5, <1>8, <2>1, <2>2 DEF GapThread, GapRes, faultAux
<1>14. GapLoss(t)'
  BY <1>1, <1>2, <1>5, <1>9 DEF GapThread, GapLoss, faultAux
<1> QED
  BY <1>5, <1>10, <1>11, <1>12, <1>13, <1>14 DEF GapThread

\* The chunk just copied is counted; with the last one the round is complete,
\* from the iteration the stream carries or, in part, from those before.
LEMMA StoreCountGap ==
  ASSUME Matched, AnyInv, GapCore, Orderly, NEW t \in Bound, StoreCount(t),
         UNCHANGED faultAux
  PROVE  GapCore'
<1> DEFINE c == head[t]
<1>1. /\ pc[t] = "store" /\ pc'[t] = "poll" /\ head'[t] = NoPacket
      /\ copy_num'[t] = reg[t] + 1
      /\ wait_for_next_iter'[t] = LimitReached(reg[t] + 1)
      /\ GapThread(t)
      /\ left' = left /\ source' = source /\ res' = res /\ UPDATER' = UPDATER
      /\ UNCHANGED <<local_iter_num, reg, UPDATER_FLAG, iter_num, upc>>
  BY DEF StoreCount, Consume, GapCore, AnyInv, FaultTypeOK, TypeOK
<1>2. /\ ~wait_for_next_iter[t] /\ c \in Wanted(t)
      /\ ~Resetting(t) /\ ~Resetting(t)' /\ InHand(t) /\ ~InHand(t)'
  BY <1>1, WorkCollects DEF Resetting, InHand
<1>3. /\ Wanted(t)' = Wanted(t) /\ Round(t)' = Round(t)
      /\ Share(source[t], t)' = Share(source[t], t)
      /\ ~Full(t) /\ ~Stale(t) /\ ~Stale(t)'
      /\ Full(t)' <=> wait_for_next_iter'[t]
      /\ upc \notin {"clear", "bump"}
      /\ GapThread(t)' => GapCore'
  <2>1. \A u \in Bound \ {t} :
          /\ head'[u] = head[u] /\ pc'[u] = pc[u]
          /\ wait_for_next_iter'[u] = wait_for_next_iter[u]
          /\ copy_num'[u] = copy_num[u]
    BY DEF StoreCount, Consume, AnyInv, FaultTypeOK, TypeOK
  <2> QED
    BY <1>1, <1>2, <2>1, WorkCore
<1>4. /\ Share(source[t], t) = Wanted(t) /\ left[t] \subseteq Wanted(t)
      /\ c \notin left[t] /\ source[t] \in Round(t) .. Round(t) + lost[t]
  <2>1. c \in Chunks
    BY <1>1 DEF AnyInv, ThreadOK
  <2> QED
    BY <1>1, <1>2, <2>1, HeadWanted DEF GapThread
<1>5. UPDATER[c] = 1 /\ res[c] = source[t]
  BY <1>1, <1>2 DEF GapThread, GapMark, GapRes
<1>6. Got(t) = {d \in Wanted(t) : UPDATER[d] = 1} \ {c}
  BY <1>2 DEF Got
<1>7. Got(t)' = {d \in Wanted(t) : UPDATER[d] = 1}
  BY <1>1, <1>2, <1>3 DEF Got
<1>8. /\ Got(t)' = Got(t) \cup {c} /\ c \notin Got(t)
      /\ Got(t)' \subseteq Wanted(t)
  BY <1>2, <1>5, <1>6, <1>7
<1>9. /\ IsFiniteSet(Wanted(t)) /\ Cardinality(Wanted(t)) = Limit
      /\ NoPacket \notin Wanted(t) /\ Limit \in Nat
  BY WantedFacts, LimitFacts DEF GapCore
<1>10. /\ copy_num'[t] = Cardinality(Got(t)')
       /\ wait_for_next_iter'[t] <=> Got(t)' = Wanted(t)
  <2>1. IsFiniteSet(Got(t)) /\ IsFiniteSet(Got(t)')
    BY <1>8, <1>9, FS_Subset
  <2>2. /\ Cardinality(Got(t) \cup {c}) = Cardinality(Got(t)) + 1
        /\ Cardinality(Got(t)) \in Nat
    BY <1>8, <2>1, FS_AddElement, FS_CardinalityType
  <2>3. reg[t] + 1 = Cardinality(Got(t)')
    BY <1>1, <1>2, <1>8, <2>2 DEF GapThread, GapCount
  <2>4. Cardinality(Got(t)') = Limit <=> Got(t)' = Wanted(t)
    BY <1>8, <1>9, FS_Subset
  <2> QED
    BY <1>1, <2>3, <2>4 DEF LimitReached
<1>11. Completable(t)' <=> Completable(t)
  BY <1>1, <1>3, <1>8, <1>9 DEF Completable
<1>12. ~AllToCome(t)'
  BY <1>1, <1>2, <1>3, <1>4, <1>9 DEF AllToCome
<1>13. source[t] = Round(t) => Got(t)' \cap left[t] = {}
  BY <1>1, <1>2, <1>4, <1>8 DEF GapThread, GapCollecting
<1>14. GapWaiting(t)'
  <2> SUFFICES ASSUME wait_for_next_iter'[t] PROVE GapWaiting(t)'
    BY DEF GapWaiting
  <2>1. source[t] = Round(t) => AllPassed(t)'
    BY <1>1, <1>4, <1>10, <1>13, StreamAssumption DEF AllPassed
  <2>2. Round(t) <= source[t] /\ source[t] <= Round(t) + lost[t]
    BY <1>4, Numbers
  <2> QED
    BY <1>1, <1>3, <2>1, <2>2 DEF GapWaiting, faultAux
<1>15. GapCollecting(t)'
  <2> SUFFICES ASSUME ~wait_for_next_iter'[t] PROVE GapCollecting(t)'
    BY DEF GapCollecting
  <2>1. /\ Got(t)' # Wanted(t)
        /\ source[t] = Round(t) => Got(t)' \cap (left[t] \cup {NoPacket}) = {}
    BY <1>8, <1>9, <1>10, <1>13
  <2> QED
    BY <1>1, <1>2, <1>3, <1>4, <1>11, <2>1 DEF GapThread, GapCollecting, faultAux
<1>16. GapCount(t)'
  <2>1. wait_for_next_iter'[t] => copy_num'[t] = Limit
    BY <1>9, <1>10
  <2> QED
    BY <1>1, <1>3, <1>10, <2>1 DEF GapCount
<1>17. GapMark(t)'
  <2>1. wait_for_next_iter'[t] => \A d \in Wanted(t) : UPDATER[d] = 1
    BY <1>7, <1>10
  <2> QED
    BY <1>1, <1>2, <1>3, <2>1 DEF GapMark
<1>18. GapRes(t)'
  <2>1. \A d \in Got(t)' : res[d] \in Round(t) .. Round(t) + lost[t]
    BY <1>1, <1>2, <1>4, <1>5, <1>8 DEF GapThread, GapRes
  <2> QED
    BY <1>1, <1>3, <1>8, <1>10, <2>1 DEF GapRes, faultAux
<1>19. GapLoss(t)'
  <2> SUFFICES ASSUME fault = "loss" PROVE GapLoss(t)'
    BY DEF GapLoss, faultAux
  \* At the end of an iteration with a gap the round is not complete.
  <2>1. ASSUME wait_for_next_iter'[t], first[t] \in 1 .. Round(t)
        PROVE  source[t] # Round(t)
    <3>1. Completable(t)
      BY <1>3, <1>10, <1>11, <2>1 DEF Completable
    <3> QED
      BY <1>1, <1>2, <2>1, <3>1 DEF GapThread, GapLoss
  <2>2. ASSUME wait_for_next_iter'[t], source[t] = Round(t) PROVE first[t] = 0
    BY <2>1, <2>2, Numbers
  <2>3. ASSUME wait_for_next_iter'[t], first[t] \in 1 .. Round(t)
        PROVE  \E d \in Wanted(t) : res[d] > Round(t)
    <3>1. res[c] > Round(t)
      BY <1>4, <1>5, <2>1, <2>3, Numbers
    <3> QED
      BY <1>2, <3>1
  <2>4. ASSUME ~wait_for_next_iter'[t], first[t] \in 1 .. Round(t)
        PROVE  /\ source[t] >= Round(t)
               /\ source[t] = Round(t) => ~Completable(t)'
    BY <1>1, <1>2, <1>11, <2>4 DEF GapThread, GapLoss
  <2> QED
    BY <1>1, <1>3, <1>12, <2>2, <2>3, <2>4 DEF GapLoss, faultAux
<1> QED
  BY <1>3, <1>14, <1>15, <1>16, <1>17, <1>18, <1>19 DEF GapThread

-----------------------------------------------------------------------------
(* A thread between two rounds.                                            *)

\* A thread that wakes is a round on, and so behind its stream by one less.
LEMMA WakeGap ==
  ASSUME Matched, AnyInv, GapCore, NEW t \in Bound, Wake(t), UNCHANGED faultAux
  PROVE  GapCore'
<1>1. /\ wait_for_next_iter[t] /\ pc[t] = "poll" /\ GapThread(t)
      /\ local_iter_num'[t] = local_iter_num[t] + 1
      /\ ~wait_for_next_iter'[t]
      /\ pc'[t] = IF t = 0 THEN "fill" ELSE "spin"
      /\ UNCHANGED <<source, left, head, reg, UPDATER, UPDATER_FLAG, copy_num,
                     iter_num, res, upc>>
  BY DEF Wake, GapCore, AnyInv, FaultTypeOK, TypeOK, stream
<1>2. Stale(t) /\ ~Full(t)
  BY <1>1 DEF Wake, GapThread, GapWaiting, Full
<1>3. upc \notin {"clear", "bump"}
  BY <1>2 DEF GapCore, UpdaterInv
<1>4. /\ local_iter_num'[t] = iter_num
      /\ Resetting(t)' /\ ~Stale(t)' /\ ~Full(t)' /\ ~InHand(t)'
      /\ Got(t)' = {}
  BY <1>1, <1>2 DEF Stale, Full, Resetting, InHand, Got
<1>5. /\ Wanted(t)' = Wanted(t) /\ Round(t)' = Round(t) + 1
      /\ Wanted(t) = Share(Round(t) + 1, t)
      /\ Share(source[t], t)' = Share(source[t], t)
      /\ Wanted(t) # {}
  <2>1. Wanted(t)' = Wanted(t) /\ Share(source[t], t)' = Share(source[t], t)
    BY <1>1 DEF Wanted, Share, faultAux
  <2>2. Round(t)' = base[t] + (local_iter_num[t] + 1)
    BY <1>1 DEF Round, faultAux
  <2>3. base[t] + iter_num = Round(t) + 1
    BY <1>2, Numbers DEF Stale
  <2> QED
    BY <2>1, <2>2, <2>3, Numbers, WantedFacts DEF Wanted, GapCore
<1>6. /\ Cleared' <=> Cleared
      /\ \A u \in Bound \ {t} :
           /\ pc'[u] = pc[u] /\ local_iter_num'[u] = local_iter_num[u]
           /\ wait_for_next_iter'[u] = wait_for_next_iter[u]
  <2>1. \A u \in Bound \ {t} :
          /\ pc'[u] = pc[u] /\ local_iter_num'[u] = local_iter_num[u]
          /\ wait_for_next_iter'[u] = wait_for_next_iter[u]
    BY DEF Wake, AnyInv, FaultTypeOK, TypeOK
  <2>2. Cleared' <=> Cleared
    <3>1. CASE t = 0
      BY <1>1, <1>2, <3>1, Numbers DEF Cleared, Stale
    <3>2. CASE t = 1
      BY <1>1, <2>1, <3>2 DEF Cleared, Bound
    <3> QED
      BY <3>1, <3>2 DEF Bound
  <2> QED
    BY <2>1, <2>2
<1>7. /\ Round(t) <= source[t]
      /\ source[t] = Round(t) => AllPassed(t)
      /\ \/ source[t] <= Round(t) + lost[t]
         \/ source[t] = Round(t) + lost[t] + 1 /\ AllToCome(t)
  BY <1>1 DEF GapThread, GapWaiting
<1>8. ASSUME source[t] # Round(t)
      PROVE  /\ source[t] \in Round(t) + 1 .. Round(t) + 1 + lost[t]
             /\ Share(source[t], t) = Wanted(t)
             /\ source[t] = Round(t) + 1 + lost[t] => AllToCome(t)
  <2>1. source[t] > 1 /\ Round(t) + 1 # 1 /\ source[t] # 1
    BY <1>7, <1>8, Numbers
  <2>2. source[t] \in Round(t) + 1 .. Round(t) + 1 + lost[t]
    BY <1>7, <1>8, Numbers
  <2>3. source[t] = Round(t) + 1 + lost[t] => AllToCome(t)
    BY <1>7, Numbers
  <2> QED
    BY <1>5, <2>1, <2>2, <2>3 DEF Share
<1>9. /\ AllPassed(t)' <=> AllPassed(t)
      /\ AllToCome(t)' <=> AllToCome(t)
      /\ Completable(t)' <=> Wanted(t) \subseteq left[t] \cup {head[t]}
  BY <1>1, <1>4, <1>5 DEF AllPassed, AllToCome, Completable
<1>10. GapCollecting(t)'
  <2>1. Round(t)' # 1
    BY <1>5, Numbers
  <2>2. \/ source[t] + 1 = Round(t)' /\ AllPassed(t)' /\ Got(t)' = {}
        \/ source[t] \in Round(t)' .. Round(t)' + lost[t]
    BY <1>4, <1>5, <1>7, <1>8, <1>9
  <2>3. source[t] = Round(t)' + lost[t] => Completable(t)'
    <3>1. source[t] = Round(t)' + lost[t] => source[t] # Round(t)
      BY <1>5, Numbers
    <3> QED
      BY <1>5, <1>8, <1>9, <3>1 DEF AllToCome
  <2> QED
    BY <1>1, <1>4, <1>5, <2>1, <2>2, <2>3 DEF GapCollecting, faultAux
<1>11. GapWaiting(t)' /\ GapCount(t)'
  BY <1>1, <1>2, <1>4, FS_EmptySet DEF GapWaiting, GapCount, GapThread
<1>12. GapMark(t)' /\ GapRes(t)'
  <2>1. \A c \in Wanted(t) : UPDATER[c] = 1 <=> ~Cleared
    BY <1>1, <1>2 DEF GapThread, GapMark
  <2>2. GapMark(t)'
    BY <1>1, <1>4, <1>5, <1>6, <2>1 DEF GapMark
  <2>3. GapRes(t)'
    BY <1>1, <1>4 DEF GapRes
  <2> QED
    BY <2>2, <2>3
<1>13. GapLoss(t)'
  <2> SUFFICES ASSUME fault = "loss", first[t] \in 1 .. Round(t) + 1
               PROVE  /\ source[t] >= Round(t) + 1
                      /\ source[t] = Round(t) + 1 => ~Completable(t)'
    BY <1>1, <1>4, <1>5 DEF GapLoss, faultAux
  <2>1. first[t] # 0
    BY Numbers
  <2>2. source[t] # Round(t)
    BY <1>1, <2>1 DEF GapThread, GapLoss
  <2>3. source[t] >= Round(t) + 1
    BY <1>7, <2>2, Numbers
  <2>4. source[t] = Round(t) + 1 => ~AllToCome(t)
    BY <1>1, <2>1 DEF GapThread, GapLoss
  <2> QED
    BY <1>8, <1>9, <2>2, <2>3, <2>4 DEF AllToCome
<1>14. FlagInv'
  <2>1. CASE t = 0
    <3>1. ~Cleared /\ (Stale(1) \/ pc[1] = "spin")
      BY <1>2, <2>1, Numbers DEF GapCore, FlagInv, Stale, Cleared
    <3>2. (Stale(1)' <=> Stale(1)) /\ pc'[1] = pc[1]
      BY <1>1, <1>6, <2>1 DEF Stale, Bound
    <3> QED
      BY <1>1, <1>6, <3>1, <3>2 DEF GapCore, FlagInv
  <2>2. CASE t = 1
    <3>1. (Stale(0)' <=> Stale(0)) /\ pc'[0] = pc[0] /\ pc'[1] = "spin"
      BY <1>1, <1>6, <2>2 DEF Stale, Bound
    <3> QED
      BY <1>1, <1>2, <1>6, <2>2, <3>1 DEF GapCore, FlagInv
  <2> QED
    BY <2>1, <2>2 DEF Bound
<1>15. UpdaterInv'
  BY <1>1, <1>3 DEF UpdaterInv
<1>16. GapThread(t)'
  BY <1>10, <1>11, <1>12, <1>13 DEF GapThread
<1> QED
  BY <1>1, <1>6, <1>14, <1>15, <1>16, OnlyThread DEF faultAux

\* Thread 0 clears the marks of both threads before thread 1 tests one again.
LEMMA FillZeroGap ==
  ASSUME Matched, AnyInv, GapCore, NEW t \in Bound, FillZero(t),
         UNCHANGED faultAux
  PROVE  GapCore'
<1>1. /\ t = 0 /\ pc[0] = "fill" /\ pc'[0] = "flag" /\ pc'[1] = pc[1]
      /\ UPDATER' = [c \in Chunks |-> 0]
      /\ UNCHANGED <<source, left, head, wait_for_next_iter, local_iter_num, reg,
                     UPDATER_FLAG, copy_num, iter_num, res, upc>>
  BY DEF FillZero, AnyInv, ThreadOK, FaultTypeOK, TypeOK, stream, Bound
<1>2. ~wait_for_next_iter[0] /\ Resetting(0) /\ local_iter_num[0] = iter_num
  BY <1>1 DEF AnyInv, ThreadOK, Resetting, GapCore, GapThread, GapCollecting, Bound
<1>3. Stale(1) \/ pc[1] = "spin"
  BY <1>1 DEF GapCore, FlagInv
<1>4. ~Cleared /\ Cleared'
  BY <1>1, <1>2 DEF Cleared
<1>5. ASSUME NEW u \in Bound
      PROVE  /\ Wanted(u)' = Wanted(u) /\ Wanted(u) \subseteq Chunks
             /\ Round(u)' = Round(u)
             /\ Share(source[u], u)' = Share(source[u], u)
             /\ Full(u)' <=> Full(u)
             /\ Stale(u)' <=> Stale(u)
             /\ ~Full(u)
             /\ Stale(u) \/ (Resetting(u) /\ ~wait_for_next_iter[u])
             /\ Resetting(u)' <=> Resetting(u)
             /\ ~InHand(u)' /\ pc'[u] # "mark"
             /\ GapThread(u)
  <2>1. /\ Wanted(u)' = Wanted(u) /\ Round(u)' = Round(u)
        /\ Share(source[u], u)' = Share(source[u], u)
        /\ Full(u)' <=> Full(u)
        /\ Stale(u)' <=> Stale(u)
    BY <1>1 DEF Wanted, Round, Share, Full, Stale, faultAux
  <2>2. CASE u = 0
    <3>1. ~Full(u) /\ (Resetting(u)' <=> Resetting(u)) /\ ~InHand(u)' /\ pc'[u] # "mark"
      BY <1>1, <1>2, <2>2 DEF Full, Resetting, InHand
    <3> QED
      BY <1>2, <2>1, <2>2, <3>1, WantedFacts DEF GapCore
  <2>3. CASE u = 1
    <3>1. Resetting(u)' <=> Resetting(u)
      BY <1>1, <2>3 DEF Resetting
    <3>2. CASE Stale(1)
      <4>1. pc[1] = "poll" /\ ~Full(1)
        BY <3>2, Numbers DEF Stale, Full, AnyInv, ThreadOK, Bound
      <4> QED
        BY <1>1, <2>1, <2>3, <3>1, <3>2, <4>1, WantedFacts DEF GapCore, InHand
    <3>3. CASE pc[1] = "spin"
      <4>1. Resetting(1) /\ ~wait_for_next_iter[1] /\ ~Full(1)
        BY <3>3 DEF Resetting, AnyInv, ThreadOK, Bound, Full
      <4> QED
        BY <1>1, <2>1, <2>3, <3>1, <3>3, <4>1, WantedFacts DEF GapCore, InHand
    <3> QED
      BY <1>3, <3>2, <3>3
  <2> QED
    BY <2>2, <2>3 DEF Bound
<1>6. ASSUME NEW u \in Bound PROVE GapThread(u)'
  <2>1. ~wait_for_next_iter[u] => Got(u) = {} /\ Got(u)' = {}
    BY <1>5 DEF Got, Stale
  <2>2. /\ AllPassed(u)' <=> AllPassed(u)
        /\ AllToCome(u)' <=> AllToCome(u)
        /\ ~wait_for_next_iter[u] => (Completable(u)' <=> Completable(u))
    BY <1>1, <1>5, <2>1 DEF AllPassed, AllToCome, Completable
  <2>3. GapWaiting(u)' /\ GapCount(u)'
    <3>1. pc'[u] = "store" <=> FALSE
      BY <1>5 DEF InHand
    <3>2. GapWaiting(u)'
      BY <1>1, <1>5, <2>2 DEF GapThread, GapWaiting, faultAux
    <3>3. GapCount(u)'
      BY <1>1, <1>5, <2>1, <3>1 DEF GapThread, GapCount
    <3> QED
      BY <3>2, <3>3
  <2>4. GapCollecting(u)'
    BY <1>1, <1>5, <2>1, <2>2 DEF GapThread, GapCollecting, faultAux
  <2>5. GapMark(u)' /\ GapRes(u)'
    <3>1. GapMark(u)'
      BY <1>1, <1>4, <1>5 DEF GapMark, Full
    <3>2. GapRes(u)'
      BY <1>1, <1>5, <2>1 DEF GapThread, GapRes, InHand
    <3> QED
      BY <3>1, <3>2
  <2>6. GapLoss(u)'
    BY <1>1, <1>5, <2>2 DEF GapThread, GapLoss, faultAux
  <2> QED
    BY <2>3, <2>4, <2>5, <2>6 DEF GapThread
<1>7. FlagInv' /\ UpdaterInv'
  BY <1>1, <1>3, <1>4, <1>5 DEF GapCore, FlagInv, UpdaterInv, Bound
<1> QED
  BY <1>6, <1>7 DEF GapCore, OneBase, faultAux

\* Past its part of the hand-shake a thread finds no mark on its chunks.
LEMMA ResetDoneGap ==
  ASSUME Matched, AnyInv, GapCore, NEW t \in Bound,
         RaiseFlag(t) \/ SpinDone(t), UNCHANGED faultAux
  PROVE  GapCore'
<1>1. /\ pc[t] \in {"flag", "spin"} /\ pc'[t] = "poll" /\ GapThread(t)
      /\ pc[t] = "flag" => t = 0 /\ UPDATER_FLAG' = 1
      /\ pc[t] = "spin" => t = 1 /\ UPDATER_FLAG = 1 /\ UPDATER_FLAG' = 2
      /\ \A u \in Bound \ {t} : pc'[u] = pc[u]
      /\ UNCHANGED <<source, left, head, wait_for_next_iter, local_iter_num, reg,
                     UPDATER, copy_num, iter_num, res, upc>>
  BY DEF RaiseFlag, SpinDone, FlagUp, FlagLowered, AnyInv, ThreadOK,
     FaultTypeOK, TypeOK, stream, Bound, GapCore
<1>2. ~wait_for_next_iter[t] /\ Resetting(t) /\ local_iter_num[t] = iter_num
  BY <1>1 DEF AnyInv, ThreadOK, Resetting, GapThread, GapCollecting
<1>3. Cleared /\ (t = 1 => pc[0] # "flag")
  BY <1>1, <1>2 DEF GapCore, FlagInv, Cleared
<1>4. /\ Cleared' <=> Cleared
      /\ \A u \in Bound : (Stale(u)' <=> Stale(u)) /\ (Full(u)' <=> Full(u))
  BY <1>1 DEF Cleared, Stale, Full, Bound
<1>5. /\ Wanted(t)' = Wanted(t) /\ Round(t)' = Round(t)
      /\ Share(source[t], t)' = Share(source[t], t)
      /\ ~Full(t) /\ ~Stale(t)
      /\ ~Resetting(t)' /\ ~InHand(t)'
  BY <1>1, <1>2 DEF Wanted, Round, Share, Full, Stale, Resetting, InHand, faultAux
<1>6. Got(t) = {} /\ Got(t)' = {}
  <2>1. \A c \in Wanted(t) : UPDATER[c] # 1
    BY <1>1, <1>2, <1>3 DEF GapThread, GapMark
  <2> QED
    BY <1>1, <1>2, <1>5, <2>1 DEF Got
<1>7. (Completable(t)' <=> Completable(t)) /\ (AllPassed(t)' <=> AllPassed(t))
  BY <1>1, <1>5, <1>6 DEF Completable, AllPassed
<1>8. GapCollecting(t)' /\ GapWaiting(t)' /\ GapCount(t)'
  BY <1>1, <1>2, <1>5, <1>6, <1>7
  DEF GapThread, GapCollecting, GapWaiting, GapCount, faultAux
<1>9. GapMark(t)' /\ GapRes(t)' /\ GapLoss(t)'
  BY <1>1, <1>2, <1>4, <1>5, <1>6, <1>7
  DEF GapThread, GapMark, GapRes, GapLoss, InHand, faultAux
<1>10. FlagInv'
  <2>1. CASE pc[t] = "flag"
    <3>1. Stale(1) \/ pc[1] = "spin"
      BY <1>1, <2>1 DEF GapCore, FlagInv
    <3> QED
      BY <1>1, <1>3, <1>4, <2>1, <3>1 DEF FlagInv, Bound
  <2>2. CASE pc[t] = "spin"
    <3>1. ~Stale(0) /\ pc[0] \notin {"fill", "flag"}
      BY <1>1, <1>3, <2>2, Numbers DEF Cleared, Stale
    <3> QED
      BY <1>1, <1>3, <1>4, <1>5, <2>2, <3>1 DEF FlagInv, Bound
  <2> QED
    BY <1>1, <2>1, <2>2
<1>11. UpdaterInv'
  BY <1>1, <1>4 DEF GapCore, UpdaterInv
<1> QED
  BY <1>1, <1>4, <1>8, <1>9, <1>10, <1>11, OnlyThread DEF GapThread, faultAux

-----------------------------------------------------------------------------
(* The updater, and what starts anew.                                      *)

LEMMA GapReady ==
  ASSUME Matched, AnyInv, GapCore, Ready, upc = "poll"
  PROVE  \A t \in Bound : Full(t)
<1>1. Limit \in Nat /\ Limit > 0 /\ CHUNK_NUMS = 2 * Limit
  BY LimitFacts DEF Matched
<1>2. ASSUME NEW t \in Bound
      PROVE  copy_num[t] <= Limit /\ (~Full(t) => copy_num[t] < Limit)
  <2>1. CASE ~wait_for_next_iter[t]
    <3>1. /\ copy_num[t] = Cardinality(Got(t))
          /\ Got(t) \subseteq Wanted(t) /\ Got(t) # Wanted(t)
      BY <2>1 DEF GapCore, GapThread, GapCount, GapCollecting, Got
    <3>2. IsFiniteSet(Wanted(t)) /\ Cardinality(Wanted(t)) = Limit
      BY WantedFacts DEF GapCore
    <3>3. Cardinality(Got(t)) <= Limit /\ Cardinality(Got(t)) # Limit
          /\ Cardinality(Got(t)) \in Nat
      BY <3>1, <3>2, FS_Subset, FS_CardinalityType
    <3> QED
      BY <1>1, <3>1, <3>3
  <2>2. CASE wait_for_next_iter[t]
    BY <1>1, <2>2 DEF GapCore, GapThread, GapCount
  <2> QED
    BY <2>1, <2>2
<1>3. copy_num[0] + copy_num[1] >= 2 * Limit
  BY <1>1 DEF Ready
<1>4. copy_num[0] \in Nat /\ copy_num[1] \in Nat
  BY DEF AnyInv, FaultTypeOK, TypeOK, Bound
<1> QED
  BY <1>1, <1>2, <1>3, <1>4 DEF Bound

\* The updater moves, and is not in the middle of a hand-over.
LEMMA UpcGap ==
  ASSUME AnyInv, GapCore,
         UNCHANGED <<stream, thread, UPDATER, UPDATER_FLAG, copy_num, iter_num,
                     res, fault, base, lost, first>>,
         upc # "bump", upc' # "bump",
         upc' = "clear" => \A t \in Bound : Full(t)
  PROVE  GapCore'
<1> USE DEF stream, thread
<1>1. /\ Cleared' <=> Cleared
      /\ \A t \in Bound : (Full(t)' <=> Full(t)) /\ (Stale(t)' <=> Stale(t))
  BY DEF Cleared, Full, Stale
<1>2. ASSUME NEW u \in Bound PROVE GapThread(u)'
  BY <1>1, GapFrame
<1>3. FlagInv'
  BY <1>1 DEF GapCore, FlagInv, Bound
<1>4. UpdaterInv'
  BY <1>1 DEF GapCore, UpdaterInv
<1> QED
  BY <1>2, <1>3, <1>4 DEF GapCore, OneBase

LEMMA ClearCountsGap ==
  ASSUME Matched, AnyInv, GapCore, ClearCounts, UNCHANGED faultAux
  PROVE  GapCore'
<1> USE DEF stream, thread, faultAux
<1>1. /\ upc = "clear" /\ upc' = "bump" /\ \A t \in Bound : copy_num'[t] = 0
      /\ UNCHANGED <<stream, thread, UPDATER, UPDATER_FLAG, iter_num, res>>
  BY DEF ClearCounts, ClearedCounts
<1>2. /\ Cleared' <=> Cleared
      /\ \A t \in Bound : /\ Full(t) /\ Full(t)' /\ wait_for_next_iter[t]
                          /\ pc[t] = "poll"
                          /\ Stale(t)' <=> Stale(t)
  BY <1>1 DEF Cleared, Full, Stale, GapCore, UpdaterInv, AnyInv, ThreadOK
<1>3. ASSUME NEW u \in Bound PROVE GapThread(u)'
  <2>1. /\ Wanted(u)' = Wanted(u) /\ Round(u)' = Round(u)
        /\ AllPassed(u)' <=> AllPassed(u)
        /\ AllToCome(u)' <=> AllToCome(u)
        /\ Resetting(u)' <=> Resetting(u)
        /\ GapThread(u)
    BY <1>1 DEF Wanted, Round, Share, AllPassed, AllToCome, Resetting, GapCore
  <2>2. GapWaiting(u)' /\ GapCollecting(u)' /\ GapCount(u)'
    BY <1>1, <1>2, <2>1 DEF GapThread, GapWaiting, GapCollecting, GapCount
  <2>3. GapMark(u)' /\ GapRes(u)' /\ GapLoss(u)'
    BY <1>1, <1>2, <2>1 DEF GapThread, GapMark, GapRes, GapLoss, InHand
  <2> QED
    BY <2>2, <2>3 DEF GapThread
<1>4. FlagInv'
  BY <1>1, <1>2 DEF GapCore, FlagInv, Bound
<1>5. UpdaterInv'
  BY <1>2 DEF UpdaterInv
<1> QED
  BY <1>3, <1>4, <1>5 DEF GapCore, OneBase

\* Both threads are to wake up, and all marks are of the round handed over,
\* whichever thread they are for in the next one.
LEMMA BumpIterGap ==
  ASSUME Matched, AnyInv, GapCore, BumpIter, UNCHANGED faultAux
  PROVE  GapCore'
<1> USE DEF stream, thread, faultAux
<1>1. /\ upc = "bump" /\ upc' = "use" /\ iter_num' = iter_num + 1
      /\ UNCHANGED <<stream, thread, UPDATER, UPDATER_FLAG, copy_num, res>>
  BY DEF BumpIter
<1>2. \A t \in Bound : Full(t) /\ wait_for_next_iter[t] /\ pc[t] = "poll"
  BY <1>1 DEF Full, GapCore, UpdaterInv, AnyInv, ThreadOK
<1>3. \A c \in Chunks : UPDATER[c] = 1
  <2> SUFFICES ASSUME NEW c \in Chunks PROVE UPDATER[c] = 1
    OBVIOUS
  <2>1. PICK t \in Bound : c \in Wanted(t)
    BY WantedFacts DEF GapCore, Bound
  <2> QED
    BY <1>2, <2>1 DEF GapCore, GapThread, GapMark
<1>4. \A t \in Bound : Wanted(t)' \subseteq Chunks
  BY <1>1, ShareTypes DEF Wanted, Share
<1>5. /\ ~Cleared'
      /\ \A t \in Bound : /\ Stale(t)' /\ ~Stale(t) /\ ~Full(t)' /\ ~InHand(t)'
  BY <1>1, <1>2, Numbers DEF Cleared, Stale, Full, InHand, Bound
<1>6. ASSUME NEW u \in Bound PROVE GapThread(u)'
  <2>1. /\ Round(u)' = Round(u)
        /\ AllPassed(u)' <=> AllPassed(u)
        /\ AllToCome(u)' <=> AllToCome(u)
        /\ GapThread(u)
    BY <1>1 DEF Round, Share, AllPassed, AllToCome, GapCore
  <2>2. GapWaiting(u)' /\ GapCollecting(u)' /\ GapCount(u)'
    BY <1>1, <1>2, <1>5, <2>1 DEF GapThread, GapWaiting, GapCollecting, GapCount
  <2>3. GapMark(u)'
    BY <1>1, <1>2, <1>3, <1>4, <1>5 DEF GapMark
  <2>4. GapRes(u)' /\ GapLoss(u)'
    BY <1>1, <1>2, <1>5, <2>1 DEF GapThread, GapRes, GapLoss
  <2> QED
    BY <2>2, <2>3, <2>4 DEF GapThread
<1>7. FlagInv' /\ UpdaterInv'
  <2>1. UPDATER_FLAG # 1
    BY <1>2, <1>5 DEF GapCore, FlagInv, Bound
  <2> QED
    BY <1>1, <1>5, <2>1 DEF FlagInv, UpdaterInv, Bound
<1> QED
  BY <1>6, <1>7 DEF GapCore, OneBase

LEMMA UpdaterGap ==
  ASSUME Matched, AnyInv, GapCore, Updater, UNCHANGED faultAux
  PROVE  GapCore'
<1>1. CASE PollReady
  <2>1. \A t \in Bound : Full(t)
    BY <1>1, GapReady DEF PollReady
  <2> QED
    BY <1>1, <2>1, UpcGap DEF PollReady, faultAux
<1>2. CASE OptimizerDone
  BY <1>2, UpcGap DEF OptimizerDone, faultAux
<1> QED
  BY <1>1, <1>2, ClearCountsGap, BumpIterGap DEF Updater

LEMMA UpdaterRestartGap ==
  ASSUME AnyInv, GapCore, UpdaterRestart, Orderly'
  PROVE  GapCore'
BY UpcGap DEF UpdaterRestart, Orderly

\* A start that meets no mark and no hand-over is one like the first, at a
\* later iteration of the streams.
LEMMA ZeroGap ==
  ASSUME Matched, AnyInv, ZeroResult, Orderly'
  PROVE  GapCore'
<1> USE DEF stream, thread
<1>1. /\ upc \notin {"clear", "bump"} /\ \A c \in Chunks : UPDATER[c] = 0
      /\ fault = "extractor" /\ fault' = fault /\ UPDATER_FLAG = 0
      /\ iter_num' = 0 /\ \A t \in Bound : copy_num'[t] = 0
      /\ UNCHANGED <<stream, thread, UPDATER, UPDATER_FLAG, upc>>
  BY DEF ZeroResult, Zeroed, Orderly, AnyInv, StartInv, FaultTypeOK, TypeOK
<1>2. \A t \in Bound : /\ pc[t] \in {"poll", "mark"}
                       /\ ~wait_for_next_iter[t] /\ local_iter_num[t] = 0
  BY <1>1 DEF ZeroResult, AnyInv, StartInv, Bound
<1>3. /\ Cleared'
      /\ \A t \in Bound :
           /\ base'[t] = source[t] /\ source'[t] = source[t]
           /\ lost'[t] = lost[t] + 1
           /\ first'[t] = IF first[t] = 0 THEN source[t] ELSE first[t]
           /\ ~Full(t)' /\ ~Stale(t)' /\ ~Resetting(t)' /\ ~InHand(t)'
  BY <1>1, <1>2 DEF ZeroResult, Gap, Cleared, Full, Stale, Resetting, InHand, Bound
<1>4. \A t \in Bound : source[t] > 1
  <2> SUFFICES ASSUME NEW t \in Bound, source[t] = 1 PROVE FALSE
    BY Numbers
  <2>1. first[t] = 0 \/ first[t] = 1
    BY Numbers
  <2> QED
    BY <1>3, <2>1 DEF Orderly
<1>5. ASSUME NEW t \in Bound PROVE GapThread(t)'
  <2>1. /\ Round(t)' = source[t] /\ Wanted(t)' = Share(source[t], t)
        /\ Wanted(t)' # {}
    <3>1. source[t] + 0 = source[t]
      BY Numbers
    <3> QED
      BY <1>1, <1>2, <1>3, <3>1, ShareFacts DEF Round, Wanted, Share
  <2>2. Wanted(t)' \subseteq Chunks
    BY <2>1, ShareTypes
  <2>3. Got(t)' = {}
    BY <1>1, <2>2 DEF Got
  <2>4. /\ source[t] \in source[t] .. source[t] + (lost[t] + 1)
        /\ source[t] # source[t] + (lost[t] + 1)
    BY Numbers
  <2>5. GapWaiting(t)' /\ GapLoss(t)'
    BY <1>1, <1>2 DEF GapWaiting, GapLoss
  <2>6. GapCollecting(t)'
    BY <1>1, <1>2, <1>3, <1>4, <2>1, <2>3, <2>4 DEF GapCollecting
  <2>7. GapCount(t)' /\ GapRes(t)'
    BY <1>1, <1>2, <1>3, <2>3, FS_EmptySet DEF GapCount, GapRes
  <2>8. GapMark(t)'
    <3>1. pc[t] = "mark" => head[t] \in Chunks
      BY DEF AnyInv, ThreadOK
    <3> QED
      BY <1>1, <1>3, <3>1 DEF GapMark
  <2> QED
    BY <2>5, <2>6, <2>7, <2>8 DEF GapThread
<1>6. FlagInv' /\ UpdaterInv'
  <2>1. pc'[0] = "poll" /\ pc'[1] # "spin" /\ UPDATER_FLAG' # 1
    BY <1>1, <1>2 DEF ZeroResult, AnyInv, StartInv, Bound
  <2> QED
    BY <1>1, <1>3, <2>1 DEF FlagInv, UpdaterInv, Bound
<1>7. OneBase'
  BY <1>3, <1>4 DEF OneBase
<1> QED
  BY <1>5, <1>6, <1>7 DEF GapCore

LEMMA GapInit ==
  ASSUME Matched, FaultInit
  PROVE  GapInv
<1>1. AnyInv
  BY AnyInit
<1>2. ASSUME NEW t \in Bound PROVE GapThread(t)
  <2>1. /\ Round(t) = 1 /\ Wanted(t) = OwnFirst[t] /\ Wanted(t) # {}
        /\ Wanted(t) \subseteq Chunks
    BY ShareFacts DEF FaultInit, Init, Round, Wanted, Share
  <2>2. Got(t) = {}
    BY <2>1 DEF FaultInit, Init, Got
  <2>3. GapWaiting(t) /\ GapLoss(t)
    BY <2>1 DEF FaultInit, Init, GapWaiting, GapLoss
  <2>4. GapCollecting(t)
    <3>1. /\ source[t] = 1 /\ lost[t] = 0 /\ left[t] = OwnFirst[t]
          /\ local_iter_num[t] = 0 /\ iter_num = 0
      BY DEF FaultInit, Init
    <3> QED
      BY <2>1, <2>2, <3>1 DEF GapCollecting, Completable
  <2>5. GapCount(t) /\ GapRes(t) /\ GapMark(t)
    BY <2>2, FS_EmptySet DEF FaultInit, Init, GapCount, GapRes, GapMark, Full,
       Stale, Resetting, InHand
  <2> QED
    BY <2>3, <2>4, <2>5 DEF GapThread
<1>3. OneBase /\ FlagInv /\ UpdaterInv
  BY DEF FaultInit, Init, OneBase, FlagInv, UpdaterInv, Stale, Bound
<1> QED
  BY <1>1, <1>2, <1>3 DEF GapInv, GapCore

LEMMA GapStutter ==
  ASSUME AnyInv, GapCore, UNCHANGED faultVars
  PROVE  GapCore'
<1> USE DEF faultVars, faultAux, vars
<1>1. /\ Cleared' <=> Cleared
      /\ \A t \in Bound : (Full(t)' <=> Full(t)) /\ (Stale(t)' <=> Stale(t))
  BY DEF Cleared, Full, Stale
<1>2. ASSUME NEW u \in Bound PROVE GapThread(u)'
  BY <1>1, GapFrame
<1>3. FlagInv'
  BY <1>1 DEF GapCore, FlagInv, Bound
<1>4. UpdaterInv'
  BY <1>1 DEF GapCore, UpdaterInv
<1> QED
  BY <1>2, <1>3, <1>4 DEF GapCore, OneBase

LEMMA GapNext ==
  ASSUME Matched, GapInv, [FaultNext]_faultVars
  PROVE  GapInv'
<1>1. AnyInv /\ AnyInv'
  BY AnyNext DEF GapInv
<1>2. ASSUME Orderly' PROVE GapCore'
  <2>1. CASE ZeroResult
    BY <1>1, <1>2, <2>1, ZeroGap
  <2>2. ~ExtractorRestart
    BY <1>2 DEF ExtractorRestart, Orderly
  <2>3. CASE ~ZeroResult
    <3>1. Orderly
      <4>1. CASE UNCHANGED faultAux
        BY <1>2, <4>1 DEF Orderly, faultAux
      <4>2. CASE UpdaterRestart
        BY <1>2, <4>2 DEF UpdaterRestart, Orderly
      <4>3. ASSUME NEW t \in Bound, Lose(t) PROVE Orderly
        <5>1. \A u \in Bound : first[u] # 0 => first'[u] = first[u]
          BY <4>3 DEF Lose, Gap
        <5> QED
          BY <1>2, <4>3, <5>1 DEF Lose, Orderly
      <4> QED
        BY <2>2, <2>3, <4>1, <4>2, <4>3 DEF FaultNext, Undisturbed, faultVars
    <3>2. GapCore
      BY <3>1 DEF GapInv
    <3>3. CASE UNCHANGED faultVars
      BY <1>1, <3>2, <3>3, GapStutter
    <3>4. CASE Updater /\ UNCHANGED faultAux
      BY <1>1, <3>2, <3>4, UpdaterGap
    <3>5. ASSUME NEW t \in Bound, Source(t), UNCHANGED faultAux PROVE GapCore'
      BY <1>1, <3>1, <3>2, <3>5, PublishGap, NextSourceGap DEF Source
    <3>6. ASSUME NEW t \in Bound, Undisturbed(t) PROVE GapCore'
      BY <1>1, <3>1, <3>2, <3>6, SkipInvalidGap, TestGap, HandGap,
         StoreCountGap, WakeGap, FillZeroGap, ResetDoneGap
      DEF Undisturbed, Step
    <3>7. ASSUME NEW t \in Bound, Lose(t) PROVE GapCore'
      BY <1>1, <3>2, <3>7, LoseGap
    <3>8. CASE UpdaterRestart
      BY <1>1, <1>2, <3>2, <3>8, UpdaterRestartGap
    <3> QED
      BY <2>2, <2>3, <3>3, <3>4, <3>5, <3>6, <3>7, <3>8 DEF FaultNext
  <2> QED
    BY <2>1, <2>3
<1> QED
  BY <1>1, <1>2 DEF GapInv

-----------------------------------------------------------------------------
(* The results about gaps.                                                 *)

\* The inductive invariant: any number of losses, of restarts of the updater,
\* and of restarts of the extractor that meet no mark and no hand-over.
THEOREM GapInvariant == Matched => (FaultSpec => []GapInv)
<1> SUFFICES ASSUME Matched PROVE FaultSpec => []GapInv
  OBVIOUS
<1> QED
  BY GapInit, GapNext, PTL DEF FaultSpec

LEMMA HandedOver ==
  ASSUME GapInv, Orderly, upc \in {"clear", "bump"}, NEW t \in Bound
  PROVE  Full(t) /\ GapThread(t) /\ Round(t) = Nominal(t)
BY DEF GapInv, GapCore, UpdaterInv, Full, Round, Nominal

\* A gradient that is handed over has no data older than its iteration, and
\* none newer by more iterations than the stream has gaps.
THEOREM NothingIsOlder == Matched => (FaultSpec => []NothingOlder)
<1> SUFFICES ASSUME Matched PROVE FaultSpec => []NothingOlder
  OBVIOUS
<1>1. GapInv => NothingOlder
  <2> SUFFICES ASSUME GapInv, upc \in {"clear", "bump"}, Orderly,
                      NEW t \in Bound, NEW c \in Wanted(t)
               PROVE  res[c] \in Nominal(t) .. Nominal(t) + lost[t]
    BY DEF NothingOlder
  <2> QED
    BY HandedOver DEF GapThread, GapRes
<1> QED
  BY <1>1, GapInvariant, PTL

\* Skipping duplicates costs a thread at most one iteration for each gap.
THEOREM LagIsBounded == Matched => (FaultSpec => []LagBounded)
<1> SUFFICES ASSUME Matched PROVE FaultSpec => []LagBounded
  OBVIOUS
<1>1. GapInv => LagBounded
  <2> SUFFICES ASSUME GapInv, Orderly, NEW t \in Bound, Reading(t)
               PROVE  source[t] <= base[t] + local_iter_num[t] + lost[t]
    BY DEF LagBounded
  <2>1. AnyInv /\ GapCollecting(t) /\ ~wait_for_next_iter[t]
    BY DEF GapInv, GapCore, GapThread, Reading
  <2>2. source[t] <= Round(t) + lost[t]
    BY <2>1, Numbers DEF GapCollecting
  <2> QED
    BY <2>2 DEF Round
<1> QED
  BY <1>1, GapInvariant, PTL

\* From the first loss on every gradient that is handed over has data of a
\* later iteration: nothing brings the thread back to where it was.
THEOREM LossLasts == Matched => (FaultSpec => []LossIsLasting)
<1> SUFFICES ASSUME Matched PROVE FaultSpec => []LossIsLasting
  OBVIOUS
<1>1. GapInv => LossIsLasting
  <2> SUFFICES ASSUME GapInv, fault = "loss", upc \in {"clear", "bump"}, Orderly,
                      NEW t \in Bound, first[t] \in 1 .. Nominal(t)
               PROVE  \E c \in Wanted(t) : res[c] > Nominal(t)
    BY DEF LossIsLasting
  <2> QED
    BY HandedOver DEF GapThread, GapLoss
<1> QED
  BY <1>1, GapInvariant, PTL
=============================================================================
