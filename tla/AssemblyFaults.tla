--------------------------- MODULE AssemblyFaults ---------------------------
(***************************************************************************)
(* GradientAssembly under one of the faults a checkpoint node has to live  *)
(* with.                                                                   *)
(*   loss       The switch mirrors at line rate and nothing on the node    *)
(*              can ask for a packet again: a lost chunk is never          *)
(*              published, and nobody tells the extractor.                 *)
(*   updater    The updater is started again: its new process attaches to  *)
(*              the result memory and polls.                               *)
(*   extractor  The extractor is started again: its threads begin anew,    *)
(*              and thread 0 zeroes the result memory, header included,    *)
(*              while thread 1 is already at work on a ring that is full.  *)
(* The module says what a gradient can then consist of, and which faults   *)
(* stop the delivery for good.                                             *)
(***************************************************************************)
EXTENDS GradientAssembly

CONSTANTS
  Faults,       \* the faults considered
  MaxLoss,      \* bound: chunks a stream loses
  MaxRestart    \* bound: restarts of a process

ASSUME FaultAssumption ==
  /\ Faults \subseteq {"loss", "updater", "extractor"}
  /\ MaxLoss \in Nat /\ MaxRestart \in Nat

VARIABLES
  fault,        \* the fault that may happen
  restarts,     \* restarts so far
  starting,     \* thread 0 of a restarted extractor has not zeroed res yet
  spoilt,       \* a restart met a hand-over, or the zeroing a mark
  base,         \* base[t]: iteration stream t carried when counting began
  lost,         \* lost[t]: gaps in what the thread has got since then
  first         \* first[t]: the iteration of the first gap, 0 for none

faultAux == <<fault, restarts, starting, spoilt, base, lost, first>>
faultVars == <<vars, faultAux>>

FaultTypeOK ==
  /\ TypeOK
  /\ fault \in Faults /\ restarts \in 0 .. MaxRestart
  /\ {starting, spoilt} \subseteq BOOLEAN
  /\ {base, lost, first} \subseteq [Bound -> Nat]

FaultInit ==
  /\ Init
  /\ fault \in Faults /\ restarts = 0 /\ starting = FALSE /\ spoilt = FALSE
  /\ base = [t \in Bound |-> 1]
  /\ lost = [t \in Bound |-> 0] /\ first = [t \in Bound |-> 0]

\* Stream t has a gap in the iteration it carries.
Gap(T) ==
  /\ lost' = [t \in Bound |-> IF t \in T THEN lost[t] + 1 ELSE lost[t]]
  /\ first' = [t \in Bound |-> IF t \in T /\ first[t] = 0 THEN source[t]
                               ELSE first[t]]

\* The mirror loses the next chunk of the stream.
Lose(t) ==
  /\ fault = "loss" /\ lost[t] < MaxLoss
  /\ head[t] = NoPacket
  /\ \E c \in left[t] :
       /\ \A b \in Before[t] : b[2] = c => b[1] \notin left[t]
       /\ left' = [left EXCEPT ![t] = @ \ {c}]
  /\ Gap({t})
  /\ UNCHANGED <<source, head, thread, UPDATER, UPDATER_FLAG, copy_num,
                 iter_num, res, upc, fault, restarts, starting, spoilt, base>>

\* All the updater had in mind is where it was.  The two counters are cleared
\* in one step: a restart between the two stores leaves one of them at the
\* limit for ever, and delivery stops as it does after both.
UpdaterRestart ==
  /\ fault = "updater" /\ restarts < MaxRestart
  /\ restarts' = restarts + 1
  /\ upc' = "poll"
  /\ spoilt' = (spoilt \/ upc = "bump")
  /\ UNCHANGED <<stream, thread, UPDATER, UPDATER_FLAG, copy_num, iter_num,
                 res, fault, starting, base, lost, first>>

\* The threads' locals and the globals of the process begin anew; the rings
\* and the result memory are as they were.
ExtractorRestart ==
  /\ fault = "extractor" /\ restarts < MaxRestart
  /\ restarts' = restarts + 1
  /\ pc' = [t \in Bound |-> "poll"]
  /\ wait_for_next_iter' = [t \in Bound |-> FALSE]
  /\ local_iter_num' = [t \in Bound |-> 0]
  /\ reg' = [t \in Bound |-> 0]
  /\ UPDATER' = [c \in Chunks |-> 0]
  /\ UPDATER_FLAG' = 0
  /\ starting' = TRUE
  /\ UNCHANGED <<stream, copy_num, iter_num, res, upc, fault, spoilt, base,
                 lost, first>>

\* Mutant: the header of the result memory is left as it was.
ZeroedDataOnly ==
  /\ res' = [c \in Chunks |-> 0]
  /\ UNCHANGED <<copy_num, iter_num>>

Zeroed ==
  /\ res' = [c \in Chunks |-> 0]
  /\ copy_num' = [t \in Bound |-> 0] /\ iter_num' = 0

\* Thread 0 zeroes the result memory, and only then enters its loop.  The
\* memset is one step, although thread 1 may be counting and copying while it
\* goes on: a run in which that matters is spoilt from here on.
ZeroResult ==
  /\ starting /\ starting' = FALSE
  /\ Zeroed
  /\ base' = source
  /\ Gap(Bound)
  /\ spoilt' = (\/ spoilt \/ upc \in {"clear", "bump"}
                \/ \E c \in Chunks : UPDATER[c] # 0)
  /\ UNCHANGED <<stream, thread, UPDATER, UPDATER_FLAG, upc, fault, restarts>>

Undisturbed(t) == (t = 0 => ~starting) /\ Step(t) /\ UNCHANGED faultAux

\* Bound: nothing is claimed of an extractor that was started among marks or
\* a hand-over, so it is not followed.
Followed == fault = "extractor" => ~spoilt

FaultNext ==
  /\ Followed
  /\ \/ (Updater \/ \E t \in Bound : Source(t)) /\ UNCHANGED faultAux
     \/ \E t \in Bound : Undisturbed(t) \/ Lose(t)
     \/ UpdaterRestart \/ ExtractorRestart \/ ZeroResult

FaultSpec == FaultInit /\ [][FaultNext]_faultVars

\* As Fairness: what is lost is lost instead of being published, and there
\* is always more traffic until training ends.
FaultFairness ==
  /\ WF_faultVars(Followed /\ Updater /\ UNCHANGED faultAux)
  /\ WF_faultVars(Followed /\ ZeroResult)
  /\ \A t \in Bound :
       /\ WF_faultVars(Followed /\ Undisturbed(t))
       /\ SF_faultVars(/\ Followed /\ (PublishChunk(t) \/ NextSource(t))
                       /\ UNCHANGED faultAux)

FaultFairSpec == FaultSpec /\ FaultFairness

-----------------------------------------------------------------------------
(* Properties.                                                             *)

\* The chunks missed in the first iteration travel on another stream later,
\* on which the thread that misses them does not listen: the properties are
\* about gaps in later iterations, and about restarts that meet no hand-over.
Orderly ==
  /\ ~starting /\ ~spoilt
  /\ \A t \in Bound : first[t] # 1

\* The chunks thread t contributes to the gradient being assembled, and the
\* iteration they should be of.
Wanted(t) == Share(base[t] + iter_num, t)
Nominal(t) == base[t] + iter_num

\* A gradient is handed over without data older than its iteration, and
\* every gap in a stream makes what it carried newer by at most one
\* iteration, although it is filled with whatever comes next
\* (main.cpp:171-181); a restart of the updater displaces no data, though one
\* after the bump ends the use of the gradient just handed over.
NothingOlder ==
  upc \in {"clear", "bump"} /\ Orderly =>
    \A t \in Bound : \A c \in Wanted(t) :
      res[c] \in Nominal(t) .. Nominal(t) + lost[t]

\* A thread never falls further behind its stream than one iteration per
\* gap: skipped duplicates cost at most the rest of an iteration.
LagBounded ==
  Orderly =>
    \A t \in Bound :
      Reading(t) => source[t] <= base[t] + local_iter_num[t] + lost[t]

\* A loss is never made good: each gradient from that iteration on mixes two
\* iterations, as the thread stays behind by what it had to wait for.
LossIsLasting ==
  fault = "loss" /\ upc \in {"clear", "bump"} /\ Orderly =>
    \A t \in Bound : first[t] \in 1 .. Nominal(t) =>
      \E c \in Wanted(t) : res[c] > Nominal(t)

\* Neither losses nor such restarts make a counter step past the limit.
LimitKept == Orderly => \A t \in Bound : copy_num[t] <= Limit

\* An updater restarted between the clearing of the counters and the step of
\* iter_num leaves the threads waiting for that step for ever: no gradient
\* is handed over again (mem_extract.cpp:121-124).
StoppedForGood == fault = "updater" /\ spoilt => upc = "poll"

\* Otherwise a fault does not stop the handing over, counted in steps of
\* iter_num: it reaches the number of iterations less those the fault cost,
\* one for each gap and those before a restart of the extractor.  That the
\* optimizer uses what is handed over is not claimed: an updater restarted
\* after the bump has lost that gradient.
Cost(t) == base[t] + lost[t] - 1

DeliveryGoesOn ==
  \A n \in 0 .. MaxIter - 1 :
    (\A t \in Bound : Cost(t) <= n)
      ~> (iter_num >= MaxIter - n \/ ~Orderly \/ \E t \in Bound : Cost(t) > n)
=============================================================================
