# FlowCheck: a formal model of the checkpoint node

FlowCheck takes checkpoints of a training job without stopping it. A switch mirrors
the all-reduce traffic of one training node, its inbound and its outbound direction,
to a CPU node. Four kinds of processes on that node turn the packets back into
gradients and apply them to a copy of the model. They run at line rate, and they are
tied together by shared memory without locks. This directory models them in TLA+,
checks the models with TLC and proves theorems about them with TLAPS.

## 1. The system

    switch --> dmafwd --> ring 0 <--> parser (inbound)  --> extractor thread 0 --\
                (in)                                                              result --> updater
    switch --> dmafwd --> ring 1 <--> parser (outbound) --> extractor thread 1 --/  memory   + optimizer
                (out)

Nothing flows back: the training job does not know the node, the dump does not look
at the indexes of the parser, the parser does not look at those of the extractor.

| Component (source) | State it keeps | Operations | What makes it hard | What makes it correct |
|---|---|---|---|---|
| Dump (`Packet_Dump/dma_dump/dmafwd.c`), one per direction | `write_index`, `already_write_index` in the ring, the tag byte `ROUND`, per device the list `bufs` with its ends `head` and `rear` | `dma_rx_port`: read completions, receive a burst, spread it over 8 DMA devices, submit, free what was not accepted | devices complete out of order; a device may be full; the ring is overwritten without a look at its readers | mbufs are freed only after their copy, accepted copies are submitted, a slot carries the tag of its lap |
| Software dump (`Packet_Dump/dpdk_dump`, `l3fwd_em_hlm.h`, `l3fwd_em.c`), in place of the other | `write_index` at offset 0 | per packet: classify, write the length, move the index, copy | the index moves before the copy; no tag | all slots behind the index but one are whole |
| Parser, ring side (`Packet_Parser/*/unpack.hpp`, `run`) | `read_index`, `round_num` | wait for a completion, wait for the tag, copy the packet, decode, write the place into the slot | the tag is the only sign that a slot was rewritten; completions are counted, not identified | each packet whole, in order, with its own length, none again that was answered |
| Parser, decoding (`decode_hex`) | counters for broadcast bytes, iteration, bucket, transfer, chunk, packet | constructor (cuts the lengths), one branch per RDMA opcode | the packets carry no position: it is computed by counting, and a lost packet is not noticed | every final payload gets its place, partial sums and broadcasts get none |
| Extractor (`Data_Extractor/main.cpp`) | `UPDATER` (chunks already taken), `UPDATER_FLAG`, per thread `wait_for_next_iter`, `local_iter_num`; `copy_num` in the result memory | per packet: skip, test, mark, copy, count; per iteration: wait, clear, hand-shake | two threads and another process on the same words, no lock, `!= 1`, `==` and `+= 1` on shared memory | a gradient is whole when it is handed over; no mark and no count of an iteration leaks into the next |
| Updater (`Cython_Updater/mem_extract.cpp`, `gpt_updater.py`) | `iter_num` in the result memory | poll the two counts, clear them, bump `iter_num`, run the optimizer on the memory in place | it looks at two counters only; the threads go on while it reads | every iteration is delivered, in order, once |
| Traffic (external) | place in the all-reduce | broadcast, buckets, transfers, chunks, packets | a mirror loses packets | - |

Further parts, not modelled: the DPDK forwarder around the software dump, the former extractors
(`main_multi.cpp`, `main_old*.cpp`, `extractor.cpp`), the Cython glue and the C++ generated from
it, `checkpoint_updater.py` (the same loop for another workload), `Workload_Gen`, `tools`, the
captures. In `dmafwd.c` the copy cores (`copy_main_loop`) wait on a ring nothing is ever put into, since
the call that would fill it is commented out.

## 2. Modules

| Module | Models | Size of the state |
|---|---|---|
| `Checkpoint` | the abstract promise to the optimizer | `iter`, `have` |
| `GradientAssembly` | extractor threads, updater, optimizer | 13 variables |
| `AssemblyFaults` | the same under lost chunks, restarts of updater and extractor | 7 more |
| `MirrorRing` | one ring: dump, DMA devices, parser, extractor cursor | 26 variables |
| `RingNode` | the same with either dump, and a parser that is restarted | 9 more |
| `Decode` | `decode_hex` of both parsers against an all-reduce | 23 variables |
| `Pipeline` | both parsers, both threads and the updater composed | 47 variables |
| `MC...` | instances for TLC | |
| `GradientAssemblyProofs`, `AssemblyFaultsProofs`, `MirrorRingProofs`, `RingNodeProofs`, `DecodeProofs`, `CoverageProofs`, `PipelineProofs` | theorems about these modules | |
| `NumberLemmas` | lemmas on `+`, `*`, `%`, least elements, induction on a set | |

`GradientAssembly` implements `Checkpoint` (`CheckpointSpec`: `iter <- iter_num`, `have <-` the
positions that hold the data of iteration `iter_num + 1`). `AssemblyFaults` and `RingNode` extend the
modules they are about with faults and alternatives.

`Pipeline` ties the parts together: two instances of `Decode` and the actions of
`GradientAssembly`, which take from a parser only the index it writes into a slot. It shows two
things `GradientAssembly` takes for granted: that what the parsers report are streams (each position of a
stream's share once per iteration, nothing else, `AssemblySpec`: `source <- carrying`,
`left <- coming`), and that these streams are `Matched`, the premise of the theorems about `GradientAssembly`.
`Own` and `OwnFirst` are constants there, so they are here, and `StreamsCut`, a conjunct of `Init`, says which
they are: all positions but those of the chunk each node keeps to itself. (A run with other streams would have
no initial state.) The slot at the head of a ring stands for the ring here; that a ring brings its packets
to decoder and extractor whole, once and in order is `MirrorRing` and `RingNode`.

### Correspondence with the code

`GradientAssembly`. `t` is `bound_flag`. Every access to a word another thread writes is a step
of its own: the test of `UPDATER` (`Test`, main.cpp:171) and the mark (`Mark`, 172) are two steps,
`*copy_num += 1` (178) is a load and a store. The two loads of the updater's poll are one step,
as between two clears the counts only grow; so are its two stores that clear the counts, because
`NoIncrementLost` shows that no thread is then in its increment in the matched job. A position of
the result memory holds the number of the iteration it was copied from, which is all the
properties tell apart. The ring is seen through its head, the slot at `extractor_read_index`:
the parser may show a chunk of the current iteration or a packet marked invalid
(`payload_index` 0). `Own` and `Before` say which chunks a stream carries, and in what order.
The matched job never meets a duplicate (`NoStaleMark`): that branch of `Test` is taken in `assembly_faults`, after a loss or
a restart, and by the four-node streams.

`MirrorRing`. A packet is its lap and slot. `lap` and `xlap` count laps for the properties and
name packets; no process reads them. `rpc` walks through one round of `dma_rx_port`: completions,
burst, batches of packets, submit, completions. A DMA device copies a packet in two parts,
`headPart` (first cache line, with the tag) and `tailPart` (opcode and payload); each device works in
order, devices are independent. `front` is `dma->head`. `TagValues` stands for the 256 values of
the byte. `RoomFor` is not code but traffic: with `KeepUp` at most `BUFFER_SIZE - 1` packets
are unread, without it anything goes. Where the parser reads a packet the code copies it in one
`memcpy`; the length is read just before, and both are one step here.

`RingNode`. The software dump (`SoftDump`) is modelled on the same memory: length and `write_index`
in one step, as no property tells them apart, then the copy in two parts. It never moves the word at offset
8 and writes no tag, so behind it the parser of this repository decodes nothing; what is checked
is what it offers to any reader of `write_index`. `Restart` keeps the shared memory and sets what the
constructor sets. `rlap` counts how often `read_index` went around, across restarts; `accepted` (the packet read and not
answered yet) and `passed` (those answered) are history for the properties. Answering a packet is
the write-back and the move of `read_index`, one step here: a restart between the two is like one before both, as the
packet is read again and answered again. The ring of the software dump is shorter than the one the parser maps
(4 GB against 50 GB); `BUFFER_SIZE` stands for either.

`AssemblyFaults`. `Lose` takes a chunk from a stream; the extractor is not told. `UpdaterRestart` sets the
updater back to its poll. `ExtractorRestart` resets the threads and the marks; `ZeroResult`, thread 0's
`memset` of the result memory with its header, comes at any time before thread 0 polls, while thread 1 is at
work. `Gap` and `base` count, for the properties, what each stream has missed and where counting began.

`Decode`. Lengths are in payloads of 1024 bytes as mirrored (128 elements), so the 8192 elements of
a chunk are `Piece` and the 8192 bytes of the cut are `Grain`; `build` holds the compile-time
numbers. `chosen` is which of the five sets of sizes is in use. The index is computed from
the counters after they are updated (`Reported`), as in the code. The traffic part (`Advance`,
`ChunkSent`, `ChunkStart`) is the ring all-reduce. How its sender cuts a last transfer is a datum of the
instance (`cut` of a build, read by `Cut` and `LastCut`), so that an error in the parser's sizes (`modal_chunk_size`) shows: the mutants
`ModalStrict` and `ModalThirdAlike` of it violate `FinalsLocated` and `IterationCovered`. Only the number of whole transfers of a bucket and
what is left for the last one are the same quotient and remainder on both sides. The traffic loses packets
with data only, and sends none twice; a broadcast is always whole and of the compiled length. `behind`
counts first packets that were lost, `upset` says that one of them ended the iteration before the second broadcast.

`Pipeline`. `truth` and `placed` carry along, for the properties, to which position of the gradient a payload
belongs, whatever index the parser gives it.

## 3. Runs

| Run | Instance | Shows |
|---|---|---|
| `assembly_matched` | two nodes, 4 chunks, 3 iterations, fair | all safety properties, both inductive invariants, refinement of `Checkpoint`, delivery of every iteration |
| `assembly_faults` | the same streams, one lost chunk each, or one restart of updater or extractor, fair | what a gradient then consists of, how far a thread lags, what stops the delivery |
| `pipeline` | a build with 16 and 64 positions, 3 iterations | every payload in its place, nothing stranded, refinement of `GradientAssembly` |
| `ring_keepup` | 3 slots, 2 devices that can be full, 2 laps, fair | order, length, delivery to the extractor unless a packet is refused |
| `ring_one_device` | 4 slots, one device that can be full or the software dump, no flow control, one restart of the parser | packets are whole when decoded and extracted, none again that was answered; mbuf accounting, submission |
| `decode` | both directions, rings of 2 and 3, 3 iterations, losses of any packets with data, of first packets one | places, coverage, what a loss damages and for how long |

Properties, by module (each is stated in words where it is defined):

- `GradientAssembly`: `DeliveredComplete`, `OptimizerOneIterationAhead`, `NoStaleMark`, `ClearIsExclusive`,
  `NoIncrementLost`, `NeverPastLimit`, `EveryIterationDelivered`, `CheckpointSpec`; the inductive invariants
  `IInv` and `LimitInv`.
- `AssemblyFaults`: `NothingOlder`, `LagBounded`, `LossIsLasting`, `LimitKept`, `StoppedForGood`, `DeliveryGoesOn`.
- `MirrorRing`: `AcceptedInOrder`, `LengthOfPacket`, `DecodedWhole`, `BufsMatchJobs`, `AllSubmitted`,
  `ExtractedUnlessRefused`, and `EveryPacketExtracted`, which two runs show violated.
- `RingNode`: `ExtractedWhole`, `NoneRepeatedOrSkipped`, `OneSlotInFlight`.
- `Decode`: `FinalsLocated`, `DamageStaysInChunk`, `ShiftedByOneChunk`, `BroadcastNotReported`,
  `IterationCovered`, `ReportedAreAwaited`.
- `Pipeline`: `GradientInPlace`, `NothingStranded`, `AssemblySpec`.

Every property of a passing run has a mutant of the code, defined next to the definition it
replaces, under which TLC finds it violated. `NoneRepeatedOrSkipped`, `FinalsLocated` and `IterationCovered` have two each.

What the runs about faults say of the code:

- A lost chunk is never made up for. Its thread fills up with the next iteration, so from
  then on every gradient mixes two iterations (`LossIsLasting`); the lag grows by at most one iteration
  per loss (`LagBounded`), never holds older data (`NothingOlder`), and delivery goes on (`DeliveryGoesOn`).
  Not so for a loss in the first iteration, in which the streams are cut at other places: the thread then waits for
  chunks that travel on the other stream, and delivery can stop. The properties exclude it (`Orderly`).
- An updater restarted between clearing the counters and bumping `iter_num` stops the delivery for good
  (`StoppedForGood`). Anywhere else the restart displaces no data in the memory and `iter_num` goes on; but one after the
  bump, during the optimizer step, ends the use of the gradient just handed over, which nobody hands over again.
  `DeliveryGoesOn` counts what is handed over, not what is used.
- A restarted extractor loses iterations but recovers, if its `memset` meets neither a hand-over
  nor a mark. Without that condition `LimitKept`, `NothingOlder` and `DeliveryGoesOn` are all violated.
- A restarted parser decodes no packet that was answered, and skips none (`NoneRepeatedOrSkipped`): it goes on where
  `read_index` stands, waits for tag 1 and so, once the first lap is over, for ever. A packet that was read when its
  predecessor ended, and not answered, is decoded again.
- After a lost first packet each chunk is taken for the one before it, through all iterations to come
  (`ShiftedByOneChunk`); after the loss of another packet the damage ends with the chunk.

### Disagreements between code and comments

Six runs each check one statement that a comment makes and that the code does not keep:

| Run | Statement | What happens |
|---|---|---|
| `assembly_overwrite` | main.cpp:231: the iteration number has moved, so the data was read | `get_data_ptr` bumps it before it returns; the threads overwrite what the optimizer reads. `OptimizerOneIterationAhead` says how far this goes |
| `assembly_overlap_incomplete` | gpt_updater.py:64: obtain the complete gradient | with four nodes both threads count one chunk twice, and the sum is full while a chunk is missing |
| `assembly_four_nodes` | mem_extract.cpp:120: wait for the next iteration; estimate_packet_loss.py:26: k chunks out of 2(k-1) | duplicates are not counted, so a thread may never reach its limit; the marks stay, and the next iteration is skipped as duplicates |
| `ring_tag_wrap` | dmafwd.c:64: ROUND tells the lap | the byte wraps, the parser's int does not: it waits for ever |
| `ring_refused` | dmafwd.c:733: packets not enqueued are copied by the CPU | they are freed; a refused one has taken a slot, where the parser waits for ever |
| `ring_torn` | unpack.hpp:745: the tag replaces the unsafe test | the tag is in the first part of the packet; the rest may be of the lap before |

The tag wraps after 255 laps of a ring of 50 GB, so this needs a long run; a refused packet
needs a device with 4096 copies waiting (the default `ring_size`); a torn packet needs one device
so far behind the others that the count of completions has passed a slot it still copies to, and
the parser to be at that slot. None of the three needs a fault.

## 4. Bounds, and why they are enough

- `MaxIter` (`assembly_*`: 3 or 2). The state of the threads relative to `iter_num` repeats after one
  iteration; three iterations contain the first one, one that starts with `UPDATER_FLAG` left
  at 2, and one after it. The proofs need no bound.
- Four chunks: two for each stream in the two-node job, so that counts of zero, some and all differ;
  in the four-node job each stream carries three, two of them on both streams.
- `MaxLoss` 1 for each stream, `MaxRestart` 1: a loss on either or both streams at any point, a restart at any point.
  The proofs are for any numbers of both; `DeliveryGoesOn` is shown for these only.
  The streams of `assembly_faults` come in ascending order, where `assembly_matched` lets them come in any.
  `Followed`: an extractor started among marks or a hand-over is not followed further, as nothing is claimed of it.
- `MaxLap` (2; 4 for the wrap): every slot is written for the first time and rewritten once. Tags
  of two laps differ from each other and from the zero of a slot never written.
- Slots, devices and bursts: 2 to 4 slots, 1 or 2 devices, bursts of 1 to 3, batches of 1 or 2. A burst can span
  the end of the ring and two batches; two devices can complete in either order; in `ring_keepup` a device
  is full with one copy, in `ring_one_device` with two, and there nothing keeps the dump from overrunning the ring.
- `TagValues` 8 with `MaxLap` 2, so that the wrap is out of reach, except in `ring_tag_wrap`, where it is 3.
- `Decode`: `RingOfTwo` is the lengths of `unpack.hpp` with the last transfers cut to an eighth
  and one full transfer where the code has hundreds; it has 25 buckets (the code 73), with the same
  alternation of three lengths and a last one. `RingOfThree` has uneven last transfers on each side of the
  conditions that tell them apart. `cut` gives the chunks of each last transfer as numbers: halves for `RingOfTwo`, and for
  `RingOfThree` one of 14 as 6 + 6 + 2, 6 as 2 + 2 + 2, 8 as 2 + 2 + 4, 10 as 2 + 2 + 6. Three iterations: the first (one bucket), the second (after the
  second broadcast) and a third. `MaxFirstLost` 1: the shift by one chunk is followed through all of them.
- `Pipeline`: `SmallBuild` is the smallest ring of two whose buckets have a whole and a last transfer and whose
  streams are equally long; three iterations, as above.
- Deadlock is not checked in the `assembly`, `pipeline` and `ring` runs: their traffic is bounded, and when it ends
  the processes poll, which changes no state. In `decode` packets the filter drops never end.

## 5. Fairness

`GradientAssembly!Fairness`: the threads and the updater are scheduled (weak fairness of each
thread's step and of the updater). They run on cores of their own and every wait is a bounded sleep in
a loop. Of the traffic strong fairness is assumed: if its next chunk or iteration can come again and again, it
comes, as a stream carries only finitely many other packets in between; strong, because a
packet of another kind in the head slot disables it meanwhile.
`AssemblyFaults!FaultFairness`: the same, and a restarted thread 0 gets its `memset` done; no fault is assumed to
happen or to end.
`MirrorRing!Fairness`: the cores poll, the devices finish what is submitted. That packets arrive is not
assumed: `ExtractedUnlessRefused` speaks of those that were received.

## 6. What is proved

### Extractor and updater

In `GradientAssemblyProofs`, for every finite set of chunks, any number of iterations, every
order on a stream:

| Theorem | Statement | Under |
|---|---|---|
| `AssemblyInvariant` | `IInv` | `Matched` |
| `AssemblyTypeCorrect` | `TypeOK` | `Matched` |
| `DeliveryIsComplete` | `DeliveredComplete` | `Matched` |
| `OptimizerAtMostOneAhead` | `OptimizerOneIterationAhead` | `Matched` |
| `MarksAreFresh` | `NoStaleMark` | `Matched` |
| `ClearingIsExclusive` | `ClearIsExclusive` | `Matched` |
| `ClearMeetsNoIncrement` | `NoIncrementLost` | `Matched` |
| `AssemblyImplementsCheckpoint` | `CheckpointSpec` | `Matched` |
| `LimitInvariant` | `LimitInv` | `RingOfTwo` |
| `LimitNeverPassed` | `NeverPastLimit` | `RingOfTwo` |

`Matched` says that each chunk travels on exactly one stream and that each stream carries as many
as its thread waits for. It is what `main.cpp` compiled with `RING_NUMS` 2 needs of its traffic, and what a
two-node job whose last transfers are cut evenly gives it: that is a lemma about what the two parsers
report (`StreamsMatch` in `PipelineProofs`). `RingOfTwo` is
only about the compile-time number and allows streams of any content.

The argument. `DeliveredComplete` is not inductive: the updater sees counts only. `IInv` ties
each count to the set of chunks a thread is done with (`Taken`, `CountInv`), each mark to
membership in that set or to the packet in hand (`MarkInv`), each position of the result to the
iteration it was copied from (`ResInv`), and `UPDATER_FLAG` to how far both threads are with their reset
(`FlagInv`). A full sum means two full counts, so two full sets, so a full result. A thread is
at most one iteration from `iter_num` (`WaitingInv`, `CollectingInv`), and thread 1 does not test a packet
before thread 0 has cleared the marks. There is a lemma per action (`...Inv`), each split
into the thread that acts and the one that does not (`Frame`). `LimitInv` is another and smaller
invariant: with a ring of two the limit is half the chunks, so a sum that reaches the total
needs both threads at the limit, hence waiting; nothing is cleared while a thread counts.

### Extractor and updater under faults

In `AssemblyFaultsProofs`, for any number of lost chunks, restarts and iterations (`MaxLoss`, `MaxRestart`
and `MaxIter` are any numbers):

| Theorem | Statement | Under |
|---|---|---|
| `AnyInvariant` | `AnyInv` | |
| `FaultTypeCorrect` | `FaultTypeOK` | |
| `LimitFaultInvariant` | `LimitFaultInv` | `RingOfTwo` |
| `LimitIsKept` | `LimitKept` | `RingOfTwo` |
| `StopIsForGood` | `StoppedForGood` | `RingOfTwo` |
| `GapInvariant` | `GapInv` | `Matched` |
| `NothingIsOlder` | `NothingOlder` | `Matched` |
| `LagIsBounded` | `LagBounded` | `Matched` |
| `LossLasts` | `LossIsLasting` | `Matched` |

The argument. `LimitFaultInv` says that `LimitInv` survives every fault but a restart in the middle of a hand-over, and
that after one of those on the updater both threads wait for a step of `iter_num` nobody will take.
`GapInv` is `IInv` without its main fact: a stream may be in an iteration after the one its thread collects for.
What a thread has is then no longer what the stream has shown of one iteration (`Taken`) but what is
marked (`Got`), and any chunk may hold data of any iteration in between (`GapRes`). A thread falls behind only when
its stream ends an iteration with chunks missing. The conjunct that makes this inductive relates the two: when the
stream is ahead by as many iterations as it has gaps, all the thread still lacks is to come in the iteration the stream
carries (`Completable`), so the thread falls no further behind unless the stream has one more gap. `GapLoss` is the
opposite fact for `LossIsLasting`: after the first gap an iteration the stream is not ahead of cannot be completed.
Both need that every iteration is divided between the streams alike, which the first one is not: hence `Orderly`, and
`OneBase` after a restart of the extractor, when both threads count from the first iteration or neither does.

### Dump, devices and parser

In `MirrorRingProofs`, for every size of the ring, of the device queues, of bursts, batches and lists of
mbufs (`ring_size <= MBUF_RING_SIZE`, as in the code), every number of devices and of laps, with and without
traffic the readers keep up with:

| Theorem | Statement | Under |
|---|---|---|
| `RingInvariant` | `RingInv` | |
| `RingTypeCorrect` | `TypeOK` | |
| `BuffersMatchJobs` | `BufsMatchJobs` | |
| `EverythingSubmitted` | `AllSubmitted` | |
| `OrderUntilTagWraps` | `AcceptedInOrder` | the tag byte has not come around |

The argument. Completed copies are matched to mbufs by position alone, so `BufsMatchJobs` needs `rear` to be `front` plus
the copies a device owes, modulo the list, and that number not to exceed the length of the list (`DeviceInv`).
A completion moves the queue and `front` by the same number, an accepted copy appends to both, a refused packet
touches neither. Copies that are not submitted belong to the batch being enqueued (`CoreInv`), which is why
one submission in the end is enough. For the order, every slot holds a packet of that slot and of no lap to come, and so
does every copy under way (`TagInv`): as long as tags of different laps differ, the one that equals `round_num` names
one packet. The condition on the wrap cannot be dropped (`ring_tag_wrap`, and after the wrap an old tag could match).
`AcceptedInOrder` does not need `KeepUp`, nor that devices complete in order; `DecodedWhole` does not hold with several
devices (`ring_torn`).

Further, when the readers keep up (`KeepUp`) and until the tag byte comes around, `LengthIsThePackets` proves
`LengthOfPacket`: what was received but not extracted is less than one lap, so a length is not overwritten before it is
read (`ReceivedInv`, `FollowInv`).

### One ring, either dump

In `RingNodeProofs`, for the same parameters, either dump, and any number of restarts of the parser:

| Theorem | Statement | Under |
|---|---|---|
| `NodeInvariant` | `NodeInv` | |
| `NodeTypeCorrect` | `NodeTypeOK` | |
| `OneInFlight` | `OneSlotInFlight` | |
| `OrderInvariant` | `OrderInv` | one device |
| `OneDeviceDecodesWhole` | `DecodedWhole` | one device |
| `DecodedInvariant` | `RoundInv`, `DecodedInv` | one device, the tag byte has not come around |
| `PassedInvariant` | `PassedInv` | one device, the tag byte has not come around |
| `NothingRepeatedOrSkipped` | `NoneRepeatedOrSkipped` | one device, the tag byte has not come around |
| `OneDeviceExtractsWhole` | `ExtractedWhole` | one device, the tag byte has not come around |

The argument. With one device the copies are owed in the order of reception (`JobOrder`), so a slot holds
nothing of a copy to come and both parts of one packet, but for the slot of the copy in hand (`CopyOrder`). What the dump
announces is a number of completions; they are the packets received first, or later ones once some were refused
(`CountInv`), and the parser is behind it (`BehindInv`). A parser inside the last lap therefore never reads the slot that
is being copied. For what the extractor sees, a slot that was decoded keeps its packet and the place written
into it for a lap (`DecodedInv`). `NoneRepeatedOrSkipped` speaks of the history of answered packets, not of the slot at hand; `PassedInv`
connects the two: what was answered, by whatever process, are exactly the packets received before the place of
`read_index` in its lap, and the packet in hand is the one at that place. A restart loses the packet in hand and keeps the
rest, so the next packet accepted is new and all before it are answered. With several devices `CountInv` is false (`ring_torn`), which is why the hypothesis is there.

### Decoding

In `DecodeProofs`, both directions, any lengths of the broadcasts, any number of iterations, and the loss of any packets with
data, for every build under two conditions: its traffic has chunks of two packets at least (`BuildAssumption`, `Transmittable`, a conjunct
of `Init`), and the constructor computes the sizes by which its sender cuts (`CutsAgree`, a premise of every
theorem, and a fact about a job and the numbers compiled for it that is checked, not proved):

| Theorem | Statement |
|---|---|
| `DecodeInvariant` | `IInv` |
| `DecodeTypeCorrect` | `TypeOK` |
| `FinalsAreLocated` | `FinalsLocated` |
| `DamageIsContained` | `DamageStaysInChunk` |
| `LossShiftsByOneChunk` | `ShiftedByOneChunk` |
| `BroadcastIsNotReported` | `BroadcastNotReported` |

The argument. Both the place in the traffic and the counters of the parser are places in the same sequence of chunks, and
`After` is the successor in it. `StepInv`: the parser is at the chunk of the next packet, or at the one before if that packet is
the first of its chunk; after the loss of one first packet it is one chunk further behind. A packet that is counted moves
both (`AdvanceStep`, `FirstStep`), one that is lost moves the traffic alone. `PacInv` does the same for the packets of a chunk,
`BroadcastInv` for the bytes of a broadcast, which must be over exactly when the data begins. That the index computed
from equal places is the position in the gradient (`IndexIsPlace`) needs the table of the constructor, filled bucket by
bucket, to agree with the start of each bucket in closed form (`WriteIndex`), by induction on the set of buckets for which
it does.

In `CoverageProofs`, for the same builds and traffic, under the same premise:

| Theorem | Statement |
|---|---|
| `GotInvariant` | `GotInv` |
| `IterationIsCovered` | `IterationCovered` |
| `ReportsAreAwaited` | `ReportedAreAwaited` |

The argument. Bucket, transfer, chunk and packet (`Tile`) are the digits of a position in a mixed base: each position has exactly
one such place (`PlaceExists`, `PlaceUnique`), because every bucket ends where the one before it starts (`BucketEnds`), and
whole transfers and a last one fill it. A node sends every chunk but one as final, each once (`SentOnce`), so what it sends is
all but the positions of that chunk (`SentIsShare`). `GotInv` says that what was reported so far is the set of places passed:
one packet on in the traffic adds just its place (`PassedStep`). Cut evenly, the chunks of a transfer are alike, and
counting is a bijection between positions and pairs of a chunk and a packet of it (`EvenShares`, `EvenSent`).

### From the packets to the gradient

In `PipelineProofs`, for every build as above, any lengths of the broadcasts and any number of
iterations, without losses (`SizesAgree` is `CutsAgree` of the build):

| Theorem | Statement | Under |
|---|---|---|
| `PipelineInvariant` | `IInv` | `SizesAgree` |
| `PipelineTypeCorrect` | `PipelineTypeOK` | `SizesAgree` |
| `PipelineImplementsAssembly` | `AssemblySpec` | `SizesAgree` |
| `GradientIsInPlace` | `GradientInPlace` | `EvenRingOfTwo` |
| `NothingIsStranded` | `NothingStranded` | `EvenRingOfTwo` |
| `PipelineImplementsCheckpoint` | `CheckpointSpec` of `GradientAssembly` | `EvenRingOfTwo` |

`EvenRingOfTwo` is about the build only: two nodes, `SizesAgree`, and chunks of one size in each last transfer. It is needed: with more
nodes the streams overlap, and both threads may take a chunk (`assembly_overlap_incomplete`).

The argument. It uses the theorems about the parts, not their text: `CoverageProofs` is instantiated once per parser
and `GradientAssemblyProofs` once. (The instances of the proofs and those of `Pipeline` give different names to the same
definitions; `InNumbers` to `InAgree`, the same for `Out`, and `AssemblyNames` to `AssemblyNext` equate them.) `InMeets` and `OutMeets`
are the new part of the invariant: what a stream has still to carry is what its parser has still to report (`ToCome`), or
nothing, while the parser stands at the start of an iteration the stream has not begun. A packet moves both by the same
position (`InData`, from `PassedStep`), so each step of a parser is `PublishChunk` or `PublishInvalid`. `PlacedInv` follows a
payload: the slot shows it under its own position (`FinalsLocatedStep`), and the thread copies it there. With two nodes each position is in one of the
two chunks of its transfer (`PlaceUnique`, `PlaceExists`), so one stream carries what the other leaves out (`SharesDivide`), and
both carry half (`SentCount`): the streams are `Matched`, and the invariant of `GradientAssembly` holds as well.

### Only model-checked

Out of the prover's reach: liveness under fairness (`EveryIterationDelivered`, `DeliveryGoesOn`,
`ExtractedUnlessRefused`). Every other property a passing run checks is a theorem as well.

## 7. What the models leave out

- Startup: the models begin after thread 0's `memset` of the result memory and the dump's of the ring, as
  the start order of the repository's README brings the traffic up last (`AssemblyFaults` has the `memset` of a restart).
- A restart of the dump: it zeroes the ring and with it the indexes of its readers, while they run. Nothing in the code
  recovers from it.
- A restarted parser behind a dump that refused a packet (`RoundsKept`), or behind several devices, where an announced
  slot may not have been copied: such a slot holds an old packet, whose tag can be the one the parser starts with.
- The software dump on several cores. Its lock is commented out; the repository starts it on one core with one queue.
- The keys of the shared memory: they are set by recompiling (both dumps share one key, the parsers and the extractor expect two), and
  the models take each ring to have its writer and its readers.
- Broadcasts of other than the compiled lengths, and broadcasts of which a packet is lost or sent twice: their end is recognised
  by `!=` on a count of bytes. In general no packet is sent twice, though a mirror passes on what a sender sends again.
- Streams that are longer or shorter than the limit of their thread because transfers are cut unevenly (`ReportedAreAwaited` is
  about `EvenChunks`), and an extractor compiled for them.
- The run of a restarted extractor whose `memset` meets a mark or a hand-over (`spoilt`): the zeroing is one step, and such a run is
  not followed. Nor is a restart of the updater between its two stores to the counters a step of its own: one counter
  would stay at the limit, and delivery stops as it does after both.
- The wait of the extractor between iterations, in `MirrorRing` and `RingNode` (main.cpp:226-266): there it always goes on, like
  `KeepUp` an assumption that what lies behind the ring keeps up. `ExtractedUnlessRefused` depends on it.
- What is decoded and extracted behind the software dump: nothing is, as it never moves the word the parser looks at, so
  `DecodedWhole`, `ExtractedWhole` and `NoneRepeatedOrSkipped` say something of the DMA dump only.
- Sizes the constructor leaves unset (buckets that fit into one transfer) and chunks of a single packet, which
  travel under opcode 10 and are dropped. For the ring of eight the parsers are compiled for, some
  lengths have a last transfer whose chunk size comes out as 0; the extractor is compiled for two. The
  compile-time numbers have to be set together for a job, and the models take them as such. So the premise `Transmittable`
  leaves out the parser as it is compiled in the repository, and no theorem about `Decode` is about that build.
- Memory ordering of the CPU beyond interleaving (the code runs on x86, loads and stores of
  one thread to different words are seen in program order except store-to-load, on which none of the
  hand-shakes depends), compiler reordering of the plain accesses.
- Two thirds of the repository's lines are the C++ Cython generates for the wrapper of `get_data_ptr`, and most of the rest of
  `dpdk_dump` is DPDK's example forwarder (routing tables, LPM, FIB, ACL and event variants): neither holds state
  of the checkpoint.
- Option parsing, page tables, statistics, timing, debug output.

## 8. Plan

Done: `Checkpoint`, `GradientAssembly` and `MirrorRing` with their proofs, `Decode`, `AssemblyFaults`,
`RingNode`, `Pipeline`, and the proofs about all of them.

1. `Layout`: the rule by which a sender cuts a last transfer, with the compiled constants (rings of 2 and 8), so that
   `CutsAgree` can be checked for them; here the cut is given for each instance.
