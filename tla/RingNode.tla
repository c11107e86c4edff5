------------------------------ MODULE RingNode ------------------------------
(***************************************************************************)
(* MirrorRing with either of the two dump modules the project offers, and  *)
(* with a parser that may be restarted.                                    *)
(*                                                                         *)
(* The software dump (dpdk_dump) is a DPDK forwarder with a copy loop put  *)
(* into its packet classification.  It works on a ring of the same layout, *)
(* but moves write_index on before it copies, writes no round tag, and     *)
(* takes the word at offset 8 (already_write_index) for the index of its   *)
(* reader.  It is modelled on the same memory as the other dump.           *)
(*                                                                         *)
(* The ring and its indexes are in System V shared memory and outlive the  *)
(* parser; its round_num does not.                                         *)
(***************************************************************************)
EXTENDS MirrorRing

CONSTANTS
  Dumpers,      \* the dump modules considered: "dma", "software"
  MaxRestart    \* bound: restarts of the parser

ASSUME NodeAssumption ==
  /\ Dumpers \subseteq {"dma", "software"} /\ MaxRestart \in Nat

VARIABLES
  dumper,       \* the dump module that runs
  spc,          \* control of the software dump
  slot,         \* the slot it is copying to
  copying,      \* the packet it is copying
  refused,      \* the DMA device has refused a packet
  restarts,     \* restarts of the parser
  rlap,         \* history: times read_index went around the ring
  accepted,     \* history: the packet a parser has read and not answered
  passed        \* history: packets answered, read_index moved past them

soft == <<spc, slot, copying>>
history == <<accepted, passed>>
nodeVars == <<vars, soft, dumper, refused, restarts, rlap, history>>

\* The tag dmafwd writes, kept in ROUND, is the one Tag gives packets of this
\* lap.
NodeTypeOK ==
  /\ TypeOK
  /\ dumper = "dma" => ROUND = (lap + 1) % TagValues
  /\ dumper \in Dumpers
  /\ spc \in {"poll", "take", "head", "tail"}
  /\ slot \in Slot /\ copying \in Packet \cup {NoPacket}
  /\ refused \in BOOLEAN
  /\ restarts \in 0 .. MaxRestart /\ rlap \in Nat
  /\ accepted \in Packet \cup {NoPacket} /\ passed \subseteq Packet

\* em_main_loop zeroes the first gigabyte only; the rest is fresh memory.
NodeInit ==
  /\ Init
  /\ dumper \in Dumpers
  /\ spc = "poll" /\ slot = 0 /\ copying = NoPacket
  /\ refused = FALSE /\ restarts = 0 /\ rlap = 0
  /\ accepted = NoPacket /\ passed = {}

-----------------------------------------------------------------------------
(* The software dump: em_main_loop and copy_payload_to_new_memory.         *)

\* The burst is received; packets of other protocols are freed at once.
SoftBurst ==
  /\ spc = "poll" /\ lap < MaxLap
  /\ \E n \in 1 .. MAX_PKT_BURST : nb_rx' = n
  /\ spc' = "take"
  /\ UNCHANGED <<rpc, asked, nb_dq, batch, i, dev_id, lap, ROUND, bufs, front,
                 rear, write_index, already_write_index, pac_len, dma, memory,
                 parser, extractor, slot, copying>>

\* The next packet of the burst, or the next burst if it was the last.
NextOfBurst ==
  /\ nb_rx' = nb_rx - 1
  /\ spc' = IF nb_rx = 1 THEN "poll" ELSE "take"

\* Not an IPv6 packet with UDP or TCP: nothing is copied.
SoftForeign ==
  /\ spc = "take"
  /\ NextOfBurst
  /\ UNCHANGED <<rpc, asked, nb_dq, batch, i, dev_id, lap, ROUND, bufs, front,
                 rear, write_index, already_write_index, pac_len, dma, memory,
                 parser, extractor, slot, copying>>

\* The length is written and write_index moves on; the data comes later.  The
\* ring of this dump is shorter than the one the parser maps
\* (l3fwd_em_hlm.h:37): one BUFFER_SIZE stands for either, as the parser never
\* reads behind this dump.
SoftTake ==
  LET p == [lap |-> lap, slot |-> write_index] IN
  /\ spc = "take"
  /\ pac_len' = [pac_len EXCEPT ![write_index] = p]
  /\ lap' = IF write_index + 1 = BUFFER_SIZE THEN lap + 1 ELSE lap
  /\ write_index' = After(write_index)
  /\ slot' = write_index /\ copying' = p
  /\ spc' = "head"
  /\ UNCHANGED <<rpc, asked, nb_dq, nb_rx, batch, i, dev_id, ROUND, bufs,
                 front, rear, already_write_index, dma, memory, parser,
                 extractor>>

\* Mutant: the copy goes to the slot write_index now stands at.
CopyTargetMoved == write_index

CopyTarget == slot

SoftHead ==
  /\ spc = "head"
  /\ headPart' = [headPart EXCEPT ![CopyTarget] = copying]
  /\ spc' = "tail"
  /\ UNCHANGED <<dump, dma, tailPart, parser, extractor, slot, copying>>

\* An overflow is only logged, so the copy ends the work on a packet.
SoftTail ==
  /\ spc = "tail"
  /\ tailPart' = [tailPart EXCEPT ![CopyTarget] = copying]
  /\ copying' = NoPacket
  /\ NextOfBurst
  /\ UNCHANGED <<rpc, asked, nb_dq, batch, i, dev_id, lap, ROUND, bufs, front,
                 rear, write_index, already_write_index, pac_len, dma,
                 headPart, parser, extractor, slot>>

SoftDump == SoftBurst \/ SoftForeign \/ SoftTake \/ SoftHead \/ SoftTail

-----------------------------------------------------------------------------
(* The restart of the parser.                                              *)

\* Mutant: the round is taken over from the tag of the slot to be read.
RoundOfRestartAtSlot == Tag(headPart[read_index])

RoundOfRestart == 1

\* Mutant: run() sets read_index back, as its lines for debugging do.
ReadIndexOfRestartZero == 0

ReadIndexOfRestart == read_index

\* The process is started again: read_index is still there, round_num is 1,
\* and what the former process read and did not answer is forgotten.
Restart ==
  /\ restarts < MaxRestart
  /\ restarts' = restarts + 1
  /\ round_num' = RoundOfRestart
  /\ read_index' = ReadIndexOfRestart
  /\ ppc' = "check" /\ dest' = NoPacket
  /\ accepted' = NoPacket
  /\ UNCHANGED <<dump, dma, memory, meta, extractor, soft, dumper, refused,
                 rlap, passed>>

-----------------------------------------------------------------------------
DmaDump == RxCore \/ Burst \/ \E d \in Dev : CopyHead(d) \/ CopyTail(d)

\* A packet is known by the part its tag is in, which is what the parser
\* accepts it by.
Recorded ==
  /\ accepted' = IF ppc = "spin" THEN headPart[read_index] ELSE NoPacket
  /\ passed' = IF ppc = "write" THEN passed \cup {accepted} ELSE passed

NodeNext ==
  \/ /\ dumper = "dma" /\ DmaDump
     /\ refused' = (refused \/ Refuse)
     /\ UNCHANGED <<soft, dumper, restarts, rlap, history>>
  \/ /\ dumper = "software" /\ SoftDump
     /\ UNCHANGED <<dumper, refused, restarts, rlap, history>>
  \/ /\ Parser
     /\ rlap' = IF ppc = "write" /\ read_index + 1 = BUFFER_SIZE
                THEN rlap + 1 ELSE rlap
     /\ Recorded
     /\ UNCHANGED <<soft, dumper, refused, restarts>>
  \/ /\ Extract
     /\ UNCHANGED <<soft, dumper, refused, restarts, rlap, history>>
  \/ Restart

NodeSpec == NodeInit /\ [][NodeNext]_nodeVars

-----------------------------------------------------------------------------
(* Properties.                                                             *)

\* A refused packet leaves one of an earlier lap in its slot, announced, and
\* the parser may only be kept from it by its round_num.
RoundsKept == refused => restarts = 0

\* The packets received before p.
Earlier(p) ==
  {q \in [lap : 0 .. p.lap, slot : Slot] : Position(q) < Position(p)}

\* Across restarts of the parser, and even if the ring is overrun: a parser
\* decodes no packet that it or a former one has answered, and none before
\* every packet received earlier is answered.  A restarted one starts over at
\* the first tag and with read_index where it was, so it goes on in the first
\* lap and waits for ever in a later one.  Only a packet that was read and
\* not answered when the parser ended is decoded again (unpack.hpp:765-807).
NoneRepeatedOrSkipped ==
  [][ReadPacket /\ RoundsKept =>
       LET p == headPart[read_index] IN
       p \notin passed /\ Earlier(p) \subseteq passed]_nodeVars

\* Until the ring is overrun, the extractor copies, in the order they were
\* received, packets that are in the slot in all their bytes, each to the
\* place the parser computed for that packet.  This is about the DMA dump:
\* behind the software dump nothing is decoded, so nothing is extracted.
ExtractedWhole ==
  [][Extract /\ NotOverrun /\ RoundsKept =>
       LET p == [lap |-> xlap, slot |-> extractor_read_index] IN
       {headPart[p.slot], tailPart[p.slot], meta[p.slot]} = {p}]_nodeVars

\* The software dump announces at most one packet whose data is not there:
\* all other slots behind write_index are whole, which is what a reader of
\* that index has to allow for (l3fwd_em_hlm.h:53-56).
OneSlotInFlight ==
  dumper = "software" =>
    \A s \in Slot : pac_len[s] # copying =>
      headPart[s] = pac_len[s] /\ tailPart[s] = pac_len[s]
=============================================================================
