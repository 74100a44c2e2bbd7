---------------------------- MODULE SnapVoltage ----------------------------
(***************************************************************************)
(* The SNAP source block in voltage mode, reading from the network         *)
(* (lib/snap_source_impl.cc and .h): a receive thread moves UDP packets    *)
(* from the socket into the circular buffer d_localqueue; the scheduler's  *)
(* thread calls work(), which puts the packets of one timestamp together   *)
(* into a frame, replaces missing frames by zeros and hands the frames on. *)
(*                                                                         *)
(* Units.  A packet carries 16 time samples of 256 channels, its timestamp *)
(* grows by 16 per packet set, and vectors are queued, asked for           *)
(* (set_output_multiple(16)) and returned in groups of 16.  The model      *)
(* counts frames: one frame is 16 vectors, one unit of time is 16 samples. *)
(* A packet is its timestamp and its 256-channel block; block 0 holds      *)
(* d_starting_channel.  The data of a frame is abstracted to the timestamp *)
(* of the packet that was copied into each block, Zero, or Stray.          *)
(***************************************************************************)
EXTENDS Integers, Sequences

CONSTANTS PacketsPerFrame, \* packets_per_frame: 256-channel blocks in a frame
          MaxMissedSets,   \* MAX_MISSED_SETS
          NetBufSize,      \* MAX_NET_CIRC_BUFFER, the capacity of d_localqueue
          MmsgLength,      \* MMSG_LENGTH, the packets one recvmmsg() returns
          Foreign,         \* channel ids outside the configured range
          Reordering,      \* may the network swap or repeat packets?
          Zero,            \* zeroed vector data
          Stray,           \* vector data that a foreign packet overwrote
          None,            \* no tag, no timestamp yet
          FirstTime,       \* bound: timestamp the SNAP is at in the beginning
          LastTime,        \* bound: last timestamp the SNAP sends
          MaxFaults,       \* bound: packets the network loses or adds
          SockSize,        \* bound: packets the kernel's socket buffer holds
          MaxOut           \* bound: frames the scheduler asks for in one call

Blocks    == 0 .. PacketsPerFrame - 1
Times     == FirstTime .. LastTime
OnePacket == PacketsPerFrame = 1

ASSUME SizesAssumption ==
    /\ PacketsPerFrame \in Nat \ {0}
    /\ MaxMissedSets \in Nat
    /\ NetBufSize \in Nat \ {0}
    /\ MmsgLength \in Nat \ {0}
    /\ MaxOut \in Nat \ {0}
    /\ SockSize \in Nat
    /\ MaxFaults \in Nat
    /\ FirstTime \in Nat
    /\ LastTime \in Nat
    /\ FirstTime <= LastTime

ASSUME ValuesAssumption ==
    /\ Zero \notin Int /\ Stray \notin Int /\ Zero # Stray
    /\ None \notin Int
    /\ Reordering \in BOOLEAN
    /\ \A c \in Foreign : c \in Int /\ c \notin Blocks

Packet == [ts : Times, ch : Blocks \cup Foreign]
Frame  == [Blocks -> Times \cup {Zero, Stray}]
Tag    == Nat \cup {None}

VARIABLES
    next,                      \* external: the packet the SNAP sends next
    faults,                    \* external: packets lost or added so far
    sock,                      \* external: the kernel's socket buffer
    d_localqueue,              \* circular buffer, under d_net_mutex
    d_found_start_channel,     \* the receive thread has seen block 0
    d_send_sync_pmt,           \* a sync_header message is due
    async_volt_sync_hdr,       \* timestamp of the packet synchronised on
    sync_timestamp,            \* 0, or the synchronizer's timestamp
    pc,                        \* where work_volt_mode() is
    noutput_items,             \* its argument
    num_packets_available,     \* its locals
    skippedPackets,
    d_last_timestamp,          \* timestamp of the frame being filled; 0: none
    multipacket_frame_pkt_ctr, \* packets copied into it
    x_vector_buffer,           \* its data
    x_vector_queue,            \* frames waiting for output
    seq_num_queue,             \* their tags
    output,                    \* history: frames and tags work() returned
    published,                 \* history: sync_header messages
    notified,                  \* history: sum of the missed packets reported
    taken,                     \* history: packets popped from d_localqueue
    origin,                    \* history: timestamp of the first one
    overran,                   \* history: a gap exceeded MAX_MISSED_SETS
    overwrote                  \* history: d_localqueue overwrote a packet

netVars   == <<next, faults, sock>>
syncVars  == <<d_found_start_channel, d_send_sync_pmt, async_volt_sync_hdr,
               sync_timestamp, published>>
queueVars == <<d_localqueue, overwrote>>
takeVars  == <<taken, origin, overran>>
callVars  == <<pc, noutput_items, num_packets_available, skippedPackets,
               notified>>
fillVars  == <<d_last_timestamp, multipacket_frame_pkt_ctr, x_vector_buffer>>
outVars   == <<x_vector_queue, seq_num_queue, output>>
vars      == <<netVars, syncVars, queueVars, takeVars, callVars, fillVars, outVars>>

ZeroFrame == [b \in Blocks |-> Zero]

-----------------------------------------------------------------------------
(* The network, external: the SNAP sends the blocks of a timestamp one after *)
(* the other and then the next timestamp; packets may be lost, swapped or    *)
(* repeated on the way.                                                      *)

Successor(p) == IF p.ch = PacketsPerFrame - 1
                THEN [ts |-> p.ts + 1, ch |-> 0]
                ELSE [ts |-> p.ts, ch |-> p.ch + 1]

Send ==
    /\ next.ts <= LastTime
    /\ Len(sock) < SockSize
    /\ sock' = Append(sock, next)
    /\ next' = Successor(next)
    /\ UNCHANGED <<faults, syncVars, queueVars, takeVars, callVars, fillVars,
                   outVars>>

Lose ==
    /\ next.ts <= LastTime
    /\ faults < MaxFaults
    /\ faults' = faults + 1
    /\ next' = Successor(next)
    /\ UNCHANGED <<sock, syncVars, queueVars, takeVars, callVars, fillVars,
                   outVars>>

(* A sender of other channels is pointed at the same port. *)
SendForeign ==
    /\ next.ts <= LastTime
    /\ faults < MaxFaults
    /\ faults' = faults + 1
    /\ Len(sock) < SockSize
    /\ \E c \in Foreign : sock' = Append(sock, [ts |-> next.ts, ch |-> c])
    /\ UNCHANGED <<next, syncVars, queueVars, takeVars, callVars, fillVars,
                   outVars>>

Reorder ==
    /\ Reordering
    /\ \E i \in 1 .. Len(sock) - 1 :
           sock' = [sock EXCEPT ![i] = sock[i + 1], ![i + 1] = sock[i]]
    /\ UNCHANGED <<next, faults, syncVars, queueVars, takeVars, callVars,
                   fillVars, outVars>>

Duplicate ==
    /\ Reordering
    /\ faults < MaxFaults
    /\ faults' = faults + 1
    /\ Len(sock) < SockSize
    /\ \E i \in 1 .. Len(sock) : sock' = Append(sock, sock[i])
    /\ UNCHANGED <<next, syncVars, queueVars, takeVars, callVars, fillVars,
                   outVars>>

Network == Send \/ Lose \/ SendForeign \/ Reorder \/ Duplicate

-----------------------------------------------------------------------------
(* The receive thread: one mmsg_receive(), all of it under d_net_mutex. *)

(* What recvmmsg() finds without blocking. *)
BatchLength == IF Len(sock) < MmsgLength THEN Len(sock) ELSE MmsgLength

(* voltage_synchronize() on each packet of the batch: until the block of     *)
(* d_starting_channel is found, `skip' packets are dropped.                  *)
DropsBeforeStart(skip) ==
    IF d_found_start_channel
    THEN skip = 0
    ELSE /\ \A i \in 1 .. skip : sock[i].ch # 0
         /\ skip < BatchLength => sock[skip + 1].ch = 0

(* The packet synchronised on, if this batch has it. *)
SyncedAtEachBatch(skip) == skip < BatchLength  \* mutant: asked again and again
Synced(skip) == ~d_found_start_channel /\ skip < BatchLength

SyncHdr(skip) == sock[skip + 1].ts

(* mutant: a full buffer is emptied to catch up *)
FlushWhenFull(q, batch) ==
    IF Len(q) + Len(batch) <= NetBufSize THEN q \o batch ELSE batch

(* boost::circular_buffer::push_back: a full buffer overwrites its oldest. *)
PushBack(q, batch) ==
    LET all == q \o batch
    IN  IF Len(all) <= NetBufSize
        THEN all
        ELSE SubSeq(all, Len(all) - NetBufSize + 1, Len(all))

(* A packet whose channel id is out of range is logged and queued with the   *)
(* others: nothing skips it.                                                 *)
MmsgReceive ==
    /\ BatchLength > 0
    /\ \E skip \in 0 .. BatchLength :
         /\ DropsBeforeStart(skip)
         /\ LET accepted == SubSeq(sock, skip + 1, BatchLength)
            IN  /\ d_localqueue' = PushBack(d_localqueue, accepted)
                /\ overwrote' = (overwrote \/
                       Len(d_localqueue) + Len(accepted) > NetBufSize)
         /\ d_found_start_channel' = (d_found_start_channel \/ Synced(skip))
         /\ d_send_sync_pmt' = (d_send_sync_pmt \/ Synced(skip))
         /\ async_volt_sync_hdr' = IF Synced(skip) THEN SyncHdr(skip)
                                   ELSE async_volt_sync_hdr
    /\ sock' = SubSeq(sock, BatchLength + 1, Len(sock))
    /\ UNCHANGED <<next, faults, sync_timestamp, published, takeVars, callVars,
                   fillVars, outVars>>

-----------------------------------------------------------------------------
(* The block's thread: work() -> work_volt_mode(). *)

WorkCall ==
    /\ pc = "idle"
    /\ pc' = "poll"
    /\ noutput_items' \in 1 .. MaxOut
    /\ UNCHANGED <<netVars, syncVars, queueVars, takeVars,
                   num_packets_available, skippedPackets, notified, fillVars,
                   outVars>>

(* The wait loop ends, with the number of packets it saw under the mutex.  *)
(* It is a snapshot: the receive thread goes on pushing.  (stop_thread and *)
(* pcap_file_done end the loop too; neither is set while the source runs.) *)
PollPackets ==
    /\ pc = "poll"
    /\ d_localqueue # <<>> \/ x_vector_queue # <<>>
    /\ num_packets_available' = Len(d_localqueue)
    /\ pc' = "pmt"
    /\ UNCHANGED <<netVars, syncVars, queueVars, takeVars, noutput_items,
                   skippedPackets, notified, fillVars, outVars>>

(* The locals of a call that returns are gone. *)
EndOfCall ==
    /\ pc' = "idle"
    /\ noutput_items' = 1
    /\ num_packets_available' = 0
    /\ skippedPackets' = 0

(* Nothing came for 120000 polls: return 0, to let the scheduler see a signal. *)
GiveUp ==
    /\ pc = "poll"
    /\ d_localqueue = <<>> /\ x_vector_queue = <<>>
    /\ EndOfCall
    /\ UNCHANGED <<netVars, syncVars, queueVars, takeVars, notified,
                   fillVars, outVars>>

(* The receive thread cannot send a message: work() sends it when it is due. *)
SendSyncPmt ==
    /\ pc = "pmt"
    /\ pc' = "loop"
    /\ d_send_sync_pmt' = FALSE
    /\ published' = IF d_send_sync_pmt
                    THEN Append(published, async_volt_sync_hdr)
                    ELSE published
    /\ skippedPackets' = 0
    /\ UNCHANGED <<netVars, d_found_start_channel, async_volt_sync_hdr,
                   sync_timestamp, queueVars, takeVars, noutput_items,
                   num_packets_available, notified, fillVars, outVars>>

(* mutant: only a later timestamp ends a frame *)
LaterFrame(p) == d_last_timestamp > 0 /\ p.ts > d_last_timestamp

(* The packet at the front belongs to another frame than the one before it. *)
NextFrame(p) == d_last_timestamp > 0 /\ p.ts # d_last_timestamp

(* Whole frames missing between the last timestamp and p's. *)
MissedSets(p) ==
    IF d_last_timestamp > 0 /\ p.ts > d_last_timestamp
    THEN p.ts - d_last_timestamp - 1
    ELSE 0

(* mutants: the limit itself is refused; there is no limit *)
FilledBelowLimit(p) ==
    IF MissedSets(p) < MaxMissedSets THEN MissedSets(p) ELSE 0
FilledWithoutLimit(p) == MissedSets(p)

(* How many of them are filled in: all, or none when there are too many. *)
FilledIn(p) == IF MissedSets(p) <= MaxMissedSets THEN MissedSets(p) ELSE 0

(* mutant: the buffer is not zeroed *)
StaleFill(p) == [i \in 1 .. FilledIn(p) |-> x_vector_buffer]

ZeroFill(p) == [i \in 1 .. FilledIn(p) |-> ZeroFrame]

(* mutants: the loop over missed_timestamp ends or starts one too early *)
TagsEndEarly(p)   == [i \in 1 .. FilledIn(p) - 1 |-> d_last_timestamp + i]
TagsStartEarly(p) == [i \in 1 .. FilledIn(p) |-> d_last_timestamp + i - 1]

ZeroTags(p) == [i \in 1 .. FilledIn(p) |-> d_last_timestamp + i]

(* mutant: the counter is taken to start at zero *)
CountedFromZero == PacketsPerFrame - (multipacket_frame_pkt_ctr + 1)

(* Blocks missing in the frame being filled. *)
MissingBlocks == PacketsPerFrame - multipacket_frame_pkt_ctr

(* mutant: the data of the packet before *)
CopyPrevious(buffer, p) == [buffer EXCEPT ![p.ch] = p.ts - 1]

(* copy_volt_data_to_vector_buffer().  The buffer is 16 rows of all channels, *)
(* so that a block outside the frame lands on another block, some rows before *)
(* or after.  (The rows outside the buffer go elsewhere in memory.)           *)
CopyData(buffer, p) ==
    IF p.ch \in Blocks
    THEN [buffer EXCEPT ![p.ch] = p.ts]
    ELSE [buffer EXCEPT ![p.ch % PacketsPerFrame] = Stray]

(* queue_voltage_data() and the zero fill push a tag with each frame as long *)
(* as no sync message has come.                                              *)
QueueFrames(frames, tags) ==
    /\ x_vector_queue' = x_vector_queue \o frames
    /\ seq_num_queue' = IF sync_timestamp = 0
                        THEN seq_num_queue \o tags ELSE seq_num_queue

(* One pass of the packet loop: fill_local_buffer() pops the front packet    *)
(* under the mutex; everything else belongs to this thread.                  *)
TakePacket ==
    /\ pc = "loop"
    /\ num_packets_available > 0
    /\ Len(x_vector_queue) < noutput_items
    /\ num_packets_available' = num_packets_available - 1
    /\ d_localqueue' = Tail(d_localqueue)
    /\ taken' = taken \cup {Head(d_localqueue)}
    /\ origin' = IF origin = None THEN Head(d_localqueue).ts ELSE origin
    /\ overran' = (overran \/ MissedSets(Head(d_localqueue)) > MaxMissedSets)
    /\ UNCHANGED <<netVars, syncVars, overwrote, pc, noutput_items, notified,
                   output>>

(* One packet per frame: the frames missing before it, then the frame itself. *)
QueueOnePacketFrame ==
    /\ OnePacket
    /\ TakePacket
    /\ LET p == Head(d_localqueue)
       IN  /\ QueueFrames(Append(ZeroFill(p), CopyData(x_vector_buffer, p)),
                          Append(ZeroTags(p), p.ts))
           /\ x_vector_buffer' = CopyData(x_vector_buffer, p)
           /\ skippedPackets' = skippedPackets + MissedSets(p)
           /\ d_last_timestamp' = p.ts
    /\ UNCHANGED multipacket_frame_pkt_ctr

(* Several packets per frame and a new timestamp: the frame being filled is  *)
(* queued, with the tag of the packet that ended it, then the frames missing *)
(* after it; the packet starts the next frame.                               *)
StartNextFrame ==
    /\ ~OnePacket
    /\ TakePacket
    /\ LET p == Head(d_localqueue)
       IN  /\ NextFrame(p)
           /\ QueueFrames(<<x_vector_buffer>> \o ZeroFill(p),
                          <<p.ts>> \o ZeroTags(p))
           /\ x_vector_buffer' = CopyData(ZeroFrame, p)
           /\ skippedPackets' = skippedPackets
                  + MissingBlocks + MissedSets(p) * PacketsPerFrame
           /\ d_last_timestamp' = p.ts
    /\ multipacket_frame_pkt_ctr' = 1

(* Several packets per frame and the same timestamp, or the very first packet. *)
FillFrame ==
    /\ ~OnePacket
    /\ TakePacket
    /\ LET p == Head(d_localqueue)
       IN  /\ ~NextFrame(p)
           /\ x_vector_buffer' = CopyData(x_vector_buffer, p)
           /\ d_last_timestamp' = IF d_last_timestamp = 0 THEN p.ts
                                  ELSE d_last_timestamp
    /\ multipacket_frame_pkt_ctr' = multipacket_frame_pkt_ctr + 1
    /\ UNCHANGED <<skippedPackets, x_vector_queue, seq_num_queue>>

(* The loop is over: frames move to the output, each with its tag as long as *)
(* no sync message has come, and the missed packets are reported.            *)
OnlyFullOutput == IF Len(x_vector_queue) < noutput_items
                  THEN 0 ELSE noutput_items  \* mutant: all or nothing

ItemsReturned == IF Len(x_vector_queue) < noutput_items
                 THEN Len(x_vector_queue) ELSE noutput_items

ReturnItems ==
    /\ pc = "loop"
    /\ num_packets_available = 0 \/ Len(x_vector_queue) >= noutput_items
    /\ output' = output \o
           [i \in 1 .. ItemsReturned |->
               [data |-> x_vector_queue[i],
                tag  |-> IF sync_timestamp = 0 THEN seq_num_queue[i] ELSE None]]
    /\ x_vector_queue' =
           SubSeq(x_vector_queue, ItemsReturned + 1, Len(x_vector_queue))
    /\ seq_num_queue' =
           IF sync_timestamp = 0
           THEN SubSeq(seq_num_queue, ItemsReturned + 1, Len(seq_num_queue))
           ELSE seq_num_queue
    /\ notified' = notified + (IF skippedPackets > 0 THEN skippedPackets ELSE 0)
    /\ EndOfCall
    /\ UNCHANGED <<netVars, syncVars, queueVars, takeVars, fillVars>>

(* The synchronizer downstream found all its inputs at the same tag and says *)
(* so once; the scheduler delivers the message between two calls of work().  *)
HandleSyncMsg ==
    /\ pc = "idle"
    /\ sync_timestamp = 0
    /\ \E i \in DOMAIN output : sync_timestamp' = output[i].tag
    /\ UNCHANGED <<netVars, d_found_start_channel, d_send_sync_pmt,
                   async_volt_sync_hdr, published, queueVars, takeVars,
                   callVars, fillVars, outVars>>

-----------------------------------------------------------------------------
Init ==
    /\ \E c \in Blocks : next = [ts |-> FirstTime, ch |-> c]
    /\ faults = 0
    /\ sock = <<>>
    /\ d_localqueue = <<>>
    /\ d_found_start_channel = FALSE
    /\ d_send_sync_pmt = FALSE
    /\ async_volt_sync_hdr = None
    /\ sync_timestamp = 0
    /\ pc = "idle"
    /\ noutput_items = 1
    /\ num_packets_available = 0
    /\ skippedPackets = 0
    /\ d_last_timestamp = 0
    /\ multipacket_frame_pkt_ctr = 0
    /\ x_vector_buffer = ZeroFrame
    /\ x_vector_queue = <<>>
    /\ seq_num_queue = <<>>
    /\ output = <<>>
    /\ published = <<>>
    /\ notified = 0
    /\ taken = {}
    /\ origin = None
    /\ overran = FALSE
    /\ overwrote = FALSE

WorkLoop == QueueOnePacketFrame \/ StartNextFrame \/ FillFrame

Work == \/ WorkCall
        \/ PollPackets
        \/ GiveUp
        \/ SendSyncPmt
        \/ WorkLoop
        \/ ReturnItems

Next == Network \/ MmsgReceive \/ Work \/ HandleSyncMsg

Spec == Init /\ [][Next]_vars

(* The two threads keep running: runThread() loops until stop, and the       *)
(* scheduler calls work() as long as the blocks downstream take the output.  *)
FairSpec == Spec /\ WF_vars(MmsgReceive) /\ WF_vars(Work)
-----------------------------------------------------------------------------
(* Type invariant. *)
NetTypeOK ==
    /\ next \in [ts : FirstTime .. LastTime + 1, ch : Blocks]
    /\ faults \in 0 .. MaxFaults
    /\ sock \in Seq(Packet)

SyncTypeOK ==
    /\ d_found_start_channel \in BOOLEAN
    /\ d_send_sync_pmt \in BOOLEAN
    /\ async_volt_sync_hdr \in Times \cup {None}
    /\ sync_timestamp \in Nat
    /\ published \in Seq(Times \cup {None})

QueueTypeOK ==
    /\ d_localqueue \in Seq(Packet)
    /\ overwrote \in BOOLEAN

TakeTypeOK ==
    /\ taken \subseteq Packet
    /\ origin \in Times \cup {None}
    /\ overran \in BOOLEAN

CallTypeOK ==
    /\ pc \in {"idle", "poll", "pmt", "loop"}
    /\ noutput_items \in 1 .. MaxOut
    /\ num_packets_available \in Nat
    /\ skippedPackets \in Int
    /\ notified \in Nat

FillTypeOK ==
    /\ d_last_timestamp \in Nat
    /\ multipacket_frame_pkt_ctr \in Nat
    /\ x_vector_buffer \in Frame

OutTypeOK ==
    /\ x_vector_queue \in Seq(Frame)
    /\ seq_num_queue \in Seq(Nat)
    /\ output \in Seq([data : Frame, tag : Tag])

TypeOK == /\ NetTypeOK
          /\ SyncTypeOK
          /\ QueueTypeOK
          /\ TakeTypeOK
          /\ CallTypeOK
          /\ FillTypeOK
          /\ OutTypeOK

(* work_volt_mode() pops as many packets as its snapshot counted without     *)
(* asking again whether d_localqueue is empty (snap_source_impl.cc:767,818   *)
(* and .h:493): whatever the receive thread does in between, overwriting     *)
(* included, the packets are there.                                          *)
PopSafe == pc \in {"pmt", "loop"} => num_packets_available <= Len(d_localqueue)

(* Until the sync message comes, seq_num_queue has one tag for each frame in *)
(* x_vector_queue, so that the output loop (928-947) never takes a tag from  *)
(* an empty queue or the tag of another frame.                               *)
TagsLockstep == sync_timestamp = 0 => Len(seq_num_queue) = Len(x_vector_queue)

(* x_vector_queue is a deque without a limit (USE_CIRC_VB is not defined).   *)
(* The condition of the packet loop (818) bounds it all the same: by one     *)
(* call's output and the largest gap that is filled in.                      *)
WorkBufferBound == Len(x_vector_queue) <= MaxOut + MaxMissedSets

(* The frame at time t that AlignedStream promises. *)
Stream == INSTANCE AlignedStream
          WITH delivered <- [i \in DOMAIN output |-> output[i].data]

(* Frame i of the output is the frame of timestamp origin + i - 1 and holds  *)
(* exactly the packets work() took for it: losses, overwritten packets and   *)
(* calls of any size never shift the stream (818-886), as long as no gap     *)
(* exceeds MAX_MISSED_SETS.                                                  *)
OutputExact ==
    ~overran => \A i \in DOMAIN output :
        output[i].data = Stream!FrameOf(taken, origin + i - 1)

(* A frame never mixes the data of two timestamps: queue_voltage_data() and  *)
(* the memset (822-878) separate the frames even if packets are reordered or *)
(* come from elsewhere.                                                      *)
FrameCoherent ==
    \A i \in DOMAIN output : \A b, c \in Blocks :
        LET d == output[i].data
        IN  d[b] \in Times /\ d[c] \in Times => d[b] = d[c]

(* The tag of frame i is the timestamp of frame i: it survives zero filling  *)
(* (857), the split of a batch over several calls and the change of          *)
(* sync_timestamp in between.                                                *)
TagsTrue ==
    ~overran => \A i \in DOMAIN output : output[i].tag \in {None, origin + i - 1}

(* Before the first frame leaves, the sync_header message has been sent, and *)
(* it is sent once: it crosses from the receive thread to work() through     *)
(* d_send_sync_pmt (792, 1508 and .h:382).  The message names the first      *)
(* frame of the output, unless d_localqueue overwrote the packet before      *)
(* work() came to it.                                                        *)
SyncHeaderFirst ==
    /\ Len(published) <= 1
    /\ output # <<>> => Len(published) = 1
    /\ published # <<>> /\ origin # None /\ ~overwrote => published[1] = origin

(* No frame holds data of channels the block was not configured for: a packet *)
(* of other channels is skipped ("Received an unexpected channel index.       *)
(* Skipping packet.", 1525; "We'll only get here if we've sync'd and the id   *)
(* is good", 1537).                                                           *)
OnlyConfiguredChannels ==
    \A i \in DOMAIN output : \A b \in Blocks : output[i].data[b] # Stray

(* The source refines AlignedStream (when gaps stay below MAX_MISSED_SETS).  *)
StreamSpec == Stream!Spec

(* A queued packet reaches the output, unless it is overwritten: in          *)
(* multi-packet mode as soon as a packet of a later timestamp is queued.     *)
Deliverable(t) == \E i \in DOMAIN d_localqueue :
    /\ d_localqueue[i].ts = t
    /\ OnePacket \/ \E j \in DOMAIN d_localqueue : d_localqueue[j].ts > t

Delivered(t) == \E i \in DOMAIN output, b \in Blocks : output[i].data[b] = t

PacketsDelivered ==
    \A t \in Times : Deliverable(t) ~> (Delivered(t) \/ overwrote)
=============================================================================
