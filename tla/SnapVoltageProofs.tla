------------------------- MODULE SnapVoltageProofs -------------------------
(***************************************************************************)
(* What TLAPS proves of SnapVoltage for every value of its constants.      *)
(***************************************************************************)
EXTENDS SnapVoltage, SequenceTheorems, TLAPS

-----------------------------------------------------------------------------
(* The first invariant: types, and the lengths that keep the threads from    *)
(* popping an empty queue.                                                   *)

(* d_localqueue is a buffer of NetBufSize packets. *)
QueueBound == Len(d_localqueue) <= NetBufSize

(* As long as no sync message has come, every frame returned had a tag. *)
TagsPresent ==
    sync_timestamp = 0 => \A i \in DOMAIN output : output[i].tag \in Nat

SafeInv == /\ TypeOK
           /\ PopSafe
           /\ QueueBound
           /\ TagsLockstep
           /\ TagsPresent
           /\ WorkBufferBound

(* A function on 1 .. n is a sequence of length n. *)
LEMMA FunctionIsSeq ==
    ASSUME NEW S, NEW n \in Nat, NEW f \in [1 .. n -> S]
    PROVE  f \in Seq(S) /\ Len(f) = n
BY SeqDef

(* A full circular buffer never gets shorter. *)
LEMMA PushBackGrows ==
    ASSUME NEW S, NEW q \in Seq(S), NEW batch \in Seq(S), Len(q) <= NetBufSize
    PROVE  /\ PushBack(q, batch) \in Seq(S)
           /\ Len(PushBack(q, batch)) <= NetBufSize
           /\ Len(q) <= Len(PushBack(q, batch))
BY SizesAssumption DEF PushBack

(* The invariant holds initially. *)
LEMMA SafeInit == Init => SafeInv
<1> SUFFICES ASSUME Init PROVE SafeInv
    OBVIOUS
<1>1. NetTypeOK
  <2>1. PICK c \in Blocks : next = [ts |-> FirstTime, ch |-> c]
    BY DEF Init
  <2>2. FirstTime \in FirstTime .. LastTime + 1
    BY SizesAssumption
  <2>3. faults = 0 /\ sock = <<>>
    BY DEF Init
  <2> QED BY <2>1, <2>2, <2>3, SizesAssumption DEF NetTypeOK
<1>2. SyncTypeOK
  <2>1. d_found_start_channel \in BOOLEAN /\ d_send_sync_pmt \in BOOLEAN
    BY Zenon DEF Init
  <2>2. published \in Seq(Times \cup {None})
    BY DEF Init
  <2>3. async_volt_sync_hdr = None /\ sync_timestamp = 0
    BY DEF Init
  <2> QED BY <2>1, <2>2, <2>3 DEF SyncTypeOK
<1>3. QueueTypeOK
  <2>1. overwrote \in BOOLEAN
    BY Zenon DEF Init
  <2>2. d_localqueue \in Seq(Packet)
    BY DEF Init
  <2> QED BY <2>1, <2>2 DEF QueueTypeOK
<1>4. TakeTypeOK
  BY DEF Init, TakeTypeOK
<1>5. CallTypeOK
  BY SizesAssumption DEF Init, CallTypeOK
<1>6. FillTypeOK
  BY DEF Init, FillTypeOK, ZeroFrame, Frame
<1>7. OutTypeOK
  BY DEF Init, OutTypeOK
<1>8. PopSafe /\ QueueBound /\ TagsLockstep /\ TagsPresent /\ WorkBufferBound
  BY SizesAssumption
     DEF Init, PopSafe, QueueBound, TagsLockstep, TagsPresent, WorkBufferBound
<1> QED BY <1>1, <1>2, <1>3, <1>4, <1>5, <1>6, <1>7, <1>8 DEF SafeInv, TypeOK

(* The network touches nothing but the socket. *)
LEMMA SafeNetwork == SafeInv /\ Network => SafeInv'
<1> SUFFICES ASSUME SafeInv, Network PROVE SafeInv'
    OBVIOUS
<1>1. NetTypeOK'
  <2> SUFFICES next' \in [ts : FirstTime .. LastTime + 1, ch : Blocks]
               /\ faults' \in 0 .. MaxFaults /\ sock' \in Seq(Packet)
      BY DEF NetTypeOK
  <2>1. /\ next \in [ts : FirstTime .. LastTime + 1, ch : Blocks]
        /\ faults \in 0 .. MaxFaults
        /\ sock \in Seq(Packet)
    BY DEF SafeInv, TypeOK, NetTypeOK
  <2>2. next.ts <= LastTime =>
           /\ next \in Packet
           /\ Successor(next) \in [ts : FirstTime .. LastTime + 1, ch : Blocks]
    BY <2>1, SizesAssumption DEF Packet, Times, Blocks, Successor
  <2>3. CASE Send
    BY <2>1, <2>2, <2>3 DEF Send
  <2>4. CASE Lose
    BY <2>1, <2>2, <2>4, SizesAssumption DEF Lose
  <2>5. CASE SendForeign
    <3>1. PICK c \in Foreign : sock' = Append(sock, [ts |-> next.ts, ch |-> c])
      BY <2>5 DEF SendForeign
    <3>2. [ts |-> next.ts, ch |-> c] \in Packet
      BY <2>1, <2>2, <2>5 DEF SendForeign, Packet
    <3> QED BY <2>1, <2>5, <3>1, <3>2, SizesAssumption DEF SendForeign
  <2>6. CASE Reorder
    <3>1. PICK i \in 1 .. Len(sock) - 1 :
              sock' = [sock EXCEPT ![i] = sock[i + 1], ![i + 1] = sock[i]]
      BY <2>6 DEF Reorder
    <3>2. sock[i] \in Packet /\ sock[i + 1] \in Packet
      BY <2>1
    <3>3. sock' \in Seq(Packet)
      BY <2>1, <3>1, <3>2
    <3> QED BY <2>1, <2>6, <3>3 DEF Reorder
  <2>7. CASE Duplicate
    <3>1. PICK i \in 1 .. Len(sock) : sock' = Append(sock, sock[i])
      BY <2>7 DEF Duplicate
    <3>2. sock[i] \in Packet
      BY <2>1
    <3> QED BY <2>1, <2>7, <3>1, <3>2, SizesAssumption DEF Duplicate
  <2> QED BY <2>3, <2>4, <2>5, <2>6, <2>7 DEF Network
<1>2. UNCHANGED <<syncVars, queueVars, takeVars, callVars, fillVars, outVars>>
  BY DEF Network, Send, Lose, SendForeign, Reorder, Duplicate
<1>3. /\ SyncTypeOK' /\ QueueTypeOK' /\ TakeTypeOK'
      /\ CallTypeOK' /\ FillTypeOK' /\ OutTypeOK'
  BY <1>2 DEF SafeInv, TypeOK, SyncTypeOK, QueueTypeOK, TakeTypeOK, CallTypeOK,
              FillTypeOK, OutTypeOK, syncVars, queueVars, takeVars, callVars,
              fillVars, outVars
<1>4. (PopSafe /\ QueueBound /\ TagsLockstep /\ TagsPresent /\ WorkBufferBound)'
  BY <1>2 DEF SafeInv, PopSafe, QueueBound, TagsLockstep, TagsPresent,
              WorkBufferBound, syncVars, queueVars, callVars, outVars
<1> QED BY <1>1, <1>3, <1>4 DEF SafeInv, TypeOK

(* mmsg_receive() never makes the queue shorter than a snapshot of it. *)
LEMMA SafeReceive == SafeInv /\ MmsgReceive => SafeInv'
<1> SUFFICES ASSUME SafeInv, MmsgReceive PROVE SafeInv'
    OBVIOUS
<1>1. /\ sock \in Seq(Packet)
      /\ d_localqueue \in Seq(Packet)
      /\ Len(d_localqueue) <= NetBufSize
  BY DEF SafeInv, TypeOK, NetTypeOK, QueueTypeOK, QueueBound
<1>2. BatchLength \in 1 .. Len(sock)
  BY <1>1, SizesAssumption DEF MmsgReceive, BatchLength
<1>3. PICK skip \in 0 .. BatchLength :
        /\ d_localqueue' =
               PushBack(d_localqueue, SubSeq(sock, skip + 1, BatchLength))
        /\ overwrote' \in BOOLEAN
        /\ d_found_start_channel' = (d_found_start_channel \/ Synced(skip))
        /\ d_send_sync_pmt' = (d_send_sync_pmt \/ Synced(skip))
        /\ async_volt_sync_hdr' = IF Synced(skip) THEN SyncHdr(skip)
                                  ELSE async_volt_sync_hdr
  BY DEF MmsgReceive
<1>4. UNCHANGED <<next, faults, sync_timestamp, published, takeVars, callVars,
                  fillVars, outVars>>
  BY DEF MmsgReceive
<1>5. SubSeq(sock, skip + 1, BatchLength) \in Seq(Packet)
  BY <1>1, <1>2
<1>6. /\ d_localqueue' \in Seq(Packet)
      /\ Len(d_localqueue') <= NetBufSize
      /\ Len(d_localqueue) <= Len(d_localqueue')
  BY <1>1, <1>3, <1>5, PushBackGrows
<1>7. NetTypeOK'
  <2>1. sock' = SubSeq(sock, BatchLength + 1, Len(sock))
    BY DEF MmsgReceive
  <2>2. sock' \in Seq(Packet)
    BY <1>1, <1>2, <2>1
  <2> QED BY <1>4, <2>2 DEF SafeInv, TypeOK, NetTypeOK
<1>8. SyncTypeOK'
  <2>1. Synced(skip) => SyncHdr(skip) \in Times
    <3> SUFFICES ASSUME Synced(skip) PROVE SyncHdr(skip) \in Times
        OBVIOUS
    <3>1. skip + 1 \in 1 .. Len(sock)
      BY <1>1, <1>2 DEF Synced
    <3>2. sock[skip + 1] \in Packet
      BY <1>1, <3>1
    <3> QED BY <3>2 DEF SyncHdr, Packet
  <2> QED BY <1>3, <1>4, <2>1 DEF SafeInv, TypeOK, SyncTypeOK
<1>9. QueueTypeOK' /\ QueueBound'
  BY <1>3, <1>6 DEF QueueTypeOK, QueueBound
<1>10. TakeTypeOK' /\ CallTypeOK' /\ FillTypeOK' /\ OutTypeOK'
  BY <1>4 DEF SafeInv, TypeOK, TakeTypeOK, CallTypeOK, FillTypeOK, OutTypeOK,
              takeVars, callVars, fillVars, outVars
<1>11. PopSafe'
  <2>1. pc' = pc /\ num_packets_available' = num_packets_available
    BY <1>4 DEF callVars
  <2>2. num_packets_available \in Nat /\ Len(d_localqueue) \in Nat
        /\ Len(d_localqueue') \in Nat
    BY <1>1, <1>6 DEF SafeInv, TypeOK, CallTypeOK
  <2> QED BY <1>6, <2>1, <2>2 DEF SafeInv, PopSafe
<1>12. TagsLockstep' /\ TagsPresent' /\ WorkBufferBound'
  BY <1>4 DEF SafeInv, TagsLockstep, TagsPresent, WorkBufferBound, outVars
<1> QED BY <1>7, <1>8, <1>9, <1>10, <1>11, <1>12 DEF SafeInv, TypeOK

(* The steps of a call before and after the packet loop. *)
LEMMA SafeCall ==
    SafeInv /\ (WorkCall \/ PollPackets \/ GiveUp) => SafeInv'
<1> SUFFICES ASSUME SafeInv, WorkCall \/ PollPackets \/ GiveUp
             PROVE  SafeInv'
    OBVIOUS
<1>1. UNCHANGED <<netVars, syncVars, queueVars, takeVars, fillVars, outVars,
                  notified>>
  BY DEF WorkCall, PollPackets, GiveUp
<1>2. /\ NetTypeOK' /\ SyncTypeOK' /\ QueueTypeOK' /\ TakeTypeOK'
      /\ FillTypeOK' /\ OutTypeOK'
  BY <1>1 DEF SafeInv, TypeOK, NetTypeOK, SyncTypeOK, QueueTypeOK, TakeTypeOK,
              FillTypeOK, OutTypeOK, netVars, syncVars, queueVars, takeVars,
              fillVars, outVars
<1>3. (QueueBound /\ TagsLockstep /\ TagsPresent /\ WorkBufferBound)'
  BY <1>1 DEF SafeInv, QueueBound, TagsLockstep, TagsPresent, WorkBufferBound,
              syncVars, queueVars, outVars
<1>4. d_localqueue \in Seq(Packet) /\ d_localqueue' = d_localqueue
  BY <1>1 DEF SafeInv, TypeOK, QueueTypeOK, queueVars
<1>5. CallTypeOK' /\ PopSafe'
  <2>1. CASE WorkCall
    BY <1>1, <2>1 DEF SafeInv, TypeOK, CallTypeOK, PopSafe, WorkCall
  <2>2. CASE PollPackets
    BY <1>1, <1>4, <2>2 DEF SafeInv, TypeOK, CallTypeOK, PopSafe, PollPackets
  <2>3. CASE GiveUp
    BY <1>1, <2>3, SizesAssumption
       DEF SafeInv, TypeOK, CallTypeOK, PopSafe, GiveUp, EndOfCall
  <2> QED BY <2>1, <2>2, <2>3
<1> QED BY <1>2, <1>3, <1>5 DEF SafeInv, TypeOK

(* Publishing the sync header leaves queues and tags alone. *)
LEMMA SafeSyncPmt == SafeInv /\ SendSyncPmt => SafeInv'
<1> SUFFICES ASSUME SafeInv, SendSyncPmt PROVE SafeInv'
    OBVIOUS
<1>1. UNCHANGED <<netVars, d_found_start_channel, async_volt_sync_hdr,
                  sync_timestamp, queueVars, takeVars, noutput_items,
                  num_packets_available, notified, fillVars, outVars>>
  BY DEF SendSyncPmt
<1>2. /\ NetTypeOK' /\ QueueTypeOK' /\ TakeTypeOK' /\ FillTypeOK' /\ OutTypeOK'
  BY <1>1 DEF SafeInv, TypeOK, NetTypeOK, QueueTypeOK, TakeTypeOK,
              FillTypeOK, OutTypeOK, netVars, queueVars, takeVars,
              fillVars, outVars
<1>3. (QueueBound /\ TagsLockstep /\ TagsPresent /\ WorkBufferBound)'
  BY <1>1 DEF SafeInv, QueueBound, TagsLockstep, TagsPresent, WorkBufferBound,
              queueVars, outVars
<1>4. SyncTypeOK'
  <2>1. d_send_sync_pmt' \in BOOLEAN
    BY Zenon DEF SendSyncPmt
  <2>2. published' \in Seq(Times \cup {None})
    BY DEF SendSyncPmt, SafeInv, TypeOK, SyncTypeOK
  <2> QED BY <1>1, <2>1, <2>2 DEF SafeInv, TypeOK, SyncTypeOK
<1>5. CallTypeOK' /\ PopSafe'
  BY <1>1 DEF SendSyncPmt, SafeInv, TypeOK, CallTypeOK, PopSafe, queueVars
<1> QED BY <1>2, <1>3, <1>4, <1>5 DEF SafeInv, TypeOK

-----------------------------------------------------------------------------
(* The packet loop. *)

(* Copying a packet into a frame gives a frame. *)
LEMMA CopyDataType ==
    ASSUME NEW buffer \in Frame, NEW p \in Packet
    PROVE  CopyData(buffer, p) \in Frame
<1>1. CASE p.ch \in Blocks
  BY <1>1 DEF CopyData, Frame, Packet
<1>2. CASE p.ch \notin Blocks
  <2>1. CopyData(buffer, p) = [buffer EXCEPT ![p.ch % PacketsPerFrame] = Stray]
    BY <1>2 DEF CopyData
  <2> QED BY <2>1 DEF Frame
<1> QED BY <1>1, <1>2

(* The frame filled in for a missing timestamp is a frame. *)
LEMMA ZeroFrameType == ZeroFrame \in Frame
BY DEF ZeroFrame, Frame

(* The zero fill: at most MaxMissedSets frames, and a tag for each. *)
LEMMA ZeroFillType ==
    ASSUME FillTypeOK, NEW p \in Packet
    PROVE  /\ MissedSets(p) \in Nat
           /\ FilledIn(p) \in 0 .. MaxMissedSets
           /\ ZeroFill(p) \in Seq(Frame) /\ Len(ZeroFill(p)) = FilledIn(p)
           /\ ZeroTags(p) \in Seq(Nat) /\ Len(ZeroTags(p)) = FilledIn(p)
<1>1. p.ts \in Nat /\ d_last_timestamp \in Nat
  BY SizesAssumption DEF Packet, Times, FillTypeOK
<1>2. MissedSets(p) \in Nat
  BY <1>1 DEF MissedSets
<1>3. FilledIn(p) \in 0 .. MaxMissedSets
  BY <1>2, SizesAssumption DEF FilledIn
<1>4. ZeroFill(p) \in Seq(Frame) /\ Len(ZeroFill(p)) = FilledIn(p)
  BY <1>3, ZeroFrameType DEF ZeroFill
<1>5. ZeroTags(p) \in Seq(Nat) /\ Len(ZeroTags(p)) = FilledIn(p)
  BY <1>1, <1>3 DEF ZeroTags
<1> QED BY <1>2, <1>3, <1>4, <1>5

(* Popping the front packet: it is there. *)
LEMMA SafeTake ==
    ASSUME SafeInv, TakePacket
    PROVE  /\ Head(d_localqueue) \in Packet
           /\ (NetTypeOK /\ SyncTypeOK /\ QueueTypeOK /\ TakeTypeOK)'
           /\ num_packets_available' \in Nat
           /\ PopSafe' /\ QueueBound'
<1>1. /\ d_localqueue \in Seq(Packet)
      /\ num_packets_available \in Nat
      /\ num_packets_available <= Len(d_localqueue)
      /\ num_packets_available > 0
      /\ Len(d_localqueue) <= NetBufSize
  BY DEF SafeInv, TypeOK, QueueTypeOK, CallTypeOK, PopSafe, QueueBound, TakePacket
<1>2. d_localqueue # <<>>
  BY <1>1
<1>3. /\ Head(d_localqueue) \in Packet
      /\ Tail(d_localqueue) \in Seq(Packet)
      /\ Len(Tail(d_localqueue)) = Len(d_localqueue) - 1
  BY <1>1, <1>2
<1>4. (NetTypeOK /\ SyncTypeOK)'
  BY DEF TakePacket, SafeInv, TypeOK, NetTypeOK, SyncTypeOK, netVars, syncVars
<1>5. QueueTypeOK' /\ QueueBound'
  BY <1>1, <1>3, SizesAssumption
     DEF TakePacket, SafeInv, TypeOK, QueueTypeOK, QueueBound
<1>6. TakeTypeOK'
  <2>1. taken' \subseteq Packet
    BY <1>3 DEF TakePacket, SafeInv, TypeOK, TakeTypeOK
  <2>2. origin' \in Times \cup {None}
    BY <1>3 DEF TakePacket, SafeInv, TypeOK, TakeTypeOK, Packet
  <2>3. overran' \in BOOLEAN
    BY DEF TakePacket
  <2> QED BY <2>1, <2>2, <2>3 DEF TakeTypeOK
<1>7. num_packets_available' \in Nat /\ PopSafe'
  BY <1>1, <1>3 DEF TakePacket, PopSafe
<1> QED BY <1>3, <1>4, <1>5, <1>6, <1>7

(* As many tags as frames, and no more than one gap and one frame. *)
LEMMA SafeQueueFrames ==
    ASSUME SafeInv,
           NEW frames \in Seq(Frame), NEW tags \in Seq(Nat),
           Len(frames) = Len(tags), Len(frames) <= MaxMissedSets + 1,
           TakePacket, QueueFrames(frames, tags)
    PROVE  (OutTypeOK /\ TagsLockstep /\ TagsPresent /\ WorkBufferBound)'
<1>1. /\ x_vector_queue \in Seq(Frame) /\ seq_num_queue \in Seq(Nat)
      /\ output \in Seq([data : Frame, tag : Tag])
      /\ noutput_items \in 1 .. MaxOut
  BY DEF SafeInv, TypeOK, OutTypeOK, CallTypeOK
<1>2. /\ output' = output /\ sync_timestamp' = sync_timestamp
      /\ Len(x_vector_queue) < noutput_items
  BY DEF TakePacket, syncVars
<1>3. x_vector_queue' = x_vector_queue \o frames
  BY DEF QueueFrames
<1>4. seq_num_queue' = IF sync_timestamp = 0 THEN seq_num_queue \o tags
                       ELSE seq_num_queue
  BY DEF QueueFrames
<1>5. /\ x_vector_queue' \in Seq(Frame)
      /\ Len(x_vector_queue') = Len(x_vector_queue) + Len(frames)
  BY <1>1, <1>3, ConcatProperties
<1>6. /\ seq_num_queue' \in Seq(Nat)
      /\ sync_timestamp = 0 =>
             Len(seq_num_queue') = Len(seq_num_queue) + Len(tags)
  BY <1>1, <1>4, ConcatProperties
<1>7. OutTypeOK'
  BY <1>1, <1>2, <1>5, <1>6 DEF OutTypeOK
<1>8. TagsLockstep' /\ TagsPresent'
  BY <1>2, <1>5, <1>6 DEF SafeInv, TagsLockstep, TagsPresent
<1>9. WorkBufferBound'
  <2>1. Len(x_vector_queue) \in Nat /\ Len(frames) \in Nat
    BY <1>1
  <2> QED BY <1>1, <1>2, <1>5, <2>1, SizesAssumption DEF WorkBufferBound
<1> QED BY <1>7, <1>8, <1>9

(* Taking a packet, in each of the three ways, keeps the invariant. *)
LEMMA SafeWorkLoop == SafeInv /\ WorkLoop => SafeInv'
<1> SUFFICES ASSUME SafeInv, WorkLoop PROVE SafeInv'
    OBVIOUS
<1> DEFINE p == Head(d_localqueue)
<1>1. TakePacket
  BY DEF WorkLoop, QueueOnePacketFrame, StartNextFrame, FillFrame
<1>2. /\ p \in Packet
      /\ (NetTypeOK /\ SyncTypeOK /\ QueueTypeOK /\ TakeTypeOK)'
      /\ num_packets_available' \in Nat
      /\ PopSafe' /\ QueueBound'
  BY <1>1, SafeTake
<1>3. /\ FillTypeOK /\ CallTypeOK /\ OutTypeOK
      /\ p.ts \in Nat
  BY <1>2, SizesAssumption DEF SafeInv, TypeOK, Packet, Times
<1>4. /\ MissedSets(p) \in Nat
      /\ FilledIn(p) \in 0 .. MaxMissedSets
      /\ ZeroFill(p) \in Seq(Frame) /\ Len(ZeroFill(p)) = FilledIn(p)
      /\ ZeroTags(p) \in Seq(Nat) /\ Len(ZeroTags(p)) = FilledIn(p)
  BY <1>2, <1>3, ZeroFillType
<1>5. /\ CopyData(x_vector_buffer, p) \in Frame
      /\ CopyData(ZeroFrame, p) \in Frame
  BY <1>2, <1>3, CopyDataType, ZeroFrameType DEF FillTypeOK
<1>6. /\ pc' = pc /\ noutput_items' = noutput_items /\ notified' = notified
  BY <1>1 DEF TakePacket
<1> HIDE DEF p
<1>7. CASE QueueOnePacketFrame
  <2> DEFINE frames == Append(ZeroFill(p), CopyData(x_vector_buffer, p))
             tags   == Append(ZeroTags(p), p.ts)
  <2>1. frames \in Seq(Frame) /\ Len(frames) = FilledIn(p) + 1
    BY <1>4, <1>5
  <2>2. tags \in Seq(Nat) /\ Len(tags) = FilledIn(p) + 1
    BY <1>3, <1>4
  <2>3. QueueFrames(frames, tags)
    BY <1>7 DEF QueueOnePacketFrame, p
  <2>4. /\ x_vector_buffer' = CopyData(x_vector_buffer, p)
        /\ skippedPackets' = skippedPackets + MissedSets(p)
        /\ d_last_timestamp' = p.ts
        /\ multipacket_frame_pkt_ctr' = multipacket_frame_pkt_ctr
    BY <1>7 DEF QueueOnePacketFrame, p
  <2> HIDE DEF frames, tags
  <2>5. (OutTypeOK /\ TagsLockstep /\ TagsPresent /\ WorkBufferBound)'
    BY <1>1, <1>4, <2>1, <2>2, <2>3, SafeQueueFrames, SizesAssumption
  <2>6. FillTypeOK' /\ CallTypeOK'
    BY <1>2, <1>3, <1>4, <1>5, <1>6, <2>4 DEF FillTypeOK, CallTypeOK
  <2> QED BY <1>2, <2>5, <2>6 DEF SafeInv, TypeOK
<1>8. CASE StartNextFrame
  <2> DEFINE frames == <<x_vector_buffer>> \o ZeroFill(p)
             tags   == <<p.ts>> \o ZeroTags(p)
  <2>1. frames \in Seq(Frame) /\ Len(frames) = FilledIn(p) + 1
    BY <1>3, <1>4 DEF FillTypeOK
  <2>2. tags \in Seq(Nat) /\ Len(tags) = FilledIn(p) + 1
    BY <1>3, <1>4
  <2>3. QueueFrames(frames, tags)
    BY <1>8 DEF StartNextFrame, p
  <2>4. /\ x_vector_buffer' = CopyData(ZeroFrame, p)
        /\ skippedPackets' = skippedPackets
               + MissingBlocks + MissedSets(p) * PacketsPerFrame
        /\ d_last_timestamp' = p.ts
        /\ multipacket_frame_pkt_ctr' = 1
    BY <1>8 DEF StartNextFrame, p
  <2> HIDE DEF frames, tags
  <2>5. (OutTypeOK /\ TagsLockstep /\ TagsPresent /\ WorkBufferBound)'
    BY <1>1, <1>4, <2>1, <2>2, <2>3, SafeQueueFrames, SizesAssumption
  <2>6. FillTypeOK'
    BY <1>3, <1>5, <2>4 DEF FillTypeOK
  <2>7. skippedPackets' \in Int
    <3>1. MissedSets(p) * PacketsPerFrame \in Int
      BY <1>4, SizesAssumption
    <3>2. MissingBlocks \in Int
      BY <1>3, SizesAssumption DEF MissingBlocks, FillTypeOK
    <3> QED BY <1>3, <2>4, <3>1, <3>2 DEF CallTypeOK
  <2>8. CallTypeOK'
    BY <1>2, <1>3, <1>6, <2>7 DEF CallTypeOK
  <2> QED BY <1>2, <2>5, <2>6, <2>8 DEF SafeInv, TypeOK
<1>9. CASE FillFrame
  <2>1. /\ x_vector_buffer' = CopyData(x_vector_buffer, p)
        /\ d_last_timestamp' = IF d_last_timestamp = 0 THEN p.ts
                               ELSE d_last_timestamp
        /\ multipacket_frame_pkt_ctr' = multipacket_frame_pkt_ctr + 1
        /\ UNCHANGED <<skippedPackets, x_vector_queue, seq_num_queue>>
    BY <1>9 DEF FillFrame, p
  <2>2. UNCHANGED <<output, sync_timestamp>>
    BY <1>1 DEF TakePacket, syncVars
  <2>3. FillTypeOK'
    BY <1>3, <1>5, <2>1 DEF FillTypeOK
  <2>4. CallTypeOK'
    BY <1>2, <1>3, <1>6, <2>1 DEF CallTypeOK
  <2>5. (OutTypeOK /\ TagsLockstep /\ TagsPresent /\ WorkBufferBound)'
    BY <2>1, <2>2 DEF SafeInv, TypeOK, OutTypeOK, TagsLockstep, TagsPresent,
                      WorkBufferBound
  <2> QED BY <1>2, <2>3, <2>4, <2>5 DEF SafeInv, TypeOK
<1> QED BY <1>7, <1>8, <1>9 DEF WorkLoop

-----------------------------------------------------------------------------
(* The end of the call. *)

(* Returning items drops as many frames as tags. *)
LEMMA SafeReturn == SafeInv /\ ReturnItems => SafeInv'
<1> SUFFICES ASSUME SafeInv, ReturnItems PROVE SafeInv'
    OBVIOUS
<1> DEFINE k == ItemsReturned
           Item == [data : Frame, tag : Tag]
           returned == [i \in 1 .. k |->
               [data |-> x_vector_queue[i],
                tag  |-> IF sync_timestamp = 0 THEN seq_num_queue[i] ELSE None]]
<1>1. /\ x_vector_queue \in Seq(Frame) /\ seq_num_queue \in Seq(Nat)
      /\ output \in Seq(Item)
      /\ noutput_items \in 1 .. MaxOut
      /\ Len(x_vector_queue) <= MaxOut + MaxMissedSets
      /\ sync_timestamp = 0 => Len(seq_num_queue) = Len(x_vector_queue)
  BY DEF SafeInv, TypeOK, OutTypeOK, CallTypeOK, TagsLockstep, WorkBufferBound
<1>2. k \in 0 .. Len(x_vector_queue)
  BY <1>1 DEF ItemsReturned
<1>3. /\ output' = output \o returned
      /\ x_vector_queue' = SubSeq(x_vector_queue, k + 1, Len(x_vector_queue))
      /\ seq_num_queue' = IF sync_timestamp = 0
                          THEN SubSeq(seq_num_queue, k + 1, Len(seq_num_queue))
                          ELSE seq_num_queue
      /\ notified' = notified + (IF skippedPackets > 0 THEN skippedPackets ELSE 0)
      /\ EndOfCall
      /\ UNCHANGED <<netVars, syncVars, queueVars, takeVars, fillVars>>
  BY DEF ReturnItems
<1> HIDE DEF k
<1>4. \A i \in 1 .. k : /\ returned[i] \in Item
                        /\ sync_timestamp = 0 => returned[i].tag \in Nat
  <2> SUFFICES ASSUME NEW i \in 1 .. k
               PROVE  /\ returned[i] \in Item
                      /\ sync_timestamp = 0 => returned[i].tag \in Nat
      OBVIOUS
  <2>1. x_vector_queue[i] \in Frame
    BY <1>1, <1>2
  <2>2. sync_timestamp = 0 => seq_num_queue[i] \in Nat
    BY <1>1, <1>2
  <2> QED BY <2>1, <2>2 DEF Tag
<1>5. returned \in Seq(Item) /\ Len(returned) = k
  <2>1. k \in Nat
    BY <1>1, <1>2
  <2>2. returned \in [1 .. k -> Item]
    BY <1>4
  <2> HIDE DEF returned, Item
  <2> QED BY <2>1, <2>2, FunctionIsSeq
<1> HIDE DEF Item, returned
<1>6. output' \in Seq(Item)
  BY <1>1, <1>3, <1>5
<1>7. /\ x_vector_queue' \in Seq(Frame)
      /\ Len(x_vector_queue') = Len(x_vector_queue) - k
  BY <1>1, <1>2, <1>3
<1>8. /\ seq_num_queue' \in Seq(Nat)
      /\ sync_timestamp = 0 => Len(seq_num_queue') = Len(seq_num_queue) - k
  BY <1>1, <1>2, <1>3
<1>9. OutTypeOK'
  BY <1>6, <1>7, <1>8 DEF OutTypeOK, Item
<1>10. TagsLockstep' /\ WorkBufferBound'
  <2>1. sync_timestamp' = sync_timestamp
    BY <1>3 DEF syncVars
  <2> QED BY <1>1, <1>2, <1>7, <1>8, <2>1, SizesAssumption
          DEF TagsLockstep, WorkBufferBound
<1>11. TagsPresent'
  <2> SUFFICES ASSUME sync_timestamp' = 0, NEW i \in DOMAIN output'
               PROVE  output'[i].tag \in Nat
      BY DEF TagsPresent
  <2>1. sync_timestamp = 0
    BY <1>3 DEF syncVars
  <2>2. CASE i \in 1 .. Len(output)
    <3>1. output'[i] = output[i]
      BY <1>1, <1>3, <1>5, <2>2
    <3> QED BY <1>1, <2>1, <2>2, <3>1 DEF SafeInv, TagsPresent
  <2>3. CASE i \in Len(output) + 1 .. Len(output) + k
    <3>1. output'[i] = returned[i - Len(output)]
      BY <1>1, <1>2, <1>3, <1>5, <2>3
    <3>2. i - Len(output) \in 1 .. k
      BY <1>1, <1>2, <2>3
    <3> QED BY <1>4, <2>1, <3>1, <3>2
  <2> QED BY <1>1, <1>2, <1>3, <1>5, <2>2, <2>3
<1>12. /\ NetTypeOK' /\ SyncTypeOK' /\ QueueTypeOK' /\ TakeTypeOK'
       /\ FillTypeOK' /\ QueueBound'
  BY <1>3 DEF SafeInv, TypeOK, NetTypeOK, SyncTypeOK, QueueTypeOK, TakeTypeOK,
              FillTypeOK, QueueBound, netVars, syncVars, queueVars, takeVars,
              fillVars
<1>13. CallTypeOK' /\ PopSafe'
  BY <1>3, SizesAssumption
     DEF SafeInv, TypeOK, CallTypeOK, PopSafe, EndOfCall
<1> QED BY <1>9, <1>10, <1>11, <1>12, <1>13 DEF SafeInv, TypeOK

(* The sync message frees the tags from the frames' queue. *)
LEMMA SafeHandleSync == SafeInv /\ HandleSyncMsg => SafeInv'
<1> SUFFICES ASSUME SafeInv, HandleSyncMsg PROVE SafeInv'
    OBVIOUS
<1>1. UNCHANGED <<netVars, d_found_start_channel, d_send_sync_pmt,
                  async_volt_sync_hdr, published, queueVars, takeVars,
                  callVars, fillVars, outVars>>
  BY DEF HandleSyncMsg
<1>2. SyncTypeOK'
  BY <1>1 DEF HandleSyncMsg, SafeInv, TypeOK, SyncTypeOK, TagsPresent
<1>3. /\ NetTypeOK' /\ QueueTypeOK' /\ TakeTypeOK' /\ CallTypeOK'
      /\ FillTypeOK' /\ OutTypeOK'
  BY <1>1 DEF SafeInv, TypeOK, NetTypeOK, QueueTypeOK, TakeTypeOK, CallTypeOK,
              FillTypeOK, OutTypeOK, netVars, queueVars, takeVars, callVars,
              fillVars, outVars
<1>4. (PopSafe /\ QueueBound /\ TagsLockstep /\ TagsPresent /\ WorkBufferBound)'
  BY <1>1 DEF HandleSyncMsg, SafeInv, PopSafe, QueueBound, TagsLockstep,
              TagsPresent, WorkBufferBound, queueVars, callVars, outVars
<1> QED BY <1>2, <1>3, <1>4 DEF SafeInv, TypeOK

(* A step that changes nothing keeps the invariant. *)
LEMMA SafeStutter == SafeInv /\ UNCHANGED vars => SafeInv'
BY DEF vars, netVars, syncVars, queueVars, takeVars, callVars, fillVars, outVars,
       SafeInv, TypeOK, NetTypeOK, SyncTypeOK, QueueTypeOK, TakeTypeOK,
       CallTypeOK, FillTypeOK, OutTypeOK, PopSafe, QueueBound, TagsLockstep,
       TagsPresent, WorkBufferBound

(* SafeInv is an invariant of the specification. *)
LEMMA SafeInvariant == Spec => []SafeInv
<1>1. SafeInv /\ [Next]_vars => SafeInv'
  BY SafeNetwork, SafeReceive, SafeCall, SafeSyncPmt, SafeWorkLoop, SafeReturn,
     SafeHandleSync, SafeStutter DEF Next, Work
<1> QED BY <1>1, SafeInit, PTL DEF Spec

(* Every variable keeps its type. *)
THEOREM TypeCorrect == Spec => []TypeOK
<1>1. SafeInv => TypeOK
  BY DEF SafeInv
<1> QED BY <1>1, SafeInvariant, PTL

(* work_volt_mode() never pops an empty d_localqueue, whatever the receive   *)
(* thread pushes or overwrites after the packets were counted.               *)
THEOREM PopIsSafe == Spec => []PopSafe
<1>1. SafeInv => PopSafe
  BY DEF SafeInv
<1> QED BY <1>1, SafeInvariant, PTL

(* Every frame waiting for output has its tag, until the sync message comes. *)
THEOREM TagsInLockstep == Spec => []TagsLockstep
<1>1. SafeInv => TagsLockstep
  BY DEF SafeInv
<1> QED BY <1>1, SafeInvariant, PTL

(* The deque without a limit never holds more than one call's output and one *)
(* filled gap.                                                               *)
THEOREM WorkBufferIsBounded == Spec => []WorkBufferBound
<1>1. SafeInv => WorkBufferBound
  BY DEF SafeInv
<1> QED BY <1>1, SafeInvariant, PTL
-----------------------------------------------------------------------------
(* The second invariant: the frames are exact.  It holds of a network that   *)
(* loses packets but keeps their order, a port that receives only the        *)
(* configured channels, and timestamps that are not 0 (0 stands for "no      *)
(* frame yet" in d_last_timestamp).                                          *)

InOrderNetwork == ~Reordering /\ Foreign = {} /\ FirstTime > 0

Before(p, q) == p.ts < q.ts \/ (p.ts = q.ts /\ p.ch < q.ch)

(* From the SNAP to work(), the packets are in the order they were sent in. *)
OrderInv ==
    /\ \A p \in taken :
          /\ Before(p, next)
          /\ \A i \in 1 .. Len(d_localqueue) : Before(p, d_localqueue[i])
          /\ \A j \in 1 .. Len(sock) : Before(p, sock[j])
    /\ \A i \in 1 .. Len(d_localqueue) :
          /\ Before(d_localqueue[i], next)
          /\ \A j \in 1 .. Len(sock) : Before(d_localqueue[i], sock[j])
          /\ \A j \in i + 1 .. Len(d_localqueue) :
                Before(d_localqueue[i], d_localqueue[j])
    /\ \A i \in 1 .. Len(sock) :
          /\ Before(sock[i], next)
          /\ \A j \in i + 1 .. Len(sock) : Before(sock[i], sock[j])

(* frames is the stream of the packets from timestamp start on. *)
Aligned(frames, start, packets) ==
    \A i \in 1 .. Len(frames) :
        frames[i] = Stream!FrameOf(packets, start + i - 1)

(* Before the first packet there is nothing; after it, d_last_timestamp is   *)
(* the latest timestamp taken.                                               *)
TakenInv ==
    IF origin = None
    THEN /\ taken = {}
         /\ d_last_timestamp = 0
         /\ output = <<>> /\ x_vector_queue = <<>>
         /\ x_vector_buffer = ZeroFrame
    ELSE /\ d_last_timestamp >= origin
         /\ \A p \in taken : p.ts <= d_last_timestamp
         /\ \E p \in taken : p.ts = d_last_timestamp

(* The frame being filled holds the packets taken for it. *)
FillInv == ~OnePacket /\ origin # None =>
               x_vector_buffer = Stream!FrameOf(taken, d_last_timestamp)

(* Output and queue together have one frame for each timestamp before the    *)
(* one being filled (in one-packet mode, up to the last), all of them exact. *)
QueueInv == ~overran /\ origin # None =>
    /\ Len(output) + Len(x_vector_queue)
         = d_last_timestamp - origin + (IF OnePacket THEN 1 ELSE 0)
    /\ Aligned(x_vector_queue, origin + Len(output), taken)

(* The frames are those of the packets taken. *)
FramesInv == TakenInv /\ FillInv /\ QueueInv /\ OutputExact

ExactInv == OrderInv /\ FramesInv

(* The front packet is of the configured channels and not older than a       *)
(* packet taken, nor one of them again.                                      *)
InTurn ==
    /\ FirstTime > 0
    /\ LET p == Head(d_localqueue)
       IN  /\ p.ch \in Blocks
           /\ \A q \in taken : /\ q.ch \in Blocks
                               /\ q.ts < p.ts \/ (q.ts = p.ts /\ q.ch # p.ch)

(* Facts about frames. *)

(* What a frame must hold depends only on the packets of its timestamp. *)
LEMMA FrameOfOther ==
    ASSUME NEW packets, NEW p, NEW t, p.ts # t
    PROVE  Stream!FrameOf(packets \cup {p}, t) = Stream!FrameOf(packets, t)
BY DEF Stream!FrameOf

(* Copying a packet into the frame of its timestamp keeps the frame exact. *)
LEMMA FrameOfCopy ==
    ASSUME NEW packets, NEW p \in Packet, p.ch \in Blocks
    PROVE  CopyData(Stream!FrameOf(packets, p.ts), p)
               = Stream!FrameOf(packets \cup {p}, p.ts)
<1> DEFINE f == Stream!FrameOf(packets, p.ts)
           g == Stream!FrameOf(packets \cup {p}, p.ts)
<1>1. /\ f = [b \in Blocks |->
                 IF [ts |-> p.ts, ch |-> b] \in packets THEN p.ts ELSE Zero]
      /\ g = [b \in Blocks |->
                 IF [ts |-> p.ts, ch |-> b] \in packets \cup {p}
                 THEN p.ts ELSE Zero]
  BY DEF Stream!FrameOf, Blocks
<1>2. \A b \in Blocks : [ts |-> p.ts, ch |-> b] = p <=> b = p.ch
  BY DEF Packet
<1>3. CopyData(f, p) = [b \in Blocks |-> IF b = p.ch THEN p.ts ELSE f[b]]
  BY <1>1 DEF CopyData
<1>4. \A b \in Blocks :
         (IF b = p.ch THEN p.ts ELSE f[b])
           = IF [ts |-> p.ts, ch |-> b] \in packets \cup {p} THEN p.ts ELSE Zero
  BY <1>1, <1>2
<1> HIDE DEF f
<1>5. CopyData(f, p) = g
  BY <1>1, <1>3, <1>4
<1> QED BY <1>5 DEF f

(* With no packet taken for a timestamp, the exact frame is the zero frame. *)
LEMMA FrameOfNone ==
    ASSUME NEW packets, NEW t, \A p \in packets : p.ts # t
    PROVE  Stream!FrameOf(packets, t) = ZeroFrame
<1>1. \A b \in Blocks : [ts |-> t, ch |-> b] \notin packets
  <2> SUFFICES ASSUME NEW b \in Blocks, [ts |-> t, ch |-> b] \in packets
               PROVE  FALSE
      OBVIOUS
  <2>1. [ts |-> t, ch |-> b].ts = t
    OBVIOUS
  <2> QED BY <2>1
<1> QED BY <1>1 DEF Stream!FrameOf, ZeroFrame, Blocks

(* Facts about streams of frames. *)

(* Aligned frames followed by frames aligned from there are aligned. *)
LEMMA AlignedConcat ==
    ASSUME NEW S, NEW f \in Seq(S), NEW g \in Seq(S), NEW start \in Int,
           NEW packets,
           Aligned(f, start, packets), Aligned(g, start + Len(f), packets)
    PROVE  Aligned(f \o g, start, packets)
<1> SUFFICES ASSUME NEW i \in 1 .. Len(f \o g)
             PROVE  (f \o g)[i] = Stream!FrameOf(packets, start + i - 1)
    BY DEF Aligned
<1>1. /\ Len(f) \in Nat /\ Len(g) \in Nat
      /\ Len(f \o g) = Len(f) + Len(g)
      /\ (f \o g)[i] = IF i <= Len(f) THEN f[i] ELSE g[i - Len(f)]
  BY ConcatProperties, LenProperties
<1>2. CASE i <= Len(f)
  BY <1>1, <1>2 DEF Aligned
<1>3. CASE i > Len(f)
  <2>1. i - Len(f) \in 1 .. Len(g)
    BY <1>1, <1>3
  <2>2. g[i - Len(f)] =
            Stream!FrameOf(packets, start + Len(f) + (i - Len(f)) - 1)
    BY <2>1 DEF Aligned
  <2>3. start + Len(f) + (i - Len(f)) - 1 = start + i - 1
    BY <1>1
  <2> QED BY <1>1, <1>3, <2>2, <2>3
<1> QED BY <1>1, <1>2, <1>3

(* What remains of aligned frames is aligned from its own start. *)
LEMMA AlignedDrop ==
    ASSUME NEW S, NEW f \in Seq(S), NEW k \in 0 .. Len(f), NEW start \in Int,
           NEW packets, Aligned(f, start, packets)
    PROVE  Aligned(SubSeq(f, k + 1, Len(f)), start + k, packets)
<1> DEFINE g == SubSeq(f, k + 1, Len(f))
<1>1. Len(f) \in Nat /\ k \in Nat
  BY LenProperties
<1>2. Len(g) = Len(f) - k /\ \A i \in 1 .. Len(g) : g[i] = f[i + k]
  <2>1. \A i \in k + 1 .. Len(f) : f[i] \in S
    BY <1>1, ElementOfSeq
  <2>2. /\ Len(g) = IF k + 1 <= Len(f) THEN Len(f) - (k + 1) + 1 ELSE 0
        /\ \A i \in 1 .. Len(f) - (k + 1) + 1 : g[i] = f[(k + 1) + i - 1]
    BY <1>1, <2>1, SubSeqProperties
  <2>3. Len(g) = Len(f) - k
    BY <1>1, <2>2
  <2>4. ASSUME NEW i \in 1 .. Len(g)
        PROVE  g[i] = f[i + k]
    <3>1. (k + 1) + i - 1 = i + k /\ i \in 1 .. Len(f) - (k + 1) + 1
      BY <1>1, <2>3
    <3> QED BY <2>2, <3>1
  <2> QED BY <2>3, <2>4
<1> HIDE DEF g
<1>3. ASSUME NEW i \in 1 .. Len(g)
      PROVE  g[i] = Stream!FrameOf(packets, start + k + i - 1)
  <2>1. i + k \in 1 .. Len(f)
    BY <1>1, <1>2
  <2>2. f[i + k] = Stream!FrameOf(packets, start + (i + k) - 1)
    BY <2>1 DEF Aligned
  <2>3. start + (i + k) - 1 = start + k + i - 1
    BY <1>1, <1>2
  <2> QED BY <1>2, <2>2, <2>3
<1> QED BY <1>3 DEF Aligned, g

(* A packet of another time leaves the frames before it alone. *)
LEMMA AlignedLater ==
    ASSUME NEW S, NEW f \in Seq(S), NEW start \in Int, NEW packets, NEW p,
           p.ts \in Int, start + Len(f) <= p.ts, Aligned(f, start, packets)
    PROVE  Aligned(f, start, packets \cup {p})
<1> SUFFICES ASSUME NEW i \in 1 .. Len(f)
             PROVE  f[i] = Stream!FrameOf(packets \cup {p}, start + i - 1)
    BY DEF Aligned
<1>1. Len(f) \in Nat
  BY LenProperties
<1>2. p.ts # start + i - 1
  BY <1>1
<1>3. f[i] = Stream!FrameOf(packets, start + i - 1)
  BY DEF Aligned
<1> QED BY <1>2, <1>3, FrameOfOther

(* Frames of zeros, where no packet was taken. *)
LEMMA AlignedZeros ==
    ASSUME NEW n \in Nat, NEW start \in Int, NEW packets,
           \A q \in packets : q.ts \in Int /\ (q.ts < start \/ q.ts >= start + n)
    PROVE  Aligned([i \in 1 .. n |-> ZeroFrame], start, packets)
<1> DEFINE f == [i \in 1 .. n |-> ZeroFrame]
<1>1. f \in [1 .. n -> {ZeroFrame}]
  OBVIOUS
<1>2. Len(f) = n
  BY <1>1, FunctionIsSeq
<1>3. ASSUME NEW i \in 1 .. n
      PROVE  f[i] = Stream!FrameOf(packets, start + i - 1)
  <2>1. \A q \in packets : q.ts # start + i - 1
    OBVIOUS
  <2> QED BY <2>1, FrameOfNone
<1> QED BY <1>2, <1>3 DEF Aligned

(* Facts about the order of packets. *)

Stamp == [ts : Int, ch : Int]

(* The order in which packets are sent is transitive. *)
LEMMA BeforeTransitive ==
    ASSUME NEW p \in Stamp, NEW q \in Stamp, NEW r \in Stamp,
           Before(p, q), Before(q, r)
    PROVE  Before(p, r)
BY DEF Before, Stamp

(* In an ordered network every packet has a place in the order. *)
LEMMA PacketStamp == ASSUME InOrderNetwork PROVE Packet \subseteq Stamp
BY SizesAssumption DEF InOrderNetwork, Packet, Stamp, Times, Blocks

(* Everything on the way is a stamp. *)
LEMMA PipelineStamps ==
    ASSUME SafeInv, InOrderNetwork
    PROVE  /\ next \in Stamp
           /\ \A p \in taken : p \in Stamp
           /\ \A i \in 1 .. Len(d_localqueue) : d_localqueue[i] \in Stamp
           /\ \A i \in 1 .. Len(sock) : sock[i] \in Stamp
<1>1. next \in Stamp
  BY SizesAssumption DEF SafeInv, TypeOK, NetTypeOK, Stamp, Blocks
<1>2. /\ taken \subseteq Packet
      /\ d_localqueue \in Seq(Packet)
      /\ sock \in Seq(Packet)
  BY DEF SafeInv, TypeOK, TakeTypeOK, QueueTypeOK, NetTypeOK
<1>3. /\ \A i \in 1 .. Len(d_localqueue) : d_localqueue[i] \in Packet
      /\ \A i \in 1 .. Len(sock) : sock[i] \in Packet
  BY <1>2
<1> QED BY <1>1, <1>2, <1>3, PacketStamp

(* The packet sent next comes after the one sent before. *)
LEMMA SuccessorIsAfter ==
    ASSUME NEW p \in Stamp
    PROVE  Successor(p) \in Stamp /\ Before(p, Successor(p))
BY SizesAssumption DEF Successor, Before, Stamp

(* What is left of a circular buffer is the end of what was pushed. *)
LEMMA PushBackKeepsEnd ==
    ASSUME NEW S, NEW q \in Seq(S), NEW batch \in Seq(S)
    PROVE  LET r == PushBack(q, batch)
               d == Len(q \o batch) - Len(r)
           IN  d \in Nat /\ \A i \in 1 .. Len(r) : r[i] = (q \o batch)[i + d]
<1> DEFINE r == PushBack(q, batch)
           d == Len(q \o batch) - Len(r)
           all == q \o batch
<1> SUFFICES d \in Nat /\ \A i \in 1 .. Len(r) : r[i] = (q \o batch)[i + d]
    OBVIOUS
<1>1. all \in Seq(S) /\ Len(all) \in Nat
  BY ConcatProperties, LenProperties
<1> HIDE DEF all
<1>2. r = IF Len(all) <= NetBufSize THEN all
          ELSE SubSeq(all, Len(all) - NetBufSize + 1, Len(all))
  BY DEF PushBack, all, r
<1>3. d = Len(all) - Len(r)
  BY DEF all
<1> HIDE DEF r, d
<1>4. CASE Len(all) <= NetBufSize
  <2>1. r = all /\ d = 0
    BY <1>1, <1>2, <1>3, <1>4
  <2>2. \A i \in 1 .. Len(all) : i + 0 = i
    BY <1>1
  <2>3. d \in Nat /\ \A i \in 1 .. Len(r) : r[i] = all[i + d]
    BY <2>1, <2>2
  <2> QED BY <2>3 DEF all
<1>5. CASE Len(all) > NetBufSize
  <2> DEFINE e == Len(all) - NetBufSize
  <2>1. r = SubSeq(all, e + 1, Len(all))
    BY <1>1, <1>2, <1>5, SizesAssumption
  <2>2. e \in Nat /\ e <= Len(all)
    BY <1>1, <1>5, SizesAssumption
  <2> HIDE DEF e
  <2>3. \A i \in e + 1 .. Len(all) : all[i] \in S
    BY <1>1, <2>2, ElementOfSeq
  <2>4. /\ Len(r) = IF e + 1 <= Len(all) THEN Len(all) - (e + 1) + 1 ELSE 0
        /\ \A i \in 1 .. Len(all) - (e + 1) + 1 : r[i] = all[(e + 1) + i - 1]
    BY <1>1, <2>1, <2>2, <2>3, SubSeqProperties
  <2>5. Len(r) = Len(all) - e /\ d = e
    BY <1>1, <1>3, <2>2, <2>4
  <2>6. ASSUME NEW i \in 1 .. Len(r)
        PROVE  r[i] = all[i + d]
    <3>1. i \in Nat /\ i >= 1 /\ i <= Len(all) - e
      BY <1>1, <2>2, <2>5
    <3>2. i \in 1 .. Len(all) - (e + 1) + 1
      BY <1>1, <2>2, <3>1
    <3>3. (e + 1) + i - 1 = i + d
      BY <2>2, <2>5, <3>1
    <3> QED BY <2>4, <3>2, <3>3
  <2> QED BY <2>2, <2>5, <2>6 DEF all
<1>6. Len(all) <= NetBufSize \/ Len(all) > NetBufSize
  BY <1>1, SizesAssumption
<1> QED BY <1>4, <1>5, <1>6

-----------------------------------------------------------------------------
(* The steps keep the order. *)

(* The network keeps the packets in order. *)
LEMMA OrderNetwork ==
    ASSUME SafeInv, OrderInv, InOrderNetwork, Network
    PROVE  OrderInv'
<1>1. sock \in Seq(Packet) /\ next \in Stamp
  BY PipelineStamps DEF SafeInv, TypeOK, NetTypeOK
<1>2. Successor(next) \in Stamp /\ Before(next, Successor(next))
  BY <1>1, SuccessorIsAfter
<1>3. d_localqueue' = d_localqueue /\ taken' = taken
  BY DEF Network, Send, Lose, SendForeign, Reorder, Duplicate, queueVars, takeVars
<1>4. \/ /\ next.ts <= LastTime
         /\ sock' = Append(sock, next) /\ next' = Successor(next)
      \/ sock' = sock /\ next' = Successor(next)
  BY DEF Network, Send, Lose, SendForeign, Reorder, Duplicate, InOrderNetwork
<1>5. /\ \A p \in taken : Before(p, next')
      /\ \A i \in 1 .. Len(d_localqueue) : Before(d_localqueue[i], next')
      /\ \A i \in 1 .. Len(sock) : Before(sock[i], next')
  BY <1>1, <1>2, <1>4, PipelineStamps, BeforeTransitive DEF OrderInv
<1>6. CASE sock' = sock
  BY <1>3, <1>5, <1>6 DEF OrderInv
<1>7. CASE /\ next.ts <= LastTime
           /\ sock' = Append(sock, next) /\ next' = Successor(next)
  <2>1. next \in Packet
    BY <1>7 DEF SafeInv, TypeOK, NetTypeOK, Packet, Times
  <2>2. /\ Len(sock') = Len(sock) + 1
        /\ Len(sock) \in Nat
        /\ \A i \in 1 .. Len(sock) : sock'[i] = sock[i]
        /\ sock'[Len(sock) + 1] = next
    BY <1>1, <1>7, <2>1, AppendProperties, LenProperties
  <2>3. \A i \in 1 .. Len(sock') :
           \/ i \in 1 .. Len(sock) /\ sock'[i] = sock[i]
           \/ i = Len(sock) + 1 /\ sock'[i] = next
    BY <2>2
  <2>4. \A p \in taken : \A j \in 1 .. Len(sock') : Before(p, sock'[j])
    BY <2>3 DEF OrderInv
  <2>5. \A i \in 1 .. Len(d_localqueue) : \A j \in 1 .. Len(sock') :
            Before(d_localqueue[i], sock'[j])
    BY <2>3 DEF OrderInv
  <2>6. \A i \in 1 .. Len(sock') : Before(sock'[i], next')
    BY <1>2, <1>5, <1>7, <2>3
  <2>7. ASSUME NEW i \in 1 .. Len(sock'), NEW j \in i + 1 .. Len(sock')
        PROVE  Before(sock'[i], sock'[j])
    <3>1. i \in 1 .. Len(sock) /\ sock'[i] = sock[i]
      BY <2>2
    <3>2. CASE j = Len(sock) + 1
      BY <2>2, <3>1, <3>2 DEF OrderInv
    <3>3. CASE j \in 1 .. Len(sock)
      <4>1. j \in i + 1 .. Len(sock) /\ sock'[j] = sock[j]
        BY <2>2, <3>3
      <4> QED BY <3>1, <4>1 DEF OrderInv
    <3> QED BY <2>2, <3>2, <3>3
  <2> QED BY <1>3, <1>5, <2>4, <2>5, <2>6, <2>7 DEF OrderInv
<1> QED BY <1>4, <1>6, <1>7

(* The receive thread keeps the packets in order, also when it overwrites. *)
LEMMA OrderReceive ==
    ASSUME SafeInv, OrderInv, InOrderNetwork, MmsgReceive
    PROVE  OrderInv'
<1> DEFINE n == BatchLength
<1>1. sock \in Seq(Packet) /\ d_localqueue \in Seq(Packet)
  BY DEF SafeInv, TypeOK, NetTypeOK, QueueTypeOK
<1>2. n \in 1 .. Len(sock) /\ Len(sock) \in Nat /\ Len(d_localqueue) \in Nat
  BY <1>1, SizesAssumption, LenProperties DEF MmsgReceive, BatchLength
<1>3. next' = next /\ taken' = taken
  BY DEF MmsgReceive, takeVars
<1>4. sock' = SubSeq(sock, n + 1, Len(sock))
  BY DEF MmsgReceive
<1>5. PICK skip \in 0 .. n :
          d_localqueue' = PushBack(d_localqueue, SubSeq(sock, skip + 1, n))
  BY DEF MmsgReceive
<1> DEFINE batch == SubSeq(sock, skip + 1, n)
           all   == d_localqueue \o batch
<1> HIDE DEF n
<1>6. /\ batch \in Seq(Packet) /\ Len(batch) = n - skip
      /\ \A i \in 1 .. Len(batch) : batch[i] = sock[i + skip]
  <2>1. \A i \in skip + 1 .. n : sock[i] \in Packet
    BY <1>1, <1>2, ElementOfSeq
  <2>2. /\ batch \in Seq(Packet)
        /\ Len(batch) = IF skip + 1 <= n THEN n - (skip + 1) + 1 ELSE 0
        /\ \A i \in 1 .. n - (skip + 1) + 1 : batch[i] = sock[(skip + 1) + i - 1]
    BY <1>2, <2>1, SubSeqProperties
  <2> HIDE DEF batch
  <2>3. Len(batch) = n - skip
    BY <1>2, <2>2
  <2>4. ASSUME NEW i \in 1 .. Len(batch) PROVE batch[i] = sock[i + skip]
    <3>1. i \in 1 .. n - (skip + 1) + 1 /\ (skip + 1) + i - 1 = i + skip
      BY <1>2, <2>3
    <3> QED BY <2>2, <3>1
  <2> QED BY <2>2, <2>3, <2>4
<1>7. /\ Len(sock') = Len(sock) - n
      /\ \A i \in 1 .. Len(sock') : sock'[i] = sock[i + n]
  <2>1. \A i \in n + 1 .. Len(sock) : sock[i] \in Packet
    BY <1>1, <1>2, ElementOfSeq
  <2>2. /\ Len(sock') = IF n + 1 <= Len(sock) THEN Len(sock) - (n + 1) + 1 ELSE 0
        /\ \A i \in 1 .. Len(sock) - (n + 1) + 1 : sock'[i] = sock[(n + 1) + i - 1]
    BY <1>2, <1>4, <2>1, SubSeqProperties
  <2>3. Len(sock') = Len(sock) - n
    BY <1>2, <2>2
  <2>4. ASSUME NEW i \in 1 .. Len(sock') PROVE sock'[i] = sock[i + n]
    <3>1. i \in 1 .. Len(sock) - (n + 1) + 1 /\ (n + 1) + i - 1 = i + n
      BY <1>2, <2>3
    <3> QED BY <2>2, <3>1
  <2> QED BY <2>3, <2>4
<1> HIDE DEF batch
(* An element of all is one of the queue or one of the batch. *)
<1>8. /\ Len(all) = Len(d_localqueue) + Len(batch)
      /\ \A i \in 1 .. Len(all) :
            \/ i \in 1 .. Len(d_localqueue) /\ all[i] = d_localqueue[i]
            \/ /\ i - Len(d_localqueue) + skip \in skip + 1 .. n
               /\ i > Len(d_localqueue)
               /\ all[i] = sock[i - Len(d_localqueue) + skip]
  <2>1. /\ Len(all) = Len(d_localqueue) + Len(batch)
        /\ \A i \in 1 .. Len(d_localqueue) + Len(batch) : all[i] =
              IF i <= Len(d_localqueue) THEN d_localqueue[i]
              ELSE batch[i - Len(d_localqueue)]
    BY <1>1, <1>6, ConcatProperties
  <2> HIDE DEF all
  <2>2. ASSUME NEW i \in 1 .. Len(all), i > Len(d_localqueue)
        PROVE  /\ i - Len(d_localqueue) + skip \in skip + 1 .. n
               /\ all[i] = sock[i - Len(d_localqueue) + skip]
    <3> DEFINE k == i - Len(d_localqueue)
    <3>0. Len(batch) \in Nat /\ i \in 1 .. Len(d_localqueue) + Len(batch)
      <4>1. Len(batch) \in Nat
        BY <1>2, <1>6
      <4> QED BY <2>1, <4>1
    <3>1. k \in 1 .. Len(batch) /\ k \in Nat
      BY <1>2, <2>2, <3>0
    <3>2. all[i] = batch[k]
      <4>1. ~(i <= Len(d_localqueue))
        BY <1>2, <2>2, <3>0
      <4> QED BY <2>1, <3>0, <4>1
    <3>3. k + skip \in skip + 1 .. n
      BY <1>2, <1>6, <3>1
    <3> HIDE DEF k
    <3>4. batch[k] = sock[k + skip]
      BY <1>6, <3>1
    <3> QED BY <3>2, <3>3, <3>4 DEF k
  <2> QED BY <1>2, <2>1, <2>2
<1> HIDE DEF all
<1>9. Len(all) \in Nat
  BY <1>2, <1>6, <1>8
<1>10. ASSUME NEW i \in 1 .. Len(all)
       PROVE  /\ \A p \in taken : Before(p, all[i])
              /\ Before(all[i], next)
              /\ \A j \in 1 .. Len(sock') : Before(all[i], sock'[j])
  <2>1. \A j \in 1 .. Len(sock') :
            j + n \in n + 1 .. Len(sock) /\ sock'[j] = sock[j + n]
    BY <1>2, <1>7
  <2>2. CASE i \in 1 .. Len(d_localqueue) /\ all[i] = d_localqueue[i]
    <3>1. \A j \in 1 .. Len(sock') : j + n \in 1 .. Len(sock)
      BY <1>2, <2>1
    <3> QED BY <2>1, <2>2, <3>1 DEF OrderInv
  <2>3. CASE /\ i - Len(d_localqueue) + skip \in skip + 1 .. n
             /\ all[i] = sock[i - Len(d_localqueue) + skip]
    <3> DEFINE k == i - Len(d_localqueue) + skip
    <3>1. k \in 1 .. Len(sock)
      BY <1>2, <2>3
    <3>2. \A j \in 1 .. Len(sock') : j + n \in k + 1 .. Len(sock)
      <4>1. k <= n /\ k \in Int
        BY <1>2, <2>3
      <4> HIDE DEF k
      <4> QED BY <1>2, <2>1, <4>1
    <3> HIDE DEF k
    <3>3. all[i] = sock[k]
      BY <2>3 DEF k
    <3> QED BY <2>1, <3>1, <3>2, <3>3 DEF OrderInv
  <2> QED BY <1>8, <2>2, <2>3
<1>11. ASSUME NEW i \in 1 .. Len(all), NEW j \in i + 1 .. Len(all)
       PROVE  Before(all[i], all[j])
  <2>1. j \in 1 .. Len(all) /\ i \in Nat /\ j \in Nat
    BY <1>9
  <2>2. CASE i \in 1 .. Len(d_localqueue) /\ all[i] = d_localqueue[i]
    <3>1. CASE j \in 1 .. Len(d_localqueue) /\ all[j] = d_localqueue[j]
      <4>1. j \in i + 1 .. Len(d_localqueue)
        BY <1>2, <2>1, <3>1
      <4> QED BY <2>2, <3>1, <4>1 DEF OrderInv
    <3>2. CASE /\ j - Len(d_localqueue) + skip \in skip + 1 .. n
               /\ all[j] = sock[j - Len(d_localqueue) + skip]
      <4>1. j - Len(d_localqueue) + skip \in 1 .. Len(sock)
        BY <1>2, <3>2
      <4> QED BY <2>2, <3>2, <4>1 DEF OrderInv
    <3> QED BY <1>8, <2>1, <3>1, <3>2
  <2>3. CASE /\ i - Len(d_localqueue) + skip \in skip + 1 .. n
             /\ i > Len(d_localqueue)
             /\ all[i] = sock[i - Len(d_localqueue) + skip]
    <3> DEFINE a == i - Len(d_localqueue) + skip
               b == j - Len(d_localqueue) + skip
    <3>1. j > Len(d_localqueue)
      BY <1>2, <2>1, <2>3
    <3>2. b \in skip + 1 .. n /\ all[j] = sock[b]
      BY <1>2, <1>8, <2>1, <3>1
    <3>3. a \in 1 .. Len(sock) /\ b \in a + 1 .. Len(sock)
      <4>1. a \in 1 .. Len(sock)
        BY <1>2, <2>3
      <4>2. b <= n /\ b \in Int /\ a < b
        BY <1>2, <2>1, <3>2
      <4> HIDE DEF a, b
      <4> QED BY <1>2, <4>1, <4>2
    <3> HIDE DEF a, b
    <3>4. all[i] = sock[a]
      BY <2>3 DEF a
    <3> QED BY <3>2, <3>3, <3>4 DEF OrderInv
  <2> QED BY <1>8, <2>2, <2>3
<1>12. Len(d_localqueue') \in Nat
  <2>1. d_localqueue' \in Seq(Packet)
    BY SafeReceive DEF SafeInv, TypeOK, QueueTypeOK
  <2> QED BY <2>1, LenProperties
<1> DEFINE d == Len(all) - Len(d_localqueue')
<1>13. /\ d \in Nat
       /\ \A i \in 1 .. Len(d_localqueue') : d_localqueue'[i] = all[i + d]
  <2>1. d_localqueue' = PushBack(d_localqueue, batch)
    BY <1>5 DEF batch
  <2>2. d_localqueue \in Seq(Packet) /\ batch \in Seq(Packet)
    BY <1>1, <1>6
  <2> DEFINE r == PushBack(d_localqueue, batch)
             e == Len(d_localqueue \o batch) - Len(r)
  <2>3. e \in Nat /\ \A i \in 1 .. Len(r) : r[i] = (d_localqueue \o batch)[i + e]
    BY <2>2, PushBackKeepsEnd
  <2>4. r = d_localqueue' /\ e = d
    BY <2>1 DEF all
  <2> HIDE DEF r, e, d
  <2> QED BY <2>3, <2>4 DEF all
<1>14. \A i \in 1 .. Len(d_localqueue') :
           /\ i + d \in 1 .. Len(all)
           /\ \A j \in i + 1 .. Len(d_localqueue') :
                 j \in 1 .. Len(d_localqueue') /\ j + d \in (i + d) + 1 .. Len(all)
  BY <1>9, <1>12, <1>13
<1> HIDE DEF d
<1>15. ASSUME NEW i \in 1 .. Len(d_localqueue')
       PROVE  /\ \A p \in taken : Before(p, d_localqueue'[i])
              /\ Before(d_localqueue'[i], next)
              /\ \A j \in 1 .. Len(sock') : Before(d_localqueue'[i], sock'[j])
              /\ \A j \in i + 1 .. Len(d_localqueue') :
                    Before(d_localqueue'[i], d_localqueue'[j])
  <2>1. i + d \in 1 .. Len(all) /\ d_localqueue'[i] = all[i + d]
    BY <1>13, <1>14
  <2>2. ASSUME NEW j \in i + 1 .. Len(d_localqueue')
        PROVE  Before(d_localqueue'[i], d_localqueue'[j])
    <3>1. j + d \in (i + d) + 1 .. Len(all) /\ d_localqueue'[j] = all[j + d]
      BY <1>13, <1>14
    <3> QED BY <1>11, <2>1, <3>1
  <2> QED BY <1>10, <2>1, <2>2
<1>16. /\ \A p \in taken : \A j \in 1 .. Len(sock') : Before(p, sock'[j])
       /\ \A i \in 1 .. Len(sock') :
             /\ Before(sock'[i], next)
             /\ \A j \in i + 1 .. Len(sock') : Before(sock'[i], sock'[j])
  <2>1. \A i \in 1 .. Len(sock') :
            /\ i + n \in 1 .. Len(sock) /\ sock'[i] = sock[i + n]
            /\ \A j \in i + 1 .. Len(sock') :
                  /\ j + n \in (i + n) + 1 .. Len(sock)
                  /\ sock'[j] = sock[j + n]
    BY <1>2, <1>7
  <2>2. \A p \in taken : \A j \in 1 .. Len(sock') : Before(p, sock'[j])
    BY <2>1 DEF OrderInv
  <2>3. ASSUME NEW i \in 1 .. Len(sock')
        PROVE  /\ Before(sock'[i], next)
               /\ \A j \in i + 1 .. Len(sock') : Before(sock'[i], sock'[j])
    <3> DEFINE k == i + n
    <3>1. /\ k \in 1 .. Len(sock) /\ sock'[i] = sock[k]
          /\ \A j \in i + 1 .. Len(sock') :
                j + n \in k + 1 .. Len(sock) /\ sock'[j] = sock[j + n]
      BY <2>1
    <3> HIDE DEF k
    <3> QED BY <3>1 DEF OrderInv
  <2> QED BY <2>2, <2>3
<1> QED BY <1>3, <1>15, <1>16 DEF OrderInv

(* Taking a packet keeps the rest in order, and all of it after the packet. *)
LEMMA OrderTake ==
    ASSUME SafeInv, OrderInv, TakePacket
    PROVE  /\ OrderInv'
           /\ \A q \in taken : Before(q, Head(d_localqueue))
<1>1. /\ d_localqueue \in Seq(Packet)
      /\ d_localqueue # <<>>
      /\ Len(d_localqueue) \in Nat
  BY LenProperties, EmptySeq
     DEF SafeInv, TypeOK, QueueTypeOK, CallTypeOK, PopSafe, TakePacket
<1>2. /\ d_localqueue' = Tail(d_localqueue)
      /\ taken' = taken \cup {Head(d_localqueue)}
      /\ sock' = sock /\ next' = next
  BY DEF TakePacket, netVars
<1>3. /\ Len(d_localqueue) >= 1
      /\ Head(d_localqueue) = d_localqueue[1]
  BY <1>1, EmptySeq
<1>4. /\ Len(d_localqueue') = Len(d_localqueue) - 1
      /\ \A i \in 1 .. Len(d_localqueue') : d_localqueue'[i] = d_localqueue[i + 1]
  BY <1>1, <1>2, HeadTailProperties
<1>5. \A i \in 1 .. Len(d_localqueue') :
          /\ i + 1 \in 1 .. Len(d_localqueue) /\ i + 1 \in 2 .. Len(d_localqueue)
          /\ \A j \in i + 1 .. Len(d_localqueue') :
                /\ d_localqueue'[j] = d_localqueue[j + 1]
                /\ j + 1 \in (i + 1) + 1 .. Len(d_localqueue)
  BY <1>1, <1>4
<1>6. 1 \in 1 .. Len(d_localqueue)
  BY <1>1, <1>3
<1>7. \A j \in 2 .. Len(d_localqueue) : Before(d_localqueue[1], d_localqueue[j])
  <2>1. 1 + 1 = 2
    OBVIOUS
  <2> QED BY <1>6, <2>1 DEF OrderInv
<1>8. ASSUME NEW q \in taken'
      PROVE  /\ Before(q, next)
             /\ \A i \in 1 .. Len(d_localqueue') : Before(q, d_localqueue'[i])
             /\ \A j \in 1 .. Len(sock) : Before(q, sock[j])
  <2>1. CASE q \in taken
    BY <1>4, <1>5, <2>1 DEF OrderInv
  <2>2. CASE q = d_localqueue[1]
    BY <1>4, <1>5, <1>6, <1>7, <2>2 DEF OrderInv
  <2> QED BY <1>2, <1>3, <2>1, <2>2
<1>9. ASSUME NEW i \in 1 .. Len(d_localqueue')
      PROVE  /\ Before(d_localqueue'[i], next)
             /\ \A j \in 1 .. Len(sock) : Before(d_localqueue'[i], sock[j])
             /\ \A j \in i + 1 .. Len(d_localqueue') :
                   Before(d_localqueue'[i], d_localqueue'[j])
  BY <1>4, <1>5 DEF OrderInv
<1>10. \A q \in taken : Before(q, d_localqueue[1])
  BY <1>6 DEF OrderInv
<1>11. \A i \in 1 .. Len(sock) :
           /\ Before(sock[i], next)
           /\ \A j \in i + 1 .. Len(sock) : Before(sock[i], sock[j])
  BY DEF OrderInv
<1>12. OrderInv'
  BY <1>2, <1>8, <1>9, <1>11 DEF OrderInv
<1> QED BY <1>3, <1>10, <1>12

-----------------------------------------------------------------------------
(* The packet loop builds exact frames. *)

(* In order, a packet is never older than the frame being filled, and in     *)
(* one-packet mode it is newer.                                              *)
LEMMA TakenIsNotLater ==
    ASSUME SafeInv, TakenInv, InTurn, TakePacket
    PROVE  LET p == Head(d_localqueue)
           IN  /\ p \in Packet /\ p.ch \in Blocks /\ p.ts \in Nat /\ p.ts > 0
               /\ origin = None => d_last_timestamp = 0 /\ MissedSets(p) = 0
               /\ origin # None =>
                     /\ origin \in Nat /\ origin > 0
                     /\ d_last_timestamp \in Nat /\ d_last_timestamp >= origin
                     /\ \A q \in taken : q.ts \in Nat /\ q.ts <= d_last_timestamp
                     /\ d_last_timestamp <= p.ts
                     /\ OnePacket => d_last_timestamp < p.ts
                     /\ MissedSets(p) = IF p.ts = d_last_timestamp THEN 0
                                        ELSE p.ts - d_last_timestamp - 1
<1> DEFINE p == Head(d_localqueue)
<1>1. p \in Packet /\ p.ch \in Blocks
  BY SafeTake DEF InTurn
<1>2. \A q \in taken : /\ q.ch \in Blocks
                       /\ q.ts < p.ts \/ (q.ts = p.ts /\ q.ch # p.ch)
  BY DEF InTurn
<1>3. /\ taken \subseteq Packet /\ origin \in Times \cup {None}
      /\ d_last_timestamp \in Nat
  BY DEF SafeInv, TypeOK, TakeTypeOK, FillTypeOK
<1> HIDE DEF p
<1>4. \A q \in Packet : q.ts \in Nat /\ q.ts > 0
  BY SizesAssumption DEF Packet, Times, InTurn
<1>5. p.ts \in Nat /\ p.ts > 0
  BY <1>1, <1>4
<1>6. CASE origin = None
  BY <1>1, <1>5, <1>6 DEF TakenInv, MissedSets, p
<1>7. CASE origin # None
  <2>1. origin \in Nat /\ origin > 0
    BY <1>3, <1>7, SizesAssumption DEF Times, InTurn
  <2>2. /\ d_last_timestamp >= origin
        /\ \A q \in taken : q.ts \in Nat /\ q.ts <= d_last_timestamp
    BY <1>3, <1>4, <1>7 DEF TakenInv
  <2>3. PICK q \in taken : q.ts = d_last_timestamp
    BY <1>7 DEF TakenInv
  <2>4. q \in Packet /\ q.ch \in Blocks /\ (q.ts < p.ts \/ (q.ts = p.ts /\ q.ch # p.ch))
    BY <1>2, <1>3
  <2>5. d_last_timestamp <= p.ts
    BY <1>4, <1>5, <2>3, <2>4
  <2>6. ASSUME OnePacket PROVE d_last_timestamp < p.ts
    <3>1. q.ch = 0 /\ p.ch = 0
      BY <1>1, <2>4, <2>6 DEF OnePacket, Blocks
    <3> QED BY <1>4, <1>5, <2>3, <2>4, <3>1
  <2>7. MissedSets(p) = IF p.ts = d_last_timestamp THEN 0
                        ELSE p.ts - d_last_timestamp - 1
    BY <1>3, <1>5, <2>1, <2>2, <2>5 DEF MissedSets
  <2> QED BY <1>1, <1>3, <1>5, <1>7, <2>1, <2>2, <2>5, <2>6, <2>7 DEF p
<1> QED BY <1>6, <1>7

(* What the packet loop finds: the frames before p.ts are complete. *)
LEMMA QueuedBefore ==
    ASSUME SafeInv, FramesInv, InTurn, TakePacket, ~overran
    PROVE  LET p == Head(d_localqueue)
           IN  /\ origin' \in Nat
               /\ origin = None => /\ origin' = p.ts
                                   /\ output = <<>> /\ x_vector_queue = <<>>
               /\ origin # None =>
                     /\ origin' = origin
                     /\ origin + Len(output) + Len(x_vector_queue)
                           = d_last_timestamp + (IF OnePacket THEN 1 ELSE 0)
               /\ origin' + Len(output) + Len(x_vector_queue) <= p.ts
               /\ Aligned(x_vector_queue, origin' + Len(output), taken')
<1> DEFINE p == Head(d_localqueue)
<1>1. /\ p \in Packet /\ p.ts \in Nat /\ p.ts > 0
      /\ origin # None =>
            /\ origin \in Nat
            /\ d_last_timestamp \in Nat
            /\ d_last_timestamp <= p.ts
            /\ OnePacket => d_last_timestamp < p.ts
  BY TakenIsNotLater DEF FramesInv
<1>2. /\ origin' = IF origin = None THEN p.ts ELSE origin
      /\ taken' = taken \cup {p}
  BY DEF TakePacket
<1>3. /\ output \in Seq([data : Frame, tag : Tag]) /\ Len(output) \in Nat
      /\ x_vector_queue \in Seq(Frame) /\ Len(x_vector_queue) \in Nat
  BY LenProperties DEF SafeInv, TypeOK, OutTypeOK
<1> HIDE DEF p
<1>4. CASE origin = None
  <2>1. output = <<>> /\ x_vector_queue = <<>>
    BY <1>4 DEF FramesInv, TakenInv
  <2>2. Len(output) = 0 /\ Len(x_vector_queue) = 0
    BY <2>1, EmptySeq
  <2>3. Aligned(x_vector_queue, origin' + Len(output), taken')
    BY <2>2 DEF Aligned
  <2> QED BY <1>1, <1>2, <1>4, <2>1, <2>2, <2>3 DEF p
<1>5. CASE origin # None
  <2>1. /\ Len(output) + Len(x_vector_queue)
              = d_last_timestamp - origin + (IF OnePacket THEN 1 ELSE 0)
        /\ Aligned(x_vector_queue, origin + Len(output), taken)
    BY <1>5 DEF FramesInv, QueueInv
  <2>2. /\ origin + Len(output) + Len(x_vector_queue)
              = d_last_timestamp + (IF OnePacket THEN 1 ELSE 0)
        /\ origin + Len(output) + Len(x_vector_queue) <= p.ts
    <3>1. /\ origin \in Nat /\ d_last_timestamp \in Nat
          /\ d_last_timestamp <= p.ts
          /\ OnePacket => d_last_timestamp < p.ts
      BY <1>1, <1>5
    <3>2. CASE OnePacket
      BY <1>1, <1>3, <2>1, <3>1, <3>2
    <3>3. CASE ~OnePacket
      BY <1>1, <1>3, <2>1, <3>1, <3>3
    <3> QED BY <3>2, <3>3
  <2>3. /\ origin + Len(output) \in Int
        /\ origin + Len(output) + Len(x_vector_queue) <= p.ts
    BY <1>1, <1>3, <1>5, <2>2
  <2>4. Aligned(x_vector_queue, origin + Len(output), taken \cup {p})
    BY <1>1, <1>3, <2>1, <2>3, AlignedLater
  <2> QED BY <1>1, <1>2, <1>5, <2>2, <2>4 DEF p
<1> QED BY <1>4, <1>5

(* Taking a packet changes no frame already handed on. *)
LEMMA ExactOutputTake ==
    ASSUME SafeInv, FramesInv, InTurn, TakePacket
    PROVE  OutputExact'
<1> DEFINE p == Head(d_localqueue)
<1> SUFFICES ASSUME ~overran', NEW i \in DOMAIN output'
             PROVE  output'[i].data = Stream!FrameOf(taken', origin' + i - 1)
    BY DEF OutputExact
<1>1. output' = output /\ taken' = taken \cup {p} /\ ~overran
  BY DEF TakePacket
<1>2. /\ Len(output) \in Nat /\ Len(x_vector_queue) \in Nat
      /\ i \in 1 .. Len(output)
  BY <1>1, LenProperties DEF SafeInv, TypeOK, OutTypeOK
<1>3. /\ origin' \in Nat
      /\ origin = None => output = <<>>
      /\ origin # None => origin' = origin
      /\ origin' + Len(output) + Len(x_vector_queue) <= p.ts
  BY <1>1, QueuedBefore
<1>4. p.ts \in Nat
  BY TakenIsNotLater DEF FramesInv
<1> HIDE DEF p
<1>5. origin # None /\ origin' = origin
  BY <1>2, <1>3, EmptySeq
<1>6. output[i].data = Stream!FrameOf(taken, origin + i - 1)
  BY <1>1, <1>2 DEF FramesInv, OutputExact
<1>7. p.ts # origin + i - 1
  BY <1>2, <1>3, <1>4, <1>5
<1> QED BY <1>1, <1>5, <1>6, <1>7, FrameOfOther

(* After taking a packet, its timestamp is the latest one taken. *)
LEMMA TakenTake ==
    ASSUME SafeInv, FramesInv, InTurn, WorkLoop
    PROVE  TakenInv'
<1> DEFINE p == Head(d_localqueue)
<1>1. TakePacket
  BY DEF WorkLoop, QueueOnePacketFrame, StartNextFrame, FillFrame
<1>2. /\ p.ts \in Nat /\ p.ts > 0
      /\ origin = None => d_last_timestamp = 0
      /\ origin # None =>
            /\ origin \in Nat
            /\ d_last_timestamp \in Nat /\ d_last_timestamp >= origin
            /\ \A q \in taken : q.ts \in Nat /\ q.ts <= d_last_timestamp
            /\ d_last_timestamp <= p.ts
            /\ d_last_timestamp > 0
  BY <1>1, TakenIsNotLater DEF FramesInv
<1>3. /\ origin' = IF origin = None THEN p.ts ELSE origin
      /\ taken' = taken \cup {p}
  BY <1>1 DEF TakePacket
<1>4. d_last_timestamp' = p.ts
  <2>1. CASE QueueOnePacketFrame
    BY <2>1 DEF QueueOnePacketFrame
  <2>2. CASE StartNextFrame
    BY <2>2 DEF StartNextFrame
  <2>3. CASE FillFrame
    BY <1>2, <2>3 DEF FillFrame, NextFrame
  <2> QED BY <2>1, <2>2, <2>3 DEF WorkLoop
<1> HIDE DEF p
<1>5. origin' # None
  BY <1>2, <1>3, ValuesAssumption
<1>6. /\ p.ts >= origin'
      /\ \A q \in taken' : q.ts <= p.ts
  <2>1. CASE origin = None
    <3>1. taken = {}
      BY <2>1 DEF FramesInv, TakenInv
    <3> QED BY <1>2, <1>3, <2>1, <3>1
  <2>2. CASE origin # None
    BY <1>2, <1>3, <2>2
  <2> QED BY <2>1, <2>2
<1>7. \E q \in taken' : q.ts = p.ts
  BY <1>3
<1> QED BY <1>4, <1>5, <1>6, <1>7 DEF TakenInv

(* After taking a packet, the buffer holds the packets of its timestamp. *)
LEMMA FillTake ==
    ASSUME SafeInv, FramesInv, InTurn, WorkLoop
    PROVE  FillInv'
<1> DEFINE p == Head(d_localqueue)
<1> SUFFICES ASSUME ~OnePacket
             PROVE  x_vector_buffer' = Stream!FrameOf(taken', d_last_timestamp')
    BY DEF FillInv
<1>1. TakePacket /\ (StartNextFrame \/ FillFrame)
  BY DEF WorkLoop, QueueOnePacketFrame, StartNextFrame, FillFrame
<1>2. /\ p \in Packet /\ p.ch \in Blocks /\ p.ts \in Nat
      /\ origin = None => d_last_timestamp = 0
      /\ origin # None =>
            /\ d_last_timestamp \in Nat /\ d_last_timestamp > 0
            /\ \A q \in taken : q.ts \in Nat /\ q.ts <= d_last_timestamp
            /\ d_last_timestamp <= p.ts
  BY <1>1, TakenIsNotLater DEF FramesInv
<1>3. taken' = taken \cup {p}
  BY <1>1 DEF TakePacket
<1>4. CASE StartNextFrame
  <2>1. /\ x_vector_buffer' = CopyData(ZeroFrame, p)
        /\ d_last_timestamp' = p.ts
        /\ d_last_timestamp > 0 /\ p.ts # d_last_timestamp
    BY <1>4 DEF StartNextFrame, NextFrame
  <2> HIDE DEF p
  <2>2. \A q \in taken : q.ts # p.ts
    BY <1>2, <2>1
  <2>3. Stream!FrameOf(taken, p.ts) = ZeroFrame
    BY <2>2, FrameOfNone
  <2>4. CopyData(Stream!FrameOf(taken, p.ts), p)
            = Stream!FrameOf(taken \cup {p}, p.ts)
    BY <1>2, FrameOfCopy
  <2> QED BY <1>3, <2>1, <2>3, <2>4
<1>5. CASE FillFrame
  <2>1. /\ x_vector_buffer' = CopyData(x_vector_buffer, p)
        /\ ~NextFrame(p)
        /\ d_last_timestamp' = IF d_last_timestamp = 0 THEN p.ts
                               ELSE d_last_timestamp
    BY <1>5 DEF FillFrame
  <2> HIDE DEF p
  <2>2. d_last_timestamp' = p.ts
    BY <1>2, <2>1 DEF NextFrame
  <2>3. x_vector_buffer = Stream!FrameOf(taken, p.ts)
    <3>1. CASE origin = None
      <4>1. x_vector_buffer = ZeroFrame /\ taken = {}
        BY <3>1 DEF FramesInv, TakenInv
      <4>2. Stream!FrameOf({}, p.ts) = ZeroFrame
        BY FrameOfNone
      <4> QED BY <4>1, <4>2
    <3>2. CASE origin # None
      <4>1. p.ts = d_last_timestamp
        BY <1>2, <2>1, <3>2 DEF NextFrame
      <4> QED BY <3>2, <4>1 DEF FramesInv, FillInv
    <3> QED BY <3>1, <3>2
  <2>4. CopyData(Stream!FrameOf(taken, p.ts), p)
            = Stream!FrameOf(taken \cup {p}, p.ts)
    BY <1>2, FrameOfCopy
  <2> QED BY <1>3, <2>1, <2>2, <2>3, <2>4
<1> QED BY <1>1, <1>4, <1>5

(* With one packet per frame, the packet is the whole frame. *)
LEMMA OneBlockFrame ==
    ASSUME OnePacket, NEW p \in Packet, p.ch \in Blocks, NEW packets, p \in packets, NEW buffer \in Frame
    PROVE  CopyData(buffer, p) = Stream!FrameOf(packets, p.ts)
<1>1. Blocks = {0} /\ p.ch = 0
  BY DEF OnePacket, Blocks
<1>2. p = [ts |-> p.ts, ch |-> 0]
  BY <1>1 DEF Packet
<1>3. CopyData(buffer, p) = [b \in Blocks |-> p.ts]
  BY <1>1 DEF CopyData, Frame
<1>4. Stream!FrameOf(packets, p.ts) = [b \in Blocks |-> p.ts]
  <2>1. \A b \in Blocks : [ts |-> p.ts, ch |-> b] \in packets
    BY <1>1, <1>2
  <2> QED BY <2>1 DEF Stream!FrameOf, Blocks
<1> QED BY <1>3, <1>4

(* The zero fill covers exactly the times without a packet. *)
LEMMA ZeroFillAligned ==
    ASSUME SafeInv, NEW p \in Packet, NEW start \in Nat, NEW packets,
           p.ts \in Nat, start <= p.ts, MissedSets(p) = p.ts - start,
           MissedSets(p) <= MaxMissedSets,
           \A q \in packets : q.ts \in Nat /\ (q.ts < start \/ q.ts >= p.ts)
    PROVE  /\ ZeroFill(p) \in Seq(Frame) /\ Len(ZeroFill(p)) = p.ts - start
           /\ Aligned(ZeroFill(p), start, packets)
<1>1. /\ ZeroFill(p) \in Seq(Frame) /\ Len(ZeroFill(p)) = FilledIn(p)
  BY ZeroFillType DEF SafeInv, TypeOK
<1>2. FilledIn(p) = p.ts - start
  BY DEF FilledIn
<1> DEFINE n == p.ts - start
<1>3. n \in Nat /\ ZeroFill(p) = [i \in 1 .. n |-> ZeroFrame]
  BY <1>2 DEF ZeroFill
<1>4. \A q \in packets : q.ts \in Int /\ (q.ts < start \/ q.ts >= start + n)
  OBVIOUS
<1> HIDE DEF n
<1>5. Aligned([i \in 1 .. n |-> ZeroFrame], start, packets)
  BY <1>3, <1>4, AlignedZeros
<1> QED BY <1>1, <1>2, <1>3, <1>5

(* One exact frame is aligned at its timestamp. *)
LEMMA AlignedSingle ==
    ASSUME NEW f, NEW start \in Int, NEW packets,
           f = Stream!FrameOf(packets, start)
    PROVE  Aligned(<<f>>, start, packets)
<1>1. \A i \in 1 .. Len(<<f>>) : i = 1 /\ <<f>>[i] = f /\ start + i - 1 = start
  OBVIOUS
<1> QED BY <1>1 DEF Aligned

(* No gap has exceeded the limit, so this one does not either. *)
LEMMA NoOverrun ==
    ASSUME SafeInv, TakePacket, ~overran'
    PROVE  ~overran /\ MissedSets(Head(d_localqueue)) <= MaxMissedSets
<1> DEFINE m == MissedSets(Head(d_localqueue))
<1>1. m \in Nat
  BY SafeTake, ZeroFillType DEF SafeInv, TypeOK
<1>2. overran' = (overran \/ m > MaxMissedSets)
  BY DEF TakePacket
<1> HIDE DEF m
<1>3. ~overran /\ ~(m > MaxMissedSets)
  BY <1>2, Zenon
<1>4. m <= MaxMissedSets
  BY <1>1, <1>3, SizesAssumption
<1> QED BY <1>3, <1>4 DEF m

(* Each way of taking a packet extends the stream of queued frames by the    *)
(* frames that the packet completes.                                         *)
LEMMA QueueOnePacket ==
    ASSUME SafeInv, FramesInv, InTurn, QueueOnePacketFrame, ~overran'
    PROVE  QueueInv'
<1> DEFINE p      == Head(d_localqueue)
           start  == origin' + Len(output) + Len(x_vector_queue)
           f      == CopyData(x_vector_buffer, p)
           frames == Append(ZeroFill(p), f)
<1>1. OnePacket /\ TakePacket
  BY DEF QueueOnePacketFrame
<1>2. /\ taken' = taken \cup {p} /\ output' = output
      /\ ~overran /\ MissedSets(p) <= MaxMissedSets
      /\ d_last_timestamp' = p.ts
      /\ x_vector_queue' = x_vector_queue \o frames
  BY <1>1, NoOverrun DEF TakePacket, QueueOnePacketFrame, QueueFrames
<1>3. /\ p \in Packet /\ p.ch \in Blocks /\ p.ts \in Nat
      /\ origin = None => MissedSets(p) = 0
      /\ origin # None =>
            /\ d_last_timestamp \in Nat
            /\ \A q \in taken : q.ts \in Nat /\ q.ts <= d_last_timestamp
            /\ d_last_timestamp < p.ts
            /\ MissedSets(p) = IF p.ts = d_last_timestamp THEN 0
                               ELSE p.ts - d_last_timestamp - 1
  BY <1>1, TakenIsNotLater DEF FramesInv
<1>4. /\ origin' \in Nat
      /\ origin = None => /\ origin' = p.ts
                          /\ output = <<>> /\ x_vector_queue = <<>>
      /\ origin # None =>
            origin + Len(output) + Len(x_vector_queue) = d_last_timestamp + 1
      /\ origin # None => origin' = origin
      /\ start <= p.ts
      /\ Aligned(x_vector_queue, origin' + Len(output), taken')
  BY <1>1, <1>2, QueuedBefore
<1>5. /\ x_vector_queue \in Seq(Frame) /\ x_vector_buffer \in Frame
      /\ Len(x_vector_queue) \in Nat /\ Len(output) \in Nat
  BY LenProperties DEF SafeInv, TypeOK, OutTypeOK, FillTypeOK
<1> HIDE DEF p
<1>6. /\ start \in Nat
      /\ MissedSets(p) = p.ts - start
      /\ \A q \in taken' : q.ts \in Nat /\ (q.ts < start \/ q.ts >= p.ts)
  <2>1. CASE origin = None
    <3>1. Len(output) = 0 /\ Len(x_vector_queue) = 0
      BY <1>4, <2>1, EmptySeq
    <3>2. taken = {}
      BY <2>1 DEF FramesInv, TakenInv
    <3>3. start = p.ts /\ taken' = {p} /\ MissedSets(p) = 0
      BY <1>2, <1>3, <1>4, <2>1, <3>1, <3>2
    <3> HIDE DEF start
    <3> QED BY <1>3, <3>3
  <2>2. CASE origin # None
    <3>1. start = d_last_timestamp + 1
      BY <1>4, <2>2
    <3> HIDE DEF start
    <3> QED BY <1>2, <1>3, <2>2, <3>1
  <2> QED BY <2>1, <2>2
<1>7. /\ ZeroFill(p) \in Seq(Frame) /\ Len(ZeroFill(p)) = p.ts - start
      /\ Aligned(ZeroFill(p), start, taken')
  <2> HIDE DEF start
  <2> QED BY <1>2, <1>3, <1>4, <1>6, ZeroFillAligned
<1>8. f \in Frame /\ f = Stream!FrameOf(taken', p.ts)
  BY <1>1, <1>2, <1>3, <1>5, CopyDataType, OneBlockFrame
<1> HIDE DEF f
<1>9. frames = ZeroFill(p) \o <<f>>
  BY <1>7, <1>8, AppendIsConcat
<1>10. /\ frames \in Seq(Frame) /\ Len(frames) = p.ts - start + 1
       /\ Aligned(frames, start, taken')
  <2> HIDE DEF start
  <2>1. <<f>> \in Seq(Frame) /\ Len(<<f>>) = 1
    BY <1>8
  <2>2. start + Len(ZeroFill(p)) = p.ts
    BY <1>3, <1>6, <1>7
  <2>3. Aligned(<<f>>, p.ts, taken')
    BY <1>3, <1>8, AlignedSingle
  <2>4. Aligned(ZeroFill(p) \o <<f>>, start, taken')
    <3> DEFINE z == ZeroFill(p)
               g == <<f>>
    <3>1. /\ z \in Seq(Frame) /\ g \in Seq(Frame) /\ start \in Int
          /\ Aligned(z, start, taken') /\ Aligned(g, start + Len(z), taken')
      BY <1>6, <1>7, <2>1, <2>2, <2>3
    <3> HIDE DEF z, g
    <3>2. Aligned(z \o g, start, taken')
      BY <3>1, AlignedConcat
    <3> QED BY <3>2 DEF z, g
  <2>5. /\ ZeroFill(p) \o <<f>> \in Seq(Frame)
        /\ Len(ZeroFill(p) \o <<f>>) = Len(ZeroFill(p)) + 1
    BY <1>7, <2>1, ConcatProperties
  <2> QED BY <1>7, <1>9, <2>4, <2>5
<1> HIDE DEF frames
<1>11. Aligned(x_vector_queue \o frames, origin' + Len(output), taken')
  <2>1. origin' + Len(output) \in Int
    BY <1>4, <1>5
  <2> QED BY <1>4, <1>5, <1>10, <2>1, AlignedConcat
<1>12. Len(x_vector_queue') = Len(x_vector_queue) + (p.ts - start + 1)
  <2>1. Len(x_vector_queue') = Len(x_vector_queue) + Len(frames)
    BY <1>2, <1>5, <1>10, ConcatProperties
  <2> QED BY <1>10, <2>1
<1>13. Len(output) + Len(x_vector_queue') = p.ts - origin' + 1
  <2>1. /\ origin' \in Int /\ Len(output) \in Int /\ Len(x_vector_queue) \in Int
        /\ p.ts \in Int
    BY <1>3, <1>4, <1>5
  <2>2. Len(x_vector_queue') = Len(x_vector_queue)
            + (p.ts - (origin' + Len(output) + Len(x_vector_queue)) + 1)
    BY <1>12
  <2> DEFINE o == origin'
             l == Len(output)
             q == Len(x_vector_queue)
             t == p.ts
  <2>3. o \in Int /\ l \in Int /\ q \in Int /\ t \in Int
    BY <2>1
  <2> HIDE DEF o, l, q, t
  <2>4. l + (q + (t - (o + l + q) + 1)) = t - o + 1
    BY <2>3
  <2> QED BY <2>2, <2>4 DEF o, l, q, t
<1>14. OnePacket'
  BY <1>1 DEF OnePacket
<1> QED BY <1>1, <1>2, <1>11, <1>13, <1>14 DEF QueueInv, OnePacket

(* A packet of a later timestamp completes exactly the frames before it. *)
LEMMA QueueStartNext ==
    ASSUME SafeInv, FramesInv, InTurn, StartNextFrame, ~overran'
    PROVE  QueueInv'
<1> DEFINE p      == Head(d_localqueue)
           last   == d_last_timestamp
           frames == <<x_vector_buffer>> \o ZeroFill(p)
<1>1. /\ ~OnePacket /\ TakePacket
      /\ last > 0 /\ p.ts # last
  BY DEF StartNextFrame, NextFrame
<1>2. /\ taken' = taken \cup {p} /\ output' = output
      /\ ~overran /\ MissedSets(p) <= MaxMissedSets
      /\ d_last_timestamp' = p.ts
      /\ x_vector_queue' = x_vector_queue \o frames
  BY <1>1, NoOverrun DEF TakePacket, StartNextFrame, QueueFrames
<1>3. /\ p \in Packet /\ p.ts \in Nat
      /\ origin # None
      /\ last \in Nat /\ last < p.ts
      /\ \A q \in taken : q.ts \in Nat /\ q.ts <= last
      /\ MissedSets(p) = p.ts - last - 1
  <2>1. origin # None
    BY <1>1 DEF FramesInv, TakenInv
  <2> QED BY <1>1, <2>1, TakenIsNotLater DEF FramesInv
<1>4. /\ origin' \in Nat /\ origin' = origin
      /\ origin' + Len(output) + Len(x_vector_queue) = last
      /\ Aligned(x_vector_queue, origin' + Len(output), taken')
  <2>1. /\ origin' \in Nat /\ origin' = origin
        /\ origin + Len(output) + Len(x_vector_queue) = last + 0
        /\ Aligned(x_vector_queue, origin' + Len(output), taken')
    BY <1>1, <1>2, <1>3, QueuedBefore
  <2> QED BY <1>3, <2>1
<1>5. /\ x_vector_queue \in Seq(Frame) /\ x_vector_buffer \in Frame
      /\ Len(x_vector_queue) \in Nat /\ Len(output) \in Nat
  BY LenProperties DEF SafeInv, TypeOK, OutTypeOK, FillTypeOK
<1> HIDE DEF p
<1>6. x_vector_buffer = Stream!FrameOf(taken', last)
  <2>1. x_vector_buffer = Stream!FrameOf(taken, last)
    BY <1>1, <1>3 DEF FramesInv, FillInv
  <2> QED BY <1>1, <1>2, <2>1, FrameOfOther
<1>7. /\ ZeroFill(p) \in Seq(Frame) /\ Len(ZeroFill(p)) = p.ts - (last + 1)
      /\ Aligned(ZeroFill(p), last + 1, taken')
  <2>1. /\ last + 1 \in Nat /\ last + 1 <= p.ts
        /\ MissedSets(p) = p.ts - (last + 1)
        /\ \A q \in taken' : q.ts \in Nat /\ (q.ts < last + 1 \/ q.ts >= p.ts)
    BY <1>2, <1>3
  <2> QED BY <1>2, <1>3, <2>1, ZeroFillAligned
<1>8. /\ frames \in Seq(Frame) /\ Len(frames) = p.ts - last
      /\ Aligned(frames, last, taken')
  <2>1. <<x_vector_buffer>> \in Seq(Frame) /\ Len(<<x_vector_buffer>>) = 1
    BY <1>5
  <2>2. Aligned(<<x_vector_buffer>>, last, taken')
    BY <1>3, <1>6, AlignedSingle
  <2>3. Aligned(frames, last, taken')
    <3> DEFINE z == ZeroFill(p)
               g == <<x_vector_buffer>>
    <3>1. /\ z \in Seq(Frame) /\ g \in Seq(Frame) /\ last \in Int
          /\ Aligned(g, last, taken') /\ Aligned(z, last + Len(g), taken')
      BY <1>3, <1>7, <2>1, <2>2
    <3> HIDE DEF z, g
    <3>2. Aligned(g \o z, last, taken')
      BY <3>1, AlignedConcat
    <3> QED BY <3>2 DEF z, g
  <2>4. frames \in Seq(Frame) /\ Len(frames) = 1 + Len(ZeroFill(p))
    BY <1>7, <2>1, ConcatProperties
  <2> QED BY <1>3, <1>7, <2>3, <2>4
<1> HIDE DEF frames
<1>9. Aligned(x_vector_queue \o frames, origin' + Len(output), taken')
  <2>1. origin' + Len(output) \in Int
    BY <1>4, <1>5
  <2> QED BY <1>4, <1>5, <1>8, <2>1, AlignedConcat
<1>10. Len(x_vector_queue') = Len(x_vector_queue) + (p.ts - last)
  BY <1>2, <1>5, <1>8, ConcatProperties
<1>11. Len(output) + Len(x_vector_queue') = p.ts - origin'
  <2>1. /\ origin' \in Int /\ Len(output) \in Int /\ Len(x_vector_queue) \in Int
        /\ p.ts \in Int
    BY <1>3, <1>4, <1>5
  <2>2. \A o, l, q, t \in Int : l + (q + (t - (o + l + q))) = t - o
    OBVIOUS
  <2> QED BY <1>4, <1>10, <2>1, <2>2
<1> QED BY <1>1, <1>2, <1>3, <1>4, <1>9, <1>11 DEF QueueInv, OnePacket

(* A packet of the timestamp being filled completes no frame. *)
LEMMA QueueFill ==
    ASSUME SafeInv, FramesInv, InTurn, FillFrame, ~overran'
    PROVE  QueueInv'
<1> DEFINE p == Head(d_localqueue)
<1>1. ~OnePacket /\ TakePacket /\ ~NextFrame(p)
  BY DEF FillFrame
<1>2. /\ output' = output /\ ~overran /\ x_vector_queue' = x_vector_queue
      /\ d_last_timestamp' = IF d_last_timestamp = 0 THEN p.ts
                             ELSE d_last_timestamp
  BY <1>1 DEF TakePacket, FillFrame
<1>3. /\ p.ts \in Nat
      /\ origin = None => d_last_timestamp = 0
      /\ origin # None => d_last_timestamp \in Nat /\ d_last_timestamp > 0
  BY <1>1, TakenIsNotLater DEF FramesInv
<1>4. /\ origin' \in Nat
      /\ origin = None => /\ origin' = p.ts
                          /\ output = <<>> /\ x_vector_queue = <<>>
      /\ origin # None =>
            /\ origin' = origin
            /\ origin + Len(output) + Len(x_vector_queue) = d_last_timestamp + 0
      /\ Aligned(x_vector_queue, origin' + Len(output), taken')
  BY <1>1, <1>2, QueuedBefore
<1>5. Len(x_vector_queue) \in Nat /\ Len(output) \in Nat
  BY LenProperties DEF SafeInv, TypeOK, OutTypeOK
<1> HIDE DEF p
<1>6. Len(output) + Len(x_vector_queue) = d_last_timestamp' - origin'
  <2>1. CASE origin = None
    BY <1>2, <1>3, <1>4, <2>1, EmptySeq
  <2>2. CASE origin # None
    BY <1>2, <1>3, <1>4, <1>5, <2>2
  <2> QED BY <2>1, <2>2
<1> QED BY <1>1, <1>2, <1>4, <1>5, <1>6, <1>3 DEF QueueInv, OnePacket

(* Output and queue stay exact whichever way a packet is taken. *)
LEMMA QueueTake ==
    ASSUME SafeInv, FramesInv, InTurn, WorkLoop
    PROVE  QueueInv'
<1> SUFFICES ASSUME ~overran' PROVE QueueInv'
    BY DEF QueueInv
<1> QED BY QueueOnePacket, QueueStartNext, QueueFill DEF WorkLoop

(* The exactness invariant holds initially. *)
LEMMA ExactInit == Init => ExactInv
<1> SUFFICES ASSUME Init PROVE ExactInv
    OBVIOUS
<1>1. /\ taken = {} /\ origin = None /\ d_last_timestamp = 0
      /\ output = <<>> /\ x_vector_queue = <<>> /\ x_vector_buffer = ZeroFrame
      /\ d_localqueue = <<>> /\ sock = <<>>
  BY DEF Init
<1>2. OrderInv
  BY <1>1 DEF OrderInv
<1>3. TakenInv /\ FillInv /\ QueueInv /\ OutputExact
  BY <1>1 DEF TakenInv, FillInv, QueueInv, OutputExact
<1> QED BY <1>2, <1>3 DEF ExactInv, FramesInv

(* Handing frames on moves them from the queue to the output. *)
LEMMA FramesReturned ==
    ASSUME SafeInv, FramesInv, ReturnItems
    PROVE  FramesInv'
<1> DEFINE k == ItemsReturned
           returned == [i \in 1 .. k |->
               [data |-> x_vector_queue[i],
                tag  |-> IF sync_timestamp = 0 THEN seq_num_queue[i] ELSE None]]
<1>1. /\ x_vector_queue \in Seq(Frame) /\ output \in Seq([data : Frame, tag : Tag])
      /\ Len(x_vector_queue) \in Nat /\ Len(output) \in Nat
      /\ noutput_items \in 1 .. MaxOut
      /\ d_last_timestamp \in Nat /\ origin \in Times \cup {None}
  BY LenProperties
     DEF SafeInv, TypeOK, OutTypeOK, CallTypeOK, FillTypeOK, TakeTypeOK
<1>2. k \in 0 .. Len(x_vector_queue)
  BY <1>1 DEF ItemsReturned
<1>3. /\ output' = output \o returned
      /\ x_vector_queue' = SubSeq(x_vector_queue, k + 1, Len(x_vector_queue))
  BY DEF ReturnItems
<1>4. UNCHANGED <<netVars, queueVars, takeVars, fillVars>>
  BY DEF ReturnItems
<1> HIDE DEF k
<1>5. /\ \A i \in 1 .. k : returned[i].data = x_vector_queue[i]
      /\ returned \in Seq({returned[i] : i \in 1 .. k}) /\ Len(returned) = k
  <2>1. k \in Nat
    BY <1>1, <1>2
  <2>2. returned \in [1 .. k -> {returned[i] : i \in 1 .. k}]
    OBVIOUS
  <2>3. \A i \in 1 .. k : returned[i].data = x_vector_queue[i]
    OBVIOUS
  <2> HIDE DEF returned
  <2> QED BY <2>1, <2>2, <2>3, FunctionIsSeq
<1> HIDE DEF returned
<1>6. /\ Len(x_vector_queue') = Len(x_vector_queue) - k
      /\ Len(output') = Len(output) + k
      /\ \A i \in 1 .. Len(output') :
            output'[i] = IF i <= Len(output) THEN output[i]
                         ELSE returned[i - Len(output)]
      /\ DOMAIN output' = 1 .. Len(output')
  <2>1. Len(x_vector_queue') = Len(x_vector_queue) - k
    BY <1>1, <1>2, <1>3
  <2> DEFINE S == [data : Frame, tag : Tag] \cup {returned[i] : i \in 1 .. k}
  <2>2. output \in Seq(S) /\ returned \in Seq(S)
    <3>1. \A T, U, s : T \subseteq U /\ s \in Seq(T) => s \in Seq(U)
      BY SeqDef
    <3> QED BY <1>1, <1>5, <3>1
  <2> HIDE DEF S
  <2>3. /\ output' \in Seq(S)
        /\ Len(output') = Len(output) + k
        /\ \A i \in 1 .. Len(output) + k :
              output'[i] = IF i <= Len(output) THEN output[i]
                           ELSE returned[i - Len(output)]
    BY <1>3, <1>5, <2>2, ConcatProperties
  <2>4. DOMAIN output' = 1 .. Len(output')
    BY <2>3, LenProperties
  <2> QED BY <2>1, <2>3, <2>4
<1>7. FillInv'
  BY <1>4 DEF FramesInv, FillInv, OnePacket, takeVars, fillVars
<1>8. TakenInv'
  <2>1. CASE origin = None
    <3>1. output = <<>> /\ x_vector_queue = <<>>
      BY <2>1 DEF FramesInv, TakenInv
    <3>2. Len(output') = 0 /\ Len(x_vector_queue') = 0
      BY <1>1, <1>2, <1>6, <3>1
    <3>3. output' = <<>> /\ x_vector_queue' = <<>>
      BY <1>3, <1>1, <1>2, <3>1, <3>2
    <3> QED BY <1>4, <2>1, <3>3 DEF FramesInv, TakenInv, takeVars, fillVars
  <2>2. CASE origin # None
    BY <1>4, <2>2 DEF FramesInv, TakenInv, takeVars, fillVars
  <2> QED BY <2>1, <2>2
<1>9. UNCHANGED <<overran, origin, taken, d_last_timestamp>>
  BY <1>4 DEF takeVars, fillVars
<1>10. QueueInv' /\ OutputExact'
  <2> SUFFICES ASSUME ~overran', origin' # None
               PROVE  QueueInv' /\ OutputExact'
    <3>1. ASSUME origin' = None PROVE OutputExact'
      <4>1. DOMAIN output' = {}
        BY <1>8, <3>1 DEF TakenInv
      <4> QED BY <4>1 DEF OutputExact
    <3> QED BY <3>1 DEF QueueInv, OutputExact
  <2>1. ~overran /\ origin # None
    BY <1>9
  <2>2. origin \in Int
    BY <1>1, <2>1, SizesAssumption DEF Times
  <2>3. /\ Len(output) + Len(x_vector_queue)
              = d_last_timestamp - origin + (IF OnePacket THEN 1 ELSE 0)
        /\ Aligned(x_vector_queue, origin + Len(output), taken)
    BY <2>1 DEF FramesInv, QueueInv
  <2>4. QueueInv'
    <3>1. Aligned(x_vector_queue', (origin + Len(output)) + k, taken)
      BY <1>1, <1>2, <1>3, <2>2, <2>3, AlignedDrop
    <3>2. (origin + Len(output)) + k = origin + Len(output')
      BY <1>1, <1>2, <1>6, <2>2
    <3>3. Len(output') + Len(x_vector_queue')
              = Len(output) + Len(x_vector_queue)
      BY <1>1, <1>2, <1>6
    <3> QED BY <1>9, <2>3, <3>1, <3>2, <3>3 DEF QueueInv, OnePacket
  <2>5. OutputExact'
    <3> SUFFICES ASSUME NEW i \in 1 .. Len(output')
                 PROVE  output'[i].data = Stream!FrameOf(taken, origin + i - 1)
      BY <1>6, <1>9 DEF OutputExact
    <3>1. CASE i <= Len(output)
      BY <1>1, <1>6, <2>1, <3>1 DEF FramesInv, OutputExact
    <3>2. CASE i > Len(output)
      <4>1. i - Len(output) \in 1 .. k /\ i - Len(output) \in 1 .. Len(x_vector_queue)
        BY <1>1, <1>2, <1>6, <3>2
      <4>2. output'[i].data = x_vector_queue[i - Len(output)]
        BY <1>1, <1>5, <1>6, <3>2, <4>1
      <4>3. x_vector_queue[i - Len(output)]
                = Stream!FrameOf(taken, origin + Len(output) + (i - Len(output)) - 1)
        BY <2>3, <4>1 DEF Aligned
      <4>4. origin + Len(output) + (i - Len(output)) - 1 = origin + i - 1
        BY <1>1, <2>2
      <4> QED BY <4>2, <4>3, <4>4
    <3> QED BY <1>1, <3>1, <3>2
  <2> QED BY <2>4, <2>5
<1> QED BY <1>7, <1>8, <1>10 DEF FramesInv

(* Taking the next packet in turn keeps the frames exact. *)
LEMMA FramesTake ==
    ASSUME SafeInv, FramesInv, InTurn, WorkLoop
    PROVE  FramesInv'
<1>1. TakePacket
  BY DEF WorkLoop, QueueOnePacketFrame, StartNextFrame, FillFrame
<1>2. OutputExact'
  BY <1>1, ExactOutputTake
<1> QED BY <1>2, TakenTake, FillTake, QueueTake DEF FramesInv

(* Steps that take no packet and return no frame leave the frames alone. *)
LEMMA FramesUnchanged ==
    ASSUME FramesInv, UNCHANGED <<takeVars, fillVars, outVars>>
    PROVE  FramesInv'
BY DEF FramesInv, TakenInv, FillInv, QueueInv, OutputExact, OnePacket, Aligned,
       takeVars, fillVars, outVars

(* In an ordered network every packet is taken in its turn. *)
LEMMA TakenInTurn ==
    ASSUME SafeInv, ExactInv, InOrderNetwork, TakePacket
    PROVE  InTurn /\ FramesInv
<1> DEFINE p == Head(d_localqueue)
<1>1. p \in Packet /\ taken \subseteq Packet
  BY SafeTake DEF SafeInv, TypeOK, TakeTypeOK
<1>2. \A q \in taken : Before(q, p)
  BY OrderTake DEF ExactInv
<1>3. \A q \in Packet : q.ts \in Int /\ q.ch \in Int /\ q.ch \in Blocks
  BY SizesAssumption DEF Packet, Times, Blocks, InOrderNetwork
<1> HIDE DEF p
<1>4. \A q \in taken : q.ts < p.ts \/ (q.ts = p.ts /\ q.ch # p.ch)
  BY <1>1, <1>2, <1>3 DEF Before
<1> QED BY <1>1, <1>3, <1>4 DEF InTurn, ExactInv, InOrderNetwork, p

(* Taking a packet keeps the exactness invariant. *)
LEMMA ExactWorkLoop ==
    ASSUME SafeInv, ExactInv, InOrderNetwork, WorkLoop
    PROVE  ExactInv'
<1>1. TakePacket
  BY DEF WorkLoop, QueueOnePacketFrame, StartNextFrame, FillFrame
<1>2. OrderInv'
  BY <1>1, OrderTake DEF ExactInv
<1>3. FramesInv'
  BY <1>1, TakenInTurn, FramesTake
<1> QED BY <1>2, <1>3 DEF ExactInv

(* Packets move towards the queue. *)
LEMMA ExactArrival ==
    ASSUME SafeInv, ExactInv, InOrderNetwork, Network \/ MmsgReceive
    PROVE  ExactInv'
<1>1. UNCHANGED <<takeVars, fillVars, outVars>>
  BY DEF Network, Send, Lose, SendForeign, Reorder, Duplicate, MmsgReceive
<1>2. FramesInv'
  BY <1>1, FramesUnchanged DEF ExactInv
<1>3. OrderInv'
  BY OrderNetwork, OrderReceive DEF ExactInv
<1> QED BY <1>2, <1>3 DEF ExactInv

(* Steps that leave the frames and the packets alone keep it. *)
LEMMA ExactUnchanged ==
    ASSUME ExactInv,
           UNCHANGED <<netVars, queueVars, takeVars, fillVars, outVars>>
    PROVE  ExactInv'
<1>1. OrderInv'
  BY DEF ExactInv, OrderInv, netVars, queueVars, takeVars
<1> QED BY <1>1, FramesUnchanged DEF ExactInv

(* Every step keeps the exactness invariant. *)
LEMMA ExactNext ==
    ASSUME SafeInv, ExactInv, InOrderNetwork, [Next]_vars
    PROVE  ExactInv'
<1>1. CASE Network \/ MmsgReceive
  BY <1>1, ExactArrival
<1>2. CASE WorkLoop
  BY <1>2, ExactWorkLoop
<1>3. CASE ReturnItems
  <2>1. OrderInv'
    BY <1>3 DEF ReturnItems, ExactInv, OrderInv, netVars, queueVars, takeVars
  <2> QED BY <1>3, <2>1, FramesReturned DEF ExactInv
<1>4. CASE WorkCall
  BY <1>4, ExactUnchanged DEF WorkCall
<1>5. CASE PollPackets
  BY <1>5, ExactUnchanged DEF PollPackets
<1>6. CASE GiveUp
  BY <1>6, ExactUnchanged DEF GiveUp
<1>7. CASE SendSyncPmt
  BY <1>7, ExactUnchanged DEF SendSyncPmt
<1>8. CASE HandleSyncMsg
  BY <1>8, ExactUnchanged DEF HandleSyncMsg
<1>9. CASE UNCHANGED vars
  BY <1>9, ExactUnchanged DEF vars
<1>10. CASE Work
  BY <1>2, <1>3, <1>4, <1>5, <1>6, <1>7, <1>10 DEF Work
<1>11. CASE Next
  BY <1>1, <1>8, <1>10, <1>11 DEF Next
<1> QED BY <1>9, <1>11

(* ExactInv is an invariant when the network keeps the order. *)
LEMMA ExactInvariant == ASSUME InOrderNetwork PROVE Spec => [](SafeInv /\ ExactInv)
<1>1. SafeInv /\ ExactInv /\ [Next]_vars => ExactInv'
  BY ExactNext
<1> QED BY <1>1, ExactInit, SafeInvariant, PTL DEF Spec

(* With the network in order, every frame handed on is the frame of its      *)
(* place in time and holds exactly the packets taken for it, whatever was    *)
(* lost or overwritten and however the calls of work() cut the stream, until *)
(* a gap exceeds MAX_MISSED_SETS.                                            *)
THEOREM OutputIsExact == ASSUME InOrderNetwork PROVE Spec => []OutputExact
<1>1. SafeInv /\ ExactInv => OutputExact
  BY DEF ExactInv, FramesInv
<1> QED BY <1>1, ExactInvariant, PTL
=============================================================================
