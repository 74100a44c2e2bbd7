-------------------------- MODULE SnapStreamProofs --------------------------
(***************************************************************************)
(* What TLAPS proves of the stream that the SNAP source in voltage mode    *)
(* hands on: the header message before it, what a frame may mix, its tags, *)
(* the packets reported missing, and that it is an AlignedStream.          *)
(***************************************************************************)
EXTENDS SnapVoltageProofs, MCSnapVoltage, FiniteSetTheorems

-----------------------------------------------------------------------------
(* The sync header. *)

(* Before the block of the starting channel is found nothing goes on; until  *)
(* work() has seen d_send_sync_pmt no packet is taken; then the message is   *)
(* out, and the packet it names is the first to be taken.                    *)
HeaderInv ==
    /\ ~d_found_start_channel =>
          d_localqueue = <<>> /\ ~d_send_sync_pmt /\ pc \in {"idle", "poll"}
    /\ ~d_found_start_channel \/ d_send_sync_pmt =>
          /\ published = <<>> /\ origin = None
          /\ x_vector_queue = <<>> /\ output = <<>>
          /\ pc # "loop"
    /\ d_found_start_channel /\ ~d_send_sync_pmt =>
          published = <<async_volt_sync_hdr>>
    /\ d_found_start_channel /\ ~overwrote =>
          IF origin = None
          THEN d_localqueue # <<>> /\ Head(d_localqueue).ts = async_volt_sync_hdr
          ELSE origin = async_volt_sync_hdr

(* The front of a queue that is pushed to without overwriting.               *)
LEMMA PushBackFront ==
    ASSUME NEW S, NEW q \in Seq(S), NEW batch \in Seq(S),
           Len(q) + Len(batch) <= NetBufSize
    PROVE  /\ PushBack(q, batch) = q \o batch
           /\ q = <<>> => PushBack(q, batch) = batch
           /\ q # <<>> => /\ PushBack(q, batch) # <<>>
                          /\ Head(PushBack(q, batch)) = Head(q)
<1>1. Len(q \o batch) = Len(q) + Len(batch)
  OBVIOUS
<1>2. PushBack(q, batch) = q \o batch
  BY <1>1 DEF PushBack
<1>3. q = <<>> => q \o batch = batch
  OBVIOUS
<1>4. q # <<>> => q \o batch # <<>> /\ Head(q \o batch) = Head(q)
  OBVIOUS
<1> QED BY <1>2, <1>3, <1>4

(* The receive thread: the first packet that it pushes is the one that the   *)
(* message names.                                                            *)
LEMMA HeaderReceive == SafeInv /\ HeaderInv /\ MmsgReceive => HeaderInv'
<1> SUFFICES ASSUME SafeInv, HeaderInv, MmsgReceive PROVE HeaderInv'
    OBVIOUS
<1>1. PICK skip \in 0 .. BatchLength :
         /\ DropsBeforeStart(skip)
         /\ LET accepted == SubSeq(sock, skip + 1, BatchLength)
            IN  /\ d_localqueue' = PushBack(d_localqueue, accepted)
                /\ overwrote' = (overwrote \/
                       Len(d_localqueue) + Len(accepted) > NetBufSize)
         /\ d_found_start_channel' = (d_found_start_channel \/ Synced(skip))
         /\ d_send_sync_pmt' = (d_send_sync_pmt \/ Synced(skip))
         /\ async_volt_sync_hdr' = IF Synced(skip) THEN SyncHdr(skip)
                                   ELSE async_volt_sync_hdr
  BY DEF MmsgReceive
<1> DEFINE accepted == SubSeq(sock, skip + 1, BatchLength)
<1>2. UNCHANGED <<published, origin, x_vector_queue, output, pc>>
  BY DEF MmsgReceive, takeVars, outVars, callVars
<1>3. /\ sock \in Seq(Packet) /\ d_localqueue \in Seq(Packet)
      /\ BatchLength \in 0 .. Len(sock) /\ skip \in Nat
  BY SizesAssumption DEF SafeInv, TypeOK, NetTypeOK, QueueTypeOK, BatchLength
<1>4. /\ accepted \in Seq(Packet)
      /\ skip < BatchLength => accepted # <<>> /\ Head(accepted) = sock[skip + 1]
      /\ skip = BatchLength => accepted = <<>>
  BY <1>3
<1>5. d_found_start_channel => ~Synced(skip)
  BY DEF Synced
<1>6. /\ d_localqueue' = PushBack(d_localqueue, accepted)
      /\ overwrote' = (overwrote \/ Len(d_localqueue) + Len(accepted) > NetBufSize)
  BY <1>1
<1> HIDE DEF accepted
<1>7. CASE d_found_start_channel
  <2>1. /\ d_found_start_channel' /\ d_send_sync_pmt' = d_send_sync_pmt
        /\ async_volt_sync_hdr' = async_volt_sync_hdr
    <3>1. ~Synced(skip)
      BY <1>5, <1>7
    <3>2. d_send_sync_pmt \in BOOLEAN
      BY DEF SafeInv, TypeOK, SyncTypeOK
    <3>3. d_send_sync_pmt' = d_send_sync_pmt
      BY <1>1, <3>1, <3>2, Zenon
    <3> QED BY <1>1, <1>7, <3>1, <3>3, Zenon
  <2>2. ASSUME ~overwrote', origin = None
        PROVE  d_localqueue' # <<>> /\ Head(d_localqueue').ts = async_volt_sync_hdr
    <3>1. ~overwrote /\ ~(Len(d_localqueue) + Len(accepted) > NetBufSize)
      BY <1>6, <2>2, Zenon
    <3>2. d_localqueue # <<>> /\ Head(d_localqueue).ts = async_volt_sync_hdr
      BY <1>7, <2>2, <3>1 DEF HeaderInv
    <3>3. Len(d_localqueue) + Len(accepted) <= NetBufSize
      BY <1>3, <1>4, <3>1, SizesAssumption
    <3> QED BY <1>3, <1>4, <1>6, <3>2, <3>3, PushBackFront
  <2>3. ASSUME ~overwrote' PROVE ~overwrote
    BY <1>6, <2>3, Zenon
  <2> QED BY <1>2, <1>7, <2>1, <2>2, <2>3, Zenon DEF HeaderInv
<1>8. CASE ~d_found_start_channel
  <2>1. /\ d_localqueue = <<>> /\ ~d_send_sync_pmt /\ pc \in {"idle", "poll"}
        /\ published = <<>> /\ origin = None
        /\ x_vector_queue = <<>> /\ output = <<>>
    BY <1>8 DEF HeaderInv
  <2>2. CASE Synced(skip)
    <3>1. skip < BatchLength
      BY <2>2 DEF Synced
    <3>2. /\ d_found_start_channel' /\ d_send_sync_pmt'
          /\ async_volt_sync_hdr' = sock[skip + 1].ts
      BY <1>1, <2>2 DEF SyncHdr
    <3>3. ASSUME ~overwrote'
          PROVE  d_localqueue' # <<>> /\ Head(d_localqueue').ts = sock[skip + 1].ts
      <4>1. ~(Len(d_localqueue) + Len(accepted) > NetBufSize)
        BY <1>6, <3>3, Zenon
      <4>2. Len(d_localqueue) + Len(accepted) <= NetBufSize
        BY <1>3, <1>4, <4>1, SizesAssumption
      <4>3. d_localqueue' = accepted
        BY <1>3, <1>4, <1>6, <2>1, <4>2, PushBackFront
      <4> QED BY <1>4, <3>1, <4>3
    <3> QED BY <1>2, <2>1, <3>2, <3>3 DEF HeaderInv
  <2>3. CASE ~Synced(skip)
    <3>1. skip = BatchLength
      BY <1>3, <1>8, <2>3 DEF Synced
    <3>2. d_localqueue' = <<>>
      BY <1>4, <1>6, <2>1, <3>1, SizesAssumption DEF PushBack
    <3>3. ~d_found_start_channel' /\ ~d_send_sync_pmt'
      BY <1>1, <1>8, <2>1, <2>3, Zenon
    <3> QED BY <1>2, <2>1, <3>2, <3>3 DEF HeaderInv
  <2> QED BY <2>2, <2>3
<1> QED BY <1>7, <1>8

(* The steps of work() and of the network.                                   *)
LEMMA HeaderStep == SafeInv /\ HeaderInv /\ [Next]_vars => HeaderInv'
<1> SUFFICES ASSUME SafeInv, HeaderInv, [Next]_vars PROVE HeaderInv'
    OBVIOUS
<1> USE DEF HeaderInv
<1>1. CASE Network
  BY <1>1 DEF Network, Send, Lose, SendForeign, Reorder, Duplicate, syncVars,
              queueVars, takeVars, callVars, outVars
<1>2. CASE MmsgReceive
  BY <1>2, HeaderReceive
<1>3. CASE WorkCall
  BY <1>3 DEF WorkCall, syncVars, queueVars, takeVars, outVars
<1>4. CASE PollPackets
  BY <1>4 DEF PollPackets, syncVars, queueVars, takeVars, outVars
<1>5. CASE GiveUp
  BY <1>5 DEF GiveUp, EndOfCall, syncVars, queueVars, takeVars, outVars
<1>6. CASE SendSyncPmt
  <2>1. pc = "pmt" /\ pc' = "loop" /\ d_found_start_channel
    BY <1>6 DEF SendSyncPmt
  <2>2. UNCHANGED <<d_found_start_channel, async_volt_sync_hdr, queueVars,
                    takeVars, outVars>>
    BY <1>6 DEF SendSyncPmt
  <2>3. /\ ~d_send_sync_pmt'
        /\ published' = <<async_volt_sync_hdr>>
    <3>1. d_send_sync_pmt' = FALSE
      BY <1>6 DEF SendSyncPmt
    <3>2. CASE d_send_sync_pmt
      <4>1. published = <<>> /\ published' = Append(published, async_volt_sync_hdr)
        BY <1>6, <3>2 DEF SendSyncPmt
      <4> QED BY <3>1, <4>1
    <3>3. CASE ~d_send_sync_pmt
      BY <1>6, <2>1, <3>1, <3>3 DEF SendSyncPmt
    <3> QED BY <3>2, <3>3
  <2> QED BY <2>1, <2>2, <2>3 DEF queueVars, takeVars, outVars
<1>7. CASE WorkLoop
  <2>1. TakePacket
    BY <1>7 DEF WorkLoop, QueueOnePacketFrame, StartNextFrame, FillFrame
  <2>2. /\ pc = "loop" /\ pc' = "loop"
        /\ UNCHANGED <<syncVars, overwrote, output>>
        /\ origin' = IF origin = None THEN Head(d_localqueue).ts ELSE origin
    BY <2>1 DEF TakePacket
  <2>3. d_found_start_channel /\ ~d_send_sync_pmt
    BY <2>2
  <2>4. origin' # None
    <3>1. Head(d_localqueue) \in Packet
      BY <2>1, SafeTake
    <3>2. Head(d_localqueue).ts \in Int
      BY <3>1, SizesAssumption DEF Packet, Times
    <3> QED BY <2>2, <3>2, ValuesAssumption
  <2>5. ~overwrote => origin' = async_volt_sync_hdr
    BY <2>2, <2>3
  <2> QED BY <2>2, <2>3, <2>4, <2>5 DEF syncVars
<1>8. CASE ReturnItems
  <2>1. /\ pc = "loop" /\ pc' = "idle"
        /\ UNCHANGED <<syncVars, queueVars, takeVars>>
    BY <1>8 DEF ReturnItems, EndOfCall
  <2> QED BY <2>1 DEF syncVars, queueVars, takeVars
<1>9. CASE HandleSyncMsg
  BY <1>9 DEF HandleSyncMsg, queueVars, takeVars, callVars, outVars
<1>10. CASE UNCHANGED vars
  BY <1>10 DEF vars, syncVars, queueVars, takeVars, callVars, outVars
<1> QED BY <1>1, <1>2, <1>3, <1>4, <1>5, <1>6, <1>7, <1>8, <1>9, <1>10
        DEF Next, Work

(* Whatever the network does, the sync_header message is sent once and       *)
(* before the first frame, and it names the first packet taken if            *)
(* d_localqueue has never overwritten one: d_send_sync_pmt, which crosses    *)
(* the threads without a lock of its own, is neither lost nor late.          *)
THEOREM HeaderIsFirst == Spec => []SyncHeaderFirst
<1>1. Init => HeaderInv
  BY DEF Init, HeaderInv
<1>2. SafeInv /\ HeaderInv => SyncHeaderFirst
  <2> SUFFICES ASSUME SafeInv, HeaderInv PROVE SyncHeaderFirst
      OBVIOUS
  <2>1. CASE ~d_found_start_channel \/ d_send_sync_pmt
    <3>1. published = <<>> /\ output = <<>>
      BY <2>1 DEF HeaderInv
    <3> QED BY <3>1 DEF SyncHeaderFirst
  <2>2. CASE d_found_start_channel /\ ~d_send_sync_pmt
    <3>1. published = <<async_volt_sync_hdr>>
      BY <2>2 DEF HeaderInv
    <3>2. origin # None /\ ~overwrote => origin = async_volt_sync_hdr
      BY <2>2 DEF HeaderInv
    <3> QED BY <3>1, <3>2 DEF SyncHeaderFirst
  <2> QED BY <2>1, <2>2, Zenon
<1> QED BY <1>1, <1>2, HeaderStep, SafeInvariant, PTL DEF Spec
-----------------------------------------------------------------------------
(* No frame mixes two timestamps. *)

Coherent(f) == \A b, c \in Blocks : f[b] \in Times /\ f[c] \in Times => f[b] = f[c]

AllCoherent(frames) == \A i \in 1 .. Len(frames) : Coherent(frames[i])

(* The buffer holds data of the timestamp that is being filled and no other. *)
CoherentInv ==
    /\ ~OnePacket => \A b \in Blocks :
           x_vector_buffer[b] \in Times => x_vector_buffer[b] = d_last_timestamp
    /\ AllCoherent(x_vector_queue)
    /\ \A i \in 1 .. Len(output) : Coherent(output[i].data)

(* Zeros and strays are data of no timestamp.                                *)
LEMMA NoTime == Zero \notin Times /\ Stray \notin Times
<1>1. Times \subseteq Int
  BY SizesAssumption DEF Times
<1> QED BY <1>1, ValuesAssumption

(* A frame of zeros is coherent. *)
LEMMA ZeroFrameCoherent == Coherent(ZeroFrame)
BY NoTime DEF Coherent, ZeroFrame

(* A frame of one block cannot mix.                                          *)
LEMMA OneBlockCoherent == ASSUME OnePacket, NEW f PROVE Coherent(f)
<1>1. Blocks = {0}
  BY DEF OnePacket, Blocks
<1> QED BY <1>1 DEF Coherent

(* Coherent frames followed by coherent frames. *)
LEMMA ConcatCoherent ==
    ASSUME NEW f \in Seq(Frame), NEW g \in Seq(Frame), AllCoherent(f), AllCoherent(g)
    PROVE  AllCoherent(f \o g)
<1> SUFFICES ASSUME NEW i \in 1 .. Len(f \o g) PROVE Coherent((f \o g)[i])
    BY DEF AllCoherent
<1>1. /\ Len(f) \in Nat /\ Len(g) \in Nat
      /\ Len(f \o g) = Len(f) + Len(g)
      /\ (f \o g)[i] = IF i <= Len(f) THEN f[i] ELSE g[i - Len(f)]
  BY ConcatProperties, LenProperties
<1>2. CASE i <= Len(f)
  BY <1>1, <1>2 DEF AllCoherent
<1>3. CASE i > Len(f)
  <2>1. i - Len(f) \in 1 .. Len(g)
    BY <1>1, <1>3
  <2> QED BY <1>1, <1>3, <2>1 DEF AllCoherent
<1> QED BY <1>1, <1>2, <1>3

(* Coherent frames without the first of them. *)
LEMMA DropCoherent ==
    ASSUME NEW f \in Seq(Frame), NEW k \in 0 .. Len(f), AllCoherent(f)
    PROVE  AllCoherent(SubSeq(f, k + 1, Len(f)))
<1> DEFINE g == SubSeq(f, k + 1, Len(f))
<1>1. Len(g) = Len(f) - k /\ \A i \in 1 .. Len(g) : g[i] = f[i + k] /\ i + k \in 1 .. Len(f)
  OBVIOUS
<1> HIDE DEF g
<1>2. AllCoherent(g)
  BY <1>1 DEF AllCoherent
<1> QED BY <1>2 DEF g

(* Copying a packet of the timestamp that is being filled.                   *)
LEMMA CopyKeepsTime ==
    ASSUME NEW p \in Packet, NEW buffer \in Frame,
           \A b \in Blocks : buffer[b] \in Times => buffer[b] = p.ts
    PROVE  \A b \in Blocks :
               CopyData(buffer, p)[b] \in Times => CopyData(buffer, p)[b] = p.ts
<1>1. CASE p.ch \in Blocks
  BY <1>1 DEF CopyData, Frame
<1>2. CASE p.ch \notin Blocks
  <2>1. CopyData(buffer, p) = [buffer EXCEPT ![p.ch % PacketsPerFrame] = Stray]
    BY <1>2 DEF CopyData
  <2> QED BY <2>1, NoTime DEF Frame
<1> QED BY <1>1, <1>2

(* The frames that are queued, in each way of taking a packet.               *)
LEMMA CoherentTake ==
    ASSUME FirstTime > 0, SafeInv, CoherentInv, WorkLoop
    PROVE  CoherentInv'
<1> DEFINE p == Head(d_localqueue)
<1>1. TakePacket
  BY DEF WorkLoop, QueueOnePacketFrame, StartNextFrame, FillFrame
<1>2. /\ p \in Packet /\ p.ts \in Times
      /\ x_vector_buffer \in Frame /\ x_vector_queue \in Seq(Frame)
      /\ d_last_timestamp \in Nat
      /\ ZeroFill(p) \in Seq(Frame)
  BY <1>1, SafeTake, ZeroFillType DEF SafeInv, TypeOK, FillTypeOK, OutTypeOK, Packet
<1>3. CopyData(x_vector_buffer, p) \in Frame /\ CopyData(ZeroFrame, p) \in Frame
  BY <1>2, CopyDataType, ZeroFrameType
<1>4. AllCoherent(ZeroFill(p))
  BY <1>2, ZeroFrameCoherent, ZeroFillType DEF AllCoherent, ZeroFill, SafeInv, TypeOK
<1>5. /\ output' = output /\ AllCoherent(x_vector_queue)
      /\ \A i \in 1 .. Len(output) : Coherent(output[i].data)
  BY <1>1 DEF TakePacket, CoherentInv
<1> HIDE DEF p
<1>6. CASE QueueOnePacketFrame
  <2>1. /\ OnePacket
        /\ x_vector_queue' = x_vector_queue \o Append(ZeroFill(p), CopyData(x_vector_buffer, p))
    BY <1>6 DEF QueueOnePacketFrame, QueueFrames, p
  <2> DEFINE g == Append(ZeroFill(p), CopyData(x_vector_buffer, p))
  <2>2. g \in Seq(Frame)
    BY <1>2, <1>3
  <2>3. AllCoherent(g)
    BY <2>1, OneBlockCoherent DEF AllCoherent
  <2> HIDE DEF g
  <2>4. AllCoherent(x_vector_queue \o g)
    BY <1>2, <1>5, <2>2, <2>3, ConcatCoherent
  <2> QED BY <1>5, <2>1, <2>4 DEF CoherentInv, OnePacket, g
<1>7. CASE StartNextFrame
  <2>1. /\ x_vector_queue' = x_vector_queue \o (<<x_vector_buffer>> \o ZeroFill(p))
        /\ x_vector_buffer' = CopyData(ZeroFrame, p)
        /\ d_last_timestamp' = p.ts
        /\ ~OnePacket
    BY <1>7 DEF StartNextFrame, QueueFrames, p
  <2>2. Coherent(x_vector_buffer)
    BY <2>1 DEF CoherentInv, Coherent
  <2>3. <<x_vector_buffer>> \in Seq(Frame) /\ AllCoherent(<<x_vector_buffer>>)
    BY <1>2, <2>2 DEF AllCoherent
  <2> DEFINE g == <<x_vector_buffer>> \o ZeroFill(p)
  <2>4. g \in Seq(Frame) /\ AllCoherent(g)
    BY <1>2, <1>4, <2>3, ConcatCoherent, ConcatProperties
  <2> HIDE DEF g
  <2>5. AllCoherent(x_vector_queue \o g)
    BY <1>2, <1>5, <2>4, ConcatCoherent
  <2>6. \A b \in Blocks : ZeroFrame[b] \notin Times
    BY NoTime DEF ZeroFrame
  <2>7. \A b \in Blocks : x_vector_buffer'[b] \in Times => x_vector_buffer'[b] = d_last_timestamp'
    BY <1>2, <2>1, <2>6, ZeroFrameType, CopyKeepsTime
  <2> QED BY <1>5, <2>1, <2>5, <2>7 DEF CoherentInv, OnePacket, g
<1>8. CASE FillFrame
  <2>1. /\ x_vector_queue' = x_vector_queue
        /\ x_vector_buffer' = CopyData(x_vector_buffer, p)
        /\ ~NextFrame(p)
        /\ d_last_timestamp' = IF d_last_timestamp = 0 THEN p.ts ELSE d_last_timestamp
        /\ ~OnePacket
    BY <1>8 DEF FillFrame, p
  <2>2. d_last_timestamp' = p.ts /\ (d_last_timestamp # 0 => d_last_timestamp = p.ts)
    BY <1>2, <2>1 DEF NextFrame
  <2>3. \A b \in Blocks : x_vector_buffer[b] \in Times => x_vector_buffer[b] = p.ts
    <3>1. 0 \notin Times
      BY SizesAssumption DEF Times
    <3> QED BY <2>1, <2>2, <3>1 DEF CoherentInv
  <2>4. \A b \in Blocks : x_vector_buffer'[b] \in Times => x_vector_buffer'[b] = d_last_timestamp'
    BY <1>2, <2>1, <2>2, <2>3, CopyKeepsTime
  <2> QED BY <1>5, <2>1, <2>4 DEF CoherentInv, OnePacket
<1> QED BY <1>6, <1>7, <1>8 DEF WorkLoop

(* What a call returns: the first frames of the queue, in order.             *)
LEMMA Returned ==
    ASSUME SafeInv, ReturnItems
    PROVE  /\ ItemsReturned \in 0 .. Len(x_vector_queue)
           /\ ItemsReturned \in Nat
           /\ Len(output) \in Nat /\ Len(output') \in Nat
           /\ Len(output') = Len(output) + ItemsReturned
           /\ Len(x_vector_queue') = Len(x_vector_queue) - ItemsReturned
           /\ \A i \in 1 .. Len(x_vector_queue') :
                 x_vector_queue'[i] = x_vector_queue[i + ItemsReturned]
           /\ \A i \in 1 .. Len(output) : output'[i] = output[i]
           /\ \A i \in 1 .. ItemsReturned :
                 output'[Len(output) + i] =
                    [data |-> x_vector_queue[i],
                     tag  |-> IF sync_timestamp = 0 THEN seq_num_queue[i] ELSE None]
<1> DEFINE k == ItemsReturned
           r == [i \in 1 .. k |->
                    [data |-> x_vector_queue[i],
                     tag  |-> IF sync_timestamp = 0 THEN seq_num_queue[i] ELSE None]]
           T == [data : Frame, tag : Tag] \cup {r[i] : i \in 1 .. k}
<1>1. /\ x_vector_queue \in Seq(Frame) /\ output \in Seq([data : Frame, tag : Tag])
      /\ noutput_items \in 1 .. MaxOut
  BY DEF SafeInv, TypeOK, OutTypeOK, CallTypeOK
<1>2. k \in 0 .. Len(x_vector_queue) /\ k \in Nat
  BY <1>1 DEF ItemsReturned
<1>3. /\ output' = output \o r
      /\ x_vector_queue' = SubSeq(x_vector_queue, k + 1, Len(x_vector_queue))
  BY DEF ReturnItems
<1> HIDE DEF k
<1>4. r \in [1 .. k -> T] /\ \A i \in 1 .. k : r[i] =
                    [data |-> x_vector_queue[i],
                     tag  |-> IF sync_timestamp = 0 THEN seq_num_queue[i] ELSE None]
  OBVIOUS
<1>5. \A t \in [data : Frame, tag : Tag] : t \in T
  OBVIOUS
<1> HIDE DEF r, T
<1>6. r \in Seq(T) /\ Len(r) = k
  BY <1>2, <1>4, FunctionIsSeq
<1>7. output \in Seq(T)
  <2>1. \A S, U, s : S \subseteq U /\ s \in Seq(S) => s \in Seq(U)
    BY SeqDef
  <2> QED BY <1>1, <1>5, <2>1
<1>8. /\ Len(output) \in Nat /\ Len(output') = Len(output) + k
      /\ \A i \in 1 .. Len(output) + k :
            output'[i] = IF i <= Len(output) THEN output[i] ELSE r[i - Len(output)]
  BY <1>3, <1>6, <1>7, ConcatProperties, LenProperties
<1>9. \A i \in 1 .. Len(output) : output'[i] = output[i]
  BY <1>2, <1>8
<1>10. \A i \in 1 .. k : output'[Len(output) + i] = r[i]
  <2> SUFFICES ASSUME NEW i \in 1 .. k PROVE output'[Len(output) + i] = r[i]
      OBVIOUS
  <2>1. /\ Len(output) + i \in 1 .. Len(output) + k /\ ~(Len(output) + i <= Len(output))
        /\ (Len(output) + i) - Len(output) = i
    BY <1>2, <1>8
  <2> QED BY <1>8, <2>1
<1>11. /\ Len(x_vector_queue') = Len(x_vector_queue) - k
       /\ \A i \in 1 .. Len(x_vector_queue') : x_vector_queue'[i] = x_vector_queue[i + k]
  BY <1>1, <1>2, <1>3
<1>12. \A i \in 1 .. k :
          output'[Len(output) + i] =
             [data |-> x_vector_queue[i],
              tag  |-> IF sync_timestamp = 0 THEN seq_num_queue[i] ELSE None]
  BY <1>4, <1>10
<1>13. Len(output') \in Nat
  BY <1>2, <1>8
<1> QED BY Zenon, <1>2, <1>8, <1>9, <1>11, <1>12, <1>13 DEF k

(* Returning frames mixes nothing. *)
LEMMA CoherentReturn ==
    ASSUME SafeInv, CoherentInv, ReturnItems
    PROVE  CoherentInv'
<1>1. UNCHANGED fillVars
  BY DEF ReturnItems
<1>2. x_vector_queue \in Seq(Frame) /\ ItemsReturned \in 0 .. Len(x_vector_queue)
  BY Returned DEF SafeInv, TypeOK, OutTypeOK
<1>3. AllCoherent(x_vector_queue')
  BY <1>2, DropCoherent DEF CoherentInv, ReturnItems
<1>4. ASSUME NEW i \in 1 .. Len(output') PROVE Coherent(output'[i].data)
  <2>1. CASE i <= Len(output)
    BY <2>1, Returned DEF CoherentInv
  <2>2. CASE i > Len(output)
    <3>1. PICK j \in 1 .. ItemsReturned : i = Len(output) + j
      <4>1. i - Len(output) \in 1 .. ItemsReturned /\ i = Len(output) + (i - Len(output))
        BY <2>2, Returned
      <4> QED BY <4>1
    <3>2. j \in 1 .. Len(x_vector_queue)
      BY <1>2
    <3>3. output'[Len(output) + j] =
             [data |-> x_vector_queue[j],
              tag  |-> IF sync_timestamp = 0 THEN seq_num_queue[j] ELSE None]
      BY Returned, Zenon
    <3>4. output'[Len(output) + j].data = x_vector_queue[j]
      BY <3>3
    <3> QED BY <3>1, <3>2, <3>4 DEF CoherentInv, AllCoherent
  <2> QED BY <2>1, <2>2, Returned
<1> QED BY <1>1, <1>3, <1>4 DEF CoherentInv, OnePacket, fillVars

(* Whatever the network does, of streams that do not start at timestamp 0,   *)
(* no frame mixes the data of two timestamps: queue_voltage_data() and the   *)
(* memset (822-878) come between any two of them.                            *)
THEOREM FramesAreCoherent == ASSUME FirstTime > 0 PROVE Spec => []FrameCoherent
<1>1. Init => CoherentInv
  <2> SUFFICES ASSUME Init PROVE CoherentInv
      OBVIOUS
  <2>1. x_vector_buffer = ZeroFrame /\ x_vector_queue = <<>> /\ output = <<>>
    BY DEF Init
  <2>2. \A b \in Blocks : ZeroFrame[b] \notin Times
    BY NoTime DEF ZeroFrame
  <2> QED BY <2>1, <2>2 DEF CoherentInv, AllCoherent
<1>2. SafeInv /\ CoherentInv /\ [Next]_vars => CoherentInv'
  <2> SUFFICES ASSUME SafeInv, CoherentInv, [Next]_vars PROVE CoherentInv'
      OBVIOUS
  <2>1. UNCHANGED <<fillVars, outVars>> => CoherentInv'
    BY DEF CoherentInv, AllCoherent, OnePacket, fillVars, outVars
  <2>2. CASE Network \/ MmsgReceive
    BY <2>1, <2>2 DEF Network, Send, Lose, SendForeign, Reorder, Duplicate, MmsgReceive
  <2>3. CASE WorkCall \/ PollPackets \/ GiveUp \/ SendSyncPmt \/ HandleSyncMsg
    BY <2>1, <2>3 DEF WorkCall, PollPackets, GiveUp, SendSyncPmt, HandleSyncMsg
  <2>4. CASE WorkLoop
    BY <2>4, CoherentTake
  <2>5. CASE ReturnItems
    BY <2>5, CoherentReturn
  <2>6. CASE UNCHANGED vars
    BY <2>1, <2>6 DEF vars
  <2> QED BY <2>2, <2>3, <2>4, <2>5, <2>6 DEF Next, Work
<1>4. SafeInv /\ CoherentInv => FrameCoherent
  <2> SUFFICES ASSUME SafeInv, CoherentInv, NEW i \in DOMAIN output
               PROVE  Coherent(output[i].data)
    BY DEF FrameCoherent, Coherent
  <2>1. i \in 1 .. Len(output)
    BY DEF SafeInv, TypeOK, OutTypeOK
  <2> QED BY <2>1 DEF CoherentInv
<1> QED BY <1>1, <1>2, <1>4, SafeInvariant, PTL DEF Spec

-----------------------------------------------------------------------------
(* The tags.  With several packets per frame the tag of a frame is that of   *)
(* the packet that ends it (841-849), so this is about one packet per frame. *)

(* tags are the timestamps from start on. *)
TagsFrom(tags, start) == \A i \in 1 .. Len(tags) : tags[i] = start + i - 1

(* The tags waiting go on where the output stops. *)
TagsInv ==
    /\ TagsTrue
    /\ ~overran /\ origin # None /\ sync_timestamp = 0 =>
           TagsFrom(seq_num_queue, origin + Len(output))

(* Tags followed by the tags from there. *)
LEMMA TagsConcat ==
    ASSUME NEW f \in Seq(Nat), NEW g \in Seq(Nat), NEW start \in Int,
           TagsFrom(f, start), TagsFrom(g, start + Len(f))
    PROVE  TagsFrom(f \o g, start)
<1> SUFFICES ASSUME NEW i \in 1 .. Len(f \o g) PROVE (f \o g)[i] = start + i - 1
    BY DEF TagsFrom
<1>1. /\ Len(f) \in Nat /\ Len(g) \in Nat /\ Len(f \o g) = Len(f) + Len(g)
      /\ (f \o g)[i] = IF i <= Len(f) THEN f[i] ELSE g[i - Len(f)]
  BY ConcatProperties, LenProperties
<1>2. CASE i <= Len(f)
  BY <1>1, <1>2 DEF TagsFrom
<1>3. CASE i > Len(f)
  <2>1. i - Len(f) \in 1 .. Len(g)
    BY <1>1, <1>3
  <2>2. g[i - Len(f)] = start + Len(f) + (i - Len(f)) - 1
    BY <2>1 DEF TagsFrom
  <2> QED BY <1>1, <1>3, <2>2
<1> QED BY <1>1, <1>2, <1>3

(* Tags without the first of them. *)
LEMMA TagsDrop ==
    ASSUME NEW f \in Seq(Nat), NEW k \in 0 .. Len(f), NEW start \in Int,
           TagsFrom(f, start)
    PROVE  TagsFrom(SubSeq(f, k + 1, Len(f)), start + k)
<1>1. /\ Len(SubSeq(f, k + 1, Len(f))) = Len(f) - k
      /\ \A i \in 1 .. Len(f) - k : SubSeq(f, k + 1, Len(f))[i] = f[i + k]
  OBVIOUS
<1>2. \A i \in 1 .. Len(f) - k : f[i + k] = start + k + i - 1
  BY DEF TagsFrom
<1> QED BY <1>1, <1>2 DEF TagsFrom

(* The packet loop pushes the tags of the frames missing, then the packet's. *)
LEMMA TagsTake ==
    ASSUME OnePacket, InOrderNetwork, SafeInv, ExactInv, TagsInv, WorkLoop
    PROVE  TagsInv'
<1> DEFINE p == Head(d_localqueue)
<1>1. QueueOnePacketFrame /\ TakePacket
  BY DEF WorkLoop, QueueOnePacketFrame, StartNextFrame, FillFrame
<1>2. /\ output' = output /\ sync_timestamp' = sync_timestamp
      /\ ~overran' => ~overran
      /\ origin' = IF origin = None THEN p.ts ELSE origin
      /\ sync_timestamp = 0 =>
             seq_num_queue' = seq_num_queue \o Append(ZeroTags(p), p.ts)
  BY <1>1 DEF TakePacket, syncVars, QueueOnePacketFrame, QueueFrames
<1>3. /\ output \in Seq([data : Frame, tag : Tag]) /\ Len(output) \in Nat
      /\ x_vector_queue \in Seq(Frame) /\ seq_num_queue \in Seq(Nat)
      /\ sync_timestamp = 0 => Len(seq_num_queue) = Len(x_vector_queue)
      /\ DOMAIN output = 1 .. Len(output)
  BY DEF SafeInv, TypeOK, OutTypeOK, TagsLockstep
<1>4. origin = None => output = <<>>
  BY DEF ExactInv, FramesInv, TakenInv
<1>5. TagsTrue'
  <2>1. CASE origin = None
    BY <1>2, <1>4, <2>1 DEF TagsTrue
  <2>2. CASE origin # None
    BY <1>2, <2>2 DEF TagsTrue, TagsInv
  <2> QED BY <2>1, <2>2
<1>6. ASSUME ~overran', sync_timestamp = 0
      PROVE  TagsFrom(seq_num_queue \o Append(ZeroTags(p), p.ts),
                      origin' + Len(output))
  <2>1. ~overran /\ MissedSets(p) <= MaxMissedSets
    BY <1>1, <1>6, NoOverrun
  <2>2. p \in Packet /\ p.ts \in Nat
    BY <1>1, TakenInTurn, TakenIsNotLater DEF FramesInv
  <2>3. /\ ZeroTags(p) \in Seq(Nat) /\ Len(ZeroTags(p)) = FilledIn(p)
        /\ FilledIn(p) = MissedSets(p) /\ MissedSets(p) \in Nat
    BY <2>1, <2>2, ZeroFillType DEF SafeInv, TypeOK, FilledIn
  <2>4. /\ origin = None => MissedSets(p) = 0
        /\ origin # None =>
              /\ origin \in Nat /\ d_last_timestamp \in Nat
              /\ MissedSets(p) = p.ts - d_last_timestamp - 1
    <3>1. /\ origin = None => MissedSets(p) = 0
          /\ origin # None =>
                /\ origin \in Nat /\ d_last_timestamp \in Nat
                /\ d_last_timestamp < p.ts
                /\ MissedSets(p) = IF p.ts = d_last_timestamp THEN 0
                                   ELSE p.ts - d_last_timestamp - 1
      BY <1>1, TakenInTurn, TakenIsNotLater DEF FramesInv
    <3> QED BY <2>2, <3>1
  <2>5. /\ origin = None => /\ Len(output) = 0 /\ Len(x_vector_queue) = 0
        /\ origin # None =>
              origin + Len(output) + Len(x_vector_queue) = d_last_timestamp + 1
    <3>1. /\ origin = None => output = <<>> /\ x_vector_queue = <<>>
          /\ origin # None =>
                origin + Len(output) + Len(x_vector_queue) = d_last_timestamp + 1
      BY <1>1, <2>1, TakenInTurn, QueuedBefore
    <3> QED BY <3>1
  <2> DEFINE start == origin' + Len(output)
             n     == Len(seq_num_queue)
             new   == Append(ZeroTags(p), p.ts)
  <2> HIDE DEF p
  <2>6. /\ start \in Int /\ n \in Nat
        /\ start + n + FilledIn(p) = p.ts
        /\ FilledIn(p) > 0 => d_last_timestamp \in Nat /\ start + n = d_last_timestamp + 1
        /\ TagsFrom(seq_num_queue, start)
    <3>1. CASE origin = None
      <4>1. start = p.ts /\ n = 0
        BY <1>2, <1>3, <1>6, <2>2, <2>5, <3>1
      <4> QED BY <2>2, <2>3, <2>4, <3>1, <4>1 DEF TagsFrom
    <3>2. CASE origin # None
      <4>1. start = origin + Len(output) /\ n = Len(x_vector_queue)
        BY <1>2, <1>3, <1>6, <3>2
      <4>2. TagsFrom(seq_num_queue, start)
        BY <1>6, <2>1, <3>2, <4>1 DEF TagsInv
      <4>3. start \in Int /\ n \in Nat /\ start + n = d_last_timestamp + 1
        BY <1>3, <2>4, <2>5, <3>2, <4>1
      <4> HIDE DEF start, n
      <4> QED BY <2>2, <2>3, <2>4, <3>2, <4>2, <4>3
    <3> QED BY <3>1, <3>2
  <2>7. /\ new \in Seq(Nat) /\ Len(new) = FilledIn(p) + 1
        /\ \A i \in 1 .. FilledIn(p) : new[i] = ZeroTags(p)[i]
        /\ new[FilledIn(p) + 1] = p.ts
    BY <2>2, <2>3, AppendProperties
  <2>8. TagsFrom(new, start + n)
    <3>1. \A i \in 1 .. FilledIn(p) : ZeroTags(p)[i] = d_last_timestamp + i
      BY DEF ZeroTags
    <3>2. ASSUME NEW i \in 1 .. Len(new) PROVE new[i] = start + n + i - 1
      <4> HIDE DEF new, start, n
      <4>1. CASE i = FilledIn(p) + 1
        BY <2>2, <2>3, <2>6, <2>7, <4>1
      <4>2. CASE i \in 1 .. FilledIn(p)
        <5>1. new[i] = d_last_timestamp + i
          BY <2>7, <3>1, <4>2, Zenon
        <5>2. FilledIn(p) \in Nat /\ FilledIn(p) > 0
          BY <2>3, <4>2
        <5>3. d_last_timestamp \in Nat /\ start + n = d_last_timestamp + 1 /\ i \in Nat
          BY <2>6, <4>2, <5>2
        <5> QED BY <2>6, <5>1, <5>3
      <4> QED BY <2>3, <2>7, <4>1, <4>2
    <3> QED BY <3>2 DEF TagsFrom
  <2> HIDE DEF new, start
  <2>9. TagsFrom(seq_num_queue \o new, start)
    BY <1>3, <2>6, <2>7, <2>8, TagsConcat
  <2> QED BY <2>9 DEF new, start
<1> QED BY <1>2, <1>5, <1>6 DEF TagsInv

(* A call returns each frame with the tag of its place. *)
LEMMA TagsReturn ==
    ASSUME SafeInv, ExactInv, TagsInv, ReturnItems
    PROVE  TagsInv'
<1> DEFINE k == ItemsReturned
<1>1. /\ overran' = overran /\ origin' = origin /\ sync_timestamp' = sync_timestamp
      /\ sync_timestamp = 0 => seq_num_queue' = SubSeq(seq_num_queue, k + 1, Len(seq_num_queue))
  BY DEF ReturnItems, takeVars, syncVars
<1>2. /\ output \in Seq([data : Frame, tag : Tag]) /\ Len(output) \in Nat
      /\ x_vector_queue \in Seq(Frame) /\ seq_num_queue \in Seq(Nat)
      /\ sync_timestamp = 0 => Len(seq_num_queue) = Len(x_vector_queue)
      /\ DOMAIN output = 1 .. Len(output)
      /\ origin \in Times \cup {None}
  BY DEF SafeInv, TypeOK, OutTypeOK, TagsLockstep, TakeTypeOK
<1>3. /\ k \in 0 .. Len(x_vector_queue) /\ k \in Nat
      /\ Len(output') \in Nat /\ Len(output') = Len(output) + k
      /\ \A i \in 1 .. Len(output) : output'[i] = output[i]
  BY Returned
<1>4. \A i \in 1 .. k : output'[Len(output) + i] =
                    [data |-> x_vector_queue[i],
                     tag  |-> IF sync_timestamp = 0 THEN seq_num_queue[i] ELSE None]
  BY Returned, Zenon
<1>5. DOMAIN output' = 1 .. Len(output')
  <2>1. SafeInv'
    BY SafeReturn
  <2> QED BY <2>1 DEF SafeInv, TypeOK, OutTypeOK
<1> HIDE DEF k
<1>6. ASSUME ~overran, origin # None, sync_timestamp = 0
      PROVE  TagsFrom(seq_num_queue', origin + Len(output'))
  <2>1. /\ TagsFrom(seq_num_queue, origin + Len(output))
        /\ k \in 0 .. Len(seq_num_queue)
    BY <1>2, <1>3, <1>6 DEF TagsInv
  <2>2. origin \in Int /\ origin + Len(output) \in Int
    BY <1>2, <1>6, SizesAssumption DEF Times
  <2>3. TagsFrom(seq_num_queue', (origin + Len(output)) + k)
    BY <1>1, <1>2, <1>6, <2>1, <2>2, TagsDrop
  <2>4. (origin + Len(output)) + k = origin + Len(output')
    BY <1>2, <1>3, <2>2
  <2> QED BY <2>3, <2>4
<1>7. TagsTrue'
  <2> SUFFICES ASSUME ~overran', NEW i \in DOMAIN output'
               PROVE  output'[i].tag \in {None, origin' + i - 1}
    BY DEF TagsTrue
  <2>1. CASE i <= Len(output)
    BY <1>1, <1>2, <1>3, <1>5, <2>1 DEF TagsInv, TagsTrue
  <2>2. CASE i > Len(output)
    <3> DEFINE j == i - Len(output)
    <3>1. j \in 1 .. k /\ i = Len(output) + j
      BY <1>2, <1>3, <1>5, <2>2
    <3> HIDE DEF j
    <3>2. output'[i].tag = IF sync_timestamp = 0 THEN seq_num_queue[j] ELSE None
      <4>1. output'[Len(output) + j] =
               [data |-> x_vector_queue[j],
                tag  |-> IF sync_timestamp = 0 THEN seq_num_queue[j] ELSE None]
        BY <1>4, <3>1, Zenon
      <4> QED BY <3>1, <4>1
    <3>3. CASE sync_timestamp # 0
      BY <3>2, <3>3
    <3>4. CASE sync_timestamp = 0
      <4>1. origin # None
        <5> SUFFICES ASSUME origin = None PROVE FALSE
            OBVIOUS
        <5>1. x_vector_queue = <<>>
          BY DEF ExactInv, FramesInv, TakenInv
        <5> QED BY <1>3, <3>1, <5>1
      <4>2. /\ TagsFrom(seq_num_queue, origin + Len(output)) /\ j \in 1 .. Len(seq_num_queue)
            /\ origin \in Int
        BY <1>1, <1>2, <1>3, <3>1, <3>4, <4>1, SizesAssumption DEF TagsInv, Times
      <4>3. seq_num_queue[j] = origin + Len(output) + j - 1
        BY <4>2 DEF TagsFrom
      <4>4. origin + Len(output) + j - 1 = origin + i - 1
        BY <1>2, <3>1, <4>2
      <4> QED BY <1>1, <3>2, <3>4, <4>3, <4>4
    <3> QED BY <3>3, <3>4
  <2> QED BY <1>2, <1>3, <1>5, <2>1, <2>2
<1> QED BY <1>1, <1>6, <1>7 DEF TagsInv

(* With one packet per frame and an ordered network, a frame's tag is its    *)
(* timestamp, whatever is lost in between, however the calls of work() split *)
(* the stream and whenever the synchronizer's message turns the tags off.    *)
THEOREM TagsAreTrue ==
    ASSUME OnePacket, InOrderNetwork PROVE Spec => []TagsTrue
<1>1. Init => TagsInv
  <2> SUFFICES ASSUME Init PROVE TagsInv
      OBVIOUS
  <2>1. output = <<>> /\ origin = None
    BY DEF Init
  <2> QED BY <2>1 DEF TagsInv, TagsTrue
<1>2. SafeInv /\ ExactInv /\ TagsInv /\ [Next]_vars => TagsInv'
  <2> SUFFICES ASSUME SafeInv, ExactInv, TagsInv, [Next]_vars PROVE TagsInv'
      OBVIOUS
  <2>1. UNCHANGED <<takeVars, outVars, sync_timestamp>> => TagsInv'
    BY DEF TagsInv, TagsTrue, TagsFrom, takeVars, outVars
  <2>2. CASE Network \/ MmsgReceive
    BY <2>1, <2>2 DEF Network, Send, Lose, SendForeign, Reorder, Duplicate,
                      MmsgReceive, syncVars
  <2>3. CASE WorkCall \/ PollPackets \/ GiveUp \/ SendSyncPmt
    BY <2>1, <2>3 DEF WorkCall, PollPackets, GiveUp, SendSyncPmt, syncVars
  <2>4. CASE HandleSyncMsg
    <3>1. UNCHANGED <<takeVars, outVars>> /\ sync_timestamp = 0
      BY <2>4 DEF HandleSyncMsg
    <3> QED BY <3>1 DEF TagsInv, TagsTrue, TagsFrom, takeVars, outVars
  <2>5. CASE WorkLoop
    BY <2>5, TagsTake
  <2>6. CASE ReturnItems
    BY <2>6, TagsReturn
  <2>7. CASE UNCHANGED vars
    BY <2>1, <2>7 DEF vars, syncVars
  <2> QED BY <2>2, <2>3, <2>4, <2>5, <2>6, <2>7 DEF Next, Work
<1>3. TagsInv => TagsTrue
  BY DEF TagsInv
<1> QED BY <1>1, <1>2, <1>3, ExactInvariant, PTL DEF Spec

-----------------------------------------------------------------------------
(* The stream.  The source implements AlignedStream: taking a packet is      *)
(* Take, returning frames is Deliver, everything else changes nothing that   *)
(* the blocks downstream see.                                                *)

Data(items) == [i \in DOMAIN items |-> items[i].data]

(* The data of a sequence of items is a sequence of frames. *)
LEMMA DataIsSeq ==
    ASSUME NEW items \in Seq([data : Frame, tag : Tag])
    PROVE  /\ Data(items) \in Seq(Frame) /\ Len(Data(items)) = Len(items)
           /\ \A i \in 1 .. Len(items) : Data(items)[i] = items[i].data
<1>1. Len(items) \in Nat /\ DOMAIN items = 1 .. Len(items)
  BY LenProperties
<1>2. Data(items) \in [1 .. Len(items) -> Frame]
  <2>1. \A i \in 1 .. Len(items) : items[i].data \in Frame
    <3>1. \A i \in 1 .. Len(items) : items[i] \in [data : Frame, tag : Tag]
      BY ElementOfSeq
    <3> QED BY <3>1
  <2> QED BY <1>1, <2>1 DEF Data
<1>3. Data(items) \in Seq(Frame) /\ Len(Data(items)) = Len(items)
  BY <1>1, <1>2, FunctionIsSeq
<1> QED BY <1>1, <1>3 DEF Data

(* A packet is taken for a frame that has not been returned. *)
LEMMA StreamTake ==
    ASSUME InOrderNetwork, SafeInv, ExactInv, WorkLoop, ~overran'
    PROVE  Stream!Take
<1> DEFINE p == Head(d_localqueue)
<1>1. TakePacket
  BY DEF WorkLoop, QueueOnePacketFrame, StartNextFrame, FillFrame
<1>2. p \in Packet
  BY <1>1, SafeTake
<1>3. /\ taken' = taken \cup {p}
      /\ origin' = IF origin = None THEN p.ts ELSE origin
      /\ output' = output
  BY <1>1 DEF TakePacket
<1>4. /\ Len(output) \in Nat /\ Len(x_vector_queue) \in Nat
  BY DEF SafeInv, TypeOK, OutTypeOK
<1>5. Len(Data(output)) = Len(output)
  BY DataIsSeq DEF SafeInv, TypeOK, OutTypeOK
<1>6. ~overran
  BY <1>1, NoOverrun
<1>7. origin # None => origin + Len(output) <= p.ts
  <2> SUFFICES ASSUME origin # None PROVE origin + Len(output) <= p.ts
      OBVIOUS
  <2>1. /\ origin' \in Nat /\ origin' = origin
        /\ origin' + Len(output) + Len(x_vector_queue) <= p.ts
    BY <1>1, <1>6, TakenInTurn, QueuedBefore
  <2>2. p.ts \in Nat
    BY <1>1, TakenInTurn, TakenIsNotLater DEF FramesInv
  <2> HIDE DEF p
  <2> QED BY <1>4, <2>1, <2>2
<1> HIDE DEF p
<1>8. p = [ts |-> p.ts, ch |-> p.ch] /\ p.ts \in Times /\ p.ch \in 0 .. PacketsPerFrame - 1
  BY <1>2 DEF Packet, InOrderNetwork, Blocks
<1>9. origin # None => p.ts >= origin + Len([i \in DOMAIN output |-> output[i].data])
  <2> SUFFICES ASSUME origin # None PROVE p.ts >= origin + Len(Data(output))
      BY DEF Data
  <2>1. p.ts \in Int /\ origin \in Int
    BY <1>8, SizesAssumption DEF Times, SafeInv, TypeOK, TakeTypeOK
  <2> QED BY <1>4, <1>5, <1>7, <2>1
<1>10. taken' = taken \cup {[ts |-> p.ts, ch |-> p.ch]}
  BY <1>3, <1>8
<1> QED BY <1>3, <1>8, <1>9, <1>10 DEF Stream!Take, Stream!NextTime

(* Returned frames are the next ones in time, and closed. *)
LEMMA StreamReturn ==
    ASSUME InOrderNetwork, SafeInv, ExactInv, ReturnItems, ~overran,
           ExactInv', SafeInv'
    PROVE  Stream!Deliver \/ UNCHANGED Stream!vars
<1> DEFINE k    == ItemsReturned
           last == origin + Len(output') - 1
<1>1. /\ k \in 0 .. Len(x_vector_queue) /\ k \in Nat
      /\ Len(output) \in Nat /\ Len(output') \in Nat
      /\ Len(output') = Len(output) + k
      /\ Len(x_vector_queue') = Len(x_vector_queue) - k
      /\ \A i \in 1 .. Len(output) : output'[i] = output[i]
  BY Returned
<1>2. /\ taken' = taken /\ origin' = origin /\ overran' = overran
      /\ d_last_timestamp' = d_last_timestamp
  BY DEF ReturnItems, takeVars, fillVars
<1>3. /\ output \in Seq([data : Frame, tag : Tag])
      /\ output' \in Seq([data : Frame, tag : Tag])
      /\ x_vector_queue \in Seq(Frame) /\ Len(x_vector_queue) \in Nat
      /\ taken \subseteq Packet /\ origin \in Times \cup {None}
  BY DEF SafeInv, TypeOK, OutTypeOK, TakeTypeOK
<1> HIDE DEF k
<1>4. /\ Data(output) \in Seq(Frame) /\ Len(Data(output)) = Len(output)
      /\ \A i \in 1 .. Len(output) : Data(output)[i] = output[i].data
      /\ Data(output)' \in Seq(Frame) /\ Len(Data(output)') = Len(output')
      /\ \A i \in 1 .. Len(output') : Data(output)'[i] = output'[i].data
  <2>1. Data(output)' = Data(output')
    BY DEF Data
  <2> QED BY <1>3, <2>1, DataIsSeq
<1>5. CASE k = 0
  <2>1. Data(output)' = Data(output)
    <3> DEFINE f == Data(output)
               g == Data(output)'
    <3>1. /\ f \in Seq(Frame) /\ g \in Seq(Frame) /\ Len(f) = Len(g)
          /\ \A i \in 1 .. Len(f) : f[i] = g[i]
      BY <1>1, <1>4, <1>5
    <3> HIDE DEF f, g
    <3>2. f = g
      BY <3>1, SeqEqual
    <3> QED BY <3>2 DEF f, g
  <2> QED BY <1>2, <2>1 DEF Stream!vars, Data
<1>6. CASE k > 0
  <2>1. origin # None
    <3> SUFFICES ASSUME origin = None PROVE FALSE
        OBVIOUS
    <3>1. x_vector_queue = <<>>
      BY DEF ExactInv, FramesInv, TakenInv
    <3> QED BY <1>1, <1>6, <3>1
  <2>2. origin \in Times /\ origin \in Int /\ origin >= FirstTime
    BY <1>3, <2>1, SizesAssumption DEF Times
  <2>3. PICK p \in taken : p.ts = d_last_timestamp
    BY <2>1 DEF ExactInv, FramesInv, TakenInv
  <2>4. p.ts \in Times /\ p.ts \in Int
    BY <1>3, <2>3, SizesAssumption DEF Packet, Times
  <2>5. Len(output) + Len(x_vector_queue)
            = d_last_timestamp - origin + (IF OnePacket THEN 1 ELSE 0)
    BY <2>1 DEF ExactInv, FramesInv, QueueInv
  <2>6. /\ last \in Int /\ origin + Len(output) <= last
        /\ last < p.ts \/ (PacketsPerFrame = 1 /\ last <= p.ts)
    <3>1. Len(output') <= Len(output) + Len(x_vector_queue)
      BY <1>1, <1>3
    <3>2. CASE OnePacket
      BY <1>1, <1>3, <1>6, <2>2, <2>3, <2>4, <2>5, <3>1, <3>2 DEF OnePacket
    <3>3. CASE ~OnePacket
      BY <1>1, <1>3, <1>6, <2>2, <2>3, <2>4, <2>5, <3>1, <3>3
    <3> QED BY <3>2, <3>3
  <2>7. last \in Times
    BY <1>1, <2>2, <2>4, <2>6, SizesAssumption DEF Times
  <2>8. Stream!Closed(last)
    <3>1. p.ts > last \/ (PacketsPerFrame = 1 /\ p.ts = last)
      BY <2>4, <2>6
    <3> QED BY <3>1 DEF Stream!Closed
  <2>9. Stream!NextTime = origin + Len(output)
    BY <1>4 DEF Stream!NextTime, Data
  <2> DEFINE n == last - (origin + Len(output)) + 1
             g == [i \in 1 .. n |-> Stream!FrameOf(taken, (origin + Len(output)) + i - 1)]
             S == Frame \cup {g[i] : i \in 1 .. n}
  <2>10. n = k
    BY <1>1, <2>2
  <2>11. \A i \in 1 .. k :
             g[i] = Stream!FrameOf(taken, (origin + Len(output)) + i - 1)
    BY <2>10
  <2>12. g \in Seq(S) /\ Len(g) = k
    <3>1. n \in Nat /\ g \in [1 .. n -> S]
      BY <1>1, <2>10
    <3> HIDE DEF g, S, n
    <3> QED BY <2>10, <3>1, FunctionIsSeq
  <2> HIDE DEF g, n
  <2>13. Data(output)' = Data(output) \o g
    <3> DEFINE f == Data(output)
               h == Data(output)'
    <3>1. f \in Seq(S) /\ h \in Seq(S)
      <4>1. \A T, U, s : T \subseteq U /\ s \in Seq(T) => s \in Seq(U)
        BY SeqDef
      <4> QED BY <1>4, <4>1
    <3>2. /\ Len(f) = Len(output) /\ Len(h) = Len(output) + k
          /\ \A i \in 1 .. Len(output) : f[i] = output[i].data
          /\ \A i \in 1 .. Len(output) + k : h[i] = output'[i].data
      BY <1>1, <1>4
    <3> HIDE DEF f, h, S
    <3>3. /\ f \o g \in Seq(S) /\ Len(f \o g) = Len(output) + k
          /\ \A i \in 1 .. Len(output) + k :
                (f \o g)[i] = IF i <= Len(output) THEN f[i] ELSE g[i - Len(output)]
      <4>1. /\ f \o g \in Seq(S) /\ Len(f \o g) = Len(f) + Len(g)
            /\ \A i \in 1 .. Len(f) + Len(g) :
                  (f \o g)[i] = IF i <= Len(f) THEN f[i] ELSE g[i - Len(f)]
        BY <2>12, <3>1, ConcatProperties
      <4>2. Len(f) = Len(output) /\ Len(g) = k
        BY <2>12, <3>2
      <4> QED BY <4>1, <4>2, Zenon
    <3>4. ASSUME NEW i \in 1 .. Len(output) + k PROVE h[i] = (f \o g)[i]
      <4>1. CASE i <= Len(output)
        <5>1. i \in 1 .. Len(output)
          BY <1>1, <4>1
        <5> QED BY <1>1, <3>2, <3>3, <4>1, <5>1
      <4>2. CASE i > Len(output)
        <5>1. i - Len(output) \in 1 .. k /\ ~(i <= Len(output)) /\ i \in Int
          BY <1>1, <4>2
        <5>2. (f \o g)[i] = Stream!FrameOf(taken, (origin + Len(output)) + (i - Len(output)) - 1)
          BY <2>11, <3>3, <5>1, Zenon
        <5>3. (origin + Len(output)) + (i - Len(output)) - 1 = origin + i - 1
          BY <1>1, <2>2, <5>1
        <5>4. h[i] = Stream!FrameOf(taken, origin + i - 1)
          <6>1. DOMAIN output' = 1 .. Len(output) + k
            BY <1>1, <1>3
          <6>2. output'[i].data = Stream!FrameOf(taken', origin' + i - 1)
            BY <1>2, <6>1 DEF ExactInv, FramesInv, OutputExact
          <6> QED BY <1>2, <3>2, <6>2
        <5> QED BY <5>2, <5>3, <5>4
      <4>3. i <= Len(output) \/ i > Len(output)
        BY <1>1
      <4> QED BY <4>1, <4>2, <4>3
    <3>5. h = f \o g
      BY <3>1, <3>2, <3>3, <3>4, SeqEqual
    <3> QED BY <3>5 DEF f, h
  <2>14. Stream!Deliver
    BY <1>2, <2>1, <2>6, <2>7, <2>8, <2>9, <2>13
       DEF Stream!Deliver, Data, g, n
  <2> QED BY <2>14
<1> QED BY <1>1, <1>5, <1>6

(* A step of the source is a step of the stream, or none. *)
LEMMA StreamStep ==
    ASSUME InOrderNetwork, SafeInv, ExactInv, SafeInv', ExactInv',
           ~overran, ~overran', [Next]_vars
    PROVE  Stream!Next \/ UNCHANGED Stream!vars
<1>1. UNCHANGED <<takeVars, output>> => UNCHANGED Stream!vars
  BY DEF Stream!vars, takeVars
<1>2. CASE WorkLoop
  BY <1>2, StreamTake DEF Stream!Next
<1>3. CASE ReturnItems
  BY <1>3, StreamReturn DEF Stream!Next
<1>4. CASE Network \/ MmsgReceive
  BY <1>1, <1>4 DEF Network, Send, Lose, SendForeign, Reorder, Duplicate,
                    MmsgReceive, outVars
<1>5. CASE WorkCall \/ PollPackets \/ GiveUp \/ SendSyncPmt \/ HandleSyncMsg
  BY <1>1, <1>5 DEF WorkCall, PollPackets, GiveUp, SendSyncPmt, HandleSyncMsg, outVars
<1>6. CASE UNCHANGED vars
  BY <1>1, <1>6 DEF vars, outVars
<1> QED BY <1>2, <1>3, <1>4, <1>5, <1>6 DEF Next, Work

(* In order, the source implements AlignedStream for as long as no gap       *)
(* exceeds MAX_MISSED_SETS.                                                  *)
LEMMA StreamUntilOverrun ==
    ASSUME InOrderNetwork PROVE Spec /\ []~overran => StreamSpec
<1>1. Init => Stream!Init
  <2> SUFFICES ASSUME Init PROVE Stream!Init
      OBVIOUS
  <2>1. taken = {} /\ origin = None /\ output = <<>>
    BY DEF Init
  <2>2. Data(output) = <<>>
    <3>1. output \in Seq([data : Frame, tag : Tag])
      BY SafeInit DEF SafeInv, TypeOK, OutTypeOK
    <3>2. Data(output) \in Seq(Frame) /\ Len(Data(output)) = 0
      BY <2>1, <3>1, DataIsSeq
    <3> QED BY <3>2, EmptySeq
  <2> QED BY <2>1, <2>2 DEF Stream!Init, Data
<1>2. SafeInv /\ ExactInv /\ (SafeInv /\ ExactInv)' /\ ~overran /\ ~overran' /\ [Next]_vars
          => [Stream!Next]_(Stream!vars)
  BY StreamStep
<1> QED BY <1>1, <1>2, ExactInvariant, PTL DEF Spec, StreamSpec, Stream!Spec

(* When the timestamps leave no room for a gap that is not filled in, none   *)
(* is met.                                                                   *)
LEMMA NothingOverruns ==
    ASSUME InOrderNetwork, LastTime - FirstTime <= MaxMissedSets + 1
    PROVE  Spec => []~overran
<1>1. Init => ~overran
  BY Zenon DEF Init
<1>2. SafeInv /\ ExactInv /\ ~overran /\ [Next]_vars => ~overran'
  <2> SUFFICES ASSUME SafeInv, ExactInv, ~overran, [Next]_vars PROVE ~overran'
      OBVIOUS
  <2>1. CASE WorkLoop
    <3> DEFINE p == Head(d_localqueue)
    <3>1. TakePacket
      BY <2>1 DEF WorkLoop, QueueOnePacketFrame, StartNextFrame, FillFrame
    <3>2. /\ p \in Packet /\ p.ts \in Nat
          /\ origin = None => MissedSets(p) = 0
          /\ origin # None =>
                /\ origin \in Nat /\ d_last_timestamp \in Nat
                /\ d_last_timestamp >= origin
                /\ MissedSets(p) = IF p.ts = d_last_timestamp THEN 0
                                   ELSE p.ts - d_last_timestamp - 1
      BY <3>1, TakenInTurn, TakenIsNotLater DEF FramesInv
    <3>3. overran' = (overran \/ MissedSets(p) > MaxMissedSets)
      BY <3>1 DEF TakePacket
    <3> HIDE DEF p
    <3>4. p.ts \in Int /\ p.ts <= LastTime
      BY <3>2, SizesAssumption DEF Packet, Times
    <3>5. ~(MissedSets(p) > MaxMissedSets)
      <4>1. CASE origin = None
        BY <3>2, <4>1, SizesAssumption
      <4>2. CASE origin # None
        <5>1. origin >= FirstTime
          BY <4>2, SizesAssumption DEF SafeInv, TypeOK, TakeTypeOK, Times
        <5> QED BY <3>2, <3>4, <4>2, <5>1, SizesAssumption
      <4> QED BY <4>1, <4>2
    <3> QED BY <3>3, <3>5
  <2>2. CASE Network \/ MmsgReceive
    BY <2>2 DEF Network, Send, Lose, SendForeign, Reorder, Duplicate,
                MmsgReceive, takeVars
  <2>3. CASE WorkCall \/ PollPackets \/ GiveUp \/ SendSyncPmt \/ HandleSyncMsg
    BY <2>3 DEF WorkCall, PollPackets, GiveUp, SendSyncPmt, HandleSyncMsg, takeVars
  <2>4. CASE ReturnItems
    BY <2>4 DEF ReturnItems, takeVars
  <2>5. CASE UNCHANGED vars
    BY <2>5 DEF vars, takeVars
  <2> QED BY <2>1, <2>2, <2>3, <2>4, <2>5 DEF Next, Work
<1> QED BY <1>1, <1>2, ExactInvariant, PTL DEF Spec

(* In order and with gaps that are filled in, the source implements          *)
(* AlignedStream: whatever is lost, and however the calls of work() cut the  *)
(* batches and the output, every step of its two threads is a packet taken   *)
(* for a frame not yet delivered, the next complete frames delivered, or     *)
(* nothing to the blocks downstream.                                         *)
THEOREM StreamIsAligned ==
    ASSUME InOrderNetwork, LastTime - FirstTime <= MaxMissedSets + 1
    PROVE  Spec => StreamSpec
BY NothingOverruns, StreamUntilOverrun, PTL

-----------------------------------------------------------------------------
(* The packets reported missing. *)

(* The blocks of zeros in a frame and in a sequence of frames. *)
ZerosOf(f)  == {b \in Blocks : f[b] = Zero}
ZerosIn(fs) == {p \in (DOMAIN fs) \X Blocks : fs[p[1]][p[2]] = Zero}

(* The ledger balances, a call starts with nothing to report, and what the   *)
(* frame being filled still lacks is what multipacket_frame_pkt_ctr says.    *)
LedgerInv ==
    /\ MissedLedger
    /\ skippedPackets \in Nat
    /\ pc # "loop" => skippedPackets = 0
    /\ ~OnePacket => multipacket_frame_pkt_ctr + Cardinality(ZerosOf(x_vector_buffer))
                         = PacketsPerFrame

(* Sets that are one to one have the same size. *)
LEMMA OneToOne ==
    ASSUME NEW S, NEW T, IsFiniteSet(S), NEW f \in [S -> T],
           \A a, b \in S : f[a] = f[b] => a = b,
           \A t \in T : \E s \in S : f[s] = t
    PROVE  IsFiniteSet(T) /\ Cardinality(T) = Cardinality(S)
<1>1. f \in Bijection(S, T)
  BY DEF Bijection, Injection, IsInjective, Surjection
<1> QED BY <1>1, FS_Bijection DEF ExistsBijection

(* A frame has PacketsPerFrame blocks. *)
LEMMA BlocksFinite ==
    /\ IsFiniteSet(Blocks) /\ Cardinality(Blocks) = PacketsPerFrame
    /\ \A f : IsFiniteSet(ZerosOf(f)) /\ Cardinality(ZerosOf(f)) \in Nat
<1>1. IsFiniteSet(0 .. PacketsPerFrame - 1)
      /\ Cardinality(0 .. PacketsPerFrame - 1) = PacketsPerFrame
  <2>1. PacketsPerFrame \in Nat /\ PacketsPerFrame > 0
    BY SizesAssumption
  <2>2. 0 \in Int /\ PacketsPerFrame - 1 \in Int /\ ~(0 > PacketsPerFrame - 1)
        /\ (PacketsPerFrame - 1) - 0 + 1 = PacketsPerFrame
    BY <2>1
  <2> QED BY <2>2, FS_Interval
<1>2. ASSUME NEW f PROVE IsFiniteSet(ZerosOf(f)) /\ Cardinality(ZerosOf(f)) \in Nat
  <2>1. ZerosOf(f) \subseteq Blocks
    BY DEF ZerosOf
  <2>2. IsFiniteSet(ZerosOf(f))
    BY <1>1, <2>1, FS_Subset DEF Blocks
  <2> QED BY <2>2, FS_CardinalityType
<1> QED BY <1>1, <1>2 DEF Blocks

(* The zeros of a sequence are finitely many. *)
LEMMA ZerosFinite ==
    ASSUME NEW F \in Seq(Frame)
    PROVE  IsFiniteSet(ZerosIn(F)) /\ Cardinality(ZerosIn(F)) \in Nat
<1>1. Len(F) \in Nat /\ DOMAIN F = 1 .. Len(F)
  BY LenProperties
<1>2. IsFiniteSet(1 .. Len(F))
  BY <1>1, FS_Interval
<1>3. IsFiniteSet((1 .. Len(F)) \X Blocks)
  BY <1>2, BlocksFinite, FS_Product
<1>4. ZerosIn(F) \subseteq (1 .. Len(F)) \X Blocks
  BY <1>1 DEF ZerosIn
<1>5. IsFiniteSet(ZerosIn(F))
  BY <1>3, <1>4, FS_Subset
<1> QED BY <1>5, FS_CardinalityType

(* The zeros of two sequences after one another. *)
LEMMA ZerosConcat ==
    ASSUME NEW F \in Seq(Frame), NEW G \in Seq(Frame)
    PROVE  Cardinality(ZerosIn(F \o G))
               = Cardinality(ZerosIn(F)) + Cardinality(ZerosIn(G))
<1> DEFINE n == Len(F)
           m == Len(G)
           A == ZerosIn(F)
           B == ZerosIn(G)
           C == {p \in (n + 1 .. n + m) \X Blocks : G[p[1] - n][p[2]] = Zero}
           f == [p \in B |-> <<p[1] + n, p[2]>>]
<1>1. /\ n \in Nat /\ m \in Nat
      /\ DOMAIN F = 1 .. n /\ DOMAIN G = 1 .. m
  BY LenProperties
<1>2. /\ DOMAIN (F \o G) = 1 .. n + m
      /\ \A i \in 1 .. n + m : (F \o G)[i] = IF i <= n THEN F[i] ELSE G[i - n]
  BY ConcatProperties, LenProperties
<1> HIDE DEF n, m
<1>3. /\ A = {p \in (1 .. n) \X Blocks : F[p[1]][p[2]] = Zero}
      /\ B = {p \in (1 .. m) \X Blocks : G[p[1]][p[2]] = Zero}
      /\ ZerosIn(F \o G) = {p \in (1 .. n + m) \X Blocks : (F \o G)[p[1]][p[2]] = Zero}
  BY <1>1, <1>2 DEF ZerosIn
<1> HIDE DEF A, B
<1>4. ZerosIn(F \o G) = A \cup C
  <2>1. ASSUME NEW p \in (1 .. n + m) \X Blocks
        PROVE  p \in ZerosIn(F \o G) <=> p \in A \/ p \in C
    <3>1. p[1] \in 1 .. n + m /\ p[2] \in Blocks /\ p = <<p[1], p[2]>>
      OBVIOUS
    <3>2. CASE p[1] <= n
      <4>1. (F \o G)[p[1]] = F[p[1]] /\ p[1] \in 1 .. n /\ p[1] \notin n + 1 .. n + m
        BY <1>1, <1>2, <3>1, <3>2
      <4> QED BY <1>3, <3>1, <4>1
    <3>3. CASE ~(p[1] <= n)
      <4>1. (F \o G)[p[1]] = G[p[1] - n] /\ p[1] \notin 1 .. n /\ p[1] \in n + 1 .. n + m
        BY <1>1, <1>2, <3>1, <3>3
      <4> QED BY <1>3, <3>1, <4>1
    <3> QED BY <3>2, <3>3
  <2>2. A \subseteq (1 .. n + m) \X Blocks /\ C \subseteq (1 .. n + m) \X Blocks
    <3>1. 1 .. n \subseteq 1 .. n + m /\ n + 1 .. n + m \subseteq 1 .. n + m
      BY <1>1
    <3> QED BY <1>3, <3>1
  <2>3. ZerosIn(F \o G) \subseteq (1 .. n + m) \X Blocks
    BY <1>3
  <2> HIDE DEF C
  <2> QED BY <2>1, <2>2, <2>3
<1>5. A \cap C = {}
  <2>1. \A i \in 1 .. n : i \notin n + 1 .. n + m
    BY <1>1
  <2> QED BY <1>3, <2>1
<1>6. IsFiniteSet(A) /\ IsFiniteSet(B) /\ Cardinality(A) \in Nat /\ Cardinality(B) \in Nat
  BY ZerosFinite DEF A, B
<1>7. IsFiniteSet(C) /\ Cardinality(C) = Cardinality(B)
  <2>1. ASSUME NEW p \in B
        PROVE  /\ p[1] \in 1 .. m /\ p[2] \in Blocks /\ p = <<p[1], p[2]>>
               /\ f[p] = <<p[1] + n, p[2]>> /\ f[p] \in C
    <3>1. p[1] \in 1 .. m /\ p[2] \in Blocks /\ p = <<p[1], p[2]>> /\ G[p[1]][p[2]] = Zero
      BY <1>3
    <3>2. p[1] + n \in n + 1 .. n + m /\ (p[1] + n) - n = p[1]
      BY <1>1, <3>1
    <3> QED BY <3>1, <3>2
  <2>2. f \in [B -> C]
    BY <2>1
  <2>3. \A p, q \in B : f[p] = f[q] => p = q
    <3> SUFFICES ASSUME NEW p \in B, NEW q \in B, f[p] = f[q] PROVE p = q
        OBVIOUS
    <3>1. p[1] + n = q[1] + n /\ p[2] = q[2]
      BY <2>1
    <3>2. p[1] = q[1]
      BY <1>1, <2>1, <3>1
    <3> QED BY <2>1, <3>1, <3>2
  <2>4. ASSUME NEW c \in C PROVE \E p \in B : f[p] = c
    <3>1. c[1] \in n + 1 .. n + m /\ c[2] \in Blocks /\ c = <<c[1], c[2]>>
          /\ G[c[1] - n][c[2]] = Zero
      OBVIOUS
    <3>2. c[1] - n \in 1 .. m /\ (c[1] - n) + n = c[1]
      BY <1>1, <3>1
    <3>3. <<c[1] - n, c[2]>> \in B
      BY <1>3, <3>1, <3>2
    <3>4. f[<<c[1] - n, c[2]>>] = c
      BY <3>1, <3>2, <3>3
    <3> QED BY <3>3, <3>4
  <2> HIDE DEF f, C
  <2> QED BY <1>6, <2>2, <2>3, <2>4, OneToOne
<1>8. Cardinality(A \cup C) = Cardinality(A) + Cardinality(C) - Cardinality(A \cap C)
  BY <1>6, <1>7, FS_Union
<1>9. Cardinality(A \cap C) = 0
  BY <1>5, FS_EmptySet
<1> QED BY <1>4, <1>6, <1>7, <1>8, <1>9 DEF A, B

(* The zeros of one frame. *)
LEMMA ZerosSingle ==
    ASSUME NEW f \in Frame
    PROVE  Cardinality(ZerosIn(<<f>>)) = Cardinality(ZerosOf(f))
<1> DEFINE g == [b \in ZerosOf(f) |-> <<1, b>>]
<1>1. DOMAIN <<f>> = {1} /\ <<f>>[1] = f
  OBVIOUS
<1>2. ZerosIn(<<f>>) = {p \in {1} \X Blocks : f[p[2]] = Zero}
  BY <1>1 DEF ZerosIn
<1>3. g \in [ZerosOf(f) -> ZerosIn(<<f>>)]
  BY <1>2 DEF ZerosOf
<1>4. \A a, b \in ZerosOf(f) : g[a] = g[b] => a = b
  OBVIOUS
<1>5. ASSUME NEW p \in ZerosIn(<<f>>) PROVE \E b \in ZerosOf(f) : g[b] = p
  <2>1. p[2] \in ZerosOf(f) /\ p = <<1, p[2]>>
    BY <1>2 DEF ZerosOf
  <2> QED BY <2>1
<1> HIDE DEF g
<1> QED BY <1>3, <1>4, <1>5, BlocksFinite, OneToOne

(* The zeros of frames of zeros. *)
LEMMA ZerosOfZeros ==
    ASSUME NEW n \in Nat
    PROVE  Cardinality(ZerosIn([i \in 1 .. n |-> ZeroFrame])) = n * PacketsPerFrame
<1>1. ZerosIn([i \in 1 .. n |-> ZeroFrame]) = (1 .. n) \X Blocks
  BY DEF ZerosIn, ZeroFrame
<1>2. IsFiniteSet(1 .. n) /\ Cardinality(1 .. n) = n
  <2>1. 1 \in Int /\ n \in Int /\ (IF 1 > n THEN 0 ELSE n - 1 + 1) = n
    OBVIOUS
  <2> QED BY <2>1, FS_Interval
<1> QED BY <1>1, <1>2, BlocksFinite, FS_Product

(* Copying a packet into a block of zeros fills one block. *)
LEMMA ZerosCopy ==
    ASSUME NEW f \in Frame, NEW p \in Packet, p.ch \in Blocks, f[p.ch] = Zero
    PROVE  Cardinality(ZerosOf(CopyData(f, p))) = Cardinality(ZerosOf(f)) - 1
<1>1. p.ts # Zero
  BY NoTime DEF Packet
<1>2. ZerosOf(CopyData(f, p)) = ZerosOf(f) \ {p.ch}
  BY <1>1 DEF ZerosOf, CopyData, Frame
<1>3. p.ch \in ZerosOf(f)
  BY DEF ZerosOf
<1> QED BY <1>2, <1>3, BlocksFinite, FS_RemoveElement

(* The frames that have left the packet loop, as sequences. *)
LEMMA FramesType ==
    ASSUME SafeInv
    PROVE  /\ Data(output) \in Seq(Frame) /\ x_vector_queue \in Seq(Frame)
           /\ Frames = Data(output) \o x_vector_queue /\ Frames \in Seq(Frame)
           /\ ZeroBlocks = ZerosIn(Frames)
           /\ Cardinality(ZeroBlocks) \in Nat
<1>1. Data(output) \in Seq(Frame) /\ x_vector_queue \in Seq(Frame)
  BY DataIsSeq DEF SafeInv, TypeOK, OutTypeOK
<1>2. Frames = Data(output) \o x_vector_queue
  BY DEF Frames, Data
<1>3. Frames \in Seq(Frame)
  BY <1>1, <1>2, ConcatProperties
<1>4. ZeroBlocks = ZerosIn(Frames)
  BY DEF ZeroBlocks, ZerosIn
<1> QED BY <1>1, <1>2, <1>3, <1>4, ZerosFinite

(* Frames that are queued bring their zeros with them. *)
LEMMA LedgerQueue ==
    ASSUME SafeInv, SafeInv', output' = output,
           NEW frames \in Seq(Frame), x_vector_queue' = x_vector_queue \o frames
    PROVE  Cardinality(ZeroBlocks') = Cardinality(ZeroBlocks) + Cardinality(ZerosIn(frames))
<1>1. /\ Data(output) \in Seq(Frame) /\ x_vector_queue \in Seq(Frame)
      /\ Frames = Data(output) \o x_vector_queue /\ Frames \in Seq(Frame)
      /\ ZeroBlocks = ZerosIn(Frames)
  BY FramesType
<1>2. Frames' = Data(output) \o x_vector_queue' /\ ZeroBlocks' = ZerosIn(Frames')
  <2>1. Frames' = Data(output') \o x_vector_queue'
    BY DEF Frames, Data
  <2> QED BY <2>1 DEF ZeroBlocks, ZerosIn
<1>3. Cardinality(ZeroBlocks)
         = Cardinality(ZerosIn(Data(output))) + Cardinality(ZerosIn(x_vector_queue))
  BY <1>1, ZerosConcat
<1>4. /\ x_vector_queue' \in Seq(Frame)
      /\ Cardinality(ZerosIn(x_vector_queue'))
            = Cardinality(ZerosIn(x_vector_queue)) + Cardinality(ZerosIn(frames))
  BY <1>1, ZerosConcat, ConcatProperties
<1>5. Cardinality(ZeroBlocks')
         = Cardinality(ZerosIn(Data(output))) + Cardinality(ZerosIn(x_vector_queue'))
  BY <1>1, <1>2, <1>4, ZerosConcat
<1>6. /\ Cardinality(ZerosIn(Data(output))) \in Nat
      /\ Cardinality(ZerosIn(x_vector_queue)) \in Nat
      /\ Cardinality(ZerosIn(frames)) \in Nat
  BY <1>1, ZerosFinite
<1> QED BY <1>3, <1>4, <1>5, <1>6

(* The frames missing are counted as they are filled in. *)
LEMMA ZerosFilledIn ==
    ASSUME SafeInv, NEW p \in Packet, MissedSets(p) <= MaxMissedSets
    PROVE  /\ ZeroFill(p) \in Seq(Frame)
           /\ MissedSets(p) \in Nat
           /\ Cardinality(ZerosIn(ZeroFill(p))) = MissedSets(p) * PacketsPerFrame
<1>1. MissedSets(p) \in Nat /\ ZeroFill(p) \in Seq(Frame)
  BY ZeroFillType DEF SafeInv, TypeOK
<1>2. FilledIn(p) = MissedSets(p)
  BY DEF FilledIn
<1>3. ZeroFill(p) = [i \in 1 .. MissedSets(p) |-> ZeroFrame]
  BY <1>2 DEF ZeroFill
<1> QED BY <1>1, <1>3, ZerosOfZeros

(* One packet per frame: its frame has no zeros, the frames before it have   *)
(* only zeros.                                                               *)
LEMMA LedgerOnePacket ==
    ASSUME InOrderNetwork, SafeInv, SafeInv', ExactInv, LedgerInv, QueueOnePacketFrame
    PROVE  LedgerInv'
<1> DEFINE p == Head(d_localqueue)
           f == CopyData(x_vector_buffer, p)
<1>1. /\ OnePacket /\ TakePacket
      /\ x_vector_queue' = x_vector_queue \o Append(ZeroFill(p), f)
      /\ skippedPackets' = skippedPackets + MissedSets(p)
  BY DEF QueueOnePacketFrame, QueueFrames
<1>2. /\ pc = "loop" /\ pc' = pc /\ notified' = notified /\ output' = output
  BY <1>1 DEF TakePacket
<1>3. p \in Packet /\ x_vector_buffer \in Frame
  BY <1>1, SafeTake DEF SafeInv, TypeOK, FillTypeOK
<1>4. /\ MissedSets(p) \in Nat /\ skippedPackets \in Nat /\ notified \in Nat
      /\ Cardinality(ZeroBlocks) \in Nat
  BY <1>3, ZeroFillType, FramesType DEF SafeInv, TypeOK, CallTypeOK, LedgerInv
<1>5. ASSUME ~overran'
      PROVE  Cardinality(ZeroBlocks') = Cardinality(ZeroBlocks) + MissedSets(p)
  <2>1. MissedSets(p) <= MaxMissedSets
    BY <1>1, <1>5, NoOverrun
  <2>2. f \in Frame /\ ZeroFill(p) \in Seq(Frame)
    BY <1>3, <2>1, CopyDataType, ZerosFilledIn
  <2>3. f = [b \in Blocks |-> p.ts]
    <3>1. Blocks = {0} /\ p.ch = 0
      BY <1>1, <1>3 DEF OnePacket, InOrderNetwork, Blocks, Packet
    <3> QED BY <1>3, <3>1 DEF CopyData, Frame
  <2>4. Cardinality(ZerosOf(f)) = 0
    <3>1. p.ts # Zero
      BY <1>3, NoTime DEF Packet
    <3>2. ZerosOf(f) = {}
      BY <2>3, <3>1 DEF ZerosOf
    <3> QED BY <3>2, FS_EmptySet
  <2>5. Cardinality(ZerosIn(ZeroFill(p))) = MissedSets(p)
    <3>1. Cardinality(ZerosIn(ZeroFill(p))) = MissedSets(p) * PacketsPerFrame
      BY <1>3, <2>1, ZerosFilledIn
    <3> QED BY <1>1, <1>4, <3>1 DEF OnePacket
  <2> HIDE DEF f, p
  <2>6. /\ <<f>> \in Seq(Frame)
        /\ Append(ZeroFill(p), f) = ZeroFill(p) \o <<f>>
        /\ ZeroFill(p) \o <<f>> \in Seq(Frame)
    BY <2>2, AppendIsConcat, ConcatProperties
  <2>7. Cardinality(ZerosIn(ZeroFill(p) \o <<f>>)) = MissedSets(p)
    <3>1. Cardinality(ZerosIn(<<f>>)) = 0
      BY <2>2, <2>4, ZerosSingle
    <3>2. Cardinality(ZerosIn(ZeroFill(p) \o <<f>>))
             = Cardinality(ZerosIn(ZeroFill(p))) + Cardinality(ZerosIn(<<f>>))
      BY <2>2, <2>6, ZerosConcat
    <3> QED BY <1>4, <2>5, <3>1, <3>2
  <2>8. x_vector_queue' = x_vector_queue \o (ZeroFill(p) \o <<f>>)
    BY <1>1, <2>6
  <2> QED BY <1>2, <2>6, <2>7, <2>8, LedgerQueue
<1> HIDE DEF p, f
<1>6. MissedLedger'
  <2> SUFFICES ASSUME ~overran'
               PROVE  notified' + skippedPackets' = Cardinality(ZeroBlocks')
    BY DEF MissedLedger
  <2>1. ~overran
    BY <1>1, NoOverrun
  <2>2. notified + skippedPackets = Cardinality(ZeroBlocks)
    BY <2>1 DEF LedgerInv, MissedLedger
  <2> QED BY <1>1, <1>2, <1>4, <1>5, <2>2
<1>7. skippedPackets' \in Nat
  BY <1>1, <1>4
<1> QED BY <1>1, <1>2, <1>6, <1>7 DEF LedgerInv, OnePacket

(* Several packets per frame, and a new timestamp: the frame that ends lacks *)
(* MissingBlocks.                                                            *)
LEMMA LedgerStartNext ==
    ASSUME InOrderNetwork, SafeInv, SafeInv', ExactInv, LedgerInv, StartNextFrame
    PROVE  LedgerInv'
<1> DEFINE p == Head(d_localqueue)
           f == x_vector_buffer
<1>1. /\ ~OnePacket /\ TakePacket
      /\ x_vector_queue' = x_vector_queue \o (<<f>> \o ZeroFill(p))
      /\ skippedPackets' = skippedPackets + MissingBlocks + MissedSets(p) * PacketsPerFrame
      /\ x_vector_buffer' = CopyData(ZeroFrame, p)
      /\ multipacket_frame_pkt_ctr' = 1
  BY DEF StartNextFrame, QueueFrames
<1>2. /\ pc = "loop" /\ pc' = pc /\ notified' = notified /\ output' = output
  BY <1>1 DEF TakePacket
<1>3. p \in Packet /\ p.ch \in Blocks /\ f \in Frame
  <2>1. p \in Packet
    BY <1>1, SafeTake
  <2> QED BY <2>1 DEF SafeInv, TypeOK, FillTypeOK, Packet, InOrderNetwork
<1>4. /\ MissedSets(p) \in Nat /\ skippedPackets \in Nat /\ notified \in Nat
      /\ Cardinality(ZeroBlocks) \in Nat /\ Cardinality(ZerosOf(f)) \in Nat
      /\ MissedSets(p) * PacketsPerFrame \in Nat
      /\ MissingBlocks = Cardinality(ZerosOf(f))
  <2>1. /\ MissedSets(p) \in Nat /\ skippedPackets \in Nat /\ notified \in Nat
        /\ multipacket_frame_pkt_ctr \in Nat
        /\ Cardinality(ZeroBlocks) \in Nat /\ Cardinality(ZerosOf(f)) \in Nat
    BY <1>3, ZeroFillType, FramesType, BlocksFinite
       DEF SafeInv, TypeOK, CallTypeOK, FillTypeOK, LedgerInv
  <2>2. MissedSets(p) * PacketsPerFrame \in Nat
    <3>1. PacketsPerFrame \in Nat
      BY SizesAssumption
    <3> QED BY <2>1, <3>1
  <2>3. multipacket_frame_pkt_ctr + Cardinality(ZerosOf(f)) = PacketsPerFrame
    BY <1>1 DEF LedgerInv
  <2> QED BY <2>1, <2>2, <2>3 DEF MissingBlocks
<1> HIDE DEF p, f
<1>5. ASSUME ~overran'
      PROVE  Cardinality(ZeroBlocks')
               = Cardinality(ZeroBlocks) + Cardinality(ZerosOf(f))
                   + MissedSets(p) * PacketsPerFrame
  <2>1. MissedSets(p) <= MaxMissedSets
    BY <1>1, <1>5, NoOverrun DEF p
  <2>2. /\ ZeroFill(p) \in Seq(Frame)
        /\ Cardinality(ZerosIn(ZeroFill(p))) = MissedSets(p) * PacketsPerFrame
    BY <1>3, <2>1, ZerosFilledIn
  <2>3. <<f>> \in Seq(Frame) /\ <<f>> \o ZeroFill(p) \in Seq(Frame)
    BY <1>3, <2>2, ConcatProperties
  <2>4. Cardinality(ZerosIn(<<f>> \o ZeroFill(p)))
           = Cardinality(ZerosIn(<<f>>)) + Cardinality(ZerosIn(ZeroFill(p)))
    BY <2>2, <2>3, ZerosConcat
  <2>5. Cardinality(ZerosIn(<<f>>)) = Cardinality(ZerosOf(f))
    BY <1>3, ZerosSingle
  <2>6. Cardinality(ZeroBlocks') = Cardinality(ZeroBlocks)
                                    + Cardinality(ZerosIn(<<f>> \o ZeroFill(p)))
    BY <1>1, <1>2, <2>3, LedgerQueue
  <2> QED BY <1>4, <2>2, <2>4, <2>5, <2>6
<1>6. MissedLedger'
  <2> SUFFICES ASSUME ~overran'
               PROVE  notified' + skippedPackets' = Cardinality(ZeroBlocks')
    BY DEF MissedLedger
  <2>1. ~overran
    BY <1>1, NoOverrun
  <2>2. notified + skippedPackets = Cardinality(ZeroBlocks)
    BY <2>1 DEF LedgerInv, MissedLedger
  <2> DEFINE m == MissedSets(p) * PacketsPerFrame
             z == Cardinality(ZerosOf(f))
  <2>3. /\ m \in Nat /\ z \in Nat /\ skippedPackets' = skippedPackets + z + m
        /\ Cardinality(ZeroBlocks') = Cardinality(ZeroBlocks) + z + m
    BY <1>1, <1>4, <1>5
  <2> HIDE DEF m, z
  <2> QED BY <1>2, <1>4, <2>2, <2>3
<1>7. skippedPackets' \in Nat
  BY <1>1, <1>4
<1>8. 1 + Cardinality(ZerosOf(CopyData(ZeroFrame, p))) = PacketsPerFrame
  <2>1. ZerosOf(ZeroFrame) = Blocks /\ ZeroFrame[p.ch] = Zero
    BY <1>3 DEF ZerosOf, ZeroFrame
  <2>2. Cardinality(ZerosOf(CopyData(ZeroFrame, p))) = PacketsPerFrame - 1
    BY <1>3, <2>1, ZeroFrameType, ZerosCopy, BlocksFinite
  <2> QED BY <2>2, SizesAssumption
<1> QED BY <1>1, <1>2, <1>6, <1>7, <1>8 DEF LedgerInv, OnePacket

(* The same timestamp: the packet fills a block that lacked it, since none   *)
(* comes twice.                                                              *)
LEMMA LedgerFill ==
    ASSUME InOrderNetwork, SafeInv, SafeInv', ExactInv, LedgerInv, FillFrame
    PROVE  LedgerInv'
<1> DEFINE p == Head(d_localqueue)
           f == x_vector_buffer
<1>1. /\ ~OnePacket /\ TakePacket
      /\ x_vector_queue' = x_vector_queue /\ skippedPackets' = skippedPackets
      /\ x_vector_buffer' = CopyData(f, p)
      /\ multipacket_frame_pkt_ctr' = multipacket_frame_pkt_ctr + 1
      /\ ~NextFrame(p)
  BY DEF FillFrame
<1>2. /\ pc = "loop" /\ pc' = pc /\ notified' = notified /\ output' = output
  BY <1>1 DEF TakePacket
<1>3. p \in Packet /\ p.ch \in Blocks /\ f \in Frame
  <2>1. p \in Packet
    BY <1>1, SafeTake
  <2> QED BY <2>1 DEF SafeInv, TypeOK, FillTypeOK, Packet, InOrderNetwork
<1>4. f[p.ch] = Zero
  <2>1. CASE origin = None
    BY <1>3, <2>1 DEF ExactInv, FramesInv, TakenInv, ZeroFrame
  <2>2. CASE origin # None
    <3>1. p.ts = d_last_timestamp
      <4>1. /\ origin \in Nat /\ origin > 0
            /\ d_last_timestamp \in Nat /\ d_last_timestamp >= origin
        BY <1>1, <2>2, TakenInTurn, TakenIsNotLater DEF FramesInv
      <4> QED BY <1>1, <4>1 DEF NextFrame
    <3>2. p \notin taken
      <4>1. \A q \in taken : Before(q, p)
        BY <1>1, OrderTake DEF ExactInv
      <4>2. ~Before(p, p)
        <5>1. p.ts \in Int /\ p.ch \in Int
          BY <1>3, SizesAssumption DEF Packet, Times, Blocks
        <5> QED BY <5>1 DEF Before
      <4> QED BY <4>1, <4>2
    <3>3. p = [ts |-> d_last_timestamp, ch |-> p.ch]
      BY <1>3, <3>1 DEF Packet
    <3>4. f = Stream!FrameOf(taken, d_last_timestamp)
      BY <1>1, <2>2 DEF ExactInv, FramesInv, FillInv
    <3>5. f[p.ch] = IF [ts |-> d_last_timestamp, ch |-> p.ch] \in taken
                    THEN d_last_timestamp ELSE Zero
      BY <1>3, <3>4 DEF Stream!FrameOf, Blocks
    <3> QED BY <3>2, <3>3, <3>5
  <2> QED BY <2>1, <2>2
<1> HIDE DEF p, f
<1>5. Cardinality(ZerosOf(CopyData(f, p))) = Cardinality(ZerosOf(f)) - 1
  BY <1>3, <1>4, ZerosCopy
<1>6. multipacket_frame_pkt_ctr' + Cardinality(ZerosOf(x_vector_buffer')) = PacketsPerFrame
  <2>1. multipacket_frame_pkt_ctr + Cardinality(ZerosOf(f)) = PacketsPerFrame
    BY <1>1 DEF LedgerInv, f
  <2>2. multipacket_frame_pkt_ctr \in Nat /\ Cardinality(ZerosOf(f)) \in Nat
    BY BlocksFinite DEF SafeInv, TypeOK, FillTypeOK
  <2> QED BY <1>1, <1>5, <2>1, <2>2
<1>7. MissedLedger'
  <2>1. Cardinality(ZeroBlocks') = Cardinality(ZeroBlocks)
    BY <1>1, <1>2 DEF ZeroBlocks, Frames
  <2>2. ~overran' => ~overran
    BY <1>1 DEF TakePacket
  <2> QED BY <1>1, <1>2, <2>1, <2>2 DEF LedgerInv, MissedLedger
<1> QED BY <1>1, <1>2, <1>6, <1>7 DEF LedgerInv, OnePacket

(* Returning frames moves them from the queue to the output. *)
LEMMA FramesReturn ==
    ASSUME SafeInv, SafeInv', ReturnItems
    PROVE  Frames' = Frames
<1> DEFINE k == ItemsReturned
           D == Data(output)
           E == Data(output)'
           x == x_vector_queue
           y == x_vector_queue'
<1>1. /\ k \in 0 .. Len(x) /\ k \in Nat
      /\ Len(output) \in Nat
      /\ Len(output') = Len(output) + k
      /\ Len(y) = Len(x) - k
      /\ \A i \in 1 .. Len(y) : y[i] = x[i + k]
      /\ \A i \in 1 .. Len(output) : output'[i] = output[i]
  BY Returned
<1>2. \A i \in 1 .. k : output'[Len(output) + i] =
                    [data |-> x[i],
                     tag  |-> IF sync_timestamp = 0 THEN seq_num_queue[i] ELSE None]
  BY Returned, Zenon
<1>3. /\ D \in Seq(Frame) /\ Len(D) = Len(output)
      /\ \A i \in 1 .. Len(output) : D[i] = output[i].data
      /\ E \in Seq(Frame) /\ Len(E) = Len(output')
      /\ \A i \in 1 .. Len(output') : E[i] = output'[i].data
  <2>1. /\ output \in Seq([data : Frame, tag : Tag])
        /\ output' \in Seq([data : Frame, tag : Tag])
    BY DEF SafeInv, TypeOK, OutTypeOK
  <2>2. E = Data(output')
    BY DEF Data
  <2> QED BY <2>1, <2>2, DataIsSeq
<1>4. /\ x \in Seq(Frame) /\ y \in Seq(Frame) /\ Len(x) \in Nat
  BY DEF SafeInv, TypeOK, OutTypeOK
<1>5. Frames = D \o x /\ Frames' = E \o y
  BY DEF Frames, Data
<1> HIDE DEF k, D, E, x, y
<1>6. \A i \in 1 .. k : E[Len(output) + i] = x[i]
  <2> SUFFICES ASSUME NEW i \in 1 .. k PROVE E[Len(output) + i] = x[i]
      OBVIOUS
  <2>1. Len(output) + i \in 1 .. Len(output')
    BY <1>1
  <2>2. E[Len(output) + i] = output'[Len(output) + i].data
    BY <1>3, <2>1
  <2>3. output'[Len(output) + i] =
           [data |-> x[i],
            tag  |-> IF sync_timestamp = 0 THEN seq_num_queue[i] ELSE None]
    BY <1>2, Zenon
  <2> QED BY <2>2, <2>3
<1>7. \A i \in 1 .. Len(output) : E[i] = D[i]
  <2> SUFFICES ASSUME NEW i \in 1 .. Len(output) PROVE E[i] = D[i]
      OBVIOUS
  <2>1. i \in 1 .. Len(output')
    BY <1>1
  <2> QED BY <1>1, <1>3, <2>1
<1> DEFINE n == Len(output)
           l == Len(x)
<1>8. /\ n \in Nat /\ l \in Nat /\ k \in 0 .. l
      /\ Len(D) = n /\ Len(E) = n + k /\ Len(x) = l /\ Len(y) = l - k
  BY <1>1, <1>3, <1>4
<1>9. /\ \A i \in 1 .. n : E[i] = D[i]
      /\ \A i \in 1 .. k : E[n + i] = x[i]
      /\ \A i \in 1 .. l - k : y[i] = x[i + k]
  BY <1>1, <1>6, <1>7
<1> HIDE DEF n, l
<1>10. /\ D \o x \in Seq(Frame) /\ Len(D \o x) = n + l
       /\ \A i \in 1 .. n + l : (D \o x)[i] = IF i <= n THEN D[i] ELSE x[i - n]
  <2>1. /\ D \o x \in Seq(Frame) /\ Len(D \o x) = Len(D) + Len(x)
        /\ \A i \in 1 .. Len(D) + Len(x) :
              (D \o x)[i] = IF i <= Len(D) THEN D[i] ELSE x[i - Len(D)]
    <3>1. D \in Seq(Frame) /\ x \in Seq(Frame)
      BY <1>3, <1>4
    <3> QED BY <3>1, ConcatProperties
  <2> QED BY <1>8, <2>1
<1>11. /\ E \o y \in Seq(Frame) /\ Len(E \o y) = n + l
       /\ \A i \in 1 .. n + l : (E \o y)[i] = IF i <= n + k THEN E[i] ELSE y[i - (n + k)]
  <2>1. /\ E \o y \in Seq(Frame) /\ Len(E \o y) = Len(E) + Len(y)
        /\ \A i \in 1 .. Len(E) + Len(y) :
              (E \o y)[i] = IF i <= Len(E) THEN E[i] ELSE y[i - Len(E)]
    <3>1. E \in Seq(Frame) /\ y \in Seq(Frame)
      BY <1>3, <1>4
    <3> QED BY <3>1, ConcatProperties
  <2>2. Len(E) + Len(y) = n + l
    BY <1>8
  <2> QED BY <1>8, <2>1, <2>2
<1>12. ASSUME NEW i \in 1 .. n + l PROVE (E \o y)[i] = (D \o x)[i]
  <2>1. CASE i <= n
    <3>1. i \in 1 .. n /\ i <= n + k
      BY <1>8, <2>1
    <3> QED BY <1>9, <1>10, <1>11, <3>1
  <2>2. CASE i > n /\ i <= n + k
    <3>1. i - n \in 1 .. k /\ n + (i - n) = i /\ ~(i <= n)
      BY <1>8, <2>2
    <3>2. E[n + (i - n)] = x[i - n]
      BY <1>9, <3>1
    <3> QED BY <1>10, <1>11, <2>2, <3>1, <3>2
  <2>3. CASE i > n + k
    <3>1. i - (n + k) \in 1 .. l - k /\ (i - (n + k)) + k = i - n /\ ~(i <= n) /\ ~(i <= n + k)
      BY <1>8, <2>3
    <3>2. y[i - (n + k)] = x[(i - (n + k)) + k]
      BY <1>9, <3>1
    <3> QED BY <1>10, <1>11, <3>1, <3>2
  <2> QED BY <1>8, <2>1, <2>2, <2>3
<1>13. E \o y = D \o x
  BY <1>10, <1>11, <1>12, SeqEqual
<1> QED BY <1>5, <1>13

(* With the network in order, the missed packets reported are exactly the    *)
(* blocks of zeros put into the stream, with those that the call in progress *)
(* has counted: NotifyMissed (831, 841) and the zero fill never disagree.    *)
THEOREM LedgerBalances == ASSUME InOrderNetwork PROVE Spec => []MissedLedger
<1>1. Init => LedgerInv
  <2> SUFFICES ASSUME Init PROVE LedgerInv
      OBVIOUS
  <2>1. /\ output = <<>> /\ x_vector_queue = <<>> /\ notified = 0 /\ skippedPackets = 0
        /\ multipacket_frame_pkt_ctr = 0 /\ x_vector_buffer = ZeroFrame
    BY DEF Init
  <2>2. Cardinality(ZeroBlocks) = 0
    <3>1. Frames \in Seq(Frame) /\ Frames = Data(output) \o x_vector_queue
          /\ Data(output) \in Seq(Frame) /\ Len(Data(output)) = 0
      <4>1. SafeInv
        BY SafeInit
      <4>2. Len(Data(output)) = 0
        BY <2>1, <4>1, DataIsSeq DEF SafeInv, TypeOK, OutTypeOK
      <4> QED BY <4>1, <4>2, FramesType
    <3>2. DOMAIN Frames = {}
      <4>1. Data(output) = <<>>
        BY <3>1, EmptySeq
      <4>2. Frames = <<>>
        BY <2>1, <3>1, <4>1
      <4> QED BY <4>2
    <3>3. ZeroBlocks = {}
      BY <3>2 DEF ZeroBlocks
    <3> QED BY <3>3, FS_EmptySet
  <2>3. Cardinality(ZerosOf(ZeroFrame)) = PacketsPerFrame
    <3>1. ZerosOf(ZeroFrame) = Blocks
      BY DEF ZerosOf, ZeroFrame
    <3> QED BY <3>1, BlocksFinite
  <2> QED BY <2>1, <2>2, <2>3, SizesAssumption DEF LedgerInv, MissedLedger
<1>2. SafeInv /\ ExactInv /\ SafeInv' /\ LedgerInv /\ [Next]_vars => LedgerInv'
  <2> SUFFICES ASSUME SafeInv, ExactInv, SafeInv', LedgerInv, [Next]_vars PROVE LedgerInv'
      OBVIOUS
  <2>1. UNCHANGED <<overran, outVars, notified>> => (MissedLedger' <=>
            (~overran => notified + skippedPackets' = Cardinality(ZeroBlocks)))
    BY DEF MissedLedger, ZeroBlocks, Frames, outVars
  <2>2. CASE Network \/ MmsgReceive \/ HandleSyncMsg \/ UNCHANGED vars
    <3>1. UNCHANGED <<takeVars, callVars, fillVars, outVars>>
      BY <2>2 DEF Network, Send, Lose, SendForeign, Reorder, Duplicate, MmsgReceive,
                  HandleSyncMsg, vars
    <3> QED BY <3>1 DEF LedgerInv, MissedLedger, ZeroBlocks, Frames, OnePacket,
                        takeVars, callVars, fillVars, outVars
  <2>3. CASE WorkCall \/ PollPackets \/ GiveUp \/ SendSyncPmt
    <3>1. UNCHANGED <<overran, outVars, notified, fillVars>>
      BY <2>3 DEF WorkCall, PollPackets, GiveUp, SendSyncPmt, takeVars
    <3>2. skippedPackets' = 0 /\ skippedPackets = 0
      <4>1. pc # "loop"
        BY <2>3 DEF WorkCall, PollPackets, GiveUp, SendSyncPmt
      <4>2. skippedPackets' = skippedPackets \/ skippedPackets' = 0
        BY <2>3 DEF WorkCall, PollPackets, GiveUp, EndOfCall, SendSyncPmt
      <4> QED BY <4>1, <4>2 DEF LedgerInv
    <3> QED BY <2>1, <3>1, <3>2 DEF LedgerInv, MissedLedger, OnePacket, fillVars
  <2>4. CASE WorkLoop
    BY <2>4, LedgerOnePacket, LedgerStartNext, LedgerFill DEF WorkLoop
  <2>5. CASE ReturnItems
    <3>1. /\ UNCHANGED <<overran, fillVars>> /\ skippedPackets' = 0
          /\ notified' = notified + (IF skippedPackets > 0 THEN skippedPackets ELSE 0)
      BY <2>5 DEF ReturnItems, EndOfCall, takeVars
    <3>2. notified' = notified + skippedPackets /\ notified' \in Nat
      BY <3>1 DEF LedgerInv, SafeInv, TypeOK, CallTypeOK
    <3>3. Cardinality(ZeroBlocks') = Cardinality(ZeroBlocks)
      BY <2>5, FramesReturn DEF ZeroBlocks
    <3>4. MissedLedger'
      BY <3>1, <3>2, <3>3 DEF LedgerInv, MissedLedger
    <3> QED BY <3>1, <3>4 DEF LedgerInv, OnePacket, fillVars
  <2> QED BY <2>2, <2>3, <2>4, <2>5 DEF Next, Work
<1>3. LedgerInv => MissedLedger
  BY DEF LedgerInv
<1> QED BY <1>1, <1>2, <1>3, ExactInvariant, SafeInvariant, PTL DEF Spec
=============================================================================
