-------------------------- MODULE SnapPlaybackProofs --------------------------
(***************************************************************************)
(* What TLAPS proves of SnapPlayback for every value of its constants.     *)
(* work() takes the same packet loop as from the network, so that the      *)
(* lemmas of SnapVoltageProofs about its steps serve here as well; the     *)
(* reader and the two ends of a call are new.                              *)
(***************************************************************************)
EXTENDS SnapPlayback, SnapStreamProofs, Induction

-----------------------------------------------------------------------------
(* The first invariant: types, and the count that work() may leave its wait  *)
(* loop with.                                                                *)

(* The count is old when the loop ends, but there are as many packets.       *)
CountHolds == pc = "poll" /\ polled => num_packets_available <= Len(d_localqueue)

ReaderTypeOK ==
    /\ file \in Files
    /\ offset \in 0 .. Len(file)
    /\ matchingPackets \in 0 .. ReloadSize
    /\ repeats \in 0 .. MaxRepeats

FlagsOK ==
    /\ d_repeat_file \in BOOLEAN
    /\ reading \in BOOLEAN
    /\ pcap_file_done \in BOOLEAN
    /\ polled \in BOOLEAN
    /\ done \in BOOLEAN

PlayInv == SafeInv /\ ReaderTypeOK /\ FlagsOK /\ CountHolds

(* What the reader is about to read. *)
LEMMA RecordType ==
    ASSUME ReaderTypeOK, NEW i \in 1 .. Len(file)
    PROVE  file[i] = Other \/ file[i] \in Packet
<1>1. file \in Seq(Packet \cup {Other})
  BY PlaybackAssumption DEF ReaderTypeOK
<1> QED BY <1>1, ElementOfSeq

(* A file is a finite sequence. *)
LEMMA FileLength ==
    ASSUME ReaderTypeOK
    PROVE  Len(file) \in Nat /\ DOMAIN file = 1 .. Len(file) /\ offset \in Nat
<1>1. file \in Seq(Packet \cup {Other})
  BY PlaybackAssumption DEF ReaderTypeOK
<1>2. Len(file) \in Nat /\ DOMAIN file = 1 .. Len(file)
  BY <1>1, LenProperties
<1> QED BY <1>2 DEF ReaderTypeOK

(* A call changes nothing but its own variables before its loop. *)
LEMMA SafeOwnVars ==
    ASSUME SafeInv, CallTypeOK', PopSafe',
           UNCHANGED <<netVars, syncVars, queueVars, takeVars, fillVars, outVars>>
    PROVE  SafeInv'
<1>1. /\ NetTypeOK' /\ SyncTypeOK' /\ QueueTypeOK' /\ TakeTypeOK'
      /\ FillTypeOK' /\ OutTypeOK'
  BY DEF SafeInv, TypeOK, NetTypeOK, SyncTypeOK, QueueTypeOK, TakeTypeOK,
         FillTypeOK, OutTypeOK, netVars, syncVars, queueVars, takeVars,
         fillVars, outVars
<1>2. (QueueBound /\ TagsLockstep /\ TagsPresent /\ WorkBufferBound)'
  BY DEF SafeInv, QueueBound, TagsLockstep, TagsPresent, WorkBufferBound,
         syncVars, queueVars, outVars
<1> QED BY <1>1, <1>2 DEF SafeInv, TypeOK

(* What reading a packet of the file does. *)
LEMMA ReadCases ==
    ASSUME PlayInv, ReadRecord
    PROVE  LET r == file[offset + 1]
           IN  /\ offset + 1 \in 1 .. Len(file)
               /\ offset' = offset + 1
               /\ \/ /\ r = Other
                     /\ UNCHANGED <<matchingPackets, queueVars, syncVars>>
                  \/ /\ r # Other /\ r \in Packet
                     /\ matchingPackets' = matchingPackets + 1
                     /\ d_found_start_channel' =
                            (d_found_start_channel \/ r.ch = 0)
                     /\ d_localqueue' = IF Accepted(r) THEN PushBack(d_localqueue, <<r>>)
                                        ELSE d_localqueue
                     /\ overwrote' = (overwrote \/
                            (Accepted(r) /\ Len(d_localqueue) = NetBufSize))
                     /\ async_volt_sync_hdr' \in {r.ts, async_volt_sync_hdr}
                     /\ UNCHANGED <<sync_timestamp, published>>
               /\ UNCHANGED <<netVars, takeVars, callVars, fillVars, outVars>>
               /\ UNCHANGED <<file, d_repeat_file, reading, repeats, pcap_file_done,
                              polled, done>>
<1>1. offset + 1 \in 1 .. Len(file)
  <2>1. offset \in Nat /\ Len(file) \in Nat /\ offset < Len(file)
    BY FileLength DEF PlayInv, ReadRecord
  <2> QED BY <2>1
<1>2. file[offset + 1] # Other => file[offset + 1] \in Packet
  BY <1>1, RecordType DEF PlayInv
<1>3. d_found_start_channel \in BOOLEAN
  BY DEF PlayInv, SafeInv, TypeOK, SyncTypeOK
<1> QED BY <1>1, <1>2, <1>3, Zenon DEF ReadRecord

(* The reader pushes at the end of the queue. *)
LEMMA SafeRead == PlayInv /\ ReadRecord => SafeInv' /\ Len(d_localqueue) <= Len(d_localqueue')
<1> SUFFICES ASSUME PlayInv, ReadRecord
             PROVE  SafeInv' /\ Len(d_localqueue) <= Len(d_localqueue')
    OBVIOUS
<1> DEFINE r == file[offset + 1]
<1>1. UNCHANGED <<netVars, takeVars, callVars, fillVars, outVars>>
  BY ReadCases
<1>2. /\ d_localqueue \in Seq(Packet) /\ Len(d_localqueue) \in Nat
      /\ Len(d_localqueue) <= NetBufSize
  BY LenProperties DEF PlayInv, SafeInv, TypeOK, QueueTypeOK, QueueBound
<1>3. CASE r = Other
  <2>1. UNCHANGED <<queueVars, syncVars>>
    BY <1>3, ReadCases, PlaybackAssumption
  <2>2. SafeInv'
    BY <1>1, <2>1, SafeStutter DEF PlayInv, vars
  <2> QED BY <1>2, <2>1, <2>2 DEF queueVars
<1>4. CASE r # Other
  <2>1. /\ r \in Packet
        /\ d_localqueue' = IF Accepted(r) THEN PushBack(d_localqueue, <<r>>)
                           ELSE d_localqueue
        /\ async_volt_sync_hdr' \in {r.ts, async_volt_sync_hdr}
        /\ UNCHANGED <<sync_timestamp, published>>
    BY <1>4, ReadCases
  <2>2. <<r>> \in Seq(Packet)
    BY <2>1
  <2>3. /\ d_localqueue' \in Seq(Packet)
        /\ Len(d_localqueue') <= NetBufSize
        /\ Len(d_localqueue) <= Len(d_localqueue')
    <3> DEFINE q == PushBack(d_localqueue, <<r>>)
    <3>1. q \in Seq(Packet) /\ Len(q) <= NetBufSize /\ Len(d_localqueue) <= Len(q)
      BY <1>2, <2>2, PushBackGrows
    <3> HIDE DEF q
    <3>2. d_localqueue' \in {q, d_localqueue}
      BY <2>1 DEF q
    <3> QED BY <1>2, <3>1, <3>2
  <2>4. overwrote' \in BOOLEAN /\ d_found_start_channel' \in BOOLEAN
        /\ d_send_sync_pmt' \in BOOLEAN
    BY <1>4, Zenon DEF ReadRecord, PlayInv, SafeInv, TypeOK, SyncTypeOK
  <2>5. r.ts \in Times
    BY <2>1 DEF Packet
  <2>6. SyncTypeOK'
    BY <2>1, <2>4, <2>5 DEF PlayInv, SafeInv, TypeOK, SyncTypeOK
  <2>7. QueueTypeOK' /\ QueueBound'
    BY <2>3, <2>4 DEF QueueTypeOK, QueueBound
  <2>8. /\ NetTypeOK' /\ TakeTypeOK' /\ CallTypeOK' /\ FillTypeOK' /\ OutTypeOK'
    BY <1>1 DEF PlayInv, SafeInv, TypeOK, NetTypeOK, TakeTypeOK, CallTypeOK,
                FillTypeOK, OutTypeOK, netVars, takeVars, callVars, fillVars, outVars
  <2>9. PopSafe'
    <3>1. pc' = pc /\ num_packets_available' = num_packets_available
      BY <1>1 DEF callVars
    <3>2. num_packets_available \in Nat /\ Len(d_localqueue') \in Nat
      BY <2>3, LenProperties DEF PlayInv, SafeInv, TypeOK, CallTypeOK
    <3> QED BY <1>2, <2>3, <3>1, <3>2 DEF PlayInv, SafeInv, PopSafe
  <2>10. TagsLockstep' /\ TagsPresent' /\ WorkBufferBound'
    BY <1>1, <2>1 DEF PlayInv, SafeInv, TagsLockstep, TagsPresent, WorkBufferBound,
                      outVars
  <2> QED BY <2>3, <2>6, <2>7, <2>8, <2>9, <2>10 DEF SafeInv, TypeOK
<1> QED BY <1>3, <1>4

(* Counting, leaving the wait loop, and giving up. *)
LEMMA SafeWait ==
    PlayInv /\ (CountPackets \/ LeaveLoop \/ GiveUpOnFile) => SafeInv'
<1> SUFFICES ASSUME PlayInv, CountPackets \/ LeaveLoop \/ GiveUpOnFile
             PROVE  SafeInv'
    OBVIOUS
<1>1. UNCHANGED <<netVars, syncVars, queueVars, takeVars, fillVars, outVars,
                  notified>>
  BY DEF CountPackets, LeaveLoop, GiveUpOnFile
<1>2. /\ d_localqueue \in Seq(Packet) /\ d_localqueue' = d_localqueue
      /\ Len(d_localqueue) \in Nat
  BY <1>1, LenProperties DEF PlayInv, SafeInv, TypeOK, QueueTypeOK, queueVars
<1>3. CallTypeOK' /\ PopSafe'
  <2>1. CASE CountPackets
    BY <1>1, <1>2, <2>1 DEF PlayInv, SafeInv, TypeOK, CallTypeOK, PopSafe, CountPackets
  <2>2. CASE LeaveLoop
    BY <1>1, <1>2, <2>2 DEF PlayInv, SafeInv, TypeOK, CallTypeOK, PopSafe, LeaveLoop,
                            CountHolds
  <2>3. CASE GiveUpOnFile
    BY <1>1, <2>3, SizesAssumption
       DEF PlayInv, SafeInv, TypeOK, CallTypeOK, PopSafe, GiveUpOnFile, EndOfCall
  <2> QED BY <2>1, <2>2, <2>3
<1> QED BY <1>1, <1>3, SafeOwnVars DEF PlayInv

(* The steps that leave the source's own variables alone. *)
LEMMA QuietSteps ==
    ASSUME StartBatch \/ EndBatch \/ EndOfFile \/ WorkDone
    PROVE  UNCHANGED vars
BY DEF StartBatch, EndBatch, EndOfFile, WorkDone

(* The steps of a call that are those of SnapVoltage. *)
LEMMA SafeSame ==
    SafeInv /\ (WorkOnFile \/ WorkStep \/ SyncMsg) => SafeInv'
BY SafeCall, SafeSyncPmt, SafeWorkLoop, SafeReturn, SafeHandleSync
   DEF WorkOnFile, WorkStep, SyncMsg

(* The reader and the ends of the calls keep their types. *)
LEMMA ReaderTypeNext ==
    PlayInv /\ PlaybackNext => ReaderTypeOK' /\ FlagsOK'
<1> SUFFICES ASSUME PlayInv, PlaybackNext PROVE ReaderTypeOK' /\ FlagsOK'
    OBVIOUS
<1>1. ReaderTypeOK /\ FlagsOK /\ Len(file) \in Nat
  BY FileLength DEF PlayInv
<1>2. CASE StartBatch
  <2>1. FlagsOK'
    BY <1>1, <1>2, Zenon DEF StartBatch, FlagsOK
  <2>2. ReaderTypeOK'
    BY <1>1, <1>2, PlaybackAssumption DEF StartBatch, ReaderTypeOK
  <2> QED BY <2>1, <2>2
<1>3. CASE ReadRecord
  <2>1. FlagsOK'
    BY <1>1, <1>3, Zenon DEF ReadRecord, FlagsOK
  <2>2. /\ offset' = offset + 1 /\ offset + 1 \in 1 .. Len(file)
        /\ file' = file /\ repeats' = repeats
    BY <1>3, ReadCases
  <2>3. matchingPackets' \in {matchingPackets, matchingPackets + 1}
        /\ matchingPackets < ReloadSize
    BY <1>3, Zenon DEF ReadRecord
  <2> QED BY <1>1, <2>1, <2>2, <2>3, PlaybackAssumption DEF ReaderTypeOK
<1>4. CASE EndBatch
  <2>1. FlagsOK'
    BY <1>1, <1>4, Zenon DEF EndBatch, FlagsOK
  <2>2. ReaderTypeOK'
    BY <1>1, <1>4 DEF EndBatch, ReaderTypeOK
  <2> QED BY <2>1, <2>2
<1>5. CASE EndOfFile
  <2>1. FlagsOK'
    BY <1>1, <1>5, Zenon DEF EndOfFile, FlagsOK
  <2>2. ReaderTypeOK'
    BY <1>1, <1>5, PlaybackAssumption DEF EndOfFile, ReaderTypeOK, Opened
  <2> QED BY <2>1, <2>2
<1>6. CASE PlaybackWork \/ SyncMsg
  <2>1. UNCHANGED <<file, d_repeat_file, readerVars>>
    BY <1>6 DEF PlaybackWork, WorkDone, WorkOnFile, CountPackets, LeaveLoop,
                GiveUpOnFile, WorkStep, SyncMsg, playbackVars
  <2>2. polled' \in BOOLEAN /\ done' \in BOOLEAN
    BY <1>1, <1>6 DEF PlaybackWork, WorkDone, WorkOnFile, CountPackets, LeaveLoop,
                GiveUpOnFile, WorkStep, SyncMsg, playbackVars, FlagsOK
  <2>3. FlagsOK'
    BY <1>1, <2>1, <2>2, Zenon DEF FlagsOK, readerVars
  <2>4. ReaderTypeOK'
    BY <1>1, <2>1 DEF ReaderTypeOK, readerVars
  <2> QED BY <2>3, <2>4
<1> QED BY <1>2, <1>3, <1>4, <1>5, <1>6 DEF PlaybackNext, QueuePcapData

(* Nothing takes a packet away between the count and the end of the loop. *)
LEMMA CountHoldsNext == PlayInv /\ PlaybackNext => CountHolds'
<1> SUFFICES ASSUME PlayInv, PlaybackNext PROVE CountHolds'
    OBVIOUS
<1>1. d_localqueue \in Seq(Packet) /\ Len(d_localqueue) \in Nat
      /\ num_packets_available \in Nat
  BY LenProperties DEF PlayInv, SafeInv, TypeOK, QueueTypeOK, CallTypeOK
<1>2. CASE StartBatch \/ EndBatch \/ EndOfFile
  <2>1. UNCHANGED <<pc, num_packets_available, d_localqueue, polled>>
    BY <1>2, QuietSteps
       DEF StartBatch, EndBatch, EndOfFile, vars, callVars, queueVars
  <2> QED BY <2>1 DEF PlayInv, CountHolds
<1>3. CASE ReadRecord
  <2>1. UNCHANGED <<pc, num_packets_available, polled>>
    BY <1>3, ReadCases DEF callVars
  <2>2. Len(d_localqueue) <= Len(d_localqueue') /\ Len(d_localqueue') \in Nat
    BY <1>3, SafeRead, LenProperties DEF SafeInv, TypeOK, QueueTypeOK
  <2> QED BY <1>1, <2>1, <2>2 DEF PlayInv, CountHolds
<1>4. CASE WorkDone
  <2>1. UNCHANGED <<pc, num_packets_available, d_localqueue, polled>>
    BY <1>4, QuietSteps DEF WorkDone, vars, callVars, queueVars
  <2> QED BY <2>1 DEF PlayInv, CountHolds
<1>5. CASE WorkOnFile
  BY <1>5 DEF WorkOnFile, CountHolds
<1>6. CASE CountPackets
  BY <1>1, <1>6 DEF CountPackets, CountHolds, queueVars
<1>7. CASE LeaveLoop
  BY <1>7 DEF LeaveLoop, CountHolds
<1>8. CASE GiveUpOnFile
  BY <1>8 DEF GiveUpOnFile, EndOfCall, CountHolds
<1>9. CASE WorkStep \/ SyncMsg
  <2>1. pc' # "poll"
    BY <1>9 DEF WorkStep, SyncMsg, SendSyncPmt, WorkLoop, QueueOnePacketFrame,
                StartNextFrame, FillFrame, TakePacket, ReturnItems, EndOfCall,
                HandleSyncMsg, callVars
  <2> QED BY <2>1 DEF CountHolds
<1> QED BY <1>2, <1>3, <1>4, <1>5, <1>6, <1>7, <1>8, <1>9
        DEF PlaybackNext, QueuePcapData, PlaybackWork

(* The first invariant holds in every state. *)
LEMMA PlayInvariant == PlaybackSpec => []PlayInv
<1>1. PlaybackInit => PlayInv
  <2> SUFFICES ASSUME PlaybackInit PROVE PlayInv
      OBVIOUS
  <2>1. SafeInv
    BY SafeInit DEF PlaybackInit
  <2>2. FlagsOK
    BY Zenon DEF PlaybackInit, FlagsOK
  <2>3. ReaderTypeOK
    <3>1. file \in Files /\ Len(file) \in Nat
      BY PlaybackAssumption, LenProperties DEF PlaybackInit
    <3> QED BY <3>1, PlaybackAssumption DEF PlaybackInit, ReaderTypeOK
  <2>4. CountHolds
    BY DEF PlaybackInit, CountHolds
  <2> QED BY <2>1, <2>2, <2>3, <2>4 DEF PlayInv
<1>2. PlayInv /\ [PlaybackNext]_allVars => PlayInv'
  <2> SUFFICES ASSUME PlayInv, [PlaybackNext]_allVars PROVE PlayInv'
      OBVIOUS
  <2>1. CASE PlaybackNext
    <3>1. SafeInv'
      BY <2>1, QuietSteps, SafeStutter, SafeRead, SafeWait, SafeSame
         DEF PlayInv, PlaybackNext, QueuePcapData, PlaybackWork
    <3> QED BY <2>1, <3>1, ReaderTypeNext, CountHoldsNext DEF PlayInv
  <2>2. CASE UNCHANGED allVars
    <3>1. UNCHANGED vars /\ UNCHANGED playbackVars
      BY <2>2 DEF allVars
    <3>2. SafeInv'
      BY <3>1, SafeStutter DEF PlayInv
    <3>3. ReaderTypeOK' /\ FlagsOK'
      BY <3>1 DEF PlayInv, ReaderTypeOK, FlagsOK, playbackVars, readerVars
    <3>4. CountHolds'
      BY <3>1 DEF PlayInv, CountHolds, playbackVars, vars, callVars, queueVars
    <3> QED BY <3>2, <3>3, <3>4 DEF PlayInv
  <2> QED BY <2>1, <2>2
<1> QED BY <1>1, <1>2, PTL DEF PlaybackSpec

(* Playing a file, every variable keeps its type.                            *)
THEOREM PlaybackTypes == PlaybackSpec => []PlaybackTypeOK
<1>1. PlayInv => PlaybackTypeOK
  <2> SUFFICES ASSUME PlayInv PROVE PlaybackTypeOK
      OBVIOUS
  <2>1. {d_repeat_file, reading, pcap_file_done, polled, done} \subseteq BOOLEAN
    BY Zenon DEF PlayInv, FlagsOK
  <2> QED BY <2>1 DEF PlayInv, SafeInv, ReaderTypeOK, PlaybackTypeOK
<1> QED BY <1>1, PlayInvariant, PTL

-----------------------------------------------------------------------------
(* The second invariant: the reader never has to overwrite.                  *)

(* The buffer holds a batch on top of what starts one: in the code 1000000   *)
(* packets (55), against 256 and 1024 at the most (425-434).                 *)
RoomForABatch == NetBufSize >= MinQueue + ReloadSize - 1

(* What is queued came before this batch or in it. *)
QueueFilled ==
    /\ Len(d_localqueue) < MinQueue + (IF reading THEN matchingPackets ELSE ReloadSize)
    /\ ~overwrote

(* There is room for the next packet. *)
LEMMA RoomForOne ==
    ASSUME RoomForABatch, PlayInv, QueueFilled, reading, matchingPackets < ReloadSize
    PROVE  /\ Len(d_localqueue) < NetBufSize
           /\ \A r \in Packet : PushBack(d_localqueue, <<r>>) = Append(d_localqueue, r)
<1>1. d_localqueue \in Seq(Packet) /\ Len(d_localqueue) \in Nat
  BY LenProperties DEF PlayInv, SafeInv, TypeOK, QueueTypeOK
<1>2. /\ matchingPackets \in Nat
      /\ MinQueue \in Nat /\ ReloadSize \in Nat /\ NetBufSize \in Nat
  BY PlaybackAssumption, SizesAssumption DEF PlayInv, ReaderTypeOK
<1>3. Len(d_localqueue) < NetBufSize
  BY <1>1, <1>2 DEF RoomForABatch, QueueFilled
<1>4. ASSUME NEW r \in Packet
      PROVE  PushBack(d_localqueue, <<r>>) = Append(d_localqueue, r)
  <2>1. /\ d_localqueue \o <<r>> = Append(d_localqueue, r)
        /\ Len(d_localqueue \o <<r>>) = Len(d_localqueue) + 1
    BY <1>1
  <2> QED BY <1>1, <1>2, <1>3, <2>1 DEF PushBack
<1> QED BY <1>3, <1>4

(* What a step other than the reader's does to the queue: nothing, or it     *)
(* takes the front packet in the packet loop.                                *)
LEMMA WorkQueue ==
    ASSUME PlayInv, PlaybackWork \/ SyncMsg
    PROVE  /\ UNCHANGED <<file, d_repeat_file, readerVars>>
           /\ UNCHANGED <<d_found_start_channel, overwrote>>
           /\ \/ UNCHANGED <<d_localqueue, takeVars>>
              \/ TakePacket
<1>1. UNCHANGED <<file, d_repeat_file, readerVars>>
  BY DEF PlaybackWork, WorkDone, WorkOnFile, CountPackets, LeaveLoop,
         GiveUpOnFile, WorkStep, SyncMsg, playbackVars
<1>2. CASE WorkStep /\ WorkLoop
  <2>1. TakePacket
    BY <1>2 DEF WorkLoop, QueueOnePacketFrame, StartNextFrame, FillFrame
  <2> QED BY <1>1, <2>1 DEF TakePacket, syncVars
<1>3. CASE ~(WorkStep /\ WorkLoop)
  BY <1>1, <1>3
     DEF PlaybackWork, WorkDone, WorkOnFile, WorkCall, CountPackets, LeaveLoop,
         GiveUpOnFile, WorkStep, SyncMsg, SendSyncPmt, ReturnItems, HandleSyncMsg,
         playbackVars, vars, syncVars, queueVars
<1> QED BY <1>2, <1>3

(* The front packet is there, and the rest stays. *)
LEMMA TakeFront ==
    ASSUME PlayInv, TakePacket
    PROVE  /\ d_localqueue \in Seq(Packet) /\ d_localqueue # <<>>
           /\ Head(d_localqueue) \in Packet /\ Head(d_localqueue) = d_localqueue[1]
           /\ d_localqueue' = Tail(d_localqueue)
           /\ Len(d_localqueue) \in Nat \ {0}
           /\ Len(d_localqueue') = Len(d_localqueue) - 1
           /\ \A i \in 1 .. Len(d_localqueue') : d_localqueue'[i] = d_localqueue[i + 1]
           /\ taken' = taken \cup {Head(d_localqueue)}
<1>1. /\ d_localqueue \in Seq(Packet)
      /\ num_packets_available \in Nat
      /\ num_packets_available <= Len(d_localqueue)
      /\ num_packets_available > 0
  BY DEF PlayInv, SafeInv, TypeOK, QueueTypeOK, CallTypeOK, PopSafe, TakePacket
<1>2. d_localqueue # <<>>
  BY <1>1
<1>3. d_localqueue' = Tail(d_localqueue) /\ taken' = taken \cup {Head(d_localqueue)}
  BY DEF TakePacket
<1> QED BY <1>1, <1>2, <1>3, HeadTailProperties

(* The second invariant, step by step. *)
LEMMA QueueFilledNext ==
    ASSUME RoomForABatch, PlayInv, QueueFilled, [PlaybackNext]_allVars
    PROVE  QueueFilled'
<1>1. /\ d_localqueue \in Seq(Packet) /\ Len(d_localqueue) \in Nat
      /\ matchingPackets \in 0 .. ReloadSize
      /\ MinQueue \in Nat /\ ReloadSize \in Nat
  BY PlaybackAssumption, LenProperties
     DEF PlayInv, ReaderTypeOK, SafeInv, TypeOK, QueueTypeOK
<1>2. CASE StartBatch
  <2>1. UNCHANGED queueVars
    BY <1>2, QuietSteps DEF vars
  <2> QED BY <1>1, <1>2, <2>1 DEF StartBatch, QueueLow, QueueFilled, queueVars
<1>3. CASE ReadRecord
  <2> DEFINE r == file[offset + 1]
  <2>1. reading /\ matchingPackets < ReloadSize /\ reading' = reading
    BY <1>3 DEF ReadRecord
  <2>2. CASE r = Other
    <3>1. UNCHANGED <<matchingPackets, queueVars>>
      BY <1>3, <2>2, ReadCases, PlaybackAssumption
    <3> QED BY <2>1, <3>1 DEF QueueFilled, queueVars
  <2>3. CASE r # Other
    <3>1. /\ r \in Packet
          /\ matchingPackets' = matchingPackets + 1
          /\ d_localqueue' = IF Accepted(r) THEN PushBack(d_localqueue, <<r>>)
                             ELSE d_localqueue
          /\ overwrote' = (overwrote \/
                  (Accepted(r) /\ Len(d_localqueue) = NetBufSize))
      BY <1>3, <2>3, ReadCases
    <3>2. /\ Len(d_localqueue) < NetBufSize
          /\ PushBack(d_localqueue, <<r>>) = Append(d_localqueue, r)
      BY <2>1, <3>1, RoomForOne
    <3>3. Len(Append(d_localqueue, r)) = Len(d_localqueue) + 1
      BY <1>1, <3>1
    <3>4. ~overwrote'
      <4>1. Len(d_localqueue) # NetBufSize
        BY <1>1, <3>2, SizesAssumption
      <4> QED BY <3>1, <4>1 DEF QueueFilled
    <3>5. Len(d_localqueue') <= Len(d_localqueue) + 1 /\ Len(d_localqueue') \in Nat
      BY <1>1, <3>1, <3>2, <3>3
    <3> QED BY <1>1, <2>1, <3>1, <3>4, <3>5 DEF QueueFilled
  <2> QED BY <2>2, <2>3
<1>4. CASE EndBatch
  <2>1. UNCHANGED queueVars
    BY <1>4, QuietSteps DEF vars
  <2> QED BY <1>1, <1>4, <2>1 DEF EndBatch, QueueFilled, queueVars
<1>5. CASE EndOfFile
  <2>1. UNCHANGED queueVars
    BY <1>5, QuietSteps DEF vars
  <2>2. reading /\ ~reading' /\ matchingPackets < ReloadSize
    BY <1>5 DEF EndOfFile
  <2> QED BY <1>1, <2>1, <2>2 DEF QueueFilled, queueVars
<1>6. CASE PlaybackWork \/ SyncMsg
  <2>1. UNCHANGED <<reading, matchingPackets, overwrote>>
    BY <1>6, WorkQueue DEF readerVars
  <2>2. Len(d_localqueue') <= Len(d_localqueue) /\ Len(d_localqueue') \in Nat
    BY <1>1, <1>6, WorkQueue, TakeFront
  <2> QED BY <1>1, <2>1, <2>2 DEF QueueFilled
<1>7. CASE UNCHANGED allVars
  BY <1>7 DEF QueueFilled, allVars, playbackVars, readerVars, vars, queueVars
<1> QED BY <1>2, <1>3, <1>4, <1>5, <1>6, <1>7 DEF PlaybackNext, QueuePcapData

(* The second invariant holds in every state. *)
LEMMA QueueFilledInvariant ==
    ASSUME RoomForABatch PROVE PlaybackSpec => []QueueFilled
<1>1. PlaybackInit => QueueFilled
  BY PlaybackAssumption DEF PlaybackInit, Init, QueueFilled
<1>2. PlayInv /\ QueueFilled /\ [PlaybackNext]_allVars => QueueFilled'
  BY QueueFilledNext
<1> QED BY <1>1, <1>2, PlayInvariant, PTL DEF PlaybackSpec

(* The reader looks at the length of the queue once and pushes a whole batch *)
(* (1338, 1352); it never overwrites what it has read, when the buffer has   *)
(* room for one batch more than what starts it.                              *)
THEOREM ReaderNeverOverwrites ==
    ASSUME RoomForABatch PROVE PlaybackSpec => []NothingOverwritten
<1>1. PlayInv /\ QueueFilled => NothingOverwritten
  <2> SUFFICES ASSUME PlayInv, QueueFilled PROVE NothingOverwritten
      OBVIOUS
  <2>1. /\ Len(d_localqueue) \in Nat /\ matchingPackets \in 0 .. ReloadSize
        /\ MinQueue \in Nat /\ ReloadSize \in Nat
    BY PlaybackAssumption, LenProperties
       DEF PlayInv, ReaderTypeOK, SafeInv, TypeOK, QueueTypeOK
  <2> QED BY <2>1 DEF QueueFilled, NothingOverwritten
<1> QED BY <1>1, PlayInvariant, QueueFilledInvariant, PTL

-----------------------------------------------------------------------------
(* The third invariant: what has been read and when it ends.                 *)

Ours(r)     == r # Other /\ r.ch \in Blocks
Starting(r) == r # Other /\ r.ch = 0

(* The packets waiting in d_localqueue. *)
Queued == {d_localqueue[i] : i \in 1 .. Len(d_localqueue)}

(* The file's own packets between two records. *)
OwnRecords(first, last) == {file[j] : j \in {k \in first .. last : Ours(file[k])}}

StartsAt(i) == Starting(file[i]) /\ \A j \in 1 .. i - 1 : ~Starting(file[j])

(* Played once: from the first packet of the starting channel on, work() has *)
(* taken or will find in the queue every packet the reader has come across.  *)
ReadInv == ~d_repeat_file =>
    IF d_found_start_channel
    THEN \E i \in 1 .. offset :
            StartsAt(i) /\ taken \cup Queued = OwnRecords(i, offset)
    ELSE /\ taken = {} /\ d_localqueue = <<>>
         /\ \A j \in 1 .. offset : ~Starting(file[j])

(* The end of the file is final, and so is WORK_DONE. *)
EndInv ==
    /\ done => pcap_file_done /\ d_localqueue = <<>> /\ pc = "idle"
    /\ pcap_file_done => ~d_repeat_file /\ offset = Len(file)

(* Taking a packet from the queue moves it. *)
LEMMA QueuedTake ==
    ASSUME PlayInv, TakePacket
    PROVE  taken' \cup Queued' = taken \cup Queued
<1> DEFINE q == d_localqueue
           n == Len(q)
<1>1. /\ n \in Nat \ {0} /\ Len(q') = n - 1
      /\ \A i \in 1 .. Len(q') : q'[i] = q[i + 1]
      /\ taken' = taken \cup {q[1]}
  BY TakeFront
<1>2. Queued = {q[i] : i \in 1 .. n} /\ Queued' = {q'[i] : i \in 1 .. Len(q')}
  BY DEF Queued
<1> HIDE DEF q
<1>3. Queued' \subseteq Queued
  <2> SUFFICES ASSUME NEW i \in 1 .. Len(q') PROVE q'[i] \in Queued
      BY <1>2
  <2>1. q'[i] = q[i + 1] /\ i + 1 \in 1 .. n
    BY <1>1
  <2> QED BY <1>2, <2>1
<1>4. q[1] \in Queued
  <2>1. 1 \in 1 .. n
    BY <1>1
  <2> QED BY <1>2, <2>1
<1>5. Queued \subseteq {q[1]} \cup Queued'
  <2> SUFFICES ASSUME NEW i \in 1 .. n, i # 1 PROVE q[i] \in Queued'
      BY <1>2
  <2>1. i - 1 \in 1 .. Len(q') /\ (i - 1) + 1 = i
    BY <1>1
  <2>2. q'[i - 1] = q[i]
    BY <1>1, <2>1
  <2> QED BY <1>2, <2>1, <2>2
<1> QED BY <1>1, <1>3, <1>4, <1>5

(* Pushing a packet adds it. *)
LEMMA QueuedPush ==
    ASSUME PlayInv, NEW r \in Packet, d_localqueue' = Append(d_localqueue, r)
    PROVE  Queued' = Queued \cup {r}
<1>1. /\ d_localqueue \in Seq(Packet) /\ Len(d_localqueue) \in Nat
      /\ Len(d_localqueue') = Len(d_localqueue) + 1
      /\ \A i \in 1 .. Len(d_localqueue) : d_localqueue'[i] = d_localqueue[i]
      /\ d_localqueue'[Len(d_localqueue) + 1] = r
  BY LenProperties, AppendProperties DEF PlayInv, SafeInv, TypeOK, QueueTypeOK
<1>2. /\ Queued = {d_localqueue[i] : i \in 1 .. Len(d_localqueue)}
      /\ Queued' = {d_localqueue'[i] : i \in 1 .. Len(d_localqueue')}
  BY DEF Queued
<1>3. Queued' \subseteq Queued \cup {r}
  <2> SUFFICES ASSUME NEW i \in 1 .. Len(d_localqueue')
               PROVE  d_localqueue'[i] \in Queued \cup {r}
      BY <1>2
  <2>1. i \in 1 .. Len(d_localqueue) \/ i = Len(d_localqueue) + 1
    BY <1>1
  <2> QED BY <1>1, <1>2, <2>1
<1>4. Queued \subseteq Queued'
  <2> SUFFICES ASSUME NEW i \in 1 .. Len(d_localqueue)
               PROVE  d_localqueue[i] \in Queued'
      BY <1>2
  <2>1. i \in 1 .. Len(d_localqueue')
    BY <1>1
  <2> QED BY <1>1, <1>2, <2>1
<1>5. r \in Queued'
  <2>1. Len(d_localqueue) + 1 \in 1 .. Len(d_localqueue')
    BY <1>1
  <2> QED BY <1>1, <1>2, <2>1
<1> QED BY <1>3, <1>4, <1>5

(* What the queue holds once the reader has read one record. *)
LEMMA QueueRead ==
    ASSUME RoomForABatch, PlayInv, QueueFilled, ReadRecord
    PROVE  LET r == file[offset + 1]
               kept == r # Other /\ Accepted(r)
           IN  /\ kept => /\ r \in Packet
                          /\ d_localqueue' = Append(d_localqueue, r)
                          /\ Queued' = Queued \cup {r}
               /\ ~kept => UNCHANGED d_localqueue
               /\ d_found_start_channel' = (d_found_start_channel \/ Starting(r))
<1> DEFINE r == file[offset + 1]
<1>1. reading /\ matchingPackets < ReloadSize
  BY DEF ReadRecord
<1>2. CASE r = Other
  <2>1. UNCHANGED <<queueVars, syncVars>>
    BY <1>2, ReadCases, PlaybackAssumption
  <2>2. d_found_start_channel \in BOOLEAN
    BY DEF PlayInv, SafeInv, TypeOK, SyncTypeOK
  <2> QED BY <1>2, <2>1, <2>2 DEF queueVars, syncVars, Starting
<1>3. CASE r # Other
  <2>1. /\ r \in Packet
        /\ d_found_start_channel' = (d_found_start_channel \/ r.ch = 0)
        /\ d_localqueue' = IF Accepted(r) THEN PushBack(d_localqueue, <<r>>)
                           ELSE d_localqueue
    BY <1>3, ReadCases
  <2>2. PushBack(d_localqueue, <<r>>) = Append(d_localqueue, r)
    BY <1>1, <2>1, RoomForOne
  <2>3. Accepted(r) => d_localqueue' = Append(d_localqueue, r)
    BY <2>1, <2>2
  <2>4. Accepted(r) => Queued' = Queued \cup {r}
    BY <2>1, <2>3, QueuedPush
  <2>5. d_found_start_channel' = (d_found_start_channel \/ Starting(r))
    BY <1>3, <2>1 DEF Starting
  <2> QED BY <1>3, <2>1, <2>3, <2>4, <2>5
<1> QED BY <1>2, <1>3

(* One record more. *)
LEMMA OwnRecordsNext ==
    ASSUME NEW i \in Nat, NEW k \in Nat, i <= k + 1
    PROVE  OwnRecords(i, k + 1)
               = OwnRecords(i, k) \cup (IF Ours(file[k + 1]) THEN {file[k + 1]} ELSE {})
<1>1. i .. k + 1 = (i .. k) \cup {k + 1}
  OBVIOUS
<1> QED BY <1>1, Zenon DEF OwnRecords

(* Reading keeps the third invariant. *)
LEMMA ReadInvRead ==
    ASSUME RoomForABatch, PlayInv, QueueFilled, ReadInv, ReadRecord
    PROVE  ReadInv'
<1> DEFINE r == file[offset + 1]
           kept == r # Other /\ Accepted(r)
<1> SUFFICES ASSUME ~d_repeat_file' PROVE ReadInv'
    BY DEF ReadInv
<1>1. /\ ~d_repeat_file
      /\ offset \in Nat /\ offset' = offset + 1 /\ file' = file
      /\ offset + 1 \in 1 .. Len(file)
  <2>1. offset \in Nat
    BY FileLength DEF PlayInv
  <2> QED BY <2>1, ReadCases
<1>2. taken' = taken
  BY ReadCases DEF takeVars
<1>3. /\ kept => r \in Packet /\ Queued' = Queued \cup {r}
      /\ ~kept => UNCHANGED d_localqueue
      /\ d_found_start_channel' = (d_found_start_channel \/ Starting(r))
  BY QueueRead
<1>4. \A i : StartsAt(i) <=> StartsAt(i)'
  BY <1>1 DEF StartsAt
<1>5. \A i, k : OwnRecords(i, k)' = OwnRecords(i, k)
  BY <1>1 DEF OwnRecords
<1>6. ~kept => Queued' = Queued
  BY <1>3 DEF Queued
<1>7. CASE d_found_start_channel
  <2>1. d_found_start_channel'
    BY <1>3, <1>7
  <2>2. PICK i \in 1 .. offset :
            StartsAt(i) /\ taken \cup Queued = OwnRecords(i, offset)
    BY <1>1, <1>7 DEF ReadInv
  <2>3. kept <=> Ours(r)
    BY <1>7 DEF Accepted, Ours
  <2>4. OwnRecords(i, offset + 1)
          = OwnRecords(i, offset) \cup (IF Ours(r) THEN {r} ELSE {})
    <3>1. i \in Nat /\ i <= offset + 1
      BY <1>1, <2>2
    <3> QED BY <1>1, <3>1, OwnRecordsNext
  <2>5. taken' \cup Queued' = OwnRecords(i, offset + 1)
    <3> HIDE DEF r, kept
    <3>1. CASE kept
      BY <1>2, <1>3, <2>2, <2>3, <2>4, <3>1
    <3>2. CASE ~kept
      BY <1>2, <1>6, <2>2, <2>3, <2>4, <3>2
    <3> QED BY <3>1, <3>2
  <2>6. i \in 1 .. offset'
    BY <1>1
  <2> QED BY <1>1, <1>4, <1>5, <2>1, <2>2, <2>5, <2>6 DEF ReadInv
<1>8. CASE ~d_found_start_channel
  <2>1. /\ taken = {} /\ d_localqueue = <<>>
        /\ \A j \in 1 .. offset : ~Starting(file[j])
    BY <1>1, <1>8 DEF ReadInv
  <2>2. Queued = {}
    BY <2>1 DEF Queued
  <2>3. CASE Starting(r)
    <3>1. d_found_start_channel'
      BY <1>3, <2>3
    <3>2. kept /\ Ours(r)
      BY <2>3, SizesAssumption DEF Starting, Accepted, Ours, Blocks
    <3>3. \A j \in 1 .. (offset + 1) - 1 : ~Starting(file[j])
      BY <1>1, <2>1
    <3>4. StartsAt(offset + 1)
      BY <2>3, <3>3 DEF StartsAt
    <3>5. OwnRecords(offset + 1, offset + 1) = {r}
      <4>1. (offset + 1) .. (offset + 1) = {offset + 1}
        BY <1>1
      <4> QED BY <3>2, <4>1 DEF OwnRecords
    <3>6. taken' \cup Queued' = {r}
      BY <1>2, <1>3, <2>1, <2>2, <3>2
    <3>7. offset + 1 \in 1 .. offset'
      BY <1>1
    <3> QED BY <1>1, <1>4, <1>5, <3>1, <3>4, <3>5, <3>6, <3>7 DEF ReadInv
  <2>4. CASE ~Starting(r)
    <3>1. ~d_found_start_channel' /\ ~kept
      BY <1>3, <1>8, <2>4 DEF Starting, Accepted
    <3>2. taken' = {} /\ d_localqueue' = <<>>
      BY <1>2, <1>3, <2>1, <3>1
    <3>3. \A j \in 1 .. offset' : ~Starting(file'[j])
      <4> SUFFICES ASSUME NEW j \in 1 .. offset' PROVE ~Starting(file[j])
          BY <1>1
      <4>1. j \in 1 .. offset \/ j = offset + 1
        BY <1>1
      <4> QED BY <2>1, <2>4, <4>1
    <3> QED BY <3>1, <3>2, <3>3 DEF ReadInv, Starting
  <2> QED BY <2>3, <2>4
<1> QED BY <1>7, <1>8

(* ... and so does every other step. *)
LEMMA ReadInvNext ==
    ASSUME RoomForABatch, PlayInv, QueueFilled, ReadInv, [PlaybackNext]_allVars
    PROVE  ReadInv'
<1>1. CASE ReadRecord
  BY <1>1, ReadInvRead
<1>2. ASSUME UNCHANGED <<file, d_repeat_file, d_found_start_channel, d_localqueue, taken>>,
             ~d_repeat_file => offset' = offset
      PROVE  ReadInv'
  BY <1>2 DEF ReadInv, Queued, OwnRecords, StartsAt
<1>3. CASE StartBatch \/ EndBatch \/ EndOfFile
  <2>1. /\ UNCHANGED <<file, d_repeat_file>>
        /\ ~d_repeat_file => offset' = offset
    BY <1>3 DEF StartBatch, EndBatch, EndOfFile
  <2>2. UNCHANGED <<d_found_start_channel, d_localqueue, taken>>
    BY <1>3, QuietSteps DEF vars, syncVars, queueVars, takeVars
  <2> QED BY <1>2, <2>1, <2>2
<1>4. CASE PlaybackWork \/ SyncMsg
  <2>1. UNCHANGED <<file, d_repeat_file, offset, d_found_start_channel>>
    BY <1>4, WorkQueue DEF readerVars
  <2>2. CASE UNCHANGED <<d_localqueue, takeVars>>
    BY <1>2, <2>1, <2>2 DEF takeVars
  <2>3. CASE TakePacket
    <3>1. taken' \cup Queued' = taken \cup Queued
      BY <2>3, QueuedTake
    <3>2. d_localqueue # <<>>
      BY <2>3, TakeFront
    <3>3. ~d_repeat_file => d_found_start_channel
      BY <3>2 DEF ReadInv
    <3>4. \A i, k : OwnRecords(i, k)' = OwnRecords(i, k) /\ StartsAt(i)' = StartsAt(i)
      BY <2>1 DEF OwnRecords, StartsAt
    <3> QED BY <2>1, <3>1, <3>3, <3>4 DEF ReadInv
  <2> QED BY <1>4, <2>2, <2>3, WorkQueue
<1>5. CASE UNCHANGED allVars
  BY <1>2, <1>5 DEF allVars, playbackVars, readerVars, vars, syncVars, queueVars, takeVars
<1> QED BY <1>1, <1>3, <1>4, <1>5 DEF PlaybackNext, QueuePcapData

(* Once the last record is read, nothing is pushed. *)
LEMMA EndInvNext ==
    ASSUME PlayInv, EndInv, [PlaybackNext]_allVars
    PROVE  EndInv'
<1>1. CASE ReadRecord
  <2>1. ~pcap_file_done
    <3>1. offset < Len(file) /\ offset \in Nat
      BY <1>1, FileLength DEF PlayInv, ReadRecord
    <3> QED BY <3>1 DEF EndInv
  <2>2. ~done
    BY <2>1 DEF EndInv
  <2> QED BY <1>1, <2>1, <2>2 DEF ReadRecord, EndInv
<1>2. ASSUME UNCHANGED <<file, d_repeat_file, offset, pcap_file_done, d_localqueue, pc, done>>
      PROVE  EndInv'
  BY <1>2 DEF EndInv
<1>3. CASE StartBatch \/ EndBatch
  <2>1. UNCHANGED <<d_localqueue, pc>>
    BY <1>3, QuietSteps DEF vars, queueVars, callVars
  <2> QED BY <1>2, <1>3, <2>1 DEF StartBatch, EndBatch
<1>4. CASE EndOfFile
  <2>1. UNCHANGED <<d_localqueue, pc>>
    BY <1>4, QuietSteps DEF vars, queueVars, callVars
  <2>2. CASE d_repeat_file
    BY <1>4, <2>1, <2>2 DEF EndOfFile, EndInv
  <2>3. CASE ~d_repeat_file
    BY <1>4, <2>1, <2>3 DEF EndOfFile, EndInv
  <2> QED BY <2>2, <2>3
<1>5. CASE WorkDone
  <2>1. UNCHANGED <<d_localqueue, pc>>
    BY <1>5, QuietSteps DEF vars, queueVars, callVars
  <2> QED BY <1>5, <2>1 DEF WorkDone, AllPlayed, EndInv, readerVars
<1>6. CASE (PlaybackWork /\ ~WorkDone) \/ SyncMsg
  <2>1. UNCHANGED <<file, d_repeat_file, offset, pcap_file_done>>
    BY <1>6, WorkQueue DEF readerVars
  <2>2. ~done
    <3>1. CASE WorkOnFile
      BY <3>1 DEF WorkOnFile, AllPlayed, EndInv
    <3>2. CASE SyncMsg
      BY <3>2 DEF SyncMsg
    <3>3. CASE CountPackets \/ LeaveLoop \/ GiveUpOnFile \/ WorkStep
      <4>1. pc # "idle"
        BY <3>3 DEF CountPackets, LeaveLoop, GiveUpOnFile, WorkStep, SendSyncPmt,
                    WorkLoop, QueueOnePacketFrame, StartNextFrame, FillFrame,
                    TakePacket, ReturnItems
      <4> QED BY <4>1 DEF EndInv
    <3> QED BY <1>6, <3>1, <3>2, <3>3 DEF PlaybackWork
  <2>3. done' = done
    BY <1>6 DEF PlaybackWork, WorkOnFile, CountPackets, LeaveLoop,
                GiveUpOnFile, WorkStep, SyncMsg, playbackVars
  <2> QED BY <2>1, <2>2, <2>3 DEF EndInv
<1>7. CASE UNCHANGED allVars
  BY <1>2, <1>7 DEF allVars, playbackVars, readerVars, vars, queueVars, callVars
<1> QED BY <1>1, <1>3, <1>4, <1>5, <1>6, <1>7 DEF PlaybackNext, QueuePcapData, PlaybackWork

(* The third invariant holds in every state. *)
LEMMA ReadInvariant ==
    ASSUME RoomForABatch
    PROVE  PlaybackSpec => [](PlayInv /\ QueueFilled /\ EndInv /\ ReadInv)
<1>1. PlaybackInit => EndInv /\ ReadInv
  <2> SUFFICES ASSUME PlaybackInit PROVE EndInv /\ ReadInv
      OBVIOUS
  <2>1. /\ taken = {} /\ d_localqueue = <<>> /\ ~d_found_start_channel
        /\ ~done /\ ~pcap_file_done /\ offset = 0
    BY DEF PlaybackInit, Init
  <2> QED BY <2>1 DEF EndInv, ReadInv
<1>2. PlayInv /\ EndInv /\ [PlaybackNext]_allVars => EndInv'
  BY EndInvNext
<1>3. PlayInv /\ QueueFilled /\ ReadInv /\ [PlaybackNext]_allVars => ReadInv'
  BY ReadInvNext
<1> QED BY <1>1, <1>2, <1>3, PlayInvariant, QueueFilledInvariant, PTL DEF PlaybackSpec

(* FirstStart is the record the reader synchronised on. *)
LEMMA FirstStartIs ==
    ASSUME ReaderTypeOK, NEW i \in 1 .. Len(file), StartsAt(i)
    PROVE  FirstStart = i /\ Starts
<1> DEFINE Good(k) == /\ file[k] # Other /\ file[k].ch = 0
                      /\ \A j \in 1 .. k - 1 : file[j] = Other \/ file[j].ch # 0
<1>1. DOMAIN file = 1 .. Len(file) /\ Len(file) \in Nat
  BY FileLength
<1>2. Good(i)
  BY DEF StartsAt, Starting
<1>3. \A k \in DOMAIN file : Good(k) => k = i
  <2> SUFFICES ASSUME NEW k \in 1 .. Len(file), Good(k), k # i PROVE FALSE
      BY <1>1
  <2>1. k \in 1 .. i - 1 \/ i \in 1 .. k - 1
    BY <1>1
  <2> QED BY <1>2, <2>1
<1>4. FirstStart = CHOOSE k \in DOMAIN file : Good(k)
  BY DEF FirstStart
<1> HIDE DEF Good
<1>5. FirstStart \in DOMAIN file /\ Good(FirstStart)
  BY <1>1, <1>2, <1>4
<1> QED BY <1>1, <1>2, <1>3, <1>5 DEF Starts, Good

(* What should be played, once the reader is at the end of the file. *)
LEMMA PlayableIs ==
    ASSUME PlayInv, EndInv, ReadInv, done
    PROVE  taken = Playable
<1>1. /\ ~d_repeat_file /\ offset = Len(file) /\ d_localqueue = <<>>
      /\ Len(file) \in Nat /\ DOMAIN file = 1 .. Len(file)
  BY FileLength DEF EndInv, PlayInv
<1>2. Queued = {}
  BY <1>1 DEF Queued
<1>3. CASE d_found_start_channel
  <2>1. PICK i \in 1 .. Len(file) :
            StartsAt(i) /\ taken \cup Queued = OwnRecords(i, Len(file))
    BY <1>1, <1>3 DEF ReadInv
  <2>2. FirstStart = i /\ Starts
    BY <2>1, FirstStartIs DEF PlayInv
  <2>3. {j \in DOMAIN file : /\ j >= i /\ file[j] # Other /\ file[j].ch \in Blocks}
          = {k \in i .. Len(file) : Ours(file[k])}
    BY <1>1 DEF Ours
  <2>4. Playable = {file[k] : k \in {j \in DOMAIN file : /\ j >= i
                                                        /\ file[j] # Other
                                                        /\ file[j].ch \in Blocks}}
    BY <2>2 DEF Playable
  <2> QED BY <1>2, <2>1, <2>3, <2>4 DEF OwnRecords
<1>4. CASE ~d_found_start_channel
  <2>1. taken = {} /\ \A j \in DOMAIN file : ~Starting(file[j])
    BY <1>1, <1>4 DEF ReadInv
  <2> QED BY <2>1 DEF Starting, Starts, Playable
<1> QED BY <1>3, <1>4

(* WORK_DONE means that work() has taken every packet of the file it was     *)
(* meant to play: none is left behind that the reader pushed after work()    *)
(* counted, or before it saw the end of the file.                            *)
THEOREM NothingIsLeftBehind ==
    ASSUME RoomForABatch PROVE PlaybackSpec => []WholeFileTaken
<1>1. PlayInv /\ EndInv /\ ReadInv => WholeFileTaken
  BY PlayableIs DEF WholeFileTaken
<1> QED BY <1>1, ReadInvariant, PTL

-----------------------------------------------------------------------------
(* The fourth invariant: played once, the frames are exact, as they are with *)
(* packets that come from the network in their order.                        *)

Later(q, p) == q.ts < p.ts \/ (q.ts = p.ts /\ q.ch # p.ch)

(* A file that was recorded in order, whatever else is recorded in between,  *)
(* and timestamps that are not 0.                                            *)
FilesInOrder ==
    /\ FirstTime > 0
    /\ \A f \in Files : \A i, j \in DOMAIN f :
          i < j /\ Ours(f[i]) /\ Ours(f[j]) => Later(f[i], f[j])

(* The file's packets are in order from the file to work().                  *)
PlayOrderInv == ~d_repeat_file =>
    /\ \A x \in taken \cup Queued :
          /\ x.ch \in Blocks
          /\ \A j \in offset + 1 .. Len(file) : Ours(file[j]) => Later(x, file[j])
    /\ \A q \in taken : \A i \in 1 .. Len(d_localqueue) : Later(q, d_localqueue[i])
    /\ \A i, j \in 1 .. Len(d_localqueue) :
          i < j => Later(d_localqueue[i], d_localqueue[j])

(* Reading keeps the order. *)
LEMMA PlayOrderRead ==
    ASSUME RoomForABatch, FilesInOrder, PlayInv, QueueFilled, PlayOrderInv, ReadRecord
    PROVE  PlayOrderInv'
<1> DEFINE r == file[offset + 1]
           kept == r # Other /\ Accepted(r)
<1> SUFFICES ASSUME ~d_repeat_file' PROVE PlayOrderInv'
    BY DEF PlayOrderInv
<1>1. /\ ~d_repeat_file
      /\ offset \in Nat /\ offset' = offset + 1 /\ file' = file
      /\ offset + 1 \in 1 .. Len(file) /\ Len(file) \in Nat
      /\ DOMAIN file = 1 .. Len(file)
      /\ taken' = taken
  <2>1. offset \in Nat /\ Len(file) \in Nat /\ DOMAIN file = 1 .. Len(file)
    BY FileLength DEF PlayInv
  <2> QED BY <2>1, ReadCases DEF takeVars
<1>2. /\ \A x \in taken \cup Queued :
          /\ x.ch \in Blocks
          /\ \A j \in offset + 1 .. Len(file) : Ours(file[j]) => Later(x, file[j])
      /\ \A q \in taken : \A i \in 1 .. Len(d_localqueue) : Later(q, d_localqueue[i])
      /\ \A i, j \in 1 .. Len(d_localqueue) :
            i < j => Later(d_localqueue[i], d_localqueue[j])
  BY <1>1 DEF PlayOrderInv
<1>3. /\ kept => /\ r \in Packet
                 /\ d_localqueue' = Append(d_localqueue, r)
                 /\ Queued' = Queued \cup {r}
      /\ ~kept => UNCHANGED d_localqueue
  BY QueueRead
<1>4. kept => Ours(r)
  BY DEF Accepted, Ours
<1>5. /\ d_localqueue \in Seq(Packet) /\ Len(d_localqueue) \in Nat
  BY LenProperties DEF PlayInv, SafeInv, TypeOK, QueueTypeOK
<1>6. \A x \in taken' \cup Queued' :
          /\ x.ch \in Blocks
          /\ \A j \in offset' + 1 .. Len(file') : Ours(file'[j]) => Later(x, file'[j])
  <2>1. offset' + 1 .. Len(file') \subseteq offset + 1 .. Len(file)
    BY <1>1
  <2>2. ~kept => Queued' = Queued
    BY <1>3 DEF Queued
  <2>3. ASSUME kept
        PROVE  /\ r.ch \in Blocks
               /\ \A j \in offset' + 1 .. Len(file) : Ours(file[j]) => Later(r, file[j])
    <3>1. r.ch \in Blocks
      BY <1>4, <2>3 DEF Ours
    <3>2. \A j \in offset' + 1 .. Len(file) : j \in DOMAIN file /\ offset + 1 < j
      BY <1>1
    <3>3. file \in Files /\ offset + 1 \in DOMAIN file
      BY <1>1 DEF PlayInv, ReaderTypeOK
    <3> QED BY <1>4, <2>3, <3>1, <3>2, <3>3 DEF FilesInOrder
  <2> QED BY <1>1, <1>2, <1>3, <2>1, <2>2, <2>3
<1>7. \A q \in taken' : \A i \in 1 .. Len(d_localqueue') : Later(q, d_localqueue'[i])
  <2> SUFFICES ASSUME NEW q \in taken, NEW i \in 1 .. Len(d_localqueue')
               PROVE  Later(q, d_localqueue'[i])
      BY <1>1
  <2>1. CASE ~kept
    BY <1>2, <1>3, <2>1
  <2>2. CASE kept
    <3>1. Later(q, r)
      BY <1>1, <1>2, <1>4, <2>2
    <3>2. \/ i \in 1 .. Len(d_localqueue) /\ d_localqueue'[i] = d_localqueue[i]
          \/ d_localqueue'[i] = r
      BY <1>3, <1>5, <2>2, AppendProperties
    <3> QED BY <1>2, <3>1, <3>2
  <2> QED BY <2>1, <2>2
<1>8. \A i, j \in 1 .. Len(d_localqueue') :
          i < j => Later(d_localqueue'[i], d_localqueue'[j])
  <2> SUFFICES ASSUME NEW i \in 1 .. Len(d_localqueue'), NEW j \in 1 .. Len(d_localqueue'),
                      i < j
               PROVE  Later(d_localqueue'[i], d_localqueue'[j])
      OBVIOUS
  <2>1. CASE ~kept
    BY <1>2, <1>3, <2>1
  <2>2. CASE kept
    <3>1. Len(d_localqueue') = Len(d_localqueue) + 1
      BY <1>3, <1>5, <2>2, AppendProperties
    <3>2. i \in 1 .. Len(d_localqueue) /\ d_localqueue'[i] = d_localqueue[i]
      <4>1. i \in 1 .. Len(d_localqueue)
        BY <1>5, <3>1
      <4> QED BY <1>3, <1>5, <2>2, <4>1, AppendProperties
    <3>3. \/ j \in 1 .. Len(d_localqueue) /\ d_localqueue'[j] = d_localqueue[j]
          \/ d_localqueue'[j] = r
      BY <1>3, <1>5, <2>2, AppendProperties
    <3>4. Later(d_localqueue[i], r)
      <4>1. d_localqueue[i] \in Queued
        BY <3>2 DEF Queued
      <4> QED BY <1>1, <1>2, <1>4, <2>2, <4>1
    <3> QED BY <1>2, <3>2, <3>3, <3>4
  <2> QED BY <2>1, <2>2
<1> QED BY <1>6, <1>7, <1>8 DEF PlayOrderInv

(* Taking the front packet keeps the order. *)
LEMMA PlayOrderTake ==
    ASSUME PlayInv, PlayOrderInv, TakePacket,
           UNCHANGED <<file, d_repeat_file, offset>>
    PROVE  PlayOrderInv'
<1> SUFFICES ASSUME ~d_repeat_file' PROVE PlayOrderInv'
    BY DEF PlayOrderInv
<1>1. /\ \A x \in taken \cup Queued :
          /\ x.ch \in Blocks
          /\ \A j \in offset + 1 .. Len(file) : Ours(file[j]) => Later(x, file[j])
      /\ \A q \in taken : \A i \in 1 .. Len(d_localqueue) : Later(q, d_localqueue[i])
      /\ \A i, j \in 1 .. Len(d_localqueue) :
            i < j => Later(d_localqueue[i], d_localqueue[j])
  BY DEF PlayOrderInv
<1>2. /\ Len(d_localqueue) \in Nat \ {0}
      /\ Len(d_localqueue') = Len(d_localqueue) - 1
      /\ \A i \in 1 .. Len(d_localqueue') : d_localqueue'[i] = d_localqueue[i + 1]
      /\ taken' = taken \cup {d_localqueue[1]}
  BY TakeFront
<1>3. taken' \cup Queued' = taken \cup Queued
  BY QueuedTake
<1>4. \A i \in 1 .. Len(d_localqueue') : i + 1 \in 1 .. Len(d_localqueue) /\ 1 < i + 1
  BY <1>2
<1>5. \A q \in taken' : \A i \in 1 .. Len(d_localqueue') : Later(q, d_localqueue'[i])
  <2>1. 1 \in 1 .. Len(d_localqueue)
    BY <1>2
  <2> QED BY <1>1, <1>2, <1>4, <2>1
<1>6. \A i, j \in 1 .. Len(d_localqueue') :
          i < j => Later(d_localqueue'[i], d_localqueue'[j])
  <2>1. \A i, j \in 1 .. Len(d_localqueue') : i < j => i + 1 < j + 1
    OBVIOUS
  <2> QED BY <1>1, <1>2, <1>4, <2>1
<1> QED BY <1>1, <1>3, <1>5, <1>6 DEF PlayOrderInv

(* Every step keeps the order. *)
LEMMA PlayOrderNext ==
    ASSUME RoomForABatch, FilesInOrder, PlayInv, QueueFilled, PlayOrderInv,
           [PlaybackNext]_allVars
    PROVE  PlayOrderInv'
<1>1. CASE ReadRecord
  BY <1>1, PlayOrderRead
<1>2. ASSUME UNCHANGED <<file, d_repeat_file, d_localqueue, taken>>,
             ~d_repeat_file => offset' = offset
      PROVE  PlayOrderInv'
  BY <1>2 DEF PlayOrderInv, Queued
<1>3. CASE StartBatch \/ EndBatch \/ EndOfFile
  <2>1. /\ UNCHANGED <<file, d_repeat_file>>
        /\ ~d_repeat_file => offset' = offset
    BY <1>3 DEF StartBatch, EndBatch, EndOfFile
  <2>2. UNCHANGED <<d_localqueue, taken>>
    BY <1>3, QuietSteps DEF vars, queueVars, takeVars
  <2> QED BY <1>2, <2>1, <2>2
<1>4. CASE PlaybackWork \/ SyncMsg
  <2>1. UNCHANGED <<file, d_repeat_file, offset>>
    BY <1>4, WorkQueue DEF readerVars
  <2>2. CASE UNCHANGED <<d_localqueue, takeVars>>
    BY <1>2, <2>1, <2>2 DEF takeVars
  <2>3. CASE TakePacket
    BY <2>1, <2>3, PlayOrderTake
  <2> QED BY <1>4, <2>2, <2>3, WorkQueue
<1>5. CASE UNCHANGED allVars
  BY <1>2, <1>5 DEF allVars, playbackVars, readerVars, vars, queueVars, takeVars
<1> QED BY <1>1, <1>3, <1>4, <1>5 DEF PlaybackNext, QueuePcapData

(* So that every packet of the file is taken in its turn. *)
LEMMA PlayedInTurn ==
    ASSUME FilesInOrder, PlayInv, PlayOrderInv, ~d_repeat_file, TakePacket
    PROVE  InTurn
<1>1. /\ Head(d_localqueue) = d_localqueue[1] /\ Len(d_localqueue) \in Nat \ {0}
  BY TakeFront
<1>2. 1 \in 1 .. Len(d_localqueue)
  BY <1>1
<1>3. d_localqueue[1] \in Queued
  BY <1>2 DEF Queued
<1> QED BY <1>1, <1>2, <1>3 DEF PlayOrderInv, InTurn, FilesInOrder, Later

(* The frames of a file that is played once. *)
PlayedFramesInv == ~d_repeat_file => FramesInv

(* Every step keeps them exact. *)
LEMMA PlayedFramesNext ==
    ASSUME FilesInOrder, PlayInv, PlayOrderInv, PlayedFramesInv, [PlaybackNext]_allVars
    PROVE  PlayedFramesInv'
<1>1. d_repeat_file' = d_repeat_file
  BY WorkQueue DEF PlaybackNext, QueuePcapData, StartBatch, ReadRecord, EndBatch,
     EndOfFile, allVars, playbackVars
<1> SUFFICES ASSUME ~d_repeat_file PROVE FramesInv'
    BY <1>1 DEF PlayedFramesInv
<1>2. FramesInv /\ SafeInv
  BY DEF PlayedFramesInv, PlayInv
<1>3. CASE WorkStep /\ WorkLoop
  <2>1. TakePacket
    BY <1>3 DEF WorkLoop, QueueOnePacketFrame, StartNextFrame, FillFrame
  <2> QED BY <1>2, <1>3, <2>1, PlayedInTurn, FramesTake
<1>4. CASE WorkStep /\ ReturnItems
  BY <1>2, <1>4, FramesReturned
<1>5. CASE UNCHANGED <<takeVars, fillVars, outVars>>
  BY <1>2, <1>5, FramesUnchanged
<1>6. CASE PlaybackWork \/ SyncMsg
  BY <1>3, <1>4, <1>5, <1>6
     DEF PlaybackWork, WorkDone, WorkOnFile, WorkCall, CountPackets, LeaveLoop,
         GiveUpOnFile, WorkStep, SyncMsg, SendSyncPmt, HandleSyncMsg, vars
<1>7. CASE QueuePcapData
  <2>1. CASE ReadRecord
    BY <1>5, <2>1, ReadCases
  <2>2. CASE ~ReadRecord
    BY <1>5, <1>7, <2>2, QuietSteps DEF QueuePcapData, vars
  <2> QED BY <2>1, <2>2
<1>8. CASE UNCHANGED allVars
  BY <1>5, <1>8 DEF allVars, vars
<1> QED BY <1>6, <1>7, <1>8 DEF PlaybackNext

(* The fourth invariant holds in every state. *)
LEMMA PlayedInvariant ==
    ASSUME RoomForABatch, FilesInOrder
    PROVE  PlaybackSpec => [](PlayOrderInv /\ PlayedFramesInv)
<1>1. PlaybackInit => PlayOrderInv /\ PlayedFramesInv
  <2> SUFFICES ASSUME PlaybackInit PROVE PlayOrderInv /\ PlayedFramesInv
      OBVIOUS
  <2>1. taken = {} /\ d_localqueue = <<>>
    BY DEF PlaybackInit, Init
  <2>2. FramesInv
    BY ExactInit DEF PlaybackInit, ExactInv
  <2> QED BY <2>1, <2>2 DEF PlayOrderInv, PlayedFramesInv, Queued
<1>2. PlayInv /\ QueueFilled /\ PlayOrderInv /\ [PlaybackNext]_allVars => PlayOrderInv'
  BY PlayOrderNext
<1>3. PlayInv /\ PlayOrderInv /\ PlayedFramesInv /\ [PlaybackNext]_allVars
          => PlayedFramesInv'
  BY PlayedFramesNext
<1> QED BY <1>1, <1>2, <1>3, PlayInvariant, QueueFilledInvariant, PTL DEF PlaybackSpec

(* Played once, a file comes out as its packets would have from the network: *)
(* every frame is that of its place in time and holds exactly the packets    *)
(* taken for it, until a gap exceeds MAX_MISSED_SETS.                        *)
THEOREM PlayedOnceIsExact ==
    ASSUME RoomForABatch, FilesInOrder PROVE PlaybackSpec => []PlayedExactly
<1>1. PlayedFramesInv => PlayedExactly
  BY DEF PlayedFramesInv, PlayedExactly, FramesInv
<1> QED BY <1>1, PlayedInvariant, PTL

-----------------------------------------------------------------------------
(* The end of the stream. *)

(* Between two calls, nothing but the last gap can be left in the queue.     *)
LeftBehind ==
    Len(x_vector_queue) <= MaxMissedSets + (IF pc = "loop" THEN noutput_items ELSE 0)

(* The packet loop stops as soon as the call's output is complete. *)
LEMMA LeftBehindTake ==
    ASSUME SafeInv, WorkLoop
    PROVE  LeftBehind'
<1> DEFINE p == Head(d_localqueue)
<1>1. TakePacket
  BY DEF WorkLoop, QueueOnePacketFrame, StartNextFrame, FillFrame
<1>2. /\ p \in Packet /\ FillTypeOK
      /\ x_vector_queue \in Seq(Frame) /\ Len(x_vector_queue) \in Nat
      /\ x_vector_buffer \in Frame
      /\ noutput_items \in Nat /\ MaxMissedSets \in Nat
      /\ Len(x_vector_queue) < noutput_items
      /\ pc = "loop" /\ pc' = pc /\ noutput_items' = noutput_items
  BY <1>1, SafeTake, LenProperties, SizesAssumption
     DEF SafeInv, TypeOK, OutTypeOK, CallTypeOK, FillTypeOK, TakePacket
<1>3. ZeroFill(p) \in Seq(Frame) /\ Len(ZeroFill(p)) \in 0 .. MaxMissedSets
  BY <1>2, ZeroFillType
<1>4. CopyData(x_vector_buffer, p) \in Frame
  BY <1>2, CopyDataType
<1> HIDE DEF p
<1>5. Len(x_vector_queue') <= Len(x_vector_queue) + (MaxMissedSets + 1)
  <2>1. ASSUME NEW frames \in Seq(Frame), Len(frames) <= MaxMissedSets + 1,
               x_vector_queue' = x_vector_queue \o frames
        PROVE  Len(x_vector_queue') <= Len(x_vector_queue) + (MaxMissedSets + 1)
    <3>1. Len(x_vector_queue') = Len(x_vector_queue) + Len(frames) /\ Len(frames) \in Nat
      BY <1>2, <2>1, ConcatProperties, LenProperties
    <3> QED BY <1>2, <2>1, <3>1
  <2>2. CASE QueueOnePacketFrame
    <3> DEFINE frames == Append(ZeroFill(p), CopyData(x_vector_buffer, p))
    <3>1. frames \in Seq(Frame) /\ Len(frames) <= MaxMissedSets + 1
      BY <1>2, <1>3, <1>4, AppendProperties
    <3>2. x_vector_queue' = x_vector_queue \o frames
      BY <2>2 DEF QueueOnePacketFrame, QueueFrames, p
    <3> HIDE DEF frames
    <3> QED BY <2>1, <3>1, <3>2
  <2>3. CASE StartNextFrame
    <3> DEFINE frames == <<x_vector_buffer>> \o ZeroFill(p)
    <3>1. <<x_vector_buffer>> \in Seq(Frame) /\ Len(<<x_vector_buffer>>) = 1
      BY <1>2
    <3>2. frames \in Seq(Frame) /\ Len(frames) <= MaxMissedSets + 1
      BY <1>2, <1>3, <3>1, ConcatProperties
    <3>3. x_vector_queue' = x_vector_queue \o frames
      BY <2>3 DEF StartNextFrame, QueueFrames, p
    <3> HIDE DEF frames
    <3> QED BY <2>1, <3>2, <3>3
  <2>4. CASE FillFrame
    <3>1. x_vector_queue' = x_vector_queue
      BY <2>4 DEF FillFrame
    <3> QED BY <1>2, <3>1
  <2> QED BY <2>2, <2>3, <2>4 DEF WorkLoop
<1>6. Len(x_vector_queue') \in Nat
  BY SafeWorkLoop, LenProperties DEF SafeInv, TypeOK, OutTypeOK
<1> QED BY <1>2, <1>5, <1>6 DEF LeftBehind

(* Returning the items leaves at most the gap. *)
LEMMA LeftBehindReturn ==
    ASSUME SafeInv, LeftBehind, ReturnItems
    PROVE  LeftBehind'
<1>1. /\ x_vector_queue \in Seq(Frame) /\ Len(x_vector_queue) \in Nat
      /\ noutput_items \in Nat /\ MaxMissedSets \in Nat
      /\ pc = "loop" /\ pc' = "idle"
  BY LenProperties, SizesAssumption
     DEF SafeInv, TypeOK, OutTypeOK, CallTypeOK, ReturnItems, EndOfCall
<1>2. ItemsReturned \in 0 .. Len(x_vector_queue)
  BY <1>1 DEF ItemsReturned
<1>3. x_vector_queue' = SubSeq(x_vector_queue, ItemsReturned + 1, Len(x_vector_queue))
  BY DEF ReturnItems
<1>4. Len(x_vector_queue') = Len(x_vector_queue) - ItemsReturned
  BY <1>1, <1>2, <1>3
<1> QED BY <1>1, <1>4 DEF LeftBehind, ItemsReturned

(* Every step keeps the bound. *)
LEMMA LeftBehindNext ==
    ASSUME PlayInv, LeftBehind, [PlaybackNext]_allVars
    PROVE  LeftBehind'
<1>1. SafeInv /\ Len(x_vector_queue) \in Nat /\ MaxMissedSets \in Nat
      /\ noutput_items \in Nat
  BY LenProperties, SizesAssumption DEF PlayInv, SafeInv, TypeOK, OutTypeOK, CallTypeOK
<1>2. CASE WorkStep
  <2>1. CASE SendSyncPmt
    BY <1>1, <2>1 DEF SendSyncPmt, outVars, LeftBehind
  <2> QED BY <1>1, <1>2, <2>1, LeftBehindTake, LeftBehindReturn DEF WorkStep
<1>3. ASSUME pc # "loop", pc' # "loop", x_vector_queue' = x_vector_queue
      PROVE  LeftBehind'
  BY <1>3 DEF LeftBehind
<1>4. CASE (PlaybackWork /\ ~WorkDone /\ ~WorkStep) \/ SyncMsg
  BY <1>3, <1>4
     DEF PlaybackWork, WorkOnFile, WorkCall, CountPackets, LeaveLoop,
         GiveUpOnFile, EndOfCall, SyncMsg, HandleSyncMsg, outVars, callVars
<1>5. CASE UNCHANGED <<callVars, outVars>>
  BY <1>5 DEF LeftBehind, callVars, outVars
<1>6. CASE WorkDone \/ QueuePcapData \/ UNCHANGED allVars
  <2>1. CASE ReadRecord
    BY <1>5, <2>1, ReadCases
  <2>2. CASE ~ReadRecord
    BY <1>5, <1>6, <2>2, QuietSteps DEF QueuePcapData, vars, allVars
  <2> QED BY <2>1, <2>2
<1> QED BY <1>2, <1>4, <1>6 DEF PlaybackNext, PlaybackWork

(* The bound holds in every state. *)
LEMMA LeftBehindInvariant == PlaybackSpec => []LeftBehind
<1>1. PlaybackInit => LeftBehind
  BY SizesAssumption DEF PlaybackInit, Init, LeftBehind
<1>2. PlayInv /\ LeftBehind /\ [PlaybackNext]_allVars => LeftBehind'
  BY LeftBehindNext
<1> QED BY <1>1, <1>2, PlayInvariant, PTL DEF PlaybackSpec

(* The greatest of a set of times. *)
LEMMA LastOfIs ==
    ASSUME NEW S, NEW t \in S, \A u \in S : u \in Int /\ u <= t
    PROVE  LastOf(S) = t
<1>1. LastOf(S) \in S /\ \A u \in S : u <= LastOf(S)
  BY DEF LastOf
<1> QED BY <1>1

(* A file that is played once is cut off only at its end: when work() says   *)
(* that it is done, every frame up to the last timestamp of the file was     *)
(* delivered or is one of at most MAX_MISSED_SETS that were filled in; with  *)
(* several packets per frame, the last frame itself stays behind.            *)
THEOREM TailIsBounded ==
    ASSUME RoomForABatch, FilesInOrder PROVE PlaybackSpec => []TailBound
<1>1. ASSUME PlayInv, EndInv, ReadInv, PlayedFramesInv, LeftBehind
      PROVE  TailBound
  <2> SUFFICES ASSUME done, ~overran, origin # None
               PROVE  LET closed == LastOf(FileTimes) - origin
                                        + (IF OnePacket THEN 1 ELSE 0)
                      IN  /\ Len(output) + Len(x_vector_queue) = closed
                          /\ Len(x_vector_queue) <= MaxMissedSets
      BY DEF TailBound
  <2>1. FramesInv /\ taken = Playable /\ pc = "idle"
    BY <1>1, PlayableIs DEF EndInv, PlayedFramesInv
  <2>2. LastOf(FileTimes) = d_last_timestamp
    <3>1. /\ \A p \in taken : p.ts <= d_last_timestamp
          /\ \E p \in taken : p.ts = d_last_timestamp
      BY <2>1 DEF FramesInv, TakenInv
    <3>2. \A p \in taken : p.ts \in Int
      <4>1. taken \subseteq Packet
        BY <1>1 DEF PlayInv, SafeInv, TypeOK, TakeTypeOK
      <4> QED BY <4>1, SizesAssumption DEF Packet, Times
    <3>3. FileTimes = {p.ts : p \in taken}
      BY <2>1 DEF FileTimes
    <3>4. /\ d_last_timestamp \in FileTimes
          /\ \A u \in FileTimes : u \in Int /\ u <= d_last_timestamp
      BY <3>1, <3>2, <3>3
    <3> QED BY <3>4, LastOfIs
  <2>3. Len(output) + Len(x_vector_queue)
            = d_last_timestamp - origin + (IF OnePacket THEN 1 ELSE 0)
    BY <2>1 DEF FramesInv, QueueInv
  <2>4. Len(x_vector_queue) <= MaxMissedSets
    BY <1>1, <2>1, SizesAssumption DEF LeftBehind
  <2> QED BY <2>2, <2>3, <2>4
<1> QED BY <1>1, PlayInvariant, ReadInvariant, PlayedInvariant, LeftBehindInvariant, PTL

-----------------------------------------------------------------------------
(* The fifth invariant: played again and again, the stream wraps around.     *)

EndTime    == LastOf(FileTimes)
ReplayTime == FirstOf(ReplayTimes)

(* The time of the frame after the frame of time t. *)
Following(t) == IF t = EndTime THEN ReplayTime ELSE t + 1

(* How the time may go on from a packet to the next. *)
Moves(a, b) == \/ a < b
               \/ a = b /\ ~OnePacket
               \/ a = EndTime /\ b = ReplayTime

(* The last packet pushed has time a: the reader has started again since, or *)
(* no own record came after that packet.                                     *)
ReaderAt(a) ==
    \/ a = EndTime /\ \A j \in 1 .. offset : ~Ours(file[j])
    \/ \E k \in 1 .. offset : /\ Ours(file[k]) /\ file[k].ts = a
                              /\ \A j \in k + 1 .. offset : ~Ours(file[j])

(* The time of the last packet pushed. *)
LastQueued == IF d_localqueue = <<>> THEN d_last_timestamp
              ELSE d_localqueue[Len(d_localqueue)].ts

(* From the frame being filled over the queue to the reader, the times go on *)
(* through the file and start again at its end.                              *)
ChainInv ==
    IF d_found_start_channel
    THEN /\ \E i \in 1 .. Len(file) : StartsAt(i)
         /\ d_last_timestamp = 0 => d_localqueue # <<>>
         /\ d_last_timestamp <= EndTime
         /\ \A i \in 1 .. Len(d_localqueue) :
               d_localqueue[i].ch \in Blocks /\ d_localqueue[i].ts <= EndTime
         /\ \A i \in 1 .. Len(d_localqueue) - 1 :
               Moves(d_localqueue[i].ts, d_localqueue[i + 1].ts)
         /\ d_last_timestamp > 0 /\ d_localqueue # <<>> =>
               Moves(d_last_timestamp, d_localqueue[1].ts)
         /\ ReaderAt(LastQueued)
    ELSE /\ d_last_timestamp = 0 /\ d_localqueue = <<>>
         /\ \A j \in 1 .. offset : ~Starting(file[j])

(* The file's own records have a time and a place. *)
LEMMA OwnRecordType ==
    ASSUME ReaderTypeOK
    PROVE  \A j \in 1 .. Len(file) : Ours(file[j]) =>
               file[j] \in Packet /\ file[j].ts \in Times /\ file[j].ts \in Nat
<1> SUFFICES ASSUME NEW j \in 1 .. Len(file), Ours(file[j])
             PROVE  file[j] \in Packet /\ file[j].ts \in Times /\ file[j].ts \in Nat
    OBVIOUS
<1>1. file[j] \in Packet
  BY RecordType DEF Ours
<1> QED BY <1>1, SizesAssumption DEF Packet, Times

(* In a file in order, later records do not have earlier times. *)
LEMMA OwnRecordOrder ==
    ASSUME FilesInOrder, ReaderTypeOK, NEW j \in 1 .. Len(file), NEW k \in 1 .. Len(file),
           Ours(file[j]), Ours(file[k]), j <= k
    PROVE  file[j].ts <= file[k].ts
<1>1. file[j].ts \in Nat /\ file[k].ts \in Nat
  BY OwnRecordType
<1>2. CASE j = k
  BY <1>1, <1>2
<1>3. CASE j < k
  <2>1. Later(file[j], file[k])
    BY <1>3, FileLength DEF FilesInOrder, ReaderTypeOK
  <2> QED BY <1>1, <2>1 DEF Later
<1> QED BY <1>2, <1>3

(* The times played from the record i on. *)
LEMMA FileTimesFrom ==
    ASSUME ReaderTypeOK, NEW i \in 1 .. Len(file), StartsAt(i)
    PROVE  FileTimes = {file[j].ts : j \in {k \in i .. Len(file) : Ours(file[k])}}
<1>1. FirstStart = i /\ Starts
  BY FirstStartIs
<1>2. {j \in DOMAIN file : /\ j >= i /\ file[j] # Other /\ file[j].ch \in Blocks}
        = {k \in i .. Len(file) : Ours(file[k])}
  BY FileLength DEF Ours
<1>3. Playable = {file[k] : k \in {j \in DOMAIN file : /\ j >= i
                                                      /\ file[j] # Other
                                                      /\ file[j].ch \in Blocks}}
  BY <1>1 DEF Playable
<1> QED BY <1>2, <1>3 DEF FileTimes

(* The starting record is one of the file's own. *)
LEMMA StartIsOurs ==
    ASSUME NEW i, StartsAt(i)
    PROVE  Ours(file[i])
BY SizesAssumption DEF StartsAt, Starting, Ours, Blocks

(* EndTime is the last time of all the file's own records. *)
LEMMA EndTimeIsLast ==
    ASSUME FilesInOrder, ReaderTypeOK, NEW i \in 1 .. Len(file), StartsAt(i)
    PROVE  /\ EndTime \in Times /\ EndTime \in Nat
           /\ \A j \in 1 .. Len(file) : Ours(file[j]) => file[j].ts <= EndTime
<1>1. FileTimes = {file[j].ts : j \in {k \in i .. Len(file) : Ours(file[k])}}
  BY FileTimesFrom
<1>2. Ours(file[i]) /\ file[i].ts \in FileTimes
  <2>1. Ours(file[i])
    BY StartIsOurs
  <2>2. i \in i .. Len(file)
    BY FileLength
  <2> QED BY <1>1, <2>1, <2>2
<1>3. \A j \in i .. Len(file) : j \in 1 .. Len(file)
  OBVIOUS
<1>4. FileTimes \subseteq Times /\ FileTimes \subseteq 0 .. LastTime
  <2>1. FileTimes \subseteq Times
    BY <1>1, <1>3, OwnRecordType
  <2> QED BY <2>1, SizesAssumption DEF Times
<1>5. PICK t \in FileTimes : \A u \in FileTimes : u <= t
  BY <1>2, <1>4, GreatestNatural, SizesAssumption
<1>6. EndTime = t
  <2>1. \A u \in FileTimes : u \in Int /\ u <= t
    BY <1>4, <1>5
  <2> QED BY <2>1, LastOfIs DEF EndTime
<1>7. ASSUME NEW j \in 1 .. Len(file), Ours(file[j])
      PROVE  file[j].ts <= EndTime
  <2>1. CASE j \in i .. Len(file)
    <3>1. file[j].ts \in FileTimes
      BY <1>1, <1>7, <2>1
    <3> QED BY <1>5, <1>6, <3>1
  <2>2. CASE j < i
    <3>1. file[j].ts <= file[i].ts
      BY <1>2, <1>7, <2>2, OwnRecordOrder
    <3>2. file[i].ts <= EndTime
      BY <1>2, <1>5, <1>6
    <3>3. file[j].ts \in Nat /\ file[i].ts \in Nat /\ EndTime \in Nat
      BY <1>2, <1>4, <1>6, <1>7, OwnRecordType
    <3> QED BY <3>1, <3>2, <3>3
  <2>3. j < i \/ j \in i .. Len(file)
    OBVIOUS
  <2> QED BY <2>1, <2>2, <2>3
<1> QED BY <1>4, <1>6, <1>7

(* The last of the file's own records has it. *)
LEMMA EndTimeIs ==
    ASSUME FilesInOrder, ReaderTypeOK, NEW i \in 1 .. Len(file), StartsAt(i),
           NEW k \in 1 .. Len(file), Ours(file[k]),
           \A j \in k + 1 .. Len(file) : ~Ours(file[j])
    PROVE  file[k].ts = EndTime
<1>1. Ours(file[i])
  BY StartIsOurs
<1>2. k \in i .. Len(file)
  <2>1. i \notin k + 1 .. Len(file)
    BY <1>1
  <2> QED BY <2>1
<1>3. FileTimes = {file[j].ts : j \in {l \in i .. Len(file) : Ours(file[l])}}
  BY FileTimesFrom
<1>4. file[k].ts \in FileTimes
  BY <1>2, <1>3
<1>5. \A u \in FileTimes : u \in Int /\ u <= file[k].ts
  <2> SUFFICES ASSUME NEW j \in i .. Len(file), Ours(file[j])
               PROVE  file[j].ts \in Int /\ file[j].ts <= file[k].ts
      BY <1>3
  <2>1. j \in 1 .. Len(file) /\ j <= k
    OBVIOUS
  <2> QED BY <2>1, OwnRecordOrder, OwnRecordType
<1> QED BY <1>4, <1>5, LastOfIs DEF EndTime

(* The first of them has ReplayTime. *)
LEMMA ReplayTimeIs ==
    ASSUME FilesInOrder, ReaderTypeOK,
           NEW k \in 1 .. Len(file), Ours(file[k]),
           \A j \in 1 .. k - 1 : ~Ours(file[j])
    PROVE  file[k].ts = ReplayTime
<1>1. DOMAIN file = 1 .. Len(file)
  BY FileLength
<1>2. ReplayTimes = {file[j].ts : j \in {l \in 1 .. Len(file) : Ours(file[l])}}
  BY <1>1 DEF ReplayTimes, Ours
<1>3. file[k].ts \in ReplayTimes
  BY <1>2
<1>4. \A u \in ReplayTimes : u \in Int /\ u >= file[k].ts
  <2> SUFFICES ASSUME NEW j \in 1 .. Len(file), Ours(file[j])
               PROVE  file[j].ts \in Int /\ file[j].ts >= file[k].ts
      BY <1>2
  <2>1. k <= j
    <3>1. j \notin 1 .. k - 1
      OBVIOUS
    <3> QED BY <3>1
  <2>2. file[j].ts \in Nat /\ file[k].ts \in Nat /\ file[k].ts <= file[j].ts
    BY <2>1, OwnRecordOrder, OwnRecordType
  <2> QED BY <2>2
<1>5. ReplayTime \in ReplayTimes /\ \A u \in ReplayTimes : u >= ReplayTime
  BY <1>3, <1>4 DEF ReplayTime, FirstOf
<1> QED BY <1>3, <1>4, <1>5

(* The time of the last packet pushed moves on to that of the next own       *)
(* record.                                                                   *)
LEMMA ReaderMoves ==
    ASSUME FilesInOrder, PlayInv, NEW a, ReaderAt(a),
           offset + 1 \in 1 .. Len(file), Ours(file[offset + 1])
    PROVE  Moves(a, file[offset + 1].ts)
<1> DEFINE r == file[offset + 1]
<1>1. offset \in Nat /\ Len(file) \in Nat /\ ReaderTypeOK
  BY FileLength DEF PlayInv
<1>2. CASE a = EndTime /\ \A j \in 1 .. offset : ~Ours(file[j])
  <2>1. r.ts = ReplayTime
    <3>1. (offset + 1) - 1 = offset
      BY <1>1
    <3> QED BY <1>1, <1>2, <3>1, ReplayTimeIs
  <2> QED BY <1>2, <2>1 DEF Moves
<1>3. ASSUME NEW k \in 1 .. offset, Ours(file[k]), file[k].ts = a
      PROVE  Moves(a, r.ts)
  <2>1. k \in 1 .. Len(file) /\ k < offset + 1 /\ DOMAIN file = 1 .. Len(file)
    BY <1>1, FileLength
  <2>2. Later(file[k], r)
    BY <1>1, <1>3, <2>1 DEF FilesInOrder, ReaderTypeOK
  <2>3. OnePacket => file[k].ch = r.ch
    BY <1>3 DEF Ours, Blocks, OnePacket
  <2> QED BY <1>3, <2>2, <2>3 DEF Later, Moves
<1> QED BY <1>2, <1>3 DEF ReaderAt

(* Reading keeps the chain. *)
LEMMA ChainRead ==
    ASSUME RoomForABatch, FilesInOrder, PlayInv, QueueFilled, ChainInv, ReadRecord
    PROVE  ChainInv'
<1> DEFINE r == file[offset + 1]
           n == Len(d_localqueue)
           kept == r # Other /\ Accepted(r)
<1>1. /\ offset \in Nat /\ Len(file) \in Nat /\ ReaderTypeOK
      /\ offset' = offset + 1 /\ file' = file /\ offset + 1 \in 1 .. Len(file)
      /\ d_last_timestamp' = d_last_timestamp
  BY FileLength, ReadCases DEF PlayInv, fillVars
<1>2. /\ kept => r \in Packet /\ d_localqueue' = Append(d_localqueue, r)
      /\ ~kept => UNCHANGED d_localqueue
      /\ d_found_start_channel' = (d_found_start_channel \/ Starting(r))
  BY QueueRead
<1>3. /\ d_localqueue \in Seq(Packet) /\ n \in Nat
      /\ n = 0 <=> d_localqueue = <<>>
  BY LenProperties, EmptySeq DEF PlayInv, SafeInv, TypeOK, QueueTypeOK
<1>4. kept => /\ Len(d_localqueue') = n + 1 /\ d_localqueue' # <<>>
              /\ \A i \in 1 .. n : d_localqueue'[i] = d_localqueue[i]
              /\ d_localqueue'[n + 1] = r
  <2> SUFFICES ASSUME kept
               PROVE  /\ Len(d_localqueue') = n + 1 /\ d_localqueue' # <<>>
                      /\ \A i \in 1 .. n : d_localqueue'[i] = d_localqueue[i]
                      /\ d_localqueue'[n + 1] = r
      OBVIOUS
  <2>1. r \in Packet /\ d_localqueue' = Append(d_localqueue, r)
    BY <1>2
  <2> QED BY <1>3, <2>1, AppendProperties
<1>5. /\ \A i : StartsAt(i)' <=> StartsAt(i)
      /\ EndTime' = EndTime /\ ReplayTime' = ReplayTime
  BY <1>1 DEF StartsAt, EndTime, ReplayTime, FileTimes, ReplayTimes, Playable,
              FirstStart, Starts, LastOf, FirstOf
<1>6. \A a, b : Moves(a, b)' <=> Moves(a, b)
  BY <1>5 DEF Moves
<1>7. ASSUME ReaderAt(LastQueued), ~Ours(r), UNCHANGED d_localqueue
      PROVE  ReaderAt(LastQueued)'
  <2>1. LastQueued' = LastQueued
    BY <1>1, <1>7 DEF LastQueued
  <2>2. \A j \in 1 .. offset + 1 : j \in 1 .. offset \/ j = offset + 1
    BY <1>1
  <2>3. CASE \A j \in 1 .. offset : ~Ours(file[j])
    <3>1. \A j \in 1 .. offset' : ~Ours(file'[j])
      BY <1>1, <1>7, <2>2, <2>3
    <3>2. LastQueued = EndTime
      BY <1>7, <2>3 DEF ReaderAt
    <3> QED BY <1>5, <2>1, <3>1, <3>2 DEF ReaderAt, Ours
  <2>4. CASE ~\A j \in 1 .. offset : ~Ours(file[j])
    <3>1. PICK k \in 1 .. offset : /\ Ours(file[k]) /\ file[k].ts = LastQueued
                                   /\ \A j \in k + 1 .. offset : ~Ours(file[j])
      BY <1>7, <2>4 DEF ReaderAt
    <3>2. k \in 1 .. offset'
      BY <1>1
    <3>3. \A j \in k + 1 .. offset' : ~Ours(file[j])
      <4>1. \A j \in k + 1 .. offset' : j \in k + 1 .. offset \/ j = offset + 1
        BY <1>1
      <4> QED BY <1>7, <3>1, <4>1
    <3> QED BY <1>1, <2>1, <3>1, <3>2, <3>3 DEF ReaderAt, Ours
  <2> QED BY <2>3, <2>4
<1>8. ASSUME kept, Ours(r) PROVE ReaderAt(LastQueued)'
  <2>1. LastQueued' = r.ts
    BY <1>4, <1>8 DEF LastQueued
  <2>2. offset + 1 \in 1 .. offset' /\ (offset + 1) + 1 .. offset' = {}
    BY <1>1
  <2> QED BY <1>1, <1>8, <2>1, <2>2 DEF ReaderAt, Ours
<1>9. CASE d_found_start_channel
  <2>1. /\ \E i \in 1 .. Len(file) : StartsAt(i)
        /\ d_last_timestamp = 0 => d_localqueue # <<>>
        /\ d_last_timestamp <= EndTime
        /\ \A i \in 1 .. n :
              d_localqueue[i].ch \in Blocks /\ d_localqueue[i].ts <= EndTime
        /\ \A i \in 1 .. n - 1 :
              Moves(d_localqueue[i].ts, d_localqueue[i + 1].ts)
        /\ d_last_timestamp > 0 /\ d_localqueue # <<>> =>
              Moves(d_last_timestamp, d_localqueue[1].ts)
        /\ ReaderAt(LastQueued)
    BY <1>9 DEF ChainInv
  <2>2. d_found_start_channel'
    BY <1>2, <1>9
  <2>3. kept <=> Ours(r)
    BY <1>9 DEF Accepted, Ours
  <2>4. CASE ~kept
    <3>1. UNCHANGED d_localqueue
      BY <1>2, <2>4
    <3>2. ReaderAt(LastQueued)'
      BY <1>7, <2>1, <2>3, <2>4, <3>1
    <3> QED BY <1>1, <1>5, <1>6, <2>1, <2>2, <3>1, <3>2 DEF ChainInv
  <2>5. CASE kept
    <3>1. ReaderAt(LastQueued)'
      BY <1>8, <2>3, <2>5
    <3>2. Moves(LastQueued, r.ts)
      BY <1>1, <2>1, <2>3, <2>5, ReaderMoves
    <3>3. \A i \in 1 .. n + 1 :
              d_localqueue'[i].ch \in Blocks /\ d_localqueue'[i].ts <= EndTime
      <4>1. r.ch \in Blocks /\ r.ts <= EndTime
        BY <1>1, <2>1, <2>3, <2>5, EndTimeIsLast DEF Ours
      <4>2. \A i \in 1 .. n + 1 : i \in 1 .. n \/ i = n + 1
        BY <1>3
      <4> QED BY <1>4, <2>1, <2>5, <4>1, <4>2
    <3>4. \A i \in 1 .. n : Moves(d_localqueue'[i].ts, d_localqueue'[i + 1].ts)
      <4> SUFFICES ASSUME NEW i \in 1 .. n
                   PROVE  Moves(d_localqueue'[i].ts, d_localqueue'[i + 1].ts)
          OBVIOUS
      <4>1. CASE i = n
        <5>1. LastQueued = d_localqueue[n].ts
          BY <1>3, <4>1 DEF LastQueued
        <5> QED BY <1>4, <2>5, <3>2, <4>1, <5>1
      <4>2. CASE i # n
        <5>1. i \in 1 .. n - 1 /\ i + 1 \in 1 .. n
          BY <1>3, <4>2
        <5> QED BY <1>4, <2>1, <2>5, <5>1
      <4> QED BY <4>1, <4>2
    <3>5. d_last_timestamp > 0 => Moves(d_last_timestamp, d_localqueue'[1].ts)
      <4>1. CASE n = 0
        <5>1. LastQueued = d_last_timestamp /\ d_localqueue'[1] = r
          BY <1>3, <1>4, <2>5, <4>1 DEF LastQueued
        <5> QED BY <3>2, <5>1
      <4>2. CASE n # 0
        <5>1. 1 \in 1 .. n
          BY <1>3, <4>2
        <5> QED BY <1>3, <1>4, <2>1, <2>5, <4>2, <5>1
      <4> QED BY <4>1, <4>2
    <3>6. Len(d_localqueue') = n + 1 /\ d_localqueue' # <<>> /\ (n + 1) - 1 = n
      BY <1>3, <1>4, <2>5
    <3> HIDE DEF r, n, kept
    <3> QED BY <1>1, <1>5, <1>6, <2>1, <2>2, <3>1, <3>3, <3>4, <3>5, <3>6 DEF ChainInv
  <2> QED BY <2>4, <2>5
<1>10. CASE ~d_found_start_channel
  <2>1. /\ d_last_timestamp = 0 /\ d_localqueue = <<>>
        /\ \A j \in 1 .. offset : ~Starting(file[j])
    BY <1>10 DEF ChainInv
  <2>2. CASE ~Starting(r)
    <3>1. ~d_found_start_channel' /\ ~kept
      BY <1>2, <1>10, <2>2 DEF Starting, Accepted
    <3>2. \A j \in 1 .. offset' : ~Starting(file'[j])
      <4>1. \A j \in 1 .. offset' : j \in 1 .. offset \/ j = offset + 1
        BY <1>1
      <4> QED BY <1>1, <2>1, <2>2, <4>1
    <3> QED BY <1>1, <1>2, <2>1, <3>1, <3>2 DEF ChainInv, Starting
  <2>3. CASE Starting(r)
    <3>1. d_found_start_channel' /\ kept /\ Ours(r)
      <4>1. 0 \in Blocks
        BY SizesAssumption DEF Blocks
      <4>2. r # Other /\ r.ch = 0
        BY <2>3 DEF Starting
      <4>3. kept /\ Ours(r)
        BY <4>1, <4>2 DEF Accepted, Ours
      <4>4. d_found_start_channel'
        BY <1>2, <2>3, Zenon
      <4> QED BY <4>3, <4>4
    <3>2. StartsAt(offset + 1)
      <4>1. \A j \in 1 .. (offset + 1) - 1 : ~Starting(file[j])
        BY <1>1, <2>1
      <4> QED BY <2>3, <4>1 DEF StartsAt
    <3>3. r.ts <= EndTime /\ EndTime \in Nat /\ r.ch \in Blocks
      BY <1>1, <3>1, <3>2, EndTimeIsLast DEF Ours
    <3>4. n = 0
      BY <1>3, <2>1
    <3>5. Len(d_localqueue') = 1 /\ d_localqueue'[1] = r /\ d_localqueue' # <<>>
      BY <1>4, <3>1, <3>4
    <3>6. ReaderAt(LastQueued)'
      BY <1>8, <3>1
    <3>7. \A i \in 1 .. Len(d_localqueue') : d_localqueue'[i] = r
      BY <3>5
    <3>8. 1 .. Len(d_localqueue') - 1 = {}
      BY <3>5
    <3> HIDE DEF r, n, kept
    <3> QED BY <1>1, <1>5, <1>6, <2>1, <3>1, <3>2, <3>3, <3>5, <3>6, <3>7, <3>8
            DEF ChainInv
  <2> QED BY <2>2, <2>3
<1> QED BY <1>9, <1>10

(* d_last_timestamp is the time of the last packet taken. *)
LEMMA TimeTaken ==
    ASSUME FirstTime > 0, SafeInv, WorkLoop
    PROVE  LET p == Head(d_localqueue)
           IN  /\ TakePacket /\ p \in Packet
               /\ p.ts \in Times /\ p.ts \in Nat /\ p.ts > 0
               /\ d_last_timestamp \in Nat
               /\ d_last_timestamp' = p.ts
<1> DEFINE p == Head(d_localqueue)
<1>1. TakePacket
  BY DEF WorkLoop, QueueOnePacketFrame, StartNextFrame, FillFrame
<1>2. p \in Packet
  BY <1>1, SafeTake
<1>3. p.ts \in Times /\ p.ts \in Nat /\ p.ts > 0 /\ d_last_timestamp \in Nat
  BY <1>2, SizesAssumption DEF Packet, Times, SafeInv, TypeOK, FillTypeOK
<1>4. \/ d_last_timestamp' = p.ts
      \/ /\ ~NextFrame(p)
         /\ d_last_timestamp' = IF d_last_timestamp = 0 THEN p.ts ELSE d_last_timestamp
  BY DEF WorkLoop, QueueOnePacketFrame, StartNextFrame, FillFrame
<1>5. d_last_timestamp' = p.ts
  BY <1>3, <1>4 DEF NextFrame
<1> QED BY <1>1, <1>2, <1>3, <1>5

(* Taking the front packet keeps the chain. *)
LEMMA ChainTake ==
    ASSUME FirstTime > 0, PlayInv, ChainInv, WorkLoop,
           UNCHANGED <<file, d_repeat_file, offset, d_found_start_channel>>
    PROVE  ChainInv'
<1> DEFINE n == Len(d_localqueue)
<1>1. /\ TakePacket /\ d_last_timestamp' = Head(d_localqueue).ts
      /\ Head(d_localqueue).ts \in Nat /\ Head(d_localqueue).ts > 0
  BY TimeTaken DEF PlayInv
<1>2. /\ d_localqueue \in Seq(Packet) /\ d_localqueue # <<>>
      /\ Head(d_localqueue) = d_localqueue[1]
      /\ n \in Nat \ {0} /\ Len(d_localqueue') = n - 1
      /\ \A i \in 1 .. Len(d_localqueue') : d_localqueue'[i] = d_localqueue[i + 1]
  BY <1>1, TakeFront
<1>3. /\ d_found_start_channel
      /\ \E i \in 1 .. Len(file) : StartsAt(i)
      /\ \A i \in 1 .. n :
            d_localqueue[i].ch \in Blocks /\ d_localqueue[i].ts <= EndTime
      /\ \A i \in 1 .. n - 1 :
            Moves(d_localqueue[i].ts, d_localqueue[i + 1].ts)
      /\ ReaderAt(LastQueued)
  BY <1>2 DEF ChainInv
<1>4. /\ \A i : StartsAt(i)' <=> StartsAt(i)
      /\ EndTime' = EndTime /\ ReplayTime' = ReplayTime
      /\ \A a : ReaderAt(a)' <=> ReaderAt(a)
  BY DEF StartsAt, EndTime, ReplayTime, FileTimes, ReplayTimes, Playable,
         FirstStart, Starts, LastOf, FirstOf, ReaderAt
<1>5. \A a, b : Moves(a, b)' <=> Moves(a, b)
  BY <1>4 DEF Moves
<1>6. d_localqueue' = <<>> <=> n = 1
  <2>1. d_localqueue' \in Seq(Packet)
    BY <1>1, SafeTake DEF PlayInv, QueueTypeOK
  <2>2. d_localqueue' = <<>> <=> Len(d_localqueue') = 0
    BY <2>1, EmptySeq
  <2> QED BY <1>2, <2>2
<1>7. LastQueued' = LastQueued
  <2>1. LastQueued = d_localqueue[n].ts
    BY <1>2 DEF LastQueued
  <2>2. CASE n = 1
    BY <1>1, <1>2, <1>6, <2>1, <2>2 DEF LastQueued
  <2>3. CASE n # 1
    <3>1. n - 1 \in 1 .. Len(d_localqueue') /\ (n - 1) + 1 = n
      BY <1>2, <2>3
    <3>2. d_localqueue'[Len(d_localqueue')] = d_localqueue[n]
      BY <1>2, <3>1
    <3> QED BY <1>6, <2>1, <2>3, <3>2 DEF LastQueued
  <2> QED BY <2>2, <2>3
<1>8. ReaderAt(LastQueued)'
  BY <1>3, <1>4, <1>7
<1>9. d_last_timestamp' > 0 /\ d_last_timestamp' <= EndTime
  <2>1. 1 \in 1 .. n
    BY <1>2
  <2> QED BY <1>1, <1>2, <1>3, <2>1
<1>10. \A i \in 1 .. Len(d_localqueue') :
            d_localqueue'[i].ch \in Blocks /\ d_localqueue'[i].ts <= EndTime
  <2>1. \A i \in 1 .. Len(d_localqueue') : i + 1 \in 1 .. n
    BY <1>2
  <2> QED BY <1>2, <1>3, <2>1
<1>11. \A i \in 1 .. Len(d_localqueue') - 1 :
            Moves(d_localqueue'[i].ts, d_localqueue'[i + 1].ts)
  <2> SUFFICES ASSUME NEW i \in 1 .. Len(d_localqueue') - 1
               PROVE  Moves(d_localqueue'[i].ts, d_localqueue'[i + 1].ts)
      OBVIOUS
  <2>1. /\ i \in 1 .. Len(d_localqueue') /\ i + 1 \in 1 .. Len(d_localqueue')
        /\ i + 1 \in 1 .. n - 1
    BY <1>2
  <2>2. d_localqueue'[i] = d_localqueue[i + 1]
        /\ d_localqueue'[i + 1] = d_localqueue[(i + 1) + 1]
    BY <1>2, <2>1
  <2> QED BY <1>3, <2>1, <2>2
<1>12. d_localqueue' # <<>> => Moves(d_last_timestamp', d_localqueue'[1].ts)
  <2> SUFFICES ASSUME n # 1 PROVE Moves(d_last_timestamp', d_localqueue'[1].ts)
      BY <1>6
  <2>1. 1 \in 1 .. n - 1 /\ 1 \in 1 .. Len(d_localqueue')
    BY <1>2
  <2>2. d_localqueue'[1] = d_localqueue[1 + 1]
    BY <1>2, <2>1
  <2> QED BY <1>1, <1>2, <1>3, <2>1, <2>2
<1>13. d_last_timestamp' # 0
  BY <1>1
<1> HIDE DEF n
<1>14. /\ d_found_start_channel'
       /\ (\E i \in 1 .. Len(file) : StartsAt(i))'
  BY <1>3, <1>4
<1>15. \A i \in 1 .. Len(d_localqueue') :
            d_localqueue'[i].ch \in Blocks /\ d_localqueue'[i].ts <= EndTime'
  BY <1>4, <1>10
<1>16. d_last_timestamp' <= EndTime'
  BY <1>4, <1>9
<1>17. \A i \in 1 .. Len(d_localqueue') - 1 :
            Moves(d_localqueue[i].ts, d_localqueue[i + 1].ts)'
  BY <1>5, <1>11
<1>18. d_localqueue' # <<>> => Moves(d_last_timestamp, d_localqueue[1].ts)'
  BY <1>5, <1>12
<1> QED BY <1>8, <1>13, <1>14, <1>15, <1>16, <1>17, <1>18 DEF ChainInv

(* At the end of the file the reader is behind the last of its own records.  *)
LEMMA ChainEnd ==
    ASSUME FilesInOrder, PlayInv, ChainInv, EndOfFile
    PROVE  ChainInv'
<1>1. UNCHANGED <<d_localqueue, d_last_timestamp, d_found_start_channel, file>>
  BY QuietSteps DEF EndOfFile, vars, queueVars, fillVars, syncVars
<1>2. /\ \A i : StartsAt(i)' <=> StartsAt(i)
      /\ EndTime' = EndTime /\ ReplayTime' = ReplayTime
      /\ LastQueued' = LastQueued
  BY <1>1 DEF StartsAt, EndTime, ReplayTime, FileTimes, ReplayTimes, Playable,
              FirstStart, Starts, LastOf, FirstOf, LastQueued
<1>3. \A a, b : Moves(a, b)' <=> Moves(a, b)
  BY <1>2 DEF Moves
<1>4. offset = Len(file) /\ offset' \in {offset, 0}
  BY DEF EndOfFile, Opened
<1>5. CASE offset' = offset
  <2>1. \A a : ReaderAt(a)' <=> ReaderAt(a)
    BY <1>1, <1>2, <1>5 DEF ReaderAt, Ours
  <2> QED BY <1>1, <1>2, <1>3, <1>5, <2>1 DEF ChainInv
<1>6. CASE offset' = 0
  <2>1. 1 .. offset' = {}
    BY <1>6
  <2>2. d_found_start_channel => LastQueued = EndTime
    <3> SUFFICES ASSUME d_found_start_channel PROVE LastQueued = EndTime
        OBVIOUS
    <3>1. ReaderAt(LastQueued) /\ \E i \in 1 .. Len(file) : StartsAt(i)
      BY DEF ChainInv
    <3>2. PICK i \in 1 .. Len(file) : StartsAt(i)
      BY <3>1
    <3>3. ASSUME NEW k \in 1 .. Len(file), Ours(file[k]), file[k].ts = LastQueued,
                 \A j \in k + 1 .. Len(file) : ~Ours(file[j])
          PROVE  LastQueued = EndTime
      BY <3>2, <3>3, EndTimeIs DEF PlayInv
    <3> QED BY <1>4, <3>1, <3>3 DEF ReaderAt
  <2>3. d_found_start_channel => ReaderAt(LastQueued)'
    BY <1>2, <2>1, <2>2 DEF ReaderAt
  <2> QED BY <1>1, <1>2, <1>3, <2>1, <2>3 DEF ChainInv
<1> QED BY <1>4, <1>5, <1>6

(* Every step keeps the chain. *)
LEMMA ChainNext ==
    ASSUME RoomForABatch, FilesInOrder, PlayInv, QueueFilled, ChainInv,
           [PlaybackNext]_allVars
    PROVE  ChainInv'
<1>1. CASE ReadRecord
  BY <1>1, ChainRead
<1>2. CASE EndOfFile
  BY <1>2, ChainEnd
<1>3. ASSUME UNCHANGED <<file, offset, d_found_start_channel, d_localqueue,
                         d_last_timestamp>>
      PROVE  ChainInv'
  <2>1. EndTime' = EndTime /\ ReplayTime' = ReplayTime /\ LastQueued' = LastQueued
    BY <1>3 DEF EndTime, ReplayTime, FileTimes, ReplayTimes, Playable, FirstStart, Starts,
                LastOf, FirstOf, LastQueued
  <2>2. \A a, b : Moves(a, b)' <=> Moves(a, b)
    BY <2>1 DEF Moves
  <2>3. \A a : ReaderAt(a)' <=> ReaderAt(a)
    BY <1>3, <2>1 DEF ReaderAt
  <2>4. \A i : StartsAt(i)' <=> StartsAt(i)
    BY <1>3 DEF StartsAt
  <2> QED BY <1>3, <2>1, <2>2, <2>3, <2>4 DEF ChainInv
<1>4. CASE StartBatch \/ EndBatch
  <2>1. UNCHANGED <<file, offset>>
    BY <1>4 DEF StartBatch, EndBatch
  <2>2. UNCHANGED vars
    BY <1>4, QuietSteps
  <2> QED BY <1>3, <2>1, <2>2 DEF vars, syncVars, queueVars, fillVars
<1>5. CASE PlaybackWork \/ SyncMsg
  <2>1. UNCHANGED <<file, d_repeat_file, offset, d_found_start_channel>>
    BY <1>5, WorkQueue DEF readerVars
  <2>2. CASE WorkStep /\ WorkLoop
    BY <2>1, <2>2, ChainTake DEF FilesInOrder
  <2>3. CASE ~(WorkStep /\ WorkLoop)
    <3>1. UNCHANGED <<d_localqueue, d_last_timestamp>>
      BY <1>5, <2>3
         DEF PlaybackWork, WorkDone, WorkOnFile, WorkCall, CountPackets, LeaveLoop,
             GiveUpOnFile, WorkStep, SyncMsg, SendSyncPmt, ReturnItems, HandleSyncMsg,
             vars, queueVars, fillVars
    <3> QED BY <1>3, <2>1, <3>1
  <2> QED BY <2>2, <2>3
<1>6. CASE UNCHANGED allVars
  BY <1>3, <1>6 DEF allVars, playbackVars, readerVars, vars, syncVars, queueVars, fillVars
<1> QED BY <1>1, <1>2, <1>4, <1>5, <1>6 DEF PlaybackNext, QueuePcapData

-----------------------------------------------------------------------------
(* The frames of a file that is played again and again. *)

TimesIn(f) == {f[b] : b \in Blocks} \cap Times

Adjacent(f, g) == \A t \in TimesIn(f) : \A u \in TimesIn(g) : u = Following(t)

AllAdjacent(F) == \A i \in 1 .. Len(F) - 1 : Adjacent(F[i], F[i + 1])

(* The frames follow one another, and the frame being filled follows them;   *)
(* with one packet per frame it is already among them.                       *)
WrapInv ==
    /\ d_last_timestamp = 0 => Frames = <<>>
    /\ ~OnePacket => TimesIn(x_vector_buffer) \subseteq {d_last_timestamp}
    /\ ~overran =>
          /\ AllAdjacent(Frames)
          /\ Frames # <<>> => \A t \in TimesIn(Frames[Len(Frames)]) :
                d_last_timestamp = IF OnePacket THEN t ELSE Following(t)

(* A frame that was filled in has no time. *)
LEMMA ZeroTimes == TimesIn(ZeroFrame) = {}
BY NoTime DEF TimesIn, ZeroFrame

(* Copying a packet into a frame of its time keeps the time. *)
LEMMA TimesCopy ==
    ASSUME NEW p \in Packet, p.ch \in Blocks, NEW f \in Frame,
           TimesIn(f) \subseteq {p.ts} \/ OnePacket
    PROVE  TimesIn(CopyData(f, p)) \subseteq {p.ts}
<1>1. CopyData(f, p) = [f EXCEPT ![p.ch] = p.ts]
  BY DEF CopyData
<1> SUFFICES ASSUME NEW b \in Blocks, CopyData(f, p)[b] \in Times
             PROVE  CopyData(f, p)[b] = p.ts
    BY DEF TimesIn
<1>2. CASE b = p.ch
  BY <1>1, <1>2 DEF Frame
<1>3. CASE b # p.ch
  <2>1. ~OnePacket
    BY <1>3 DEF OnePacket, Blocks
  <2>2. CopyData(f, p)[b] = f[b]
    BY <1>1, <1>3 DEF Frame
  <2> QED BY <2>1, <2>2 DEF TimesIn
<1> QED BY <1>2, <1>3

(* One frame more. *)
LEMMA AdjacentAppend ==
    ASSUME NEW F \in Seq(Frame), NEW f \in Frame, AllAdjacent(F),
           F # <<>> => Adjacent(F[Len(F)], f)
    PROVE  /\ Append(F, f) \in Seq(Frame) /\ Append(F, f) # <<>>
           /\ AllAdjacent(Append(F, f))
           /\ Append(F, f)[Len(Append(F, f))] = f
<1> DEFINE G == Append(F, f)
           n == Len(F)
<1>1. /\ n \in Nat /\ G \in Seq(Frame) /\ Len(G) = n + 1
      /\ \A i \in 1 .. n : G[i] = F[i]
      /\ G[n + 1] = f
  BY LenProperties, AppendProperties
<1>2. G # <<>>
  BY <1>1, EmptySeq
<1>3. ASSUME NEW i \in 1 .. Len(G) - 1 PROVE Adjacent(G[i], G[i + 1])
  <2>1. CASE i = n
    <3>1. F # <<>> /\ i \in 1 .. n
      BY <1>1, <2>1
    <3> QED BY <1>1, <2>1, <3>1
  <2>2. CASE i # n
    <3>1. i \in 1 .. n /\ i + 1 \in 1 .. n /\ i \in 1 .. n - 1
      BY <1>1, <2>2
    <3> QED BY <1>1, <3>1 DEF AllAdjacent
  <2> QED BY <2>1, <2>2
<1> HIDE DEF G
<1>4. AllAdjacent(G)
  BY <1>3 DEF AllAdjacent
<1>5. G[Len(G)] = f
  BY <1>1
<1> QED BY <1>1, <1>2, <1>4, <1>5 DEF G

(* The frames of a gap. *)
LEMMA AdjacentZeros ==
    ASSUME NEW F \in Seq(Frame), NEW m \in Nat, AllAdjacent(F)
    PROVE  LET G == F \o [i \in 1 .. m |-> ZeroFrame]
           IN  /\ G \in Seq(Frame) /\ AllAdjacent(G)
               /\ m = 0 => G = F
               /\ m > 0 => G # <<>> /\ G[Len(G)] = ZeroFrame
<1> DEFINE Z == [i \in 1 .. m |-> ZeroFrame]
           G == F \o Z
           n == Len(F)
<1>1. Z \in Seq(Frame) /\ Len(Z) = m /\ \A i \in 1 .. m : Z[i] = ZeroFrame
  <2>1. Z \in [1 .. m -> Frame]
    BY ZeroFrameType
  <2>2. \A i \in 1 .. m : Z[i] = ZeroFrame
    OBVIOUS
  <2> HIDE DEF Z
  <2> QED BY <2>1, <2>2, FunctionIsSeq
<1> HIDE DEF Z
<1>2. /\ n \in Nat /\ G \in Seq(Frame) /\ Len(G) = n + m
      /\ \A i \in 1 .. n : G[i] = F[i]
      /\ \A i \in n + 1 .. n + m : G[i] = ZeroFrame
  <2>1. /\ n \in Nat /\ G \in Seq(Frame) /\ Len(G) = n + m
        /\ \A i \in 1 .. n + m : G[i] = IF i <= n THEN F[i] ELSE Z[i - n]
    BY <1>1, LenProperties, ConcatProperties
  <2>2. \A i \in 1 .. n : G[i] = F[i]
    BY <2>1
  <2>3. \A i \in n + 1 .. n + m : G[i] = ZeroFrame
    <3> SUFFICES ASSUME NEW i \in n + 1 .. n + m PROVE G[i] = ZeroFrame
        OBVIOUS
    <3>1. i \in 1 .. n + m /\ ~(i <= n) /\ i - n \in 1 .. m
      BY <2>1
    <3> QED BY <1>1, <2>1, <3>1
  <2> QED BY <2>1, <2>2, <2>3
<1>3. ASSUME NEW i \in 1 .. Len(G) - 1 PROVE Adjacent(G[i], G[i + 1])
  <2>1. CASE i < n
    <3>1. i \in 1 .. n /\ i + 1 \in 1 .. n /\ i \in 1 .. n - 1
      BY <1>2, <2>1
    <3> QED BY <1>2, <3>1 DEF AllAdjacent
  <2>2. CASE i >= n
    <3>1. i + 1 \in n + 1 .. n + m
      BY <1>2, <2>2
    <3> QED BY <1>2, <3>1, ZeroTimes DEF Adjacent
  <2> QED BY <1>2, <2>1, <2>2
<1>4. m = 0 => G = F
  <2> SUFFICES ASSUME m = 0 PROVE G = F
      OBVIOUS
  <2>1. Z = <<>>
    BY <1>1, EmptySeq
  <2> QED BY <2>1, ConcatEmptySeq
<1>5. m > 0 => G # <<>> /\ G[Len(G)] = ZeroFrame
  <2> SUFFICES ASSUME m > 0 PROVE G # <<>> /\ G[Len(G)] = ZeroFrame
      OBVIOUS
  <2>1. n + m \in n + 1 .. n + m /\ Len(G) # 0
    BY <1>2
  <2> QED BY <1>2, <2>1, EmptySeq
<1> HIDE DEF G
<1>6. AllAdjacent(G)
  BY <1>3 DEF AllAdjacent
<1> QED BY <1>2, <1>4, <1>5, <1>6 DEF G, Z

(* q is the sequence s followed by the sequence t. *)
Joined(q, s, t) ==
    /\ Len(q) = Len(s) + Len(t)
    /\ \A j \in 1 .. Len(s) + Len(t) : q[j] = IF j <= Len(s) THEN s[j] ELSE t[j - Len(s)]

(* Three sequences joined from the left or from the right. *)
LEMMA JoinTwice ==
    ASSUME NEW S, NEW D \in Seq(S), NEW x \in Seq(S), NEW f \in Seq(S),
           NEW y \in Seq(S), NEW z \in Seq(S), NEW L \in Seq(S), NEW R \in Seq(S),
           Joined(y, x, f), Joined(z, D, x), Joined(L, D, y), Joined(R, z, f)
    PROVE  L = R
<1>1. /\ Len(y) = Len(x) + Len(f)
      /\ \A j \in 1 .. Len(x) + Len(f) : y[j] = IF j <= Len(x) THEN x[j] ELSE f[j - Len(x)]
  BY DEF Joined
<1>2. /\ Len(z) = Len(D) + Len(x)
      /\ \A j \in 1 .. Len(D) + Len(x) : z[j] = IF j <= Len(D) THEN D[j] ELSE x[j - Len(D)]
  BY DEF Joined
<1>3. /\ Len(L) = Len(D) + Len(y)
      /\ \A j \in 1 .. Len(D) + Len(y) : L[j] = IF j <= Len(D) THEN D[j] ELSE y[j - Len(D)]
  BY DEF Joined
<1>4. /\ Len(R) = Len(z) + Len(f)
      /\ \A j \in 1 .. Len(z) + Len(f) : R[j] = IF j <= Len(z) THEN z[j] ELSE f[j - Len(z)]
  BY DEF Joined
<1>5. Len(D) \in Nat /\ Len(x) \in Nat /\ Len(f) \in Nat
  BY LenProperties
<1>6. Len(L) = Len(R)
  BY <1>1, <1>2, <1>3, <1>4, <1>5
<1>7. ASSUME NEW j \in 1 .. Len(L) PROVE L[j] = R[j]
  <2>1. /\ j \in Int /\ 1 <= j /\ j <= Len(D) + Len(x) + Len(f)
    BY <1>1, <1>2, <1>3, <1>5, <1>7
  <2>2. CASE j <= Len(D)
    <3>1. /\ j \in 1 .. Len(D) + Len(y) /\ j \in 1 .. Len(z) + Len(f)
          /\ j \in 1 .. Len(D) + Len(x) /\ j <= Len(z)
      BY <1>1, <1>2, <1>5, <2>1, <2>2
    <3>2. L[j] = D[j]
      BY <1>3, <2>2, <3>1
    <3>3. R[j] = z[j]
      BY <1>4, <3>1
    <3>4. z[j] = D[j]
      BY <1>2, <2>2, <3>1
    <3> QED BY <3>2, <3>3, <3>4
  <2>3. CASE Len(D) < j /\ j <= Len(D) + Len(x)
    <3>1. /\ j - Len(D) \in 1 .. Len(x) + Len(f) /\ j - Len(D) <= Len(x)
          /\ j \in 1 .. Len(D) + Len(y) /\ j \in 1 .. Len(z) + Len(f)
          /\ j \in 1 .. Len(D) + Len(x) /\ j <= Len(z) /\ ~(j <= Len(D))
      BY <1>1, <1>2, <1>5, <2>1, <2>3
    <3>2. L[j] = y[j - Len(D)]
      BY <1>3, <3>1
    <3>3. y[j - Len(D)] = x[j - Len(D)]
      BY <1>1, <3>1
    <3>4. R[j] = z[j]
      BY <1>4, <3>1
    <3>5. z[j] = x[j - Len(D)]
      BY <1>2, <3>1
    <3> QED BY <3>2, <3>3, <3>4, <3>5
  <2>4. CASE Len(D) + Len(x) < j
    <3>1. j - Len(D) \in 1 .. Len(x) + Len(f) /\ ~(j - Len(D) <= Len(x))
          /\ (j - Len(D)) - Len(x) = j - (Len(D) + Len(x)) /\ ~(j <= Len(D))
          /\ j \in 1 .. Len(D) + Len(y) /\ j \in 1 .. Len(z) + Len(f)
      BY <1>1, <1>2, <1>5, <2>1, <2>4
    <3>2. L[j] = y[j - Len(D)]
      BY <1>3, <3>1
    <3>3. y[j - Len(D)] = f[(j - Len(D)) - Len(x)]
      BY <1>1, <3>1
    <3>4. R[j] = f[j - Len(z)]
      <4>1. ~(j <= Len(z))
        BY <1>2, <1>5, <2>1, <2>4
      <4> QED BY <1>4, <3>1, <4>1
    <3> QED BY <1>2, <3>1, <3>2, <3>3, <3>4
  <2> QED BY <1>5, <2>1, <2>2, <2>3, <2>4
<1> QED BY <1>3, <1>4, <1>6, <1>7, SeqEqual

(* Three sequences may be joined in either order. The name keeps the provers *)
(* from applying the equation again and again.                               *)
Associates(D, x, f) == D \o (x \o f) = (D \o x) \o f

(* Joining sequences is associative. *)
LEMMA JoinAssociates ==
    ASSUME NEW S, NEW D \in Seq(S), NEW x \in Seq(S), NEW f \in Seq(S)
    PROVE  Associates(D, x, f)
<1>1. \A s, t \in Seq(S) : s \o t \in Seq(S) /\ Joined(s \o t, s, t)
  <2> TAKE s, t \in Seq(S)
  <2> QED BY ConcatProperties DEF Joined
<1>2. \A d, g, h \in Seq(S) : \A y, z, L, R \in Seq(S) :
         Joined(y, g, h) /\ Joined(z, d, g) /\ Joined(L, d, y) /\ Joined(R, z, h) => L = R
  BY JoinTwice, Zenon
<1>3. /\ x \o f \in Seq(S) /\ D \o x \in Seq(S)
      /\ Joined(x \o f, x, f) /\ Joined(D \o x, D, x)
  BY <1>1, Zenon
<1>4. /\ D \o (x \o f) \in Seq(S) /\ (D \o x) \o f \in Seq(S)
      /\ Joined(D \o (x \o f), D, x \o f) /\ Joined((D \o x) \o f, D \o x, f)
  BY <1>1, <1>3, Zenon
<1> QED BY <1>2, <1>3, <1>4, Zenon DEF Associates

(* Frames that are queued come after all frames. *)
LEMMA FramesQueued ==
    ASSUME SafeInv, NEW frames \in Seq(Frame),
           output' = output, x_vector_queue' = x_vector_queue \o frames
    PROVE  Frames' = Frames \o frames
<1>1. /\ Data(output) \in Seq(Frame) /\ x_vector_queue \in Seq(Frame)
      /\ Frames = Data(output) \o x_vector_queue
  BY FramesType
<1>2. Frames' = Data(output) \o (x_vector_queue \o frames)
  BY DEF Frames, Data
<1>3. Associates(Data(output), x_vector_queue, frames)
  BY <1>1, JoinAssociates, Zenon
<1>4. Data(output) \o (x_vector_queue \o frames)
          = (Data(output) \o x_vector_queue) \o frames
  BY <1>3, Zenon DEF Associates
<1> QED BY <1>1, <1>2, <1>4, Zenon

(* The next frame without a gap follows the one before. *)
LEMMA NextFollows ==
    ASSUME FilesInOrder, PlayInv, ChainInv, WorkLoop,
           d_last_timestamp # 0, MissedSets(Head(d_localqueue)) = 0,
           OnePacket \/ Head(d_localqueue).ts # d_last_timestamp
    PROVE  Head(d_localqueue).ts = Following(d_last_timestamp)
<1> DEFINE p == Head(d_localqueue)
<1>1. /\ TakePacket /\ p.ts \in Nat /\ p.ts > 0
      /\ d_last_timestamp \in Nat /\ d_last_timestamp > 0
  BY TimeTaken DEF PlayInv, FilesInOrder
<1>2. d_localqueue # <<>> /\ p = d_localqueue[1] /\ 1 \in 1 .. Len(d_localqueue)
  BY <1>1, TakeFront
<1>3. /\ p.ts <= EndTime /\ Moves(d_last_timestamp, p.ts)
      /\ \E i \in 1 .. Len(file) : StartsAt(i)
  BY <1>1, <1>2 DEF ChainInv
<1>4. EndTime \in Nat
  BY <1>3, EndTimeIsLast DEF PlayInv
<1> HIDE DEF p
<1>5. CASE d_last_timestamp < p.ts
  <2>1. p.ts - d_last_timestamp - 1 = 0
    BY <1>1, <1>5 DEF MissedSets, p
  <2>2. p.ts = d_last_timestamp + 1 /\ d_last_timestamp # EndTime
    BY <1>1, <1>3, <1>4, <2>1
  <2> QED BY <2>2 DEF Following, p
<1>6. CASE d_last_timestamp = EndTime /\ p.ts = ReplayTime
  BY <1>6 DEF Following, p
<1> QED BY <1>3, <1>5, <1>6 DEF Moves, p

(* Taking a packet keeps the frames following one another. *)
LEMMA WrapTake ==
    ASSUME FilesInOrder, PlayInv, ChainInv, WrapInv, WorkLoop,
           UNCHANGED file
    PROVE  WrapInv'
<1> DEFINE p == Head(d_localqueue)
           m == FilledIn(p)
           last == d_last_timestamp
<1>1. /\ SafeInv /\ FirstTime > 0 /\ ReaderTypeOK
      /\ TakePacket /\ p \in Packet /\ p.ts \in Times /\ p.ts \in Nat /\ p.ts > 0
      /\ last \in Nat /\ d_last_timestamp' = p.ts
  BY TimeTaken DEF PlayInv, FilesInOrder
<1>2. p.ch \in Blocks
  <2>1. d_localqueue # <<>> /\ p = d_localqueue[1] /\ 1 \in 1 .. Len(d_localqueue)
    BY <1>1, TakeFront
  <2> QED BY <2>1 DEF ChainInv
<1>3. /\ Frames \in Seq(Frame) /\ x_vector_buffer \in Frame /\ FillTypeOK
      /\ ZeroFrame \in Frame /\ output' = output
  BY <1>1, FramesType, ZeroFrameType DEF SafeInv, TypeOK, FillTypeOK, TakePacket
<1>4. /\ MissedSets(p) \in Nat /\ m \in Nat
      /\ ~overran' => ~overran /\ m = MissedSets(p)
      /\ ZeroFill(p) = [i \in 1 .. m |-> ZeroFrame]
      /\ ZeroFill(p) \in Seq(Frame)
  <2>1. MissedSets(p) \in Nat /\ m \in 0 .. MaxMissedSets /\ ZeroFill(p) \in Seq(Frame)
    BY <1>1, <1>3, ZeroFillType
  <2>2. ~overran' => ~overran /\ MissedSets(p) <= MaxMissedSets
    BY <1>1, NoOverrun
  <2> QED BY <2>1, <2>2, SizesAssumption DEF FilledIn, ZeroFill
<1>5. /\ EndTime' = EndTime /\ ReplayTime' = ReplayTime
  BY DEF EndTime, ReplayTime, FileTimes, ReplayTimes, Playable,
         FirstStart, Starts, LastOf, FirstOf
<1>6. /\ \A t : Following(t)' = Following(t)
      /\ \A F : AllAdjacent(F) => (\A G : G = F => AllAdjacent(G))
  BY <1>5 DEF Following
<1>7. ASSUME NEW F, AllAdjacent(F), Frames' = F PROVE AllAdjacent(Frames)'
  BY <1>5, <1>7 DEF AllAdjacent, Adjacent, TimesIn, Following
<1>8. d_last_timestamp' # 0
  BY <1>1
<1>9. last # 0 /\ m = 0 /\ ~overran' /\ (OnePacket \/ p.ts # last)
        => p.ts = Following(last)
  BY <1>1, <1>4, NextFollows
<1> HIDE DEF p, m
<1>10. CASE QueueOnePacketFrame
  <2> DEFINE f == CopyData(x_vector_buffer, p)
             G == Frames \o ZeroFill(p)
  <2>1. OnePacket /\ x_vector_queue' = x_vector_queue \o Append(ZeroFill(p), f)
    BY <1>10 DEF QueueOnePacketFrame, QueueFrames, p
  <2>2. f \in Frame /\ TimesIn(f) \subseteq {p.ts}
    BY <1>1, <1>2, <1>3, <2>1, CopyDataType, TimesCopy
  <2> HIDE DEF f
  <2>3. Frames' = Append(G, f)
    <3>1. Append(ZeroFill(p), f) \in Seq(Frame)
      BY <1>4, <2>2, AppendProperties
    <3>2. Frames' = Frames \o Append(ZeroFill(p), f)
      BY <1>1, <1>3, <2>1, <3>1, FramesQueued
    <3>3. ASSUME NEW D \in Seq(Frame), NEW z \in Seq(Frame)
          PROVE  D \o Append(z, f) = Append(D \o z, f)
      BY <2>2
    <3> QED BY <1>3, <1>4, <3>2, <3>3
  <2> SUFFICES ASSUME ~overran'
               PROVE  /\ AllAdjacent(Frames)'
                      /\ \A t \in TimesIn(Frames'[Len(Frames')]) : d_last_timestamp' = t
      BY <1>8, <2>1 DEF WrapInv, OnePacket, TimesIn
  <2>4. /\ AllAdjacent(Frames)
        /\ Frames # <<>> => last # 0 /\ \A t \in TimesIn(Frames[Len(Frames)]) : last = t
    BY <1>4, <2>1 DEF WrapInv
  <2>5. /\ G \in Seq(Frame) /\ AllAdjacent(G)
        /\ m = 0 => G = Frames
        /\ m > 0 => G # <<>> /\ G[Len(G)] = ZeroFrame
    BY <1>3, <1>4, <2>4, AdjacentZeros
  <2> HIDE DEF G
  <2>6. G # <<>> => Adjacent(G[Len(G)], f)
    <3> SUFFICES ASSUME G # <<>>,
                        NEW t \in TimesIn(G[Len(G)]), NEW u \in TimesIn(f)
                 PROVE  u = Following(t)
        BY DEF Adjacent
    <3>1. m = 0
      BY <1>4, <2>5, ZeroTimes
    <3>2. last # 0 /\ last = t
      BY <2>4, <2>5, <3>1
    <3> QED BY <1>9, <2>1, <2>2, <3>1, <3>2
  <2>7. /\ AllAdjacent(Append(G, f))
        /\ Append(G, f)[Len(Append(G, f))] = f
    BY <2>2, <2>5, <2>6, AdjacentAppend
  <2> QED BY <1>1, <1>7, <2>2, <2>3, <2>7
<1>11. CASE StartNextFrame
  <2> DEFINE f == x_vector_buffer
             G == Append(Frames, f)
  <2>1. /\ ~OnePacket /\ last # 0 /\ p.ts # last
        /\ x_vector_queue' = x_vector_queue \o (<<f>> \o ZeroFill(p))
        /\ x_vector_buffer' = CopyData(ZeroFrame, p)
    BY <1>1, <1>11 DEF StartNextFrame, QueueFrames, NextFrame, p
  <2>2. f \in Frame /\ TimesIn(f) \subseteq {last}
    BY <1>3, <2>1 DEF WrapInv
  <2>3. TimesIn(x_vector_buffer') \subseteq {p.ts}
    BY <1>1, <1>2, <1>3, <2>1, ZeroTimes, TimesCopy
  <2> HIDE DEF f
  <2>4. Frames' = G \o ZeroFill(p)
    <3>1. <<f>> \o ZeroFill(p) \in Seq(Frame)
      <4>1. <<f>> \in Seq(Frame)
        BY <2>2
      <4> QED BY <1>4, <4>1, ConcatProperties
    <3>2. Frames' = Frames \o (<<f>> \o ZeroFill(p))
      BY <1>1, <1>3, <2>1, <3>1, FramesQueued
    <3>3. ASSUME NEW D \in Seq(Frame), NEW z \in Seq(Frame)
          PROVE  D \o (<<f>> \o z) = Append(D, f) \o z
      <4>1. <<f>> \in Seq(Frame) /\ Append(D, f) = D \o <<f>>
        BY <2>2
      <4>2. Associates(D, <<f>>, z)
        BY <4>1, JoinAssociates, Zenon
      <4>3. D \o (<<f>> \o z) = (D \o <<f>>) \o z
        BY <4>2, Zenon DEF Associates
      <4> QED BY <4>1, <4>3, Zenon
    <3> QED BY <1>3, <1>4, <3>2, <3>3
  <2>5. ~OnePacket => TimesIn(x_vector_buffer)' \subseteq {p.ts}
    BY <2>3 DEF TimesIn
  <2> SUFFICES ASSUME ~overran'
               PROVE  /\ AllAdjacent(Frames)'
                      /\ Frames' # <<>> => \A t \in TimesIn(Frames'[Len(Frames')]) :
                            d_last_timestamp' = Following(t)
      BY <1>1, <1>6, <1>8, <2>1, <2>5 DEF WrapInv, OnePacket, TimesIn
  <2>6. /\ AllAdjacent(Frames)
        /\ Frames # <<>> => \A t \in TimesIn(Frames[Len(Frames)]) : last = Following(t)
    BY <1>4, <2>1 DEF WrapInv
  <2>7. /\ G \in Seq(Frame) /\ AllAdjacent(G) /\ G # <<>> /\ G[Len(G)] = f
    <3>1. Frames # <<>> => Adjacent(Frames[Len(Frames)], f)
      BY <2>2, <2>6 DEF Adjacent
    <3> QED BY <1>3, <2>2, <2>6, <3>1, AdjacentAppend
  <2> HIDE DEF G
  <2>8. /\ AllAdjacent(G \o ZeroFill(p))
        /\ m = 0 => G \o ZeroFill(p) = G
        /\ m > 0 => (G \o ZeroFill(p))[Len(G \o ZeroFill(p))] = ZeroFrame
    BY <1>4, <2>7, AdjacentZeros
  <2>9. ASSUME NEW t \in TimesIn(Frames'[Len(Frames')])
        PROVE  d_last_timestamp' = Following(t)
    <3>1. m = 0
      BY <1>4, <2>4, <2>8, <2>9, ZeroTimes
    <3>2. t = last
      BY <2>2, <2>4, <2>7, <2>8, <2>9, <3>1
    <3> QED BY <1>1, <1>9, <2>1, <3>1, <3>2
  <2> QED BY <1>7, <2>4, <2>8, <2>9
<1>12. CASE FillFrame
  <2>1. /\ ~OnePacket /\ ~NextFrame(p) /\ x_vector_queue' = x_vector_queue
        /\ x_vector_buffer' = CopyData(x_vector_buffer, p)
    BY <1>12 DEF FillFrame, p
  <2>2. last = 0 \/ last = p.ts
    BY <1>1, <2>1 DEF NextFrame
  <2>3. Frames' = Frames
    BY <1>3, <2>1 DEF Frames
  <2>4. TimesIn(x_vector_buffer) \subseteq {p.ts}
    <3>1. TimesIn(x_vector_buffer) \subseteq {last}
      BY <2>1 DEF WrapInv
    <3>2. 0 \notin Times
      BY <1>1, SizesAssumption DEF Times
    <3> QED BY <2>2, <3>1, <3>2 DEF TimesIn
  <2>5. TimesIn(CopyData(x_vector_buffer, p)) \subseteq {p.ts}
    BY <1>1, <1>2, <1>3, <2>4, TimesCopy
  <2>6. TimesIn(x_vector_buffer)' \subseteq {d_last_timestamp'}
    BY <1>1, <2>1, <2>5 DEF TimesIn
  <2>7. ASSUME ~overran'
        PROVE  /\ AllAdjacent(Frames)'
               /\ Frames' # <<>> => \A t \in TimesIn(Frames'[Len(Frames')]) :
                     d_last_timestamp' = Following(t)
    <3>1. AllAdjacent(Frames)'
      BY <1>4, <1>7, <2>3, <2>7 DEF WrapInv
    <3>2. last = 0 => Frames = <<>>
      BY DEF WrapInv
    <3>3. last # 0 => d_last_timestamp' = last
      BY <1>1, <2>2
    <3> QED BY <1>4, <2>1, <2>3, <2>7, <3>1, <3>2, <3>3 DEF WrapInv
  <2> QED BY <1>6, <1>8, <2>1, <2>6, <2>7 DEF WrapInv, OnePacket, TimesIn
<1> QED BY <1>10, <1>11, <1>12 DEF WorkLoop

(* Every step keeps them so. *)
LEMMA WrapNext ==
    ASSUME FilesInOrder, PlayInv, PlayInv', ChainInv, WrapInv, [PlaybackNext]_allVars
    PROVE  WrapInv'
<1>1. file' = file
  BY WorkQueue DEF PlaybackNext, QueuePcapData, StartBatch, ReadRecord, EndBatch,
     EndOfFile, allVars, playbackVars
<1>2. ASSUME Frames' = Frames, UNCHANGED <<d_last_timestamp, x_vector_buffer, overran>>
      PROVE  WrapInv'
  <2>1. EndTime' = EndTime /\ ReplayTime' = ReplayTime
    BY <1>1 DEF EndTime, ReplayTime, FileTimes, ReplayTimes, Playable, FirstStart, Starts,
                LastOf, FirstOf
  <2>2. \A t : Following(t)' = Following(t)
    BY <2>1 DEF Following
  <2>3. TimesIn(x_vector_buffer)' = TimesIn(x_vector_buffer)
    BY <1>2 DEF TimesIn
  <2>4. AllAdjacent(Frames) => AllAdjacent(Frames)'
    BY <1>2, <2>2 DEF AllAdjacent, Adjacent, TimesIn
  <2>5. TimesIn(Frames[Len(Frames)])' = TimesIn(Frames[Len(Frames)])
    BY <1>2 DEF TimesIn
  <2> QED BY <1>2, <2>2, <2>3, <2>4, <2>5 DEF WrapInv, OnePacket
<1>3. ASSUME UNCHANGED <<takeVars, fillVars, outVars>> PROVE WrapInv'
  <2>1. Frames' = Frames
    BY <1>3 DEF Frames, outVars
  <2> QED BY <1>2, <1>3, <2>1 DEF takeVars, fillVars
<1>4. CASE WorkStep /\ WorkLoop
  BY <1>1, <1>4, WrapTake
<1>5. CASE WorkStep /\ ReturnItems
  <2>1. Frames' = Frames
    BY <1>5, FramesReturn DEF PlayInv
  <2>2. UNCHANGED <<takeVars, fillVars>>
    BY <1>5 DEF ReturnItems
  <2> QED BY <1>2, <2>1, <2>2 DEF takeVars, fillVars
<1>6. CASE PlaybackWork \/ SyncMsg
  BY <1>3, <1>4, <1>5, <1>6
     DEF PlaybackWork, WorkDone, WorkOnFile, WorkCall, CountPackets, LeaveLoop,
         GiveUpOnFile, WorkStep, SyncMsg, SendSyncPmt, HandleSyncMsg, vars
<1>7. CASE QueuePcapData
  <2>1. CASE ReadRecord
    BY <1>3, <2>1, ReadCases
  <2>2. CASE ~ReadRecord
    BY <1>3, <1>7, <2>2, QuietSteps DEF QueuePcapData, vars
  <2> QED BY <2>1, <2>2
<1>8. CASE UNCHANGED allVars
  BY <1>3, <1>8 DEF allVars, vars
<1> QED BY <1>6, <1>7, <1>8 DEF PlaybackNext

(* The fifth invariant holds in every state. *)
LEMMA WrapInvariant ==
    ASSUME RoomForABatch, FilesInOrder
    PROVE  PlaybackSpec => [](PlayInv /\ ChainInv /\ WrapInv)
<1>1. PlaybackInit => ChainInv /\ WrapInv
  <2> SUFFICES ASSUME PlaybackInit PROVE ChainInv /\ WrapInv
      OBVIOUS
  <2>1. /\ d_last_timestamp = 0 /\ d_localqueue = <<>> /\ ~d_found_start_channel
        /\ offset = 0 /\ x_vector_buffer = ZeroFrame
        /\ output = <<>> /\ x_vector_queue = <<>>
    BY DEF PlaybackInit, Init
  <2>2. Frames = <<>>
    <3>1. SafeInv
      BY SafeInit DEF PlaybackInit
    <3>2. Data(output) \in Seq(Frame) /\ Len(Data(output)) = 0
      BY <2>1, <3>1, DataIsSeq DEF SafeInv, TypeOK, OutTypeOK
    <3>3. Data(output) = <<>>
      BY <3>2, EmptySeq
    <3>4. Frames = Data(output) \o x_vector_queue
      BY <3>1, FramesType
    <3> QED BY <2>1, <3>3, <3>4
  <2>3. Len(Frames) = 0
    BY <2>2
  <2> QED BY <2>1, <2>2, <2>3, ZeroTimes DEF ChainInv, WrapInv, AllAdjacent
<1>2. PlayInv /\ QueueFilled /\ ChainInv /\ [PlaybackNext]_allVars => ChainInv'
  BY ChainNext
<1>3. PlayInv /\ PlayInv' /\ ChainInv /\ WrapInv /\ [PlaybackNext]_allVars => WrapInv'
  BY WrapNext
<1> QED BY <1>1, <1>2, <1>3, PlayInvariant, QueueFilledInvariant, PTL DEF PlaybackSpec

(* Played again, the times of the frames start again (1458), and no frame    *)
(* mixes two passes or two times: a frame has the time after that of the     *)
(* frame before it, or the stream goes from the last time of the file to the *)
(* first of its channels.                                                    *)
THEOREM ReplayWrapsAround ==
    ASSUME RoomForABatch, FilesInOrder PROVE PlaybackSpec => []WrapsAround
<1>1. ASSUME PlayInv, WrapInv PROVE WrapsAround
  <2> SUFFICES ASSUME ~overran, NEW i \in 1 .. Len(output) - 1,
                      NEW t \in TimesOf(i), NEW u \in TimesOf(i + 1)
               PROVE  u = Following(t)
      BY DEF WrapsAround, Following, EndTime, ReplayTime
  <2>1. /\ Data(output) \in Seq(Frame) /\ x_vector_queue \in Seq(Frame)
        /\ Frames = Data(output) \o x_vector_queue
        /\ Len(Data(output)) = Len(output) /\ Len(output) \in Nat
        /\ Len(x_vector_queue) \in Nat
        /\ \A j \in 1 .. Len(output) : Data(output)[j] = output[j].data
    BY <1>1, FramesType, DataIsSeq, LenProperties
       DEF PlayInv, SafeInv, TypeOK, OutTypeOK
  <2>2. /\ Len(Frames) = Len(output) + Len(x_vector_queue)
        /\ \A j \in 1 .. Len(output) : Frames[j] = output[j].data
    <3>1. /\ Len(Frames) = Len(Data(output)) + Len(x_vector_queue)
          /\ \A j \in 1 .. Len(Data(output)) + Len(x_vector_queue) :
                Frames[j] = IF j <= Len(Data(output)) THEN Data(output)[j]
                            ELSE x_vector_queue[j - Len(Data(output))]
      <4>1. \A D, x \in Seq(Frame) :
               /\ Len(D \o x) = Len(D) + Len(x)
               /\ \A j \in 1 .. Len(D) + Len(x) :
                     (D \o x)[j] = IF j <= Len(D) THEN D[j] ELSE x[j - Len(D)]
        <5> TAKE D, x \in Seq(Frame)
        <5> QED BY ConcatProperties
      <4> QED BY <2>1, <4>1, Zenon
    <3>2. \A j \in 1 .. Len(output) :
             /\ j \in 1 .. Len(Data(output)) + Len(x_vector_queue)
             /\ j <= Len(Data(output))
      BY <2>1
    <3>3. \A j \in 1 .. Len(output) : Frames[j] = Data(output)[j]
      BY <3>1, <3>2
    <3> QED BY <2>1, <3>1, <3>3
  <2>3. i \in 1 .. Len(output) /\ i + 1 \in 1 .. Len(output) /\ i \in 1 .. Len(Frames) - 1
    BY <2>1, <2>2
  <2>4. t \in TimesIn(Frames[i]) /\ u \in TimesIn(Frames[i + 1])
    BY <2>2, <2>3 DEF TimesIn, TimesOf
  <2>5. Adjacent(Frames[i], Frames[i + 1])
    BY <1>1, <2>3 DEF WrapInv, AllAdjacent
  <2> QED BY <2>4, <2>5 DEF Adjacent
<1> QED BY <1>1, WrapInvariant, PTL
=============================================================================
