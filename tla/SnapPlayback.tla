---------------------------- MODULE SnapPlayback ----------------------------
(***************************************************************************)
(* The SNAP source block in voltage mode, playing a pcap file              *)
(* (lib/snap_source_impl.cc, d_use_pcap): the receive thread reads records *)
(* of the file into d_localqueue whenever few packets are left in it, and  *)
(* work() is the one of SnapVoltage, but for the end of the file.          *)
(***************************************************************************)
EXTENDS SnapVoltage

CONSTANTS Files,     \* the files to consider, sequences of records
          Other,     \* a record that is no packet for this source
          MinQueue,  \* min_pcap_queue_size
          ReloadSize,\* reload_size
          MaxRepeats \* bound: how often a repeated file starts again

ASSUME PlaybackAssumption ==
    /\ MinQueue \in Nat \ {0} /\ ReloadSize \in Nat \ {0} /\ MaxRepeats \in Nat
    /\ Other \notin Packet
    /\ Files \subseteq Seq(Packet \cup {Other})

VARIABLES
    file,            \* the file's records
    d_repeat_file,   \* is it played again and again?
    offset,          \* records that pcap_next() has returned since openPCAP()
    reading,         \* is the receive thread in the loop of queue_pcap_data()?
    matchingPackets, \* its local
    repeats,         \* how often the file was opened again
    pcap_file_done,  \* nothing will come any more
    polled,          \* has this call of work() counted the packets?
    done             \* work() has returned WORK_DONE

readerVars   == <<offset, reading, matchingPackets, repeats, pcap_file_done>>
playbackVars == <<file, d_repeat_file, readerVars, polled, done>>
allVars      == <<vars, playbackVars>>

-----------------------------------------------------------------------------
(* The receive thread: queue_pcap_data(). *)

(* mutants: a batch whatever is left of the last one *)
AlwaysLow == TRUE

(* ... and only while there is something to read *)
LowAndMore == Len(d_localqueue) < MinQueue /\ offset < Len(file)

(* packets_available() is a snapshot, taken under d_net_mutex. *)
QueueLow == Len(d_localqueue) < MinQueue

StartBatch ==
    /\ ~reading
    /\ QueueLow
    /\ reading' = TRUE
    /\ matchingPackets' = 0
    /\ UNCHANGED <<vars, file, d_repeat_file, offset, repeats, pcap_file_done, polled, done>>

(* mutant: as mmsg_receive() does, which only logs the channel id *)
AcceptedAll(p) == d_found_start_channel \/ p.ch = 0

(* voltage_synchronize() until the block of d_starting_channel has come,     *)
(* then a test of the channel id.                                            *)
Accepted(p) == (d_found_start_channel \/ p.ch = 0) /\ p.ch \in Blocks

(* One record.  The packets of other ports, protocols and sizes do not count. *)
ReadRecord ==
    /\ reading
    /\ matchingPackets < ReloadSize
    /\ offset < Len(file)
    /\ offset' = offset + 1
    /\ LET r == file[offset + 1]
           syncs == ~d_found_start_channel /\ r.ch = 0
       IN  \/ /\ r = Other
              /\ UNCHANGED <<matchingPackets, queueVars, syncVars>>
           \/ /\ r # Other
              /\ matchingPackets' = matchingPackets + 1
              /\ d_found_start_channel' = (d_found_start_channel \/ syncs)
              /\ d_send_sync_pmt' = (d_send_sync_pmt \/ syncs)
              /\ async_volt_sync_hdr' = IF syncs THEN r.ts ELSE async_volt_sync_hdr
              /\ d_localqueue' = IF Accepted(r) THEN PushBack(d_localqueue, <<r>>)
                                 ELSE d_localqueue
              /\ overwrote' = (overwrote \/ (Accepted(r) /\ Len(d_localqueue) = NetBufSize))
              /\ UNCHANGED <<sync_timestamp, published>>
    /\ UNCHANGED <<netVars, takeVars, callVars, fillVars, outVars, file, d_repeat_file,
                   reading, repeats, pcap_file_done, polled, done>>

EndBatch ==
    /\ reading
    /\ matchingPackets = ReloadSize
    /\ reading' = FALSE
    /\ UNCHANGED <<vars, file, d_repeat_file, offset, matchingPackets, repeats,
                   pcap_file_done, polled, done>>

(* mutant: the first record is skipped *)
SkipFirst == 1

(* openPCAP() stands before the first record. *)
Opened == 0

(* pcap_next() finds no record: the file is opened again, or that was all. *)
EndOfFile ==
    /\ reading
    /\ matchingPackets < ReloadSize
    /\ offset = Len(file)
    /\ reading' = FALSE
    /\ IF d_repeat_file
       THEN /\ repeats < MaxRepeats
            /\ repeats' = repeats + 1
            /\ offset' = Opened
            /\ UNCHANGED pcap_file_done
       ELSE /\ pcap_file_done' = TRUE
            /\ UNCHANGED <<repeats, offset>>
    /\ UNCHANGED <<vars, file, d_repeat_file, matchingPackets, polled, done>>

QueuePcapData == StartBatch \/ ReadRecord \/ EndBatch \/ EndOfFile

-----------------------------------------------------------------------------
(* The block's thread. *)

(* mutant: the packets that are still queued are forgotten *)
NothingMore == pcap_file_done

(* work() looks for the end of the file before anything else. *)
AllPlayed == pcap_file_done /\ d_localqueue = <<>>

WorkDone ==
    /\ pc = "idle"
    /\ ~done
    /\ AllPlayed
    /\ done' = TRUE
    /\ UNCHANGED <<vars, file, d_repeat_file, readerVars, polled>>

WorkOnFile ==
    /\ ~AllPlayed
    /\ WorkCall
    /\ polled' = FALSE
    /\ UNCHANGED <<file, d_repeat_file, readerVars, done>>

NothingToDo == num_packets_available = 0 /\ x_vector_queue = <<>>

(* The packets are counted, and counted again while there is nothing to do   *)
(* and the file is not at its end.                                           *)
CountPackets ==
    /\ pc = "poll"
    /\ polled => NothingToDo /\ ~pcap_file_done
    /\ polled' = TRUE
    /\ num_packets_available' = Len(d_localqueue)
    /\ UNCHANGED <<netVars, syncVars, queueVars, takeVars, pc, noutput_items, skippedPackets,
                   notified, fillVars, outVars, file, d_repeat_file, readerVars, done>>

(* The count may be an old zero when the end of the file ends the loop. *)
LeaveLoop ==
    /\ pc = "poll"
    /\ polled
    /\ ~NothingToDo \/ pcap_file_done
    /\ pc' = "pmt"
    /\ UNCHANGED <<netVars, syncVars, queueVars, takeVars, noutput_items,
                   num_packets_available, skippedPackets, notified, fillVars, outVars,
                   playbackVars>>

(* Nothing came for 120000 polls. *)
GiveUpOnFile ==
    /\ pc = "poll"
    /\ polled
    /\ NothingToDo
    /\ EndOfCall
    /\ UNCHANGED <<netVars, syncVars, queueVars, takeVars, notified, fillVars, outVars,
                   playbackVars>>

WorkStep == (SendSyncPmt \/ WorkLoop \/ ReturnItems) /\ UNCHANGED playbackVars

PlaybackWork == \/ WorkDone
                \/ WorkOnFile
                \/ CountPackets
                \/ LeaveLoop
                \/ GiveUpOnFile
                \/ WorkStep

SyncMsg == HandleSyncMsg /\ ~done /\ UNCHANGED playbackVars

-----------------------------------------------------------------------------
PlaybackInit ==
    /\ Init
    /\ next = [ts |-> FirstTime, ch |-> 0]
    /\ file \in Files
    /\ d_repeat_file \in BOOLEAN
    /\ offset = 0
    /\ reading = FALSE
    /\ matchingPackets = 0
    /\ repeats = 0
    /\ pcap_file_done = FALSE
    /\ polled = FALSE
    /\ done = FALSE

PlaybackNext == QueuePcapData \/ PlaybackWork \/ SyncMsg

PlaybackSpec == PlaybackInit /\ [][PlaybackNext]_allVars

(* runThread() loops until stop, and the scheduler calls work() until it     *)
(* says that it is done.                                                     *)
FairPlaybackSpec ==
    PlaybackSpec /\ WF_allVars(QueuePcapData) /\ WF_allVars(PlaybackWork)
-----------------------------------------------------------------------------
(* Properties. *)

PlaybackTypeOK ==
    /\ TypeOK
    /\ file \in Files
    /\ offset \in 0 .. Len(file)
    /\ matchingPackets \in 0 .. ReloadSize
    /\ repeats \in 0 .. MaxRepeats
    /\ {d_repeat_file, reading, pcap_file_done, polled, done} \subseteq BOOLEAN

(* The reader looks at the length of the queue once and then pushes a whole  *)
(* batch (1338, 1352), while work() takes packets out: it never has to       *)
(* overwrite what it has read.                                               *)
NothingOverwritten == Len(d_localqueue) < MinQueue + ReloadSize /\ ~overwrote

(* What a source configured for the packets of the file should play. *)
FirstStart == CHOOSE i \in DOMAIN file :
    /\ file[i] # Other /\ file[i].ch = 0
    /\ \A j \in 1 .. i - 1 : file[j] = Other \/ file[j].ch # 0

Starts == \E i \in DOMAIN file : file[i] # Other /\ file[i].ch = 0

Playable == IF Starts
            THEN {file[i] : i \in {j \in DOMAIN file : /\ j >= FirstStart
                                                       /\ file[j] # Other
                                                       /\ file[j].ch \in Blocks}}
            ELSE {}

(* WORK_DONE means that every packet of the file was taken (1205-1211): not  *)
(* one is left behind that the reader pushed after work() counted, or before *)
(* it saw the end of the file.                                               *)
WholeFileTaken == done => taken = Playable

(* But not every frame is delivered: the frame being filled and the frames   *)
(* of a filled gap that exceed the last call's output stay behind in the     *)
(* block, the stream is cut off there and nowhere else.                      *)
FileTimes   == {p.ts : p \in Playable}
LastOf(S)   == CHOOSE t \in S : \A u \in S : u <= t
FirstOf(S)  == CHOOSE t \in S : \A u \in S : u >= t

TailBound ==
    done /\ ~overran /\ origin # None =>
        LET closed == LastOf(FileTimes) - origin + (IF OnePacket THEN 1 ELSE 0)
        IN  /\ Len(output) + Len(x_vector_queue) = closed
            /\ Len(x_vector_queue) <= MaxMissedSets

(* Played once, the file comes out as it would have from the network.        *)
PlayedExactly == ~d_repeat_file => OutputExact

(* Played again, its times start again (1458), and a frame never mixes two   *)
(* passes or two times: the time of a frame is that of the frame before plus *)
(* one, or the output goes from the last packet of the file to the first of  *)
(* its channels, which the first pass may have skipped: the source stays     *)
(* synchronised.                                                             *)
TimesOf(i)  == {output[i].data[b] : b \in Blocks} \cap Times
ReplayTimes == {file[i].ts : i \in {j \in DOMAIN file : file[j] # Other
                                                     /\ file[j].ch \in Blocks}}

WrapsAround ==
    ~overran => \A i \in 1 .. Len(output) - 1 :
        \A t \in TimesOf(i), u \in TimesOf(i + 1) :
            u = IF t = LastOf(FileTimes) THEN FirstOf(ReplayTimes) ELSE t + 1

(* A file that is not repeated ends: work() says that it is done, after      *)
(* whatever calls that found nothing and whatever counts that were stale.    *)
PlaybackEnds == ~d_repeat_file ~> done
=============================================================================
