-------------------------- MODULE SnapSynchronizer --------------------------
(***************************************************************************)
(* The synchronizer block (lib/SNAPSynchronizerV3_impl.cc) and the SNAP    *)
(* sources that feed it.  Each input starts at a timestamp of its own.     *)
(* The block compares the tags of the inputs' first items and discards     *)
(* items until all agree; from then on it copies, says so in a sync        *)
(* message, and the sources stop tagging.                                  *)
(*                                                                         *)
(* Units are those of SnapVoltage: an item stands for the 16 vectors of a  *)
(* frame, which share their tag; set_output_multiple(16) on both sides     *)
(* makes every read, discard and copy a multiple of them.  A source is     *)
(* reduced to the timestamps and tags of the frames it queues and returns; *)
(* SnapVoltage has its details.                                            *)
(***************************************************************************)
EXTENDS Integers, Sequences, FiniteSets

CONSTANTS Inputs,        \* the inputs: 0 .. d_num_inputs - 1
          OnePacket,     \* do the sources send one packet per frame?
          MaxMissedSets, \* MAX_MISSED_SETS of the sources
          None,          \* no tag, no timestamp, no message
          FirstTime,     \* bound: the first timestamp of an input ...
          LastStart,     \* ... the last one an input may start at ...
          LastTime,      \* ... and the last one the inputs carry
          MaxGap,        \* bound: frames a source may miss in a row
          BufferSize,    \* bound: items the buffer before an input holds
          MaxOut         \* bound: items the scheduler asks for in one call

Times == FirstTime .. LastTime

ASSUME InputsAssumption == IsFiniteSet(Inputs) /\ Inputs # {}

ASSUME BoundsAssumption ==
    /\ OnePacket \in BOOLEAN
    /\ MaxMissedSets \in Nat /\ MaxGap \in Nat
    /\ BufferSize \in Nat \ {0} /\ MaxOut \in Nat \ {0}
    /\ FirstTime \in Nat \ {0}
    /\ LastStart \in Nat /\ LastTime \in Nat
    /\ FirstTime <= LastStart /\ LastStart <= LastTime

ASSUME NoneAssumption == None \notin Int

(* A frame a source has queued: the timestamp of its data and its tag.  An   *)
(* item may have no tag; then nothing tells its timestamp any more.          *)
Frame == [time : Times, tag : Nat]
Tag   == Nat \cup {None}
Item  == [time : Times, tag : Tag]

VARIABLES
    d_last_timestamp,  \* of each source; None before its first packet
    x_vector_queue,    \* of each source: frames queued, with their tags
    sync_timestamp,    \* of each source: 0, or what the sync message said
    buffer,            \* before each input: items not consumed yet
    d_synchronized,    \* the block's flag
    sync,              \* None, or the message sent on port "sync"
    output,            \* history: items passed on, of each input
    tagged,            \* history: tags added, with the item they are put on
    start,             \* history: first timestamp of each source
    overran            \* history: a gap exceeded MAX_MISSED_SETS

sourceVars == <<d_last_timestamp, x_vector_queue, start, overran>>
blockVars  == <<d_synchronized, sync, output, tagged>>
vars       == <<sourceVars, sync_timestamp, buffer, blockVars>>

-----------------------------------------------------------------------------
(* The sources. *)

(* The frames a source queues when its next packet has timestamp p: zeros    *)
(* for the ones missing, each with its own tag; with one packet per frame,   *)
(* then the packet's frame.                                                  *)
Missed(last, p) == IF last = None THEN 0 ELSE p - last - 1

(* mutant: the limit itself is refused *)
FilledBelowLimit(last, p) ==
    IF Missed(last, p) < MaxMissedSets
    THEN [k \in 1 .. Missed(last, p) |-> [time |-> last + k, tag |-> last + k]]
    ELSE <<>>

FilledFrames(last, p) ==
    IF Missed(last, p) <= MaxMissedSets
    THEN [k \in 1 .. Missed(last, p) |-> [time |-> last + k, tag |-> last + k]]
    ELSE <<>>

OnePacketFrames(last, p) ==
    Append(FilledFrames(last, p), [time |-> p, tag |-> p])

(* With several packets per frame, the packet ends the frame before it, and  *)
(* that frame is tagged with the packet's timestamp.                         *)
MultiPacketFrames(last, p) ==
    IF last = None THEN <<>>
    ELSE <<[time |-> last, tag |-> p]>> \o FilledFrames(last, p)

(* The packets of timestamp p come to source i. *)
QueueFrames(i) == \E p \in Times :
    /\ Len(x_vector_queue[i]) < MaxOut
    /\ IF d_last_timestamp[i] = None
       THEN p <= LastStart
       ELSE Missed(d_last_timestamp[i], p) \in 0 .. MaxGap
    /\ x_vector_queue' = [x_vector_queue EXCEPT ![i] = @ \o
           (IF OnePacket THEN OnePacketFrames(d_last_timestamp[i], p)
                         ELSE MultiPacketFrames(d_last_timestamp[i], p))]
    /\ d_last_timestamp' = [d_last_timestamp EXCEPT ![i] = p]
    /\ start' = IF start[i] = None THEN [start EXCEPT ![i] = p] ELSE start
    /\ overran' = (overran \/ Missed(d_last_timestamp[i], p) > MaxMissedSets)
    /\ UNCHANGED <<sync_timestamp, buffer, blockVars>>

(* Items carry a tag only as long as no sync message has come. *)
TagUntilSynced(i, item) ==
    IF sync_timestamp[i] = 0 THEN item ELSE [item EXCEPT !.tag = None]

(* Source i returns from work() with n items; the scheduler asks for no more *)
(* than the buffer downstream has room for.                                  *)
ReturnItems(i) == \E n \in 1 .. MaxOut :
    /\ n <= Len(x_vector_queue[i])
    /\ Len(buffer[i]) + n <= BufferSize
    /\ buffer' = [buffer EXCEPT ![i] = @ \o
           [k \in 1 .. n |-> TagUntilSynced(i, x_vector_queue[i][k])]]
    /\ x_vector_queue' = [x_vector_queue EXCEPT ![i] = SubSeq(@, n + 1, Len(@))]
    /\ UNCHANGED <<d_last_timestamp, start, overran, sync_timestamp, blockVars>>

(* The scheduler delivers the message to each source between calls of work(). *)
HandleSyncMsg(i) ==
    /\ sync # None
    /\ sync_timestamp[i] # sync
    /\ sync_timestamp' = [sync_timestamp EXCEPT ![i] = sync]
    /\ UNCHANGED <<sourceVars, buffer, blockVars>>

-----------------------------------------------------------------------------
(* The synchronizer: one call of general_work(noutput_items). *)

(* mutant: a call waits for all the items it might ask for *)
ForecastAll(n) == \A i \in Inputs : Len(buffer[i]) >= MaxOut

(* forecast(): every input has to have noutput_items items. *)
Forecast(n) == \A i \in Inputs : Len(buffer[i]) >= n

(* The tag of the first item in the window. *)
FirstTag(i) == Head(buffer[i]).tag

(* There is no test for a first item without a tag: tags[0] would be read    *)
(* from an empty vector.                                                     *)
FirstItemsTagged == \A i \in Inputs : FirstTag(i) # None

(* Input h has the highest of the first tags. *)
Highest(h) == \A i \in Inputs : FirstTag(i) <= FirstTag(h)

(* mutant: agreement of two neighbours is taken for agreement of all *)
TestSyncOfSome == \E i, j \in Inputs : i # j /\ FirstTag(i) = FirstTag(j)

TestSync == \A i, j \in Inputs : FirstTag(i) = FirstTag(j)

(* mutant: every item is taken to have a tag *)
AllInWindow(i, n) == 1 .. n

(* get_tags_in_window(tags, cur_input, 0, n): where there are tags. *)
TagsInWindow(i, n) == {k \in 1 .. n : buffer[i][k].tag # None}

(* add_item_tag(cur_input, i, ...): the first tag found in the window is put *)
(* on the first item of the whole output, the second one on the second ...   *)
CopiedTags(i, n) ==
    {[item |-> Cardinality({l \in TagsInWindow(i, n) : l <= k}),
      tag  |-> buffer[i][k].tag] : k \in TagsInWindow(i, n)}

(* memcpy(), the tags and consume_each(). *)
CopyItems(n) ==
    /\ output' = [i \in Inputs |-> output[i] \o SubSeq(buffer[i], 1, n)]
    /\ tagged' = [i \in Inputs |-> tagged[i] \cup CopiedTags(i, n)]
    /\ buffer' = [i \in Inputs |-> SubSeq(buffer[i], n + 1, Len(buffer[i]))]

Forward(n) ==
    /\ d_synchronized
    /\ Forecast(n)
    /\ CopyItems(n)
    /\ UNCHANGED <<sourceVars, sync_timestamp, d_synchronized, sync>>

Synchronize(n) ==
    /\ ~d_synchronized
    /\ Forecast(n)
    /\ FirstItemsTagged
    /\ TestSync
    /\ CopyItems(n)
    /\ d_synchronized' = TRUE
    /\ \E h \in Inputs : Highest(h) /\ sync' = FirstTag(h)
    /\ UNCHANGED <<sourceVars, sync_timestamp>>

(* mutant: one item too many is consumed *)
DiscardPastTag(i, h, n) == LET diff == FirstTag(h) - FirstTag(i) + 1
                           IN  IF diff > n THEN n ELSE diff

(* How many items of input i are too old, as far as they are in the window. *)
ItemsToConsume(i, h, n) == LET diff == FirstTag(h) - FirstTag(i)
                           IN  IF diff > n THEN n ELSE diff

ConsumeOlder(h, n) ==
    buffer' = [i \in Inputs |->
        SubSeq(buffer[i], ItemsToConsume(i, h, n) + 1, Len(buffer[i]))]

DiscardItems(n) ==
    /\ ~d_synchronized
    /\ Forecast(n)
    /\ FirstItemsTagged
    /\ ~TestSync
    /\ \E h \in Inputs : Highest(h) /\ ConsumeOlder(h, n)
    /\ UNCHANGED <<sourceVars, sync_timestamp>>

(* mutant: the message goes out when the timestamp is chosen *)
DiscardAndTell(n) ==
    /\ DiscardItems(n)
    /\ \E h \in Inputs : Highest(h) /\ sync' = FirstTag(h)
    /\ UNCHANGED <<d_synchronized, output, tagged>>

Discard(n) == DiscardItems(n) /\ UNCHANGED blockVars

GeneralWork == \E n \in 1 .. MaxOut : Forward(n) \/ Synchronize(n) \/ Discard(n)

-----------------------------------------------------------------------------
Init ==
    /\ d_last_timestamp = [i \in Inputs |-> None]
    /\ x_vector_queue = [i \in Inputs |-> <<>>]
    /\ start = [i \in Inputs |-> None]
    /\ overran = FALSE
    /\ sync_timestamp = [i \in Inputs |-> 0]
    /\ buffer = [i \in Inputs |-> <<>>]
    /\ d_synchronized = FALSE
    /\ sync = None
    /\ output = [i \in Inputs |-> <<>>]
    /\ tagged = [i \in Inputs |-> {}]

Source(i) == QueueFrames(i) \/ ReturnItems(i) \/ HandleSyncMsg(i)

Next == (\E i \in Inputs : Source(i)) \/ GeneralWork

Spec == Init /\ [][Next]_vars

(* The scheduler calls a block as long as it has input and room; the SNAP    *)
(* boards keep sending.                                                      *)
FairSpec == /\ Spec
            /\ WF_vars(GeneralWork)
            /\ \A i \in Inputs : WF_vars(QueueFrames(i)) /\ WF_vars(ReturnItems(i))

-----------------------------------------------------------------------------
(* Type invariant. *)
TypeOK ==
    /\ d_last_timestamp \in [Inputs -> Times \cup {None}]
    /\ x_vector_queue \in [Inputs -> Seq(Frame)]
    /\ start \in [Inputs -> Times \cup {None}]
    /\ overran \in BOOLEAN
    /\ sync_timestamp \in [Inputs -> Nat]
    /\ buffer \in [Inputs -> Seq(Item)]
    /\ d_synchronized \in BOOLEAN
    /\ sync \in Tag
    /\ output \in [Inputs -> Seq(Item)]
    /\ \A i \in Inputs : tagged[i] \subseteq [item : Nat, tag : Nat]

(* general_work() reads tags[0] of every input without asking whether there  *)
(* is one (SNAPSynchronizerV3_impl.cc:132-135): as long as it is not         *)
(* synchronised, no source has stopped tagging, even though each of them     *)
(* hears of the synchronisation at a time of its own.                        *)
TagsWhenNeeded ==
    ~d_synchronized => \A i \in Inputs : \A k \in DOMAIN buffer[i] :
                           buffer[i][k].tag # None

(* "we're actually now synchronized" (156): item n of every output has the   *)
(* same timestamp, whatever the inputs started with, however the calls cut   *)
(* the streams and however the discards were cut to the window (186-194).    *)
OutputsAligned ==
    ~overran => \A i, j \in Inputs :
        \A k \in DOMAIN output[i] \cap DOMAIN output[j] :
            output[i][k].time = output[j][k].time

(* Nothing is discarded that could have been aligned: the outputs start with *)
(* the first timestamp that all inputs have, the latest of their starts.     *)
EarliestSync ==
    ~overran => \A i \in Inputs : output[i] # <<>> =>
        /\ \E j \in Inputs : output[i][1].time = start[j]
        /\ \A j \in Inputs : output[i][1].time >= start[j]

(* The block refines SynchronizedStreams. *)
Streams == INSTANCE SynchronizedStreams
           WITH forwarded <- [i \in Inputs |->
                                 [k \in DOMAIN output[i] |-> output[i][k].time]]
StreamsSpec == Streams!Spec

(* The block does synchronise, and passes on every timestamp that all inputs *)
(* have: it never waits for an input while it keeps another one, with its    *)
(* buffer full, from being emptied (80-86, 186-201).                         *)
Synchronizes == <>d_synchronized

PassedOn(i, t) == \E k \in DOMAIN output[i] : output[i][k].time = t

Available(i, t) == \/ \E k \in DOMAIN x_vector_queue[i] :
                          x_vector_queue[i][k].time = t
                   \/ \E k \in DOMAIN buffer[i] : buffer[i][k].time = t
                   \/ PassedOn(i, t)

AllPassedOn ==
    \A t \in Times : ((\A i \in Inputs : Available(i, t))
                          ~> (\A i \in Inputs : PassedOn(i, t)))
=============================================================================
