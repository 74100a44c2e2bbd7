----------------------- MODULE SnapSynchronizerProofs -----------------------
(***************************************************************************)
(* What TLAPS proves of SnapSynchronizer for every number of inputs, every *)
(* size of buffers and calls, and all timestamps.                          *)
(***************************************************************************)
EXTENDS SnapSynchronizer, SequenceTheorems, FiniteSetTheorems, TLAPS

-----------------------------------------------------------------------------
(* Sequences cut in two. *)

(* What a prefix of n elements and the rest of a sequence are. *)
LEMMA CutSequence ==
    ASSUME NEW S, NEW s \in Seq(S), NEW n \in 0 .. Len(s)
    PROVE  /\ SubSeq(s, 1, n) \in Seq(S)
           /\ Len(SubSeq(s, 1, n)) = n
           /\ \A k \in 1 .. n : SubSeq(s, 1, n)[k] = s[k]
           /\ SubSeq(s, n + 1, Len(s)) \in Seq(S)
           /\ Len(SubSeq(s, n + 1, Len(s))) = Len(s) - n
           /\ \A k \in 1 .. Len(s) - n : SubSeq(s, n + 1, Len(s))[k] = s[n + k]
<1>1. Len(s) \in Nat /\ n \in Nat /\ \A k \in 1 .. Len(s) : s[k] \in S
  BY LenProperties, ElementOfSeq
<1>2. /\ SubSeq(s, 1, n) \in Seq(S)
      /\ Len(SubSeq(s, 1, n)) = IF 1 <= n THEN n - 1 + 1 ELSE 0
      /\ \A k \in 1 .. n - 1 + 1 : SubSeq(s, 1, n)[k] = s[1 + k - 1]
  <2>1. \A k \in 1 .. n : s[k] \in S
    BY <1>1
  <2> QED BY <1>1, <2>1, SubSeqProperties
<1>3. /\ SubSeq(s, n + 1, Len(s)) \in Seq(S)
      /\ Len(SubSeq(s, n + 1, Len(s))) =
             IF n + 1 <= Len(s) THEN Len(s) - (n + 1) + 1 ELSE 0
      /\ \A k \in 1 .. Len(s) - (n + 1) + 1 :
             SubSeq(s, n + 1, Len(s))[k] = s[(n + 1) + k - 1]
  <2>1. \A k \in n + 1 .. Len(s) : s[k] \in S
    BY <1>1
  <2> QED BY <1>1, <2>1, SubSeqProperties
<1>4. \A k \in 1 .. n : SubSeq(s, 1, n)[k] = s[k]
  BY <1>1, <1>2
<1>5. \A k \in 1 .. Len(s) - n : SubSeq(s, n + 1, Len(s))[k] = s[n + k]
  <2>1. ASSUME NEW k \in 1 .. Len(s) - n
        PROVE  k \in 1 .. Len(s) - (n + 1) + 1 /\ (n + 1) + k - 1 = n + k
    BY <1>1
  <2> QED BY <1>3, <2>1
<1>6. Len(SubSeq(s, 1, n)) = n
  BY <1>1, <1>2
<1>7. Len(SubSeq(s, n + 1, Len(s))) = Len(s) - n
  BY <1>1, <1>3
<1> QED BY <1>2, <1>3, <1>4, <1>5, <1>6, <1>7

(* A function on 1 .. n is a sequence of length n. *)
LEMMA FunctionIsSeq ==
    ASSUME NEW S, NEW n \in Nat, NEW f \in [1 .. n -> S]
    PROVE  f \in Seq(S) /\ Len(f) = n
BY SeqDef

-----------------------------------------------------------------------------
(* Types. *)

(* A sequence over a set is one over any larger set. *)
LEMMA SeqMonotone ==
    ASSUME NEW S, NEW T, S \subseteq T, NEW s \in Seq(S)
    PROVE  s \in Seq(T)
BY SeqDef

(* A frame is an item that has its tag. *)
LEMMA FrameIsItem == Frame \subseteq Item
BY DEF Frame, Item, Tag

(* The frames of a filled gap: how many, and of which timestamps. *)
LEMMA FilledFramesType ==
    ASSUME NEW last \in Times, NEW p \in Times, Missed(last, p) >= 0
    PROVE  /\ FilledFrames(last, p) \in Seq(Frame)
           /\ Missed(last, p) <= MaxMissedSets =>
                 /\ Len(FilledFrames(last, p)) = Missed(last, p)
                 /\ \A k \in 1 .. Missed(last, p) :
                        /\ FilledFrames(last, p)[k].time = last + k
                        /\ FilledFrames(last, p)[k].tag = last + k
<1> DEFINE m == Missed(last, p)
           f == [k \in 1 .. m |-> [time |-> last + k, tag |-> last + k]]
<1>1. last \in Nat /\ p \in Nat /\ last # None
  BY BoundsAssumption, NoneAssumption DEF Times
<1>2. m = p - last - 1 /\ m \in Nat
  BY <1>1 DEF Missed
<1>3. ASSUME NEW k \in 1 .. m
      PROVE  [time |-> last + k, tag |-> last + k] \in Frame
  <2>1. last + k \in Times
    BY <1>2, BoundsAssumption DEF Times
  <2>2. last + k \in Nat
    BY <1>1, <1>2
  <2> QED BY <2>1, <2>2 DEF Frame
<1> HIDE DEF m
<1>4. f \in [1 .. m -> Frame]
  BY <1>3
<1>5. f \in Seq(Frame) /\ Len(f) = m
  BY <1>2, <1>4, FunctionIsSeq
<1>6. \A k \in 1 .. m : f[k].time = last + k /\ f[k].tag = last + k
  OBVIOUS
<1>7. FilledFrames(last, p) = IF m <= MaxMissedSets THEN f ELSE <<>>
  BY DEF FilledFrames, m
<1> HIDE DEF f
<1>8. <<>> \in Seq(Frame)
  OBVIOUS
<1> QED BY <1>5, <1>6, <1>7, <1>8 DEF m

(* Before its first packet a source fills in nothing. *)
LEMMA NothingFilledAtStart ==
    ASSUME NEW p \in Times
    PROVE  FilledFrames(None, p) = <<>>
<1> DEFINE f == [k \in 1 .. 0 |-> [time |-> None + k, tag |-> None + k]]
<1>1. Missed(None, p) = 0
  BY DEF Missed
<1>2. f \in [1 .. 0 -> Frame]
  OBVIOUS
<1>3. f \in Seq(Frame) /\ Len(f) = 0
  BY <1>2, FunctionIsSeq
<1>4. FilledFrames(None, p) = f \/ FilledFrames(None, p) = <<>>
  BY <1>1 DEF FilledFrames
<1> HIDE DEF f
<1> QED BY <1>3, <1>4, EmptySeq

(* A packet queues frames, in both layouts. *)
LEMMA FramesType ==
    ASSUME NEW last \in Times \cup {None}, NEW p \in Times,
           last # None => Missed(last, p) >= 0
    PROVE  /\ OnePacketFrames(last, p) \in Seq(Frame)
           /\ MultiPacketFrames(last, p) \in Seq(Frame)
<1>1. p \in Nat /\ (last # None => last \in Nat)
  BY BoundsAssumption, NoneAssumption DEF Times
<1>2. FilledFrames(last, p) \in Seq(Frame)
  <2>1. CASE last = None
    <3>1. FilledFrames(last, p) = <<>>
      BY <2>1, NothingFilledAtStart
    <3> QED BY <3>1
  <2>2. CASE last # None
    <3>1. last \in Times /\ Missed(last, p) >= 0
      BY <2>2
    <3> QED BY <3>1, FilledFramesType
  <2> QED BY <2>1, <2>2
<1>3. [time |-> p, tag |-> p] \in Frame
  BY <1>1 DEF Frame
<1>4. last # None => [time |-> last, tag |-> p] \in Frame
  BY <1>1 DEF Frame
<1>5. last # None => <<[time |-> last, tag |-> p]>> \o FilledFrames(last, p) \in Seq(Frame)
  <2> DEFINE f == [time |-> last, tag |-> p]
             z == FilledFrames(last, p)
  <2>1. last # None => f \in Frame
    BY <1>4
  <2> HIDE DEF f, z
  <2>2. last # None => <<f>> \in Seq(Frame)
    BY <2>1
  <2>3. z \in Seq(Frame)
    BY <1>2 DEF z
  <2>4. last # None => <<f>> \o z \in Seq(Frame)
    BY <2>2, <2>3, ConcatProperties
  <2> QED BY <2>4 DEF f, z
<1> QED BY <1>2, <1>3, <1>5 DEF OnePacketFrames, MultiPacketFrames

(* Until the block is synchronised no message has been sent, no source has   *)
(* stopped tagging, and every item has a tag.                                *)
TagInv == ~d_synchronized => /\ sync = None
                             /\ \A i \in Inputs : sync_timestamp[i] = 0
                             /\ buffer \in [Inputs -> Seq(Frame)]

SafeInv == TypeOK /\ TagInv

(* The invariant holds initially. *)
LEMMA SafeInit == Init => SafeInv
<1> SUFFICES ASSUME Init PROVE SafeInv
    OBVIOUS
<1>1. /\ overran \in BOOLEAN /\ d_synchronized \in BOOLEAN
  BY Zenon DEF Init
<1>2. /\ d_last_timestamp \in [Inputs -> Times \cup {None}]
      /\ x_vector_queue \in [Inputs -> Seq(Frame)]
      /\ start \in [Inputs -> Times \cup {None}]
      /\ sync_timestamp \in [Inputs -> Nat]
      /\ buffer \in [Inputs -> Seq(Item)]
      /\ buffer \in [Inputs -> Seq(Frame)]
      /\ sync \in Tag
      /\ output \in [Inputs -> Seq(Item)]
      /\ \A i \in Inputs : tagged[i] \subseteq [item : Nat, tag : Nat]
  BY DEF Init, Tag
<1>3. TagInv
  BY <1>2 DEF Init, TagInv
<1> QED BY <1>1, <1>2, <1>3 DEF SafeInv, TypeOK

(* Queueing the frames of a packet keeps it. *)
LEMMA SafeQueueFrames ==
    ASSUME SafeInv, NEW i \in Inputs, QueueFrames(i)
    PROVE  SafeInv'
<1>1. PICK p \in Times :
        /\ IF d_last_timestamp[i] = None
           THEN p <= LastStart
           ELSE Missed(d_last_timestamp[i], p) \in 0 .. MaxGap
        /\ x_vector_queue' = [x_vector_queue EXCEPT ![i] = @ \o
               (IF OnePacket THEN OnePacketFrames(d_last_timestamp[i], p)
                             ELSE MultiPacketFrames(d_last_timestamp[i], p))]
        /\ d_last_timestamp' = [d_last_timestamp EXCEPT ![i] = p]
        /\ start' = IF start[i] = None THEN [start EXCEPT ![i] = p] ELSE start
        /\ overran' = (overran \/ Missed(d_last_timestamp[i], p) > MaxMissedSets)
  BY DEF QueueFrames
<1>2. UNCHANGED <<sync_timestamp, buffer, d_synchronized, sync, output, tagged>>
  BY DEF QueueFrames, blockVars
<1>3. /\ d_last_timestamp \in [Inputs -> Times \cup {None}]
      /\ x_vector_queue \in [Inputs -> Seq(Frame)]
      /\ start \in [Inputs -> Times \cup {None}]
  BY DEF SafeInv, TypeOK
<1>4. d_last_timestamp' \in [Inputs -> Times \cup {None}]
  BY <1>1, <1>3
<1>5. start' \in [Inputs -> Times \cup {None}]
  BY <1>1, <1>3
<1>6. x_vector_queue' \in [Inputs -> Seq(Frame)]
  <2> DEFINE last == d_last_timestamp[i]
             q == x_vector_queue[i]
             f == IF OnePacket THEN OnePacketFrames(last, p)
                               ELSE MultiPacketFrames(last, p)
  <2>1. last \in Times \cup {None} /\ (last # None => Missed(last, p) >= 0)
    BY <1>1, <1>3, BoundsAssumption
  <2>2. f \in Seq(Frame)
    BY <2>1, FramesType
  <2>3. q \in Seq(Frame)
    BY <1>3
  <2>4. x_vector_queue' = [x_vector_queue EXCEPT ![i] = q \o f]
    BY <1>1
  <2> HIDE DEF q, f
  <2>5. q \o f \in Seq(Frame)
    BY <2>2, <2>3, ConcatProperties
  <2> QED BY <1>3, <2>4, <2>5
<1>7. overran' \in BOOLEAN
  BY <1>1, Zenon DEF SafeInv, TypeOK
<1> QED BY <1>2, <1>4, <1>5, <1>6, <1>7 DEF SafeInv, TypeOK, TagInv

(* Items returned before a sync message keep their tags. *)
LEMMA SafeReturnItems ==
    ASSUME SafeInv, NEW i \in Inputs, ReturnItems(i)
    PROVE  SafeInv'
<1>1. PICK n \in 1 .. MaxOut :
        /\ n <= Len(x_vector_queue[i])
        /\ buffer' = [buffer EXCEPT ![i] = @ \o
               [k \in 1 .. n |-> TagUntilSynced(i, x_vector_queue[i][k])]]
        /\ x_vector_queue' =
               [x_vector_queue EXCEPT ![i] = SubSeq(@, n + 1, Len(@))]
  BY DEF ReturnItems
<1>2. UNCHANGED <<d_last_timestamp, start, overran, sync_timestamp,
                  d_synchronized, sync, output, tagged>>
  BY DEF ReturnItems, blockVars
<1> DEFINE q == x_vector_queue[i]
           b == buffer[i]
           r == [k \in 1 .. n |-> TagUntilSynced(i, q[k])]
<1>3. q \in Seq(Frame) /\ b \in Seq(Item) /\ n \in 0 .. Len(q) /\ n \in Nat
  <2>1. q \in Seq(Frame) /\ b \in Seq(Item)
    BY DEF SafeInv, TypeOK
  <2> QED BY <1>1, <2>1, BoundsAssumption
<1>4. SubSeq(q, n + 1, Len(q)) \in Seq(Frame)
  <2> HIDE DEF q
  <2> QED BY <1>3, CutSequence
<1>5. x_vector_queue' \in [Inputs -> Seq(Frame)]
  BY <1>1, <1>4 DEF SafeInv, TypeOK
<1>6. ASSUME NEW k \in 1 .. n
      PROVE  /\ TagUntilSynced(i, q[k]) \in Item
             /\ sync_timestamp[i] = 0 => TagUntilSynced(i, q[k]) \in Frame
  <2>1. q[k] \in Frame
    BY <1>3, ElementOfSeq
  <2> QED BY <2>1 DEF TagUntilSynced, Frame, Item, Tag
<1>7. r \in Seq(Item) /\ (sync_timestamp[i] = 0 => r \in Seq(Frame))
  <2>1. r \in [1 .. n -> Item] /\ (sync_timestamp[i] = 0 => r \in [1 .. n -> Frame])
    BY <1>6
  <2> HIDE DEF r
  <2> QED BY <1>3, <2>1, FunctionIsSeq
<1>8. buffer' = [buffer EXCEPT ![i] = b \o r]
  BY <1>1
<1> HIDE DEF q, r, b
<1>9. buffer' \in [Inputs -> Seq(Item)]
  <2>1. b \o r \in Seq(Item)
    BY <1>3, <1>7, ConcatProperties
  <2> QED BY <1>8, <2>1 DEF SafeInv, TypeOK
<1>10. ~d_synchronized => buffer' \in [Inputs -> Seq(Frame)]
  <2> SUFFICES ASSUME ~d_synchronized PROVE buffer' \in [Inputs -> Seq(Frame)]
      OBVIOUS
  <2>1. buffer \in [Inputs -> Seq(Frame)] /\ sync_timestamp[i] = 0
    BY DEF SafeInv, TagInv
  <2>2. b \in Seq(Frame) /\ r \in Seq(Frame)
    BY <1>7, <2>1 DEF b
  <2>3. b \o r \in Seq(Frame)
    BY <2>2, ConcatProperties
  <2> QED BY <1>8, <2>1, <2>3
<1> QED BY <1>2, <1>5, <1>9, <1>10 DEF SafeInv, TypeOK, TagInv

(* The sync message only comes once the block is synchronised. *)
LEMMA SafeHandleSync ==
    ASSUME SafeInv, NEW i \in Inputs, HandleSyncMsg(i)
    PROVE  SafeInv'
<1>1. sync # None /\ sync_timestamp' = [sync_timestamp EXCEPT ![i] = sync]
  BY DEF HandleSyncMsg
<1>2. UNCHANGED <<sourceVars, buffer, blockVars>>
  BY DEF HandleSyncMsg
<1>3. sync_timestamp' \in [Inputs -> Nat] /\ d_synchronized
  BY <1>1 DEF SafeInv, TypeOK, TagInv, Tag
<1> QED BY <1>2, <1>3 DEF SafeInv, TypeOK, TagInv, sourceVars, blockVars

(* A window of n items of every input, when the inputs have them. *)
LEMMA Window ==
    ASSUME TypeOK, NEW n \in 1 .. MaxOut, Forecast(n), NEW i \in Inputs
    PROVE  n \in 0 .. Len(buffer[i]) /\ n \in Nat /\ n >= 1
<1>1. Len(buffer[i]) \in Nat /\ Len(buffer[i]) >= n
  BY LenProperties DEF TypeOK, Forecast
<1> QED BY <1>1, BoundsAssumption

(* A first tag that is there is a timestamp. *)
LEMMA FirstTagType ==
    ASSUME TypeOK, NEW n \in 1 .. MaxOut, Forecast(n), FirstItemsTagged,
           NEW i \in Inputs
    PROVE  FirstTag(i) \in Nat /\ FirstTag(i) = buffer[i][1].tag
<1>1. buffer[i] \in Seq(Item) /\ Len(buffer[i]) \in Nat /\ 1 \in 1 .. Len(buffer[i])
  BY Window, LenProperties DEF TypeOK
<1>2. buffer[i][1] \in Item /\ Head(buffer[i]) = buffer[i][1]
  BY <1>1, ElementOfSeq
<1> QED BY <1>2 DEF FirstTag, FirstItemsTagged, Item, Tag

(* The tags added to an output are tags on item numbers. *)
LEMMA CopiedTagsType ==
    ASSUME TypeOK, NEW n \in 1 .. MaxOut, Forecast(n), NEW i \in Inputs
    PROVE  CopiedTags(i, n) \subseteq [item : Nat, tag : Nat]
<1> DEFINE before(k) == Cardinality({l \in TagsInWindow(i, n) : l <= k})
<1>a. CopiedTags(i, n) = {[item |-> before(k), tag |-> buffer[i][k].tag] :
                             k \in TagsInWindow(i, n)}
  BY DEF CopiedTags
<1> HIDE DEF before
<1> SUFFICES ASSUME NEW k \in TagsInWindow(i, n)
             PROVE  before(k) \in Nat /\ buffer[i][k].tag \in Nat
    BY <1>a
<1>1. n \in Nat /\ k \in 1 .. Len(buffer[i]) /\ buffer[i] \in Seq(Item)
  <2>1. n \in 0 .. Len(buffer[i]) /\ n \in Nat
    BY Window
  <2>2. k \in 1 .. n
    BY DEF TagsInWindow
  <2> QED BY <2>1, <2>2, LenProperties DEF TypeOK
<1>2. IsFiniteSet({l \in TagsInWindow(i, n) : l <= k})
  <2>1. IsFiniteSet(1 .. n)
    BY <1>1, FS_Interval
  <2>2. {l \in TagsInWindow(i, n) : l <= k} \subseteq 1 .. n
    BY DEF TagsInWindow
  <2> QED BY <2>1, <2>2, FS_Subset
<1>3. buffer[i][k] \in Item
  BY <1>1, ElementOfSeq
<1>4. before(k) \in Nat
  BY <1>2, FS_CardinalityType DEF before
<1>5. buffer[i][k].tag \in Nat
  BY <1>3 DEF Item, Tag, TagsInWindow
<1> QED BY <1>4, <1>5

(* Copying keeps the types of outputs, tags and buffers. *)
LEMMA SafeCopyItems ==
    ASSUME TypeOK, NEW n \in 1 .. MaxOut, Forecast(n), CopyItems(n)
    PROVE  /\ output' \in [Inputs -> Seq(Item)]
           /\ \A i \in Inputs : tagged'[i] \subseteq [item : Nat, tag : Nat]
           /\ buffer' \in [Inputs -> Seq(Item)]
<1>1. ASSUME NEW i \in Inputs
      PROVE  /\ output[i] \o SubSeq(buffer[i], 1, n) \in Seq(Item)
             /\ SubSeq(buffer[i], n + 1, Len(buffer[i])) \in Seq(Item)
  <2> DEFINE b == buffer[i]
             o == output[i]
  <2>1. b \in Seq(Item) /\ o \in Seq(Item) /\ n \in 0 .. Len(b)
    BY Window DEF TypeOK
  <2> HIDE DEF b, o
  <2>2. /\ SubSeq(b, 1, n) \in Seq(Item)
        /\ SubSeq(b, n + 1, Len(b)) \in Seq(Item)
    BY <2>1, CutSequence
  <2> DEFINE w == SubSeq(b, 1, n)
  <2> HIDE DEF w
  <2>3. o \o w \in Seq(Item)
    BY <2>1, <2>2, ConcatProperties DEF w
  <2> QED BY <2>2, <2>3 DEF b, o, w
<1>2. output' \in [Inputs -> Seq(Item)] /\ buffer' \in [Inputs -> Seq(Item)]
  BY <1>1 DEF CopyItems
<1>3. \A i \in Inputs : tagged'[i] \subseteq [item : Nat, tag : Nat]
  BY CopiedTagsType DEF CopyItems, TypeOK
<1> QED BY <1>2, <1>3

(* A synchronised call keeps the invariant. *)
LEMMA SafeForward ==
    ASSUME SafeInv, NEW n \in 1 .. MaxOut, Forward(n)
    PROVE  SafeInv'
<1>1. /\ d_synchronized /\ Forecast(n) /\ CopyItems(n)
      /\ UNCHANGED <<sourceVars, sync_timestamp, d_synchronized, sync>>
  BY DEF Forward
<1>2. /\ output' \in [Inputs -> Seq(Item)]
      /\ \A i \in Inputs : tagged'[i] \subseteq [item : Nat, tag : Nat]
      /\ buffer' \in [Inputs -> Seq(Item)]
  BY <1>1, SafeCopyItems DEF SafeInv
<1> QED BY <1>1, <1>2 DEF SafeInv, TypeOK, TagInv, sourceVars

(* The call that synchronises keeps it. *)
LEMMA SafeSynchronize ==
    ASSUME SafeInv, NEW n \in 1 .. MaxOut, Synchronize(n)
    PROVE  SafeInv'
<1>1. /\ Forecast(n) /\ FirstItemsTagged /\ CopyItems(n) /\ d_synchronized' = TRUE
      /\ \E h \in Inputs : sync' = FirstTag(h)
      /\ UNCHANGED <<sourceVars, sync_timestamp>>
  BY DEF Synchronize
<1>2. /\ output' \in [Inputs -> Seq(Item)]
      /\ \A i \in Inputs : tagged'[i] \subseteq [item : Nat, tag : Nat]
      /\ buffer' \in [Inputs -> Seq(Item)]
  BY <1>1, SafeCopyItems DEF SafeInv
<1>3. sync' \in Tag
  BY <1>1, FirstTagType DEF SafeInv, Tag
<1> QED BY <1>1, <1>2, <1>3 DEF SafeInv, TypeOK, TagInv, sourceVars

(* What is discarded lies in the window. *)
LEMMA ConsumedInWindow ==
    ASSUME TypeOK, NEW n \in 1 .. MaxOut, Forecast(n), FirstItemsTagged,
           NEW h \in Inputs, Highest(h), NEW i \in Inputs
    PROVE  /\ ItemsToConsume(i, h, n) \in 0 .. Len(buffer[i])
           /\ ItemsToConsume(i, h, n) <= FirstTag(h) - FirstTag(i)
<1>1. /\ FirstTag(h) \in Nat /\ FirstTag(i) \in Nat
      /\ FirstTag(i) <= FirstTag(h)
  BY FirstTagType DEF Highest
<1>2. n \in 0 .. Len(buffer[i]) /\ n \in Nat /\ Len(buffer[i]) \in Nat
  BY Window, LenProperties DEF TypeOK
<1> QED BY <1>1, <1>2 DEF ItemsToConsume

(* A call that discards leaves tagged items tagged. *)
LEMMA SafeDiscard ==
    ASSUME SafeInv, NEW n \in 1 .. MaxOut, Discard(n)
    PROVE  SafeInv'
<1>1. /\ ~d_synchronized /\ Forecast(n) /\ FirstItemsTagged
      /\ UNCHANGED <<sourceVars, sync_timestamp, blockVars>>
  BY DEF Discard, DiscardItems
<1>2. PICK h \in Inputs : Highest(h) /\ ConsumeOlder(h, n)
  BY DEF Discard, DiscardItems
<1>3. ASSUME NEW i \in Inputs
      PROVE  SubSeq(buffer[i], ItemsToConsume(i, h, n) + 1, Len(buffer[i]))
                 \in Seq(Frame)
  <2> DEFINE c == ItemsToConsume(i, h, n)
             b == buffer[i]
  <2>1. c \in 0 .. Len(b)
    BY <1>1, <1>2, ConsumedInWindow DEF SafeInv
  <2>2. b \in Seq(Frame)
    BY <1>1 DEF SafeInv, TagInv
  <2> HIDE DEF b, c
  <2>3. SubSeq(b, c + 1, Len(b)) \in Seq(Frame)
    BY <2>1, <2>2, CutSequence
  <2> QED BY <2>3 DEF b, c
<1>4. buffer' \in [Inputs -> Seq(Frame)]
  BY <1>2, <1>3 DEF ConsumeOlder
<1>5. buffer' \in [Inputs -> Seq(Item)]
  <2>1. \A i \in Inputs : buffer'[i] \in Seq(Item)
    BY <1>4, FrameIsItem, SeqMonotone
  <2> QED BY <1>4, <2>1
<1> QED BY <1>1, <1>4, <1>5 DEF SafeInv, TypeOK, TagInv, sourceVars, blockVars

(* Every step keeps the invariant. *)
LEMMA SafeNext == SafeInv /\ [Next]_vars => SafeInv'
<1> SUFFICES ASSUME SafeInv, [Next]_vars PROVE SafeInv'
    OBVIOUS
<1>1. CASE \E i \in Inputs : Source(i)
  BY <1>1, SafeQueueFrames, SafeReturnItems, SafeHandleSync DEF Source
<1>2. CASE GeneralWork
  BY <1>2, SafeForward, SafeSynchronize, SafeDiscard DEF GeneralWork
<1>3. CASE UNCHANGED vars
  BY <1>3 DEF SafeInv, TypeOK, TagInv, vars, sourceVars, blockVars
<1> QED BY <1>1, <1>2, <1>3 DEF Next

(* SafeInv is an invariant of the specification. *)
LEMMA SafeInvariant == Spec => []SafeInv
<1>1. Init => SafeInv
  BY SafeInit
<1>2. SafeInv /\ [Next]_vars => SafeInv'
  BY SafeNext
<1> QED BY <1>1, <1>2, PTL DEF Spec

(* Every variable keeps its type: no call of general_work() reads beyond the *)
(* items the forecast asked for (SNAPSynchronizerV3_impl.cc:80-201).         *)
THEOREM TypeCorrect == Spec => []TypeOK
<1>1. SafeInv => TypeOK
  BY DEF SafeInv
<1> QED BY <1>1, SafeInvariant, PTL

(* As long as the block reads tags[0] without asking whether it is there     *)
(* (SNAPSynchronizerV3_impl.cc:132-135), it is there.                        *)
THEOREM TagsAreThere == Spec => []TagsWhenNeeded
<1>1. SafeInv => TagsWhenNeeded
  <2> SUFFICES ASSUME SafeInv, ~d_synchronized, NEW i \in Inputs,
                      NEW k \in DOMAIN buffer[i]
               PROVE  buffer[i][k].tag # None
      BY DEF TagsWhenNeeded
  <2>1. buffer[i] \in Seq(Frame)
    BY DEF SafeInv, TagInv
  <2>2. buffer[i][k] \in Frame
    BY <2>1, ElementOfSeq, LenProperties
  <2> QED BY <2>2, NoneAssumption DEF Frame
<1> QED BY <1>1, SafeInvariant, PTL

-----------------------------------------------------------------------------
(* The second invariant: with one packet per frame, each input is a run of   *)
(* consecutive timestamps from the packet a source took last back to the     *)
(* first item not consumed.                                                  *)

IsRun(s, t) == \A k \in 1 .. Len(s) : s[k].time = t + k - 1

(* The timestamps that the queue, the buffer and the output start with. *)
QueueStart(i)  == d_last_timestamp[i] + 1 - Len(x_vector_queue[i])
BufferStart(i) == QueueStart(i) - Len(buffer[i])
OutputStart(i) == BufferStart(i) - Len(output[i])

InputInv(i) ==
    /\ (start[i] = None) <=> (d_last_timestamp[i] = None)
    /\ d_last_timestamp[i] = None =>
          x_vector_queue[i] = <<>> /\ buffer[i] = <<>> /\ output[i] = <<>>
    /\ d_last_timestamp[i] # None =>
          /\ IsRun(x_vector_queue[i], QueueStart(i))
          /\ \A k \in 1 .. Len(x_vector_queue[i]) :
                x_vector_queue[i][k].tag = x_vector_queue[i][k].time
          /\ IsRun(buffer[i], BufferStart(i))
          /\ \A k \in 1 .. Len(buffer[i]) :
                buffer[i][k].tag \in {None, buffer[i][k].time}

(* No input is discarded beyond the latest start known so far. *)
DiscardInv == ~d_synchronized => \A i \in Inputs :
    /\ output[i] = <<>>
    /\ start[i] # None =>
          /\ start[i] <= BufferStart(i)
          /\ \E j \in Inputs : start[j] # None /\ BufferStart(i) <= start[j]

SyncInv == d_synchronized => \A i \in Inputs :
    /\ start[i] # None
    /\ \A j \in Inputs : /\ BufferStart(j) = BufferStart(i)
                         /\ Len(output[j]) = Len(output[i])
    /\ IsRun(output[i], OutputStart(i))
    /\ start[i] <= OutputStart(i)
    /\ \E j \in Inputs : start[j] = OutputStart(i)

AlignInv == (\A i \in Inputs : InputInv(i)) /\ DiscardInv /\ SyncInv

(* A run followed by a run from where it ends is a run. *)
LEMMA RunConcat ==
    ASSUME NEW s \in Seq(Item), NEW u \in Seq(Item), NEW t \in Int,
           IsRun(s, t), IsRun(u, t + Len(s))
    PROVE  IsRun(s \o u, t) /\ Len(s \o u) = Len(s) + Len(u)
<1>1. Len(s) \in Nat /\ Len(u) \in Nat
  BY LenProperties
<1>2. /\ Len(s \o u) = Len(s) + Len(u)
      /\ \A k \in 1 .. Len(s) + Len(u) :
            (s \o u)[k] = IF k <= Len(s) THEN s[k] ELSE u[k - Len(s)]
  BY ConcatProperties
<1> DEFINE c == s \o u
<1> HIDE DEF c
<1>3. ASSUME NEW k \in 1 .. Len(s) + Len(u) PROVE c[k].time = t + k - 1
  <2>1. CASE k <= Len(s)
    <3>1. k \in 1 .. Len(s) /\ c[k] = s[k]
      BY <1>1, <1>2, <2>1 DEF c
    <3> QED BY <3>1 DEF IsRun
  <2>2. CASE ~(k <= Len(s))
    <3>1. c[k] = u[k - Len(s)]
      BY <1>2, <2>2 DEF c
    <3>2. k - Len(s) \in 1 .. Len(u)
      BY <1>1, <2>2
    <3>3. u[k - Len(s)].time = t + Len(s) + (k - Len(s)) - 1
      BY <3>2 DEF IsRun
    <3> QED BY <1>1, <3>1, <3>3
  <2> QED BY <2>1, <2>2
<1> QED BY <1>2, <1>3 DEF IsRun, c

(* What remains of a run without its first n items is a run. *)
LEMMA RunCut ==
    ASSUME NEW s \in Seq(Item), NEW n \in 0 .. Len(s), NEW t \in Int, IsRun(s, t)
    PROVE  /\ IsRun(SubSeq(s, 1, n), t)
           /\ IsRun(SubSeq(s, n + 1, Len(s)), t + n)
<1>1. Len(s) \in Nat
  BY LenProperties
<1> DEFINE u == SubSeq(s, 1, n)
           v == SubSeq(s, n + 1, Len(s))
<1>2. /\ Len(u) = n /\ \A k \in 1 .. n : u[k] = s[k]
      /\ Len(v) = Len(s) - n /\ \A k \in 1 .. Len(s) - n : v[k] = s[n + k]
  BY CutSequence
<1> HIDE DEF u, v
<1>3. IsRun(u, t)
  BY <1>1, <1>2 DEF IsRun
<1>4. ASSUME NEW k \in 1 .. Len(s) - n PROVE v[k].time = t + n + k - 1
  <2>1. n + k \in 1 .. Len(s)
    BY <1>1
  <2>2. s[n + k].time = t + (n + k) - 1
    BY <2>1 DEF IsRun
  <2> QED BY <1>1, <1>2, <2>2
<1>5. IsRun(v, t + n)
  BY <1>2, <1>4 DEF IsRun
<1> QED BY <1>3, <1>5 DEF u, v

(* The integers of an input. *)
LEMMA InputNumbers ==
    ASSUME TypeOK, NEW i \in Inputs
    PROVE  /\ x_vector_queue[i] \in Seq(Frame) /\ x_vector_queue[i] \in Seq(Item)
           /\ buffer[i] \in Seq(Item) /\ output[i] \in Seq(Item)
           /\ Len(x_vector_queue[i]) \in Nat /\ Len(buffer[i]) \in Nat
           /\ Len(output[i]) \in Nat
           /\ start[i] # None => start[i] \in Nat
           /\ d_last_timestamp[i] # None =>
                 /\ d_last_timestamp[i] \in Nat
                 /\ QueueStart(i) \in Int /\ BufferStart(i) \in Int
                 /\ OutputStart(i) \in Int
<1>1. /\ x_vector_queue[i] \in Seq(Frame)
      /\ buffer[i] \in Seq(Item) /\ output[i] \in Seq(Item)
      /\ start[i] \in Times \cup {None} /\ d_last_timestamp[i] \in Times \cup {None}
  BY DEF TypeOK
<1>2. x_vector_queue[i] \in Seq(Item)
  BY <1>1, FrameIsItem, SeqMonotone
<1>3. /\ Len(x_vector_queue[i]) \in Nat /\ Len(buffer[i]) \in Nat
      /\ Len(output[i]) \in Nat
  BY <1>1, LenProperties
<1>4. /\ start[i] # None => start[i] \in Nat
      /\ d_last_timestamp[i] # None => d_last_timestamp[i] \in Nat
  BY <1>1, BoundsAssumption DEF Times
<1>5. d_last_timestamp[i] # None =>
          QueueStart(i) \in Int /\ BufferStart(i) \in Int /\ OutputStart(i) \in Int
  <2>1. d_last_timestamp[i] # None => QueueStart(i) \in Int
    BY <1>3, <1>4 DEF QueueStart
  <2>2. d_last_timestamp[i] # None => BufferStart(i) \in Int
    BY <1>3, <2>1 DEF BufferStart
  <2>3. d_last_timestamp[i] # None => OutputStart(i) \in Int
    BY <1>3, <2>2 DEF OutputStart
  <2> QED BY <2>1, <2>2, <2>3
<1> QED BY <1>1, <1>2, <1>3, <1>4, <1>5

(* The alignment invariant holds initially. *)
LEMMA AlignInit == Init => AlignInv
<1> SUFFICES ASSUME Init PROVE AlignInv
    OBVIOUS
<1>1. ~d_synchronized
  BY Zenon DEF Init
<1>2. \A i \in Inputs : /\ start[i] = None /\ d_last_timestamp[i] = None
                        /\ x_vector_queue[i] = <<>> /\ buffer[i] = <<>>
                        /\ output[i] = <<>>
  BY DEF Init
<1> QED BY <1>1, <1>2 DEF AlignInv, InputInv, DiscardInv, SyncInv

(* An input that a step leaves alone. *)
LEMMA InputUnchanged ==
    ASSUME NEW j \in Inputs, InputInv(j),
           d_last_timestamp'[j] = d_last_timestamp[j],
           x_vector_queue'[j] = x_vector_queue[j],
           buffer'[j] = buffer[j], output'[j] = output[j], start'[j] = start[j]
    PROVE  /\ InputInv(j)' /\ QueueStart(j)' = QueueStart(j)
           /\ BufferStart(j)' = BufferStart(j) /\ OutputStart(j)' = OutputStart(j)
BY DEF InputInv, QueueStart, BufferStart, OutputStart

(* What a packet adds to the queue is a run, each frame with its own tag.    *)
LEMMA OnePacketRun ==
    ASSUME NEW last \in Times \cup {None}, NEW p \in Times,
           last # None => Missed(last, p) >= 0,
           Missed(last, p) <= MaxMissedSets
    PROVE  LET f == OnePacketFrames(last, p)
           IN  /\ f \in Seq(Frame)
               /\ Len(f) = IF last = None THEN 1 ELSE p - last
               /\ IsRun(f, IF last = None THEN p ELSE last + 1)
               /\ \A k \in 1 .. Len(f) : f[k].tag = f[k].time
<1> DEFINE x == [time |-> p, tag |-> p]
           z == FilledFrames(last, p)
           t == IF last = None THEN p ELSE last + 1
<1>1. p \in Nat /\ (last # None => last \in Nat) /\ x \in Frame
  BY BoundsAssumption, NoneAssumption DEF Times, Frame
<1>2. /\ z \in Seq(Frame) /\ Len(z) \in Nat /\ Len(z) = p - t
      /\ \A k \in 1 .. Len(z) : z[k].time = t + k - 1 /\ z[k].tag = t + k - 1
  <2>1. CASE last = None
    <3>1. z = <<>>
      BY <2>1, NothingFilledAtStart
    <3> HIDE DEF z
    <3>2. Len(z) = 0
      BY <3>1, EmptySeq
    <3> QED BY <1>1, <2>1, <3>1, <3>2
  <2>2. CASE last # None
    <3>1. last \in Times /\ Missed(last, p) >= 0 /\ Missed(last, p) = p - last - 1
      BY <2>2 DEF Missed
    <3>2. /\ z \in Seq(Frame) /\ Len(z) = p - last - 1
          /\ \A k \in 1 .. p - last - 1 : z[k].time = last + k /\ z[k].tag = last + k
      BY <3>1, FilledFramesType
    <3> HIDE DEF z
    <3>3. \A k \in 1 .. p - last - 1 : last + k = last + 1 + k - 1
      BY <1>1, <2>2
    <3> QED BY <1>1, <2>2, <3>1, <3>2, <3>3
  <2> QED BY <2>1, <2>2
<1>3. t \in Nat
  BY <1>1
<1> DEFINE f == Append(z, x)
<1>4. f = OnePacketFrames(last, p)
  BY DEF OnePacketFrames
<1>5. x.time = p /\ x.tag = p
  OBVIOUS
<1> HIDE DEF x, z, t
<1>6. /\ f \in Seq(Frame) /\ Len(f) = Len(z) + 1
      /\ \A k \in 1 .. Len(z) : f[k] = z[k]
      /\ f[Len(z) + 1] = x
  BY <1>1, <1>2, AppendProperties
<1> HIDE DEF f
<1>7. ASSUME NEW k \in 1 .. Len(f)
      PROVE  f[k].time = t + k - 1 /\ f[k].tag = t + k - 1
  <2>1. CASE k \in 1 .. Len(z)
    BY <1>2, <1>6, <2>1
  <2>2. CASE k = Len(z) + 1
    <3>1. f[k] = x
      BY <1>6, <2>2
    <3>2. t + k - 1 = p
      BY <1>1, <1>2, <1>3, <2>2
    <3> QED BY <1>5, <3>1, <3>2
  <2> QED BY <1>2, <1>6, <2>1, <2>2
<1>8. Len(f) = IF last = None THEN 1 ELSE p - last
  BY <1>1, <1>2, <1>6 DEF t
<1>9. IsRun(f, t) /\ \A k \in 1 .. Len(f) : f[k].tag = f[k].time
  BY <1>7 DEF IsRun
<1> QED BY <1>4, <1>6, <1>8, <1>9 DEF t

(* With gaps filled in, the frames of a packet continue its source's run. *)
LEMMA AlignQueueFrames ==
    ASSUME OnePacket, SafeInv, AlignInv, ~overran',
           NEW i \in Inputs, QueueFrames(i)
    PROVE  AlignInv'
<1> DEFINE last == d_last_timestamp[i]
           q == x_vector_queue[i]
<1>1. PICK p \in Times :
        /\ last # None => Missed(last, p) \in 0 .. MaxGap
        /\ x_vector_queue' =
               [x_vector_queue EXCEPT ![i] = q \o OnePacketFrames(last, p)]
        /\ d_last_timestamp' = [d_last_timestamp EXCEPT ![i] = p]
        /\ start' = IF start[i] = None THEN [start EXCEPT ![i] = p] ELSE start
        /\ ~(Missed(last, p) > MaxMissedSets)
  BY DEF QueueFrames
<1>2. UNCHANGED <<buffer, d_synchronized, output>>
  BY DEF QueueFrames, blockVars
<1>3. p \in Nat /\ p # None /\ last \in Times \cup {None}
      /\ (last # None => last \in Nat)
  BY BoundsAssumption, NoneAssumption DEF Times, SafeInv, TypeOK
<1>4. /\ last # None => Missed(last, p) >= 0
      /\ Missed(last, p) <= MaxMissedSets
  BY <1>1, <1>3, BoundsAssumption DEF Missed
<1> DEFINE f == OnePacketFrames(last, p)
<1>5. /\ f \in Seq(Frame) /\ f \in Seq(Item)
      /\ Len(f) = IF last = None THEN 1 ELSE p - last
      /\ IsRun(f, IF last = None THEN p ELSE last + 1)
      /\ \A k \in 1 .. Len(f) : f[k].tag = f[k].time
  BY <1>3, <1>4, OnePacketRun, FrameIsItem, SeqMonotone
<1>6. /\ q \in Seq(Frame) /\ q \in Seq(Item) /\ Len(q) \in Nat
      /\ buffer[i] \in Seq(Item) /\ Len(buffer[i]) \in Nat /\ Len(output[i]) \in Nat
  BY InputNumbers DEF SafeInv
<1>7. /\ d_last_timestamp'[i] = p /\ x_vector_queue'[i] = q \o f
      /\ start'[i] = IF start[i] = None THEN p ELSE start[i]
      /\ buffer'[i] = buffer[i] /\ output'[i] = output[i]
      /\ \A j \in Inputs \ {i} : /\ d_last_timestamp'[j] = d_last_timestamp[j]
                                 /\ x_vector_queue'[j] = x_vector_queue[j]
                                 /\ start'[j] = start[j]
                                 /\ buffer'[j] = buffer[j]
                                 /\ output'[j] = output[j]
  BY <1>1, <1>2 DEF SafeInv, TypeOK
<1>8. InputInv(i)
  BY DEF AlignInv
<1> HIDE DEF f, q, last
(* The queue grows by the timestamps from the last one to p. *)
<1>9. /\ IsRun(q \o f, IF last = None THEN p ELSE QueueStart(i))
      /\ Len(q \o f) = Len(q) + Len(f)
      /\ \A k \in 1 .. Len(q \o f) : (q \o f)[k].tag = (q \o f)[k].time
  <2> DEFINE t == IF last = None THEN p ELSE QueueStart(i)
  <2>1. t \in Int /\ IsRun(q, t) /\ IsRun(f, t + Len(q))
    <3>1. CASE last = None
      <4>1. q = <<>>
        BY <1>8, <3>1 DEF InputInv, last, q
      <4>2. Len(q) = 0
        BY <4>1, EmptySeq
      <4> QED BY <1>3, <1>5, <3>1, <4>2 DEF IsRun
    <3>2. CASE last # None
      <4>1. IsRun(q, QueueStart(i)) /\ QueueStart(i) = last + 1 - Len(q)
        BY <1>8, <3>2 DEF InputInv, QueueStart, last, q
      <4>2. QueueStart(i) \in Int /\ QueueStart(i) + Len(q) = last + 1
        BY <1>3, <1>6, <3>2, <4>1
      <4> QED BY <1>5, <3>2, <4>1, <4>2
    <3> QED BY <3>1, <3>2
  <2> HIDE DEF t
  <2>2. IsRun(q \o f, t) /\ Len(q \o f) = Len(q) + Len(f)
    BY <1>5, <1>6, <2>1, RunConcat
  <2>3. ASSUME NEW k \in 1 .. Len(q) + Len(f)
        PROVE  (q \o f)[k].tag = (q \o f)[k].time
    <3>1. (q \o f)[k] = IF k <= Len(q) THEN q[k] ELSE f[k - Len(q)]
      BY <1>5, <1>6, <2>3, ConcatProperties
    <3>2. \A l \in 1 .. Len(q) : q[l].tag = q[l].time
      <4>1. CASE last = None
        <5>1. q = <<>>
          BY <1>8, <4>1 DEF InputInv, last, q
        <5> QED BY <5>1
      <4>2. CASE last # None
        BY <1>8, <4>2 DEF InputInv, last, q
      <4> QED BY <4>1, <4>2
    <3>3. Len(f) \in Nat
      BY <1>5, LenProperties
    <3>4. CASE k <= Len(q)
      <4>1. k \in 1 .. Len(q)
        BY <1>6, <3>3, <3>4
      <4> QED BY <3>1, <3>2, <3>4, <4>1
    <3>5. CASE ~(k <= Len(q))
      <4>1. k - Len(q) \in 1 .. Len(f)
        BY <1>6, <3>3, <3>5
      <4> QED BY <1>5, <3>1, <3>5, <4>1
    <3> QED BY <3>4, <3>5
  <2> QED BY <2>2, <2>3 DEF t
<1>10. QueueStart(i)' = IF last = None THEN p ELSE QueueStart(i)
  <2> DEFINE g == q \o f
  <2>1. QueueStart(i)' = p + 1 - Len(g)
    BY <1>7 DEF QueueStart
  <2>2. QueueStart(i) = last + 1 - Len(q)
    BY DEF QueueStart, last, q
  <2>3. CASE last = None
    <3>1. q = <<>>
      BY <1>8, <2>3 DEF InputInv, last, q
    <3>2. Len(g) = 1
      BY <1>5, <1>9, <2>3, <3>1
    <3> HIDE DEF g
    <3> QED BY <1>3, <2>1, <2>3, <3>2
  <2>4. CASE last # None
    <3>1. Len(g) = Len(q) + (p - last)
      BY <1>5, <1>9, <2>4
    <3> HIDE DEF g
    <3> QED BY <1>3, <1>6, <2>1, <2>2, <2>4, <3>1
  <2> QED BY <2>3, <2>4
<1>11. CASE last = None
  <2>1. /\ start[i] = None /\ buffer[i] = <<>> /\ output[i] = <<>>
        /\ Len(buffer[i]) = 0 /\ Len(output[i]) = 0
    BY <1>8, <1>11 DEF InputInv, last
  <2>2. BufferStart(i)' = p /\ start'[i] = p
    BY <1>3, <1>7, <1>10, <1>11, <2>1 DEF BufferStart
  <2>3. InputInv(i)'
    <3>1. IsRun(buffer[i], p)
      BY <2>1 DEF IsRun
    <3> QED BY <1>3, <1>7, <1>9, <1>10, <1>11, <2>1, <2>2, <3>1 DEF InputInv
  <2>4. ~d_synchronized
    BY <2>1 DEF AlignInv, SyncInv
  <2>5. \A j \in Inputs \ {i} : InputInv(j)' /\ BufferStart(j)' = BufferStart(j)
    BY <1>7, InputUnchanged DEF AlignInv
  <2>6. ASSUME NEW j \in Inputs \ {i}, start[j] # None
        PROVE  /\ start'[j] <= BufferStart(j)'
               /\ \E l \in Inputs : start'[l] # None /\ BufferStart(j)' <= start'[l]
    <3>1. start[j] <= BufferStart(j)
      BY <2>4, <2>6 DEF AlignInv, DiscardInv
    <3>2. PICK l \in Inputs : start[l] # None /\ BufferStart(j) <= start[l]
      BY <2>4, <2>6 DEF AlignInv, DiscardInv
    <3>3. l # i
      BY <2>1, <3>2
    <3> QED BY <1>7, <2>5, <2>6, <3>1, <3>2, <3>3
  <2>7. DiscardInv'
    <3>1. p <= p
      BY <1>3
    <3>2. \A j \in Inputs : output'[j] = <<>>
      BY <1>2, <2>4 DEF AlignInv, DiscardInv
    <3> QED BY <1>3, <1>7, <2>2, <2>6, <3>1, <3>2 DEF DiscardInv
  <2>8. SyncInv'
    BY <1>2, <2>4 DEF SyncInv
  <2> QED BY <2>3, <2>5, <2>7, <2>8 DEF AlignInv
<1>12. CASE last # None
  <2>1. start' = start /\ start[i] # None
    BY <1>1, <1>8, <1>12 DEF InputInv, last
  <2>2. BufferStart(i)' = BufferStart(i) /\ OutputStart(i)' = OutputStart(i)
    BY <1>7, <1>10, <1>12 DEF BufferStart, OutputStart
  <2>3. InputInv(i)'
    BY <1>3, <1>7, <1>8, <1>9, <1>10, <1>12, <2>1, <2>2 DEF InputInv, last
  <2>4. \A j \in Inputs \ {i} : /\ InputInv(j)' /\ BufferStart(j)' = BufferStart(j)
                                /\ OutputStart(j)' = OutputStart(j)
    BY <1>7, InputUnchanged DEF AlignInv
  <2>5. \A j \in Inputs : /\ InputInv(j)' /\ BufferStart(j)' = BufferStart(j)
                          /\ OutputStart(j)' = OutputStart(j)
    BY <2>2, <2>3, <2>4
  <2>6. DiscardInv'
    BY <1>2, <2>1, <2>5 DEF AlignInv, DiscardInv
  <2>7. SyncInv'
    BY <1>2, <2>1, <2>5 DEF AlignInv, SyncInv
  <2> QED BY <2>5, <2>6, <2>7 DEF AlignInv
<1> QED BY <1>11, <1>12

(* Moving items from queue to buffer moves the border between two runs. *)
LEMMA AlignReturnItems ==
    ASSUME SafeInv, AlignInv, NEW i \in Inputs, ReturnItems(i)
    PROVE  AlignInv'
<1> DEFINE q == x_vector_queue[i]
           b == buffer[i]
<1>1. PICK n \in 1 .. MaxOut :
        /\ n <= Len(q)
        /\ buffer' = [buffer EXCEPT ![i] =
               b \o [k \in 1 .. n |-> TagUntilSynced(i, q[k])]]
        /\ x_vector_queue' = [x_vector_queue EXCEPT ![i] = SubSeq(q, n + 1, Len(q))]
  BY DEF ReturnItems
<1> DEFINE r == [k \in 1 .. n |-> TagUntilSynced(i, q[k])]
           q2 == SubSeq(q, n + 1, Len(q))
<1>2. UNCHANGED <<d_last_timestamp, start, d_synchronized, output>>
  BY DEF ReturnItems, blockVars
<1>3. /\ q \in Seq(Frame) /\ q \in Seq(Item) /\ Len(q) \in Nat
      /\ b \in Seq(Item) /\ Len(b) \in Nat /\ Len(output[i]) \in Nat
      /\ n \in 0 .. Len(q) /\ n \in Nat /\ n >= 1
  BY <1>1, InputNumbers, BoundsAssumption DEF SafeInv
<1>4. /\ x_vector_queue'[i] = q2 /\ buffer'[i] = b \o r
      /\ \A j \in Inputs \ {i} : /\ x_vector_queue'[j] = x_vector_queue[j]
                                 /\ buffer'[j] = buffer[j]
  BY <1>1 DEF SafeInv, TypeOK
<1>5. /\ d_last_timestamp[i] # None /\ start[i] # None
      /\ d_last_timestamp[i] \in Nat /\ QueueStart(i) \in Int
      /\ BufferStart(i) \in Int
      /\ IsRun(q, QueueStart(i)) /\ IsRun(b, BufferStart(i))
      /\ \A k \in 1 .. Len(q) : q[k].tag = q[k].time
      /\ \A k \in 1 .. Len(b) : b[k].tag \in {None, b[k].time}
  <2>1. InputInv(i)
    BY DEF AlignInv
  <2>2. d_last_timestamp[i] # None
    <3>1. q # <<>>
      <4> HIDE DEF q
      <4>1. ASSUME q = <<>> PROVE FALSE
        <5>1. Len(q) = 0
          BY <4>1, EmptySeq
        <5> QED BY <1>3, <5>1
      <4> QED BY <4>1
    <3> QED BY <2>1, <3>1 DEF InputInv
  <2>3. /\ IsRun(q, QueueStart(i)) /\ IsRun(b, BufferStart(i)) /\ start[i] # None
        /\ \A k \in 1 .. Len(q) : q[k].tag = q[k].time
        /\ \A k \in 1 .. Len(b) : b[k].tag \in {None, b[k].time}
    BY <2>1, <2>2 DEF InputInv
  <2>4. /\ d_last_timestamp[i] \in Nat /\ QueueStart(i) \in Int
        /\ BufferStart(i) \in Int
    BY <2>2, InputNumbers DEF SafeInv
  <2> QED BY <2>2, <2>3, <2>4
<1>6. /\ r \in Seq(Item) /\ Len(r) = n
      /\ \A k \in 1 .. n : r[k].time = q[k].time /\ r[k].tag \in {None, q[k].tag}
  <2>1. ASSUME NEW k \in 1 .. n
        PROVE  /\ TagUntilSynced(i, q[k]) \in Item
               /\ TagUntilSynced(i, q[k]).time = q[k].time
               /\ TagUntilSynced(i, q[k]).tag \in {None, q[k].tag}
    <3>1. q[k] \in Frame
      BY <1>3, ElementOfSeq
    <3> QED BY <3>1 DEF TagUntilSynced, Frame, Item, Tag
  <2>2. r \in [1 .. n -> Item]
    BY <2>1
  <2>3. \A k \in 1 .. n : r[k] = TagUntilSynced(i, q[k])
    OBVIOUS
  <2> HIDE DEF r
  <2>4. r \in Seq(Item) /\ Len(r) = n
    BY <1>3, <2>2, FunctionIsSeq
  <2> QED BY <2>1, <2>3, <2>4
<1>7. /\ q2 \in Seq(Frame) /\ Len(q2) = Len(q) - n
      /\ IsRun(q2, QueueStart(i) + n)
      /\ \A k \in 1 .. Len(q2) : q2[k].tag = q2[k].time
  <2>1. IsRun(q2, QueueStart(i) + n)
    <3> HIDE DEF q
    <3> QED BY <1>3, <1>5, RunCut
  <2>2. /\ q2 \in Seq(Frame) /\ Len(q2) = Len(q) - n
        /\ \A k \in 1 .. Len(q) - n : q2[k] = q[n + k]
    <3> HIDE DEF q
    <3> QED BY <1>3, CutSequence
  <2>3. \A k \in 1 .. Len(q) - n : n + k \in 1 .. Len(q)
    BY <1>3
  <2> HIDE DEF q2, q
  <2> QED BY <1>5, <2>1, <2>2, <2>3
<1> HIDE DEF q, b, r, q2
<1>8. /\ QueueStart(i)' = QueueStart(i) + n
      /\ Len(b \o r) = Len(b) + n
      /\ IsRun(b \o r, BufferStart(i))
      /\ \A k \in 1 .. Len(b \o r) : (b \o r)[k].tag \in {None, (b \o r)[k].time}
  <2>1. QueueStart(i)' = d_last_timestamp[i] + 1 - Len(q2)
    BY <1>2, <1>4 DEF QueueStart
  <2>2. QueueStart(i) = d_last_timestamp[i] + 1 - Len(q)
    BY DEF QueueStart, q
  <2>3. QueueStart(i)' = QueueStart(i) + n
    <3> DEFINE a == d_last_timestamp[i]
               l == Len(q)
    <3>1. /\ a \in Int /\ l \in Int /\ n \in Int
          /\ QueueStart(i) = a + 1 - l /\ QueueStart(i)' = a + 1 - (l - n)
      BY <1>3, <1>5, <1>7, <2>1, <2>2
    <3> HIDE DEF a, l
    <3> QED BY <3>1
  <2>4. BufferStart(i) + Len(b) = QueueStart(i)
    <3>1. BufferStart(i) = QueueStart(i) - Len(b)
      BY DEF BufferStart, b
    <3> QED BY <1>3, <1>5, <3>1
  <2>5. IsRun(r, BufferStart(i) + Len(b))
    <3>1. \A k \in 1 .. n : k \in 1 .. Len(q)
      BY <1>3
    <3>2. IsRun(r, QueueStart(i))
      BY <1>5, <1>6, <3>1 DEF IsRun
    <3> QED BY <2>4, <3>2
  <2>6. IsRun(b \o r, BufferStart(i)) /\ Len(b \o r) = Len(b) + n
    BY <1>3, <1>5, <1>6, <2>5, RunConcat
  <2>7. ASSUME NEW k \in 1 .. Len(b) + n
        PROVE  (b \o r)[k].tag \in {None, (b \o r)[k].time}
    <3>1. (b \o r)[k] = IF k <= Len(b) THEN b[k] ELSE r[k - Len(b)]
      BY <1>3, <1>6, <2>7, ConcatProperties
    <3>2. CASE k <= Len(b)
      <4>1. k \in 1 .. Len(b)
        BY <1>3, <3>2
      <4> QED BY <1>5, <3>1, <3>2, <4>1
    <3>3. CASE ~(k <= Len(b))
      <4>1. k - Len(b) \in 1 .. n /\ k - Len(b) \in 1 .. Len(q)
        BY <1>3, <3>3
      <4>2. r[k - Len(b)].tag \in {None, r[k - Len(b)].time}
        BY <1>5, <1>6, <4>1
      <4> QED BY <3>1, <3>3, <4>2
    <3> QED BY <3>2, <3>3
  <2> QED BY <2>3, <2>6, <2>7
<1>9. BufferStart(i)' = BufferStart(i) /\ OutputStart(i)' = OutputStart(i)
  <2>1. BufferStart(i)' = QueueStart(i)' - Len(b \o r)
    BY <1>4 DEF BufferStart
  <2>2. BufferStart(i) = QueueStart(i) - Len(b)
    BY DEF BufferStart, b
  <2>3. BufferStart(i)' = BufferStart(i)
    BY <1>3, <1>5, <1>8, <2>1, <2>2
  <2> QED BY <1>2, <2>3 DEF OutputStart
<1>10. InputInv(i)'
  BY <1>2, <1>4, <1>5, <1>7, <1>8, <1>9 DEF InputInv
<1>11. \A j \in Inputs \ {i} : /\ InputInv(j)' /\ BufferStart(j)' = BufferStart(j)
                               /\ OutputStart(j)' = OutputStart(j)
  BY <1>2, <1>4, InputUnchanged DEF AlignInv
<1>12. \A j \in Inputs : /\ InputInv(j)' /\ BufferStart(j)' = BufferStart(j)
                         /\ OutputStart(j)' = OutputStart(j)
  BY <1>9, <1>10, <1>11
<1>13. DiscardInv' /\ SyncInv'
  BY <1>2, <1>12 DEF AlignInv, DiscardInv, SyncInv
<1> QED BY <1>12, <1>13 DEF AlignInv

(* A window of n items of every input that has started. *)
LEMMA CutInput ==
    ASSUME TypeOK, NEW i \in Inputs, InputInv(i), NEW n \in 0 .. Len(buffer[i]),
           d_last_timestamp[i] # None,
           d_last_timestamp'[i] = d_last_timestamp[i],
           x_vector_queue'[i] = x_vector_queue[i],
           start'[i] = start[i],
           buffer'[i] = SubSeq(buffer[i], n + 1, Len(buffer[i]))
    PROVE  InputInv(i)' /\ BufferStart(i)' = BufferStart(i) + n
<1> DEFINE b == buffer[i]
           b2 == SubSeq(b, n + 1, Len(b))
<1>1. /\ b \in Seq(Item) /\ Len(b) \in Nat /\ n \in 0 .. Len(b) /\ n \in Nat
      /\ QueueStart(i) \in Int /\ BufferStart(i) \in Int
  BY InputNumbers
<1>2. /\ IsRun(b, BufferStart(i)) /\ start[i] # None
      /\ \A k \in 1 .. Len(b) : b[k].tag \in {None, b[k].time}
  BY DEF InputInv
<1>3. BufferStart(i) = QueueStart(i) - Len(b) /\ QueueStart(i)' = QueueStart(i)
  BY DEF BufferStart, QueueStart
<1>4. BufferStart(i)' = QueueStart(i) - Len(b2)
  BY <1>3 DEF BufferStart
<1>5. buffer'[i] = b2
  OBVIOUS
<1> HIDE DEF b
<1>6. /\ Len(b2) = Len(b) - n
      /\ \A k \in 1 .. Len(b) - n : b2[k] = b[n + k]
      /\ IsRun(b2, BufferStart(i) + n)
  BY <1>1, <1>2, CutSequence, RunCut
<1> HIDE DEF b2
<1>7. BufferStart(i)' = BufferStart(i) + n
  BY <1>1, <1>3, <1>4, <1>6
<1>8. \A k \in 1 .. Len(b2) : b2[k].tag \in {None, b2[k].time}
  <2>1. \A k \in 1 .. Len(b) - n : n + k \in 1 .. Len(b)
    BY <1>1
  <2> QED BY <1>2, <1>6, <2>1
<1>9. InputInv(i)'
  BY <1>2, <1>3, <1>5, <1>6, <1>7, <1>8 DEF InputInv
<1> QED BY <1>7, <1>9

(* The first tags are the timestamps the buffers start with. *)
LEMMA FirstTagIsTime ==
    ASSUME TypeOK, AlignInv, NEW n \in 1 .. MaxOut, Forecast(n), FirstItemsTagged,
           NEW i \in Inputs
    PROVE  /\ d_last_timestamp[i] # None /\ start[i] # None
           /\ BufferStart(i) \in Int
           /\ FirstTag(i) = BufferStart(i)
<1>1. /\ buffer[i] \in Seq(Item) /\ n \in 0 .. Len(buffer[i]) /\ n >= 1
      /\ Len(buffer[i]) \in Nat
  BY Window, InputNumbers
<1>2. InputInv(i)
  BY DEF AlignInv
<1>3. d_last_timestamp[i] # None
  <2>1. ASSUME buffer[i] = <<>> PROVE FALSE
    <3>1. Len(buffer[i]) = 0
      BY <2>1, EmptySeq
    <3> QED BY <1>1, <3>1
  <2> QED BY <1>2, <2>1 DEF InputInv
<1>4. BufferStart(i) \in Int
  BY <1>3, InputNumbers
<1>5. 1 \in 1 .. Len(buffer[i])
  BY <1>1
<1>6. buffer[i][1].time = BufferStart(i) + 1 - 1
  BY <1>2, <1>3, <1>5 DEF InputInv, IsRun
<1>7. buffer[i][1].time = BufferStart(i)
  BY <1>4, <1>6
<1>8. FirstTag(i) \in Nat /\ FirstTag(i) = buffer[i][1].tag
  BY FirstTagType
<1>9. buffer[i][1].tag \in {None, buffer[i][1].time}
  BY <1>2, <1>3, <1>5 DEF InputInv
<1> QED BY <1>2, <1>3, <1>4, <1>7, <1>8, <1>9, NoneAssumption DEF InputInv

(* Copying n items of every input moves the buffers on and the outputs with  *)
(* them.                                                                     *)
LEMMA CopyInput ==
    ASSUME TypeOK, NEW i \in Inputs, InputInv(i),
           NEW n \in 1 .. MaxOut, Forecast(n), CopyItems(n),
           UNCHANGED <<d_last_timestamp, x_vector_queue, start>>,
           d_last_timestamp[i] # None, IsRun(output[i], OutputStart(i))
    PROVE  /\ InputInv(i)'
           /\ BufferStart(i)' = BufferStart(i) + n
           /\ OutputStart(i)' = OutputStart(i)
           /\ Len(output'[i]) = Len(output[i]) + n
           /\ IsRun(output'[i], OutputStart(i))
<1> DEFINE b == buffer[i]
           o == output[i]
           w == SubSeq(b, 1, n)
<1>1. /\ b \in Seq(Item) /\ Len(b) \in Nat /\ o \in Seq(Item) /\ Len(o) \in Nat
      /\ n \in 0 .. Len(b) /\ n \in Nat
      /\ BufferStart(i) \in Int /\ OutputStart(i) \in Int
  BY Window, InputNumbers
<1>2. /\ buffer'[i] = SubSeq(b, n + 1, Len(b)) /\ output'[i] = o \o w
  BY DEF CopyItems
<1>3. InputInv(i)' /\ BufferStart(i)' = BufferStart(i) + n
  BY <1>1, <1>2, CutInput
<1>4. OutputStart(i) = BufferStart(i) - Len(o)
  BY DEF OutputStart
<1>5. OutputStart(i)' = BufferStart(i)' - Len(o \o w)
  BY <1>2 DEF OutputStart
<1>6. IsRun(b, BufferStart(i)) /\ IsRun(o, OutputStart(i))
  BY DEF InputInv
<1> HIDE DEF b, o
<1>7. w \in Seq(Item) /\ Len(w) = n /\ IsRun(w, BufferStart(i))
  BY <1>1, <1>6, CutSequence, RunCut
<1> HIDE DEF w
<1>8. OutputStart(i) + Len(o) = BufferStart(i)
  BY <1>1, <1>4
<1>9. IsRun(o \o w, OutputStart(i)) /\ Len(o \o w) = Len(o) + n
  BY <1>1, <1>6, <1>7, <1>8, RunConcat
<1>10. OutputStart(i)' = OutputStart(i)
  <2> DEFINE s == BufferStart(i)
             l == Len(o)
  <2>1. /\ s \in Int /\ l \in Int /\ n \in Int
        /\ OutputStart(i) = s - l /\ OutputStart(i)' = (s + n) - (l + n)
    BY <1>1, <1>3, <1>4, <1>5, <1>9
  <2> HIDE DEF s, l
  <2> QED BY <2>1
<1> QED BY <1>2, <1>3, <1>9, <1>10 DEF o

(* A synchronised call moves the same timestamps on every input. *)
LEMMA AlignForward ==
    ASSUME SafeInv, AlignInv, NEW n \in 1 .. MaxOut, Forward(n)
    PROVE  AlignInv'
<1>1. /\ d_synchronized /\ d_synchronized' /\ Forecast(n) /\ CopyItems(n)
      /\ UNCHANGED <<d_last_timestamp, x_vector_queue, start>>
  BY DEF Forward, sourceVars
<1>2. ASSUME NEW i \in Inputs
      PROVE  /\ InputInv(i)'
             /\ BufferStart(i)' = BufferStart(i) + n
             /\ OutputStart(i)' = OutputStart(i)
             /\ Len(output'[i]) = Len(output[i]) + n
             /\ IsRun(output'[i], OutputStart(i))
  <2>1. /\ InputInv(i) /\ d_last_timestamp[i] # None
        /\ IsRun(output[i], OutputStart(i))
    BY <1>1 DEF AlignInv, SyncInv, InputInv
  <2> QED BY <1>1, <2>1, CopyInput DEF SafeInv
<1>3. SyncInv'
  BY <1>1, <1>2 DEF AlignInv, SyncInv
<1>4. DiscardInv'
  BY <1>1 DEF DiscardInv
<1> QED BY <1>2, <1>3, <1>4 DEF AlignInv

(* The step that matters: all first tags agree, so all buffers start with    *)
(* the same timestamp; no start is later, and one of the starts is not       *)
(* earlier.                                                                  *)
LEMMA AlignSynchronize ==
    ASSUME SafeInv, AlignInv, NEW n \in 1 .. MaxOut, Synchronize(n)
    PROVE  AlignInv'
<1>1. /\ ~d_synchronized /\ d_synchronized' /\ Forecast(n) /\ CopyItems(n)
      /\ FirstItemsTagged /\ TestSync
      /\ UNCHANGED <<d_last_timestamp, x_vector_queue, start>>
  BY DEF Synchronize, sourceVars
<1>2. ASSUME NEW i \in Inputs
      PROVE  /\ d_last_timestamp[i] # None /\ start[i] # None /\ InputInv(i)
             /\ BufferStart(i) \in Int /\ start[i] \in Int
             /\ output[i] = <<>> /\ Len(output[i]) = 0
             /\ OutputStart(i) = BufferStart(i)
             /\ IsRun(output[i], OutputStart(i))
             /\ \A j \in Inputs : BufferStart(j) = BufferStart(i)
             /\ start[i] <= BufferStart(i)
             /\ \E j \in Inputs : start[j] # None /\ BufferStart(i) <= start[j]
  <2>1. /\ d_last_timestamp[i] # None /\ start[i] # None
        /\ BufferStart(i) \in Int
        /\ \A j \in Inputs : BufferStart(j) = BufferStart(i)
    BY <1>1, FirstTagIsTime DEF SafeInv, TestSync
  <2>2. output[i] = <<>> /\ start[i] \in Int
    BY <1>1, <2>1, InputNumbers DEF AlignInv, DiscardInv, SafeInv
  <2>3. Len(output[i]) = 0
    BY <2>2, EmptySeq
  <2>4. OutputStart(i) = BufferStart(i)
    BY <2>1, <2>3 DEF OutputStart
  <2>5. IsRun(output[i], OutputStart(i))
    BY <2>3 DEF IsRun
  <2>6. /\ InputInv(i) /\ start[i] <= BufferStart(i)
        /\ \E j \in Inputs : start[j] # None /\ BufferStart(i) <= start[j]
    BY <1>1, <2>1 DEF AlignInv, DiscardInv
  <2> QED BY <2>1, <2>2, <2>3, <2>4, <2>5, <2>6
<1>3. ASSUME NEW i \in Inputs
      PROVE  /\ InputInv(i)'
             /\ BufferStart(i)' = BufferStart(i) + n
             /\ OutputStart(i)' = BufferStart(i)
             /\ Len(output'[i]) = 0 + n
             /\ IsRun(output'[i], BufferStart(i))
  BY <1>1, <1>2, CopyInput DEF SafeInv
<1>4. ASSUME NEW i \in Inputs
      PROVE  \E j \in Inputs : start[j] = BufferStart(i)
  <2>1. PICK j \in Inputs : start[j] # None /\ BufferStart(i) <= start[j]
    BY <1>2
  <2>2. /\ start[j] <= BufferStart(j) /\ BufferStart(j) = BufferStart(i)
        /\ start[j] \in Int /\ BufferStart(i) \in Int
    BY <1>2
  <2> QED BY <2>1, <2>2
<1>5. SyncInv'
  <2> SUFFICES ASSUME NEW i \in Inputs
               PROVE  /\ start'[i] # None
                      /\ \A j \in Inputs : /\ BufferStart(j)' = BufferStart(i)'
                                           /\ Len(output'[j]) = Len(output'[i])
                      /\ IsRun(output'[i], OutputStart(i)')
                      /\ start'[i] <= OutputStart(i)'
                      /\ \E j \in Inputs : start'[j] = OutputStart(i)'
      BY DEF SyncInv
  <2>1. start' = start /\ OutputStart(i)' = BufferStart(i)
    BY <1>1, <1>3
  <2>2. \A j \in Inputs : /\ BufferStart(j)' = BufferStart(i)'
                          /\ Len(output'[j]) = Len(output'[i])
    <3>1. ASSUME NEW j \in Inputs
          PROVE  /\ BufferStart(j)' = BufferStart(i)'
                 /\ Len(output'[j]) = Len(output'[i])
      <4>1. BufferStart(j) = BufferStart(i)
        BY <1>2
      <4>2. /\ BufferStart(j)' = BufferStart(j) + n
            /\ BufferStart(i)' = BufferStart(i) + n
            /\ Len(output'[j]) = 0 + n /\ Len(output'[i]) = 0 + n
        BY <1>3
      <4> QED BY <4>1, <4>2
    <3> QED BY <3>1
  <2>3. start'[i] # None /\ start'[i] <= OutputStart(i)'
    BY <1>2, <2>1
  <2>4. IsRun(output'[i], OutputStart(i)')
    BY <1>3, <2>1
  <2>5. \E j \in Inputs : start'[j] = OutputStart(i)'
    BY <1>4, <2>1
  <2> QED BY <2>2, <2>3, <2>4, <2>5
<1>6. DiscardInv'
  BY <1>1 DEF DiscardInv
<1> QED BY <1>3, <1>5, <1>6 DEF AlignInv

(* No input is cut beyond the highest first tag. *)
LEMMA AlignDiscard ==
    ASSUME SafeInv, AlignInv, NEW n \in 1 .. MaxOut, Discard(n)
    PROVE  AlignInv'
<1>1. /\ ~d_synchronized /\ Forecast(n) /\ FirstItemsTagged
      /\ UNCHANGED <<d_last_timestamp, x_vector_queue, start, d_synchronized, output>>
  BY DEF Discard, DiscardItems, sourceVars, blockVars
<1>2. PICK h \in Inputs : Highest(h) /\ ConsumeOlder(h, n)
  BY DEF Discard, DiscardItems
<1>3. ASSUME NEW i \in Inputs
      PROVE  /\ InputInv(i)' /\ start[i] # None /\ start[i] \in Int
             /\ BufferStart(i) \in Int /\ BufferStart(i)' \in Int
             /\ BufferStart(i) <= BufferStart(i)'
             /\ BufferStart(i)' <= BufferStart(h)
  <2> DEFINE c == ItemsToConsume(i, h, n)
  <2>1. /\ c \in 0 .. Len(buffer[i])
        /\ c <= FirstTag(h) - FirstTag(i)
    BY <1>1, <1>2, ConsumedInWindow DEF SafeInv
  <2>2. /\ d_last_timestamp[i] # None /\ start[i] # None
        /\ FirstTag(i) = BufferStart(i) /\ FirstTag(h) = BufferStart(h)
        /\ BufferStart(i) \in Int /\ BufferStart(h) \in Int
    BY <1>1, FirstTagIsTime DEF SafeInv
  <2>3. buffer'[i] = SubSeq(buffer[i], c + 1, Len(buffer[i]))
    BY <1>2 DEF ConsumeOlder
  <2>4. start[i] \in Int /\ Len(buffer[i]) \in Nat
    BY <2>2, InputNumbers DEF SafeInv
  <2> HIDE DEF c
  <2>5. InputInv(i)' /\ BufferStart(i)' = BufferStart(i) + c
    BY <1>1, <2>1, <2>2, <2>3, CutInput DEF AlignInv, SafeInv
  <2>6. c \in Int /\ c >= 0 /\ c <= BufferStart(h) - BufferStart(i)
    BY <2>1, <2>2, <2>4
  <2> QED BY <2>2, <2>4, <2>5, <2>6
<1>4. DiscardInv'
  <2>1. PICK j \in Inputs : start[j] # None /\ BufferStart(h) <= start[j]
    BY <1>1, <1>3 DEF AlignInv, DiscardInv
  <2>2. ASSUME NEW i \in Inputs
        PROVE  start[i] <= BufferStart(i)' /\ BufferStart(i)' <= start[j]
    <3>1. start[i] <= BufferStart(i)
      BY <1>1, <1>3 DEF AlignInv, DiscardInv
    <3> QED BY <1>3, <2>1, <3>1
  <2>3. \A i \in Inputs : output'[i] = <<>>
    BY <1>1 DEF AlignInv, DiscardInv
  <2> QED BY <1>1, <2>1, <2>2, <2>3 DEF DiscardInv
<1>5. SyncInv'
  BY <1>1 DEF SyncInv
<1> QED BY <1>3, <1>4, <1>5 DEF AlignInv

(* Every step keeps the alignment invariant while no gap is left open. *)
LEMMA AlignNext ==
    ASSUME OnePacket, SafeInv, ~overran => AlignInv, [Next]_vars
    PROVE  ~overran' => AlignInv'
<1> SUFFICES ASSUME ~overran' PROVE AlignInv'
    OBVIOUS
<1>1. AlignInv
  <2>1. ASSUME NEW i \in Inputs, QueueFrames(i) PROVE ~overran
    BY <2>1 DEF QueueFrames
  <2>2. ASSUME NEW i \in Inputs, ReturnItems(i) \/ HandleSyncMsg(i) PROVE ~overran
    BY <2>2 DEF ReturnItems, HandleSyncMsg, sourceVars
  <2>3. ASSUME GeneralWork PROVE ~overran
    BY <2>3 DEF GeneralWork, Forward, Synchronize, Discard, DiscardItems, sourceVars
  <2>4. ASSUME UNCHANGED vars PROVE ~overran
    BY <2>4 DEF vars, sourceVars
  <2> QED BY <2>1, <2>2, <2>3, <2>4 DEF Next, Source
<1>2. CASE \E i \in Inputs : QueueFrames(i)
  BY <1>1, <1>2, AlignQueueFrames
<1>3. CASE \E i \in Inputs : ReturnItems(i)
  BY <1>1, <1>3, AlignReturnItems
<1>4. CASE \/ \E i \in Inputs : HandleSyncMsg(i)
           \/ UNCHANGED vars
  <2>1. UNCHANGED <<d_last_timestamp, x_vector_queue, start, buffer,
                    d_synchronized, output>>
    BY <1>4 DEF HandleSyncMsg, vars, sourceVars, blockVars
  <2>2. \A i \in Inputs : /\ InputInv(i)' /\ BufferStart(i)' = BufferStart(i)
                          /\ OutputStart(i)' = OutputStart(i)
    BY <1>1, <2>1, InputUnchanged DEF AlignInv
  <2>3. DiscardInv' /\ SyncInv'
    BY <1>1, <2>1, <2>2 DEF AlignInv, DiscardInv, SyncInv
  <2> QED BY <2>2, <2>3 DEF AlignInv
<1>5. CASE GeneralWork
  BY <1>1, <1>5, AlignForward, AlignSynchronize, AlignDiscard DEF GeneralWork
<1> QED BY <1>2, <1>3, <1>4, <1>5 DEF Next, Source

(* AlignInv holds until a gap is left open. *)
LEMMA AlignInvariant ==
    ASSUME OnePacket
    PROVE  Spec => [](SafeInv /\ (~overran => AlignInv))
<1>1. Init => SafeInv /\ (~overran => AlignInv)
  BY SafeInit, AlignInit
<1>2. SafeInv /\ (~overran => AlignInv) /\ [Next]_vars
          => (SafeInv /\ (~overran => AlignInv))'
  BY SafeNext, AlignNext
<1> QED BY <1>1, <1>2, PTL DEF Spec

(* Once the block says it is synchronised (SNAPSynchronizerV3_impl.cc:155),  *)
(* item n of all outputs has the same timestamp: for any number of inputs,   *)
(* starting at any timestamps, with one packet per frame and no gap that a   *)
(* source leaves open.                                                       *)
THEOREM OutputsAreAligned == ASSUME OnePacket PROVE Spec => []OutputsAligned
<1>1. ASSUME SafeInv, ~overran => AlignInv PROVE OutputsAligned
  <2> SUFFICES ASSUME ~overran, NEW i \in Inputs, NEW j \in Inputs,
                      NEW k \in DOMAIN output[i] \cap DOMAIN output[j]
               PROVE  output[i][k].time = output[j][k].time
      BY DEF OutputsAligned
  <2>1. /\ output[i] \in Seq(Item) /\ output[j] \in Seq(Item)
        /\ k \in 1 .. Len(output[i]) /\ k \in 1 .. Len(output[j])
    BY <1>1, InputNumbers, LenProperties DEF SafeInv
  <2>2. d_synchronized
    <3>1. output[i] # <<>>
      <4>1. ASSUME output[i] = <<>> PROVE FALSE
        <5>1. Len(output[i]) = 0
          BY <4>1, EmptySeq
        <5> QED BY <2>1, <5>1
      <4> QED BY <4>1
    <3> QED BY <1>1, <3>1 DEF AlignInv, DiscardInv
  <2>3. /\ BufferStart(j) = BufferStart(i)
        /\ Len(output[j]) = Len(output[i])
        /\ IsRun(output[i], OutputStart(i)) /\ IsRun(output[j], OutputStart(j))
    BY <1>1, <2>2 DEF AlignInv, SyncInv
  <2>4. OutputStart(i) = OutputStart(j)
    BY <2>3 DEF OutputStart
  <2> QED BY <2>1, <2>3, <2>4 DEF IsRun
<1> QED BY <1>1, AlignInvariant, PTL

(* Discarding stops exactly at the latest of the starts: nothing that all    *)
(* inputs have is lost, and nothing older is passed on                       *)
(* (SNAPSynchronizerV3_impl.cc:127-151 and 185-197).                         *)
THEOREM SyncIsEarliest == ASSUME OnePacket PROVE Spec => []EarliestSync
<1>1. ASSUME SafeInv, ~overran => AlignInv PROVE EarliestSync
  <2> SUFFICES ASSUME ~overran, NEW i \in Inputs, output[i] # <<>>
               PROVE  /\ \E j \in Inputs : output[i][1].time = start[j]
                      /\ \A j \in Inputs : output[i][1].time >= start[j]
      BY DEF EarliestSync
  <2>1. d_synchronized
    BY <1>1 DEF AlignInv, DiscardInv
  <2>2. output[i] \in Seq(Item) /\ 1 \in 1 .. Len(output[i])
    <3>1. output[i] \in Seq(Item) /\ Len(output[i]) \in Nat
      BY <1>1, InputNumbers DEF SafeInv
    <3>2. Len(output[i]) # 0
      BY <3>1, EmptySeq
    <3> QED BY <3>1, <3>2
  <2>3. /\ IsRun(output[i], OutputStart(i))
        /\ \E j \in Inputs : start[j] = OutputStart(i)
    BY <1>1, <2>1 DEF AlignInv, SyncInv
  <2>4. OutputStart(i) \in Int
    <3>1. d_last_timestamp[i] # None
      BY <1>1, <2>1 DEF AlignInv, SyncInv, InputInv
    <3> QED BY <1>1, <3>1, InputNumbers DEF SafeInv
  <2>5. output[i][1].time = OutputStart(i)
    <3>1. output[i][1].time = OutputStart(i) + 1 - 1
      BY <2>2, <2>3 DEF IsRun
    <3> QED BY <2>4, <3>1
  <2>6. ASSUME NEW j \in Inputs PROVE OutputStart(i) >= start[j]
    <3>1. /\ start[j] # None /\ start[j] <= OutputStart(j)
          /\ BufferStart(j) = BufferStart(i) /\ Len(output[j]) = Len(output[i])
      BY <1>1, <2>1 DEF AlignInv, SyncInv
    <3>2. OutputStart(j) = OutputStart(i)
      BY <3>1 DEF OutputStart
    <3>3. start[j] \in Nat
      BY <1>1, <3>1, InputNumbers DEF SafeInv
    <3> QED BY <2>4, <3>1, <3>2, <3>3
  <2> QED BY <2>3, <2>5, <2>6
<1> QED BY <1>1, AlignInvariant, PTL

-----------------------------------------------------------------------------
(* The block implements SynchronizedStreams. *)

(* What the outputs carry, in terms of the abstract specification. *)
Carried == [i \in Inputs |-> [k \in DOMAIN output[i] |-> output[i][k].time]]

(* The timestamps of an output are a sequence of its length. *)
LEMMA CarriedType ==
    ASSUME TypeOK, NEW i \in Inputs
    PROVE  /\ Carried[i] \in Seq(Times) /\ Len(Carried[i]) = Len(output[i])
           /\ DOMAIN Carried[i] = 1 .. Len(output[i])
           /\ \A k \in 1 .. Len(output[i]) : Carried[i][k] = output[i][k].time
<1>1. output[i] \in Seq(Item) /\ Len(output[i]) \in Nat
  BY InputNumbers
<1>2. DOMAIN output[i] = 1 .. Len(output[i])
  BY <1>1, LenProperties
<1>3. ASSUME NEW k \in 1 .. Len(output[i]) PROVE output[i][k].time \in Times
  <2>1. output[i][k] \in Item
    BY <1>1, ElementOfSeq
  <2> QED BY <2>1 DEF Item
<1>4. Carried[i] = [k \in 1 .. Len(output[i]) |-> output[i][k].time]
  BY <1>2 DEF Carried
<1>5. Carried[i] \in [1 .. Len(output[i]) -> Times]
  BY <1>3, <1>4
<1> QED BY <1>1, <1>4, <1>5, FunctionIsSeq

(* Outputs that are runs of the same timestamps. *)
LEMMA CarriedIsRun ==
    ASSUME TypeOK, AlignInv, d_synchronized, NEW i \in Inputs, NEW j \in Inputs
    PROVE  Carried[i] = Carried[j] /\ Streams!Contiguous(Carried[i])
<1>1. /\ d_last_timestamp[i] # None /\ d_last_timestamp[j] # None
      /\ IsRun(output[i], OutputStart(i)) /\ IsRun(output[j], OutputStart(j))
      /\ BufferStart(i) = BufferStart(j) /\ Len(output[i]) = Len(output[j])
  BY DEF AlignInv, SyncInv, InputInv
<1>2. OutputStart(i) = OutputStart(j) /\ OutputStart(i) \in Int
  BY <1>1, InputNumbers DEF OutputStart
<1>3. Len(output[i]) \in Nat
  BY InputNumbers
<1>4. \A k \in 1 .. Len(output[i]) :
          Carried[i][k] = OutputStart(i) + k - 1 /\ Carried[j][k] = OutputStart(i) + k - 1
  BY <1>1, <1>2, CarriedType DEF IsRun
<1>5. Carried[i] = Carried[j]
  <2>1. /\ Carried[i] \in Seq(Times) /\ Carried[j] \in Seq(Times)
        /\ Len(Carried[i]) = Len(output[i]) /\ Len(Carried[j]) = Len(output[i])
    BY <1>1, CarriedType
  <2>2. \A k \in 1 .. Len(Carried[i]) : Carried[i][k] = Carried[j][k]
    BY <1>4, <2>1
  <2> QED BY <2>1, <2>2, SeqEqual
<1>6. Streams!Contiguous(Carried[i])
  <2> SUFFICES ASSUME NEW k \in 1 .. Len(output[i]) - 1
               PROVE  Carried[i][k + 1] = Carried[i][k] + 1
      BY CarriedType DEF Streams!Contiguous
  <2>1. k \in 1 .. Len(output[i]) /\ k + 1 \in 1 .. Len(output[i]) /\ k \in Int
    BY <1>3
  <2>2. /\ Carried[i][k] = OutputStart(i) + k - 1
        /\ Carried[i][k + 1] = OutputStart(i) + (k + 1) - 1
    BY <1>4, <2>1
  <2> QED BY <1>2, <2>1, <2>2
<1> QED BY <1>5, <1>6

(* The two lemmas as one formula, for the step to use before and after. *)
CarriedInv ==
    /\ \A i \in Inputs :
          /\ Len(Carried[i]) = Len(output[i])
          /\ DOMAIN Carried[i] = 1 .. Len(output[i])
          /\ \A k \in 1 .. Len(output[i]) : Carried[i][k] = output[i][k].time
    /\ d_synchronized =>
          /\ \A i, j \in Inputs : Carried[i] = Carried[j]
          /\ \A i \in Inputs : Streams!Contiguous(Carried[i])

(* The formula follows from the invariant. *)
LEMMA CarriedFacts == SafeInv /\ AlignInv => CarriedInv
<1> SUFFICES ASSUME SafeInv, AlignInv PROVE CarriedInv
    OBVIOUS
<1>1. TypeOK
  BY DEF SafeInv
<1>2. ASSUME NEW i \in Inputs
      PROVE  /\ Len(Carried[i]) = Len(output[i])
             /\ DOMAIN Carried[i] = 1 .. Len(output[i])
             /\ \A k \in 1 .. Len(output[i]) : Carried[i][k] = output[i][k].time
  BY <1>1, CarriedType
<1>3. ASSUME d_synchronized, NEW i \in Inputs, NEW j \in Inputs
      PROVE  Carried[i] = Carried[j] /\ Streams!Contiguous(Carried[i])
  BY <1>1, <1>3, CarriedIsRun
<1> QED BY <1>2, <1>3, Zenon DEF CarriedInv

(* A step that adds items to the outputs is a step of the abstract block. *)
LEMMA StreamsStep ==
    ASSUME SafeInv, CarriedInv, CarriedInv', [Next]_vars
    PROVE  Streams!Forward \/ Carried' = Carried
<1>1. CASE UNCHANGED output
  BY <1>1 DEF Carried
<1>2. CASE \E n \in 1 .. MaxOut : Forward(n) \/ Synchronize(n)
  <2>1. PICK n \in 1 .. MaxOut : Forward(n) \/ Synchronize(n)
    BY <1>2
  <2>2. d_synchronized' /\ Forecast(n) /\ CopyItems(n)
    BY <2>1 DEF Forward, Synchronize
  <2>3. ASSUME NEW i \in Inputs
        PROVE  Streams!Extends(Carried'[i], Carried[i])
    <3> DEFINE w == SubSeq(buffer[i], 1, n)
    <3>1. /\ output[i] \in Seq(Item) /\ Len(output[i]) \in Nat
          /\ buffer[i] \in Seq(Item) /\ n \in 0 .. Len(buffer[i]) /\ n \in Nat
      BY <2>2, Window, InputNumbers DEF SafeInv
    <3>2. w \in Seq(Item) /\ Len(w) = n
      BY <3>1, CutSequence
    <3>3. output'[i] = output[i] \o w
      BY <2>2 DEF CopyItems
    <3> HIDE DEF w
    <3>4. /\ Len(output'[i]) = Len(output[i]) + n
          /\ \A k \in 1 .. Len(output[i]) + n : output'[i][k] =
                IF k <= Len(output[i]) THEN output[i][k] ELSE w[k - Len(output[i])]
      <4>1. /\ Len(output[i] \o w) = Len(output[i]) + Len(w)
            /\ \A k \in 1 .. Len(output[i]) + Len(w) : (output[i] \o w)[k] =
                  IF k <= Len(output[i]) THEN output[i][k] ELSE w[k - Len(output[i])]
        BY <3>1, <3>2, ConcatProperties
      <4> QED BY <3>2, <3>3, <4>1, Zenon
    <3>5. /\ Len(Carried'[i]) = Len(output[i]) + n
          /\ Len(Carried[i]) = Len(output[i])
          /\ DOMAIN Carried[i] = 1 .. Len(output[i])
          /\ \A k \in 1 .. Len(output[i]) : Carried[i][k] = output[i][k].time
          /\ \A k \in 1 .. Len(output[i]) + n : Carried'[i][k] = output'[i][k].time
      <4>1. /\ Len(Carried'[i]) = Len(output'[i])
            /\ \A k \in 1 .. Len(output'[i]) : Carried'[i][k] = output'[i][k].time
        BY Zenon DEF CarriedInv
      <4>2. /\ Len(Carried[i]) = Len(output[i])
            /\ DOMAIN Carried[i] = 1 .. Len(output[i])
            /\ \A k \in 1 .. Len(output[i]) : Carried[i][k] = output[i][k].time
        BY Zenon DEF CarriedInv
      <4> QED BY <3>4, <4>1, <4>2
    <3>6. ASSUME NEW k \in 1 .. Len(output[i])
          PROVE  Carried'[i][k] = Carried[i][k]
      <4>1. k \in 1 .. Len(output[i]) + n /\ k <= Len(output[i])
        BY <3>1
      <4> QED BY <3>4, <3>5, <4>1
    <3>7. Len(Carried'[i]) >= Len(Carried[i])
      BY <3>1, <3>5
    <3>8. \A k \in DOMAIN Carried[i] : Carried'[i][k] = Carried[i][k]
      BY <3>5, <3>6
    <3> QED BY <3>7, <3>8, Zenon DEF Streams!Extends
  <2>4. \A i, j \in Inputs : Carried'[i] = Carried'[j]
    BY <2>2, Zenon DEF CarriedInv
  <2>5. \A i \in Inputs : Streams!Contiguous(Carried'[i])
    BY <2>2, Zenon DEF CarriedInv
  <2> QED BY <2>3, <2>4, <2>5 DEF Streams!Forward, Carried
<1>3. UNCHANGED output \/ \E n \in 1 .. MaxOut : Forward(n) \/ Synchronize(n)
  <2>1. CASE \E i \in Inputs : Source(i)
    BY <2>1 DEF Source, QueueFrames, ReturnItems, HandleSyncMsg, blockVars
  <2>2. CASE GeneralWork
    BY <2>2 DEF GeneralWork, Discard, blockVars
  <2>3. CASE UNCHANGED vars
    BY <2>3 DEF vars, blockVars
  <2> QED BY <2>1, <2>2, <2>3 DEF Next
<1> QED BY <1>1, <1>2, <1>3

(* When the sources fill in every gap, they never leave one open. *)
LEMMA NothingOverruns ==
    ASSUME MaxGap <= MaxMissedSets
    PROVE  Spec => []~overran
<1>1. Init => ~overran
  BY Zenon DEF Init
<1>2. ~overran /\ [Next]_vars => ~overran'
  <2> SUFFICES ASSUME ~overran, [Next]_vars PROVE ~overran'
      OBVIOUS
  <2>1. ASSUME NEW i \in Inputs, QueueFrames(i) PROVE ~overran'
    <3>1. PICK p \in Times :
            /\ d_last_timestamp[i] # None =>
                   Missed(d_last_timestamp[i], p) \in 0 .. MaxGap
            /\ overran' = (overran \/ Missed(d_last_timestamp[i], p) > MaxMissedSets)
      BY <2>1 DEF QueueFrames
    <3>2. ~(Missed(d_last_timestamp[i], p) > MaxMissedSets)
      BY <3>1, BoundsAssumption DEF Missed
    <3> QED BY <3>1, <3>2
  <2>2. ASSUME NEW i \in Inputs, ReturnItems(i) \/ HandleSyncMsg(i) PROVE ~overran'
    BY <2>2 DEF ReturnItems, HandleSyncMsg, sourceVars
  <2>3. ASSUME GeneralWork PROVE ~overran'
    BY <2>3 DEF GeneralWork, Forward, Synchronize, Discard, DiscardItems, sourceVars
  <2>4. ASSUME UNCHANGED vars PROVE ~overran'
    BY <2>4 DEF vars, sourceVars
  <2> QED BY <2>1, <2>2, <2>3, <2>4 DEF Next, Source
<1> QED BY <1>1, <1>2, PTL DEF Spec

(* With one packet per frame and gaps that the sources fill in, the block    *)
(* implements SynchronizedStreams: general_work() (88-204) passes on nothing *)
(* before the streams agree, and from then on the same timestamps on every   *)
(* output, one after the other.                                              *)
THEOREM SynchronizesStreams ==
    ASSUME OnePacket, MaxGap <= MaxMissedSets
    PROVE  Spec => StreamsSpec
<1>1. Init => Streams!Init
  <2> SUFFICES ASSUME Init PROVE Carried = [i \in Inputs |-> <<>>]
      BY DEF Streams!Init, Carried
  <2>1. TypeOK
    BY SafeInit DEF SafeInv
  <2>2. ASSUME NEW i \in Inputs PROVE Carried[i] = <<>>
    <3>1. output[i] = <<>>
      BY DEF Init
    <3>2. Len(output[i]) = 0
      BY <3>1, EmptySeq
    <3> QED BY <2>1, <3>2, CarriedType, EmptySeq
  <2> QED BY <2>2 DEF Carried
<1>2. Spec => [](SafeInv /\ CarriedInv)
  <2>1. Spec => [](SafeInv /\ (~overran => AlignInv))
    BY AlignInvariant
  <2>2. Spec => []~overran
    BY NothingOverruns
  <2> QED BY <2>1, <2>2, CarriedFacts, PTL
<1>3. SafeInv /\ CarriedInv /\ CarriedInv' /\ [Next]_vars
          => Streams!Forward \/ Carried' = Carried
  BY StreamsStep
<1>4. SafeInv /\ CarriedInv /\ CarriedInv' /\ [Next]_vars
          => [Streams!Forward]_([i \in Inputs |->
                 [k \in DOMAIN output[i] |-> output[i][k].time]])
  BY <1>3 DEF Carried
<1> QED BY <1>1, <1>2, <1>4, PTL DEF Spec, StreamsSpec, Streams!Spec
=============================================================================
