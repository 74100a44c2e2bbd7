--------------------------- MODULE AlignedStream ---------------------------
(***************************************************************************)
(* What a SNAP source promises the blocks downstream: from the first       *)
(* packet it takes, it delivers one frame for every timestamp, without a   *)
(* gap and in order; a frame holds the data of exactly the packets taken   *)
(* with its timestamp and zeros in the place of those that never came.     *)
(* SNAPSynchronizerV3_impl.cc:95-96 and the X-engine rely on it: item      *)
(* numbers are the only time they have once the streams are synchronised.  *)
(***************************************************************************)
EXTENDS Integers, Sequences

CONSTANTS PacketsPerFrame, \* the 256-channel blocks of a frame
          Times,           \* the timestamps, in frames
          Zero, None       \* zeroed data; no timestamp yet

VARIABLES taken,     \* the packets the source has taken from the network
          origin,    \* timestamp of the first one
          delivered  \* the frames delivered

vars == <<taken, origin, delivered>>

FrameOf(packets, t) ==
    [b \in 0 .. PacketsPerFrame - 1 |->
        IF [ts |-> t, ch |-> b] \in packets THEN t ELSE Zero]

(* A later packet closes a frame; with one packet per frame, the frame's own. *)
Closed(t) == \E p \in taken : p.ts > t \/ (PacketsPerFrame = 1 /\ p.ts = t)

Init == taken = {} /\ origin = None /\ delivered = <<>>

(* The timestamp of the next frame to deliver. *)
NextTime == origin + Len(delivered)

(* A packet for a frame that is not delivered yet. *)
Take == \E t \in Times, b \in 0 .. PacketsPerFrame - 1 :
    /\ taken' = taken \cup {[ts |-> t, ch |-> b]}
    /\ origin' = IF origin = None THEN t ELSE origin
    /\ origin # None => t >= NextTime
    /\ UNCHANGED delivered

(* The next frames in time, up to one that is closed. *)
Deliver == \E last \in Times :
    /\ origin # None
    /\ NextTime <= last
    /\ Closed(last)
    /\ delivered' = delivered \o
           [i \in 1 .. last - NextTime + 1 |-> FrameOf(taken, NextTime + i - 1)]
    /\ UNCHANGED <<taken, origin>>

Next == Take \/ Deliver

Spec == Init /\ [][Next]_vars
=============================================================================
