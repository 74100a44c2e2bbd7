------------------------ MODULE SynchronizedStreams ------------------------
(***************************************************************************)
(* What the synchronizer promises the correlator: item n of every output   *)
(* has the same timestamp, the timestamps follow each other without a gap, *)
(* and all outputs grow by the same number of items at a time.             *)
(***************************************************************************)
EXTENDS Integers, Sequences

CONSTANT Inputs

VARIABLE forwarded  \* of each input, the timestamps of the items passed on

Init == forwarded = [i \in Inputs |-> <<>>]

Extends(new, old) == /\ Len(new) >= Len(old)
                     /\ \A k \in DOMAIN old : new[k] = old[k]

Contiguous(s) == \A k \in 1 .. Len(s) - 1 : s[k + 1] = s[k] + 1

Forward ==
    /\ \A i \in Inputs : Extends(forwarded'[i], forwarded[i])
    /\ \A i, j \in Inputs : forwarded'[i] = forwarded'[j]
    /\ \A i \in Inputs : Contiguous(forwarded'[i])

Spec == Init /\ [][Forward]_forwarded
=============================================================================
