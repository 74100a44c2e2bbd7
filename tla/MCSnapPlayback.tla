--------------------------- MODULE MCSnapPlayback ---------------------------
(* SnapPlayback with files for TLC: two blocks in a frame, block 2 foreign.  *)
EXTENDS SnapPlayback

P(t, c) == [ts |-> t, ch |-> c]

MCFiles == {
    \* the first packet is not the one of the starting channel
    <<P(1, 1), P(2, 0), Other, P(2, 1), P(3, 0), P(3, 1)>>,
    \* packets of other channels, a gap that is filled in
    <<P(1, 0), P(1, 2), P(1, 1), P(3, 1), P(4, 0)>>,
    \* two gaps, one larger than MAX_MISSED_SETS
    <<P(1, 0), P(3, 0), P(3, 1), P(6, 0)>>,
    \* as many packets as the reader takes at a time, one timestamp missing
    <<P(1, 1), P(1, 0), P(3, 0)>>,
    \* one timestamp only
    <<P(2, 0), P(2, 1)>>,
    \* nothing to synchronise on
    <<Other, P(2, 1), P(3, 1)>>}
=============================================================================
