--------------------------- MODULE MCSnapVoltage ---------------------------
(* SnapVoltage for TLC: small networks and queues, and what only the model   *)
(* checker can count.                                                        *)
EXTENDS SnapVoltage, FiniteSets

(* The frames that have left the packet loop, returned or not. *)
Frames == [i \in DOMAIN output |-> output[i].data] \o x_vector_queue

ZeroBlocks == {p \in (DOMAIN Frames) \X Blocks : Frames[p[1]][p[2]] = Zero}

(* The missed packets reported so far (NotifyMissed, 831 and 841), with      *)
(* those this call has counted and not reported yet, are exactly the blocks  *)
(* of zeros put into the stream.                                             *)
MissedLedger == ~overran => notified + skippedPackets = Cardinality(ZeroBlocks)
=============================================================================
