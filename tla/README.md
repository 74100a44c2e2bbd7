# TLA+ specifications of gr-ata

gr-ata connects the Allen Telescope Array to GNU Radio: blocks that receive the
packets of the SNAP boards, a block that aligns the streams of several
antennas, blocks that command the antennas, and scripts around them.  This
directory holds a specification of the parts whose behaviour is hard to test:
TLA+ modules translated from the source, TLC configurations that model-check
small instances, and TLAPS proofs of what matters most for every configuration.

Line numbers refer to `src/lib/snap_source_impl.cc` unless another file is named.

## 1. The system

| Part | State | Operations | Interacts with | Module |
|---|---|---|---|---|
| SNAP source, network (`lib/snap_source_impl.*`) | `d_localqueue` (circular buffer of packets, under `d_net_mutex`), `d_found_start_channel`, `d_send_sync_pmt`, `async_volt_sync_hdr`, `d_last_timestamp`, `multipacket_frame_pkt_ctr`, `x_vector_buffer`, `x_vector_queue`, `seq_num_queue`, `sync_timestamp` | `runThread`/`mmsg_receive` (receive thread), `work`/`work_volt_mode` (scheduler's thread), `handleSyncMsg` | socket; the scheduler; sync_header and sync messages; tags on the output | `SnapVoltage` |
| SNAP source, pcap | `pcapFile`, `pcap_file_done` and the above | `queue_pcap_data`, `work` | the same | `SnapPlayback` |
| SNAP source, life cycle | `proc_thread`, `threadRunning`, `stop_thread`, socket, file, buffers | constructor, `start`, `stop`, destructor, `runThread` | scheduler, receive threads | `SnapLifecycle` |
| SNAP source, spectrometer mode | `xx_vector_queue` ..., `d_last_channel_block` | `work_spec_mode` | never called (1213 tests a macro that is 1) | - |
| SNAP synchronizer (`lib/SNAPSynchronizerV3_impl.cc`) | `d_synchronized`, the read position of each input | `forecast`, `general_work` | the sources' items and tags, the sync message | `SnapSynchronizer` |
| On-off scan, track scan (`python/onoff.py`, `trackscan.py`) | `self.command`, one thread per on-off scan | `handle_msg`, `set_*`, `wait_duration`, `start`, `stop` | command messages to control | `ScanBlock` |
| Antenna control (`python/control.py`) | `is_configured`, `my_ants` | `handle_msg`, `handle_msg_offline`, `point_src_*`, `stop` | the ATA library | `AntennaControl` |
| X-engine data reader (`apps/observation/read_correlated_data.py`) | the arrays of one recording | phasing, the blocks' loop, index arithmetic | files, the observation descriptor | `CorrelatedData` |
| IF switch (`python/ifswitch.py`) | antennas and attenuations | `start` (from the constructor too) | the ATA library | - |
| Pcap tools, pointing script, others (`apps/`) | local | straight-line scripts | files, sockets, the ATA library | - |

**What is hard.**  In the source two threads share a queue and a flag; packets are
lost, overwritten, reordered, or come from other senders; frames are put
together from several packets, and their place in time is only a count, so that one frame
too few or too many shifts the antenna's signal against all the others; a
message changes the tagging while frames are waiting; the end of a file is one
thread's to see and the other's to report; a thread is stopped through a flag that
it sets itself.  The synchronizer moves several streams to a common timestamp and
then trusts them for ever.  In the Python blocks every scan has its own thread
over one unguarded dictionary, and a thread outlives the flow graph that started
it.  In the data reader, loops far from each other have to agree on one order.
`PROJECT.json` lists the hazards line by line, with the properties that cover
them.

**What makes each part correct.**

* Source: the stream is aligned (one frame per timestamp, in order, holding exactly
  the packets taken, zeros elsewhere); tags tell the time of their frame; queues
  never run empty under a pop and stay bounded; the sync header is sent once,
  before the first frame; the count of missed packets is true; what is received
  is eventually delivered.  A file is played to its last packet, and its end is reported.
  A thread that receives has something to receive with; `stop()` returns and leaves nothing open.
* Synchronizer: from its first output on, item *n* of all outputs carries the same
  timestamp; no input overshoots the common timestamp; it synchronises
  eventually.
* Scans and control: a scan that is left alone publishes its commands and no
  others, and the antennas end where the scan leaves them; none of the commands makes
  control raise (which is so of the scans of messages, but not of restarts, section 5);
  antennas are tuned before they are pointed.
* Data reader: every whole block is used once; every value is in the row that the
  arrays beside it describe, and phased by that row's delays.

## 2. Modules

| Module | What it is |
|---|---|
| `AlignedStream` | abstract: what a source promises downstream |
| `SnapVoltage` | the source in voltage mode from the network, in detail |
| `MCSnapVoltage` | TLC instance of `SnapVoltage`, and `MissedLedger`, which counts the zeros of all frames |
| `SnapVoltageProofs`, `SnapStreamProofs` | theorems about `SnapVoltage`: types, bounds and the exact output; header, tags, ledger and the refinement of `AlignedStream` |
| `SnapPlayback`, `MCSnapPlayback`, `SnapPlaybackProofs` | the source on a pcap file: the reader, and `SnapVoltage`'s `work()`; its files for TLC; theorems |
| `SnapLifecycle`, `SnapLifecycleProofs` | start, stop, destruction and the receive threads; theorems |
| `SynchronizedStreams` | abstract: what the synchronizer promises the correlator |
| `SnapSynchronizer`, `SnapSynchronizerProofs` | the synchronizer in detail, fed by reduced sources; theorems |
| `ScanCommand` | the messages, dictionaries and commands that the observation blocks share |
| `ScanBlock` | `onoff` and `trackscan`, statement by statement, with the scans' threads |
| `AntennaControl` | `control` |
| `Observation`, `MCObservation`, `ObservationProofs` | a scan block, its control, the operator and the flow graph composed; theorems |
| `CorrelatedData`, `CorrelatedDataProofs` | from the X-engine's file to rows of UVFITS; theorems |
| `Induction` | lemmas: least and greatest elements of sets of natural numbers |

### SnapVoltage

*Units.*  A packet holds 16 samples of 256 channels; timestamps advance by 16 per
packet set, `set_output_multiple(16)` makes the scheduler ask for multiples of
16, and every push is a loop over 16 vectors.  The model counts these groups:
one frame is 16 vectors, one unit of time 16 samples.  With the SNAPs' timestamps
multiples of 16 nothing is lost by this.  The data of a frame is, for each
256-channel block, the timestamp of the packet copied into it, `Zero`, or
`Stray` (overwritten by a packet of other channels).

*Correspondence.*

| Action | Code | Atomic because |
|---|---|---|
| `MmsgReceive` | `mmsg_receive()` 1473-1543 | holds `d_net_mutex` around the whole batch |
| `WorkCall` | `work()` 1198 | argument of the scheduler |
| `PollPackets`, `GiveUp` | 767-788 | one locked read of the queue's length |
| `SendSyncPmt` | 792-816 | reads and clears a flag that is set at most once |
| `QueueOnePacketFrame`, `StartNextFrame`, `FillFrame` | one pass of 818-902 | one locked pop, all else is the thread's own |
| `ReturnItems` | 904-955 | the thread's own |
| `HandleSyncMsg` | 264-274 | the scheduler delivers messages between calls |
| `Send`, `Lose`, `SendForeign`, `Reorder`, `Duplicate` | external | the SNAP board and the network |

`notified`, `output`, `published`, `taken`, `origin`, `overran` and `overwrote` are
history variables: they record what a step did and no step but the
properties reads them (`HandleSyncMsg` takes the timestamp from a tag that was
output, which is where the synchronizer has it from).
`d_send_start_msg` is taken to be true.  A packet outside the configured range
overwrites the block it lands on in the 16-row buffer; the rows that fall
outside the buffer corrupt other memory, which is not modelled.
Some operators marked "mutant" are plausible mistakes (a dropped limit, an
off-by-one, the wrong packet); they are used nowhere and show, put in the place
of the operator after them, that each property can fail.

*Not in the module*: the y polarisation (it goes exactly with x), packed output,
`d_notifyMissed` wording.  The pcap path is `SnapPlayback`, stop and restart are `SnapLifecycle`.

### SnapPlayback

Extends `SnapVoltage`: the two modules have `work_volt_mode()`'s packet loop, the sync
header and the sync message in common; the network's actions are replaced by the
reader's.

| Action | Code | Atomic because |
|---|---|---|
| `StartBatch`, `ReadRecord`, `EndBatch` | one call of `queue_pcap_data()` 1335-1455, record by record | the length of the queue is read once, each packet is pushed under the lock |
| `EndOfFile` | 1457-1467: repeat (`openPCAP` again) or `pcap_file_done` | the reader's own, but for the flag |
| `WorkDone`, `WorkOnFile` | `work()` 1198-1219 | reads the flag, then the queue |
| `CountPackets`, `LeaveLoop`, `GiveUpOnFile` | 763-788 | each turn counts under the lock, and then tests `pcap_file_done`, which may have been set in between |

A record is a packet for this source or `Other`; a packet may have channels outside the
configured range.  A repeated file starts again at most `MaxRepeats` times.  `NothingOverwritten`
needs a circular buffer for `MinQueue + ReloadSize - 1` packets, which the code's
sizes provide.

### SnapLifecycle

The flow graph's thread goes through `start()` (`BeginStart`, `OpenSocket` or
`StartThrows`, `Allocate`, `CreateThread`), `stop()` (`BeginStop`, `EndWait`, `CloseInput` or
`CloseThrows`, `FreeBuffers`) and the destructor, which calls `stop()`; a receive thread through
`EnterThread`, `TestStop`, `Receive`, `LeaveThread` (1545-1608).  Its loop is cut where it
touches what the other thread writes.  A pointer is `unset`
(never initialised), `null` or `held`; the buffers that are allocated and freed
together are one.  `delete` of an `unset` pointer would be undefined: `CleansUp` says of
which histories it does not come to that.  `Threads` bounds how often the source starts.

### Observation

Line numbers of this section refer to `src/python/onoff.py` unless another file is named.

`self.command = pmt.dict_add(self.command, ...)` reads the attribute, calls pmt, and
writes it; any other Python thread may run in between.  So `ScanBlock` turns each method
into a sequence of statements (`HandleMsg`, `Enter`, `Launch`, `WaitDuration`), and a thread executes a
dictionary statement as two steps, a `Load` and a `Store`; to publish and to
raise are one step, a sleep ends at any time.

| Part | Runs in | Code |
|---|---|---|
| `HandleMsg` | the block's thread | `handle_msg` 79-130, `trackscan.py` 69-112 |
| `Enter`, `Set` | the graphical interface's thread | `set_source`, `set_src_radec`, `set_src_azel` |
| `WaitDuration` | a thread per scan | `wait_duration` 169-187 |
| `StartGraph`, `StopGraph` | the flow graph | `start` 189-193, `stop`; `control.stop` |
| `HandleCommand` | control's thread | `control.handle_msg` and all it calls, with the exception it may leave with |

A raising handler ends its block's thread or not (GNU Radio's versions differ): both are
allowed.  What was in control's queue when the flow graph stopped may be there at the next start or
not.  `calm`, `wanted`, `stale` and `sent` are history: a *calm* act is one of the operator's that asks for one
target, made while no thread of the block is in a call: a good message, or a start of the flow graph while the
dictionary has the entries of exactly one target (`HasTarget`), whatever else is left in it; it ends with the next
act.  The properties `CalmCommands`, `Settles` and `CalmScanCompletes` speak of calm scans, *after any* history of
races, exceptions, stops and restarts; what happens while scans do overlap is `obs_overlap`.

`CalmCommands` has one exception, which is the code's.  Every on-off scan leaves `el_off` in the dictionary (186-187
delete `az_off` twice) and `start()` clears nothing, so that the first command of a restart is off the target, as the
second is: control looks for its `az_off` and raises `KeyError`, or points there if a race has left that as well.
`stale` records that the calm act found `el_off` there.  `StartsOnSource` is the same claim without the exception, and is
refuted (`obs_restart_on_source`).  `Settles` and `CalmScanCompletes` need no exception: the first command may
be lost, the second is sent, and handled if control's thread has survived the exception (`control_alive`).  A start with the entries of two targets (section 5), or of none, is not calm.

Coordinates are model values: what the properties tell apart is which target a command has, whether
both offsets are with it, and whether the elevation is above the limit (`High`).

### CorrelatedData

Line numbers of this section refer to `src/apps/observation/read_correlated_data.py`.

A sample of the file *is* what the X-engine wrote there: two polarisations of two antennas in a channel
and a block (`Recorded`).  `Phase` is 461-513, `ReadBlock` one turn of the blocks' loop (515-557), `EndOfBlocks` its
`break`.  `Spectrum` composes the reorderings (frequencies and baselines, `OriginalIndex`, and
the AIPS order of polarisations, `AipsOrder`); `AntennasOfRow`, `Baseline` and `BaselineVectors` are the loops that name the
rows, the phases and the vectors.  The order of the file is not the repository's to decide, and its documents
contradict each other: the reader's comment (94) and the sample in `src/README.md` (148) have [frequency][baseline][npol^2], the
text of `src/README.md` (103) [baseline][frequency][npol^2].  `frequency_first` is which of them it is, an input as the
others; `RowsLabelled` is stated of the first, for of the second it does not hold (two antennas and two channels are enough).
The recordings are all those within the bounds: antennas,
channels, whole blocks and a remainder, delays or none, the descriptor's number of baselines right
or the template's.

### SnapSynchronizer

Line numbers of this section refer to `src/lib/SNAPSynchronizerV3_impl.cc`.

*Units* are those of `SnapVoltage`: one item stands for 16 vectors.  Both blocks
call `set_output_multiple(16)`, the 16 vectors of a frame have the same tag, and the
difference of two tags is a multiple of 16 vectors, so that every copy, discard
and return is a whole number of frames.

*The block.*  A call `general_work(n)` is one action, because it touches only the
block's own state and its inputs' read positions:

| Action | Code | |
|---|---|---|
| `Forward(n)` | 94-116 | synchronised: `memcpy`, tags, `consume_each` |
| `Synchronize(n)` | 117-183 | the first tags agree: set the flag, copy, send the message |
| `Discard(n)` | 117-151, 185-200 | they do not: consume the difference to the highest, at most `n` |

The guard `FirstItemsTagged` stands where the code reads `tags[0]` without a
test: `TagsWhenNeeded` is the property that the guard is never what stops a call.
The model lets the scheduler ask for any `n` up to `MaxOut` that `forecast()` (80-86) allows.

*The sources* are `SnapVoltage` reduced to what the block can see: `QueueFrames` is
the frames that a packet completes (zeros for a gap up to `MAX_MISSED_SETS`; with several
packets per frame the frame before, tagged with the packet's timestamp),
`ReturnItems` is the end of a call of `work()`, where tags are dropped as
soon as a sync message has come, `HandleSyncMsg` its delivery, to each source
at a time of its own.  The network keeps the order (reordering is `SnapVoltage`'s subject).
`output`, `tagged`, `start` and `overran` are history.

*Not in the module*: `d_setlock` (one thread calls `general_work()`), the log line.

## 3. Runs

| Run | Shows |
|---|---|
| `volt_single` | one packet per frame, with losses: exact output, bounded work buffer, true tags |
| `volt_reorder` | two packets per frame; packets swapped, repeated, lost, foreign: types, safe pops, tags in step with frames, the sync header comes first, and no frame mixes two timestamps |
| `volt_live` | refinement of `AlignedStream`, with `MAX_MISSED_SETS` above every gap; the account of missed packets; a queued packet is delivered |
| `volt_foreign` (violation) | packets reported as skipped are used |
| `playback` | a file is never read over packets that wait, is played to its last packet, loses only the frames still in the block, restarts where it should; `WORK_DONE` comes |
| `lifecycle` | starts, stops and the destructor against the receive threads: nothing received without queue and socket, nothing left open, `stop()` returns |
| `sync_all` | three inputs, one packet per frame: a tag wherever one is read, aligned outputs, the earliest common start; refinement of `SynchronizedStreams`; the block synchronises and passes on all that all inputs have |
| `sync_gap_tag` (violation) | several packets per frame and one lost frame: synchronised on a wrong tag, misaligned from then on |
| `obs_calm` | scan block, control, operator and flow graph: nothing is pointed before it is tuned; a calm scan publishes its commands (but for the first of a stale restart), ends, and leaves the antennas where it should |
| `obs_restart_on_source` (violation) | a complete on-off scan, stop, start: the on-source command carries `el_off` |
| `obs_overlap` (violation) | two on-off scans: the on-source command carries the other scan's offsets |
| `correlated` | every whole block once; every value in the row whose labels describe it, phased by that row's delays, for files in the reader's order |

**Bounds.**

* `SnapVoltage`: `PacketsPerFrame` 1 or 2 (the code has exactly these two layouts: one packet and
  several), a `d_localqueue` of 3 or 4 packets (so that it overflows), batches of at most 2, at most 2 frames asked
  for per call (so that frames wait between calls), `MAX_MISSED_SETS` 1 or 2 with gaps beyond it (4, above
  every gap, in `volt_live`), and a sender that stops after 2 to 7 timestamps: the code treats all nonzero
  timestamps alike, and 4 include a synchronisation, a filled gap and, in the runs whose
  properties speak of it, one that is too large.
* `SnapPlayback`: six files, each for a case (a late start, foreign records, a filled gap, two gaps of which one is too
  large, exactly one batch, one timestamp, nothing to synchronise on), played once or repeated once, three
  records per batch.
* `SnapLifecycle`: three threads: a first start, a restart, and a thread of the one after it while an
  old thread may still be on its way out; the proofs are for any number.
* `SnapSynchronizer`: three inputs where inputs are compared (two cannot tell "neighbours agree" from "all
  agree"); starts that differ by up to two frames with calls of one or two items, so that a discard is cut to the window; and buffers
  of two or three items, so that an input that is ahead fills its buffer and waits.
* `Observation`: a catalogue name and an azimuth and elevation in `obs_calm`, one target of each of the three kinds in `obs_restart_on_source`; one
  scan thread, two in `obs_overlap`; three acts of the operator of which one falls into a running scan.  The blocks start
  with a target or without.  Three acts are what a complete scan, a stop and a restart need, and so does a calm scan
  that meets a dictionary left by a race or a command left in the queue.  A setter during a run is left out of `obs_calm`:
  it is the code's way to add a second target, see section 5.  A third kind of target would take `obs_calm` beyond its
  time; right ascension and declination, and an elevation above the limit, are in the other two runs and in the theorems.
* `CorrelatedData`: four antennas (ten baselines, where the orders by row and by column differ), three channels, three
  blocks.

**Fairness.**  `FairSpec` of `SnapVoltage` assumes weak fairness of `MmsgReceive` (`runThread()` loops on it
until stop) and of the block's thread as a whole (GNU Radio calls `work()` as long
as there is room downstream).  Nothing is assumed of the network.  `SnapPlayback` assumes it of the reader
and of the block's thread, for the same reasons.  In `SnapSynchronizer`, `FairSpec`
assumes it of `GeneralWork` and of each source's `ReturnItems` (the scheduler
calls a block that has input and room) and of `QueueFrames` (the boards
keep sending, up to the bound); not of the sync message, which no liveness property needs.
In `SnapLifecycle` a `stop()` that was called goes on, and so does every receive thread, which tests
`stop_thread` after every receive (which `stop()` cancels); nothing makes the flow graph start or stop.  In `Observation` some thread
runs while any can, and control handles its queue; which thread is Python's choice, but calls
end.

`CHECK_DEADLOCK` is on in the runs of `SnapVoltage`: a source without packets keeps giving up and
being called again.  It is off elsewhere: a played file ends, a source is destroyed, the reduced sources stop at
`LastTime`, the operator at `MaxActs`, a recording is read.

## 4. Proofs

Every theorem is for all values of the constants that the named assumptions allow.  Every invariant that a
run checks is the statement of a theorem.

`SnapVoltageProofs`, from `SizesAssumption` and `ValuesAssumption`:

* `TypeCorrect`, `PopIsSafe`, `TagsInLockstep`, `WorkBufferIsBounded`.  The invariant
  is `SafeInv`.  `PopSafe` is inductive only with the bound of the circular
  buffer (a full buffer that overwrites keeps its length), `TypeOK` only with
  `TagsPresent` (the sync message's timestamp comes from a tag) and
  `TagsLockstep` (the output loop reads tags by the index of frames).
* `OutputIsExact`, for a network that keeps the order, carries only configured channels and
  does not start at timestamp 0 (`InOrderNetwork`; `volt_foreign` shows that channels matter, section 5
  what timestamp 0 does).  Packets are in order from the SNAP to
  `work()` (`OrderInv`), so that each one taken is not of an earlier time, nor the same as one before
  (`InTurn`); and from that alone (`FramesInv`): `d_last_timestamp` is the latest timestamp taken
  (`TakenInv`), the buffer holds the packets of that timestamp (`FillInv`), and output plus queue
  have one exact frame for every timestamp before it (`QueueInv`).  Each way of taking a packet
  extends the queue by the frames that the packet completes.  `SnapPlaybackProofs` uses the second part again.

`SnapStreamProofs`, on the same invariants:

* `HeaderIsFirst`, for any network.  `HeaderInv` orders what the two threads do: nothing is queued before the
  starting channel, no packet is taken before `work()` has seen `d_send_sync_pmt`, and the packet that the
  message names is the first of the queue until it is taken or overwritten.
* `FramesAreCoherent`, for any network: reordered, repeated or foreign packets break `OutputExact`, but the buffer
  only ever holds data of `d_last_timestamp` (`CoherentInv`).
* `TagsAreTrue`, for one packet per frame and `InOrderNetwork`: the waiting tags go on where the output stops
  (`TagsInv`).  With several packets per frame the tag of a frame is that of the packet that ends it, and
  after a gap that is a later one: `sync_gap_tag`.
* `LedgerBalances`, for `InOrderNetwork`: what `multipacket_frame_pkt_ctr` says is missing is what the buffer
  lacks (`LedgerInv`).  The lemmas are about cardinalities: a frame, or a frame of zeros, that joins the
  others adds its zeros to theirs.
* `StreamIsAligned`, for `InOrderNetwork` and no gap that is left open: every step of the two threads is
  a step of `AlignedStream` or a stutter.  `StreamUntilOverrun` says the same of any stream until the first open gap.

`SnapPlaybackProofs`, from `PlaybackAssumption` as well, for any set of files, any batches and repetitions:

* `PlaybackTypes`.  `PlayInv` adds to `SafeInv` that a count which was true when it was made is not more
  than there is when the wait loop ends (`CountHolds`).
* `ReaderNeverOverwrites`, if the buffer holds a batch on top of the packets that still start one
  (`RoomForABatch`; the code has room for 1000000 and reads at most 1024 more on top of 256).  `QueueFilled`: what
  is queued was there when the batch began or came in it.
* `NothingIsLeftBehind`, if `RoomForABatch`.  `ReadInv`: from the first packet of the starting channel
  on, what the reader has come across was taken or is queued; `EndInv`: the end of a file is final, and
  `WORK_DONE` comes with an empty queue.
* `PlayedOnceIsExact` and `TailIsBounded`, for files in the order of time (`FilesInOrder`: as
  `InOrderNetwork`, but other sources' records may lie between).  `PlayOrderInv` gives `InTurn`, and with it the
  frames of `SnapVoltageProofs`; `LeftBehind` says that between two calls at most the last gap waits.
* `ReplayWrapsAround`, for files in order: `ChainInv` follows the times from the frame being
  filled over the queue to the reader, through the file and around its end, `WrapInv` the
  frames behind it.

`SnapSynchronizerProofs` proves, for any number of inputs and any sizes:

* `TypeCorrect` and `TagsAreThere`, for both layouts.  `TagsWhenNeeded` becomes inductive with the fact that no
  source has heard a sync message before one was sent (`TagInv`).
* `OutputsAreAligned` and `SyncIsEarliest`, for one packet per frame (`sync_gap_tag` shows that
  the other layout breaks the first).  `AlignInv` says of each input that output, discarded items, buffer and
  queue are consecutive timestamps up to the source's last (`InputInv`), that before synchronisation no
  buffer starts later than some input's first timestamp (`DiscardInv`), and that after it all buffers start at
  the same timestamp, and all outputs at the same earlier one (`SyncInv`).
* `SynchronizesStreams`: every step is a step of `SynchronizedStreams` or a stutter, if
  `MaxGap <= MaxMissedSets` (no gap is left open).

The assumptions on the constants (`InputsAssumption`, `BoundsAssumption`, `NoneAssumption`) are sizes and types; the only
restriction on the system is that timestamps are positive, which the code needs as well (section 5).

`SnapLifecycleProofs` proves, for any number of starts:

* `Typing`, `ResourcesAreHeld`, `RestartsAreDeaf`, `CleanedUp` and `OnlyFailedTerminates`.  The invariant
  `Inv` has three parts: until the first stop there is at most one thread and `stop_thread` is clear
  (`FirstRun`); a thread that receives is of that first start and has its queue and input (`Receiving`: `stop()` takes them
  away, but only after a wait that such a thread makes it wait);
  and at each place of `start()` and `stop()` the pointers are what the code before has made them
  (`Progress`).  `RestartedIsDeaf` is inductive only because `stop_thread` is never cleared.

`ObservationProofs` proves, for any numbers of scan threads, targets and acts, and both blocks and modes:

* `TypeCorrect`, with the fact that a thread's job is a call that some handler made (`JobsOK`): without it
  the statements of a job would be any sequence.
* `TunedFirst`: an antenna that points has been tuned, for `is_configured` is set only where the
  frequency was (`TunedInv`).
* `CalmScanCommands`, an action property: a command published in a calm scan is the target's,
  without offsets the first time, with both the second, and control does not raise on it; the first command of a
  restart that found `el_off` (`stale`) is off the target, too, and may raise.  The
  invariant `ScanInv` follows the scan: a thread that is not part of it has nothing to do
  (`CalmInv`), the dictionary holds a part of the target while the handler enters it (`Preparing`), the
  whole of it and the offsets that belong to the scan thread's place (`Scanning`), or what the scan
  leaves (`Over`); a thread's loaded copy is the dictionary itself (`LoadedInv`), which is what
  makes two steps as good as one here and not in `obs_overlap`.
* `CalmScansSettle`: once nothing is left to do, the antennas are where the last command put them
  (`ArrivesInv`: what control has still to handle ends with that command).

`CorrelatedDataProofs` proves, for any number of antennas, channels and blocks:

* `TypeCorrect` and `AllBlocksOnce`.  `DataInv` says that the blocks read are the rows filled (`ReadInv`), and
  that what is phased was cut to whole blocks (`PhaseInv`): then the number of blocks computed from the
  length of the file is the one at which the loop stops, phased or not (`KeptBlocks`).
* `RowsAreLabelled`, for files by frequencies, and `RowsArePhased`.  The program goes through the baselines in three ways, two nested loops and
  one index; all are the inverse of a pair's place *i(i + 1)/2 + j* in the triangle (`PairOf`).
  `BeforeCount` counts the pairs before a pair by a one-to-one map from the numbers below its
  place, `InOrderIs` has from it that the *k*-th pair of the loops is `PairOf(k)`, and `IndexIs` that
  `OriginalIndex` takes the sample of that pair.
* `NoneAssumption` says that "no row yet" is not a row.  (In the program it is a row of zeros, which no one tests.)

Only model-checked: every liveness property (`PacketsDelivered`, `PlaybackEnds`, `StopReturns`, `Synchronizes`,
`AllPassedOn`, `CalmScanCompletes`), as fairness is out of the prover's reach.  The four properties with a
counterexample have no theorem, of course, and neither has alignment with several packets per
frame, which `sync_gap_tag` refutes.  The library's induction theorems take a predicate as a
parameter, which the provers cannot instantiate; `Induction` states instead what well-foundedness gives for *sets*
(`LeastNatural`, `GreatestNatural`), which is enough here.  No module that is proved about declares a
recursive operator.

## 5. Findings

In `PROJECT.json` with the line that each contradicts, the first four with a counterexample:

* packets "skipped" that are used (`volt_foreign`);
* in multi-packet mode a frame before a gap has the tag of the frame after it, and the synchronizer
  synchronises on it (`sync_gap_tag`);
* overlapping scans: the antennas go off-source for an on-source half (`obs_overlap`);
* a scan that ended, a stop and a start: `el_off`, which no one deletes (`onoff.py` 186-187), goes into the on-source
  command, and control raises `KeyError` instead of pointing (`obs_restart_on_source`);
* `src/README.md` (103) contradicts the reader (94), and its own sample (148), about the order of the X-engine's file: one
  of the two is wrong, and the reader takes it for granted (`RowsLabelled`, of one of them only, in `correlated`).

Seen while translating the code, modelled as it is (or left out, where said), with no run of their own:

* a gap above `MAX_MISSED_SETS` is not filled at all and shifts the antenna for good; `OutputExact` and
  `StreamSpec` are stated up to it;
* timestamp 0 means "none yet", so that a stream that starts at 0 has its first two frames merged;
* in one-packet mode a late or repeated packet is a frame of its own and shifts the stream, which is why
  `InOrderNetwork` excludes reordering;
* the synchronizer copies a tag to the item number of its call, so that with several tags in a window they land on wrong items (109);
* a receive thread that outlives the wait in `stop()` writes `threadRunning` of a source that may be freed;
  a pcap file that cannot be opened is passed to `pcap_next()` as a null pointer (1352); leaving a
  multicast group that could not be joined throws in the destructor;
* a repeated file is played from its first record, packets before the first of the starting channel included;
* a setter during a run adds a second target beside the first; the elevation limit is
  tested before the offset is added (`control.py` 316); frequencies of later commands are ignored once
  control is configured;
* phasing: without delays and with `correct_for_delay` false the reader raises; the cut to whole blocks (479) lacks
  a factor of the polarisations; the vectors of a phased file are zero, and where they are computed `current_index` (337, 350) is never advanced, so that all are written to
  row 0, against the comment at 344-345; the descriptor writes `baselines` where the
  reader takes `num_baselines`; the result of `args.antennas.replace` is dropped;
* `point_antennas` does not release its antennas when pointing raises (not modelled).

## 6. Not modelled

* *Spectrometer mode*: dead code.  `work()` and the receive paths test `SNAP_PACKETTYPE_VOLTAGE`, a macro that is 1,
  instead of `d_header_type` (1213), so that no state of it is ever reached.
* *Polled and asynchronous reception*: compiled, never called (`THREAD_RECEIVE` is defined, line 41).
* *IF switch*: one library call per switch with parameters that never change.
* *Pcap tools, pointing and conversion scripts, correlation flowgraphs*: sequential, without state, or set-up
  calls only.  What the flowgraphs connect is `SnapSynchronizer`'s composition.
* *Bindings, block descriptions, tests, examples, documentation generators*: generated or declarative; of the
  repository's Python lines most are the generated readers of doxygen's XML, which is why the modelled share of all lines is small.
* *Samples*: unpacking, the four-bit lookup and the phases' arithmetic; sky coordinates and times of day.

## 7. Plan

What is left, in order of what it adds:

1. A theorem that composes the two ends: the tagged output of `SnapVoltage`, for ordered networks, is a behaviour of the
   reduced sources of `SnapSynchronizer` (the refinement would tie the two models of the source to each other).
2. The synchronizer with several packets per frame and no lost frames: the alignment that `sync_gap_tag` refutes in
   general holds as long as no gap falls before the common start.
3. `SynchronizedStreams` fed by repeated playback, where time goes back on every input.
