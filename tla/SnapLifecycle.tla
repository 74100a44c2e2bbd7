--------------------------- MODULE SnapLifecycle ---------------------------
(***************************************************************************)
(* The life of a SNAP source (lib/snap_source_impl.cc): the flow graph's   *)
(* thread constructs it, calls start() and stop(), perhaps several times,  *)
(* and destroys it; start() creates the receive thread, which runs in      *)
(* runThread().  What the two share are flags without a lock, the socket,  *)
(* the pcap file and the buffers.                                          *)
(***************************************************************************)
EXTENDS Naturals, FiniteSets

CONSTANTS Threads,  \* bound: the receive threads that there can be
          NoThread  \* proc_thread is NULL

ASSUME ThreadsAssumption == NoThread \notin Threads /\ IsFiniteSet(Threads)

VARIABLES
    input,         \* where packets come from: "udp", "mcast" or "pcap"
    phase,         \* what the flow graph has done with the source
    caller,        \* where its thread is in start() or stop(), or "idle"
    destroying,    \* was stop() called by the destructor?
    stop_thread,
    threadRunning,
    proc_thread,   \* the thread start() created, or NoThread
    at,            \* where each receive thread is in runThread()
    pcapFile,      \* "open" or "null"
    d_udpsocket,   \* "open" or "null"
    joined,        \* is the socket a member of the multicast group?
    d_localqueue,  \* "unset", "null" or "held"; localBuffer is the same
    x_vector_buffer, \* "null" or "held"; so are the other buffers
    starts,        \* history: how often start() has returned
    openFailed,    \* history: pcap_open_offline() has failed
    wild           \* history: stop() deleted what it does not own

flowVars   == <<phase, caller, destroying, starts>>
threadVars == <<stop_thread, threadRunning, proc_thread, at>>
memVars    == <<d_localqueue, x_vector_buffer, wild>>
fileVars   == <<pcapFile, openFailed>>
sockVars   == <<d_udpsocket, joined>>
vars == <<input, flowVars, threadVars, memVars, fileVars, sockVars>>

-----------------------------------------------------------------------------
(* start() *)

BeginStart ==
    /\ caller = "idle"
    /\ phase \in {"constructed", "stopped", "failed"}
    /\ \E t \in Threads : at[t] = "none"
    /\ caller' = "socket"
    /\ UNCHANGED <<input, phase, destroying, starts, threadVars, memVars, fileVars, sockVars>>

(* mutant: the group is not joined *)
NotJoined == FALSE

Joined == input = "mcast"

(* The addresses are converted and the socket is made and bound, which fails *)
(* when the address is wrong or the port is in use.                          *)
OpenSocket ==
    /\ caller = "socket"
    /\ input # "pcap" => d_udpsocket = "null"
    /\ d_udpsocket' = IF input = "pcap" THEN d_udpsocket ELSE "open"
    /\ joined' = Joined
    /\ caller' = "allocate"
    /\ UNCHANGED <<input, phase, destroying, starts, threadVars, memVars, fileVars>>

(* start() throws, before it has a socket or because it cannot join the      *)
(* multicast group with it.                                                  *)
StartThrows ==
    /\ caller = "socket"
    /\ input # "pcap"
    /\ \/ UNCHANGED d_udpsocket
       \/ input = "mcast" /\ d_udpsocket = "null" /\ d_udpsocket' = "open"
    /\ UNCHANGED joined
    /\ phase' = "failed"
    /\ caller' = "idle"
    /\ UNCHANGED <<input, destroying, starts, threadVars, memVars, fileVars>>

Allocate ==
    /\ caller = "allocate"
    /\ d_localqueue' = "held"
    /\ x_vector_buffer' = "held"
    /\ caller' = "thread"
    /\ UNCHANGED <<input, phase, destroying, starts, threadVars, wild, fileVars, sockVars>>

(* mutant: a start begins anew *)
Cleared == FALSE

(* start() leaves stop_thread as the last stop() set it. *)
StopAtStart == stop_thread

CreateThread ==
    /\ caller = "thread"
    /\ proc_thread' = CHOOSE t \in Threads : at[t] = "none"
    /\ at' = [at EXCEPT ![proc_thread'] = "created"]
    /\ stop_thread' = StopAtStart
    /\ starts' = starts + 1
    /\ phase' = "running"
    /\ caller' = "idle"
    /\ UNCHANGED <<input, destroying, threadRunning, memVars, fileVars, sockVars>>

Start == BeginStart \/ OpenSocket \/ StartThrows \/ Allocate \/ CreateThread

-----------------------------------------------------------------------------
(* stop(), called by the flow graph or by the destructor. *)

BeginStop ==
    /\ caller = "idle"
    /\ \/ phase = "running" /\ destroying' = FALSE
       \/ phase \notin {"destroyed", "terminated"} /\ destroying' = TRUE
    /\ stop_thread' = TRUE
    /\ caller' = "wait"
    /\ UNCHANGED <<input, phase, starts, threadRunning, proc_thread, at, memVars, fileVars,
                   sockVars>>

(* The wait is for the flag, not for the thread. *)
EndWait ==
    /\ caller = "wait"
    /\ proc_thread # NoThread => ~threadRunning
    /\ proc_thread' = NoThread
    /\ caller' = "close"
    /\ UNCHANGED <<input, phase, destroying, starts, stop_thread, threadRunning, at, memVars,
                   fileVars, sockVars>>

(* mutant: the socket is left to the next start *)
LeftOpen == d_udpsocket

Closed == "null"

(* Leaving a group that start() could not join throws. *)
LeaveFails == input = "mcast" /\ d_udpsocket = "open" /\ ~joined

CloseInput ==
    /\ caller = "close"
    /\ ~LeaveFails
    /\ pcapFile' = "null"
    /\ d_udpsocket' = Closed
    /\ joined' = FALSE
    /\ caller' = "free"
    /\ UNCHANGED <<input, phase, destroying, starts, threadVars, memVars, openFailed>>

(* A source whose start() failed is not stopped but destroyed: an exception  *)
(* in a destructor ends the program.                                         *)
CloseThrows ==
    /\ caller = "close"
    /\ LeaveFails
    /\ pcapFile' = "null"
    /\ phase' = "terminated"
    /\ caller' = "idle"
    /\ UNCHANGED <<input, destroying, starts, threadVars, memVars, openFailed, sockVars>>

(* mutant: the pointer is kept *)
Dangling(p) == IF p = "held" THEN "unset" ELSE p

Freed(p) == "null"

(* delete of a pointer that is not NULL.  One that was never set may be      *)
(* anything.                                                                 *)
FreeBuffers ==
    /\ caller = "free"
    /\ d_localqueue' = Freed(d_localqueue)
    /\ x_vector_buffer' = Freed(x_vector_buffer)
    /\ wild' \in IF "unset" \in {d_localqueue, x_vector_buffer} THEN BOOLEAN ELSE {wild}
    /\ wild => wild'
    /\ phase' = IF destroying THEN "destroyed" ELSE "stopped"
    /\ caller' = "idle"
    /\ UNCHANGED <<input, destroying, starts, threadVars, fileVars, sockVars>>

Stop == BeginStop \/ EndWait \/ CloseInput \/ CloseThrows \/ FreeBuffers

-----------------------------------------------------------------------------
(* A receive thread: runThread(). *)

EnterThread(t) ==
    /\ at[t] = "created"
    /\ at' = [at EXCEPT ![t] = "test"]
    /\ threadRunning' = TRUE
    /\ UNCHANGED <<input, flowVars, stop_thread, proc_thread, memVars, fileVars, sockVars>>

TestStop(t) ==
    /\ at[t] = "test"
    /\ at' = [at EXCEPT ![t] = IF stop_thread THEN "leave" ELSE "receive"]
    /\ UNCHANGED <<input, flowVars, stop_thread, threadRunning, proc_thread, memVars, fileVars,
                   sockVars>>

(* mmsg_receive() or queue_pcap_data(), which opens a file at its end again. *)
Receive(t) ==
    /\ at[t] = "receive"
    /\ at' = [at EXCEPT ![t] = "test"]
    /\ \/ UNCHANGED fileVars
       \/ /\ input = "pcap"
          /\ pcapFile' \in {"open", "null"}
          /\ openFailed' = (openFailed \/ pcapFile' = "null")
    /\ UNCHANGED <<input, flowVars, stop_thread, threadRunning, proc_thread, memVars,
                   sockVars>>

(* mutant: the flag stays *)
StillRunning == threadRunning

RunningAfterLoop == FALSE

LeaveThread(t) ==
    /\ at[t] = "leave"
    /\ at' = [at EXCEPT ![t] = "ended"]
    /\ threadRunning' = RunningAfterLoop
    /\ UNCHANGED <<input, flowVars, stop_thread, proc_thread, memVars, fileVars, sockVars>>

ThreadStep(t) ==
    /\ phase # "terminated"
    /\ EnterThread(t) \/ TestStop(t) \/ Receive(t) \/ LeaveThread(t)

-----------------------------------------------------------------------------
(* The constructor opens a pcap file; that it can be read was tested, that   *)
(* it is a pcap file was not.                                                *)
Init ==
    /\ input \in {"udp", "mcast", "pcap"}
    /\ phase = "constructed"
    /\ caller = "idle"
    /\ destroying = FALSE
    /\ stop_thread = FALSE
    /\ threadRunning = FALSE
    /\ proc_thread = NoThread
    /\ at = [t \in Threads |-> "none"]
    /\ pcapFile \in IF input = "pcap" THEN {"open", "null"} ELSE {"null"}
    /\ openFailed = (input = "pcap" /\ pcapFile = "null")
    /\ d_udpsocket = "null"
    /\ joined = FALSE
    /\ d_localqueue = "unset"
    /\ x_vector_buffer = "null"
    /\ starts = 0
    /\ wild = FALSE

Next == Start \/ Stop \/ \E t \in Threads : ThreadStep(t)

Spec == Init /\ [][Next]_vars

(* A stop() that was called goes on, and so does every thread. *)
FairSpec == Spec /\ WF_vars(EndWait \/ CloseInput \/ CloseThrows \/ FreeBuffers)
                 /\ \A t \in Threads : WF_vars(ThreadStep(t))
-----------------------------------------------------------------------------
(* Properties. *)

Places == {"none", "created", "test", "receive", "leave", "ended"}

FlagsOK ==
    /\ destroying \in BOOLEAN /\ stop_thread \in BOOLEAN /\ threadRunning \in BOOLEAN
    /\ openFailed \in BOOLEAN /\ wild \in BOOLEAN /\ joined \in BOOLEAN

PartsOK ==
    /\ input \in {"udp", "mcast", "pcap"}
    /\ phase \in {"constructed", "running", "stopped", "failed", "destroyed", "terminated"}
    /\ caller \in {"idle", "socket", "allocate", "thread", "wait", "close", "free"}
    /\ proc_thread \in Threads \cup {NoThread}
    /\ at \in [Threads -> Places]
    /\ pcapFile \in {"open", "null"}
    /\ d_udpsocket \in {"open", "null"}
    /\ d_localqueue \in {"unset", "null", "held"}
    /\ x_vector_buffer \in {"null", "held"}
    /\ starts \in Nat

TypeOK == FlagsOK /\ PartsOK

(* A thread that receives has a queue to push into and a socket or file to   *)
(* read from, unless the file could not be opened.  stop() waits for a flag  *)
(* that the thread itself sets (482, 1546): a thread that has not set it yet *)
(* outlives the wait and the buffers, but it never gets to use them.         *)
ResourcesHeld ==
    \A t \in Threads : at[t] = "receive" =>
        /\ d_localqueue = "held"
        /\ input # "pcap" => d_udpsocket = "open"
        /\ input = "pcap" /\ ~openFailed => pcapFile = "open"

(* The threads of later starts never receive anything: stop_thread, which    *)
(* the first stop() sets (474), is never reset.                              *)
RestartedIsDeaf == starts > 1 => \A t \in Threads : at[t] # "receive"

(* stop() cleans up what the source owns and nothing else: one that start()  *)
(* has returned for once deletes only its own, however often it is stopped,  *)
(* started, fails to start, and is destroyed; and a destroyed source leaves  *)
(* no open socket or file and no buffer, whichever of its starts failed.     *)
CleansUp ==
    /\ wild => starts = 0
    /\ phase = "destroyed" =>
        /\ pcapFile = "null" /\ d_udpsocket = "null"
        /\ d_localqueue = "null" /\ x_vector_buffer = "null"

(* Destroying a source ends the program only if its last start() threw: one  *)
(* that was started again and stopped in between is a member of its group    *)
(* when stop() leaves it (491-497).                                          *)
TerminatesFailedOnly == [][phase' = "terminated" => phase = "failed"]_vars

(* stop() returns: whatever the old threads do with the flag it waits for.   *)
StopReturns == caller = "wait" ~> caller = "idle"
=============================================================================
