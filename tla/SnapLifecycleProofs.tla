------------------------ MODULE SnapLifecycleProofs ------------------------
(***************************************************************************)
(* Proofs about SnapLifecycle, for any number of restarts: a thread that   *)
(* receives has what it needs, and only that of the first start does.      *)
(***************************************************************************)
EXTENDS SnapLifecycle, TLAPS

(* start() began with a thread to spare, so that there is one to create.     *)
Spare == caller \in {"socket", "allocate", "thread"} => \E t \in Threads : at[t] = "none"

(* The flags stay Booleans.                                                  *)
LEMMA FlagsStep == FlagsOK /\ [Next]_vars => FlagsOK'
<1> SUFFICES ASSUME FlagsOK, [Next]_vars PROVE FlagsOK'
  OBVIOUS
<1> USE DEF FlagsOK, flowVars, threadVars, memVars, fileVars, sockVars
<1>1. CASE BeginStart
  BY <1>1, Zenon DEF BeginStart
<1>2. CASE OpenSocket
  BY <1>2, Zenon DEF OpenSocket, Joined
<1>3. CASE StartThrows
  BY <1>3, Zenon DEF StartThrows
<1>4. CASE Allocate
  BY <1>4, Zenon DEF Allocate
<1>5. CASE CreateThread
  BY <1>5, Zenon DEF CreateThread, StopAtStart
<1>6. CASE BeginStop
  BY <1>6, Zenon DEF BeginStop
<1>7. CASE EndWait
  BY <1>7, Zenon DEF EndWait
<1>8. CASE CloseInput
  BY <1>8, Zenon DEF CloseInput, Closed
<1>9. CASE FreeBuffers
  BY <1>9, Zenon DEF FreeBuffers, Freed
<1>12. CASE CloseThrows
  BY <1>12, Zenon DEF CloseThrows
<1>10. ASSUME NEW t \in Threads, ThreadStep(t) PROVE FlagsOK'
  <2>1. CASE EnterThread(t)
    BY <2>1, Zenon DEF EnterThread
  <2>2. CASE TestStop(t)
    BY <2>2, Zenon DEF TestStop
  <2>3. CASE Receive(t)
    BY <2>3, Zenon DEF Receive
  <2>4. CASE LeaveThread(t)
    BY <2>4, Zenon DEF LeaveThread, RunningAfterLoop
  <2> QED
    BY <1>10, <2>1, <2>2, <2>3, <2>4 DEF ThreadStep
<1>11. CASE UNCHANGED vars
  BY <1>11, Zenon DEF vars
<1> QED
  BY <1>1, <1>2, <1>3, <1>4, <1>5, <1>6, <1>7, <1>8, <1>9, <1>10, <1>11, <1>12, Zenon DEF Next, Start, Stop

(* The other types are kept, and a spare thread is there when it is needed.  *)
LEMMA PartsStep == PartsOK /\ Spare /\ [Next]_vars => PartsOK' /\ Spare'
<1> SUFFICES ASSUME PartsOK, Spare, [Next]_vars PROVE PartsOK' /\ Spare'
  OBVIOUS
<1> USE DEF PartsOK, Spare, Places, flowVars, threadVars, memVars, fileVars, sockVars
<1>1. CASE BeginStart
  BY <1>1 DEF BeginStart
<1>2. CASE OpenSocket
  BY <1>2 DEF OpenSocket, Joined
<1>3. CASE StartThrows
  BY <1>3 DEF StartThrows
<1>4. CASE Allocate
  BY <1>4 DEF Allocate
<1>5. CASE CreateThread
  BY <1>5 DEF CreateThread, StopAtStart
<1>6. CASE BeginStop
  BY <1>6 DEF BeginStop
<1>7. CASE EndWait
  BY <1>7 DEF EndWait
<1>8. CASE CloseInput
  BY <1>8 DEF CloseInput, Closed
<1>9. CASE FreeBuffers
  BY <1>9 DEF FreeBuffers, Freed
<1>12. CASE CloseThrows
  BY <1>12 DEF CloseThrows
<1>10. ASSUME NEW t \in Threads, ThreadStep(t) PROVE PartsOK' /\ Spare'
  <2>1. CASE EnterThread(t)
    BY <2>1 DEF EnterThread
  <2>2. CASE TestStop(t)
    BY <2>2 DEF TestStop
  <2>3. CASE Receive(t)
    BY <2>3 DEF Receive
  <2>4. CASE LeaveThread(t)
    BY <2>4 DEF LeaveThread, RunningAfterLoop
  <2> QED
    BY <1>10, <2>1, <2>2, <2>3, <2>4 DEF ThreadStep
<1>11. CASE UNCHANGED vars
  BY <1>11 DEF vars
<1> QED
  BY <1>1, <1>2, <1>3, <1>4, <1>5, <1>6, <1>7, <1>8, <1>9, <1>10, <1>11, <1>12 DEF Next, Start, Stop

(* TypeOK holds for any number of threads.                                   *)
THEOREM Typing == Spec => []TypeOK
<1>1. Init => FlagsOK
  BY Zenon DEF Init, FlagsOK
<1>2. Init => PartsOK /\ Spare
  BY DEF Init, PartsOK, Spare, Places
<1> QED
  BY <1>1, <1>2, FlagsStep, PartsStep, PTL DEF Spec, TypeOK

-----------------------------------------------------------------------------
(* What a thread needs to receive. *)
Equipped ==
    /\ d_localqueue = "held"
    /\ input # "pcap" => d_udpsocket = "open"
    /\ input = "pcap" /\ ~openFailed => pcapFile = "open"

(* Before the first stop(): there is no thread, or there is one, that the    *)
(* source knows of, is equipped and has said so when it runs.                *)
FirstRun ==
    ~stop_thread =>
        /\ phase \in {"constructed", "failed", "running"}
        /\ caller \in {"idle", "socket", "allocate", "thread"}
        /\ input = "pcap" /\ ~openFailed => pcapFile = "open"
        /\ phase # "running" => starts = 0 /\ \A t \in Threads : at[t] = "none"
        /\ phase = "running" =>
               /\ caller = "idle"
               /\ starts = 1
               /\ Equipped
               /\ proc_thread \in Threads
               /\ at[proc_thread] \in {"created", "test", "receive"}
               /\ at[proc_thread] # "created" => threadRunning
               /\ \A u \in Threads \ {proc_thread} : at[u] = "none"

(* A thread that receives is that of the first start, and stop() waits for it. *)
Receiving == \A t \in Threads : at[t] = "receive" =>
    /\ Equipped
    /\ starts = 1
    /\ phase = "running"
    /\ caller = "wait" \/ (caller = "idle" /\ ~stop_thread)
    /\ threadRunning
    /\ proc_thread = t
    /\ \A u \in Threads \ {t} : at[u] = "none"

(* How far start() and stop() have come. *)
Progress ==
    /\ caller \in {"allocate", "thread"} /\ input # "pcap" => d_udpsocket = "open"
    /\ caller = "thread" \/ starts > 0 => d_localqueue # "unset"
    /\ caller = "thread" => d_localqueue = "held"
    /\ caller \in {"socket", "allocate", "thread"} => Threads # {}
    /\ caller \in {"socket", "allocate", "thread"} => phase \in {"constructed", "stopped", "failed"}
    /\ caller \in {"wait", "close", "free"} /\ starts = 0 => destroying
    /\ caller \in {"wait", "close", "free"} /\ ~destroying => phase = "running"
    /\ phase = "running" \/ phase = "stopped" => starts > 0
    /\ caller = "free" => pcapFile = "null" /\ d_udpsocket = "null"
    /\ phase \in {"destroyed", "terminated"} => caller = "idle"
    /\ wild => starts = 0 /\ phase = "destroyed"
    /\ caller \in {"allocate", "thread"} /\ input = "mcast" => joined
    /\ input = "mcast" /\ d_udpsocket = "open" /\ ~joined
         => phase \in {"failed", "terminated"}
    /\ CleansUp

Inv == FirstRun /\ Receiving /\ Progress

(* Inv is inductive: only the thread of the first start comes to receive,    *)
(* and stop() takes nothing away while it does.                              *)
LEMMA InvStep == TypeOK /\ Inv /\ [Next]_vars => Inv'
<1> SUFFICES ASSUME TypeOK, Inv, [Next]_vars PROVE Inv'
  OBVIOUS
<1> USE DEF TypeOK, FlagsOK, PartsOK, Places, Inv, flowVars, threadVars, memVars, fileVars, sockVars
<1>1. CASE BeginStart
  <2>1. FirstRun'
      BY <1>1 DEF BeginStart, FirstRun, Equipped
  <2>2. Receiving'
      BY <1>1 DEF BeginStart, Receiving, Equipped, FirstRun
  <2>3. Progress'
      BY <1>1 DEF BeginStart, Progress, CleansUp, Receiving
  <2> QED
      BY <2>1, <2>2, <2>3
<1>2. CASE OpenSocket
  <2>1. FirstRun'
      BY <1>2 DEF OpenSocket, Joined, FirstRun, Equipped
  <2>2. Receiving'
      BY <1>2 DEF OpenSocket, Joined, Receiving, Equipped, FirstRun
  <2>3. Progress'
      BY <1>2 DEF OpenSocket, Joined, Progress, CleansUp, Receiving
  <2> QED
      BY <2>1, <2>2, <2>3
<1>3. CASE StartThrows
  <2>1. FirstRun'
      BY <1>3 DEF StartThrows, FirstRun, Equipped
  <2>2. Receiving'
      BY <1>3 DEF StartThrows, Receiving, Equipped, FirstRun
  <2>3. Progress'
      BY <1>3 DEF StartThrows, Progress, CleansUp, Receiving
  <2> QED
      BY <2>1, <2>2, <2>3
<1>4. CASE Allocate
  <2>1. FirstRun'
      BY <1>4 DEF Allocate, FirstRun, Equipped
  <2>2. Receiving'
      BY <1>4 DEF Allocate, Receiving, Equipped, FirstRun
  <2>3. Progress'
      BY <1>4 DEF Allocate, Progress, CleansUp, Receiving
  <2> QED
      BY <2>1, <2>2, <2>3
<1>5. CASE CreateThread
  <2>1. FirstRun'
    <3> SUFFICES ASSUME ~stop_thread' PROVE FirstRun'
      BY DEF FirstRun
    <3>1. ~stop_thread /\ caller = "thread" /\ caller' = "idle" /\ phase' = "running"
      BY <1>5, Zenon DEF CreateThread, StopAtStart
    <3>2. starts = 0 /\ \A t \in Threads : at[t] = "none"
      BY <3>1 DEF FirstRun, Progress
    <3>3. Threads # {} /\ Equipped /\ Equipped'
      BY <1>5, <3>1 DEF CreateThread, FirstRun, Progress, Equipped
    <3>4. proc_thread' \in Threads
      BY <1>5, <3>2, <3>3, Zenon DEF CreateThread
    <3>5. at' = [at EXCEPT ![proc_thread'] = "created"] /\ starts' = starts + 1
      BY <1>5, Zenon DEF CreateThread
    <3>6. at'[proc_thread'] = "created" /\ \A u \in Threads \ {proc_thread'} : at'[u] = "none"
      BY <3>2, <3>4, <3>5
    <3>7. starts' = 1
      BY <3>2, <3>5
    <3>8. input' = "pcap" /\ ~openFailed' => pcapFile' = "open"
      BY <3>3, Zenon DEF Equipped
    <3> QED
      BY <3>1, <3>3, <3>4, <3>6, <3>7, <3>8 DEF FirstRun
  <2>2. Receiving'
      BY <1>5 DEF CreateThread, StopAtStart, Receiving, Equipped, FirstRun
  <2>3. Progress'
      BY <1>5 DEF CreateThread, StopAtStart, Progress, CleansUp, Receiving
  <2> QED
      BY <2>1, <2>2, <2>3
<1>6. CASE BeginStop
  <2>1. FirstRun'
      BY <1>6 DEF BeginStop, FirstRun, Equipped
  <2>2. Receiving'
      BY <1>6 DEF BeginStop, Receiving, Equipped, FirstRun
  <2>3. Progress'
      BY <1>6 DEF BeginStop, Progress, CleansUp, Receiving
  <2> QED
      BY <2>1, <2>2, <2>3
<1>7. CASE EndWait
  <2>1. FirstRun'
      BY <1>7 DEF EndWait, FirstRun, Equipped
  <2>2. Receiving'
      BY <1>7, ThreadsAssumption DEF EndWait, Receiving, Equipped, FirstRun
  <2>3. Progress'
      BY <1>7 DEF EndWait, Progress, CleansUp, Receiving
  <2> QED
      BY <2>1, <2>2, <2>3
<1>8. CASE CloseInput
  <2>1. FirstRun'
      BY <1>8 DEF CloseInput, Closed, FirstRun, Equipped
  <2>2. Receiving'
      BY <1>8 DEF CloseInput, Closed, Receiving, Equipped, FirstRun
  <2>3. Progress'
      BY <1>8 DEF CloseInput, Closed, Progress, CleansUp, Receiving
  <2> QED
      BY <2>1, <2>2, <2>3
<1>9. CASE FreeBuffers
  <2>1. FirstRun'
      BY <1>9 DEF FreeBuffers, Freed, FirstRun, Equipped
  <2>2. Receiving'
      BY <1>9 DEF FreeBuffers, Freed, Receiving, Equipped, FirstRun
  <2>3. Progress'
      BY <1>9 DEF FreeBuffers, Freed, Progress, CleansUp, Receiving
  <2> QED
      BY <2>1, <2>2, <2>3
<1>12. CASE CloseThrows
  <2>1. FirstRun'
      BY <1>12 DEF CloseThrows, FirstRun, Equipped
  <2>2. Receiving'
      BY <1>12 DEF CloseThrows, Receiving, Equipped, FirstRun
  <2>3. Progress'
      BY <1>12 DEF CloseThrows, LeaveFails, Progress, CleansUp, Receiving
  <2> QED
      BY <2>1, <2>2, <2>3
<1>10. ASSUME NEW t \in Threads, ThreadStep(t) PROVE Inv'
  <2>1. CASE EnterThread(t)
      <3>1. FirstRun'
        BY <2>1 DEF EnterThread, FirstRun, Equipped
      <3>2. Receiving'
        BY <2>1 DEF EnterThread, Receiving, Equipped, FirstRun
      <3>3. Progress'
        BY <2>1 DEF EnterThread, Progress, CleansUp, Receiving
      <3> QED
        BY <3>1, <3>2, <3>3
  <2>2. CASE TestStop(t)
      <3>1. FirstRun'
        BY <2>2 DEF TestStop, FirstRun, Equipped
      <3>2. Receiving'
        BY <2>2 DEF TestStop, Receiving, Equipped, FirstRun
      <3>3. Progress'
        BY <2>2 DEF TestStop, Progress, CleansUp, Receiving
      <3> QED
        BY <3>1, <3>2, <3>3
  <2>3. CASE Receive(t)
      <3>1. FirstRun'
        BY <2>3 DEF Receive, FirstRun, Equipped
      <3>2. Receiving'
        BY <2>3 DEF Receive, Receiving, Equipped, FirstRun
      <3>3. Progress'
        BY <2>3 DEF Receive, Progress, CleansUp, Receiving
      <3> QED
        BY <3>1, <3>2, <3>3
  <2>4. CASE LeaveThread(t)
      <3>1. FirstRun'
        BY <2>4 DEF LeaveThread, RunningAfterLoop, FirstRun, Equipped
      <3>2. Receiving'
        BY <2>4 DEF LeaveThread, RunningAfterLoop, Receiving, Equipped, FirstRun
      <3>3. Progress'
        BY <2>4 DEF LeaveThread, RunningAfterLoop, Progress, CleansUp, Receiving
      <3> QED
        BY <3>1, <3>2, <3>3
  <2> QED
    BY <1>10, <2>1, <2>2, <2>3, <2>4 DEF ThreadStep
<1>11. CASE UNCHANGED vars
  BY <1>11 DEF vars, FirstRun, Receiving, Progress, Equipped, CleansUp
<1> QED
  BY <1>1, <1>2, <1>3, <1>4, <1>5, <1>6, <1>7, <1>8, <1>9, <1>10, <1>11, <1>12 DEF Next, Start, Stop

(* It holds in the beginning. *)
LEMMA InvInit == Init => Inv
<1> SUFFICES ASSUME Init PROVE Inv
  OBVIOUS
<1>1. input = "pcap" /\ ~openFailed => pcapFile = "open"
  <2>1. openFailed = (input = "pcap" /\ pcapFile = "null")
    BY Zenon DEF Init
  <2>2. input = "pcap" => pcapFile \in {"open", "null"}
    BY DEF Init
  <2> QED
    BY <2>1, <2>2, Zenon
<1>2. \A t \in Threads : at[t] = "none"
  BY DEF Init
<1>3. phase = "constructed" /\ caller = "idle" /\ starts = 0
  BY Zenon DEF Init
<1>4. ~wild /\ d_udpsocket = "null"
  BY Zenon DEF Init
<1>5. FirstRun
  BY <1>1, <1>2, <1>3 DEF FirstRun
<1>6. Receiving
  BY <1>2 DEF Receiving
<1>7. Progress
  BY <1>3, <1>4 DEF Progress, CleansUp
<1> QED
  BY <1>5, <1>6, <1>7 DEF Inv

(* Inv holds for any number of threads.                                      *)
LEMMA Invariance == Spec => []Inv
BY InvInit, InvStep, Typing, PTL DEF Spec

(* A thread that receives has its queue and its socket or file, however      *)
(* start() and stop() interleave with it and whatever outlives stop().       *)
THEOREM ResourcesAreHeld == Spec => []ResourcesHeld
<1>1. Inv => ResourcesHeld
  BY DEF Inv, Receiving, Equipped, ResourcesHeld
<1> QED
  BY <1>1, Invariance, PTL

(* No thread of a later start receives anything.                             *)
THEOREM RestartsAreDeaf == Spec => []RestartedIsDeaf
<1>1. Inv => RestartedIsDeaf
  BY DEF Inv, Receiving, RestartedIsDeaf
<1> QED
  BY <1>1, Invariance, PTL

(* stop() cleans up what the source owns and nothing else.                   *)
THEOREM CleanedUp == Spec => []CleansUp
<1>1. Inv => CleansUp
  BY DEF Inv, Progress
<1> QED
  BY <1>1, Invariance, PTL

(* Only a source whose last start() threw ends the program.                  *)
THEOREM OnlyFailedTerminates == Spec => TerminatesFailedOnly
<1>1. TypeOK /\ Inv /\ [Next]_vars => [phase' = "terminated" => phase = "failed"]_vars
  <2> SUFFICES ASSUME TypeOK, Inv, Next, phase' = "terminated" PROVE phase = "failed"
    OBVIOUS
  <2> USE DEF flowVars, threadVars, memVars, fileVars, sockVars
  <2>1. CASE CloseThrows
    BY <2>1 DEF CloseThrows, LeaveFails, Inv, Progress
  <2>2. CASE Start \/ BeginStop \/ EndWait \/ CloseInput \/ FreeBuffers
    BY <2>2 DEF Start, BeginStart, OpenSocket, StartThrows, Allocate, CreateThread, BeginStop,
                EndWait, CloseInput, FreeBuffers, Inv, Progress
  <2>3. ASSUME NEW t \in Threads, ThreadStep(t) PROVE FALSE
    BY <2>3 DEF ThreadStep, EnterThread, TestStop, Receive, LeaveThread
  <2> QED
    BY <2>1, <2>2, <2>3 DEF Next, Stop
<1> QED
  BY <1>1, Invariance, Typing, PTL DEF Spec, TerminatesFailedOnly
=============================================================================
