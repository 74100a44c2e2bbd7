------------------------- MODULE ObservationProofs -------------------------
(***************************************************************************)
(* Proofs about Observation: its types, that nothing is pointed before it  *)
(* is tuned, and that a scan which begins when nothing is going on sends   *)
(* its commands and no others, whatever number of threads, targets and     *)
(* acts of the operator there is.                                          *)
(***************************************************************************)
EXTENDS Observation, SequenceTheorems, TLAPS

-----------------------------------------------------------------------------
(* The bodies of the methods. *)

(* A good message's value is one of the values, and not the absence of one.  *)
LEMMA GoodValue ==
    ASSUME NEW m \in Good
    PROVE  /\ m \in Message
           /\ m.key \in {"source_id", "radec", "azel"}
           /\ m.val \in Values /\ m.val # None /\ m.val \in Places
           /\ m.key = "source_id" => m.val \in Ids
           /\ m.key = "radec" => m.val \in RaDecs
           /\ m.key = "azel" => m.val \in AzEls
BY PlacesAssumption DEF Good, Message, Values, Places

(* NoMessage, and with it NoTarget, is a message.                            *)
LEMMA NoMessageType == NoMessage \in Message /\ NoTarget \in Message /\ NoMessage = NoTarget
BY DEF NoMessage, NoTarget, Message

(* The keys of a message.                                                    *)
LEMMA MessageKinds ==
    ASSUME NEW m \in Message
    PROVE  /\ m.key \in {"source_id", "radec", "azel", "malformed", "wrong"}
           /\ m.key \in {"source_id", "radec", "azel"} => m \in Good
           /\ m.val \in Values \cup {None}
BY DEF Good, Message, Values, Places

(* A statement of each form is a statement.                                  *)
LEMMA StatementTypes ==
    /\ \A k \in Keys, v \in Values \cup {None} : Add(k, v) \in Statement
    /\ \A k \in Keys : Delete(k) \in Statement
    /\ \A w \in {"publish", "sleep", "spawn", "raise"} : Do(w) \in Statement
BY DEF Add, Delete, Do, Statement, Keys, SourceKeys, OffsetKeys

(* The parts that the bodies consist of are sequences of statements.         *)
LEMMA PartTypes ==
    /\ DeleteTarget \in Seq(Statement)
    /\ DeleteOffsets \in Seq(Statement)
    /\ WaitDuration \in Seq(Statement)
    /\ \A b \in {"onoff", "track"} : Launch(b) \in Seq(Statement) /\ Start(b) \in Seq(Statement)
    /\ \A m \in Message : Enter(m) \in Seq(Statement)
<1>1. "source_id" \in Keys /\ "ra" \in Keys /\ "dec" \in Keys /\ "az" \in Keys /\ "el" \in Keys
      /\ "az_off" \in Keys /\ "el_off" \in Keys
  BY DEF Keys, SourceKeys, OffsetKeys
<1>2. DeleteTarget \in Seq(Statement) /\ DeleteOffsets \in Seq(Statement)
  BY <1>1, StatementTypes DEF DeleteTarget, DeleteOffsets
<1>3. WaitDuration \in Seq(Statement)
  <2>1. Offset \in Values \cup {None}
    BY DEF Values
  <2> QED
    BY <1>1, <2>1, StatementTypes DEF WaitDuration
<1>4. \A b \in {"onoff", "track"} : Launch(b) \in Seq(Statement) /\ Start(b) \in Seq(Statement)
  <2>1. <<Do("spawn")>> \in Seq(Statement) /\ <<Do("publish")>> \in Seq(Statement)
    BY StatementTypes
  <2> QED
    BY <1>2, <2>1, ConcatProperties DEF Launch, Start
<1>5. ASSUME NEW m \in Message PROVE Enter(m) \in Seq(Statement)
  BY <1>1, MessageKinds, StatementTypes DEF Enter
<1> QED
  BY <1>2, <1>3, <1>4, <1>5

(* The body of every call is a sequence of statements.                       *)
LEMMA BodyType ==
    ASSUME NEW b \in {"onoff", "track"}, NEW call \in Call
    PROVE  Body(b, call) \in Seq(Statement)
<1>1. call.msg \in Message
  BY DEF Call
<1>2. HandleMsg(b, call.msg) \in Seq(Statement)
  <2>1. <<Do("raise")>> \in Seq(Statement) /\ <<>> \in Seq(Statement)
    BY StatementTypes
  <2>2. Enter(call.msg) \o Launch(b) \in Seq(Statement)
    BY <1>1, PartTypes, ConcatProperties
  <2>3. (CASE call.msg.key = "malformed" -> <<Do("raise")>>
           [] call.msg.key = "wrong" -> <<>>
           [] OTHER -> Enter(call.msg) \o Launch(b)) \in Seq(Statement)
    BY <2>1, <2>2
  <2> QED
    BY <2>3, PartTypes, ConcatProperties DEF HandleMsg
<1> QED
  BY <1>1, <1>2, PartTypes DEF Body

(* Nothing has no statements.                                                *)
LEMMA NothingHasNoBody == /\ Nothing \in Call
                          /\ \A b : Body(b, Nothing) = <<>>
BY NoMessageType DEF Body, Nothing, Invoke, Call

(* The calls are calls.                                                      *)
LEMMA CallTypes ==
    /\ \A m \in Message : Invoke("handle_msg", m) \in Call /\ Invoke("set", m) \in Call
    /\ Invoke("start", NoMessage) \in Call /\ Invoke("wait_duration", NoMessage) \in Call
    /\ \A m : Nothing # Invoke("handle_msg", m)
    /\ Nothing # Invoke("start", NoMessage) /\ Nothing # Invoke("wait_duration", NoMessage)
BY NoMessageType DEF Invoke, Call, Nothing

(* The calls that are ever made: none without a statement.                   *)
Calls == {Nothing, Invoke("start", NoMessage), Invoke("wait_duration", NoMessage)}
           \cup {Invoke("handle_msg", m) : m \in Message} \cup {Invoke("set", m) : m \in Good}

(* The calls that are ever made are calls, and have something to do.         *)
LEMMA CallsType == Calls \subseteq Call
BY CallTypes, NothingHasNoBody, GoodValue DEF Calls

(* A busy thread has a statement to execute.                                 *)
LEMMA BusyHasBody ==
    ASSUME NEW b \in {"onoff", "track"}, NEW call \in Calls, call # Nothing
    PROVE  /\ Body(b, call) \in Seq(Statement)
           /\ Len(Body(b, call)) \in Nat \ {0}
<1>1. Body(b, call) \in Seq(Statement)
  BY BodyType, CallsType
<1>2. Body(b, call) # <<>>
  <2>1. CASE call = Invoke("start", NoMessage)
    <3>1. Body(b, call) = Start(b)
      BY <2>1 DEF Body, Invoke
    <3> QED
      BY <3>1 DEF Start
  <2>2. CASE call = Invoke("wait_duration", NoMessage)
    <3>1. Body(b, call) = WaitDuration
      BY <2>2 DEF Body, Invoke
    <3> QED
      BY <3>1 DEF WaitDuration
  <2>3. CASE \E m \in Message : call = Invoke("handle_msg", m)
    <3>1. PICK m \in Message : call = Invoke("handle_msg", m)
      BY <2>3
    <3>2. Body(b, call) = HandleMsg(b, m)
      BY <3>1 DEF Body, Invoke
    <3> DEFINE rest == CASE m.key = "malformed" -> <<Do("raise")>>
                         [] m.key = "wrong" -> <<>>
                         [] OTHER -> Enter(m) \o Launch(b)
    <3>3. rest \in Seq(Statement)
      <4>1. <<Do("raise")>> \in Seq(Statement) /\ <<>> \in Seq(Statement)
        BY StatementTypes
      <4>2. Enter(m) \o Launch(b) \in Seq(Statement)
        BY PartTypes, ConcatProperties
      <4> QED
        BY <4>1, <4>2
    <3>4. HandleMsg(b, m) = DeleteTarget \o rest
      BY DEF HandleMsg
    <3> HIDE DEF rest
    <3>5. Len(DeleteTarget \o rest) = Len(DeleteTarget) + Len(rest)
      BY <3>3, PartTypes, ConcatProperties
    <3>6. Len(DeleteTarget) = 5 /\ Len(rest) \in Nat
      BY <3>3, LenProperties DEF DeleteTarget
    <3>7. Len(<<>>) = 0
      BY EmptySeq
    <3> QED
      BY <3>2, <3>4, <3>5, <3>6, <3>7
  <2>4. CASE \E m \in Good : call = Invoke("set", m)
    <3>1. PICK m \in Good : call = Invoke("set", m)
      BY <2>4
    <3>2. Body(b, call) = Enter(m)
      BY <3>1 DEF Body, Invoke
    <3> QED
      BY <3>2, GoodValue DEF Enter
  <2> QED
    BY <2>1, <2>2, <2>3, <2>4 DEF Calls
<1> QED
  BY <1>1, <1>2, EmptySeq, LenProperties

-----------------------------------------------------------------------------
(* Types. *)

(* The threads: what they execute is a call, where they are is in it.        *)
JobsOK ==
    /\ job \in [Threads -> Calls]
    /\ pos \in [Threads -> Nat]
    /\ \A t \in Threads : pos[t] \in 1 .. Len(Body(block, job[t])) \cup {1}

TypeInv == TypeOK /\ JobsOK

(* A busy thread's statement.                                                *)
LEMMA AtType ==
    ASSUME BlockTypeOK, JobsOK, NEW t \in Threads, ~Idle(t)
    PROVE  /\ At(t) \in Statement
           /\ pos[t] \in 1 .. Len(Body(block, job[t]))
<1>1. block \in {"onoff", "track"} /\ job[t] \in Calls /\ job[t] # Nothing
  BY DEF BlockTypeOK, JobsOK, Idle
<1>2. Body(block, job[t]) \in Seq(Statement) /\ Len(Body(block, job[t])) \in Nat \ {0}
  BY <1>1, BusyHasBody
<1>3. pos[t] \in 1 .. Len(Body(block, job[t]))
  BY <1>2 DEF JobsOK
<1> QED
  BY <1>2, <1>3, ElementOfSeq DEF At

(* The end of a statement leaves the threads as they should be.              *)
LEMMA AdvanceKeepsJobs ==
    ASSUME BlockTypeOK, JobsOK, NEW t \in Threads, ~Idle(t), Advance(t), block' = block
    PROVE  JobsOK'
<1>1. pos[t] \in 1 .. Len(Body(block, job[t])) /\ pos[t] \in Nat
  BY AtType DEF JobsOK
<1>2. Nothing \in Calls
  BY DEF Calls
<1>3. CASE pos[t] < Len(Body(block, job[t]))
  <2>1. pos' = [pos EXCEPT ![t] = @ + 1] /\ job' = job
    BY <1>3 DEF Advance
  <2>2. job' \in [Threads -> Calls] /\ pos' \in [Threads -> Nat]
    BY <1>1, <2>1 DEF JobsOK
  <2>3. pos'[t] \in 1 .. Len(Body(block', job'[t]))
    BY <1>1, <1>3, <2>1 DEF JobsOK
  <2>4. \A u \in Threads \ {t} : pos'[u] = pos[u] /\ job'[u] = job[u]
    BY <2>1 DEF JobsOK
  <2> QED
    BY <2>2, <2>3, <2>4 DEF JobsOK
<1>4. CASE ~(pos[t] < Len(Body(block, job[t])))
  <2>1. pos' = [pos EXCEPT ![t] = 1] /\ job' = [job EXCEPT ![t] = Nothing]
    BY <1>4 DEF Advance
  <2>2. job' \in [Threads -> Calls] /\ pos' \in [Threads -> Nat]
    BY <1>2, <2>1 DEF JobsOK
  <2>3. pos'[t] = 1
    BY <2>1 DEF JobsOK
  <2>4. \A u \in Threads \ {t} : pos'[u] = pos[u] /\ job'[u] = job[u]
    BY <2>1 DEF JobsOK
  <2> QED
    BY <2>2, <2>3, <2>4 DEF JobsOK
<1> QED
  BY <1>3, <1>4

(* So does the beginning of a call.                                          *)
LEMMA BeginKeepsJobs ==
    ASSUME BlockTypeOK, JobsOK, NEW t \in Threads, Idle(t), NEW call \in Calls, Begin(t, call),
           pos' = pos, block' = block
    PROVE  JobsOK'
<1>1. Len(Body(block, Nothing)) = 0
  BY NothingHasNoBody, EmptySeq
<1>2. pos[t] = 1
  BY <1>1 DEF Idle, JobsOK
<1>3. job' \in [Threads -> Calls] /\ \A u \in Threads \ {t} : job'[u] = job[u]
  BY DEF JobsOK, Begin
<1> QED
  BY <1>2, <1>3 DEF JobsOK

(* What the dictionary operations give is a dictionary.                      *)
LEMMA CommandTypes ==
    /\ Empty \in Command
    /\ \A c \in Command, k \in Keys, v \in Values \cup {None} : Added(c, k, v) \in Command
    /\ \A c \in Command, k \in Keys : Deleted(c, k) \in Command
BY DEF Empty, Command, Added, Deleted, Keys, SourceKeys, OffsetKeys

(* A thread's step keeps the types of the block, and of its messages.        *)
LEMMA ThreadTypes ==
    ASSUME BlockTypeOK, JobsOK, commands \in Seq(Command), NEW t \in Threads, ThreadStep(t)
    PROVE  BlockTypeOK' /\ JobsOK' /\ commands' \in Seq(Command)
<1>1. /\ block \in {"onoff", "track"} /\ command \in Command
      /\ loaded \in [Threads -> Command \cup {None}]
  BY DEF BlockTypeOK
<1>2. block_alive \in BOOLEAN
  BY Zenon DEF BlockTypeOK
<1>3. ASSUME JobsOK', block' = block, command' \in Command,
             loaded' \in [Threads -> Command \cup {None}], block_alive' \in BOOLEAN
      PROVE  BlockTypeOK'
  <2>1. block' \in {"onoff", "track"}
    BY <1>1, <1>3
  <2>2. job' \in [Threads -> Call]
    BY <1>3, CallsType DEF JobsOK
  <2>3. \A u \in Threads : pos'[u] \in 1 .. Len(Body(block', job'[u])) \cup {1}
    BY <1>3, Zenon DEF JobsOK
  <2> QED
    BY <1>3, <2>1, <2>2, <2>3, Zenon DEF BlockTypeOK
<1>4. ~Idle(t)
  BY DEF ThreadStep, Load, Store, Publish, Wake, Spawn, Raise
<1>5. At(t) \in Statement
  BY <1>4, AtType
<1>6. At(t).key \in Keys /\ At(t).val \in Values \cup {None}
  BY <1>5 DEF Statement
<1>7. CASE Load(t)
  <2>1. JobsOK'
    BY <1>7 DEF Load, JobsOK
  <2>2. loaded' \in [Threads -> Command \cup {None}] /\ command' \in Command /\ block' = block
    BY <1>1, <1>7 DEF Load
  <2>3. block_alive' \in BOOLEAN
    BY <1>2, <1>7, Zenon DEF Load
  <2> QED
    BY <1>3, <1>7, <2>1, <2>2, <2>3 DEF Load
<1>8. CASE Store(t)
  <2>1. JobsOK'
    BY <1>4, <1>8, AdvanceKeepsJobs DEF Store
  <2>2. loaded' \in [Threads -> Command \cup {None}] /\ block' = block
    BY <1>1, <1>8 DEF Store
  <2>3. loaded[t] \in Command
    BY <1>1, <1>8 DEF Store
  <2>4. command' \in Command
    BY <1>6, <1>8, <2>3, CommandTypes DEF Store
  <2>5. block_alive' \in BOOLEAN
    BY <1>2, <1>8, Zenon DEF Store
  <2> QED
    BY <1>3, <1>8, <2>1, <2>2, <2>4, <2>5 DEF Store
<1>9. CASE Publish(t)
  <2>1. JobsOK'
    BY <1>4, <1>9, AdvanceKeepsJobs DEF Publish
  <2>2. loaded' \in [Threads -> Command \cup {None}] /\ command' \in Command /\ block' = block
    BY <1>1, <1>9 DEF Publish
  <2>3. loaded[t] \in Command
    BY <1>1, <1>9 DEF Publish
  <2>4. commands' \in Seq(Command)
    BY <1>9, <2>3, AppendProperties DEF Publish
  <2>5. block_alive' \in BOOLEAN
    BY <1>2, <1>9, Zenon DEF Publish
  <2> QED
    BY <1>3, <2>1, <2>2, <2>4, <2>5
<1>10. CASE Wake(t)
  <2>1. JobsOK'
    BY <1>4, <1>10, AdvanceKeepsJobs DEF Wake
  <2>2. loaded' \in [Threads -> Command \cup {None}] /\ command' \in Command /\ block' = block
    BY <1>1, <1>10 DEF Wake
  <2>3. block_alive' \in BOOLEAN
    BY <1>2, <1>10, Zenon DEF Wake
  <2> QED
    BY <1>3, <1>10, <2>1, <2>2, <2>3 DEF Wake
<1>11. CASE Spawn(t)
  <2> DEFINE s == CHOOSE s \in Scans : Idle(s)
  <2>1. s \in Scans /\ Idle(s)
    BY <1>11 DEF Spawn
  <2>2. /\ job' = [job EXCEPT ![s] = Invoke("wait_duration", NoMessage), ![t] = Nothing]
        /\ pos' = [pos EXCEPT ![t] = 1] /\ block' = block
        /\ command' = command /\ loaded' = loaded /\ block_alive' = block_alive
        /\ commands' = commands
    BY <1>11 DEF Spawn
  <2> HIDE DEF s
  <2>3. s \in Threads /\ s # t
    BY <1>4, <2>1 DEF Threads
  <2>4. Nothing \in Calls /\ Invoke("wait_duration", NoMessage) \in Calls
    BY DEF Calls
  <2>5. Len(Body(block, Nothing)) = 0
    BY NothingHasNoBody, EmptySeq
  <2>6. pos[s] = 1
    BY <2>1, <2>3, <2>5 DEF Idle, JobsOK
  <2>7. /\ job' \in [Threads -> Calls] /\ pos' \in [Threads -> Nat]
        /\ \A u \in Threads \ {s, t} : job'[u] = job[u] /\ pos'[u] = pos[u]
        /\ pos'[s] = 1 /\ pos'[t] = 1
    BY <2>2, <2>3, <2>4, <2>6 DEF JobsOK
  <2>8. JobsOK'
    BY <2>2, <2>7 DEF JobsOK
  <2>9. block_alive' \in BOOLEAN
    BY <1>2, <2>2, Zenon
  <2> QED
    BY <1>1, <1>3, <2>2, <2>8, <2>9
<1>12. CASE Raise(t)
  <2>1. JobsOK'
    BY <1>4, <1>12, AdvanceKeepsJobs DEF Raise
  <2>2. loaded' \in [Threads -> Command \cup {None}] /\ command' \in Command /\ block' = block
    BY <1>1, <1>12 DEF Raise
  <2>3. block_alive' \in BOOLEAN
    BY <1>12, Zenon DEF Raise
  <2> QED
    BY <1>3, <1>12, <2>1, <2>2, <2>3 DEF Raise
<1> QED
  BY <1>7, <1>8, <1>9, <1>10, <1>11, <1>12 DEF ThreadStep

(* A command that does not raise names a place.                              *)
LEMMA PointingType ==
    ASSUME NEW c \in Command, ~RaisesKeyError(c), TargetKind(c) # "none"
    PROVE  PointingOf(c) \in Pointing
<1>1. TargetKind(c) \in {"source_id", "radec", "azel"}
  BY DEF TargetKind
<1>2. \A k \in Keys : c[k] \in Values \cup {None}
  BY DEF Command
<1>3. /\ "source_id" \in Keys /\ "ra" \in Keys /\ "dec" \in Keys /\ "az" \in Keys
      /\ "el" \in Keys
  BY DEF Keys, SourceKeys
<1>4. Coordinates(c)[1] # None /\ Coordinates(c)[2] # None
  BY DEF RaisesKeyError
<1>5. Coordinates(c) \in Values \X Values
  BY <1>1, <1>2, <1>3, <1>4 DEF Coordinates
<1>6. OffSource(c) \in BOOLEAN
  BY Zenon DEF OffSource
<1> QED
  BY <1>1, <1>5, <1>6, Zenon DEF PointingOf, Pointing

(* Handling a command keeps the types of the control block.                  *)
LEMMA HandleTypes ==
    ASSUME ControlTypeOK, HandleCommand
    PROVE  ControlTypeOK'
<1>1. /\ mode \in {"online", "offline"} /\ commands \in Seq(Command)
      /\ antennas \in Pointing \cup {Stowed, Elsewhere}
      /\ announced \in Pointing \cup {Elsewhere}
  BY DEF ControlTypeOK
<1>2. /\ is_configured \in BOOLEAN /\ my_ants \in BOOLEAN
      /\ tuned \in BOOLEAN /\ control_alive \in BOOLEAN
  BY Zenon DEF ControlTypeOK
<1>3. commands # <<>> /\ commands' = Tail(commands) /\ mode' = mode
      /\ my_ants' = (my_ants \/ mode = "online")
      /\ (IF mode = "online" THEN Configure ELSE UNCHANGED tuned)
  BY DEF HandleCommand
<1>4. Head(commands) \in Command /\ commands' \in Seq(Command)
  BY <1>1, <1>3, HeadTailProperties
<1>5. my_ants' \in BOOLEAN
  BY <1>3, Zenon
<1>6. tuned' \in BOOLEAN
  <2>1. CASE mode = "online"
    <3>1. tuned' = (tuned \/ (~is_configured /\ cfreq))
      BY <1>3, <2>1 DEF Configure
    <3> QED
      BY <3>1, Zenon
  <2>2. CASE mode # "online"
    <3>1. tuned' = tuned
      BY <1>3, <2>2
    <3> QED
      BY <1>2, <3>1, Zenon
  <2> QED
    BY <2>1, <2>2
<1> DEFINE c == Head(commands)
<1>7. \/ RaisesKeyError(c) /\ KeyError
      \/ /\ ~RaisesKeyError(c)
         /\ CASE TargetKind(c) = "none" -> UNCHANGED <<antennas, announced>>
              [] TargetKind(c) # "none" /\ mode = "online" -> Point(c)
              [] OTHER -> Announce(c)
         /\ is_configured' = TRUE
         /\ UNCHANGED control_alive
  BY DEF HandleCommand
<1> HIDE DEF c
<1>8. CASE RaisesKeyError(c) /\ KeyError
  <2>1. control_alive' \in BOOLEAN /\ is_configured' \in BOOLEAN
    BY <1>2, <1>8, Zenon DEF KeyError
  <2>2. antennas' = antennas /\ announced' = announced
    BY <1>8 DEF KeyError
  <2>3. antennas' \in Pointing \cup {Stowed, Elsewhere} /\ announced' \in Pointing \cup {Elsewhere}
    BY <1>1, <2>2
  <2>4. mode' \in {"online", "offline"}
    BY <1>1, <1>3
  <2> QED
    BY <1>4, <1>5, <1>6, <2>1, <2>3, <2>4, Zenon DEF ControlTypeOK
<1>9. CASE /\ ~RaisesKeyError(c)
           /\ CASE TargetKind(c) = "none" -> UNCHANGED <<antennas, announced>>
                [] TargetKind(c) # "none" /\ mode = "online" -> Point(c)
                [] OTHER -> Announce(c)
           /\ is_configured' = TRUE
           /\ UNCHANGED control_alive
  <2>1. control_alive' \in BOOLEAN /\ is_configured' \in BOOLEAN
    BY <1>2, <1>9, Zenon
  <2>2. antennas' \in Pointing \cup {Stowed, Elsewhere} /\ announced' \in Pointing \cup {Elsewhere}
    <3>1. CASE TargetKind(c) = "none"
      BY <1>1, <1>9, <3>1
    <3>2. CASE TargetKind(c) # "none"
      <4>1. PointingOf(c) \in Pointing
        BY <1>4, <1>9, <3>2, PointingType DEF c
      <4>2. Point(c) \/ Announce(c)
        BY <1>9, <3>2
      <4> QED
        BY <1>1, <4>1, <4>2 DEF Point, Announce
    <3> QED
      BY <3>1, <3>2
  <2>3. mode' \in {"online", "offline"}
    BY <1>1, <1>3
  <2> QED
    BY <1>4, <1>5, <1>6, <2>1, <2>2, <2>3, Zenon DEF ControlTypeOK
<1> QED
  BY <1>7, <1>8, <1>9

(* A thread's step sends one command or none.                                *)
LEMMA ThreadSends ==
    ASSUME BlockTypeOK, commands \in Seq(Command), NEW t \in Threads, ThreadStep(t)
    PROVE  \/ commands' = commands
           \/ /\ Publish(t) /\ loaded[t] \in Command
              /\ commands' = Append(commands, loaded[t])
              /\ Len(commands') = Len(commands) + 1
              /\ commands'[Len(commands')] = loaded[t]
<1>1. CASE Publish(t)
  <2>1. loaded[t] \in Command /\ commands' = Append(commands, loaded[t])
    BY <1>1 DEF Publish, BlockTypeOK
  <2> QED
    BY <1>1, <2>1, AppendProperties
<1>2. CASE ~Publish(t)
  BY <1>2 DEF ThreadStep, Load, Store, Wake, Spawn, Raise
<1> QED
  BY <1>1, <1>2

(* An act of the operator keeps the types of the bounds and the history.     *)
LEMMA ActTypes ==
    ASSUME TypeOK, NEW m \in Message, NEW c \in BOOLEAN, NEW old, Act(m, c, old)
    PROVE  /\ acts' \in 0 .. MaxActs /\ overlaps' \in 0 .. MaxOverlaps
           /\ wanted' \in Message /\ calm' \in BOOLEAN /\ stale' \in BOOLEAN /\ sent' \in Nat
<1>1. acts \in 0 .. MaxActs /\ overlaps \in 0 .. MaxOverlaps
  BY DEF TypeOK
<1>2. MaxActs \in Nat /\ MaxOverlaps \in Nat
  BY OperatorAssumption
<1>3. acts' \in 0 .. MaxActs /\ sent' \in Nat
  BY <1>1, <1>2 DEF Act
<1>4. overlaps' \in 0 .. MaxOverlaps
  BY <1>1, <1>2 DEF Act
<1>5. wanted' \in Message
  BY NoMessageType DEF Act
<1>6. calm' \in BOOLEAN /\ stale' \in BOOLEAN
  BY Zenon DEF Act
<1> QED
  BY <1>3, <1>4, <1>5, <1>6

(* The block's types when only its threads' calls change.                    *)
LEMMA BeginTypes ==
    ASSUME BlockTypeOK, JobsOK', block' = block, command' = command, loaded' = loaded,
           block_alive' \in BOOLEAN
    PROVE  BlockTypeOK'
<1>1. block' \in {"onoff", "track"} /\ command' \in Command
      /\ loaded' \in [Threads -> Command \cup {None}]
  BY DEF BlockTypeOK
<1>2. job' \in [Threads -> Call]
  BY CallsType DEF JobsOK
<1>3. \A u \in Threads : pos'[u] \in 1 .. Len(Body(block', job'[u])) \cup {1}
  BY Zenon DEF JobsOK
<1> QED
  BY <1>1, <1>2, <1>3, Zenon DEF BlockTypeOK

(* The threads' names.                                                       *)
LEMMA ThreadNames == Handler \in Threads /\ Gui \in Threads /\ Scans \subseteq Threads
BY DEF Threads

(* The type invariant holds at first ...                                     *)
LEMMA TypeInit == Init => TypeInv
<1> SUFFICES ASSUME Init PROVE TypeInv
  OBVIOUS
<1>1. BlockInit /\ ControlInit
  BY DEF Init
<1>2. JobsOK
  BY <1>1 DEF BlockInit, JobsOK, Calls
<1>3. BlockTypeOK
  <2>1. block \in {"onoff", "track"} /\ loaded \in [Threads -> Command \cup {None}]
    BY <1>1 DEF BlockInit
  <2>0. command \in Command
    <3>1. CASE command = Empty
      BY <3>1, CommandTypes
    <3>2. CASE \E m \in Good : command = WithTarget(m)
      <4>1. \A m \in Good : m.val \in Values
        BY GoodValue
      <4> QED BY <3>2, <4>1 DEF WithTarget, Command
    <3> QED BY <1>1, <3>1, <3>2 DEF BlockInit
  <2>2. job \in [Threads -> Call]
    BY <1>2, CallsType DEF JobsOK
  <2>3. \A u \in Threads : pos[u] \in 1 .. Len(Body(block, job[u])) \cup {1}
    BY <1>2, Zenon DEF JobsOK
  <2>4. block_alive \in BOOLEAN
    BY <1>1, Zenon DEF BlockInit
  <2> QED
    BY <2>0, <2>1, <2>2, <2>3, <2>4, Zenon DEF BlockTypeOK
<1>4. ControlTypeOK
  <2>1. /\ mode \in {"online", "offline"} /\ antennas \in Pointing \cup {Stowed, Elsewhere}
        /\ announced \in Pointing \cup {Elsewhere}
    BY <1>1 DEF ControlInit
  <2>2. commands \in Seq(Command)
    BY <1>1, EmptySeq DEF ControlInit
  <2>3. {is_configured, my_ants, tuned, control_alive} \subseteq BOOLEAN
    BY <1>1, Zenon DEF ControlInit
  <2> QED
    BY <2>1, <2>2, <2>3, Zenon DEF ControlTypeOK
<1>5. acts \in 0 .. MaxActs /\ overlaps \in 0 .. MaxOverlaps /\ sent \in Nat
  BY OperatorAssumption DEF Init
<1>6. running \in BOOLEAN /\ calm \in BOOLEAN /\ stale \in BOOLEAN
  BY Zenon DEF Init
<1>7. wanted \in Message
  BY NoMessageType DEF Init
<1> QED
  BY <1>2, <1>3, <1>4, <1>5, <1>6, <1>7, Zenon DEF TypeInv, TypeOK

(* ... and every step keeps it.                                              *)
LEMMA TypeStep == TypeInv /\ [Next]_vars => TypeInv'
<1> SUFFICES ASSUME TypeInv, [Next]_vars PROVE TypeInv'
  OBVIOUS
<1>1. /\ TypeOK /\ JobsOK /\ BlockTypeOK /\ ControlTypeOK /\ running \in BOOLEAN
      /\ acts \in 0 .. MaxActs /\ overlaps \in 0 .. MaxOverlaps
      /\ wanted \in Message /\ calm \in BOOLEAN /\ stale \in BOOLEAN /\ sent \in Nat
  BY Zenon DEF TypeInv, TypeOK
<1>2. commands \in Seq(Command) /\ mode \in {"online", "offline"} /\ block_alive \in BOOLEAN
  BY <1>1, Zenon DEF ControlTypeOK, BlockTypeOK
<1>3. ASSUME UNCHANGED controlVars, commands' \in Seq(Command)
      PROVE  ControlTypeOK'
  <2>1. UNCHANGED <<mode, is_configured, my_ants, tuned, antennas, announced, control_alive>>
    BY <1>3 DEF controlVars
  <2> QED
    BY <1>1, <1>3, <2>1, Zenon DEF ControlTypeOK
<1>4. ASSUME BlockTypeOK', JobsOK', ControlTypeOK', running' \in BOOLEAN,
             acts' \in 0 .. MaxActs, overlaps' \in 0 .. MaxOverlaps,
             wanted' \in Message, calm' \in BOOLEAN /\ stale' \in BOOLEAN, sent' \in Nat
      PROVE  TypeInv'
  BY <1>4, Zenon DEF TypeInv, TypeOK
<1>5. ASSUME NEW m \in Message, Send(m) PROVE TypeInv'
  <2>1. /\ Begin(Handler, Invoke("handle_msg", m)) /\ Idle(Handler)
        /\ Act(m, Quiet /\ m \in Good, FALSE)
        /\ UNCHANGED <<controlVars, block, command, pos, loaded, block_alive, commands, running>>
    BY <1>5 DEF Send
  <2>2. JobsOK'
    <3>1. Invoke("handle_msg", m) \in Calls
      BY DEF Calls
    <3> QED
      BY <1>1, <2>1, <3>1, ThreadNames, BeginKeepsJobs
  <2>3. (Quiet /\ m \in Good) \in BOOLEAN
    BY Zenon
  <2>4. block_alive' \in BOOLEAN /\ running' \in BOOLEAN
    BY <1>1, <1>2, <2>1, Zenon
  <2>5. BlockTypeOK'
    BY <1>1, <2>1, <2>2, <2>4, BeginTypes
  <2> QED
    BY <1>1, <1>2, <1>3, <1>4, <2>1, <2>2, <2>3, <2>4, <2>5, ActTypes
<1>6. ASSUME NEW m \in Good, Set(m) PROVE TypeInv'
  <2>1. /\ Begin(Gui, Invoke("set", m)) /\ Idle(Gui) /\ Act(NoTarget, FALSE, FALSE)
        /\ UNCHANGED <<controlVars, block, command, pos, loaded, block_alive, commands, running>>
    BY <1>6 DEF Set
  <2>2. JobsOK'
    <3>1. Invoke("set", m) \in Calls
      BY DEF Calls
    <3> QED
      BY <1>1, <2>1, <3>1, ThreadNames, BeginKeepsJobs
  <2>3. FALSE \in BOOLEAN /\ NoTarget \in Message
    BY NoMessageType
  <2>4. block_alive' \in BOOLEAN /\ running' \in BOOLEAN
    BY <1>1, <1>2, <2>1, Zenon
  <2>5. BlockTypeOK'
    BY <1>1, <2>1, <2>2, <2>4, BeginTypes
  <2> QED
    BY <1>1, <1>2, <1>3, <1>4, <2>1, <2>2, <2>3, <2>4, <2>5, ActTypes
<1>7. CASE StartGraph
  <2>1. /\ Begin(Handler, Invoke("start", NoMessage)) /\ Idle(Handler)
        /\ commands' \in {commands, <<>>}
        /\ UNCHANGED <<mode, is_configured, my_ants, tuned, antennas, announced>>
        /\ UNCHANGED <<block, command, pos, loaded>>
    BY <1>7 DEF StartGraph
  <2>2. running' = TRUE /\ block_alive' = TRUE /\ control_alive' = TRUE
    BY <1>7 DEF StartGraph
  <2>3. \E m \in Message, c, old \in BOOLEAN : Act(m, c, old)
    <3>1. CASE \E m \in Good : HasTarget(command, m) /\ Act(m, Quiet, OffSource(command))
      <4>1. PICK m \in Good : Act(m, Quiet, OffSource(command))
        BY <3>1
      <4>2. m \in Message
        BY GoodValue
      <4>3. Quiet \in BOOLEAN /\ OffSource(command) \in BOOLEAN
        BY Zenon DEF Quiet, OffSource
      <4> QED
        BY <4>1, <4>2, <4>3
    <3>2. CASE Act(NoTarget, FALSE, FALSE)
      BY <3>2, NoMessageType
    <3> QED
      BY <1>7, <3>1, <3>2 DEF StartGraph
  <2>4. JobsOK'
    <3>1. Invoke("start", NoMessage) \in Calls
      BY DEF Calls
    <3> QED
      BY <1>1, <2>1, <3>1, ThreadNames, BeginKeepsJobs
  <2>5. block_alive' \in BOOLEAN /\ running' \in BOOLEAN /\ control_alive' \in BOOLEAN
    BY <2>2, Zenon
  <2>6. BlockTypeOK'
    BY <1>1, <2>1, <2>4, <2>5, BeginTypes
  <2>7. commands' \in Seq(Command)
    BY <1>2, <2>1, EmptySeq
  <2>8. ControlTypeOK'
    BY <1>1, <2>1, <2>5, <2>7, Zenon DEF ControlTypeOK
  <2>9. /\ acts' \in 0 .. MaxActs /\ overlaps' \in 0 .. MaxOverlaps
        /\ wanted' \in Message /\ calm' \in BOOLEAN /\ stale' \in BOOLEAN /\ sent' \in Nat
    BY <1>1, <2>3, ActTypes
  <2> QED
    BY <1>4, <2>4, <2>5, <2>6, <2>8, <2>9
<1>8. CASE StopGraph
  <2>1. StowAntennas /\ Act(NoTarget, FALSE, FALSE) /\ UNCHANGED <<blockVars, commands>>
    BY <1>8 DEF StopGraph
  <2>2. running' = FALSE
    BY <1>8 DEF StopGraph
  <2>3. JobsOK' /\ BlockTypeOK'
    <3>1. UNCHANGED <<block, command, job, pos, loaded, block_alive>>
      BY <2>1 DEF blockVars
    <3> QED
      BY <1>1, <3>1, Zenon DEF JobsOK, BlockTypeOK
  <2>4. antennas' \in Pointing \cup {Stowed, Elsewhere}
    BY <1>1, <2>1 DEF StowAntennas, ControlTypeOK
  <2>5. UNCHANGED <<mode, is_configured, my_ants, tuned, announced, control_alive>>
    BY <2>1 DEF StowAntennas
  <2>6. ControlTypeOK'
    BY <1>1, <2>1, <2>4, <2>5, Zenon DEF ControlTypeOK
  <2>7. running' \in BOOLEAN
    BY <2>2, Zenon
  <2>8. FALSE \in BOOLEAN /\ NoTarget \in Message
    BY NoMessageType
  <2> QED
    BY <1>1, <1>4, <2>1, <2>3, <2>6, <2>7, <2>8, ActTypes
<1>9. ASSUME NEW t \in Threads, RunThread(t) PROVE TypeInv'
  <2>1. /\ ThreadStep(t) /\ UNCHANGED <<controlVars, running, acts, overlaps, wanted, calm, stale>>
        /\ sent' = IF calm THEN sent + (Len(commands') - Len(commands)) ELSE 0
    BY <1>9 DEF RunThread
  <2>2. BlockTypeOK' /\ JobsOK' /\ commands' \in Seq(Command)
    BY <1>1, <1>2, <2>1, ThreadTypes
  <2>3. Len(commands) \in Nat /\ (commands' = commands \/ Len(commands') = Len(commands) + 1)
    BY <1>1, <1>2, <2>1, ThreadSends, LenProperties
  <2>4. sent' \in Nat
    BY <1>1, <2>1, <2>3
  <2>5. running' \in BOOLEAN /\ calm' \in BOOLEAN /\ stale' \in BOOLEAN
    BY <1>1, <2>1, Zenon
  <2>6. acts' \in 0 .. MaxActs /\ overlaps' \in 0 .. MaxOverlaps /\ wanted' \in Message
    BY <1>1, <2>1
  <2> QED
    BY <1>3, <1>4, <2>1, <2>2, <2>4, <2>5, <2>6
<1>10. CASE Control
  <2>1. /\ HandleCommand /\ UNCHANGED blockVars
        /\ UNCHANGED <<running, acts, overlaps, wanted, calm, stale, sent>>
    BY <1>10 DEF Control, historyVars
  <2>2. JobsOK' /\ BlockTypeOK'
    <3>1. UNCHANGED <<block, command, job, pos, loaded, block_alive>>
      BY <2>1 DEF blockVars
    <3> QED
      BY <1>1, <3>1, Zenon DEF JobsOK, BlockTypeOK
  <2>3. ControlTypeOK'
    BY <1>1, <2>1, HandleTypes
  <2>4. running' \in BOOLEAN /\ calm' \in BOOLEAN /\ stale' \in BOOLEAN
    BY <1>1, <2>1, Zenon
  <2>5. /\ acts' \in 0 .. MaxActs /\ overlaps' \in 0 .. MaxOverlaps
        /\ wanted' \in Message /\ sent' \in Nat
    BY <1>1, <2>1
  <2> QED
    BY <1>4, <2>2, <2>3, <2>4, <2>5
<1>11. CASE UNCHANGED vars
  <2>1. /\ UNCHANGED <<block, command, job, pos, loaded, block_alive>>
        /\ UNCHANGED <<mode, is_configured, my_ants, tuned, antennas, announced, control_alive>>
        /\ UNCHANGED <<commands, running, acts, overlaps, wanted, calm, stale, sent>>
    BY <1>11 DEF vars, blockVars, controlVars, historyVars
  <2>2. JobsOK' /\ BlockTypeOK' /\ ControlTypeOK'
    BY <1>1, <2>1, Zenon DEF JobsOK, BlockTypeOK, ControlTypeOK
  <2>3. running' \in BOOLEAN /\ calm' \in BOOLEAN /\ stale' \in BOOLEAN
    BY <1>1, <2>1, Zenon
  <2>4. /\ acts' \in 0 .. MaxActs /\ overlaps' \in 0 .. MaxOverlaps
        /\ wanted' \in Message /\ sent' \in Nat
    BY <1>1, <2>1
  <2> QED
    BY <1>4, <2>2, <2>3, <2>4
<1> QED
  BY <1>5, <1>6, <1>7, <1>8, <1>9, <1>10, <1>11 DEF Next, Operator

(* Everything is of its type, in every state of an observation.              *)
THEOREM TypeCorrect == Spec => []TypeOK
<1>1. TypeInv => TypeOK
  BY DEF TypeInv
<1> QED
  BY TypeInit, TypeStep, <1>1, PTL DEF Spec

-----------------------------------------------------------------------------
(* Nothing is pointed before it is tuned. *)

(* Online, what is configured is tuned: is_configured is set only by a       *)
(* command that got past the tuning.  Offline, nothing points.               *)
TunedInv ==
    /\ mode = "online" /\ is_configured /\ cfreq => tuned
    /\ mode = "offline" => antennas \notin Pointing
    /\ TunedBeforePointing

(* Antennas are not pointed before their LNAs are on and the frequency is    *)
(* set, in whatever order the commands come and whichever of them raise.     *)
THEOREM TunedFirst == Spec => []TunedBeforePointing
<1>1. Init => TunedInv
  BY ControlAssumption DEF Init, ControlInit, TunedInv, TunedBeforePointing
<1>2. TypeInv /\ TunedInv /\ [Next]_vars => TunedInv'
  <2> SUFFICES ASSUME TypeInv, TunedInv, [Next]_vars PROVE TunedInv'
    OBVIOUS
  <2>1. mode \in {"online", "offline"}
    BY DEF TypeInv, TypeOK, ControlTypeOK
  <2>2. ASSUME UNCHANGED <<mode, is_configured, tuned, antennas>> PROVE TunedInv'
    BY <2>2 DEF TunedInv, TunedBeforePointing
  <2>3. CASE Operator
    <3>1. CASE StopGraph
      <4>1. /\ antennas' = Stowed \/ antennas' = antennas
            /\ UNCHANGED <<mode, is_configured, tuned>>
        BY <3>1 DEF StopGraph, StowAntennas
      <4>2. Stowed \notin Pointing
        BY ControlAssumption
      <4> QED
        BY <4>1, <4>2 DEF TunedInv, TunedBeforePointing
    <3>2. CASE ~StopGraph
      BY <2>2, <2>3, <3>2 DEF Operator, Send, Set, StartGraph, controlVars
    <3> QED
      BY <3>1, <3>2
  <2>4. ASSUME NEW t \in Threads, RunThread(t) PROVE TunedInv'
    BY <2>2, <2>4 DEF RunThread, controlVars
  <2>5. CASE Control
    <3> DEFINE c == Head(commands)
    <3>1. /\ mode' = mode
          /\ (IF mode = "online" THEN Configure ELSE UNCHANGED tuned)
          /\ \/ RaisesKeyError(c) /\ KeyError
             \/ /\ ~RaisesKeyError(c)
                /\ CASE TargetKind(c) = "none" -> UNCHANGED <<antennas, announced>>
                     [] TargetKind(c) # "none" /\ mode = "online" -> Point(c)
                     [] OTHER -> Announce(c)
                /\ is_configured' = TRUE
      BY <2>5 DEF Control, HandleCommand
    <3> HIDE DEF c
    <3>2. antennas' = antennas \/ mode = "online"
      BY <3>1 DEF KeyError, Point, Announce
    <3>3. CASE mode = "online"
      <4>1. tuned' = (tuned \/ (~is_configured /\ cfreq))
        BY <3>1, <3>3 DEF Configure
      <4>2. cfreq => tuned'
        BY <3>3, <4>1, Zenon DEF TunedInv
      <4> QED
        BY <3>1, <3>3, <4>2 DEF TunedInv, TunedBeforePointing
    <3>4. CASE mode = "offline"
      BY <3>1, <3>2, <3>4 DEF TunedInv, TunedBeforePointing
    <3> QED
      BY <2>1, <3>3, <3>4
  <2>6. CASE UNCHANGED vars
    BY <2>2, <2>6 DEF vars, controlVars
  <2> QED
    BY <2>3, <2>4, <2>5, <2>6 DEF Next
<1>3. TunedInv => TunedBeforePointing
  BY DEF TunedInv
<1> QED
  BY TypeInit, TypeStep, <1>1, <1>2, <1>3, PTL DEF Spec

-----------------------------------------------------------------------------
(* A calm scan sends its commands and no others. *)

Writes == {"add", "delete"}

(* A thread has the dictionary in hand only inside a statement that uses it. *)
LoadedInv == \A t \in Threads : loaded[t] # None => ~Idle(t) /\ At(t).do \in Writes \cup {"publish"}

(* Track scans have no offsets and no threads.                               *)
TrackInv ==
    block = "track" =>
      /\ \A s \in Scans : Idle(s)
      /\ \A t \in Threads : job[t].method # "wait_duration"
      /\ \A k \in OffsetKeys : command[k] = None
      /\ \A t \in Threads, k \in OffsetKeys : loaded[t] # None => loaded[t][k] = None

(* The entries that the command for target m should have.                    *)
Wanted(m, k) == IF \E i \in 1 .. Len(Enter(m)) : Enter(m)[i].key = k THEN m.val ELSE None

OnlyBusy(t) == ~Idle(t) /\ \A u \in Threads \ {t} : Idle(u)

(* The entries that matter to a command without offsets: an old el_off that  *)
(* the scan begins with stays.                                               *)
Due(old) == IF old THEN SourceKeys ELSE SourceKeys \cup {"el_off"}

(* The statements that are still to come make the command that is wanted.    *)
Completed(B, p, c, m, old) ==
    \A k \in Due(old) : \/ c[k] = Wanted(m, k)
                        \/ \E i \in p .. Len(B) : B[i].do \in Writes /\ B[i].key = k

(* The handler, or start(), is preparing the command.                        *)
Preparing ==
    /\ OnlyBusy(Handler)
    /\ job[Handler] \in {Invoke("handle_msg", wanted), Invoke("start", NoMessage)}
    /\ Completed(Body(block, job[Handler]), pos[Handler], command, wanted, stale)
    /\ stale => job[Handler].method = "start" /\ OffSource(command)
    /\ sent = 0

(* A scan's thread is at work; p is where it is.                             *)
Scanning(s, p) ==
    /\ OnlyBusy(s)
    /\ job[s] = Invoke("wait_duration", NoMessage)
    /\ \A k \in SourceKeys : command[k] = Wanted(wanted, k)
    /\ p = 1 => (stale <=> OffSource(command))
    /\ p = 4 => command["az_off"] = Offset
    /\ p = 5 => command["az_off"] = Offset /\ command["el_off"] = Offset
    /\ sent = (IF p = 1 THEN 0 ELSE IF p <= 5 THEN 1 ELSE 2)

(* The scan is over.                                                         *)
Over == Quiet /\ sent = ScanLength

CalmInv ==
    calm =>
      /\ wanted \in Good
      /\ stale => block = "onoff"
      /\ \A t \in Threads : loaded[t] \in {None, command}
      /\ \/ Preparing
         \/ block = "onoff" /\ \E s \in Scans : Scanning(s, pos[s])
         \/ Over

ScanInv == LoadedInv /\ TrackInv /\ CalmInv

-----------------------------------------------------------------------------
(* The bodies, statement by statement. *)

(* Two sequences, one after the other.                                       *)
LEMMA ConcatAt ==
    ASSUME NEW S, NEW s \in Seq(S), NEW t \in Seq(S)
    PROVE  /\ s \o t \in Seq(S) /\ Len(s \o t) = Len(s) + Len(t)
           /\ \A i \in 1 .. Len(s) : (s \o t)[i] = s[i]
           /\ \A i \in 1 .. Len(t) : (s \o t)[Len(s) + i] = t[i]
<1>1. s \o t \in Seq(S) /\ Len(s \o t) = Len(s) + Len(t) /\ Len(s) \in Nat /\ Len(t) \in Nat
  BY ConcatProperties, LenProperties
<1>2. \A i \in 1 .. Len(s) + Len(t) : (s \o t)[i] = IF i <= Len(s) THEN s[i] ELSE t[i - Len(s)]
  BY ConcatProperties
<1>3. \A i \in 1 .. Len(s) : (s \o t)[i] = s[i]
  BY <1>1, <1>2
<1>4. ASSUME NEW i \in 1 .. Len(t) PROVE (s \o t)[Len(s) + i] = t[i]
  <2> DEFINE k == Len(s) + i
  <2>1. k \in 1 .. Len(s) + Len(t) /\ ~(k <= Len(s)) /\ k - Len(s) = i
    BY <1>1
  <2> HIDE DEF k
  <2>2. (s \o t)[k] = t[k - Len(s)]
    BY <1>2, <2>1
  <2> QED
    BY <2>1, <2>2 DEF k
<1> QED
  BY <1>1, <1>3, <1>4

(* What a statement that adds, deletes or does something else consists of.   *)
LEMMA StatementParts ==
    /\ \A k, v : Add(k, v).do = "add" /\ Add(k, v).key = k /\ Add(k, v).val = v
    /\ \A k : Delete(k).do = "delete" /\ Delete(k).key = k /\ Delete(k).val = None
    /\ \A w : Do(w).do = w /\ Do(w).key = "el"
BY DEF Add, Delete, Do

(* What a good message enters: one or two statements, all of its value.      *)
LEMMA EnterBody ==
    ASSUME NEW m \in Good
    PROVE  /\ Enter(m) \in Seq(Statement)
           /\ Len(Enter(m)) \in {1, 2}
           /\ \A i \in 1 .. Len(Enter(m)) :
                /\ Enter(m)[i].do = "add" /\ Enter(m)[i].val = m.val
                /\ Enter(m)[i].key \in SourceKeys
<1>1. m \in Message /\ m.key \in {"source_id", "radec", "azel"}
  BY GoodValue
<1>2. Enter(m) \in Seq(Statement)
  BY <1>1, PartTypes
<1>3. \/ Enter(m) = <<Add("source_id", m.val)>>
      \/ Enter(m) = <<Add("ra", m.val), Add("dec", m.val)>>
      \/ Enter(m) = <<Add("az", m.val), Add("el", m.val)>>
  BY <1>1 DEF Enter
<1>4. ASSUME NEW st, Enter(m) = <<st>>, st.do = "add", st.val = m.val, st.key \in SourceKeys
      PROVE  /\ Len(Enter(m)) \in {1, 2}
             /\ \A i \in 1 .. Len(Enter(m)) : /\ Enter(m)[i].do = "add" /\ Enter(m)[i].val = m.val
                                              /\ Enter(m)[i].key \in SourceKeys
  BY <1>4
<1>5. ASSUME NEW s1, NEW s2, Enter(m) = <<s1, s2>>, s1.do = "add", s1.val = m.val,
             s1.key \in SourceKeys, s2.do = "add", s2.val = m.val, s2.key \in SourceKeys
      PROVE  /\ Len(Enter(m)) \in {1, 2}
             /\ \A i \in 1 .. Len(Enter(m)) : /\ Enter(m)[i].do = "add" /\ Enter(m)[i].val = m.val
                                              /\ Enter(m)[i].key \in SourceKeys
  BY <1>5
<1>6. /\ "source_id" \in SourceKeys /\ "ra" \in SourceKeys /\ "dec" \in SourceKeys
      /\ "az" \in SourceKeys /\ "el" \in SourceKeys
  BY DEF SourceKeys
<1> QED
  BY <1>2, <1>3, <1>4, <1>5, <1>6, StatementParts

(* The entries that a good message wants.                                    *)
LEMMA WantedEntries ==
    ASSUME NEW m \in Good
    PROVE  /\ \A k \in OffsetKeys : Wanted(m, k) = None
           /\ m.key = "source_id" => Wanted(m, "source_id") = m.val
           /\ m.key # "source_id" => Wanted(m, "source_id") = None
           /\ m.key = "radec" => Wanted(m, "ra") = m.val /\ Wanted(m, "dec") = m.val
           /\ m.key # "radec" => Wanted(m, "ra") = None /\ Wanted(m, "dec") = None
           /\ m.key = "azel" => Wanted(m, "az") = m.val /\ Wanted(m, "el") = m.val
           /\ m.key # "azel" => Wanted(m, "az") = None /\ Wanted(m, "el") = None
<1>1. m.key \in {"source_id", "radec", "azel"}
  BY GoodValue
<1>2. \A k \in OffsetKeys : Wanted(m, k) = None
  BY EnterBody DEF Wanted, OffsetKeys, SourceKeys
<1>3. CASE m.key = "source_id"
  <2>1. Enter(m) = <<Add("source_id", m.val)>>
    BY <1>3 DEF Enter
  <2> QED
    BY <1>2, <1>3, <2>1 DEF Add, Wanted
<1>4. CASE m.key = "radec"
  <2>1. Enter(m) = <<Add("ra", m.val), Add("dec", m.val)>>
    BY <1>4 DEF Enter
  <2> QED
    BY <1>2, <1>4, <2>1 DEF Add, Wanted
<1>5. CASE m.key = "azel"
  <2>1. Enter(m) = <<Add("az", m.val), Add("el", m.val)>>
    BY <1>5 DEF Enter
  <2> QED
    BY <1>2, <1>5, <2>1 DEF Add, Wanted
<1> QED
  BY <1>1, <1>3, <1>4, <1>5

(* How a scan is launched.                                                   *)
LEMMA LaunchBody ==
    /\ Launch("onoff") \in Seq(Statement) /\ Len(Launch("onoff")) = 3
    /\ Launch("onoff")[1] = Delete("az_off") /\ Launch("onoff")[2] = Delete("el_off")
    /\ Launch("onoff")[3] = Do("spawn")
    /\ Launch("track") \in Seq(Statement) /\ Len(Launch("track")) = 1
    /\ Launch("track")[1] = Do("publish")
<1>1. Launch("track") = <<Do("publish")>> /\ Launch("onoff") = DeleteOffsets \o <<Do("spawn")>>
  BY DEF Launch
<1>2. DeleteOffsets \in Seq(Statement) /\ <<Do("spawn")>> \in Seq(Statement)
  BY PartTypes, StatementTypes
<1>3. /\ Len(DeleteOffsets) = 2 /\ DeleteOffsets[1] = Delete("az_off")
      /\ DeleteOffsets[2] = Delete("el_off")
  BY DEF DeleteOffsets
<1>4. Len(<<Do("spawn")>>) = 1 /\ <<Do("spawn")>>[1] = Do("spawn")
  OBVIOUS
<1> DEFINE d == DeleteOffsets
           e == <<Do("spawn")>>
<1>5. d \in Seq(Statement) /\ e \in Seq(Statement) /\ Launch("onoff") = d \o e
  BY <1>1, <1>2
<1>6. Len(d) = 2 /\ d[1] = Delete("az_off") /\ d[2] = Delete("el_off") /\ Len(e) = 1
      /\ e[1] = Do("spawn")
  BY <1>3, <1>4
<1> HIDE DEF d, e
<1>7. Launch("onoff") \in Seq(Statement) /\ Len(Launch("onoff")) = Len(d) + Len(e)
  <2>1. d \o e \in Seq(Statement) /\ Len(d \o e) = Len(d) + Len(e)
    BY <1>5, ConcatAt
  <2> QED
    BY <1>5, <2>1, Zenon
<1>8. \A i \in 1 .. Len(d) : Launch("onoff")[i] = d[i]
  <2>1. \A i \in 1 .. Len(d) : (d \o e)[i] = d[i]
    BY <1>5, ConcatAt
  <2> QED
    BY <1>5, <2>1, Zenon
<1>9. \A i \in 1 .. Len(e) : Launch("onoff")[Len(d) + i] = e[i]
  <2>1. \A i \in 1 .. Len(e) : (d \o e)[Len(d) + i] = e[i]
    BY <1>5, ConcatAt
  <2> QED
    BY <1>5, <2>1, Zenon
<1>10. /\ Len(Launch("onoff")) = 3
      /\ Launch("onoff")[1] = Delete("az_off") /\ Launch("onoff")[2] = Delete("el_off")
      /\ Launch("onoff")[3] = Do("spawn")
  <2>1. Len(Launch("onoff")) = 3
    BY <1>6, <1>7
  <2>2. Launch("onoff")[1] = Delete("az_off") /\ Launch("onoff")[2] = Delete("el_off")
    BY <1>6, <1>8
  <2>3. Launch("onoff")[3] = Do("spawn")
    BY <1>6, <1>9
  <2> QED
    BY <2>1, <2>2, <2>3
<1>11. Launch("track") \in Seq(Statement)
  BY PartTypes
<1>12. Len(Launch("track")) = 1 /\ Launch("track")[1] = Do("publish")
  BY <1>1
<1> QED
  BY <1>5, <1>10, <1>11, <1>12, <1>7

(* The body of the message handler, for a good message.                      *)
LEMMA HandleBody ==
    ASSUME NEW b \in {"onoff", "track"}, NEW m \in Good
    PROVE  /\ Len(Enter(m)) \in {1, 2} /\ Len(Launch(b)) = (IF b = "onoff" THEN 3 ELSE 1)
           /\ Len(HandleMsg(b, m)) = 5 + Len(Enter(m)) + Len(Launch(b))
           /\ \A i \in 1 .. 5 : HandleMsg(b, m)[i] = DeleteTarget[i]
           /\ \A i \in 1 .. Len(Enter(m)) : HandleMsg(b, m)[5 + i] = Enter(m)[i]
           /\ \A i \in 1 .. Len(Launch(b)) :
                HandleMsg(b, m)[5 + Len(Enter(m)) + i] = Launch(b)[i]
<1> DEFINE B == HandleMsg(b, m)
           n == Len(Enter(m))
           l == Len(Launch(b))
<1> SUFFICES
      /\ n \in {1, 2} /\ l = (IF b = "onoff" THEN 3 ELSE 1) /\ Len(B) = 5 + n + l
      /\ \A i \in 1 .. 5 : B[i] = DeleteTarget[i]
      /\ \A i \in 1 .. n : B[5 + i] = Enter(m)[i]
      /\ \A i \in 1 .. l : B[5 + n + i] = Launch(b)[i]
  BY Zenon
<1>1. m.key \in {"source_id", "radec", "azel"} /\ m \in Message
  BY GoodValue
<1>2. B = DeleteTarget \o (Enter(m) \o Launch(b))
  <2>1. CASE m.key = "source_id"
    BY <2>1 DEF HandleMsg
  <2>2. CASE m.key = "radec"
    BY <2>2 DEF HandleMsg
  <2>3. CASE m.key = "azel"
    BY <2>3 DEF HandleMsg
  <2> QED
    BY <1>1, <2>1, <2>2, <2>3
<1>3. /\ n \in {1, 2} /\ Enter(m) \in Seq(Statement) /\ Launch(b) \in Seq(Statement)
      /\ l = IF b = "onoff" THEN 3 ELSE 1
  BY EnterBody, LaunchBody
<1>0. n = Len(Enter(m)) /\ l = Len(Launch(b))
  OBVIOUS
<1> HIDE DEF n, l, B
<1>4. DeleteTarget \in Seq(Statement) /\ Len(DeleteTarget) = 5
  BY PartTypes DEF DeleteTarget
<1> DEFINE rest == Enter(m) \o Launch(b)
<1>5. /\ rest \in Seq(Statement) /\ Len(rest) = n + l
      /\ \A i \in 1 .. n : rest[i] = Enter(m)[i]
      /\ \A i \in 1 .. l : rest[n + i] = Launch(b)[i]
  <2> DEFINE e == Enter(m)
             a == Launch(b)
  <2>1. e \in Seq(Statement) /\ a \in Seq(Statement)
    BY <1>3
  <2>2. rest = e \o a /\ Len(e) = n /\ Len(a) = l
    BY <1>0
  <2> HIDE DEF rest, e, a
  <2>3. e \o a \in Seq(Statement) /\ Len(e \o a) = Len(e) + Len(a)
    BY <2>1, ConcatAt
  <2>4. \A i \in 1 .. Len(e) : (e \o a)[i] = e[i]
    BY <2>1, ConcatAt
  <2>5. \A i \in 1 .. Len(a) : (e \o a)[Len(e) + i] = a[i]
    BY <2>1, ConcatAt
  <2> QED
    BY <2>2, <2>3, <2>4, <2>5 DEF e, a
<1> HIDE DEF rest
<1>6. /\ Len(B) = 5 + (n + l)
      /\ \A i \in 1 .. 5 : B[i] = DeleteTarget[i]
      /\ \A i \in 1 .. n + l : B[5 + i] = rest[i]
  <2>1. B = DeleteTarget \o rest
    BY <1>2 DEF rest
  <2> DEFINE d == DeleteTarget
  <2>2. d \in Seq(Statement) /\ rest \in Seq(Statement)
    BY <1>4, <1>5
  <2>3. Len(d) = 5 /\ B = d \o rest
    BY <1>4, <2>1
  <2> HIDE DEF d
  <2>4. Len(d \o rest) = Len(d) + Len(rest)
    BY <2>2, ConcatAt
  <2>5. \A i \in 1 .. Len(d) : (d \o rest)[i] = d[i]
    BY <2>2, ConcatAt
  <2>6. \A i \in 1 .. Len(rest) : (d \o rest)[Len(d) + i] = rest[i]
    BY <2>2, ConcatAt
  <2> QED
    BY <1>5, <2>3, <2>4, <2>5, <2>6 DEF d
<1>7. n \in Nat /\ l \in Nat
  BY <1>3
<1>8. \A i \in 1 .. n : B[5 + i] = Enter(m)[i]
  BY <1>5, <1>6, <1>7
<1>9. \A i \in 1 .. l : B[5 + n + i] = Launch(b)[i]
  <2> TAKE i \in 1 .. l
  <2>1. n + i \in 1 .. n + l /\ 5 + (n + i) = 5 + n + i
    BY <1>7
  <2> QED
    BY <1>5, <1>6, <2>1
<1>10. Len(B) = 5 + n + l
  BY <1>6, <1>7
<1> QED
  BY <1>3, <1>6, <1>8, <1>9, <1>10, Zenon

(* What the handler deletes first.                                           *)
LEMMA DeleteBody ==
    /\ DeleteTarget[1] = Delete("source_id") /\ DeleteTarget[2] = Delete("ra")
    /\ DeleteTarget[3] = Delete("dec") /\ DeleteTarget[4] = Delete("az")
    /\ DeleteTarget[5] = Delete("el")
BY DEF DeleteTarget

(* What is said of a body B that prepares the command for m: every statement *)
(* but the last enters what is wanted, unless a later one does; the last     *)
(* launches the scan.                                                        *)
Prepares(B, b, m) ==
    /\ Len(B) \in Nat \ {0}
    /\ B[Len(B)].do = IF b = "onoff" THEN "spawn" ELSE "publish"
    /\ \A i \in 1 .. Len(B) - 1 : B[i].do \in Writes
    /\ \A i \in 1 .. Len(B) : B[i].do = "delete" => B[i].val = None
    /\ \A i \in 1 .. Len(B) - 1 :
         \/ B[i].val = Wanted(m, B[i].key)
         \/ \E j \in i + 1 .. Len(B) : B[j].do \in Writes /\ B[j].key = B[i].key

(* It writes every entry of its block.                                       *)
WritesAll(B, b) ==
    \A k \in Keys : b = "onoff" \/ k \in SourceKeys =>
      \E i \in 1 .. Len(B) : B[i].do \in Writes /\ B[i].key = k

(* The handler, for a good message, prepares the command and writes it all;  *)
(* start() launches what is there.                                           *)
LEMMA PreparingBody ==
    ASSUME NEW b \in {"onoff", "track"}, NEW m \in Good,
           NEW call \in {Invoke("handle_msg", m), Invoke("start", NoMessage)}
    PROVE  /\ Prepares(Body(b, call), b, m)
           /\ call.method = "handle_msg" => WritesAll(Body(b, call), b)
<1> DEFINE B == Body(b, call)
<1> SUFFICES Prepares(B, b, m) /\ (call.method = "handle_msg" => WritesAll(B, b))
  OBVIOUS
<1>0. B = Body(b, call)
  OBVIOUS
<1> HIDE DEF B
<1>1. CASE call = Invoke("start", NoMessage)
  <2>1. call.method = "start"
    BY <1>1 DEF Invoke
  <2>2. B = Start(b)
    BY <1>0, <2>1 DEF Body
  <2>3. Len(B) = 1 /\ B[1] = IF b = "onoff" THEN Do("spawn") ELSE Do("publish")
    BY <2>2 DEF Start
  <2> QED
    BY <2>1, <2>3, StatementParts DEF Prepares
<1>2. CASE call = Invoke("handle_msg", m)
  <2> DEFINE n == Len(Enter(m))
             l == Len(Launch(b))
             E == Enter(m)
             L == Launch(b)
  <2>1. B = HandleMsg(b, m)
    BY <1>0, <1>2 DEF Body, Invoke
  <2>2. /\ n \in {1, 2} /\ l = (IF b = "onoff" THEN 3 ELSE 1) /\ Len(B) = 5 + n + l
        /\ \A i \in 1 .. 5 : B[i] = DeleteTarget[i]
        /\ \A i \in 1 .. n : B[5 + i] = E[i]
        /\ \A i \in 1 .. l : B[5 + n + i] = L[i]
    BY <2>1, HandleBody
  <2>3. \A i \in 1 .. n : E[i].do = "add" /\ E[i].val = m.val /\ E[i].key \in SourceKeys
    BY EnterBody
  <2>4. \A k : (\E i \in 1 .. n : E[i].key = k) => Wanted(m, k) = m.val
    BY DEF Wanted
  <2>5. \A k : ~(\E i \in 1 .. n : E[i].key = k) => Wanted(m, k) = None
    BY DEF Wanted
  <2>6. /\ b = "onoff" => L[1] = Delete("az_off") /\ L[2] = Delete("el_off") /\ L[3] = Do("spawn")
        /\ b = "track" => L[1] = Do("publish")
    BY LaunchBody
  <2> HIDE DEF n, l, E, L
  <2>7. \A i \in 1 .. 5 : B[i].do = "delete" /\ B[i].val = None
    BY <2>2, DeleteBody, StatementParts
  <2>8. \A i \in 1 .. n : B[5 + i].do = "add" /\ B[5 + i].val = m.val
                          /\ B[5 + i].key = E[i].key
    BY <2>2, <2>3
  <2>9. b = "onoff" => /\ B[5 + n + 1] = Delete("az_off") /\ B[5 + n + 2] = Delete("el_off")
                       /\ B[5 + n + 3] = Do("spawn")
    BY <2>2, <2>6
  <2>10. b = "track" => B[5 + n + 1] = Do("publish")
    BY <2>2, <2>6
  <2>11. n \in Nat /\ Len(B) = 5 + n + l /\ l \in {1, 3}
    BY <2>2
  <2>12. B[Len(B)].do = IF b = "onoff" THEN "spawn" ELSE "publish"
    <3>1. CASE b = "onoff"
      <4>1. Len(B) = 5 + n + 3
        BY <2>2, <3>1
      <4> QED
        BY <2>9, <3>1, <4>1, StatementParts
    <3>2. CASE b = "track"
      <4>1. Len(B) = 5 + n + 1
        BY <2>2, <3>2
      <4> QED
        BY <2>10, <3>2, <4>1, StatementParts
    <3> QED
      BY <3>1, <3>2
  <2>13. ASSUME NEW i \in 1 .. Len(B) - 1
         PROVE  /\ B[i].do \in Writes
                /\ \/ B[i].val = Wanted(m, B[i].key)
                   \/ \E j \in i + 1 .. Len(B) : B[j].do \in Writes /\ B[j].key = B[i].key
    <3>1. CASE i <= 5
      <4>1. B[i].do = "delete" /\ B[i].val = None
        BY <2>7, <3>1
      <4>2. CASE \E j \in 1 .. n : E[j].key = B[i].key
        <5>1. PICK j \in 1 .. n : E[j].key = B[i].key
          BY <4>2
        <5>2. 5 + j \in i + 1 .. Len(B)
          BY <2>11, <3>1
        <5>3. B[5 + j].do = "add" /\ B[5 + j].key = B[i].key
          BY <2>8, <5>1
        <5> QED
          BY <4>1, <5>2, <5>3 DEF Writes
      <4>3. CASE ~\E j \in 1 .. n : E[j].key = B[i].key
        BY <2>5, <4>1, <4>3 DEF Writes
      <4> QED
        BY <4>2, <4>3
    <3>2. CASE i > 5 /\ i <= 5 + n
      <4> DEFINE j == i - 5
      <4>1. j \in 1 .. n /\ i = 5 + j
        BY <2>11, <3>2
      <4> HIDE DEF j
      <4>2. B[i].do = "add" /\ B[i].val = m.val /\ B[i].key = E[j].key
        BY <2>8, <4>1
      <4>3. Wanted(m, B[i].key) = m.val
        BY <2>4, <4>1, <4>2
      <4> QED
        BY <4>2, <4>3 DEF Writes
    <3>3. CASE i > 5 + n
      <4>1. b = "onoff" /\ (i = 5 + n + 1 \/ i = 5 + n + 2)
        BY <2>2, <2>11, <3>3
      <4>2. B[i].do = "delete" /\ B[i].val = None /\ B[i].key \in OffsetKeys
        BY <2>9, <4>1, StatementParts DEF OffsetKeys
      <4>3. Wanted(m, B[i].key) = None
        BY <4>2, WantedEntries
      <4> QED
        BY <4>2, <4>3 DEF Writes
    <3> QED
      BY <2>11, <3>1, <3>2, <3>3
  <2>14. ASSUME NEW k \in Keys, b = "onoff" \/ k \in SourceKeys
         PROVE  \E i \in 1 .. Len(B) : B[i].do \in Writes /\ B[i].key = k
    <3>1. CASE k \in SourceKeys
      <4>1. \E i \in 1 .. 5 : B[i] = Delete(k)
        BY <2>2, <3>1, DeleteBody DEF SourceKeys
      <4>2. PICK i \in 1 .. 5 : B[i] = Delete(k)
        BY <4>1
      <4>3. i \in 1 .. Len(B)
        BY <2>11
      <4> QED
        BY <4>2, <4>3, StatementParts DEF Writes
    <3>2. CASE k \in OffsetKeys /\ b = "onoff"
      <4>1. 5 + n + 1 \in 1 .. Len(B) /\ 5 + n + 2 \in 1 .. Len(B)
        BY <2>2, <2>11, <3>2
      <4> QED
        BY <2>9, <3>2, <4>1, StatementParts DEF OffsetKeys, Writes
    <3> QED
      BY <2>14, <3>1, <3>2 DEF Keys
  <2>15. ASSUME NEW i \in 1 .. Len(B), B[i].do = "delete" PROVE B[i].val = None
    <3>1. CASE i <= 5
      BY <2>7, <3>1
    <3>2. CASE i > 5 /\ i <= 5 + n
      <4> DEFINE j == i - 5
      <4>1. j \in 1 .. n /\ i = 5 + j
        BY <2>11, <3>2
      <4> HIDE DEF j
      <4> QED
        BY <2>8, <2>15, <4>1
    <3>3. CASE i > 5 + n
      <4>1. i = Len(B) \/ (b = "onoff" /\ (i = 5 + n + 1 \/ i = 5 + n + 2))
        BY <2>2, <2>11, <3>3
      <4> QED
        BY <2>9, <2>12, <2>15, <4>1, StatementParts
    <3> QED
      BY <2>11, <3>1, <3>2, <3>3
  <2> QED
    BY <2>11, <2>12, <2>13, <2>14, <2>15 DEF Prepares, WritesAll
<1> QED
  BY <1>1, <1>2

(* Statements that touch no offset and start no thread.                      *)
Plain == {st \in Statement : st.do # "spawn" /\ st.key \in SourceKeys}

(* A track scan's methods consist of them.                                   *)
LEMMA TrackBody ==
    ASSUME NEW call \in Calls, call.method # "wait_duration"
    PROVE  Body("track", call) \in Seq(Plain)
<1>1. /\ \A k \in SourceKeys, v \in Values \cup {None} : Add(k, v) \in Plain
      /\ \A k \in SourceKeys : Delete(k) \in Plain
      /\ Do("publish") \in Plain /\ Do("raise") \in Plain
  BY StatementTypes, StatementParts DEF Plain, Keys, SourceKeys
<1>2. /\ "source_id" \in SourceKeys /\ "ra" \in SourceKeys /\ "dec" \in SourceKeys
      /\ "az" \in SourceKeys /\ "el" \in SourceKeys
  BY DEF SourceKeys
<1>3. /\ <<>> \in Seq(Plain) /\ DeleteTarget \in Seq(Plain) /\ <<Do("raise")>> \in Seq(Plain)
      /\ <<Do("publish")>> \in Seq(Plain)
  BY <1>1, <1>2 DEF DeleteTarget
<1>4. Start("track") \in Seq(Plain) /\ Launch("track") \in Seq(Plain)
  BY <1>3 DEF Start, Launch
<1>5. ASSUME NEW m \in Message PROVE Enter(m) \in Seq(Plain)
  BY <1>1, <1>2, MessageKinds DEF Enter
<1>6. CASE call = Invoke("start", NoMessage)
  <2>1. Body("track", call) = Start("track")
    BY <1>6 DEF Body, Invoke
  <2> QED
    BY <1>4, <2>1
<1>7. CASE call = Nothing
  <2>1. Body("track", call) = <<>>
    BY <1>7, NothingHasNoBody
  <2> QED
    BY <1>3, <2>1
<1>8. CASE \E m \in Good : call = Invoke("set", m)
  <2>1. PICK m \in Good : call = Invoke("set", m)
    BY <1>8
  <2>2. Body("track", call) = Enter(m) /\ m \in Message
    BY <2>1, GoodValue DEF Body, Invoke
  <2> QED
    BY <1>5, <2>2
<1>9. CASE \E m \in Message : call = Invoke("handle_msg", m)
  <2>1. PICK m \in Message : call = Invoke("handle_msg", m)
    BY <1>9
  <2>2. Body("track", call) = HandleMsg("track", m)
    BY <2>1 DEF Body, Invoke
  <2> DEFINE rest == CASE m.key = "malformed" -> <<Do("raise")>>
                       [] m.key = "wrong" -> <<>>
                       [] OTHER -> Enter(m) \o Launch("track")
  <2>3. Enter(m) \o Launch("track") \in Seq(Plain)
    BY <1>4, <1>5, ConcatAt
  <2>4. rest \in Seq(Plain)
    BY <1>3, <2>3
  <2>5. HandleMsg("track", m) = DeleteTarget \o rest
    BY DEF HandleMsg
  <2> HIDE DEF rest
  <2>6. DeleteTarget \o rest \in Seq(Plain)
    BY <1>3, <2>4, ConcatAt
  <2> QED
    BY <2>2, <2>5, <2>6
<1>10. call # Invoke("wait_duration", NoMessage)
  BY DEF Invoke
<1> QED
  BY <1>6, <1>7, <1>8, <1>9, <1>10 DEF Calls

(* A command with the entries that are wanted, and both offsets or none,     *)
(* points where it should.                                                   *)
LEMMA WantedPointing ==
    ASSUME NEW m \in Good, NEW c \in Command, NEW off \in BOOLEAN,
           \A k \in SourceKeys : c[k] = Wanted(m, k),
           off <=> OffSource(c)
    PROVE  /\ PointingOf(c) = PointingAt(m, off)
           /\ RaisesKeyError(c) => off /\ c["az_off"] # Offset
<1>1. /\ c["source_id"] = Wanted(m, "source_id") /\ c["ra"] = Wanted(m, "ra")
      /\ c["dec"] = Wanted(m, "dec") /\ c["az"] = Wanted(m, "az") /\ c["el"] = Wanted(m, "el")
  BY DEF SourceKeys
<1>2. m.key \in {"source_id", "radec", "azel"} /\ m.val # None /\ Offset # None
  BY GoodValue, PlacesAssumption DEF Values
<1>3. TargetKind(c) = m.key /\ Coordinates(c) = <<m.val, m.val>>
  <2>1. CASE m.key = "source_id"
    BY <1>1, <1>2, <2>1, WantedEntries DEF TargetKind, Coordinates
  <2>2. CASE m.key = "radec"
    BY <1>1, <1>2, <2>2, WantedEntries DEF TargetKind, Coordinates
  <2>3. CASE m.key = "azel"
    BY <1>1, <1>2, <2>3, WantedEntries DEF TargetKind, Coordinates
  <2> QED
    BY <1>2, <2>1, <2>2, <2>3
<1>4. RaisesKeyError(c) => off /\ c["az_off"] # Offset
  BY <1>2, <1>3 DEF RaisesKeyError
<1>5. OffSource(c) = off
  <2>1. OffSource(c) \in BOOLEAN
    BY Zenon DEF OffSource
  <2> QED
    BY <2>1
<1> QED
  BY <1>3, <1>4, <1>5, Zenon DEF PointingOf, PointingAt

-----------------------------------------------------------------------------
(* Steps of the threads. *)

(* The end of a statement: the next one, or the end of the call.             *)
LEMMA Advances ==
    ASSUME BlockTypeOK, JobsOK, NEW t \in Threads, ~Idle(t), Advance(t), block' = block
    PROVE  /\ \A u \in Threads \ {t} : job'[u] = job[u] /\ pos'[u] = pos[u]
           /\ \/ /\ pos[t] < Len(Body(block, job[t]))
                 /\ pos'[t] = pos[t] + 1 /\ job' = job
              \/ /\ pos[t] = Len(Body(block, job[t]))
                 /\ pos'[t] = 1 /\ job'[t] = Nothing
<1>1. pos[t] \in 1 .. Len(Body(block, job[t])) /\ pos[t] \in Nat
  BY AtType DEF JobsOK
<1>2. Len(Body(block, job[t])) \in Nat
  BY BusyHasBody DEF BlockTypeOK, JobsOK, Idle
<1> QED
  BY <1>1, <1>2 DEF Advance, JobsOK

(* A thread that is not touched is where it was.                             *)
LEMMA SamePlace ==
    ASSUME NEW u, job'[u] = job[u], pos'[u] = pos[u], block' = block
    PROVE  (Idle(u)' <=> Idle(u)) /\ At(u)' = At(u)
BY Zenon DEF Idle, At

(* A thread has the dictionary in hand only inside a statement that uses it. *)
LEMMA LoadedStep == TypeInv /\ LoadedInv /\ [Next]_vars => LoadedInv'
<1> SUFFICES ASSUME TypeInv, LoadedInv, [Next]_vars PROVE LoadedInv'
  OBVIOUS
<1>1. BlockTypeOK /\ JobsOK /\ loaded \in [Threads -> Command \cup {None}]
  BY DEF TypeInv, TypeOK, BlockTypeOK
<1>2. ASSUME block' = block,
             \A u \in Threads : \/ loaded'[u] = None
                                \/ /\ loaded'[u] = loaded[u] /\ job'[u] = job[u] /\ pos'[u] = pos[u]
                                \/ /\ ~Idle(u) /\ At(u).do \in Writes \cup {"publish"}
                                   /\ job'[u] = job[u] /\ pos'[u] = pos[u]
      PROVE  LoadedInv'
  <2> SUFFICES ASSUME NEW u \in Threads, loaded'[u] # None
               PROVE  (~Idle(u))' /\ At(u).do' \in Writes \cup {"publish"}
    BY DEF LoadedInv
  <2>1. ~Idle(u) /\ At(u).do \in Writes \cup {"publish"} /\ job'[u] = job[u] /\ pos'[u] = pos[u]
    BY <1>2 DEF LoadedInv
  <2>2. (Idle(u)' <=> Idle(u)) /\ At(u)' = At(u)
    BY <1>2, <2>1, SamePlace
  <2> QED
    BY <2>1, <2>2
<1>3. ASSUME NEW t \in Threads, NEW call, Idle(t), Begin(t, call), UNCHANGED <<block, pos, loaded>>
      PROVE  LoadedInv'
  <2>1. loaded[t] = None
    BY <1>3 DEF LoadedInv
  <2>2. \A u \in Threads \ {t} : job'[u] = job[u]
    BY <1>1, <1>3 DEF Begin, JobsOK
  <2> QED
    BY <1>2, <1>3, <2>1, <2>2
<1>4. ASSUME NEW m \in Message, Send(m) PROVE LoadedInv'
  BY <1>3, <1>4, ThreadNames DEF Send
<1>5. ASSUME NEW m \in Good, Set(m) PROVE LoadedInv'
  BY <1>3, <1>5, ThreadNames DEF Set
<1>6. CASE StartGraph
  BY <1>3, <1>6, ThreadNames DEF StartGraph
<1>7. ASSUME NEW t \in Threads, RunThread(t) PROVE LoadedInv'
  <2>1. ThreadStep(t) /\ ~Idle(t) /\ block' = block
    BY <1>7 DEF RunThread, ThreadStep, Load, Store, Publish, Wake, Spawn, Raise
  <2>2. CASE Load(t)
    <3>1. /\ At(t).do \in Writes \cup {"publish"} /\ job' = job /\ pos' = pos
          /\ \A u \in Threads \ {t} : loaded'[u] = loaded[u]
      BY <1>1, <2>2 DEF Load, Writes
    <3> QED
      BY <1>2, <2>1, <3>1
  <2>3. CASE Store(t) \/ Publish(t)
    <3>1. /\ loaded'[t] = None /\ Advance(t)
          /\ \A u \in Threads \ {t} : loaded'[u] = loaded[u]
      BY <1>1, <2>3 DEF Store, Publish
    <3>2. \A u \in Threads \ {t} : job'[u] = job[u] /\ pos'[u] = pos[u]
      BY <1>1, <2>1, <3>1, Advances
    <3> QED
      BY <1>2, <2>1, <3>1, <3>2
  <2>4. CASE Wake(t) \/ Raise(t)
    <3>1. At(t).do \in {"sleep", "raise"} /\ Advance(t) /\ loaded' = loaded
      BY <2>4 DEF Wake, Raise
    <3>2. \A u \in Threads \ {t} : job'[u] = job[u] /\ pos'[u] = pos[u]
      BY <1>1, <2>1, <3>1, Advances
    <3>3. loaded[t] = None
      BY <3>1 DEF LoadedInv, Writes
    <3> QED
      BY <1>2, <2>1, <3>1, <3>2, <3>3
  <2>5. CASE Spawn(t)
    <3> DEFINE s == CHOOSE s \in Scans : Idle(s)
    <3>1. s \in Scans /\ Idle(s)
      BY <2>5 DEF Spawn
    <3>2. /\ job' = [job EXCEPT ![s] = Invoke("wait_duration", NoMessage), ![t] = Nothing]
          /\ pos' = [pos EXCEPT ![t] = 1] /\ loaded' = loaded /\ At(t).do = "spawn"
      BY <2>5 DEF Spawn
    <3> HIDE DEF s
    <3>3. s \in Threads /\ loaded[s] = None /\ loaded[t] = None
      BY <3>1, <3>2, ThreadNames DEF LoadedInv, Writes
    <3>4. \A u \in Threads \ {s, t} : job'[u] = job[u] /\ pos'[u] = pos[u]
      BY <1>1, <3>2 DEF JobsOK
    <3> QED
      BY <1>2, <2>1, <3>2, <3>3, <3>4
  <2> QED
    BY <2>1, <2>2, <2>3, <2>4, <2>5 DEF ThreadStep
<1>8. CASE StopGraph \/ Control \/ UNCHANGED vars
  <2>1. UNCHANGED <<block, job, pos, loaded>>
    BY <1>8 DEF StopGraph, Control, vars, blockVars
  <2> QED
    BY <1>2, <2>1
<1> QED
  BY <1>4, <1>5, <1>6, <1>7, <1>8 DEF Next, Operator

(* Track scans have no offsets and no threads.                               *)
LEMMA TrackStep == TypeInv /\ TrackInv /\ [Next]_vars => TrackInv'
<1> SUFFICES ASSUME TypeInv, TrackInv, [Next]_vars, block' = "track" PROVE TrackInv'
  BY DEF TrackInv
<1>1. /\ BlockTypeOK /\ JobsOK /\ loaded \in [Threads -> Command \cup {None}]
      /\ command \in Command
  BY DEF TypeInv, TypeOK, BlockTypeOK
<1>2. block = "track"
  BY DEF Next, Operator, Send, Set, StartGraph, StopGraph, RunThread, ThreadStep, Load, Store,
         Publish, Wake, Spawn, Raise, Control, vars, blockVars
<1>3. /\ \A s \in Scans : job[s] = Nothing
      /\ \A t \in Threads : job[t].method # "wait_duration"
      /\ \A k \in OffsetKeys : command[k] = None
      /\ \A t \in Threads, k \in OffsetKeys : loaded[t] # None => loaded[t][k] = None
  BY <1>2 DEF TrackInv, Idle
<1>4. ASSUME \A s \in Scans : job'[s] = Nothing,
             \A t \in Threads : job'[t].method # "wait_duration",
             \A k \in OffsetKeys : command'[k] = None,
             \A t \in Threads, k \in OffsetKeys : loaded'[t] # None => loaded'[t][k] = None
      PROVE  TrackInv'
  BY <1>4 DEF TrackInv, Idle
<1>5. ASSUME NEW t \in {Handler, Gui}, NEW call, Begin(t, call), call.method # "wait_duration",
             UNCHANGED <<command, loaded>>
      PROVE  TrackInv'
  <2>1. t \in Threads /\ t \notin Scans
    BY ThreadsAssumption, ThreadNames
  <2>2. job' = [job EXCEPT ![t] = call] /\ job \in [Threads -> Calls]
    BY <1>1, <1>5 DEF Begin, JobsOK
  <2>3. \A s \in Scans : job'[s] = Nothing
    BY <1>3, <2>1, <2>2, ThreadNames
  <2>4. \A u \in Threads : job'[u].method # "wait_duration"
    BY <1>3, <1>5, <2>1, <2>2
  <2> QED
    BY <1>3, <1>4, <1>5, <2>3, <2>4
<1>6. ASSUME NEW m \in Message, Send(m) PROVE TrackInv'
  BY <1>5, <1>6 DEF Send, Invoke
<1>7. ASSUME NEW m \in Good, Set(m) PROVE TrackInv'
  BY <1>5, <1>7 DEF Set, Invoke
<1>8. CASE StartGraph
  BY <1>5, <1>8 DEF StartGraph, Invoke
<1>9. ASSUME NEW t \in Threads, RunThread(t) PROVE TrackInv'
  <2>1. ThreadStep(t) /\ ~Idle(t)
    BY <1>9 DEF RunThread, ThreadStep, Load, Store, Publish, Wake, Spawn, Raise
  <2>2. t \notin Scans
    BY <1>3, <2>1 DEF Idle
  <2>3. At(t) \in Plain
    <3>1. Body("track", job[t]) \in Seq(Plain)
      BY <1>1, <1>3, TrackBody DEF JobsOK
    <3>2. pos[t] \in 1 .. Len(Body("track", job[t]))
      BY <1>1, <1>2, <2>1, AtType
    <3> QED
      BY <1>2, <3>1, <3>2, ElementOfSeq DEF At
  <2>4. At(t).do # "spawn" /\ At(t).key \in SourceKeys /\ At(t).key \notin OffsetKeys
    BY <2>3 DEF Plain, SourceKeys, OffsetKeys
  <2>5. Nothing.method # "wait_duration"
    BY DEF Nothing, Invoke
  <2>6. ASSUME Advance(t)
        PROVE  /\ \A s \in Scans : job'[s] = Nothing
               /\ \A u \in Threads : job'[u].method # "wait_duration"
    <3>1. /\ \A u \in Threads \ {t} : job'[u] = job[u]
          /\ job'[t] \in {job[t], Nothing}
      BY <1>1, <1>2, <2>1, <2>6, Advances
    <3> QED
      BY <1>3, <2>2, <2>5, <3>1, ThreadNames
  <2>7. CASE Load(t)
    <3>1. job' = job /\ command' = command /\ loaded' = [loaded EXCEPT ![t] = command]
      BY <2>7 DEF Load
    <3>2. \A u \in Threads, k \in OffsetKeys : loaded'[u] # None => loaded'[u][k] = None
      BY <1>1, <1>3, <3>1
    <3> QED
      BY <1>3, <1>4, <3>1, <3>2
  <2>8. CASE Store(t)
    <3>1. /\ Advance(t) /\ loaded[t] # None /\ loaded' = [loaded EXCEPT ![t] = None]
          /\ command' = IF At(t).do = "add" THEN Added(loaded[t], At(t).key, At(t).val)
                        ELSE Deleted(loaded[t], At(t).key)
      BY <2>8 DEF Store
    <3>2. loaded[t] \in Command
      BY <1>1, <3>1
    <3>3. \A k \in OffsetKeys : command'[k] = loaded[t][k]
      BY <2>4, <3>1, <3>2 DEF Added, Deleted, Command, Keys
    <3>4. \A k \in OffsetKeys : command'[k] = None
      BY <1>3, <3>1, <3>3
    <3>5. \A u \in Threads, k \in OffsetKeys : loaded'[u] # None => loaded'[u][k] = None
      BY <1>1, <1>3, <3>1
    <3> QED
      BY <1>4, <2>6, <3>1, <3>4, <3>5
  <2>9. CASE Publish(t)
    <3>1. /\ Advance(t) /\ loaded' = [loaded EXCEPT ![t] = None] /\ command' = command
      BY <2>9 DEF Publish
    <3>2. \A u \in Threads, k \in OffsetKeys : loaded'[u] # None => loaded'[u][k] = None
      BY <1>1, <1>3, <3>1
    <3> QED
      BY <1>3, <1>4, <2>6, <3>1, <3>2
  <2>10. CASE Wake(t) \/ Raise(t)
    <3>1. Advance(t) /\ loaded' = loaded /\ command' = command
      BY <2>10 DEF Wake, Raise
    <3> QED
      BY <1>3, <1>4, <2>6, <3>1
  <2>11. ~Spawn(t)
    BY <2>4 DEF Spawn
  <2> QED
    BY <2>1, <2>7, <2>8, <2>9, <2>10, <2>11 DEF ThreadStep
<1>10. CASE StopGraph \/ Control \/ UNCHANGED vars
  <2>1. UNCHANGED <<command, job, loaded>>
    BY <1>10 DEF StopGraph, Control, vars, blockVars
  <2> QED
    BY <1>3, <1>4, <2>1
<1> QED
  BY <1>6, <1>7, <1>8, <1>9, <1>10 DEF Next, Operator

-----------------------------------------------------------------------------
(* Steps of a calm scan. *)

(* The only busy thread is the one that makes a step.                        *)
LEMMA WhoSteps ==
    ASSUME NEW t \in Threads, NEW u \in Threads, OnlyBusy(u), ~Idle(t)
    PROVE  t = u
BY DEF OnlyBusy

(* A calm scan begins with its command in preparation.                       *)
LEMMA CalmBegins ==
    ASSUME TypeInv, LoadedInv, TrackInv, Quiet, NEW m \in Good,
           NEW call \in {Invoke("handle_msg", m), Invoke("start", NoMessage)},
           NEW old \in BOOLEAN, stale' = old, call.method # "start" => ~old,
           call.method = "start" => HasTarget(command, m) /\ (old <=> OffSource(command)),
           Begin(Handler, call), UNCHANGED <<block, command, pos, loaded>>,
           wanted' = m, sent' = 0
    PROVE  CalmInv'
<1>1. BlockTypeOK /\ JobsOK /\ command \in Command /\ block \in {"onoff", "track"}
  BY DEF TypeInv, TypeOK, BlockTypeOK
<1>2. \A t \in Threads : job[t] = Nothing /\ loaded[t] = None
  BY DEF Quiet, Idle, LoadedInv
<1>3. Handler \in Threads
  BY ThreadNames
<1>4. call \in Calls /\ call # Nothing
  BY GoodValue, CallTypes DEF Calls
<1>5. job'[Handler] = call /\ \A t \in Threads \ {Handler} : job'[t] = Nothing
  BY <1>1, <1>2, <1>3 DEF Begin, JobsOK
<1>6. pos'[Handler] = 1
  <2>1. Len(Body(block, Nothing)) = 0
    BY NothingHasNoBody, EmptySeq
  <2> QED
    BY <1>1, <1>2, <1>3, <2>1 DEF JobsOK
<1>7. OnlyBusy(Handler)'
  BY <1>4, <1>5 DEF OnlyBusy, Idle
<1> DEFINE B == Body(block, call)
<1>8. Completed(B, 1, command, m, old)
  <2>1. CASE call.method = "start"
    <3>1. Wanted(m, "el_off") = None
      BY WantedEntries DEF OffsetKeys
    <3>2. \A k \in SourceKeys : command[k] = Wanted(m, k)
      BY <2>1 DEF HasTarget, WithTarget, Wanted, Keys
    <3>3. ~old => command["el_off"] = Wanted(m, "el_off")
      BY <2>1, <3>1 DEF OffSource
    <3> QED
      BY <3>2, <3>3 DEF Completed, Due
  <2>2. CASE call.method # "start"
    <3>1. call.method = "handle_msg"
      BY <2>2 DEF Invoke
    <3>2. WritesAll(B, block)
      BY <1>1, <3>1, PreparingBody
    <3>3. \A k \in OffsetKeys : block = "track" => command[k] = Wanted(m, k)
      BY WantedEntries DEF TrackInv
    <3>4. Due(old) \subseteq Keys
      BY DEF Due, Keys, OffsetKeys
    <3> QED
      BY <1>1, <3>2, <3>3, <3>4 DEF Completed, Keys, WritesAll
  <2> QED
    BY <2>1, <2>2
<1>9. Completed(Body(block, job[Handler]), pos[Handler], command, wanted, stale)'
  <2>1. Completed(B, 1, command, m, old)' <=> Completed(B, 1, command, m, old)
    BY DEF Completed, Due, Wanted, Body, HandleMsg
  <2> QED
    BY <1>5, <1>6, <1>8, <2>1
<1>10. Preparing'
  <2>1. stale' => job'[Handler].method = "start" /\ OffSource(command)'
    <3>1. OffSource(command)' <=> OffSource(command)
      BY DEF OffSource
    <3> QED
      BY <1>5, <3>1
  <2> QED
    BY <1>5, <1>7, <1>9, <2>1 DEF Preparing
<1>11. \A t \in Threads : loaded'[t] \in {None, command'}
  BY <1>2
<1>12. stale' => block' = "onoff"
  <2>1. stale' => command["el_off"] # None
    BY DEF OffSource
  <2> QED
    BY <1>1, <2>1 DEF TrackInv, OffsetKeys
<1> QED
  BY <1>10, <1>11, <1>12 DEF CalmInv

(* A step of the thread that prepares the command.                           *)
LEMMA PreparingStep ==
    ASSUME TypeInv, TrackInv, LoadedInv, calm, CalmInv, Preparing,
           NEW t \in Threads, ThreadStep(t), calm' = calm, wanted' = wanted, stale' = stale,
           sent' = sent + (Len(commands') - Len(commands))
    PROVE  /\ CalmInv'
           /\ Publish(t) => /\ block = "track" /\ sent = 0 /\ loaded[t] = command
                            /\ \A k \in SourceKeys : command[k] = Wanted(wanted, k)
                            /\ ~stale /\ command["el_off"] = None
<1>1. /\ BlockTypeOK /\ JobsOK /\ command \in Command /\ block \in {"onoff", "track"}
      /\ loaded \in [Threads -> Command \cup {None}] /\ commands \in Seq(Command)
  BY DEF TypeInv, TypeOK, BlockTypeOK, ControlTypeOK
<1>2. ~Idle(t) /\ block' = block
  BY DEF ThreadStep, Load, Store, Publish, Wake, Spawn, Raise
<1>3. t = Handler /\ \A u \in Threads \ {Handler} : Idle(u)
  BY <1>2, WhoSteps, ThreadNames DEF Preparing, OnlyBusy
<1>4. /\ wanted \in Good /\ \A u \in Threads : loaded[u] \in {None, command}
      /\ stale' => block' = "onoff"
  BY <1>2 DEF CalmInv
<1> DEFINE B == Body(block, job[t])
           p == pos[t]
<1>5. /\ p \in 1 .. Len(B) /\ p \in Nat /\ Len(B) \in Nat \ {0}
      /\ B[Len(B)].do = IF block = "onoff" THEN "spawn" ELSE "publish"
      /\ \A i \in 1 .. Len(B) - 1 : B[i].do \in Writes
      /\ \A i \in 1 .. Len(B) : B[i].do = "delete" => B[i].val = None
      /\ \A i \in 1 .. Len(B) - 1 :
           \/ B[i].val = Wanted(wanted, B[i].key)
           \/ \E j \in i + 1 .. Len(B) : B[j].do \in Writes /\ B[j].key = B[i].key
  <2>1. /\ job[t] \in {Invoke("handle_msg", wanted), Invoke("start", NoMessage)}
        /\ B = Body(block, job[t])
    BY <1>3 DEF Preparing
  <2>2. p \in 1 .. Len(B) /\ p \in Nat
    BY <1>1, <1>2, AtType DEF JobsOK
  <2>3. Prepares(B, block, wanted)
    BY <1>1, <1>4, <2>1, PreparingBody
  <2> HIDE DEF B, p
  <2> QED
    BY <2>2, <2>3 DEF Prepares
<1>6. Completed(B, p, command, wanted, stale) /\ At(t) = B[p] /\ sent = 0
  BY <1>3 DEF Preparing, At
<1>7. job[t] # Nothing /\ job[t] \in {Invoke("handle_msg", wanted), Invoke("start", NoMessage)}
  BY <1>2, <1>3 DEF Idle, Preparing
<1>8. \A u \in Threads \ {t} : job[u] = Nothing
  BY <1>3 DEF Idle
<1>9. p = Len(B) => \A k \in Due(stale) : command[k] = Wanted(wanted, k)
  <2> SUFFICES ASSUME p = Len(B), NEW k \in Due(stale) PROVE command[k] = Wanted(wanted, k)
    OBVIOUS
  <2>1. B[Len(B)].do \notin Writes
    BY <1>5 DEF Writes
  <2> HIDE DEF B, p
  <2>2. ~\E i \in p .. Len(B) : B[i].do \in Writes /\ B[i].key = k
    BY <1>5, <2>1
  <2> QED
    BY <1>6, <2>2 DEF Completed
<1>10. p < Len(B) => At(t).do \in Writes
  BY <1>5, <1>6
<1>11. ASSUME job' = job, pos'[t] = p \/ pos'[t] = p + 1,
              Completed(B, pos'[t], command', wanted, stale),
              stale => command'["el_off"] = command["el_off"], sent' = 0, \A u \in Threads : loaded'[u] \in {None, command'}
       PROVE  CalmInv'
  <2>1. OnlyBusy(Handler)'
    BY <1>3, <1>7, <1>8, <1>11 DEF OnlyBusy, Idle
  <2>2. Body(block, job[t])' = B
    BY <1>2, <1>11
  <2>3. Completed(Body(block, job[Handler]), pos[Handler], command, wanted, stale)'
    <3>1. Completed(Body(block, job[Handler]), pos[Handler], command, wanted, stale)'
            <=> Completed(B, pos'[t], command', wanted, stale)
      BY <1>2, <1>3, <1>11 DEF Completed, Due, Wanted
    <3> QED
      BY <1>11, <3>1
  <2>4. stale' => job'[Handler].method = "start" /\ OffSource(command)'
    <3>1. stale => job[Handler].method = "start" /\ OffSource(command)
      BY DEF Preparing
    <3> QED
      BY <1>11, <3>1 DEF OffSource
  <2>5. Preparing'
    BY <1>3, <1>7, <1>11, <2>1, <2>3, <2>4 DEF Preparing
  <2> QED
    BY <1>4, <1>11, <2>5 DEF CalmInv
<1>12. CASE Load(t)
  <2>1. /\ job' = job /\ pos' = pos /\ command' = command /\ commands' = commands
        /\ loaded' = [loaded EXCEPT ![t] = command]
    BY <1>12 DEF Load
  <2>2. \A u \in Threads : loaded'[u] \in {None, command'}
    BY <1>1, <1>4, <2>1
  <2>3. sent' = 0
    BY <1>1, <1>6, <2>1, LenProperties
  <2>4. Completed(B, pos'[t], command', wanted, stale)
    BY <1>6, <2>1
  <2>5. ~Publish(t)
    BY <1>12 DEF Load, Publish
  <2> HIDE DEF B
  <2> QED
    BY <1>11, <2>1, <2>2, <2>3, <2>4, <2>5
<1>13. CASE Store(t)
  <2>1. /\ At(t).do \in Writes /\ loaded[t] # None /\ Advance(t) /\ commands' = commands
        /\ command' = IF At(t).do = "add" THEN Added(loaded[t], At(t).key, At(t).val)
                      ELSE Deleted(loaded[t], At(t).key)
        /\ loaded' = [loaded EXCEPT ![t] = None]
    BY <1>13 DEF Store, Writes
  <2>2. p < Len(B)
    <3>1. p # Len(B)
      BY <1>5, <1>6, <2>1 DEF Writes
    <3> HIDE DEF B, p
    <3> QED
      BY <1>5, <3>1
  <2>3. pos'[t] = p + 1 /\ job' = job
    BY <1>1, <1>2, <2>1, <2>2, Advances
  <2>4. loaded[t] = command
    BY <1>4, <2>1
  <2>5. At(t) \in Statement /\ (At(t).do = "delete" => At(t).val = None)
    <3>1. At(t) \in Statement
      BY <1>1, <1>2, AtType
    <3>2. At(t).do = "delete" => At(t).val = None
      BY <1>5, <1>6
    <3> QED
      BY <3>1, <3>2
  <2>6. command' = [command EXCEPT ![At(t).key] = At(t).val]
    BY <2>1, <2>4, <2>5 DEF Added, Deleted, Writes
  <2>7. Completed(B, p + 1, command', wanted, stale)
    <3> SUFFICES ASSUME NEW k \in Due(stale)
                 PROVE  \/ command'[k] = Wanted(wanted, k)
                        \/ \E i \in p + 1 .. Len(B) : B[i].do \in Writes /\ B[i].key = k
      BY DEF Completed
    <3> k \in Keys
      BY DEF Due, Keys, OffsetKeys
    <3>1. CASE k = At(t).key
      <4>1. command'[k] = At(t).val
        BY <1>1, <2>6, <3>1 DEF Command
      <4>2. p \in 1 .. Len(B) - 1
        BY <1>5, <2>2
      <4> HIDE DEF B, p
      <4> QED
        BY <1>5, <1>6, <3>1, <4>1, <4>2
    <3>2. CASE k # At(t).key
      <4>1. command'[k] = command[k]
        BY <1>1, <2>6, <3>2 DEF Command
      <4>2. \/ command[k] = Wanted(wanted, k)
            \/ \E i \in p .. Len(B) : B[i].do \in Writes /\ B[i].key = k
        BY <1>6 DEF Completed
      <4> HIDE DEF B, p
      <4> QED
        BY <1>5, <1>6, <3>2, <4>1, <4>2
    <3> QED
      BY <3>1, <3>2
  <2>8. \A u \in Threads : loaded'[u] \in {None, command'}
    <3>1. \A u \in Threads \ {t} : loaded[u] = None
      BY <1>3 DEF LoadedInv
    <3> QED
      BY <1>1, <2>1, <3>1
  <2>9. sent' = 0
    BY <1>1, <1>6, <2>1, LenProperties
  <2>10. ~Publish(t)
    BY <2>1 DEF Publish, Writes
  <2>11. ~stale
    <3> SUFFICES ASSUME stale PROVE FALSE
      OBVIOUS
    <3>1. job[t].method = "start"
      BY <1>3 DEF Preparing
    <3>2. B = Start(block)
      BY <3>1 DEF Body
    <3>3. Len(B) = 1
      BY <3>2 DEF Start
    <3> HIDE DEF B, p
    <3> QED
      BY <1>5, <2>2, <3>3
  <2> HIDE DEF B
  <2> QED
    BY <1>11, <2>3, <2>7, <2>8, <2>9, <2>10, <2>11
<1>14. CASE Publish(t)
  <2>1. At(t).do = "publish" /\ loaded[t] # None /\ Advance(t) /\ command' = command
        /\ loaded' = [loaded EXCEPT ![t] = None]
    BY <1>14 DEF Publish
  <2>2. ~(p < Len(B))
    BY <1>10, <2>1 DEF Writes
  <2>3. p = Len(B)
    <3> HIDE DEF B, p
    <3> QED
      BY <1>5, <2>2
  <2>4. block = "track" /\ loaded[t] = command
    BY <1>1, <1>4, <1>5, <1>6, <2>1, <2>3
  <2>5. /\ job'[t] = Nothing /\ \A u \in Threads \ {t} : job'[u] = job[u]
    BY <1>1, <1>2, <2>1, <2>2, Advances
  <2>6. Quiet'
    BY <1>8, <2>5 DEF Quiet, Idle
  <2>7. sent' = 1
    <3>1. Len(commands') = Len(commands) + 1 /\ Len(commands) \in Nat
      BY <1>1, <1>14, AppendProperties, LenProperties, <2>1 DEF Publish
    <3> QED
      BY <1>6, <3>1
  <2>8. Over'
    BY <1>2, <2>4, <2>6, <2>7 DEF Over, ScanLength
  <2>9. \A u \in Threads : loaded'[u] \in {None, command'}
    BY <1>1, <1>4, <2>1
  <2>10. CalmInv'
    BY <1>4, <2>8, <2>9 DEF CalmInv
  <2>11. \A k \in SourceKeys : command[k] = Wanted(wanted, k)
    BY <1>9, <2>3 DEF Due
  <2>12. command["el_off"] = None
    BY <2>4 DEF TrackInv, OffsetKeys
  <2>13. ~stale
    BY <2>12 DEF Preparing, OffSource
  <2> QED
    BY <1>6, <2>4, <2>10, <2>11, <2>12, <2>13
<1>15. CASE Wake(t) \/ Raise(t)
  <2>1. At(t).do \in {"sleep", "raise"}
    BY <1>15 DEF Wake, Raise
  <2>2. ~(p < Len(B)) /\ At(t).do # "spawn" /\ At(t).do # "publish"
    BY <1>10, <2>1 DEF Writes
  <2>3. p = Len(B)
    <3> HIDE DEF B, p
    <3> QED
      BY <1>5, <2>2
  <2> QED
    BY <1>5, <1>6, <2>2, <2>3
<1>16. CASE Spawn(t)
  <2>1. PICK s \in Scans :
          /\ Idle(s)
          /\ job' = [job EXCEPT ![s] = Invoke("wait_duration", NoMessage), ![t] = Nothing]
    BY <1>16 DEF Spawn
  <2>2. /\ pos' = [pos EXCEPT ![t] = 1] /\ loaded' = loaded /\ At(t).do = "spawn"
        /\ command' = command /\ commands' = commands
    BY <1>16 DEF Spawn
  <2>3. s \in Threads /\ s # t
    BY <1>2, <2>1, ThreadNames
  <2>4. ~(p < Len(B))
    BY <1>10, <2>2 DEF Writes
  <2>5. p = Len(B)
    <3> HIDE DEF B, p
    <3> QED
      BY <1>5, <2>4
  <2>6. block = "onoff"
    BY <1>1, <1>5, <1>6, <2>2, <2>5
  <2>7. pos[s] = 1
    <3>1. Len(Body(block, Nothing)) = 0
      BY NothingHasNoBody, EmptySeq
    <3> QED
      BY <1>1, <2>1, <2>3, <3>1 DEF Idle, JobsOK
  <2>8. /\ job'[s] = Invoke("wait_duration", NoMessage) /\ pos'[s] = 1
        /\ \A u \in Threads \ {s} : job'[u] = Nothing
    BY <1>1, <1>8, <2>1, <2>2, <2>3, <2>7 DEF JobsOK
  <2>9. OnlyBusy(s)'
    BY <2>8, CallTypes DEF OnlyBusy, Idle
  <2>10. \A k \in Due(stale) : command'[k] = Wanted(wanted, k)
    BY <1>9, <2>2, <2>5
  <2>11. stale' <=> OffSource(command)'
    <3>1. CASE stale
      BY <2>2, <3>1 DEF Preparing, OffSource
    <3>2. CASE ~stale
      <4>1. command'["el_off"] = None
        BY <1>4, <2>10, <3>2, WantedEntries DEF Due, OffsetKeys
      <4> QED
        BY <3>2, <4>1 DEF OffSource
    <3> QED
      BY <3>1, <3>2
  <2>12. \A k \in SourceKeys : (command[k] = Wanted(wanted, k))'
    BY <2>10 DEF Due, Wanted
  <2>13. sent' = 0
    BY <1>1, <1>6, <2>2, LenProperties
  <2>14. Scanning(s, pos[s])'
    BY <2>8, <2>9, <2>11, <2>12, <2>13 DEF Scanning
  <2>15. \A u \in Threads : loaded'[u] \in {None, command'}
    BY <1>4, <2>2
  <2>16. ~Publish(t)
    BY <2>2 DEF Publish
  <2> QED
    BY <1>2, <1>4, <2>1, <2>6, <2>14, <2>15, <2>16 DEF CalmInv
<1> QED
  BY <1>12, <1>13, <1>14, <1>15, <1>16 DEF ThreadStep

(* The statements of a scan's thread.                                        *)
LEMMA WaitBody ==
    /\ Len(WaitDuration) = 7
    /\ WaitDuration[1] = Do("publish") /\ WaitDuration[2] = Do("sleep")
    /\ WaitDuration[3] = Add("az_off", Offset) /\ WaitDuration[4] = Add("el_off", Offset)
    /\ WaitDuration[5] = Do("publish")
    /\ WaitDuration[6] = Delete("az_off") /\ WaitDuration[7] = Delete("az_off")
BY DEF WaitDuration

(* A step of a scan's thread: before its offsets are added it sends the      *)
(* command without, after that with both.                                    *)
LEMMA ScanningStep ==
    ASSUME TypeInv, LoadedInv, calm, CalmInv, block = "onoff",
           NEW s \in Scans, Scanning(s, pos[s]),
           NEW t \in Threads, ThreadStep(t), calm' = calm, wanted' = wanted, stale' = stale,
           sent' = sent + (Len(commands') - Len(commands))
    PROVE  /\ CalmInv'
           /\ Publish(t) =>
                /\ loaded[t] = command /\ sent \in {0, 1}
                /\ \A k \in SourceKeys : command[k] = Wanted(wanted, k)
                /\ sent = 1 => command["az_off"] = Offset /\ command["el_off"] = Offset
                /\ sent # 1 => (stale <=> OffSource(command))
<1>1. /\ BlockTypeOK /\ JobsOK /\ command \in Command
      /\ loaded \in [Threads -> Command \cup {None}] /\ commands \in Seq(Command)
  BY DEF TypeInv, TypeOK, BlockTypeOK, ControlTypeOK
<1>2. ~Idle(t) /\ block' = block
  BY DEF ThreadStep, Load, Store, Publish, Wake, Spawn, Raise
<1>3. t = s /\ \A u \in Threads \ {s} : job[u] = Nothing
  BY <1>2, WhoSteps, ThreadNames DEF Scanning, OnlyBusy, Idle
<1>4. /\ wanted \in Good /\ \A u \in Threads : loaded[u] \in {None, command}
      /\ stale' => block' = "onoff"
  BY <1>2 DEF CalmInv
<1>5. job[s] = Invoke("wait_duration", NoMessage) /\ job[s] # Nothing
  BY <1>2, <1>3 DEF Scanning, Idle
<1>6. Body(block, job[s]) = WaitDuration
  BY <1>5 DEF Body, Invoke
<1> DEFINE p == pos[s]
<1>7. p \in 1 .. 7 /\ At(t) = WaitDuration[p]
  <2>1. pos[t] \in 1 .. Len(Body(block, job[t]))
    BY <1>1, <1>2, AtType
  <2> QED
    BY <1>3, <1>6, <2>1, WaitBody DEF At
<1>8. /\ \A k \in SourceKeys : command[k] = Wanted(wanted, k)
      /\ p = 1 => (stale <=> OffSource(command))
      /\ p = 4 => command["az_off"] = Offset
      /\ p = 5 => command["az_off"] = Offset /\ command["el_off"] = Offset
      /\ sent = (IF p = 1 THEN 0 ELSE IF p <= 5 THEN 1 ELSE 2)
  BY DEF Scanning
<1>9. Len(commands) \in Nat
  BY <1>1, LenProperties
<1>10. ASSUME job' = job, NEW q, pos'[s] = q,
              \A k \in SourceKeys : command'[k] = Wanted(wanted, k),
              q = 1 => (stale <=> OffSource(command')),
              q = 4 => command'["az_off"] = Offset,
              q = 5 => command'["az_off"] = Offset /\ command'["el_off"] = Offset,
              sent' = (IF q = 1 THEN 0 ELSE IF q <= 5 THEN 1 ELSE 2),
              \A u \in Threads : loaded'[u] \in {None, command'}
       PROVE  CalmInv'
  <2>1. OnlyBusy(s)'
    BY <1>3, <1>5, <1>10 DEF OnlyBusy, Idle
  <2>2. \A k \in SourceKeys : (command[k] = Wanted(wanted, k))'
    BY <1>10 DEF Wanted
  <2>3. Scanning(s, pos[s])'
    BY <1>5, <1>10, <2>1, <2>2 DEF Scanning
  <2> QED
    BY <1>2, <1>4, <1>10, <2>3 DEF CalmInv
<1>11. Advance(t) =>
         \/ p < 7 /\ pos'[s] = p + 1 /\ job' = job
         \/ p = 7 /\ job'[s] = Nothing /\ \A u \in Threads \ {s} : job'[u] = job[u]
  <2>1. Len(Body(block, job[t])) = 7
    BY <1>3, <1>6, WaitBody
  <2> QED
    BY <1>1, <1>2, <1>3, <2>1, Advances
<1>12. loaded[t] # None /\ loaded' = [loaded EXCEPT ![t] = None] =>
         \A u \in Threads : loaded'[u] = None
  <2>1. \A u \in Threads \ {t} : loaded[u] = None
    BY <1>3 DEF LoadedInv, Idle
  <2> QED
    BY <1>1, <2>1
<1> HIDE DEF p
<1>13. CASE Load(t)
  <2>1. /\ job' = job /\ pos' = pos /\ command' = command /\ commands' = commands
        /\ loaded' = [loaded EXCEPT ![t] = command]
    BY <1>13 DEF Load
  <2>2. \A u \in Threads : loaded'[u] \in {None, command'}
    BY <1>1, <1>4, <2>1
  <2>3. sent' = sent
    BY <1>8, <1>9, <2>1
  <2>4. pos'[s] = p
    BY <2>1 DEF p
  <2>5. ~Publish(t)
    BY <1>13 DEF Load, Publish
  <2> QED
    BY <1>8, <1>10, <2>1, <2>2, <2>3, <2>4, <2>5
<1>14. CASE Store(t)
  <2>1. /\ At(t).do \in Writes /\ loaded[t] # None /\ Advance(t) /\ commands' = commands
        /\ command' = IF At(t).do = "add" THEN Added(loaded[t], At(t).key, At(t).val)
                      ELSE Deleted(loaded[t], At(t).key)
        /\ loaded' = [loaded EXCEPT ![t] = None]
    BY <1>14 DEF Store, Writes
  <2>2. loaded[t] = command
    BY <1>4, <2>1
  <2>3. \A u \in Threads : loaded'[u] \in {None, command'}
    BY <1>12, <2>1
  <2>4. sent' = sent
    BY <1>8, <1>9, <2>1
  <2>5. ~Publish(t)
    BY <2>1 DEF Publish, Writes
  <2>6. p \in {3, 4, 6, 7}
    BY <1>7, <2>1, WaitBody, StatementParts DEF Writes
  <2>7. CASE p = 3
    <3>1. command' = [command EXCEPT !["az_off"] = Offset]
      <4>1. At(t).do = "add" /\ At(t).key = "az_off" /\ At(t).val = Offset
        BY <1>7, <2>7, WaitBody, StatementParts
      <4>2. command' = Added(command, "az_off", Offset)
        BY <2>1, <2>2, <4>1
      <4> QED
        BY <4>2 DEF Added
    <3>2. /\ \A k \in SourceKeys : command'[k] = command[k]
          /\ command'["az_off"] = Offset
      BY <1>1, <1>8, <2>7, <3>1 DEF Command, Keys, SourceKeys, OffsetKeys
    <3>3. pos'[s] = 4 /\ job' = job /\ sent' = 1
      BY <1>8, <1>11, <2>1, <2>4, <2>7
    <3> QED
      BY <1>8, <1>10, <2>3, <2>5, <3>2, <3>3
  <2>8. CASE p = 4
    <3>1. command' = [command EXCEPT !["el_off"] = Offset]
      <4>1. At(t).do = "add" /\ At(t).key = "el_off" /\ At(t).val = Offset
        BY <1>7, <2>8, WaitBody, StatementParts
      <4>2. command' = Added(command, "el_off", Offset)
        BY <2>1, <2>2, <4>1
      <4> QED
        BY <4>2 DEF Added
    <3>2. /\ \A k \in SourceKeys : command'[k] = command[k]
          /\ command'["az_off"] = Offset /\ command'["el_off"] = Offset
      BY <1>1, <1>8, <2>8, <3>1 DEF Command, Keys, SourceKeys, OffsetKeys
    <3>3. pos'[s] = 5 /\ job' = job /\ sent' = 1
      BY <1>8, <1>11, <2>1, <2>4, <2>8
    <3> QED
      BY <1>8, <1>10, <2>3, <2>5, <3>2, <3>3
  <2>9. CASE p = 6
    <3>1. command' = [command EXCEPT !["az_off"] = None]
      <4>1. At(t).do = "delete" /\ At(t).key = "az_off"
        BY <1>7, <2>9, WaitBody, StatementParts
      <4>2. command' = Deleted(command, "az_off")
        BY <2>1, <2>2, <4>1
      <4> QED
        BY <4>2 DEF Deleted
    <3>2. \A k \in SourceKeys : command'[k] = command[k]
      BY <1>1, <3>1 DEF Command, Keys, SourceKeys, OffsetKeys
    <3>3. pos'[s] = 7 /\ job' = job /\ sent' = 2
      BY <1>8, <1>11, <2>1, <2>4, <2>9
    <3> QED
      BY <1>8, <1>10, <2>3, <2>5, <3>2, <3>3
  <2>10. CASE p = 7
    <3>1. \A u \in Threads : job'[u] = Nothing
      BY <1>3, <1>11, <2>1, <2>10
    <3>2. sent' = 2
      BY <1>8, <2>4, <2>10
    <3>3. Over'
      BY <1>2, <3>1, <3>2 DEF Over, Quiet, Idle, ScanLength
    <3> QED
      BY <1>4, <2>3, <2>5, <3>3 DEF CalmInv
  <2> QED
    BY <2>6, <2>7, <2>8, <2>9, <2>10
<1>15. CASE Publish(t)
  <2>1. /\ At(t).do = "publish" /\ loaded[t] # None /\ Advance(t) /\ command' = command
        /\ commands' = Append(commands, loaded[t])
        /\ loaded' = [loaded EXCEPT ![t] = None]
    BY <1>15 DEF Publish
  <2>2. p \in {1, 5}
    BY <1>7, <2>1, WaitBody, StatementParts
  <2>3. loaded[t] = command
    BY <1>4, <2>1
  <2>4. \A u \in Threads : loaded'[u] \in {None, command'}
    BY <1>12, <2>1
  <2>5. sent' = sent + 1
    <3>1. Len(commands') = Len(commands) + 1
      BY <1>1, <2>1, <2>3, AppendProperties
    <3> QED
      BY <1>8, <1>9, <3>1
  <2>6. pos'[s] = p + 1 /\ job' = job
    BY <1>11, <2>1, <2>2
  <2>7. CalmInv'
    <3>1. CASE p = 1
      <4>1. pos'[s] = 2 /\ sent' = 1
        BY <1>8, <2>5, <2>6, <3>1
      <4> QED
        BY <1>8, <1>10, <2>1, <2>4, <2>6, <3>1, <4>1
    <3>2. CASE p = 5
      <4>1. pos'[s] = 6 /\ sent' = 2
        BY <1>8, <2>5, <2>6, <3>2
      <4> QED
        BY <1>8, <1>10, <2>1, <2>4, <2>6, <3>2, <4>1
    <3> QED
      BY <2>2, <3>1, <3>2
  <2>8. sent = (IF p = 1 THEN 0 ELSE 1)
    BY <1>8, <2>2
  <2> QED
    BY <1>8, <2>2, <2>3, <2>7, <2>8
<1>16. CASE Wake(t)
  <2>1. /\ At(t).do = "sleep" /\ Advance(t) /\ command' = command /\ commands' = commands
        /\ loaded' = loaded
    BY <1>16 DEF Wake
  <2>2. p = 2
    BY <1>7, <2>1, WaitBody, StatementParts
  <2>3. pos'[s] = 3 /\ job' = job /\ sent' = 1
    BY <1>8, <1>9, <1>11, <2>1, <2>2
  <2>4. \A u \in Threads : loaded'[u] \in {None, command'}
    BY <1>4, <2>1
  <2>5. ~Publish(t)
    BY <2>1 DEF Publish
  <2> QED
    BY <1>8, <1>10, <2>1, <2>2, <2>3, <2>4, <2>5
<1>17. ~Spawn(t) /\ ~Raise(t)
  BY <1>7, WaitBody, StatementParts DEF Spawn, Raise
<1> QED
  BY <1>13, <1>14, <1>15, <1>16, <1>17 DEF ThreadStep

(* A calm scan's step is one of its threads'.                                *)
LEMMA CalmThreadStep ==
    ASSUME TypeInv, ScanInv, calm, NEW t \in Threads, RunThread(t)
    PROVE  /\ CalmInv'
           /\ Len(commands') > Len(commands) =>
                LET c == commands'[Len(commands')]
                IN  /\ sent < ScanLength
                    /\ PointingOf(c) = PointingAt(wanted, sent = 1 \/ stale)
                    /\ RaisesKeyError(c) => stale /\ sent = 0
<1>1. ThreadStep(t) /\ calm' = calm /\ wanted' = wanted /\ stale' = stale
      /\ sent' = sent + (Len(commands') - Len(commands))
  BY DEF RunThread
<1>2. BlockTypeOK /\ commands \in Seq(Command) /\ Len(commands) \in Nat
  <2>1. BlockTypeOK /\ commands \in Seq(Command)
    BY DEF TypeInv, TypeOK, ControlTypeOK
  <2> QED
    BY <2>1, LenProperties
<1>3. LoadedInv /\ TrackInv /\ CalmInv /\ wanted \in Good
  BY DEF ScanInv, CalmInv
<1>4. ~Idle(t)
  BY <1>1 DEF ThreadStep, Load, Store, Publish, Wake, Spawn, Raise
<1>5. ~Over
  BY <1>4 DEF Over, Quiet
<1>6. /\ CalmInv'
      /\ Publish(t) =>
           /\ loaded[t] = command
           /\ \A k \in SourceKeys : command[k] = Wanted(wanted, k)
           /\ sent = 1 => command["az_off"] = Offset /\ command["el_off"] = Offset
           /\ sent # 1 => (stale <=> OffSource(command))
           /\ sent \in {0, 1} /\ sent < ScanLength
  <2>1. CASE Preparing
    <3>1. /\ CalmInv'
          /\ Publish(t) => /\ block = "track" /\ sent = 0 /\ loaded[t] = command
                           /\ \A k \in SourceKeys : command[k] = Wanted(wanted, k)
                           /\ ~stale /\ command["el_off"] = None
      BY <1>1, <1>3, <2>1, PreparingStep
    <3> QED
      BY <3>1 DEF OffSource, ScanLength
  <2>2. CASE block = "onoff" /\ \E s \in Scans : Scanning(s, pos[s])
    <3>1. PICK s \in Scans : Scanning(s, pos[s])
      BY <2>2
    <3>2. /\ CalmInv'
          /\ Publish(t) =>
               /\ loaded[t] = command /\ sent \in {0, 1}
               /\ \A k \in SourceKeys : command[k] = Wanted(wanted, k)
               /\ sent = 1 => command["az_off"] = Offset /\ command["el_off"] = Offset
               /\ sent # 1 => (stale <=> OffSource(command))
      BY <1>1, <1>3, <2>2, <3>1, ScanningStep
    <3> QED
      BY <2>2, <3>2 DEF ScanLength
  <2> QED
    BY <1>3, <1>5, <2>1, <2>2 DEF CalmInv
<1>7. ASSUME Len(commands') > Len(commands)
      PROVE  LET c == commands'[Len(commands')]
             IN  /\ sent < ScanLength
                 /\ PointingOf(c) = PointingAt(wanted, sent = 1 \/ stale)
                 /\ RaisesKeyError(c) => stale /\ sent = 0
  <2>1. /\ Publish(t) /\ loaded[t] \in Command
        /\ commands'[Len(commands')] = loaded[t]
    BY <1>1, <1>2, <1>7, ThreadSends
  <2> DEFINE off == sent = 1 \/ stale
  <2>2. off \in BOOLEAN
    BY Zenon
  <2>3. /\ \A k \in SourceKeys : command[k] = Wanted(wanted, k)
        /\ sent = 1 => command["az_off"] = Offset /\ command["el_off"] = Offset
        /\ sent # 1 => (stale <=> OffSource(command))
        /\ command \in Command /\ loaded[t] = command
        /\ sent \in {0, 1} /\ sent < ScanLength
    BY <1>6, <2>1
  <2>4. off <=> OffSource(command)
    BY <2>3, PlacesAssumption DEF OffSource, Values
  <2>5. off /\ sent # 0 => command["az_off"] = Offset
    BY <2>3
  <2> HIDE DEF off
  <2>6. /\ PointingOf(command) = PointingAt(wanted, off)
        /\ RaisesKeyError(command) => off /\ command["az_off"] # Offset
    BY <1>3, <2>2, <2>3, <2>4, WantedPointing
  <2>7. RaisesKeyError(command) => stale /\ sent = 0
    BY <2>3, <2>5, <2>6 DEF off
  <2> QED
    BY <2>1, <2>3, <2>6, <2>7 DEF off
<1> QED
  BY <1>6, <1>7

(* The invariant of a calm scan holds at first ...                           *)
LEMMA ScanInit == Init => ScanInv
<1> SUFFICES ASSUME Init PROVE ScanInv
  OBVIOUS
<1>1. LoadedInv
  BY DEF Init, BlockInit, LoadedInv
<1>2. TrackInv
  <2>1. \A t \in Threads : job[t] = Nothing /\ loaded[t] = None
    BY DEF Init, BlockInit
  <2>2. \A k \in OffsetKeys : command[k] = None
    <3>1. CASE command = Empty
      BY <3>1 DEF Empty, Keys
    <3>2. CASE \E m \in Good : command = WithTarget(m)
      <4>1. PICK m \in Good : command = WithTarget(m)
        BY <3>2
      <4>2. \A k \in OffsetKeys : WithTarget(m)[k] = Wanted(m, k)
        BY DEF WithTarget, Wanted, Keys
      <4> QED BY <4>1, <4>2, WantedEntries
    <3> QED BY <3>1, <3>2 DEF Init, BlockInit
  <2> QED
    BY <2>1, <2>2, ThreadNames DEF TrackInv, Idle, Nothing, Invoke
<1>3. CalmInv
  BY DEF Init, CalmInv
<1> QED
  BY <1>1, <1>2, <1>3 DEF ScanInv

(* ... and every step keeps it.                                              *)
LEMMA ScanStep == TypeInv /\ ScanInv /\ [Next]_vars => ScanInv'
<1> SUFFICES ASSUME TypeInv, ScanInv, [Next]_vars PROVE ScanInv'
  OBVIOUS
<1>1. LoadedInv' /\ TrackInv'
  BY LoadedStep, TrackStep DEF ScanInv
<1>2. LoadedInv /\ TrackInv /\ CalmInv
  BY DEF ScanInv
<1>3. CalmInv'
  <2>1. ASSUME NEW m \in Message, Send(m) PROVE CalmInv'
    <3>1. /\ Begin(Handler, Invoke("handle_msg", m)) /\ Act(m, Quiet /\ m \in Good, FALSE)
          /\ UNCHANGED <<block, command, pos, loaded>>
      BY <2>1 DEF Send
    <3>2. CASE Quiet /\ m \in Good
      <4>1. wanted' = m /\ sent' = 0 /\ stale' = FALSE
        BY <3>1, <3>2 DEF Act
      <4>2. Invoke("handle_msg", m).method # "start"
        BY DEF Invoke
      <4> QED
        BY <1>2, <3>1, <3>2, <4>1, <4>2, CalmBegins
    <3>3. CASE ~(Quiet /\ m \in Good)
      BY <3>1, <3>3 DEF Act, CalmInv
    <3> QED
      BY <3>2, <3>3
  <2>2. ASSUME NEW m \in Good, Set(m) PROVE CalmInv'
    BY <2>2 DEF Set, Act, CalmInv
  <2>3. CASE StartGraph
    <3>1. /\ Begin(Handler, Invoke("start", NoMessage))
          /\ UNCHANGED <<block, command, pos, loaded>>
      BY <2>3 DEF StartGraph
    <3>2. CASE \E m \in Good : HasTarget(command, m) /\ Act(m, Quiet, OffSource(command))
      <4>1. PICK m \in Good : HasTarget(command, m) /\ Act(m, Quiet, OffSource(command))
        BY <3>2
      <4>2. CASE Quiet
        <5>1. wanted' = m /\ sent' = 0 /\ stale' = OffSource(command)
          BY <4>1, <4>2 DEF Act, OffSource
        <5>2. OffSource(command) \in BOOLEAN
          BY Zenon DEF OffSource
        <5>3. Invoke("start", NoMessage).method = "start"
          BY DEF Invoke
        <5> QED
          BY <1>2, <3>1, <4>1, <4>2, <5>1, <5>2, <5>3, CalmBegins
      <4>3. CASE ~Quiet
        BY <4>1, <4>3 DEF Act, CalmInv
      <4> QED
        BY <4>2, <4>3
    <3>3. CASE Act(NoTarget, FALSE, FALSE)
      BY <3>3 DEF Act, CalmInv
    <3> QED
      BY <2>3, <3>2, <3>3 DEF StartGraph
  <2>4. CASE StopGraph
    BY <2>4 DEF StopGraph, Act, CalmInv
  <2>5. ASSUME NEW t \in Threads, RunThread(t) PROVE CalmInv'
    <3>1. CASE calm
      BY <2>5, <3>1, CalmThreadStep
    <3>2. CASE ~calm
      BY <2>5, <3>2 DEF RunThread, CalmInv
    <3> QED
      BY <3>1, <3>2
  <2>6. CASE Control \/ UNCHANGED vars
    <3>1. UNCHANGED <<block, command, job, pos, loaded, calm, wanted, stale, sent>>
      BY <2>6 DEF Control, vars, blockVars, historyVars
    <3>2. Preparing' <=> Preparing
      BY <3>1 DEF Preparing, OnlyBusy, Idle, Completed, Due, Wanted, OffSource
    <3>3. \A s \in Scans : Scanning(s, pos[s])' <=> Scanning(s, pos[s])
      BY <3>1 DEF Scanning, OnlyBusy, Idle, Wanted, OffSource
    <3>4. Over' <=> Over
      BY <3>1 DEF Over, Quiet, Idle, ScanLength
    <3> QED
      BY <1>2, <3>1, <3>2, <3>3, <3>4 DEF CalmInv
  <2> QED
    BY <2>1, <2>2, <2>3, <2>4, <2>5, <2>6 DEF Next, Operator
<1> QED
  BY <1>1, <1>3 DEF ScanInv

(* A scan for one target that begins when nothing is going on and is left    *)
(* alone sends its commands and no others, whatever went on before it.  None *)
(* raises KeyError, and only the second of an on-off scan is off the target, *)
(* unless start() began it with an el_off left behind: then the first is off *)
(* the target as well, and is the only one that may raise.                   *)
THEOREM CalmScanCommands == Spec => CalmCommands
<1> DEFINE A == calm /\ acts' = acts /\ Len(commands') > Len(commands) =>
                  LET c == commands'[Len(commands')]
                  IN /\ sent < ScanLength
                     /\ PointingOf(c) = PointingAt(wanted, sent = 1 \/ stale)
                     /\ RaisesKeyError(c) => stale /\ sent = 0
<1>1. TypeInv /\ ScanInv /\ [Next]_vars => [A]_vars
  <2> SUFFICES ASSUME TypeInv, ScanInv, Next, calm, acts' = acts,
                      Len(commands') > Len(commands)
               PROVE  A
    OBVIOUS
  <2>1. commands \in Seq(Command) /\ Len(commands) \in Nat /\ acts \in Nat
    <3>1. commands \in Seq(Command) /\ acts \in 0 .. MaxActs
      BY DEF TypeInv, TypeOK, ControlTypeOK
    <3> QED
      BY <3>1, LenProperties
  <2>2. ASSUME NEW t \in Threads, RunThread(t) PROVE A
    BY <2>2, CalmThreadStep
  <2>3. ~Operator
    BY <2>1 DEF Operator, Send, Set, StartGraph, StopGraph, Act
  <2>4. ~Control
    <3> SUFFICES ASSUME commands # <<>>, commands' = Tail(commands) PROVE FALSE
      BY DEF Control, HandleCommand
    <3>1. Len(Tail(commands)) = Len(commands) - 1
      BY <2>1, HeadTailProperties
    <3> QED
      BY <2>1, <3>1
  <2> QED
    BY <2>2, <2>3, <2>4 DEF Next
<1> QED
  BY TypeInit, TypeStep, ScanInit, ScanStep, <1>1, PTL DEF Spec, CalmCommands

-----------------------------------------------------------------------------
(* Where the antennas are when a calm scan is over. *)

(* The last command that a calm scan sent is the last in control's queue, or *)
(* it is where the antennas are; unless it is one with an old el_off.        *)
ArrivesInv ==
    calm /\ control_alive /\ MustPoint(wanted) /\ sent > 0 /\ (stale => sent = 2) =>
      /\ commands = <<>> => Shown = PointingAt(wanted, sent = 2)
      /\ commands # <<>> => LET c == commands[Len(commands)]
                            IN ~RaisesKeyError(c) /\ PointingOf(c) = PointingAt(wanted, sent = 2)

(* A command for a target that must not be refused is carried out.           *)
LEMMA CommandArrives ==
    ASSUME TypeInv, wanted \in Good, MustPoint(wanted), HandleCommand, NEW off,
           ~RaisesKeyError(Head(commands)), PointingOf(Head(commands)) = PointingAt(wanted, off)
    PROVE  Shown' = PointingAt(wanted, off)
<1> DEFINE c == Head(commands)
<1>1. c \in Command /\ mode \in {"online", "offline"}
  <2>1. commands \in Seq(Command) /\ mode \in {"online", "offline"}
    BY DEF TypeInv, TypeOK, ControlTypeOK
  <2>2. commands # <<>>
    BY DEF HandleCommand
  <2> QED
    BY <2>1, <2>2, HeadTailProperties
<1>2. /\ CASE TargetKind(c) = "none" -> UNCHANGED <<antennas, announced>>
           [] TargetKind(c) # "none" /\ mode = "online" -> Point(c)
           [] OTHER -> Announce(c)
      /\ mode' = mode
  BY DEF HandleCommand
<1>3. ~RaisesKeyError(c) /\ PointingOf(c) = PointingAt(wanted, off)
  OBVIOUS
<1> HIDE DEF c
<1>4. TargetKind(c) = wanted.key /\ Coordinates(c) = <<wanted.val, wanted.val>>
  BY <1>3 DEF PointingOf, PointingAt
<1>5. wanted.key \in {"source_id", "azel"} /\ (wanted.key = "azel" => wanted.val \in High)
  BY DEF MustPoint
<1>6. MayPoint(c) /\ ~MayRefuse(c)
  <2>1. wanted.key = "azel" => c["el"] = wanted.val
    BY <1>4 DEF Coordinates
  <2> QED
    BY <1>4, <1>5, <2>1 DEF MayPoint, MayRefuse
<1>7. CASE mode = "online"
  <2>1. antennas' = PointingOf(c)
    BY <1>2, <1>4, <1>5, <1>6, <1>7 DEF Point
  <2> QED
    BY <1>2, <1>3, <1>7, <2>1 DEF Shown
<1>8. CASE mode = "offline"
  <2>1. announced' = PointingOf(c)
    BY <1>2, <1>4, <1>5, <1>8 DEF Announce
  <2> QED
    BY <1>2, <1>3, <1>8, <2>1 DEF Shown
<1> QED
  BY <1>1, <1>7, <1>8

(* Every step keeps it.                                                      *)
LEMMA ArrivesStep == TypeInv /\ ScanInv /\ ArrivesInv /\ [Next]_vars => ArrivesInv'
<1> SUFFICES ASSUME TypeInv, ScanInv, ArrivesInv, [Next]_vars,
                    calm', control_alive', MustPoint(wanted)', sent' > 0, stale' => sent' = 2
             PROVE  /\ commands' = <<>> => Shown' = PointingAt(wanted', sent' = 2)
                    /\ commands' # <<>> =>
                         LET c == commands'[Len(commands')]
                         IN ~RaisesKeyError(c) /\ PointingOf(c) = PointingAt(wanted', sent' = 2)
  BY DEF ArrivesInv
<1>1. /\ commands \in Seq(Command) /\ Len(commands) \in Nat /\ sent \in Nat /\ BlockTypeOK
  <2>1. commands \in Seq(Command) /\ sent \in Nat /\ BlockTypeOK
    BY DEF TypeInv, TypeOK, ControlTypeOK
  <2> QED
    BY <2>1, LenProperties
<1>2. ~Operator
  <2>1. \A m, c, old : Act(m, c, old) => sent' = 0
    BY DEF Act
  <2>2. sent' # 0
    OBVIOUS
  <2> QED
    BY <2>1, <2>2, Zenon DEF Operator, Send, Set, StartGraph, StopGraph
<1>3. wanted' = wanted /\ calm /\ stale' = stale
  BY <1>2 DEF Next, RunThread, Control, vars, historyVars
<1>4. MustPoint(wanted) /\ wanted \in Good
  BY <1>3 DEF MustPoint, ScanInv, CalmInv
<1>5. ASSUME NEW t \in Threads, RunThread(t), Len(commands') > Len(commands)
      PROVE  /\ commands' # <<>>
             /\ LET c == commands'[Len(commands')]
                IN ~RaisesKeyError(c) /\ PointingOf(c) = PointingAt(wanted, sent' = 2)
  <2>1. /\ RaisesKeyError(commands'[Len(commands')]) => stale /\ sent = 0
        /\ PointingOf(commands'[Len(commands')]) = PointingAt(wanted, sent = 1 \/ stale)
    BY <1>3, <1>5, CalmThreadStep
  <2>2. Len(commands') = Len(commands) + 1
    <3>1. ThreadStep(t)
      BY <1>5 DEF RunThread
    <3> QED
      BY <1>1, <1>5, <3>1, ThreadSends
  <2>3. sent' = sent + 1
    BY <1>1, <1>3, <1>5, <2>2 DEF RunThread
  <2>4. (sent' = 2) = (sent = 1 \/ stale) /\ ~(stale /\ sent = 0)
    <3>1. stale => sent = 1
      BY <1>1, <1>3, <2>3
    <3>2. (sent' = 2) <=> (sent = 1 \/ stale)
      BY <1>1, <2>3, <3>1
    <3>3. (sent' = 2) \in BOOLEAN /\ (sent = 1 \/ stale) \in BOOLEAN
      BY Zenon
    <3> QED
      BY <1>1, <3>1, <3>2, <3>3
  <2>5. commands' # <<>>
    BY <1>1, <2>2, EmptySeq
  <2> QED
    BY <2>1, <2>4, <2>5
<1>6. ASSUME NEW t \in Threads, RunThread(t), ~(Len(commands') > Len(commands))
      PROVE  UNCHANGED <<commands, sent, control_alive, mode, antennas, announced>>
  <2>1. ThreadStep(t) /\ UNCHANGED <<control_alive, mode, antennas, announced>>
    BY <1>6 DEF RunThread, controlVars
  <2>2. commands' = commands
    BY <1>1, <1>6, <2>1, ThreadSends
  <2>3. sent' = sent
    BY <1>1, <1>3, <1>6, <2>2 DEF RunThread
  <2> QED
    BY <2>1, <2>2, <2>3
<1>7. ASSUME UNCHANGED <<commands, sent, control_alive, mode, antennas, announced>>
      PROVE  /\ commands' = <<>> => Shown' = PointingAt(wanted', sent' = 2)
             /\ commands' # <<>> =>
                  LET c == commands'[Len(commands')]
                  IN ~RaisesKeyError(c) /\ PointingOf(c) = PointingAt(wanted', sent' = 2)
  <2>1. Shown' = Shown
    BY <1>7 DEF Shown
  <2> QED
    BY <1>3, <1>4, <1>7, <2>1 DEF ArrivesInv
<1>8. CASE Control
  <2>1. /\ HandleCommand /\ sent' = sent /\ commands # <<>> /\ commands' = Tail(commands)
    BY <1>8 DEF Control, historyVars, HandleCommand
  <2> DEFINE last == commands[Len(commands)]
  <2>2. control_alive
    BY <2>1 DEF HandleCommand
  <2>3. ~RaisesKeyError(last) /\ PointingOf(last) = PointingAt(wanted, sent = 2)
    BY <1>3, <1>4, <2>1, <2>2 DEF ArrivesInv
  <2>4. /\ Head(commands) = commands[1] /\ Len(commands') = Len(commands) - 1
        /\ \A i \in 1 .. Len(commands) - 1 : commands'[i] = commands[i + 1]
        /\ Len(commands) > 0
    BY <1>1, <2>1, HeadTailProperties, EmptySeq
  <2>5. CASE Len(commands) = 1
    <3>1. commands' = <<>> /\ Head(commands) = last
      <4>1. commands' \in Seq(Command) /\ Len(commands') = 0
        BY <1>1, <2>1, <2>4, <2>5, HeadTailProperties
      <4> QED
        BY <2>4, <2>5, <4>1, EmptySeq
    <3>2. Shown' = PointingAt(wanted, sent = 2)
      BY <1>4, <2>1, <2>3, <3>1, CommandArrives
    <3> QED
      BY <1>3, <2>1, <3>1, <3>2
  <2>6. CASE Len(commands) # 1
    <3>1. Len(commands') \in 1 .. Len(commands) - 1 /\ Len(commands') + 1 = Len(commands)
      BY <1>1, <2>4, <2>6
    <3>2. commands' # <<>> /\ commands'[Len(commands')] = last
      BY <2>4, <3>1, EmptySeq
    <3> QED
      BY <1>3, <2>1, <2>3, <3>2
  <2> QED
    BY <2>5, <2>6
<1>9. CASE UNCHANGED vars
  BY <1>7, <1>9 DEF vars, controlVars, historyVars
<1>10. ASSUME NEW t \in Threads, RunThread(t)
       PROVE  /\ commands' = <<>> => Shown' = PointingAt(wanted', sent' = 2)
              /\ commands' # <<>> =>
                   LET c == commands'[Len(commands')]
                   IN ~RaisesKeyError(c) /\ PointingOf(c) = PointingAt(wanted', sent' = 2)
  BY <1>3, <1>5, <1>6, <1>7, <1>10
<1> QED
  BY <1>2, <1>8, <1>9, <1>10 DEF Next

(* When a calm scan is over and its commands are handled, the antennas are   *)
(* where it leaves them.                                                     *)
THEOREM CalmScansSettle == Spec => []Settles
<1>1. Init => ArrivesInv
  BY DEF Init, ArrivesInv
<1>2. TypeInv /\ ScanInv /\ ArrivesInv => Settles
  <2> SUFFICES ASSUME TypeInv, ScanInv, ArrivesInv, calm, control_alive, Quiet,
                      commands = <<>>, MustPoint(wanted)
               PROVE  AtTheEnd(wanted)
    BY DEF Settles
  <2>1. Over
    <3>1. ~Preparing /\ ~\E s \in Scans : Scanning(s, pos[s])
      BY ThreadNames DEF Preparing, Scanning, OnlyBusy, Quiet
    <3> QED
      BY <3>1 DEF ScanInv, CalmInv
  <2>2. block \in {"onoff", "track"}
    BY DEF TypeInv, TypeOK, BlockTypeOK
  <2>3. sent > 0 /\ (sent = 2) = (block = "onoff")
    BY <2>1, <2>2 DEF Over, ScanLength
  <2>4. Shown = PointingAt(wanted, sent = 2)
    <3>1. stale => sent = 2
      BY <2>3 DEF ScanInv, CalmInv
    <3> QED
      BY <2>3, <3>1 DEF ArrivesInv
  <2> QED
    BY <2>3, <2>4 DEF AtTheEnd
<1> QED
  BY TypeInit, TypeStep, ScanInit, ScanStep, ArrivesStep, <1>1, <1>2, PTL DEF Spec
=============================================================================
