----------------------------- MODULE ScanBlock -----------------------------
(***************************************************************************)
(* A scan block: python/onoff.py (block = "onoff") or python/trackscan.py  *)
(* (block = "track").  Its message handler and start() run in the block's  *)
(* own thread; the setters are callbacks of the graphical interface and    *)
(* run in its thread; every on-off scan runs wait_duration() in a thread   *)
(* of its own.  All of them use self.command, with no lock: a statement    *)
(*     self.command = pmt.dict_add(self.command, key, val)                 *)
(* reads the attribute, calls pmt, which lets other threads run, and       *)
(* writes it.  The methods are sequences of such statements; a thread      *)
(* executes each as a Load and a step that ends it.                        *)
(***************************************************************************)
EXTENDS ScanCommand

CONSTANTS Scans,   \* bound: the threads of on-off scans that there can be
          Handler, \* the block's thread
          Gui      \* the graphical interface's thread

Threads == Scans \cup {Handler, Gui}

ASSUME ThreadsAssumption ==
    /\ Handler \notin Scans /\ Gui \notin Scans /\ Handler # Gui

VARIABLES
    block,         \* which of the two blocks this is
    command,       \* self.command
    job,           \* of each thread: the call it executes
    pos,           \* of each thread: the statement it is at
    loaded,        \* of each thread: self.command as the statement read it
    block_alive    \* does the block still handle messages?

blockVars == <<block, command, job, pos, loaded, block_alive>>

-----------------------------------------------------------------------------
(* The methods. *)

Statement == [do : {"add", "delete", "publish", "sleep", "spawn", "raise"},
              key : Keys, val : Values \cup {None}]

Add(k, v)  == [do |-> "add", key |-> k, val |-> v]
Delete(k)  == [do |-> "delete", key |-> k, val |-> None]
Do(what)   == [do |-> what, key |-> "el", val |-> None]

(* The statements that enter the coordinates of a good message; set_source,  *)
(* set_src_radec and set_src_azel consist of them.                           *)
Enter(m) ==
    CASE m.key = "source_id" -> <<Add("source_id", m.val)>>
      [] m.key = "radec" -> <<Add("ra", m.val), Add("dec", m.val)>>
      [] m.key = "azel" -> <<Add("az", m.val), Add("el", m.val)>>
      [] OTHER -> <<>>

DeleteTarget == <<Delete("source_id"), Delete("ra"), Delete("dec"), Delete("az"), Delete("el")>>

(* mutant: az_off is deleted twice, el_off never *)
DeleteAzOff == <<Delete("az_off"), Delete("az_off")>>

DeleteOffsets == <<Delete("az_off"), Delete("el_off")>>

(* mutant: a track scan is not told to control *)
LaunchOnOff(b) == IF b = "onoff" THEN DeleteOffsets \o <<Do("spawn")>> ELSE <<>>

(* What a good message makes the block do when its coordinates are entered. *)
Launch(b) == IF b = "onoff" THEN DeleteOffsets \o <<Do("spawn")>> ELSE <<Do("publish")>>

(* mutant: val = pmt.car(msg), the key is taken for the value *)
HandleCar(b, m) ==
    DeleteTarget \o
    CASE m.key = "malformed" -> <<Do("raise")>>
      [] m.key = "wrong" -> <<>>
      [] OTHER -> Enter([m EXCEPT !.val = m.key]) \o Launch(b)

(* handle_msg: a malformed value raises, a wrong key is only reported, both  *)
(* when the target entries are gone.                                         *)
HandleMsg(b, m) ==
    DeleteTarget \o
    CASE m.key = "malformed" -> <<Do("raise")>>
      [] m.key = "wrong" -> <<>>
      [] OTHER -> Enter(m) \o Launch(b)

(* mutant: the elevation offset is forgotten *)
ScanWithoutElOff == <<Do("publish"), Do("sleep"), Add("az_off", Offset), Do("publish"),
                      Delete("az_off"), Delete("el_off")>>

(* az_off is deleted twice, el_off never. *)
WaitDuration == <<Do("publish"), Do("sleep"), Add("az_off", Offset), Add("el_off", Offset),
                  Do("publish"), Delete("az_off"), Delete("az_off")>>

Start(b) == IF b = "onoff" THEN <<Do("spawn")>> ELSE <<Do("publish")>>

(* The calls, and their bodies. *)
NoMessage == [key |-> "wrong", val |-> None]
Call      == [method : {"none", "handle_msg", "set", "start", "wait_duration"}, msg : Message]
Invoke(method, m) == [method |-> method, msg |-> m]
Nothing   == Invoke("none", NoMessage)

Body(b, call) ==
    CASE call.method = "handle_msg" -> HandleMsg(b, call.msg)
      [] call.method = "set" -> Enter(call.msg)
      [] call.method = "start" -> Start(b)
      [] call.method = "wait_duration" -> WaitDuration
      [] OTHER -> <<>>

-----------------------------------------------------------------------------
(* The threads. *)

(* The constructor's dictionary, or what a flow graph of GNU Radio Companion *)
(* makes of it, which calls the setter of the target next (make: in the      *)
(* blocks' descriptions).                                                    *)
WithTarget(m) == [k \in Keys |-> IF \E i \in 1 .. Len(Enter(m)) : Enter(m)[i].key = k
                                 THEN m.val ELSE None]

BlockInit ==
    /\ block \in {"onoff", "track"}
    /\ command \in {Empty} \cup {WithTarget(m) : m \in Good}
    /\ job = [t \in Threads |-> Nothing]
    /\ pos = [t \in Threads |-> 1]
    /\ loaded = [t \in Threads |-> None]
    /\ block_alive = TRUE

Idle(t) == job[t] = Nothing
Quiet   == \A t \in Threads : Idle(t)

At(t) == Body(block, job[t])[pos[t]]

Begin(t, call) == job' = [job EXCEPT ![t] = call]

(* The statement is done: the next one, or the end of the call. *)
Advance(t) ==
    IF pos[t] < Len(Body(block, job[t]))
    THEN /\ pos' = [pos EXCEPT ![t] = @ + 1]
         /\ job' = job
    ELSE /\ pos' = [pos EXCEPT ![t] = 1]
         /\ job' = [job EXCEPT ![t] = Nothing]

(* The attribute is read ... *)
Load(t) ==
    /\ ~Idle(t)
    /\ At(t).do \in {"add", "delete", "publish"}
    /\ loaded[t] = None
    /\ loaded' = [loaded EXCEPT ![t] = command]
    /\ UNCHANGED <<block, command, job, pos, block_alive, commands>>

(* ... and the changed dictionary written ... *)
Store(t) ==
    /\ ~Idle(t)
    /\ At(t).do \in {"add", "delete"}
    /\ loaded[t] # None
    /\ command' = IF At(t).do = "add" THEN Added(loaded[t], At(t).key, At(t).val)
                  ELSE Deleted(loaded[t], At(t).key)
    /\ loaded' = [loaded EXCEPT ![t] = None]
    /\ Advance(t)
    /\ UNCHANGED <<block, block_alive, commands>>

(* ... or the dictionary posted to control's queue. *)
Publish(t) ==
    /\ ~Idle(t)
    /\ At(t).do = "publish"
    /\ loaded[t] # None
    /\ commands' = Append(commands, loaded[t])
    /\ loaded' = [loaded EXCEPT ![t] = None]
    /\ Advance(t)
    /\ UNCHANGED <<block, command, block_alive>>

(* time.sleep(self.dur) returns. *)
Wake(t) ==
    /\ ~Idle(t)
    /\ At(t).do = "sleep"
    /\ Advance(t)
    /\ UNCHANGED <<block, command, loaded, block_alive, commands>>

(* thr.Thread(target=self.wait_duration).start(), the last statement of the  *)
(* calls that have it; the new thread is any that is not in use.              *)
Spawn(t) ==
    /\ ~Idle(t)
    /\ At(t).do = "spawn"
    /\ \E s \in Scans : Idle(s)
    /\ LET s == CHOOSE s \in Scans : Idle(s)
       IN job' = [job EXCEPT ![s] = Invoke("wait_duration", NoMessage), ![t] = Nothing]
    /\ pos' = [pos EXCEPT ![t] = 1]
    /\ UNCHANGED <<block, command, loaded, block_alive, commands>>

(* The exception leaves the handler; GNU Radio prints it, and the block's    *)
(* thread goes on or ends.                                                   *)
Raise(t) ==
    /\ ~Idle(t)
    /\ At(t).do = "raise"
    /\ Advance(t)
    /\ block_alive' \in BOOLEAN
    /\ UNCHANGED <<block, command, loaded, commands>>

ThreadStep(t) == Load(t) \/ Store(t) \/ Publish(t) \/ Wake(t) \/ Spawn(t) \/ Raise(t)

BlockTypeOK ==
    /\ block \in {"onoff", "track"}
    /\ command \in Command
    /\ job \in [Threads -> Call]
    /\ \A t \in Threads : pos[t] \in 1 .. Len(Body(block, job[t])) \cup {1}
    /\ loaded \in [Threads -> Command \cup {None}]
    /\ block_alive \in BOOLEAN
=============================================================================
