---------------------------- MODULE Observation ----------------------------
(***************************************************************************)
(* An observation: a scan block, the antenna control block its port        *)
(* "command" is connected to, the operator, and the flow graph that starts *)
(* and stops both blocks.                                                  *)
(***************************************************************************)
EXTENDS ScanBlock, AntennaControl

CONSTANTS Setups,          \* the pairs of a scan block and a mode of control to consider
          MaxActs,         \* bound: what the operator does in one observation ...
          MaxOverlaps,     \* ... and of that, while a thread of the block is busy
          SetWhileRunning  \* does the operator change parameters of a running graph?

ASSUME OperatorAssumption ==
    /\ Setups \subseteq {"onoff", "track"} \X {"online", "offline"}
    /\ MaxActs \in Nat /\ MaxOverlaps \in Nat /\ SetWhileRunning \in BOOLEAN

VARIABLES
    running,  \* is the flow graph running?
    acts,     \* how often the operator has acted ...
    overlaps, \* ... and how often while a thread was busy
    calm,     \* history: nothing was going on at the last act, and nothing disturbs it
    wanted,   \* history: the target that a calm act asks to be observed
    stale,    \* history: did el_off lie in the command when the calm act was made?
    sent      \* history: the commands published since a calm act

historyVars == <<calm, wanted, stale, sent>>
vars == <<blockVars, controlVars, commands, running, acts, overlaps, historyVars>>

NoTarget == [key |-> "wrong", val |-> None]

Init ==
    /\ BlockInit
    /\ ControlInit
    /\ <<block, mode>> \in Setups
    /\ running = FALSE
    /\ acts = 0
    /\ overlaps = 0
    /\ wanted = NoTarget
    /\ calm = FALSE
    /\ stale = FALSE
    /\ sent = 0

(* The operator's act asks for target m to be observed; c tells whether it   *)
(* is complete in itself and nothing is going on, old whether an offset of   *)
(* an earlier scan goes into its commands.                                   *)
Act(m, c, old) ==
    /\ acts < MaxActs
    /\ acts' = acts + 1
    /\ overlaps' = overlaps + (IF Quiet THEN 0 ELSE 1)
    /\ overlaps' <= MaxOverlaps
    /\ wanted' = IF c THEN m ELSE NoTarget
    /\ calm' = c
    /\ stale' = (c /\ old)
    /\ sent' = 0

(* A message from the message edit box.  The block's thread handles messages *)
(* one after the other.                                                      *)
Send(m) ==
    /\ running /\ block_alive
    /\ Idle(Handler)
    /\ Begin(Handler, Invoke("handle_msg", m))
    /\ Act(m, Quiet /\ m \in Good, FALSE)
    /\ UNCHANGED <<controlVars, block, command, pos, loaded, block_alive, commands, running>>

(* A parameter is changed: its callback sets the entries, nothing is sent.   *)
Set(m) ==
    /\ Idle(Gui)
    /\ running => SetWhileRunning
    /\ Begin(Gui, Invoke("set", m))
    /\ Act(NoTarget, FALSE, FALSE)
    /\ UNCHANGED <<controlVars, block, command, pos, loaded, block_alive, commands, running>>

(* Is m the one target that the command has? *)
HasTarget(c, m) == \A k \in SourceKeys : c[k] = WithTarget(m)[k]

(* The flow graph starts: start() in each block's new thread.  It clears     *)
(* nothing: the command is the one that scans and setters left.  What was in *)
(* control's queue when it stopped may be there still.                       *)
StartGraph ==
    /\ ~running
    /\ Idle(Handler) /\ Idle(Gui)
    /\ running' = TRUE
    /\ Begin(Handler, Invoke("start", NoMessage))
    /\ \/ \E m \in Good : HasTarget(command, m) /\ Act(m, Quiet, OffSource(command))
       \/ (\A m \in Good : ~HasTarget(command, m)) /\ Act(NoTarget, FALSE, FALSE)
    /\ commands' \in {commands, <<>>}
    /\ block_alive' = TRUE
    /\ control_alive' = TRUE
    /\ UNCHANGED <<mode, is_configured, my_ants, tuned, antennas, announced>>
    /\ UNCHANGED <<block, command, pos, loaded>>

(* The flow graph stops: the blocks' threads end when the handlers they are  *)
(* in are done, control's stop() is called; scan threads go on.              *)
StopGraph ==
    /\ running
    /\ Idle(Handler) /\ Idle(Gui)
    /\ running' = FALSE
    /\ StowAntennas
    /\ Act(NoTarget, FALSE, FALSE)
    /\ UNCHANGED <<blockVars, commands>>

Operator == (\E m \in Message : Send(m)) \/ (\E m \in Good : Set(m)) \/ StartGraph \/ StopGraph

RunThread(t) ==
    /\ ThreadStep(t)
    /\ sent' = IF calm THEN sent + (Len(commands') - Len(commands)) ELSE 0
    /\ UNCHANGED <<controlVars, running, acts, overlaps, wanted, calm, stale>>

Control ==
    /\ running
    /\ HandleCommand
    /\ UNCHANGED <<blockVars, running, acts, overlaps, historyVars>>

Next == Operator \/ (\E t \in Threads : RunThread(t)) \/ Control

Spec == Init /\ [][Next]_vars

(* Some thread runs while any can (a sleep ends), and control handles what   *)
(* is in its queue.  Calls end, so that this reaches every thread.           *)
FairSpec == Spec /\ WF_vars(\E t \in Threads : RunThread(t)) /\ WF_vars(Control)
-----------------------------------------------------------------------------
(* Properties. *)

TypeOK ==
    /\ BlockTypeOK
    /\ ControlTypeOK
    /\ running \in BOOLEAN
    /\ acts \in 0 .. MaxActs
    /\ overlaps \in 0 .. MaxOverlaps
    /\ wanted \in Message
    /\ calm \in BOOLEAN
    /\ stale \in BOOLEAN
    /\ sent \in Nat

(* Antennas are not pointed before their LNAs are on and the frequency is    *)
(* set (control.handle_msg), in whatever order commands with and without a   *)
(* target, and commands that raise, arrive.                                  *)
TunedBeforePointing == cfreq /\ antennas \in Pointing => tuned

(* A scan for one target that begins when nothing is going on, and that      *)
(* nothing disturbs, sends exactly the commands it should, whatever races    *)
(* and failures came before it: a track scan points at the target; an on-off *)
(* scan points at the target with no offset and then, once, off the same     *)
(* target with both.  With one exception: when el_off was left in the        *)
(* command, as every on-off scan leaves it (onoff.py 186-187), and start()   *)
(* begins the next, its first command is off the target, too: control raises *)
(* KeyError (137-139) or, if az_off was left as well, points there.          *)
ScanLength == IF block = "onoff" THEN 2 ELSE 1

CalmCommands ==
    [][calm /\ acts' = acts /\ Len(commands') > Len(commands) =>
         LET c == commands'[Len(commands')]
         IN /\ sent < ScanLength
            /\ PointingOf(c) = PointingAt(wanted, sent = 1 \/ stale)
            /\ RaisesKeyError(c) => stale /\ sent = 0]_vars

(* "this command tells the control block to point on-source for the given    *)
(* duration" (onoff.py 174-175): said of the first command of a scan that    *)
(* nothing disturbs.                                                         *)
StartsOnSource ==
    [][calm /\ acts' = acts /\ Len(commands') > Len(commands) /\ sent = 0 =>
         ~OffSource(commands'[Len(commands')])]_vars

(* When such a scan is over and control has handled its commands, the        *)
(* antennas are where it leaves them, also if its first command was lost:    *)
(* off the target that was asked for last (on-off) or on it (track); unless  *)
(* the target may be down.                                                   *)
MustPoint(m) == m.key = "source_id" \/ (m.key = "azel" /\ m.val \in High)

Shown == IF mode = "online" THEN antennas ELSE announced

AtTheEnd(m) == Shown = PointingAt(m, block = "onoff")

Settles ==
    calm /\ running /\ control_alive /\ Quiet /\ commands = <<>> /\ MustPoint(wanted)
      => AtTheEnd(wanted)

(* And it does get there. *)
CalmScanCompletes ==
    \A m \in {g \in Good : MustPoint(g)} :
      (calm /\ wanted = m) ~> (AtTheEnd(m) \/ ~calm \/ ~control_alive)

(* "this command tells the control block to point on-source for the given    *)
(* duration" (onoff.py 174-175): said of the first command of every scan.    *)
OnSourceFirst ==
    [][\A s \in Scans :
         job[s].method = "wait_duration" /\ pos[s] = 1 /\ pos'[s] = 2
           => ~OffSource(commands'[Len(commands')])]_vars
=============================================================================
