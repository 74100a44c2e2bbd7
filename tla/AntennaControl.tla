--------------------------- MODULE AntennaControl ---------------------------
(***************************************************************************)
(* The antenna control block (python/control.py).  It handles the commands *)
(* of its queue one at a time, in its own thread, which is the only one    *)
(* that touches its attributes; the calls to the ATA library return when   *)
(* the antennas have done what they say.                                   *)
(***************************************************************************)
EXTENDS ScanCommand

CONSTANTS cfreq,     \* is the center frequency, an entry of every command, nonzero?
          High,      \* the AzEls whose elevation is above ap.MIN_ELEV
          Stowed,    \* where set_az_el(my_ants, 0, 18) leaves the antennas
          Elsewhere  \* where they are when the observation begins

ASSUME ControlAssumption ==
    /\ cfreq \in BOOLEAN
    /\ High \subseteq AzEls
    /\ Stowed \notin Pointing /\ Elsewhere \notin Pointing

VARIABLES
    mode,            \* "online" or "offline"
    is_configured,   \* self.is_configured
    my_ants,         \* has self.my_ants been taken from a command?
    tuned,           \* LNAs are on and the frequency is set
    antennas,        \* where the antennas point: what the ATA library was told last
    announced,       \* offline: the pointing printed last
    control_alive    \* does the block still handle commands?

controlVars == <<mode, is_configured, my_ants, tuned, antennas, announced, control_alive>>

ControlInit ==
    /\ mode \in {"online", "offline"}
    /\ is_configured = FALSE
    /\ my_ants = FALSE
    /\ tuned = FALSE
    /\ antennas = Elsewhere
    /\ announced = Elsewhere
    /\ control_alive = TRUE
    /\ commands = <<>>

(* mutant: the frequency is set for every command but the first *)
ConfigureNext == tuned' = (tuned \/ (is_configured /\ cfreq))

(* handle_msg turns the LNAs on and sets the frequency before it looks at    *)
(* the target; the list of antennas is never empty, for ''.split(',') is ['']. *)
Configure == tuned' = (tuned \/ (~is_configured /\ cfreq))

(* Can the target of command c be pointed at?  The code does not check       *)
(* catalogue names, asks ATAPositions of a right ascension and declination,  *)
(* which changes with time, and compares an elevation without its offset.    *)
MayPoint(c)   == TargetKind(c) = "azel" => c["el"] \in High
MayRefuse(c)  == TargetKind(c) = "radec" \/ ~MayPoint(c)

(* The exception leaves the handler before is_configured is set.             *)
KeyError ==
    /\ control_alive' \in BOOLEAN
    /\ UNCHANGED <<is_configured, antennas, announced>>

(* handle_msg: point_src_id, point_src_radec or point_src_azel. *)
Point(c) ==
    /\ \/ MayPoint(c) /\ antennas' = PointingOf(c)
       \/ MayRefuse(c) /\ antennas' = antennas
    /\ UNCHANGED announced

(* handle_msg_offline prints the same, without a look at the sky. *)
Announce(c) ==
    /\ announced' = PointingOf(c)
    /\ UNCHANGED antennas

HandleCommand ==
    /\ commands # <<>>
    /\ control_alive
    /\ commands' = Tail(commands)
    /\ my_ants' = (my_ants \/ mode = "online")
    /\ IF mode = "online" THEN Configure ELSE UNCHANGED tuned
    /\ LET c == Head(commands)
       IN \/ /\ RaisesKeyError(c)
             /\ KeyError
          \/ /\ ~RaisesKeyError(c)
             /\ CASE TargetKind(c) = "none" -> UNCHANGED <<antennas, announced>>
                  [] TargetKind(c) # "none" /\ mode = "online" -> Point(c)
                  [] OTHER -> Announce(c)
             /\ is_configured' = TRUE
             /\ UNCHANGED control_alive
    /\ UNCHANGED mode

(* stop() stows the antennas it has been told of; a block whose thread has   *)
(* ended may not get there.                                                  *)
StowAntennas ==
    /\ \/ antennas' = IF mode = "online" /\ my_ants THEN Stowed ELSE antennas
       \/ ~control_alive /\ UNCHANGED antennas
    /\ UNCHANGED <<mode, is_configured, my_ants, tuned, announced, control_alive>>

ControlTypeOK ==
    /\ mode \in {"online", "offline"}
    /\ {is_configured, my_ants, tuned, control_alive} \subseteq BOOLEAN
    /\ antennas \in Pointing \cup {Stowed, Elsewhere}
    /\ announced \in Pointing \cup {Elsewhere}
    /\ commands \in Seq(Command)
=============================================================================
