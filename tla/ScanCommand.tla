---------------------------- MODULE ScanCommand ----------------------------
(***************************************************************************)
(* The command dictionary that the scan blocks (python/onoff.py and        *)
(* python/trackscan.py) send to the antenna control block                  *)
(* (python/control.py), the messages an operator sends to a scan block,    *)
(* and the message port between the blocks.                                *)
(*                                                                         *)
(* The entries freq, antennas_list, dur, obs_type and coord_type are set   *)
(* by the constructors and never touched again: a command is the target    *)
(* and offset entries, the others are a constant of the observation.       *)
(***************************************************************************)
EXTENDS Naturals, Sequences

CONSTANTS Ids,     \* catalogue names
          RaDecs,  \* right ascension and declination pairs
          AzEls,   \* azimuth and elevation pairs
          Offset,  \* the value of az_off and el_off, set by the constructor
          None     \* the key is not in the dictionary

VARIABLE commands  \* the queue of control's port "command"

SourceKeys == {"source_id", "ra", "dec", "az", "el"}
OffsetKeys == {"az_off", "el_off"}
Keys       == SourceKeys \cup OffsetKeys

Places == Ids \cup RaDecs \cup AzEls
Values == Places \cup {Offset}

ASSUME PlacesAssumption ==
    /\ None \notin Values
    /\ Offset \notin Places

(* A key whose value is None is not in the dictionary.  "ra" -> p says that  *)
(* the entry is the right ascension of the pair p.                           *)
Command == [Keys -> Values \cup {None}]

Empty == [k \in Keys |-> None]

(* pmt.dict_add and pmt.dict_delete return a new dictionary. *)
Added(c, k, v) == [c EXCEPT ![k] = v]
Deleted(c, k)  == [c EXCEPT ![k] = None]

(* What an operator can type into the message edit box: a key, and a value.  *)
(* "malformed" is a value that float() or the index [1] refuses; "wrong" is  *)
(* any key that is none of the three.                                        *)
Good    == [key : {"source_id"}, val : Ids] \cup [key : {"radec"}, val : RaDecs]
             \cup [key : {"azel"}, val : AzEls]
Message == Good \cup [key : {"malformed", "wrong"}, val : {None}]

-----------------------------------------------------------------------------
(* How control.handle_msg reads a command. *)

(* ('ra' and 'dec') in obs_info tests 'dec' only, ('az' and 'el') 'el' only. *)
TargetKind(c) ==
    CASE c["source_id"] # None -> "source_id"
      [] c["source_id"] = None /\ c["dec"] # None -> "radec"
      [] c["source_id"] = None /\ c["dec"] = None /\ c["el"] # None -> "azel"
      [] OTHER -> "none"

Coordinates(c) ==
    CASE TargetKind(c) = "source_id" -> <<c["source_id"], c["source_id"]>>
      [] TargetKind(c) = "radec" -> <<c["ra"], c["dec"]>>
      [] TargetKind(c) = "azel" -> <<c["az"], c["el"]>>
      [] OTHER -> <<None, None>>

(* ('az_off' and 'el_off') in obs_info tests 'el_off' only. *)
OffSource(c) == c["el_off"] # None

(* Reading an entry that is not there raises KeyError. *)
RaisesKeyError(c) ==
    /\ TargetKind(c) # "none"
    /\ None \in {Coordinates(c)[1], Coordinates(c)[2]}
         \cup (IF OffSource(c) THEN {c["az_off"]} ELSE {})

(* Where a command sends the antennas. *)
Pointing == [by : {"source_id", "radec", "azel"}, at : Values \X Values, off : BOOLEAN]

PointingOf(c) == [by |-> TargetKind(c), at |-> Coordinates(c), off |-> OffSource(c)]

(* The pointing that a good message, or a setter's value, asks for. *)
PointingAt(m, off) == [by |-> m.key, at |-> <<m.val, m.val>>, off |-> off]
=============================================================================
