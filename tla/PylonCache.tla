------------------------------ MODULE PylonCache ------------------------------
(***************************************************************************)
(* The data of the Pylon RS485 bridge: the cache of the last answer per    *)
(* command, the summary decoded from it, and what telemetryFromSummary     *)
(* makes of the summary, as one record, with the functions that change it. *)
(*                                                                         *)
(* A payload is what the battery put into one answer: the command it was   *)
(* an answer to, the time it was measured, its bytes counted, whether its  *)
(* fifth byte (the SOC of an 0x61) is below the SOC floor, and whether the *)
(* bridge raised that byte or built the answer itself.  Time 0 is not a    *)
(* time: it is the mark of what was built from the fake override.          *)
(***************************************************************************)
EXTENDS Naturals

CONSTANTS
    Sizes,      \* per command, the sizes in bytes its answers may have
    MaxTime     \* bound of the clock

Cids == {"42", "61", "62", "63"}

\* The commands on the line: these four, and 0x92 for all the others.
Kinds == Cids \cup {"92"}

SizesAssumption == Sizes \in [Kinds -> SUBSET Nat]
TimeAssumption  == MaxTime \in Nat \ {0}

Fake == 0
None == [of |-> "none", val |-> 0, size |-> 0, low |-> FALSE, how |-> "came"]

Payloads ==
    [of : Kinds, val : 0..MaxTime, size : {8, 9, 49} \cup UNION {Sizes[c] : c \in Kinds},
     low : BOOLEAN, how : {"came", "raised", "built"}]

Slot   == Payloads \cup {None}
Models == [valid : BOOLEAN, pack : Slot, cells : Slot, status : Slot, stamp : 0..MaxTime]

NoModel   == [valid |-> FALSE, pack |-> None, cells |-> None, status |-> None, stamp |-> 0]
NoSummary == [valid |-> FALSE, pack |-> None, cells |-> None, status |-> None]

Stores ==
    [info : [Cids -> Slot],       \* s_pylonCache: None where the flag is not set
     summary : [valid : BOOLEAN, pack : Slot, cells : Slot, status : Slot],
     model : Models,              \* g_batteryModel
     shown : Models]              \* the telemetry snapshot

\* 0x62 is answered with "00000000" when nothing was received.
Zero62 == [of |-> "62", val |-> Fake, size |-> 8, low |-> TRUE, how |-> "built"]

EmptyInfo  == [c \in Cids |-> IF c = "62" THEN Zero62 ELSE None]
EmptyStore == [info |-> EmptyInfo, summary |-> NoSummary, model |-> NoModel, shown |-> NoModel]

-----------------------------------------------------------------------------
(* Decoding an answer as one to the command c, which is not always the one *)
(* it answers: only the length, and for 0x42 the shape, is checked.        *)

Parses61(p) == p.size >= 33
Parses63(p) == p.size >= 9
Parses42(p) == p.of = "42" /\ p.size >= 3

\* The summary after the answer p was taken for one to c.
Summarised(sum, c, p) ==
    CASE c = "61" /\ Parses61(p) -> [sum EXCEPT !.valid = TRUE, !.pack = p]
      [] c = "63" /\ Parses63(p) -> [sum EXCEPT !.status = p]
      [] c = "42" /\ p.size >= 3 -> [sum EXCEPT !.cells = IF Parses42(p) THEN p ELSE None]
      [] OTHER -> sum

\* The battery model of a summary carries the time it was made at.
ModelFromSummary(sum, t) ==
    [valid |-> sum.valid, pack |-> sum.pack, cells |-> sum.cells,
     status |-> sum.status, stamp |-> t]

\* A native RS485 source: the summary is published as the battery model and shown.
Published(st, t) ==
    IF ~st.summary.valid
    THEN [st EXCEPT !.shown = NoModel]
    ELSE LET m == ModelFromSummary(st.summary, t)
         IN  [st EXCEPT !.model = m, !.shown = m]

\* The cache, the summary and the model after the answer p was taken for one to c.
Cached(st, c, p, t) ==
    LET kept == [st EXCEPT !.info[c] = p, !.summary = Summarised(st.summary, c, p)]
    IN  CASE p.size = 0 -> st
          [] c = "62"   -> kept
          [] OTHER      -> Published(kept, t)

HasData(st) == st.summary.valid \/ \E c \in Cids \ {"62"} : st.info[c] # None

-----------------------------------------------------------------------------
(* Answers built from a battery model, whose three parts are taken from it *)
(* one after the other.                                                    *)

Built(c, v, n) == [of |-> c, val |-> v, size |-> n, low |-> FALSE, how |-> "built"]

\* What buildCanDerivedInfo61 and 63 make of a valid model read as value v.
Build61(v) == Built("61", v, 49)
Build63(v) == Built("63", v, 9)
=============================================================================
