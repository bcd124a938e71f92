---------------------------- MODULE MCInverterLines ----------------------------
(***************************************************************************)
(* The two ways in which the board answers an inverter on RS485: a Pylon   *)
(* bridge between battery and inverter, and a Growatt responder.  A route  *)
(* runs one of them (RouteCascade); which one is chosen in the beginning,  *)
(* and the variables only the other has are Off.                           *)
(***************************************************************************)
EXTENDS Naturals, Sequences, FiniteSets

CONSTANTS
    Lines,                                               \* what may be chosen
    Sizes, MaxTime, Adrs, PairWindow, PylonStale,        \* PylonPassthrough
    MaxDelay, Patience, MaxToggles,
    Stale, Chunk, QueueMax, Batteries, Routes, Harms,    \* GrowattResponder
    MaxRequests, MaxFaults

VARIABLES
    line,
    now, toBridge, toBattery, toBridgeBack, override, toggles,   \* PylonPassthrough
    pend, store, lastBms, inv, bms, passed,
    route, cache, age, canq, model, rx, stream, shown, verdict,  \* GrowattResponder
    battery, told, log, judged, faults,
    asked, heard                                                 \* both

Off == 0

pylonVars ==
    <<now, toBridge, toBattery, toBridgeBack, override, toggles, pend, store, lastBms, inv, bms, passed>>
growattVars ==
    <<route, cache, age, canq, model, rx, stream, shown, verdict, battery, told, log, judged, faults>>
vars == <<line, pylonVars, growattVars, asked, heard>>

-----------------------------------------------------------------------------
(* Pylon.  An 0x61 of a variant and the usual one, an 0x42 of 14 cells and *)
(* one of the length of an 0x61; the inverter lets the battery answer.     *)

PylonSizes ==
    [c \in {"42", "61", "62", "63", "92"} |->
       CASE c \in {"61", "42"} -> {35, 49} [] c = "62" -> {8} [] OTHER -> {9}]

Pylon == INSTANCE PylonPassthrough WITH Stale <- PylonStale

InitPylon ==
    /\ line = "pylon" /\ Pylon!Init
    /\ route = Off /\ cache = Off /\ age = Off /\ canq = Off /\ model = Off /\ rx = Off /\ stream = Off
    /\ shown = Off /\ verdict = Off /\ battery = Off /\ told = Off /\ log = Off /\ judged = Off
    /\ faults = Off

PylonStep == line = "pylon" /\ Pylon!Next /\ UNCHANGED <<line, growattVars>>

-----------------------------------------------------------------------------
(* Growatt.                                                                *)

\* A battery in each dialect; one of them holds cells that cannot be.
Sends(f, cells) == [frames |-> f, cells |-> cells]
Dialects ==
    {Sends({"f313", "f314", "f319"}, TRUE), Sends({"f313", "f322"}, TRUE),
     Sends({"batt", "volt", "temp"}, FALSE), Sends({"f456", "f457", "f458"}, TRUE),
     Sends({"f351", "f355", "f356"}, TRUE), Sends({"f351", "f355", "f356", "f373"}, TRUE)}

Growatt == INSTANCE GrowattResponder

InitGrowatt ==
    /\ line = "growatt" /\ Growatt!Init
    /\ now = Off /\ toBridge = Off /\ toBattery = Off /\ toBridgeBack = Off /\ override = Off
    /\ toggles = Off /\ pend = Off /\ store = Off /\ lastBms = Off /\ inv = Off /\ bms = Off /\ passed = Off

GrowattStep == line = "growatt" /\ Growatt!Next /\ UNCHANGED <<line, pylonVars>>

-----------------------------------------------------------------------------
ASSUME LinesAssumption ==
    /\ Lines \subseteq {"pylon", "growatt"}
    /\ Pylon!SizesAssumption /\ Pylon!TimeAssumption /\ Pylon!PassAssumption /\ Pylon!LineAssumption
    /\ Growatt!ResponderAssumption

Init == line \in Lines /\ (InitPylon \/ InitGrowatt)

Next == PylonStep \/ GrowattStep

Spec == Init /\ [][Next]_vars

-----------------------------------------------------------------------------
(* Properties.                                                             *)

\* What the tasks keep is of the kinds that it should be: no frame is left in a
\* queue, and what is kept of the stream is never longer than half a request.
TypeOK ==
    /\ line = "pylon" => Pylon!TypeOK
    /\ line = "growatt" => Growatt!TypeOK

\* The inverter is told what it asked for, and the board shows what the inverter was
\* told: answers of the battery are not below the SOC floor, are cached as what they
\* are and in the form they were passed on, and those given under the override are fake.
\* Of a disturbed stream of requests each whole one is found, once and in its turn.
ToldIsRight ==
    /\ line = "pylon" =>
        /\ Pylon!FloorHolds /\ Pylon!AttributedRight
        /\ Pylon!CacheIsWhatWasPassed /\ Pylon!OverrideAnswersAreFake
    /\ line = "growatt" => Growatt!EveryRequestIsFound

\* A battery that has been silent for the window is not answered for and not shown: not
\* when time goes on, and not while other devices on its bus, which hold no data of
\* it, are heard.
SilentIsNotTold ==
    [][/\ line = "pylon" => Pylon!SilentIsHidden
       /\ line = "growatt" => Growatt!SilentIsNotAnswered' /\ Growatt!ShownIsRecent']_vars

\* A battery that has sent each of its frames once and is still heard is answered for,
\* whatever its dialect.
HeardIsAnswered == line = "growatt" => Growatt!HeardIsAnswered
=============================================================================
