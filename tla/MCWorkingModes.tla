--------------------------- MODULE MCWorkingModes ---------------------------
(***************************************************************************)
(* The modes that observe a system or forward in it, for TLC: a mode with  *)
(* its tasks and the CAN forwarder, or the line the RS485 sniffer reads.   *)
(* The two share no state, and which one it is is chosen in the beginning. *)
(***************************************************************************)
EXTENDS WorkingModes

CONSTANTS Bytes, PerTick, FrameMax, Gap   \* SnifferFrames

VARIABLES
    part,
    uart, count, here, quiet, first, joined, frame, age, haveLastByte, logs, turned   \* SnifferFrames

snifferVars == <<uart, count, here, quiet, first, joined, frame, age, haveLastByte, logs, turned>>

McIds   == {"f351", "f355", "f35C"}
McShort == {"f355"}
McModes == {"forward", "sniffer"}

Sniffer == INSTANCE SnifferFrames

ASSUME SnifferIsAssumed == Sniffer!SnifferAssumption

McInit ==
    /\ Init /\ Sniffer!Init
    /\ part = "mode" \/ (part = "line" /\ mode = "sniffer")

ModeStep == part = "mode" /\ Next /\ UNCHANGED <<part, snifferVars>>
LineStep == part = "line" /\ Sniffer!Next /\ UNCHANGED <<part, vars>>

McNext == ModeStep \/ LineStep

McSpec == McInit /\ [][McNext]_<<part, vars, snifferVars>> /\ Fairness

\* The log of the RS485 sniffer shows the messages that were on the line: every byte once and in
\* its place, divided where the line was silent and nowhere else, as soon as it is silent.
FramesAreTheMessages ==
    part = "line" =>
        /\ Sniffer!TypeOK /\ Sniffer!NothingIsLost /\ Sniffer!SilenceDivides
        /\ Sniffer!OnlySilenceDivides /\ Sniffer!QuietIsLogged
=============================================================================
