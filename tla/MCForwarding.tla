----------------------------- MODULE MCForwarding -----------------------------
(***************************************************************************)
(* Two routes a measurement takes (Forwarding) under fairness: a route     *)
(* that publishes when it likes, to the Growatt sender and with the fake   *)
(* data of the web server, and one that publishes with the rounds of a     *)
(* Daly battery on RS485, to the Pylon sender.  Which one runs is chosen   *)
(* in the beginning.                                                       *)
(***************************************************************************)
EXTENDS Naturals

CONSTANTS
    v1, v2,   \* what the battery may report
    NoData

VARIABLES
    route,    \* which one it is
    sourceVal, sourceAge, due, answered, pollPc, model, bmsQueue,
    orchPc, packet, lastForwarded, forwardAge, inverterQueue,
    sendPc, chosen, latest, latestFromDebugOverride, cycle,
    fake, enabled, postPc, toggleAge

Growatt == INSTANCE Forwarding WITH
    Vals <- {v1}, SourceStale <- 2, SenderStale <- 1, BridgeStale <- 1, ForcePeriod <- 2,
    RoundTicks <- 1, AnswerTicks <- 1, AnswerEndsRound <- FALSE, PacketStamp <- "publish",
    Sender <- "growatt", MayOverride <- TRUE, MaxAge <- 5, MaxStamp <- 2

\* The poller's window is as long as the sender's, a round as long as both.
Daly == INSTANCE Forwarding WITH
    Vals <- {v1, v2}, SourceStale <- 4, SenderStale <- 4, BridgeStale <- 1, ForcePeriod <- 1,
    RoundTicks <- 4, AnswerTicks <- 2, AnswerEndsRound <- TRUE, PacketStamp <- "source",
    Sender <- "pylon", MayOverride <- FALSE, MaxAge <- 10, MaxStamp <- 5

vars ==
    <<route, sourceVal, sourceAge, due, answered, pollPc, model, bmsQueue,
      orchPc, packet, lastForwarded, forwardAge, inverterQueue,
      sendPc, chosen, latest, latestFromDebugOverride, cycle,
      fake, enabled, postPc, toggleAge>>

Init ==
    \/ route = "growatt" /\ Growatt!Init
    \/ route = "daly" /\ Daly!Init

GrowattStep == route = "growatt" /\ Growatt!Next /\ UNCHANGED route
DalyStep    == route = "daly" /\ Daly!Next /\ UNCHANGED route

Next == GrowattStep \/ DalyStep

Poller ==
    /\ \/ route = "growatt" /\ Growatt!Poller
       \/ route = "daly" /\ Daly!Poller
    /\ UNCHANGED route

OrchestratorTask ==
    /\ \/ route = "growatt" /\ Growatt!OrchestratorTask
       \/ route = "daly" /\ Daly!OrchestratorTask
    /\ UNCHANGED route

SenderTask ==
    /\ \/ route = "growatt" /\ Growatt!SenderTask
       \/ route = "daly" /\ Daly!SenderTask
    /\ UNCHANGED route

Tick ==
    /\ \/ route = "growatt" /\ Growatt!Tick
       \/ route = "daly" /\ Daly!Tick
    /\ UNCHANGED route

\* That of Forwarding: no task is starved, and time diverges.
Spec ==
    /\ Init /\ [][Next]_vars
    /\ WF_vars(Poller)
    /\ WF_vars(OrchestratorTask)
    /\ WF_vars(SenderTask)
    /\ []<><<Tick>>_vars

-----------------------------------------------------------------------------
(* Properties.                                                             *)

Silent  == sourceAge > (IF route = "growatt" THEN 2 ELSE 4)
Sending == sendPc \in {"send", "send322"}

\* Once the battery is silent for good and no override is on, the sender
\* falls silent: its fallback packet is not kept alive by the forwarding.
SilentSourceStopsSender == <>[](Silent /\ ~enabled) => <>[]~Sending

\* A battery that keeps answering is served: clears and time-outs between
\* its answers never silence the sender for good.
FreshSourceIsSent == []<>(sourceAge = 0) => []<>(sendPc = "send")
=============================================================================
