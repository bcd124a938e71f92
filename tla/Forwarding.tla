------------------------------ MODULE Forwarding ------------------------------
(***************************************************************************)
(* The way of one measurement through a running generic route: the source  *)
(* poller publishes it in the shared battery model and in the BMS queue,   *)
(* orchestratorTask forwards the queue to the inverter sender, which sends *)
(* the model or, without one, the last packet it got.  The web server may  *)
(* switch on an override whose fake data replaces the real ones.           *)
(*                                                                         *)
(* Time is counted in ticks; every copy carries the age of its data (ticks *)
(* since the battery sent them) and of its time stamp, capped at MaxAge    *)
(* and MaxStamp.  A tick is longer than one cycle of a task, so it passes  *)
(* only when every task has done what was due.                             *)
(***************************************************************************)
EXTENDS Naturals

CONSTANTS
    Vals,          \* what the battery may report
    NoData,
    SourceStale,   \* the poller's own *_SOURCE_STALE_MS
    SenderStale,   \* sourceStaleMsForSettings of the sender
    BridgeStale,   \* BRIDGE_SOURCE_STALE_MS
    ForcePeriod,   \* ORCHESTRATOR_FORCE_FORWARD_MS
    RoundTicks,    \* a poll round in which nothing answers, or the publish period
    AnswerTicks,   \* the most that is left of a round once the battery answered
    AnswerEndsRound,  \* whether an answer can end the round at once
    PacketStamp,   \* "source" or "publish": the time a packet is stamped with
    Sender,        \* "growatt" or "pylon"
    MayOverride,   \* whether the web server is used for fake data
    MaxAge,        \* the bound of the age of data
    MaxStamp       \* the bound of every other age

ASSUME TimeAssumption ==
    /\ {SourceStale, SenderStale, BridgeStale, ForcePeriod,
        RoundTicks, AnswerTicks, MaxAge, MaxStamp} \subseteq Nat
    /\ RoundTicks > 0
    /\ MaxAge > SourceStale + BridgeStale + SenderStale
    /\ MaxStamp > SenderStale /\ MaxStamp > BridgeStale /\ MaxStamp >= ForcePeriod

ASSUME KindAssumption ==
    /\ PacketStamp \in {"source", "publish"}
    /\ Sender \in {"growatt", "pylon"}
    /\ MayOverride \in BOOLEAN
    /\ AnswerEndsRound \in BOOLEAN

Ages   == 0..MaxAge
Stamps == 0..MaxStamp

\* A battery_model_t or bms_decoded_packet_t; "built" marks a packet that
\* buildPacketFromBatteryModel made, with a time stamp of its own.
Datum == [built : BOOLEAN, src : {"real", "fake"}, val : Vals, age : Ages, stamp : Stamps]

\* What packetEquivalent looks at of a packet.
Content == [built : BOOLEAN, val : Vals]

ASSUME NoDataAssumption == NoData \notin Datum /\ NoData \notin Content /\ NoData \notin Vals

MaybeDatum == Datum \cup {NoData}

VARIABLES
    sourceVal, sourceAge,  \* the poller's cache: newest value and its age
    due, answered,         \* ticks left of the poll round; a frame came in it
    pollPc,                \* "poll", or "queue" between batteryModelSet and xQueueOverwrite
    model,                 \* g_batteryModel
    bmsQueue,
    orchPc, packet,        \* orchestratorTask and its packet
    lastForwarded,         \* its lastForwarded, as far as packetEquivalent looks at it
    forwardAge,            \* time since lastForwardUs
    inverterQueue,
    sendPc, chosen,        \* the sender task and what it is about to send
    latest,                \* its latest packet ...
    latestFromDebugOverride,
    cycle,                 \* its cycles in this tick: "none", "idle" or "sent"
    fake, enabled,         \* g_debugBatteryModel, g_debugBatteryModelEnabled
    postPc,                \* fakeBmsPostHandler: "idle", "enable" or "disable"
    toggleAge              \* time since "enabled" changed

pollVars == <<sourceVal, sourceAge, due, answered, pollPc>>
orchVars == <<orchPc, packet, lastForwarded, forwardAge>>
sendVars == <<sendPc, chosen, latest, latestFromDebugOverride, cycle>>
webVars  == <<fake, enabled, postPc, toggleAge>>
vars     == <<pollVars, model, bmsQueue, orchVars, inverterQueue, sendVars, webVars>>

PollType ==
    /\ sourceVal \in Vals \cup {NoData}
    /\ sourceAge \in Ages
    /\ sourceAge <= SourceStale => sourceVal \in Vals
    /\ due \in 0..RoundTicks
    /\ answered \in BOOLEAN
    /\ pollPc \in {"poll", "queue"}
    /\ pollPc = "queue" => sourceVal \in Vals

OrchType ==
    /\ orchPc \in {"wait", "build", "forward"}
    /\ packet \in MaybeDatum
    /\ orchPc # "wait" <=> packet # NoData
    /\ lastForwarded \in Content \cup {NoData}
    /\ forwardAge \in Stamps

SendType ==
    /\ sendPc \in {"wait", "read", "override", "build", "send", "read322", "send322"}
    /\ chosen \in MaybeDatum
    /\ sendPc \in {"send", "send322"} <=> chosen # NoData
    /\ latest \in MaybeDatum
    /\ latestFromDebugOverride \in BOOLEAN
    /\ latestFromDebugOverride => latest # NoData
    /\ cycle \in {"none", "idle", "sent"}

WebType ==
    /\ fake \in Vals \cup {NoData}
    /\ enabled \in BOOLEAN
    /\ enabled \/ postPc # "idle" => fake \in Vals
    /\ postPc \in {"idle", "enable", "disable"}
    /\ toggleAge \in Stamps

TypeOK ==
    /\ model \in MaybeDatum
    /\ bmsQueue \in MaybeDatum
    /\ inverterQueue \in MaybeDatum
    /\ PollType /\ OrchType /\ SendType /\ WebType

\* The tasks have just been started, on empty queues and a cleared model.
Init ==
    /\ sourceVal = NoData /\ sourceAge = MaxAge
    /\ due = RoundTicks /\ answered = FALSE /\ pollPc = "poll"
    /\ model = NoData /\ bmsQueue = NoData /\ inverterQueue = NoData
    /\ orchPc = "wait" /\ packet = NoData
    /\ lastForwarded = NoData /\ forwardAge = MaxStamp
    /\ sendPc = "wait" /\ chosen = NoData
    /\ latest = NoData /\ latestFromDebugOverride = FALSE /\ cycle = "none"
    /\ fake = NoData /\ enabled = FALSE /\ postPc = "idle" /\ toggleAge = MaxStamp

-----------------------------------------------------------------------------
(* battery_model.c.                                                        *)

\* Mutant: the override only fills in for a missing real model.
BatteryModelGetRealFirst(stale) ==
    IF model # NoData /\ model.stamp <= stale THEN model
    ELSE IF enabled
    THEN [built |-> FALSE, src |-> "fake", val |-> fake, age |-> 0, stamp |-> 0]
    ELSE NoData

\* Mutant: a valid override counts, enabled or not.
BatteryModelGetIgnoresEnabled(stale) ==
    IF fake # NoData
    THEN [built |-> FALSE, src |-> "fake", val |-> fake, age |-> 0, stamp |-> 0]
    ELSE IF model # NoData /\ model.stamp <= stale THEN model ELSE NoData

\* batteryModelGetWithStaleMs: one critical section; fake data are always new.
BatteryModelGet(stale) ==
    IF enabled
    THEN [built |-> FALSE, src |-> "fake", val |-> fake, age |-> 0, stamp |-> 0]
    ELSE IF model # NoData /\ model.stamp <= stale THEN model ELSE NoData

\* buildPacketFromBatteryModel (twice in the code): a new time stamp.
Built(m) == [m EXCEPT !.built = TRUE, !.stamp = 0]

-----------------------------------------------------------------------------
(* The source poller.                                                      *)

Receive(v) ==
    /\ pollPc = "poll"
    /\ sourceVal' = v
    /\ sourceAge' = 0
    /\ answered' = TRUE
    /\ due' = IF due <= AnswerTicks THEN due ELSE AnswerTicks
    /\ UNCHANGED <<pollPc, model, bmsQueue, orchVars, inverterQueue, sendVars, webVars>>

\* Mutant: a source that ever answered stays fresh.
SourceEverAnswered == sourceVal # NoData

\* Mutant: only data of the very moment count.
SourceIsNew == sourceVal # NoData /\ sourceAge < 1

\* decoderCacheFresh; the test of lastFrameUs in dalyTask.
SourceIsFresh == sourceVal # NoData /\ sourceAge <= SourceStale

RoundEnds == due = 0 \/ (AnswerEndsRound /\ answered)

\* The freshness test comes only here; the model is stamped anew.
EndRound ==
    /\ pollPc = "poll"
    /\ RoundEnds
    /\ due' = RoundTicks
    /\ answered' = FALSE
    /\ \/ /\ SourceIsFresh
          /\ model' = [built |-> FALSE, src |-> "real", val |-> sourceVal,
                       age |-> sourceAge, stamp |-> 0]
          /\ pollPc' = "queue"
       \/ /\ ~SourceIsFresh
          /\ model' = NoData
          /\ UNCHANGED pollPc
    /\ UNCHANGED <<sourceVal, sourceAge, bmsQueue, orchVars, inverterQueue, sendVars, webVars>>

Capped(a) == IF a <= MaxStamp THEN a ELSE MaxStamp

\* xQueueOverwrite(outQueue).
QueuePacket ==
    /\ pollPc = "queue"
    /\ bmsQueue' = [built |-> FALSE, src |-> "real", val |-> sourceVal, age |-> sourceAge,
                    stamp |-> IF PacketStamp = "source" THEN Capped(sourceAge) ELSE 0]
    /\ pollPc' = "poll"
    /\ UNCHANGED <<sourceVal, sourceAge, due, answered, model,
                   orchVars, inverterQueue, sendVars, webVars>>

Poller == EndRound \/ QueuePacket

-----------------------------------------------------------------------------
(* orchestratorTask.                                                       *)

OrchReceive ==
    /\ orchPc = "wait"
    /\ bmsQueue # NoData
    /\ packet' = bmsQueue
    /\ bmsQueue' = NoData
    /\ orchPc' = IF enabled THEN "build" ELSE "forward"
    /\ UNCHANGED <<pollVars, model, lastForwarded, forwardAge, inverterQueue, sendVars, webVars>>

\* A critical section of its own: the override may be off by now, and what
\* gets the new time stamp is then the real model.
OrchBuild ==
    /\ orchPc = "build"
    /\ LET m == BatteryModelGet(BridgeStale)
       IN  packet' = IF m = NoData THEN packet ELSE Built(m)
    /\ orchPc' = "forward"
    /\ UNCHANGED <<pollVars, model, bmsQueue, lastForwarded, forwardAge,
                   inverterQueue, sendVars, webVars>>

\* Mutant: only which fields are present is compared.
PacketEquivalentShape(a, b) == a.built = b.built

PacketEquivalent(a, b) == a.built = b.built /\ a.val = b.val

OrchForward ==
    LET changed == lastForwarded # NoData => ~PacketEquivalent(lastForwarded, packet)
        forceRefresh == forwardAge >= ForcePeriod
    IN  /\ orchPc = "forward"
        /\ orchPc' = "wait"
        /\ packet' = NoData
        /\ \/ /\ changed \/ forceRefresh
              /\ inverterQueue' = packet
              /\ lastForwarded' = [built |-> packet.built, val |-> packet.val]
              /\ forwardAge' = 0
           \/ /\ ~changed /\ ~forceRefresh
              /\ UNCHANGED <<inverterQueue, lastForwarded, forwardAge>>
        /\ UNCHANGED <<pollVars, model, bmsQueue, sendVars, webVars>>

OrchestratorTask == OrchReceive \/ OrchBuild \/ OrchForward

-----------------------------------------------------------------------------
(* growattInverterTask and pylonInverterTask.                              *)

EndCycle(how) ==
    /\ sendPc' = "wait"
    /\ chosen' = NoData
    /\ cycle' = how

\* xQueueReceive, with a packet or after its time-out.  The Pylon sender
\* goes on only when its period is over; the Growatt sender's time-out is
\* its period.
SendReceive ==
    /\ sendPc = "wait"
    /\ IF inverterQueue # NoData
       THEN latest' = inverterQueue /\ latestFromDebugOverride' = FALSE
       ELSE UNCHANGED <<latest, latestFromDebugOverride>>
    /\ inverterQueue' = NoData
    /\ \/ sendPc' = "read"
       \/ Sender = "pylon" /\ cycle = "sent" /\ UNCHANGED sendPc
    /\ UNCHANGED <<pollVars, model, bmsQueue, orchVars, chosen, cycle, webVars>>

\* Mutant: a packet once received stays good.
PacketIsFreshAlways(p) == p # NoData

PacketIsFresh(p) == p # NoData /\ p.stamp <= SenderStale

ForgetPacket == latest' = NoData /\ latestFromDebugOverride' = FALSE

\* The model, else the packet while it is fresh.
Selected ==
    LET m == BatteryModelGet(SenderStale)
    IN  IF m = NoData /\ PacketIsFresh(latest) THEN latest ELSE m

\* A packet made from the override is used once, then dropped.
SendRead ==
    /\ sendPc = "read"
    /\ chosen' = Selected
    /\ IF ~PacketIsFresh(latest) \/ (Selected # NoData /\ latestFromDebugOverride)
       THEN ForgetPacket
       ELSE UNCHANGED <<latest, latestFromDebugOverride>>
    /\ \/ Selected # NoData /\ sendPc' = "send" /\ UNCHANGED cycle
       \/ Selected = NoData /\ Sender = "pylon" /\ sendPc' = "wait" /\ cycle' = "idle"
       \/ Selected = NoData /\ Sender = "growatt" /\ sendPc' = "override" /\ UNCHANGED cycle
    /\ UNCHANGED <<pollVars, model, bmsQueue, orchVars, inverterQueue, webVars>>

\* The Growatt sender asks for the override after it found no model.
SendOverride ==
    /\ sendPc = "override"
    /\ \/ enabled /\ sendPc' = "build"
          /\ UNCHANGED <<chosen, cycle, latest, latestFromDebugOverride>>
       \/ ~enabled /\ EndCycle("idle")
          /\ IF latestFromDebugOverride
             THEN ForgetPacket
             ELSE UNCHANGED <<latest, latestFromDebugOverride>>
    /\ UNCHANGED <<pollVars, model, bmsQueue, orchVars, inverterQueue, webVars>>

SendBuild ==
    LET m == BatteryModelGet(BridgeStale)
    IN  /\ sendPc = "build"
        /\ \/ m # NoData /\ sendPc' = "send" /\ UNCHANGED cycle
              /\ chosen' = Built(m) /\ latest' = Built(m) /\ latestFromDebugOverride' = TRUE
           \/ m = NoData /\ EndCycle("idle")
              /\ UNCHANGED <<latest, latestFromDebugOverride>>
        /\ UNCHANGED <<pollVars, model, bmsQueue, orchVars, inverterQueue, webVars>>

\* sendGrowattCanSet, sendPylonCanSet; a failed frame ends the set, and the
\* period goes on from the last good one.
Send ==
    /\ sendPc = "send"
    /\ \/ EndCycle("idle")
       \/ Sender = "pylon" /\ EndCycle("sent")
       \/ Sender = "growatt" /\ sendPc' = "read322" /\ chosen' = NoData /\ UNCHANGED cycle
    /\ UNCHANGED <<pollVars, model, bmsQueue, orchVars, inverterQueue,
                   latest, latestFromDebugOverride, webVars>>

\* Frame 0x322 of the Growatt set is built from a second look at the model.
Read322 ==
    /\ sendPc = "read322"
    /\ LET m == BatteryModelGet(BridgeStale)
       IN  \/ m # NoData /\ chosen' = Built(m) /\ sendPc' = "send322" /\ UNCHANGED cycle
           \/ m = NoData /\ EndCycle("sent")
    /\ UNCHANGED <<pollVars, model, bmsQueue, orchVars, inverterQueue,
                   latest, latestFromDebugOverride, webVars>>

Send322 ==
    /\ sendPc = "send322"
    /\ EndCycle("sent") \/ EndCycle("idle")
    /\ UNCHANGED <<pollVars, model, bmsQueue, orchVars, inverterQueue,
                   latest, latestFromDebugOverride, webVars>>

SenderTask ==
    SendReceive \/ SendRead \/ SendOverride \/ SendBuild \/ Send \/ Read322 \/ Send322

-----------------------------------------------------------------------------
(* fakeBmsPostHandler: the values, then the switch.                        *)

SetDebugOverride(v) ==
    /\ MayOverride
    /\ postPc = "idle"
    /\ fake' = v
    /\ postPc' \in {"enable", "disable"}
    /\ UNCHANGED <<pollVars, model, bmsQueue, orchVars, inverterQueue, sendVars,
                   enabled, toggleAge>>

SetDebugOverrideEnabled ==
    /\ postPc # "idle"
    /\ enabled' = (postPc = "enable")
    /\ toggleAge' = IF enabled' = enabled THEN toggleAge ELSE 0
    /\ postPc' = "idle"
    /\ UNCHANGED <<pollVars, model, bmsQueue, orchVars, inverterQueue, sendVars, fake>>

-----------------------------------------------------------------------------

Inc(a, bound) == IF a < bound THEN a + 1 ELSE a

Older(d) ==
    IF d = NoData THEN NoData
    ELSE [d EXCEPT !.age = Inc(@, MaxAge), !.stamp = Inc(@, MaxStamp)]

\* Every task waits, nothing is queued, no round is overdue.
Settled ==
    /\ pollPc = "poll" /\ orchPc = "wait" /\ sendPc = "wait"
    /\ bmsQueue = NoData /\ inverterQueue = NoData

Tick ==
    /\ Settled
    /\ due > 0
    /\ cycle # "none"
    /\ due' = due - 1
    /\ sourceAge' = Inc(sourceAge, MaxAge)
    /\ model' = Older(model)
    /\ latest' = Older(latest)
    /\ forwardAge' = Inc(forwardAge, MaxStamp)
    /\ toggleAge' = Inc(toggleAge, MaxStamp)
    /\ cycle' = "none"
    /\ UNCHANGED <<sourceVal, answered, pollPc, bmsQueue, orchPc, packet, lastForwarded,
                   inverterQueue, sendPc, chosen, latestFromDebugOverride,
                   fake, enabled, postPc>>

Next ==
    \/ \E v \in Vals : Receive(v) \/ SetDebugOverride(v)
    \/ Poller \/ OrchestratorTask \/ SenderTask
    \/ SetDebugOverrideEnabled
    \/ Tick

\* No task is starved, and time diverges.
Fairness ==
    /\ WF_vars(Poller)
    /\ WF_vars(OrchestratorTask)
    /\ WF_vars(SenderTask)
    /\ []<><<Tick>>_vars

Spec == Init /\ [][Next]_vars /\ Fairness

-----------------------------------------------------------------------------
(* Properties.                                                             *)

Sending == sendPc \in {"send", "send322"}

\* What goes to the inverter is never older than the poller's window plus
\* the sender's, plus one more window when a packet was built from the real
\* model because the override was switched off between test and use: no
\* chain of copies renews its time stamp twice.
SentAgeBounded ==
    Sending /\ chosen.src = "real"
        => chosen.age <= SourceStale + SenderStale + (IF chosen.built THEN BridgeStale ELSE 0)

\* Fake data, whichever queue or copy they still sit in, are sent at most one
\* sender window after the override is switched off.
FakeStops ==
    Sending /\ chosen.src = "fake" => enabled \/ toggleAge <= SenderStale

\* From the first tick after it is switched on, the override hides the real
\* data: none is left in a queue or a copy that the sender prefers.
OverrideWins == Sending /\ enabled /\ toggleAge > 0 => chosen.src = "fake"

\* When all tasks wait, the packet the sender falls back to shows the values
\* last published: the forwarding throttle (orchestrator.c:589-595) and the
\* queues that overwrite lose repetitions but no change.
NoChangeIsLost ==
    Settled /\ model # NoData /\ latest # NoData /\ ~latest.built
        => latest.val = model.val
=============================================================================
