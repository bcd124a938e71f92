-------------------------------- MODULE DalyCan --------------------------------
(***************************************************************************)
(* The Daly source on CAN.  It does not know at which address the battery  *)
(* is and which form of request it answers, so each command is asked in    *)
(* turn at several addresses and in several forms until something answers; *)
(* the form that was answered is then the only one that is used.  A tick   *)
(* is the time that an answer is waited for.                               *)
(***************************************************************************)
EXTENDS DalySnapshot, Sequences, SequencesExt

CONSTANTS
    InitCmds, RunCmds,  \* initCmds, runCmds
    Targets,            \* kDalyCanProbeTargets
    Variants,           \* the forms of a request in the order they are tried: [host, short]
    Hosts,              \* dalyCanHostIsAllowed
    Master,             \* DALY_CAN_MASTER_ID, allowed as a source
    Stale,              \* DALY_CAN_SOURCE_STALE_MS
    Hold,               \* commands in 500 ms, the time between two recoveries
    Batteries,          \* what may be on the bus: [id, hosts, short, direct, n]
    Harms,              \* what may happen on the bus
    MaxFaults,          \* bound: harms, failed transmissions and recoveries
    MaxSwaps            \* bound: exchanged batteries, restarts

CanAssumption ==
    /\ InitCmds \in Seq(Cmds) /\ RunCmds \in Seq(Cmds) /\ RunCmds # <<>>
    /\ Targets \in Seq(STRING) /\ Targets # <<>>
    /\ Variants \in Seq([host : Hosts, short : BOOLEAN]) /\ Len(Variants) > 1
    /\ {Stale, Hold, MaxFaults, MaxSwaps} \subseteq Nat
    /\ Batteries \subseteq [id : STRING, hosts : SUBSET Hosts, short : BOOLEAN,
                            direct : BOOLEAN, n : Nat]
    /\ Harms \subseteq {"lost", "late", "foreign", "other", "busoff", "txfail"}

VARIABLES
    pc,       \* "sniff", "poll", "ask", "wait" or "round"
    cmd,      \* the commands that are still to be asked in this round
    plan,     \* the requests that are still to be tried for this command
    matched,  \* answers to this command, and
    expected, \*   how many are waited for
    learned,  \* preferredRequestVariant, if any
    active,   \* activeTargetId
    snap,     \* snapshot
    frame,    \* age of lastFrameUs
    out,      \* the latest packet; the model is set and cleared with it
    rxq,      \* the receive queue of the driver
    bus, hold,
    air,      \* the answer that is on its way
    battery, gen, heard, faults, swaps

taskVars == <<pc, cmd, plan, matched, expected, learned, active, snap, frame, out>>
busVars  == <<bus, hold>>
envVars  == <<battery, gen, swaps>>
vars     == <<taskVars, busVars, rxq, air, envVars, heard, faults>>

\* The longest round: every command in every form at every address.
LongRound == Len(RunCmds) * Len(Targets) * Len(Variants) + 2
MaxAge    == Stale + 2 * LongRound
Grown(a)  == IF a >= MaxAge THEN MaxAge ELSE a + 1
NoAnswer  == [due |-> 0, frames |-> <<>>]

TypeOK ==
    /\ pc \in {"sniff", "poll", "ask", "wait", "round"}
    /\ Len(cmd) <= Len(InitCmds) + Len(RunCmds) /\ Len(plan) <= Len(Targets) * Len(Variants)
    /\ matched \in 0..MaxCells /\ expected \in 0..MaxCells /\ Cardinality(learned) <= 1
    /\ IsSnapshot(snap) /\ {frame, heard} \subseteq 0..MaxAge
    /\ (out.have => snap.valid) /\ (pc \in {"ask", "wait"} => cmd # <<>> /\ plan # <<>>)
    /\ bus \in {"running", "off", "recovering", "stopped"} /\ hold \in 0..Hold
    /\ faults \in 0..MaxFaults /\ swaps \in 0..MaxSwaps /\ gen \in 1..(MaxSwaps + 1)

\* dalyCanBmsTaskStart; the task first listens.
Started ==
    /\ pc' = "sniff" /\ cmd' = InitCmds \o RunCmds /\ plan' = <<>> /\ matched' = 0 /\ expected' = 0
    /\ learned' = {} /\ active' = Targets[1] /\ snap' = NoSnapshot /\ frame' = MaxAge
    /\ out' = Nothing /\ rxq' = <<>> /\ bus' = "running" /\ hold' = 0

Init ==
    /\ pc = "sniff" /\ cmd = InitCmds \o RunCmds /\ plan = <<>> /\ matched = 0 /\ expected = 0
    /\ learned = {} /\ active = Targets[1] /\ snap = NoSnapshot /\ frame = MaxAge
    /\ out = Nothing /\ rxq = <<>> /\ bus = "running" /\ hold = 0
    /\ air = NoAnswer /\ battery \in Batteries /\ gen = 1
    /\ heard = MaxAge /\ faults = 0 /\ swaps = 0

-----------------------------------------------------------------------------
(* A frame that was received.  Its identifier has two addresses, mid and   *)
(* low.                                                                    *)

Senders   == {Targets[i] : i \in DOMAIN Targets} \cup {Master, active}
Direct(f) == f.mid \in Senders /\ f.low \in Hosts
Known(f)  == Direct(f) \/ (f.mid \in Hosts /\ f.low \in Senders)

\* An identifier that is right either way round counts as the second.
SourceOf(f) == IF Direct(f) THEN f.mid ELSE f.low

\* dalyCanHandleReceivedFrame, when no answer is waited for: whatever it is about.
\* e is what frames change.
Heard(e, f) ==
    IF f.short \/ ~Known(f) THEN e
    ELSE [e EXCEPT !.active = SourceOf(f), !.snap = Decode(@, f), !.frame = 0]

Ctx == [active |-> active, snap |-> snap, frame |-> frame]

\* dalyCanDrainPendingFrames.
Drained ==
    LET upTo[i \in 0..Len(rxq)] == IF i = 0 THEN Ctx ELSE Heard(upTo[i - 1], rxq[i])
    IN upTo[Len(rxq)]

Take(e) == active' = e.active /\ snap' = e.snap /\ frame' = e.frame

-----------------------------------------------------------------------------
(* dalyCanPollCommand.                                                     *)

IsStale == frame > Stale

\* What is tried for a command, addresses first.
Plan ==
    IF learned # {} THEN <<[target |-> active, variant |-> CHOOSE v \in learned : TRUE]>>
    ELSE IF ~IsStale
         THEN [i \in 1..2 |-> [target |-> active, variant |-> Variants[i]]]
         ELSE [i \in 1..(Len(Targets) * Len(Variants)) |->
                 [target  |-> Targets[((i - 1) \div Len(Variants)) + 1],
                  variant |-> Variants[((i - 1) % Len(Variants)) + 1]]]

\* The command is over: the next one, or the end of the round.
CommandOver ==
    /\ cmd' = Tail(cmd) /\ plan' = <<>> /\ matched' = 0 /\ expected' = 0
    /\ pc' = IF Len(cmd) = 1 THEN "round" ELSE "poll"

TryOver == IF Len(plan) = 1 THEN CommandOver ELSE plan' = Tail(plan) /\ pc' = "ask" /\ UNCHANGED <<cmd, matched, expected>>

\* Mutant: a controller that stopped is left alone.
NeverRestarted == bus = "stopped" /\ UNCHANGED <<bus, hold, faults>>

\* dalyCanEnsureBusRunning, which may let a request go or not.
Restarted == bus = "stopped" /\ bus' = "running" /\ UNCHANGED <<hold, faults>>

Recovers ==
    /\ bus = "off" /\ hold = 0 /\ hold' = Hold
    /\ \/ bus' = "recovering" /\ UNCHANGED faults
       \/ UNCHANGED bus /\ faults < MaxFaults /\ faults' = faults + 1

StaysDown == (bus = "recovering" \/ (bus = "off" /\ hold > 0)) /\ UNCHANGED <<bus, faults>>

Rest == IF hold > 0 THEN hold' = hold - 1 ELSE UNCHANGED hold

PollRuns ==
    /\ pc = "poll"
    /\ Restarted \/ (bus = "running" /\ Rest /\ UNCHANGED <<bus, faults>>)
    /\ pc' = "ask" /\ plan' = Plan /\ expected' = FrameCount(snap, Head(cmd))
    /\ UNCHANGED <<cmd, matched, learned, active, snap, frame, out, rxq, air, envVars, heard>>

PollIsOff ==
    /\ pc = "poll" /\ bus # "running"
    /\ Recovers \/ (StaysDown /\ Rest)
    /\ CommandOver
    /\ UNCHANGED <<learned, active, snap, frame, out, rxq, air, envVars, heard>>

Understands(r) ==
    /\ r.target = battery.id /\ r.variant.host \in battery.hosts
    /\ r.variant.short => battery.short

Mv(i) == 10 * gen + i

\* The frames of an answer to the command c that was asked by the host h.
AnswerTo(c, h) ==
    [i \in 1..(IF c = "cells" THEN battery.n ELSE 1) |->
        [mid |-> IF battery.direct THEN battery.id ELSE h,
         low |-> IF battery.direct THEN h ELSE battery.id, short |-> FALSE,
         cmd |-> c, val |-> gen, no |-> i - 1, mv |-> Mv(i), n |-> battery.n,
         range |-> <<Mv(1), Mv(battery.n)>>]]

Send(r) ==
    IF air # NoAnswer \/ bus # "running" \/ ~Understands(r) THEN UNCHANGED <<air, faults>>
    ELSE \/ air' = [due |-> 0, frames |-> AnswerTo(Head(cmd), r.variant.host)] /\ UNCHANGED faults
         \/ /\ "late" \in Harms /\ faults < MaxFaults /\ faults' = faults + 1
            /\ air' = [due |-> 1, frames |-> AnswerTo(Head(cmd), r.variant.host)]

Ask ==
    /\ pc = "ask" /\ bus = "running"
    /\ Take(Drained) /\ rxq' = <<>>
    /\ Send(Head(plan)) /\ pc' = "wait"
    /\ UNCHANGED <<cmd, plan, matched, expected, learned, out, busVars, envVars, heard>>

\* A transmission that fails, as on a bus that went off, is followed by the next try.
AskFails ==
    /\ pc = "ask"
    /\ Take(Drained) /\ rxq' = <<>>
    /\ \/ bus # "running" /\ (Recovers \/ Restarted \/ (StaysDown /\ UNCHANGED hold))
       \/ /\ bus = "running" /\ "txfail" \in Harms
          /\ faults < MaxFaults /\ faults' = faults + 1 /\ UNCHANGED busVars
    /\ TryOver
    /\ UNCHANGED <<learned, out, air, envVars, heard>>

Learn == IF learned = {} THEN {plan[1].variant} ELSE learned

Answers(f) == ~f.short /\ Known(f) /\ f.cmd = Head(cmd)

WaitFrame ==
    /\ pc = "wait" /\ rxq # <<>> /\ rxq' = Tail(rxq)
    /\ Take(Heard(Ctx, Head(rxq)))
    /\ IF ~Answers(Head(rxq)) THEN UNCHANGED <<pc, cmd, plan, matched, expected, learned>>
       ELSE /\ learned' = Learn
            /\ IF matched + 1 >= expected THEN CommandOver
               ELSE matched' = matched + 1 /\ UNCHANGED <<pc, cmd, plan, expected>>
    /\ UNCHANGED <<out, busVars, air, envVars, heard, faults>>

Due == air # NoAnswer /\ air.due = 0

\* Time passes where the task waits.
Tick ==
    /\ ~Due
    /\ heard' = Grown(heard)
    /\ air' = IF air = NoAnswer THEN air ELSE [air EXCEPT !.due = @ - 1]

WaitEnds ==
    /\ pc = "wait" /\ Tick /\ frame' = Grown(frame)
    /\ IF matched > 0 THEN CommandOver ELSE TryOver
    /\ UNCHANGED <<learned, active, snap, out, busVars, rxq, envVars, faults>>

-----------------------------------------------------------------------------
(* dalyCanTask.                                                            *)

SniffFrame ==
    /\ pc = "sniff" /\ rxq # <<>> /\ rxq' = Tail(rxq)
    /\ Take(Heard(Ctx, Head(rxq)))
    /\ UNCHANGED <<pc, cmd, plan, matched, expected, learned, out, busVars, air, envVars, heard, faults>>

SniffEnds ==
    /\ pc = "sniff" /\ Tick /\ frame' = Grown(frame)
    /\ pc' = "poll"
    /\ UNCHANGED <<cmd, plan, matched, expected, learned, active, snap, out, busVars, rxq, envVars, faults>>

\* dalyCanUpdateExtremesFromCells: of the cells that were read.
CellsRead(s) == {i \in 1..s.count : s.cells[i] > 0}

TooOld(a) == a > Stale

RoundEnds ==
    /\ pc = "round" /\ Tick
    /\ frame' = Grown(frame) /\ cmd' = RunCmds
    /\ \E s \in {Extremes(snap, CellsRead(snap))} :
          /\ snap' = s
          /\ out' = CASE TooOld(frame') -> Nothing
                      [] ~TooOld(frame') /\ HasContent(s) -> Packet(s)
                      [] OTHER -> out
    /\ pc' = IF TooOld(frame') THEN "sniff" ELSE "poll"
    /\ UNCHANGED <<plan, matched, expected, learned, active, busVars, rxq, envVars, faults>>

\* dalyCanBmsTaskStop and dalyCanBmsTaskStart.
Restart ==
    /\ swaps < MaxSwaps /\ swaps' = swaps + 1
    /\ Started
    /\ UNCHANGED <<air, battery, gen, heard, faults>>

-----------------------------------------------------------------------------
(* The bus and what is on it.                                              *)

Fault(h) == h \in Harms /\ faults < MaxFaults /\ faults' = faults + 1

Arrive ==
    /\ Due /\ rxq' = rxq \o air.frames /\ air' = NoAnswer /\ heard' = 0
    /\ UNCHANGED <<taskVars, busVars, envVars, faults>>

\* An answer is lost, or its first frame.
Lose ==
    /\ Due /\ Fault("lost")
    /\ air' = IF Len(air.frames) = 1 THEN NoAnswer ELSE [air EXCEPT !.frames = Tail(@)]
    /\ UNCHANGED <<taskVars, busVars, rxq, envVars, heard>>

\* Another device asks a battery: a request, its data all 0.
Foreign ==
    /\ Fault("foreign") /\ Len(rxq) < 2
    /\ \E i \in DOMAIN Targets, j \in DOMAIN Variants, c \in {"soc", "cells"} :
          rxq' = Append(rxq, [mid |-> Targets[i], low |-> Variants[j].host, short |-> Variants[j].short,
                              cmd |-> c, val |-> 0, no |-> 0, mv |-> 0, n |-> 0,
                              range |-> <<0, 0>>])
    /\ UNCHANGED <<taskVars, busVars, air, envVars, heard>>

\* The battery answers another device.
AnswersOther ==
    /\ Fault("other") /\ Len(rxq) < 2
    /\ \E h \in battery.hosts, c \in {"soc", "cells"} : rxq' = rxq \o AnswerTo(c, h)
    /\ heard' = 0
    /\ UNCHANGED <<taskVars, busVars, air, envVars>>

BusOff ==
    /\ bus = "running" /\ Fault("busoff")
    /\ bus' = "off" /\ air' = NoAnswer
    /\ UNCHANGED <<taskVars, hold, rxq, envVars, heard>>

BusRecovered ==
    /\ bus = "recovering" /\ bus' = "stopped"
    /\ UNCHANGED <<taskVars, hold, rxq, air, envVars, heard, faults>>

Swap ==
    /\ swaps < MaxSwaps /\ swaps' = swaps + 1
    /\ gen' = gen + 1 /\ battery' \in Batteries /\ air' = NoAnswer
    /\ UNCHANGED <<taskVars, busVars, rxq, heard, faults>>

-----------------------------------------------------------------------------
Poll == PollRuns \/ PollIsOff \/ Ask \/ AskFails \/ WaitFrame \/ WaitEnds

Task == Poll \/ SniffFrame \/ SniffEnds \/ RoundEnds

Next == Task \/ Restart \/ Arrive \/ Lose \/ Foreign \/ AnswersOther \/ BusOff \/ BusRecovered \/ Swap

\* The task runs, what is sent arrives, and the controller recovers.
Spec == Init /\ [][Next]_vars /\ WF_vars(Task) /\ WF_vars(Arrive) /\ WF_vars(BusRecovered)

-----------------------------------------------------------------------------
(* Properties.                                                             *)

\* The form that is kept is one that a battery answers, if answers come in time:
\* not the one before, whose answer is still in the queue when the next is asked.
LearnedIsAnswered ==
    (swaps = 0 /\ learned # {}) =>
        \A v \in learned : v.host \in battery.hosts /\ (v.short => battery.short)

\* The extremes that are published are those of the cells next to them.
ExtremesAreOfCells ==
    LET read == {out.cells[i] : i \in DOMAIN out.cells} \ {0}
    IN read # {} => out.range = {<<Lowest(read), Highest(read)>>}

\* What is shown is never older than the window and a round, unless the controller was
\* off and kept what it had received; how long a round may be depends on whether the
\* battery was found.
SilentIsCleared ==
    out.have => heard <= Stale + (IF learned # {} THEN Len(RunCmds) + 3 ELSE LongRound + 1)

\* Whatever was lost and however often the controller went off, the battery that is
\* on the bus in the end is found, and its values are shown: what must be so then.
Found ==
    /\ out.have /\ out.soc = {gen}
    /\ \A i \in 1..Clamped(battery.n) : i \in DOMAIN out.cells /\ out.cells[i] = Mv(i)
=============================================================================
