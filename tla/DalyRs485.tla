------------------------------- MODULE DalyRs485 -------------------------------
(***************************************************************************)
(* The Daly source on RS485.  Every round it asks for one large block of   *)
(* registers, at two addresses, and if that fails for the commands of the  *)
(* classic protocol one by one, each at two addresses.  A tick is the time *)
(* that a classic answer is waited for.  The registers of a Modbus answer  *)
(* are modelled by what is found in them.                                  *)
(***************************************************************************)
EXTENDS DalySnapshot, Sequences

CONSTANTS
    InitCmds, RunCmds,   \* initCmds, runCmds
    ModbusAddrs,         \* 0x81 and 0xD2
    ClassicAddrs,        \* 0x40 and 0x80
    Stale,               \* DALY_RS485_SOURCE_STALE_MS
    Timeout, Idle,       \* DALY_MODBUS_RESPONSE_TIMEOUT_MS, DALY_MODBUS_INTER_BYTE_TIMEOUT_MS
    MinCells,            \* so many registers must look like cells
    Batteries,           \* what may be on the line: [modbus, classic, n]
    Harms,               \* what may happen to an answer
    Odd,                 \* a value that nobody sent
    MaxFaults,           \* bound: harmed answers, failed writes
    MaxSwaps             \* bound: exchanged batteries, restarts

Rs485Assumption ==
    /\ InitCmds \in Seq(Cmds) /\ RunCmds \in Seq(Cmds) /\ InitCmds # <<>> /\ RunCmds # <<>>
    /\ ModbusAddrs \in Seq(STRING) /\ ClassicAddrs \in Seq(STRING)
    /\ ModbusAddrs # <<>> /\ ClassicAddrs # <<>>
    /\ {Stale, Timeout, Idle, MinCells, Odd, MaxFaults, MaxSwaps} \subseteq Nat
    /\ 0 < Idle /\ Idle <= Timeout
    /\ Batteries \subseteq [modbus : SUBSET STRING, classic : SUBSET STRING, n : Nat]
    /\ Harms \subseteq {"lost", "noise", "damaged", "cut", "short", "blank", "babble", "write"}

VARIABLES
    pc,       \* "ask", "wait" or "round"
    plan,     \* the requests that may still be made in this round: [kind, cmd, addr]
    any,      \* matchedThisRound
    matched,  \* answers to this request, and
    expected, \*   how many are waited for
    left,     \* time to the deadline of this request, and
    hard,     \*   to the one that bytes cannot put off
    partial,  \* a Modbus answer that was not accepted and is still in rxBuf, if any
    snap, frame, out,
    air, battery, gen, heard,
    faults, swaps

winVars  == <<matched, expected, left, hard, partial>>
dataVars == <<snap, frame, out>>
envVars  == <<battery, gen, swaps>>
vars     == <<pc, plan, any, winVars, dataVars, air, envVars, heard, faults>>

LongRound == 2 * Timeout * Len(ModbusAddrs) + Len(RunCmds) * Len(ClassicAddrs) + 1
MaxAge    == Stale + 2 * LongRound
Grown(a)  == IF a >= MaxAge THEN MaxAge ELSE a + 1
NoAnswer  == [state |-> "none"]

TypeOK ==
    /\ pc \in {"ask", "wait", "round"} /\ (pc # "round" => plan # <<>>)
    /\ any \in BOOLEAN /\ matched \in 0..MaxCells /\ expected \in 0..MaxCells
    /\ left \in 0..Timeout /\ hard \in 0..(2 * Timeout) /\ left <= hard
    /\ Cardinality(partial) <= 1 /\ IsSnapshot(snap) /\ (out.have => snap.valid)
    /\ {frame, heard} \subseteq 0..MaxAge
    /\ faults \in 0..MaxFaults /\ swaps \in 0..MaxSwaps /\ gen \in 1..(MaxSwaps + 1)

-----------------------------------------------------------------------------
(* What is asked for.  Of the requests of one group only as many are made  *)
(* as are needed: the next group begins when one was answered.             *)

\* Each command at each address in turn.
Classic(cmds) ==
    [i \in 1..(Len(cmds) * Len(ClassicAddrs)) |->
        [kind |-> "classic", cmd |-> cmds[((i - 1) \div Len(ClassicAddrs)) + 1],
         addr |-> ClassicAddrs[((i - 1) % Len(ClassicAddrs)) + 1]]]

Modbus == [j \in DOMAIN ModbusAddrs |-> [kind |-> "modbus", cmd |-> "block", addr |-> ModbusAddrs[j]]]

Round == Modbus \o Classic(RunCmds)

Init ==
    /\ pc = "ask" /\ plan = Classic(InitCmds) /\ any = FALSE
    /\ matched = 0 /\ expected = 0 /\ left = 0 /\ hard = 0 /\ partial = {}
    /\ snap = NoSnapshot /\ frame = MaxAge /\ out = Nothing
    /\ air = NoAnswer /\ battery \in Batteries /\ gen = 1
    /\ heard = MaxAge /\ faults = 0 /\ swaps = 0

Same(r, q) == r.kind = q.kind /\ r.cmd = q.cmd

\* What is left of the plan: a block that was read makes the classic commands needless.
\* The commands of the start have no block before them.
Remaining(answered) ==
    LET others == {i \in DOMAIN plan : ~Same(plan[i], Head(plan))}
    IN CASE ~answered -> Tail(plan)
         [] answered /\ (Head(plan).kind = "modbus" \/ others = {}) -> <<>>
         [] OTHER -> SubSeq(plan, Min(others), Len(plan))

Over(answered) ==
    /\ plan' = Remaining(answered)
    /\ pc' = IF plan' = <<>> THEN "round" ELSE "ask"
    /\ any' = (any \/ answered)
    /\ matched' = 0 /\ expected' = 0 /\ left' = 0 /\ hard' = 0 /\ partial' = {}

-----------------------------------------------------------------------------
(* dalyDecodeModbusRegisters.                                              *)

Mv(i) == 10 * gen + i

CellsOf(s, a) ==
    [s EXCEPT !.cells = [i \in 1..MaxCells |-> IF i \in DOMAIN a.mvs THEN a.mvs[i] ELSE @[i]],
              !.count = Clamped(a.n)]

Updates(s, a) == a.state # "blank" \/ s.temps

\* Cells, which only count if there are enough, with their extremes; a state of charge; temperatures,
\* whose registers come last.  Temperatures that were found before are enough for a
\* block to count.
DecodeBlock(s, a) ==
    LET c == CASE a.state = "blank" -> s
               [] a.state # "blank" /\ a.n < MinCells -> [CellsOf(s, a) EXCEPT !.count = s.count]
               [] OTHER -> LET d == CellsOf(s, a) IN Extremes(d, 1..d.count)
        o == IF a.state = "blank" THEN c ELSE [c EXCEPT !.soc = {a.val}]
        t == IF a.state \in {"blank", "cut"} THEN o ELSE [o EXCEPT !.temps = TRUE]
    IN IF ~Updates(s, a) THEN s
       ELSE [t EXCEPT !.valid = TRUE]

TakeBlock(a) ==
    /\ snap' = DecodeBlock(snap, a)
    /\ frame' = IF Updates(snap, a) THEN 0 ELSE frame
    /\ UNCHANGED out

-----------------------------------------------------------------------------
(* One request: dalyPollCommand and dalyPollModbusRead.                    *)

AnswerTo(r) ==
    IF r.kind = "modbus"
    THEN [state |-> "whole", kind |-> "modbus", n |-> battery.n, val |-> gen,
          mvs |-> [i \in 1..Clamped(battery.n) |-> Mv(i)]]
    ELSE [state |-> "whole", kind |-> "classic",
          frames |-> [i \in 1..(IF r.cmd = "cells" THEN battery.n ELSE 1) |->
                        [cmd |-> r.cmd, val |-> gen, no |-> i, mv |-> Mv(i), n |-> battery.n,
                         range |-> <<Mv(1), Mv(battery.n)>>]]]

Understood(r) == r.addr \in (IF r.kind = "modbus" THEN battery.modbus ELSE battery.classic)

\* What was received before is flushed.
Ask ==
    /\ pc = "ask" /\ pc' = "wait"
    /\ LET time == IF Head(plan).kind = "modbus" THEN Timeout ELSE 1
       IN left' = time /\ hard' = IF Head(plan).kind = "modbus" THEN 2 * Timeout ELSE 1
    /\ matched' = 0 /\ expected' = FrameCount(snap, Head(plan).cmd) /\ partial' = {}
    /\ air' = IF Understood(Head(plan)) THEN AnswerTo(Head(plan)) ELSE NoAnswer
    /\ UNCHANGED <<plan, any, dataVars, envVars, heard, faults>>

WriteFails ==
    /\ pc = "ask" /\ "write" \in Harms
    /\ faults < MaxFaults /\ faults' = faults + 1
    /\ Over(FALSE)
    /\ UNCHANGED <<dataVars, air, envVars, heard>>

Coming == pc = "wait" /\ air # NoAnswer

\* A block whose checksum is right ends the request, whether or not anything could
\* be read from it.  Any other puts the deadline off, or nearer.
ReadBlock ==
    /\ Coming /\ air.kind = "modbus" /\ air' = NoAnswer /\ heard' = 0
    /\ IF air.state \in {"whole", "blank"}
       THEN TakeBlock(air) /\ Over(TRUE)
       ELSE /\ left' = Min({Idle, hard}) /\ partial' = {air}
            /\ UNCHANGED <<pc, plan, any, matched, expected, hard, dataVars>>
    /\ UNCHANGED <<envVars, faults>>

\* dalyParserFeed: a byte in front that looks like a start is taken for one, and the
\* search for the next goes on behind it, where none is found in time.
Parsed(a) == IF a.state = "whole" THEN a.frames ELSE <<>>

\* Every frame is decoded for what it is, whatever was asked for.
Decoded(s, got) ==
    LET upTo[i \in 0..Len(got)] == IF i = 0 THEN s ELSE Decode(upTo[i - 1], got[i])
    IN upTo[Len(got)]

ReadClassic ==
    /\ Coming /\ air.kind = "classic" /\ air' = NoAnswer /\ heard' = 0
    /\ LET got == Parsed(air) IN
          /\ snap' = Decoded(snap, got)
          /\ frame' = IF got = <<>> THEN frame ELSE 0
          /\ matched' = Min({MaxCells, matched + Len(got)})
    /\ UNCHANGED <<pc, plan, any, expected, left, hard, partial, out, envVars, faults>>

\* As many as were expected, and silence.
Enough ==
    /\ pc = "wait" /\ matched > 0 /\ matched >= expected
    /\ Over(TRUE)
    /\ UNCHANGED <<dataVars, air, envVars, heard, faults>>

Tick ==
    /\ air = NoAnswer
    /\ heard' = Grown(heard)

Waits ==
    /\ pc = "wait" /\ left > 1 /\ Tick
    /\ left' = left - 1 /\ hard' = hard - 1
    /\ frame' = Grown(frame)
    /\ UNCHANGED <<pc, plan, any, matched, expected, partial, snap, out, air, envVars, faults>>

\* dalyTryDecodePartialModbusFrame: at the end the checksum does not matter, if the
\* registers reach to the state of charge.
Partial(a) == a.state \in {"damaged", "cut"}

WaitEnds ==
    /\ pc = "wait" /\ left = 1 /\ Tick
    /\ IF \E a \in partial : Partial(a)
       THEN TakeBlock(CHOOSE a \in partial : TRUE) /\ Over(TRUE)
       ELSE /\ frame' = Grown(frame)
            /\ Over(matched > 0) /\ UNCHANGED <<snap, out>>
    /\ UNCHANGED <<air, envVars, faults>>

-----------------------------------------------------------------------------
(* dalyTask.                                                               *)

TooOld(a) == a > Stale

RoundEnds ==
    /\ pc = "round" /\ Tick
    /\ frame' = Grown(frame)
    /\ out' = CASE TooOld(frame') -> Nothing
                [] ~TooOld(frame') /\ HasContent(snap) -> Packet(snap)
                [] OTHER -> out
    /\ plan' = Round /\ pc' = "ask" /\ any' = FALSE
    /\ UNCHANGED <<winVars, snap, air, envVars, faults>>

Cleared == snap' = NoSnapshot /\ frame' = MaxAge /\ out' = Nothing

\* dalyRs485BmsTaskStop and dalyRs485BmsTaskStartConfigured.
Restart ==
    /\ swaps < MaxSwaps /\ swaps' = swaps + 1
    /\ pc' = "ask" /\ plan' = Classic(InitCmds) /\ any' = FALSE
    /\ matched' = 0 /\ expected' = 0 /\ left' = 0 /\ hard' = 0 /\ partial' = {}
    /\ Cleared /\ air' = NoAnswer
    /\ UNCHANGED <<battery, gen, heard, faults>>

-----------------------------------------------------------------------------
(* The battery and the line.                                               *)

Harm(h) == Coming /\ h \in Harms /\ faults < MaxFaults /\ faults' = faults + 1

Lose ==
    /\ Harm("lost") /\ air' = NoAnswer
    /\ UNCHANGED <<pc, plan, any, winVars, dataVars, envVars, heard>>

\* In a block: a wrong bit, an answer cut off behind the state of charge or before
\* it, or registers that say nothing.  Before classic frames: noise.
Spoil(kind, h) ==
    /\ Harm(h) /\ air.kind = kind /\ air.state = "whole"
    /\ air' = IF h = "damaged" THEN [air EXCEPT !.state = h, !.val = Odd] ELSE [air EXCEPT !.state = h]
    /\ UNCHANGED <<pc, plan, any, winVars, dataVars, envVars, heard>>

SpoilBlock   == \E h \in {"damaged", "cut", "short", "blank"} : Spoil("modbus", h)
SpoilClassic == Spoil("classic", "noise")

\* Bytes of no meaning, as long as they like, while a block is waited for.
Babble ==
    /\ pc = "wait" /\ "babble" \in Harms /\ Head(plan).kind = "modbus"
    /\ left' = Min({Idle, hard})
    /\ UNCHANGED <<pc, plan, any, matched, expected, hard, partial, dataVars, air, envVars, heard, faults>>

Swap ==
    /\ swaps < MaxSwaps /\ swaps' = swaps + 1
    /\ gen' = gen + 1 /\ battery' \in Batteries /\ air' = NoAnswer
    /\ UNCHANGED <<pc, plan, any, winVars, dataVars, heard, faults>>

-----------------------------------------------------------------------------
Read == ReadBlock \/ ReadClassic

Wait == Enough \/ Waits \/ WaitEnds

Harmed == Lose \/ SpoilBlock \/ SpoilClassic \/ Babble

Next == Ask \/ WriteFails \/ Read \/ Wait \/ RoundEnds \/ Restart \/ Harmed \/ Swap

\* Time passes, and what is sent arrives.
Spec ==
    Init /\ [][Next]_vars /\ WF_vars(Ask) /\ WF_vars(Read) /\ WF_vars(Wait) /\ WF_vars(RoundEnds)

-----------------------------------------------------------------------------
(* Properties.                                                             *)

\* The cells, their extremes and the state of charge that a battery gave in one block
\* are shown together: nothing is left of a battery with more cells.
BlockIsShownWhole ==
    (out.have /\ \A b \in Batteries : b.classic = {}) =>
        \A g \in out.soc : /\ \A i \in DOMAIN out.cells : out.cells[i] = 10 * g + i
                           /\ \A r \in out.range : r = <<10 * g + 1, 10 * g + Len(out.cells)>>

\* A battery that is silent is not shown for longer than the window and a round, and the time that bytes
\* can put off the end of a request: a block that is not whole is only taken then.
SilentIsCleared == out.have => heard <= Stale + LongRound + 2 * Timeout

\* Whatever was lost, a battery that speaks either protocol, at either address, is
\* found in the end, and its values are shown: what must be so then.
Found ==
    /\ out.have /\ out.soc = {gen}
    /\ Clamped(battery.n) >= MinCells \/ battery.modbus = {} =>
         \A i \in 1..Clamped(battery.n) : i \in DOMAIN out.cells /\ out.cells[i] = Mv(i)
=============================================================================
