------------------------------ MODULE PylonProbe ------------------------------
(***************************************************************************)
(* The Pylon RS485 bridge as the poller of a Pylon battery, for an         *)
(* inverter on CAN or Modbus: pylonProbeTask asks one command after the    *)
(* other, at every address until one answers and then at that one; the     *)
(* receiving task takes answers for those to the pending request, counts   *)
(* the requests nothing answered, and drops everything when the battery    *)
(* was silent for too long.  Ages are counted in ticks of 400 ms.          *)
(***************************************************************************)
EXTENDS Naturals, Sequences

CONSTANTS
    Addresses,     \* the addresses that are tried, in order
    CidSeq,        \* the commands that are sent, in order
    Variants,      \* how many payloads are tried for an 0x42
    Adrs,          \* where a battery may be
    Known,         \* the commands batteries answer; others they reject or ignore
    Rejects,       \* whether they reject them: a set of possible choices
    Period, Wait, Quiet, Timeout, Stale, Retry,   \* in ticks
    MaxTimeouts,   \* unanswered requests after which an address is given up: 6
    MaxFaults,     \* bound: lost answers and unlucky interleavings
    MaxSwaps       \* bound: how often the battery is exchanged

\* What s_probePreferredAdr holds before it holds an address, and an address
\* that is tried.
NoAdr == 0

SeqAssumption ==
    /\ Addresses \in Seq(Adrs) /\ Addresses # <<>>
    /\ CidSeq \in Seq({"42", "61", "62", "63"}) /\ CidSeq # <<>>
    /\ Known \subseteq {"42", "61", "62", "63"} /\ Rejects \subseteq BOOLEAN
    /\ Adrs \subseteq Nat

NumberAssumption ==
    /\ {Period, Wait, Quiet, Timeout, Stale, Retry, MaxTimeouts, Variants} \subseteq Nat \ {0}
    /\ {MaxFaults, MaxSwaps} \subseteq Nat /\ Wait <= Period

Cids  == {"42", "61", "62", "63"}
Frame == [adr : Adrs, cid : Cids, code : {"ask", "ok", "rejected"}]
NoFrame == [adr |-> NoAdr, cid |-> "61", code |-> "none"]

Ages == 0..(Stale + 1)

VARIABLES
    pc, sleep,            \* pylonProbeTask: where it is, ticks it sleeps
    cidIdx, addrIdx,      \* its indexes
    cellAddrIdx, variant, \* those of the search for 0x42
    retry,                \* ticks until that search begins anew
    ask, discover, count, \* the request in hand; whether it is part of the search,
                          \* and over how many addresses that goes
    pend,                 \* s_probePending
    preferred, timeouts,  \* s_probePreferredAdr, s_probePreferredAdrTimeouts
    silence,              \* age of s_lastPylonBmsTrafficUs; Stale + 1 stands for longer and never
    valid,                \* the commands the cache holds an answer to
    modelValid, modelAge, \* g_batteryModel and the age of its stamp
    packAge,              \* the age of the 0x61 answer that is in the summary
    line,                 \* the frame on the wire
    battery, faults, swaps

probeVars == <<pc, sleep, cidIdx, addrIdx, cellAddrIdx, variant, retry, ask, discover, count>>
dataVars  == <<valid, modelValid, modelAge, packAge>>
prefVars  == <<preferred, timeouts>>
envVars   == <<battery, faults, swaps>>
vars == <<probeVars, pend, prefVars, silence, dataVars, line, envVars>>

TypeOK ==
    /\ pc \in {"choose", "adr", "send", "next"} /\ sleep \in 0..Period
    /\ cidIdx \in DOMAIN CidSeq /\ addrIdx \in DOMAIN Addresses
    /\ cellAddrIdx \in 1..(Len(Addresses) + 1) /\ variant \in 1..Variants
    /\ retry \in 0..Retry
    /\ ask \in Frame \cup {NoFrame} /\ discover \in BOOLEAN
    /\ count \in {Len(Addresses), Len(Addresses) + 1}
    /\ pend \in [active : BOOLEAN, adr : Adrs \cup {NoAdr}, cid : Cids, due : 0..Timeout]
    /\ preferred \in Adrs \cup {NoAdr} /\ timeouts \in 0..MaxTimeouts
    /\ silence \in Ages
    /\ valid \subseteq Cids
    /\ modelValid \in BOOLEAN /\ modelAge \in Ages /\ packAge \in Ages
    /\ line \in Frame \cup {NoFrame}
    /\ battery \in Adrs
    /\ faults \in 0..MaxFaults /\ swaps \in 0..MaxSwaps

NoPending == [active |-> FALSE, adr |-> NoAdr, cid |-> "61", due |-> 0]

Init ==
    /\ pc = "choose" /\ sleep = 0
    /\ cidIdx = 1 /\ addrIdx = 1 /\ cellAddrIdx = 1 /\ variant = 1 /\ retry = 0
    /\ ask = NoFrame /\ discover = FALSE /\ count = Len(Addresses)
    /\ pend = NoPending
    /\ preferred = NoAdr /\ timeouts = 0
    /\ silence = Stale + 1
    /\ valid = {} /\ modelValid = FALSE /\ modelAge = 0 /\ packAge = 0
    /\ line = NoFrame
    /\ battery \in Adrs /\ faults = 0 /\ swaps = 0

Fault == faults < MaxFaults /\ faults' = faults + 1

-----------------------------------------------------------------------------
(* pylonProbeTask.                                                         *)

Cycle(i, n) == (i % n) + 1

Cid == CidSeq[cidIdx]

\* The search for 0x42 tries the preferred address first, then all of them.
CellCount == Len(Addresses) + (IF preferred # NoAdr THEN 1 ELSE 0)
CellIdx   == IF cellAddrIdx > CellCount THEN 1 ELSE cellAddrIdx
CellAdr   == IF preferred = NoAdr THEN Addresses[CellIdx]
             ELSE IF CellIdx = 1 THEN preferred ELSE Addresses[CellIdx - 1]

Searching == Cid = "42" /\ "42" \notin valid

NextAdr == IF Searching THEN CellAdr
           ELSE IF preferred # NoAdr THEN preferred ELSE Addresses[addrIdx]

Awake == pc = "choose" /\ sleep = 0

WaitForQuiet ==
    /\ Awake /\ silence < Quiet
    /\ sleep' = Wait
    /\ UNCHANGED <<pc, cidIdx, addrIdx, cellAddrIdx, variant, retry, ask, discover, count, pend, prefVars,
                   silence, dataVars, line, envVars>>

SkipSearch ==
    /\ Awake /\ silence >= Quiet
    /\ Searching /\ retry > 0
    /\ cidIdx' = Cycle(cidIdx, Len(CidSeq)) /\ sleep' = Period
    /\ cellAddrIdx' = CellIdx
    /\ UNCHANGED <<pc, addrIdx, variant, retry, ask, discover, count, pend, prefVars, silence,
                   dataVars, line, envVars>>

\* Of the pending request the active flag is written first ...
Choose ==
    /\ Awake /\ silence >= Quiet
    /\ ~(Searching /\ retry > 0)
    /\ ask' = [adr |-> NextAdr, cid |-> Cid, code |-> "ask"]
    /\ discover' = Searching /\ cellAddrIdx' = CellIdx /\ count' = CellCount
    /\ pend' = [pend EXCEPT !.active = TRUE]
    /\ pc' = "adr"
    /\ UNCHANGED <<sleep, cidIdx, addrIdx, variant, retry, prefVars, silence, dataVars, line, envVars>>

\* ... then the rest.
NotePending ==
    /\ pc = "adr"
    /\ pend' = [pend EXCEPT !.adr = ask.adr, !.cid = ask.cid, !.due = Timeout]
    /\ pc' = "send"
    /\ UNCHANGED <<sleep, cidIdx, addrIdx, cellAddrIdx, variant, retry, ask, discover, count, prefVars,
                   silence, dataVars, line, envVars>>

Send ==
    /\ pc = "send"
    /\ line' = ask
    /\ pc' = "next"
    /\ UNCHANGED <<sleep, cidIdx, addrIdx, cellAddrIdx, variant, retry, ask, discover, count, pend,
                   prefVars, silence, dataVars, envVars>>

NextVariant   == Cycle(variant, Variants)
NextCellAddr  == IF NextVariant = 1 THEN Cycle(cellAddrIdx, count) ELSE cellAddrIdx
SearchFailed  == NextVariant = 1 /\ NextCellAddr = 1 /\ "42" \notin valid

AdvanceSearch ==
    /\ pc = "next" /\ discover
    /\ variant' = NextVariant
    /\ cellAddrIdx' = NextCellAddr
    /\ retry' = IF SearchFailed THEN Retry ELSE retry
    /\ cidIdx' = Cycle(cidIdx, Len(CidSeq))
    /\ UNCHANGED addrIdx

\* Without a preferred address a command is sent to all of them in turn.
Advance ==
    /\ pc = "next" /\ ~discover
    /\ IF preferred # NoAdr
       THEN cidIdx' = Cycle(cidIdx, Len(CidSeq)) /\ UNCHANGED addrIdx
       ELSE /\ addrIdx' = Cycle(addrIdx, Len(Addresses))
            /\ cidIdx' = IF addrIdx' = 1 THEN Cycle(cidIdx, Len(CidSeq)) ELSE cidIdx
    /\ UNCHANGED <<variant, cellAddrIdx, retry>>

Rest ==
    /\ AdvanceSearch \/ Advance
    /\ pc' = "choose" /\ sleep' = Period
    /\ UNCHANGED <<ask, discover, count, pend, prefVars, silence, dataVars, line, envVars>>

-----------------------------------------------------------------------------
(* The receiving task.                                                     *)

\* An unanswered request counts against the address only if it was sent to it,
\* and 0x42 never does.
CountsTimeout == preferred # NoAdr /\ pend.adr = preferred /\ pend.cid # "42"

TimedOut(n) ==
    IF n >= MaxTimeouts THEN preferred' = NoAdr /\ timeouts' = 0
    ELSE timeouts' = n /\ UNCHANGED preferred

\* maybeCheckProbeTimeout.  Between Choose and NotePending it sees the new flag
\* and the old time.
CheckTimeout ==
    /\ pend.active /\ pend.due = 0
    /\ IF pc = "adr" THEN Fault ELSE UNCHANGED faults
    /\ IF CountsTimeout THEN TimedOut(timeouts + 1) ELSE UNCHANGED prefVars
    /\ pend' = [pend EXCEPT !.active = FALSE]
    /\ UNCHANGED <<probeVars, silence, dataVars, line, battery, swaps>>

HasData == modelValid \/ valid \ {"62"} # {}

\* maybeClearNativePylonCacheIfStale.
DropStale ==
    /\ silence > Stale /\ HasData
    /\ valid' = {"62"} /\ modelValid' = FALSE
    /\ pend' = NoPending
    /\ preferred' = NoAdr /\ timeouts' = 0
    /\ UNCHANGED <<probeVars, silence, modelAge, packAge, line, envVars>>

\* An answer to the pending request: the address must be right, except that
\* 0x42 may be rejected from any.
Expected ==
    /\ pend.active
    /\ line.adr = pend.adr \/ (pend.cid = "42" /\ line.code = "rejected")

\* telemetryFromSummary after cacheResponse: whatever was received, the model
\* of the whole summary is published with a new stamp.
Publish(cid) ==
    /\ valid' = valid \cup {cid}
    /\ packAge' = IF cid = "61" THEN 0 ELSE packAge
    /\ modelValid' = (modelValid \/ cid = "61")
    /\ modelAge' = IF cid # "62" /\ modelValid' THEN 0 ELSE modelAge

Remember(cid) ==
    IF cid # "42" THEN preferred' = line.adr /\ timeouts' = 0 ELSE UNCHANGED prefVars

Receive ==
    /\ line.code \in {"ok", "rejected"}
    /\ ~(silence > Stale /\ HasData) /\ ~(pend.active /\ pend.due = 0)
    /\ silence' = 0
    /\ line' = NoFrame
    /\ IF ~Expected THEN UNCHANGED <<pend, dataVars, prefVars>>
       ELSE /\ pend' = [pend EXCEPT !.active = FALSE]
            /\ IF line.code = "rejected" THEN UNCHANGED <<dataVars, prefVars>>
               ELSE Publish(pend.cid) /\ Remember(pend.cid)
    /\ UNCHANGED <<probeVars, envVars>>

-----------------------------------------------------------------------------
(* The battery and the clock.                                              *)

Here == line.code = "ask" /\ line.adr = battery

Reply ==
    /\ Here
    /\ \/ line.cid \in Known /\ line' = [line EXCEPT !.code = "ok"]
       \/ line.cid \notin Known /\ TRUE \in Rejects /\ line' = [line EXCEPT !.code = "rejected"]
       \/ line.cid \notin Known /\ FALSE \in Rejects /\ line' = NoFrame
    /\ UNCHANGED <<probeVars, pend, prefVars, silence, dataVars, envVars>>

Lose ==
    /\ Here /\ Fault
    /\ line' = NoFrame
    /\ UNCHANGED <<probeVars, pend, prefVars, silence, dataVars, battery, swaps>>

\* Nothing is at this address.
NoReply ==
    /\ line.code = "ask" /\ line.adr \in Adrs \ {battery}
    /\ line' = NoFrame
    /\ UNCHANGED <<probeVars, pend, prefVars, silence, dataVars, envVars>>

\* The battery is exchanged for one with another address.
Swap ==
    /\ swaps < MaxSwaps /\ swaps' = swaps + 1
    /\ battery' \in Adrs \ {battery}
    /\ UNCHANGED <<probeVars, pend, prefVars, silence, dataVars, line, faults>>

Older(age) == IF age > Stale THEN age ELSE age + 1
Less(n)    == IF n = 0 THEN 0 ELSE n - 1

\* Time passes when both tasks have done what is due.
Tick ==
    /\ sleep > 0 /\ line = NoFrame
    /\ ~(pend.active /\ pend.due = 0)
    /\ ~(silence > Stale /\ HasData)
    /\ sleep' = sleep - 1 /\ retry' = Less(retry)
    /\ pend' = [pend EXCEPT !.due = Less(@)]
    /\ silence' = Older(silence) /\ modelAge' = Older(modelAge) /\ packAge' = Older(packAge)
    /\ UNCHANGED <<pc, cidIdx, addrIdx, cellAddrIdx, variant, ask, discover, count, prefVars, valid,
                   modelValid, line, envVars>>

-----------------------------------------------------------------------------
ProbeStep   == WaitForQuiet \/ SkipSearch \/ Choose \/ NotePending \/ Send \/ Rest
ReceiveStep == CheckTimeout \/ DropStale \/ Receive
BatteryStep == Reply \/ NoReply

Next == ProbeStep \/ ReceiveStep \/ BatteryStep \/ Lose \/ Swap \/ Tick

\* Both tasks run (they are the only ones of their priority), lost answers and
\* exchanged batteries are bounded, the clock goes on.
Spec ==
    /\ Init /\ [][Next]_vars
    /\ WF_vars(ProbeStep) /\ WF_vars(ReceiveStep) /\ WF_vars(BatteryStep) /\ WF_vars(Tick)

-----------------------------------------------------------------------------
(* Properties.                                                             *)

\* Of a step: a battery is not forgotten for fewer lost answers than MaxTimeouts, not
\* because it does not know 0x42 either, nor for the search for its cells at other
\* addresses (maybeCheckProbeTimeout, cid2 != 0x42).
FoundIsKept ==
    (preferred = battery /\ battery # NoAdr /\ faults' < MaxTimeouts /\ swaps' = 0) => preferred' = battery

\* The rounds of the poller are short enough to keep a found battery alive: as
\* long as nothing is lost, and its address is not 0, the SOC is never older than
\* the freshness window (config.h:103, "keep the source alive between valid replies").
RoundsKeepSourceAlive ==
    (modelValid /\ battery # NoAdr /\ faults = 0 /\ swaps = 0) => packAge <= Stale

\* Of a step: a battery that was silent for the window is not shown and not sent any
\* more when time goes on (README.md:254).
SilentIsDropped == sleep' < sleep => ~(modelValid /\ silence > Stale)

\* Whatever battery is on the line in the end is found, at its address (README.md:246:
\* a swapped battery, stale traffic or repeated timeouts): what must be so then.
Found == preferred = battery /\ modelValid
=============================================================================
