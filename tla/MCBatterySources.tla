--------------------------- MODULE MCBatterySources ---------------------------
(***************************************************************************)
(* The ways in which the board reads a battery: six poll it on a line or a *)
(* bus of its own, one decodes the frames it sends unasked, and one reads  *)
(* the words in them.  Only one of them runs at a time (Orchestrator);     *)
(* which one, which battery and which harm it meets is chosen in the       *)
(* beginning: a behaviour of this module is one of a source, whose state   *)
(* is in the variables the source has, while the others are Off.           *)
(***************************************************************************)
EXTENDS Naturals, Sequences, FiniteSets

CONSTANT Sources   \* what may be chosen

VARIABLES
    source,
    d, idx, pubDue,                                           \* ModbusPoll
    pollCount, next, cand, polled, locked, inverted, asked, work, crossed,  \* SeplosPoll
    have, torn,                                               \* JkNative
    since, rx, model, packet, wire, answer, cut, cuts,        \* what several of them have
    cmd, learned, active, rxq, bus, hold,                     \* DalyCan
    any, left, hard, partial,                                 \* DalyRs485
    plan, matched, expected, snap, out, air,                  \* both of them
    sleep, cidIdx, addrIdx, cellAddrIdx, variant, retry,      \* PylonProbe
    ask, discover, count, pend, preferred, timeouts, silence,
    valid, modelValid, modelAge, packAge, line,
    protocol, bmsHere, cache, shown, copy, quiet, stopping, restarts,  \* CanDecoder
    pack, above, below, order,                                \* GrowattWords
    pc, frame, battery, swaps, gen, heard, faults             \* what several of them have

Off == 0

\* What only one source has, and what the two Daly sources share.
modbusVars == <<d, idx, pubDue>>
jkVars == <<have, torn>>
seplosVars == <<pollCount, next, cand, polled, locked, inverted, asked, work, crossed>>
dalyCanVars == <<cmd, learned, active, rxq, bus, hold>>
dalyLineVars == <<any, left, hard, partial>>
probeVars == <<sleep, cidIdx, addrIdx, cellAddrIdx, variant, retry, ask, discover, count, pend, preferred,
    timeouts, silence, valid, modelValid, modelAge, packAge, line>>
decoderVars == <<protocol, bmsHere, cache, shown, copy, quiet, stopping, restarts>>
wordsVars == <<pack, above, below, order>>
dalyVars == <<plan, matched, expected, snap, out, air>>

ModbusOff == d = Off /\ idx = Off /\ pubDue = Off
SeplosOff ==
    /\ pollCount = Off /\ next = Off /\ cand = Off /\ polled = Off /\ locked = Off /\ inverted = Off
    /\ asked = Off /\ work = Off /\ crossed = Off
JkOff == have = Off /\ torn = Off
DalyCanOff == cmd = Off /\ learned = Off /\ active = Off /\ rxq = Off /\ bus = Off /\ hold = Off
DalyLineOff == any = Off /\ left = Off /\ hard = Off /\ partial = Off
ProbeOff ==
    /\ sleep = Off /\ cidIdx = Off /\ addrIdx = Off /\ cellAddrIdx = Off /\ variant = Off /\ retry = Off
    /\ ask = Off /\ discover = Off /\ count = Off /\ pend = Off /\ preferred = Off /\ timeouts = Off
    /\ silence = Off /\ valid = Off /\ modelValid = Off /\ modelAge = Off /\ packAge = Off /\ line = Off
DecoderOff ==
    /\ protocol = Off /\ bmsHere = Off /\ cache = Off /\ shown = Off /\ copy = Off /\ quiet = Off
    /\ stopping = Off /\ restarts = Off
WordsOff == pack = Off /\ above = Off /\ below = Off /\ order = Off
DalyOff == plan = Off /\ matched = Off /\ expected = Off /\ snap = Off /\ out = Off /\ air = Off

-----------------------------------------------------------------------------
(* Modbus.                                                                 *)

Reads(s, n, kind, first) == [start |-> s, count |-> n, kind |-> kind, first |-> first]

\* Two blocks of the same length and one of another, as a JK BMS has them.
JkBlocks == <<Reads(1, 2, "resp", "device"), Reads(3, 2, "resp", "device"), Reads(5, 1, "resp", "device")>>

\* Single registers with answers that have a long length, and one that gives the
\* function first, as a Voltronic has them.
VoltronicBlocks ==
    <<Reads(1, 1, "wide", "device"), Reads(2, 1, "word", "function"), Reads(3, 1, "wide", "device")>>

\* Blocks of different lengths, one of them a status block.
MixedBlocks == <<Reads(1, 1, "resp", "device"), Reads(2, 3, "resp", "device"), Reads(5, 2, "resp", "device")>>

Unharmful == {"lost", "split", "refused", "noise"}

\* Answers that come before the next request.
Prompt == INSTANCE ModbusPoll WITH
    Blocks <- JkBlocks, BufMax <- 6, Threshold <- 4, ReqMaxAge <- 12, Gap <- 0, StatusStart <- 90,
    StatusBlocks <- {}, Period <- 3, Delays <- {0, 1}, Echo <- FALSE, Harms <- Unharmful, MaxFaults <- 2,
    ReqSize <- 2, ExcSize <- 1, HeadSize <- 1, QueueLen <- 8, CacheMax <- 5, LastReqMaxAge <- 6, DupAge <- 2,
    Device <- 1, PublishPeriod <- 3, Stale <- 18, ClearsPacket <- TRUE, MaxCuts <- 1

\* A transceiver that loops back what is sent.
Echoing == INSTANCE ModbusPoll WITH
    Blocks <- VoltronicBlocks, BufMax <- 5, Threshold <- 3, ReqMaxAge <- 10, Gap <- 1, StatusStart <- 90,
    StatusBlocks <- {}, Period <- 4, Delays <- {0, 1}, Echo <- TRUE, Harms <- Unharmful, MaxFaults <- 1,
    ReqSize <- 2, ExcSize <- 1, HeadSize <- 1, QueueLen <- 8, CacheMax <- 5, LastReqMaxAge <- 6, DupAge <- 2,
    Device <- 1, PublishPeriod <- 3, Stale <- 18, ClearsPacket <- TRUE, MaxCuts <- 1

\* Answers that come after the next request, told apart by their length.
Late == INSTANCE ModbusPoll WITH
    Blocks <- MixedBlocks, BufMax <- 5, Threshold <- 4, ReqMaxAge <- 12, Gap <- 0, StatusStart <- 2,
    StatusBlocks <- {2}, Period <- 3, Delays <- {1, 4}, Echo <- FALSE, Harms <- {"lost", "split"}, MaxFaults <- 1,
    ReqSize <- 2, ExcSize <- 1, HeadSize <- 1, QueueLen <- 8, CacheMax <- 5, LastReqMaxAge <- 6, DupAge <- 2,
    Device <- 1, PublishPeriod <- 3, Stale <- 18, ClearsPacket <- TRUE, MaxCuts <- 1

\* Damaged answers, too.
Harmed == INSTANCE ModbusPoll WITH
    Blocks <- JkBlocks, BufMax <- 6, Threshold <- 4, ReqMaxAge <- 12, Gap <- 0, StatusStart <- 90,
    StatusBlocks <- {}, Period <- 3, Delays <- {0, 1}, Echo <- FALSE, Harms <- Unharmful \cup {"damaged"},
    MaxFaults <- 1,
    ReqSize <- 2, ExcSize <- 1, HeadSize <- 1, QueueLen <- 8, CacheMax <- 5, LastReqMaxAge <- 6, DupAge <- 2,
    Device <- 1, PublishPeriod <- 3, Stale <- 18, ClearsPacket <- TRUE, MaxCuts <- 1

NotModbus ==
    <<source, seplosVars, jkVars, dalyCanVars, dalyLineVars, probeVars, decoderVars, wordsVars, rx, pc,
      dalyVars, frame, battery, swaps>>

InitModbus ==
    /\ SeplosOff /\ JkOff /\ DalyCanOff /\ DalyLineOff /\ ProbeOff /\ DecoderOff /\ WordsOff
    /\ rx = Off /\ pc = Off /\ DalyOff /\ frame = Off /\ battery = Off /\ swaps = Off
    /\ \/ source = "prompt" /\ Prompt!Init
       \/ source = "echoing" /\ Echoing!Init
       \/ source = "late" /\ Late!Init
       \/ source = "harmed" /\ Harmed!Init

ModbusStep ==
    /\ \/ source = "prompt" /\ Prompt!Next
       \/ source = "echoing" /\ Echoing!Next
       \/ source = "late" /\ Late!Next
       \/ source = "harmed" /\ Harmed!Next
    /\ UNCHANGED NotModbus

-----------------------------------------------------------------------------
(* Seplos.  Both protocols, as they are and inverted, in the order of the  *)
(* table.                                                                  *)

Speaks(kind, dialect, inv) == [kind |-> kind, dialect |-> dialect, inv |-> inv]

Table == <<Speaks("ascii", "v20", FALSE), Speaks("ascii", "v20", TRUE),
           Speaks("rtu", "v3", FALSE), Speaks("rtu", "v3", TRUE)>>

SeplosBatteries == {[speaks |-> {"v20"}, refuses |-> {}, inv |-> FALSE],
                    [speaks |-> {"v3"}, refuses |-> {}, inv |-> TRUE]}
PlainV3 == [speaks |-> {"v3"}, refuses |-> {}, inv |-> FALSE]

\* Room for two frames and the begin of one.
Seplos == INSTANCE SeplosPoll WITH
    Candidates <- Table, CandidatePeriod <- 2, Period <- 2, Stale <- 8, BufMax <- 9, Delays <- {0, 1},
    Batteries <- SeplosBatteries \cup {PlainV3}, Harms <- {"lost", "split", "damaged", "noise"}, MaxFaults <- 2,
    MaxSwaps <- 2

\* A battery that refuses the first protocol.
PickySeplos == INSTANCE SeplosPoll WITH
    Candidates <- Table, CandidatePeriod <- 2, Period <- 2, Stale <- 8, BufMax <- 4, Delays <- {0, 1},
    Batteries <- {[speaks |-> {"v3"}, refuses |-> {"v20"}, inv |-> FALSE]},
    Harms <- {"lost", "split", "damaged", "noise"}, MaxFaults <- 1, MaxSwaps <- 0

\* Little goes wrong.
CalmSeplos == INSTANCE SeplosPoll WITH
    Candidates <- Table, CandidatePeriod <- 2, Period <- 2, Stale <- 8, BufMax <- 4, Delays <- {0, 1},
    Batteries <- SeplosBatteries, Harms <- {"lost", "split"}, MaxFaults <- 1, MaxSwaps <- 1

NotSeplos ==
    <<source, modbusVars, jkVars, dalyCanVars, dalyLineVars, probeVars, decoderVars, wordsVars, cut, cuts,
      pc, dalyVars, frame>>

InitSeplos ==
    /\ ModbusOff /\ JkOff /\ DalyCanOff /\ DalyLineOff /\ ProbeOff /\ DecoderOff /\ WordsOff
    /\ cut = Off /\ cuts = Off /\ pc = Off /\ DalyOff /\ frame = Off
    /\ \/ source = "seplos" /\ Seplos!Init
       \/ source = "calmSeplos" /\ CalmSeplos!Init
       \/ source = "pickySeplos" /\ PickySeplos!Init

SeplosStep ==
    /\ \/ source = "seplos" /\ Seplos!Next
       \/ source = "calmSeplos" /\ CalmSeplos!Next
       \/ source = "pickySeplos" /\ PickySeplos!Next
    /\ UNCHANGED NotSeplos

-----------------------------------------------------------------------------
(* The native protocol of JK.                                              *)

Fields3 == <<"cells", "volt", "soc">>

Jk == INSTANCE JkNative WITH
    Fields <- Fields3, Optional <- {}, Period <- 2, Stale <- 16, BufMax <- 12, Delays <- {0, 1},
    Harms <- {"lost", "split", "length", "entry", "truncated"}, Odd <- 99, MaxFaults <- 2, MaxCuts <- 1

\* No byte is wrong; one entry may be left out by the battery.  With four of them a
\* part of one answer and the next one could be read as a frame of two answers.
CalmJk == INSTANCE JkNative WITH
    Fields <- <<"cells", "volt", "temp", "soc">>, Optional <- {"soc"}, Period <- 2, Stale <- 16, BufMax <- 12, Delays <- {0, 1},
    Harms <- {"lost", "split"}, Odd <- 99, MaxFaults <- 3, MaxCuts <- 1

NotJk ==
    <<source, modbusVars, seplosVars, dalyCanVars, dalyLineVars, probeVars, decoderVars, wordsVars,
      packet, pc, dalyVars, battery, swaps>>

InitJk ==
    /\ ModbusOff /\ SeplosOff /\ DalyCanOff /\ DalyLineOff /\ ProbeOff /\ DecoderOff /\ WordsOff
    /\ packet = Off /\ pc = Off /\ DalyOff /\ battery = Off /\ swaps = Off
    /\ \/ source = "jk" /\ Jk!Init
       \/ source = "calmJk" /\ CalmJk!Init

JkStep ==
    /\ \/ source = "jk" /\ Jk!Next
       \/ source = "calmJk" /\ CalmJk!Next
    /\ UNCHANGED NotJk

-----------------------------------------------------------------------------
(* Daly.  MaxCells 2 is less than some batteries have.                     *)

Form(host) == [host |-> host, short |-> FALSE]
AllHosts   == {"40", "80", "20", "24", "92", "21", "00"}

OnCan(id, h, direct, n) ==
    [id |-> id, hosts |-> h, short |-> FALSE, direct |-> direct, n |-> n]

\* Batteries that are alike; at another address, or answering another host; and none.
Alike     == {OnCan("01", {"40"}, FALSE, 3), OnCan("01", {"40"}, TRUE, 1)}
Different == Alike \cup {OnCan("01", {"40"}, FALSE, 1), OnCan("21", {"40"}, FALSE, 3),
                         OnCan("01", {"92"}, TRUE, 1), OnCan("01", {}, FALSE, 1)}

DalyOnCan == INSTANCE DalyCan WITH
    InitCmds <- <<"rated">>, RunCmds <- <<"soc", "status", "cells">>, Targets <- <<"01", "21">>,
    Variants <- <<Form("40"), Form("92")>>, Hosts <- AllHosts, Master <- "80", MaxCells <- 2, FirstNo <- 0,
    Stale <- 6, Hold <- 1, Batteries <- Different, Harms <- {"lost", "txfail"}, MaxFaults <- 2, MaxSwaps <- 1

\* Other devices on the bus, a controller that goes off, answers that are late.
BusyCan == INSTANCE DalyCan WITH
    InitCmds <- <<"rated">>, RunCmds <- <<"soc", "status", "cells">>, Targets <- <<"01", "21">>,
    Variants <- <<Form("40"), [host |-> "40", short |-> TRUE]>>, Hosts <- AllHosts, Master <- "80", MaxCells <- 2, FirstNo <- 0,
    Stale <- 6, Hold <- 1, Batteries <- Alike,
    Harms <- {"lost", "busoff", "txfail", "foreign", "late", "other"}, MaxFaults <- 1, MaxSwaps <- 1

\* A controller that goes off.
OffCan == INSTANCE DalyCan WITH
    InitCmds <- <<"rated">>, RunCmds <- <<"soc", "cells">>, Targets <- <<"01", "21">>,
    Variants <- <<Form("40"), Form("92")>>, Hosts <- AllHosts, Master <- "80", MaxCells <- 2, FirstNo <- 0,
    Stale <- 6, Hold <- 1, Batteries <- Alike, Harms <- {"busoff", "txfail"}, MaxFaults <- 1, MaxSwaps <- 1

NotDalyCan ==
    <<source, modbusVars, seplosVars, jkVars, dalyLineVars, probeVars, decoderVars, wordsVars, since, rx,
      model, packet, wire, answer, cut, cuts>>

InitDalyCan ==
    /\ ModbusOff /\ SeplosOff /\ JkOff /\ DalyLineOff /\ ProbeOff /\ DecoderOff /\ WordsOff
    /\ since = Off /\ rx = Off /\ model = Off /\ packet = Off /\ wire = Off /\ answer = Off /\ cut = Off
    /\ cuts = Off
    /\ \/ source = "dalyCan" /\ DalyOnCan!Init
       \/ source = "busyCan" /\ BusyCan!Init
       \/ source = "offCan" /\ OffCan!Init

DalyCanStep ==
    /\ \/ source = "dalyCan" /\ DalyOnCan!Next
       \/ source = "busyCan" /\ BusyCan!Next
       \/ source = "offCan" /\ OffCan!Next
    /\ UNCHANGED NotDalyCan

OnLine(modbus, classic, n) == [modbus |-> modbus, classic |-> classic, n |-> n]
Modern(n) == OnLine({"D2"}, {}, n)
Old(n)    == OnLine({}, {"80"}, n)
Bilingual == OnLine({"81"}, {"40", "80"}, 3)

DalyOnLine == INSTANCE DalyRs485 WITH
    InitCmds <- <<"rated">>, RunCmds <- <<"soc", "status", "cells">>, ModbusAddrs <- <<"81", "D2">>,
    ClassicAddrs <- <<"40", "80">>, MaxCells <- 2, FirstNo <- 1, Stale <- 16, Timeout <- 3, Idle <- 2,
    MinCells <- 2, Odd <- 77, Batteries <- {Modern(3), Old(1), Old(3), Bilingual, OnLine({}, {}, 1)},
    Harms <- {"lost", "noise", "damaged", "cut", "short", "blank", "babble", "write"},
    MaxFaults <- 2, MaxSwaps <- 1

\* Batteries that only know blocks; none is damaged.
BlockLine == INSTANCE DalyRs485 WITH
    InitCmds <- <<"rated">>, RunCmds <- <<"soc", "range", "cells">>, ModbusAddrs <- <<"81", "D2">>,
    ClassicAddrs <- <<"40", "80">>, MaxCells <- 3, FirstNo <- 1, Stale <- 6, Timeout <- 2, Idle <- 1,
    MinCells <- 2, Odd <- 77, Batteries <- {Modern(2), Modern(3)},
    Harms <- {"lost", "cut", "short", "blank", "write"}, MaxFaults <- 2, MaxSwaps <- 2

\* Batteries that are there, in the end.
AliveLine == INSTANCE DalyRs485 WITH
    InitCmds <- <<"rated">>, RunCmds <- <<"soc", "range", "cells">>, ModbusAddrs <- <<"81", "D2">>,
    ClassicAddrs <- <<"40", "80">>, MaxCells <- 3, FirstNo <- 1, Stale <- 6, Timeout <- 2, Idle <- 2,
    MinCells <- 2, Odd <- 77, Batteries <- {Modern(2), Modern(3), Old(2), Bilingual},
    Harms <- {"lost", "noise", "damaged", "cut", "short", "blank", "babble", "write"},
    MaxFaults <- 1, MaxSwaps <- 2

NotDalyLine ==
    <<source, modbusVars, seplosVars, jkVars, dalyCanVars, probeVars, decoderVars, wordsVars, since, rx,
      model, packet, wire, answer, cut, cuts>>

InitDalyLine ==
    /\ ModbusOff /\ SeplosOff /\ JkOff /\ DalyCanOff /\ ProbeOff /\ DecoderOff /\ WordsOff
    /\ since = Off /\ rx = Off /\ model = Off /\ packet = Off /\ wire = Off /\ answer = Off /\ cut = Off
    /\ cuts = Off
    /\ \/ source = "dalyLine" /\ DalyOnLine!Init
       \/ source = "blockLine" /\ BlockLine!Init
       \/ source = "aliveLine" /\ AliveLine!Init

DalyLineStep ==
    /\ \/ source = "dalyLine" /\ DalyOnLine!Next
       \/ source = "blockLine" /\ BlockLine!Next
       \/ source = "aliveLine" /\ AliveLine!Next
    /\ UNCHANGED NotDalyLine

-----------------------------------------------------------------------------
(* Pylon.  The answers to 0x42 may be missing, and 0 is no good address.   *)

Probe == INSTANCE PylonProbe WITH
    Addresses <- <<0, 2, 18>>, CidSeq <- <<"61", "42", "63", "62">>, Variants <- 2, Adrs <- {0, 2, 18},
    Known <- {"61", "62", "63"}, Rejects <- BOOLEAN, Period <- 2, Wait <- 1, Quiet <- 4, Timeout <- 1,
    Stale <- 25, Retry <- 20, MaxTimeouts <- 3, MaxFaults <- 2, MaxSwaps <- 1

LivingProbe == INSTANCE PylonProbe WITH
    Addresses <- <<2, 18>>, CidSeq <- <<"61", "42", "63", "62">>, Variants <- 1, Adrs <- {2, 18},
    Known <- {"61", "62", "63"}, Rejects <- BOOLEAN, Period <- 2, Wait <- 1, Quiet <- 4, Timeout <- 1,
    Stale <- 18, Retry <- 6, MaxTimeouts <- 2, MaxFaults <- 2, MaxSwaps <- 1

NotProbe ==
    <<source, modbusVars, seplosVars, jkVars, dalyCanVars, dalyLineVars, decoderVars, wordsVars, since,
      rx, model, packet, wire, answer, cut, cuts, dalyVars, frame, gen, heard>>

InitProbe ==
    /\ ModbusOff /\ SeplosOff /\ JkOff /\ DalyCanOff /\ DalyLineOff /\ DecoderOff /\ WordsOff
    /\ since = Off /\ rx = Off /\ model = Off /\ packet = Off /\ wire = Off /\ answer = Off /\ cut = Off
    /\ cuts = Off /\ DalyOff /\ frame = Off /\ gen = Off /\ heard = Off
    /\ \/ source = "probe" /\ Probe!Init
       \/ source = "livingProbe" /\ LivingProbe!Init

ProbeStep ==
    /\ \/ source = "probe" /\ Probe!Next
       \/ source = "livingProbe" /\ LivingProbe!Next
    /\ UNCHANGED NotProbe

-----------------------------------------------------------------------------
(* Frames a battery sends unasked.  What else may be heard on its bus.     *)

AllKinds == {"pylon", "victron", "goodwe", "growatt", "jk", "deye"}

Silenced == [p \in AllKinds \ {"deye"} |->
               CASE p = "pylon"   -> {"p355", "p356", "p35C", "other"}
                 [] p = "victron" -> {"p351", "p355", "p356"}
                 [] p = "goodwe"  -> {"g457", "g458", "p355", "p356"}
                 [] p = "growatt" -> {"w313", "w322", "p355", "other"}
                 [] OTHER         -> {"j02F4", "p355", "p356", "other"}]

Living == [p \in AllKinds |->
             CASE p = "growatt" -> {"w313", "w322", "other"}
               [] p = "jk"      -> {"j02F4", "other"}
               [] OTHER         -> {"p351", "p355", "p356"}]

SilencedCan == INSTANCE CanDecoder WITH
    Protocols <- DOMAIN Silenced, BmsHere <- {TRUE}, Sends <- Silenced, Odd <- {"w313"}, BridgeStale <- 1,
    PylonStale <- 3, SnapPeriod <- 2, Alive <- FALSE, MaxRestarts <- 1

\* The battery is on the other interface; this one hears what it cannot read.
StrangeCan == INSTANCE CanDecoder WITH
    Protocols <- AllKinds, BmsHere <- {FALSE}, Sends <- [p \in AllKinds |-> {"other"}], Odd <- {},
    BridgeStale <- 1, PylonStale <- 3, SnapPeriod <- 2, Alive <- FALSE, MaxRestarts <- 1

LivingCan == INSTANCE CanDecoder WITH
    Protocols <- AllKinds, BmsHere <- {TRUE}, Sends <- Living, Odd <- {}, BridgeStale <- 1, PylonStale <- 3,
    SnapPeriod <- 2, Alive <- TRUE, MaxRestarts <- 1

NotDecoder ==
    <<source, modbusVars, seplosVars, jkVars, dalyCanVars, dalyLineVars, probeVars, wordsVars, rx, packet,
      wire, answer, cut, cuts, dalyVars, frame, battery, swaps, gen, heard, faults>>

InitDecoder ==
    /\ ModbusOff /\ SeplosOff /\ JkOff /\ DalyCanOff /\ DalyLineOff /\ ProbeOff /\ WordsOff
    /\ rx = Off /\ packet = Off /\ wire = Off /\ answer = Off /\ cut = Off /\ cuts = Off /\ DalyOff
    /\ frame = Off /\ battery = Off /\ swaps = Off /\ gen = Off /\ heard = Off /\ faults = Off
    /\ \/ source = "silencedCan" /\ SilencedCan!Init
       \/ source = "strangeCan" /\ StrangeCan!Init
       \/ source = "livingCan" /\ LivingCan!Init

DecoderStep ==
    /\ \/ source = "silencedCan" /\ SilencedCan!Next
       \/ source = "strangeCan" /\ StrangeCan!Next
       \/ source = "livingCan" /\ LivingCan!Next
    /\ UNCHANGED NotDecoder

-----------------------------------------------------------------------------
(* Words: sixteen cells from 2.75 V to 3.65 V.                             *)

Words == INSTANCE GrowattWords WITH
    Low <- 4400, High <- 5840, Step <- 1, Spreads <- {0, 1, 7, 20, 33, 46, 59, 72, 85, 98, 111, 127},
    Orders <- {"big", "little"}, Flags <- {0, 64, 128, 192}

NotWords ==
    <<source, modbusVars, seplosVars, jkVars, dalyCanVars, dalyLineVars, probeVars, decoderVars, since,
      rx, model, packet, wire, answer, cut, cuts, pc, dalyVars, frame, battery, swaps, gen, heard,
      faults>>

InitWords ==
    /\ ModbusOff /\ SeplosOff /\ JkOff /\ DalyCanOff /\ DalyLineOff /\ ProbeOff /\ DecoderOff
    /\ since = Off /\ rx = Off /\ model = Off /\ packet = Off /\ wire = Off /\ answer = Off /\ cut = Off
    /\ cuts = Off /\ pc = Off /\ DalyOff /\ frame = Off /\ battery = Off /\ swaps = Off /\ gen = Off
    /\ heard = Off /\ faults = Off
    /\ source = "words" /\ Words!Init

WordsStep ==
    /\ source = "words" /\ Words!Drift
    /\ UNCHANGED NotWords

-----------------------------------------------------------------------------
ASSUME SourcesAssumption ==
    /\ Sources \subseteq {"prompt", "echoing", "late", "harmed", "seplos", "calmSeplos", "pickySeplos",
                          "jk", "calmJk", "dalyCan", "busyCan", "offCan", "dalyLine", "blockLine",
                          "aliveLine", "probe", "livingProbe", "silencedCan", "strangeCan", "livingCan",
                          "words"}
    /\ Prompt!SizeAssumption /\ Prompt!PollAssumption /\ Echoing!SizeAssumption /\ Echoing!PollAssumption
    /\ Late!SizeAssumption /\ Late!PollAssumption /\ Harmed!SizeAssumption /\ Harmed!PollAssumption
    /\ Seplos!SeplosAssumption /\ CalmSeplos!SeplosAssumption /\ PickySeplos!SeplosAssumption
    /\ Jk!NativeAssumption /\ CalmJk!NativeAssumption
    /\ DalyOnCan!CellsAssumption /\ DalyOnCan!CanAssumption /\ BusyCan!CanAssumption /\ OffCan!CanAssumption
    /\ DalyOnLine!CellsAssumption /\ DalyOnLine!Rs485Assumption
    /\ BlockLine!CellsAssumption /\ BlockLine!Rs485Assumption /\ AliveLine!Rs485Assumption
    /\ Probe!SeqAssumption /\ Probe!NumberAssumption
    /\ LivingProbe!SeqAssumption /\ LivingProbe!NumberAssumption
    /\ SilencedCan!DecoderAssumption /\ StrangeCan!DecoderAssumption /\ LivingCan!DecoderAssumption
    /\ Words!WordsAssumption

vars ==
    <<source, modbusVars, seplosVars, jkVars, dalyCanVars, dalyLineVars, dalyVars, probeVars, decoderVars, wordsVars,
      since, rx, model, packet, wire, answer, cut, cuts, pc, frame, battery, swaps, gen, heard, faults>>

Init ==
    /\ source \in Sources
    /\ \/ InitModbus \/ InitSeplos \/ InitJk \/ InitDalyCan \/ InitDalyLine
       \/ InitProbe \/ InitDecoder \/ InitWords

Next ==
    \/ ModbusStep \/ SeplosStep \/ JkStep \/ DalyCanStep \/ DalyLineStep
    \/ ProbeStep \/ DecoderStep \/ WordsStep

Spec == Init /\ [][Next]_vars

\* The fairness of each source, for those whose battery is found.
LoopTurns == (source = "calmSeplos" /\ CalmSeplos!Turn) \/ (source = "jk" /\ Jk!Turn)

FairSpec ==
    /\ Spec
    /\ WF_pubDue(source = "harmed" /\ Harmed!Turn)
    /\ WF_since(LoopTurns)
    /\ WF_vars(source = "harmed" /\ Harmed!Arrive /\ UNCHANGED NotModbus)
    /\ WF_vars(source = "harmed" /\ Harmed!Join /\ UNCHANGED NotModbus)
    /\ WF_vars(source = "calmSeplos" /\ CalmSeplos!Arrive /\ UNCHANGED NotSeplos)
    /\ WF_vars(source = "jk" /\ Jk!Arrive /\ UNCHANGED NotJk)
    /\ WF_vars(source = "jk" /\ Jk!Join /\ UNCHANGED NotJk)
    /\ WF_vars(source = "offCan" /\ OffCan!Task /\ UNCHANGED NotDalyCan)
    /\ WF_vars(source = "offCan" /\ OffCan!Arrive /\ UNCHANGED NotDalyCan)
    /\ WF_vars(source = "offCan" /\ OffCan!BusRecovered /\ UNCHANGED NotDalyCan)
    /\ WF_vars(source = "aliveLine" /\ AliveLine!Ask /\ UNCHANGED NotDalyLine)
    /\ WF_vars(source = "aliveLine" /\ AliveLine!Read /\ UNCHANGED NotDalyLine)
    /\ WF_vars(source = "aliveLine" /\ AliveLine!Wait /\ UNCHANGED NotDalyLine)
    /\ WF_vars(source = "aliveLine" /\ AliveLine!RoundEnds /\ UNCHANGED NotDalyLine)
    /\ WF_vars(source = "livingProbe" /\ LivingProbe!ProbeStep /\ UNCHANGED NotProbe)
    /\ WF_vars(source = "livingProbe" /\ LivingProbe!ReceiveStep /\ UNCHANGED NotProbe)
    /\ WF_vars(source = "livingProbe" /\ LivingProbe!BatteryStep /\ UNCHANGED NotProbe)
    /\ WF_vars(source = "livingProbe" /\ LivingProbe!Tick /\ UNCHANGED NotProbe)
    /\ WF_vars(source = "livingCan" /\ LivingCan!Copy /\ UNCHANGED NotDecoder)
    /\ WF_vars(source = "livingCan" /\ LivingCan!Publish /\ UNCHANGED NotDecoder)
    /\ WF_vars(source = "livingCan" /\ LivingCan!Tick /\ UNCHANGED NotDecoder)
    /\ WF_vars(source = "livingCan" /\ LivingCan!Restart /\ UNCHANGED NotDecoder)
    /\ WF_vars(source = "livingCan" /\ LivingCan!SendLate /\ UNCHANGED NotDecoder)

-----------------------------------------------------------------------------
(* Properties.                                                             *)

\* What the sources keep is of the kinds that it should be: no buffer, queue, cache
\* or snapshot is larger than it may be.
TypeOK ==
    /\ source = "prompt" => Prompt!TypeOK
    /\ source = "echoing" => Echoing!TypeOK
    /\ source = "seplos" => Seplos!TypeOK
    /\ source = "pickySeplos" => PickySeplos!TypeOK
    /\ source = "jk" => Jk!TypeOK
    /\ source = "dalyCan" => DalyOnCan!TypeOK
    /\ source = "busyCan" => BusyCan!TypeOK
    /\ source = "dalyLine" => DalyOnLine!TypeOK
    /\ source = "probe" => Probe!TypeOK
    /\ source = "silencedCan" => SilencedCan!TypeOK
    /\ source = "words" => Words!TypeOK

\* What is shown was answered as what it is shown as: a register to its request, a
\* pack to a request for the pack, the fields of one answer together, and the
\* dialect and the form that are kept are those the battery answered.  Growatt's words
\* are read in the order they were sent in, where they can be told apart.
ShownIsAnswered ==
    /\ source = "prompt" => Prompt!AttributedRight /\ Prompt!OpenRequestsAreRecent
    /\ source = "echoing" => Echoing!AttributedRight /\ Echoing!OpenRequestsAreRecent
    /\ source = "late" => Late!AttributedRight
    /\ source = "seplos" => Seplos!AttributedRight /\ Seplos!LockedIsAnswered
    /\ source = "pickySeplos" => PickySeplos!AttributedRight /\ PickySeplos!LockedIsAnswered
    /\ source = "calmJk" => CalmJk!SnapshotIsOneAnswer
    /\ source = "dalyCan" => DalyOnCan!ExtremesAreOfCells /\ DalyOnCan!LearnedIsAnswered
    /\ source = "busyCan" => BusyCan!ExtremesAreOfCells
    /\ source = "blockLine" => BlockLine!BlockIsShownWhole
    /\ source = "words" =>
        Words!PackIsNotUnderstated /\ Words!CellNearAverageIsRead /\ Words!LittleExtremesAreRead

\* No source shows a battery that has been silent for its window and the time its
\* loop or its snapshot task takes to see it, whatever of its answers is still in a
\* buffer; and the rounds of a poller are short enough for a battery that answers.
ShownIsRecent ==
    /\ source = "prompt" => Prompt!RoundKeepsFresh /\ Prompt!SilentIsCleared
    /\ source = "echoing" => Echoing!RoundKeepsFresh /\ Echoing!SilentIsCleared
    /\ source = "seplos" => Seplos!SilentIsDropped
    /\ source = "jk" => Jk!SilentIsCleared
    /\ source = "dalyCan" => DalyOnCan!SilentIsCleared
    /\ source = "dalyLine" => DalyOnLine!SilentIsCleared
    /\ source = "probe" => Probe!RoundsKeepSourceAlive
    /\ source = "silencedCan" => SilencedCan!RecentOrForgotten /\ SilencedCan!SilentBusIsForgotten

\* A battery that was found stays found while few of its answers are harmed, and while
\* it is heard on another interface; one that went away is not shown again, nor when
\* the time it has been silent for grows.
KeptWhileHeard ==
    [][/\ source = "seplos" => Seplos!FoundIsKept /\ Seplos!OnlyNewIsShown
       /\ source = "jk" => Jk!HarmIsSurvived
       /\ source = "probe" => Probe!FoundIsKept /\ Probe!SilentIsDropped
       /\ source = "strangeCan" => StrangeCan!OtherIsKept]_vars

\* Whatever was lost, damaged, swallowed or restarted, the battery that is there in
\* the end is found at its address and in its dialect, and what it holds then is
\* shown and stays.
BatteryIsFound ==
    <>[](/\ source = "harmed" => Harmed!Found
         /\ source = "calmSeplos" => CalmSeplos!Found
         /\ source = "jk" => Jk!Found
         /\ source = "offCan" => OffCan!Found
         /\ source = "aliveLine" => AliveLine!Found
         /\ source = "livingProbe" => LivingProbe!Found
         /\ source = "livingCan" => LivingCan!Found)
=============================================================================
