------------------------------ MODULE SeplosPoll ------------------------------
(***************************************************************************)
(* The Seplos source: its task tries the dialects a Seplos may speak - two *)
(* protocols, several addresses, the line as it is and inverted - until    *)
(* one is answered, stays with it, and asks for telemetry and alarms in    *)
(* turn.  What comes from the line is collected in a buffer in which       *)
(* frames of both protocols are looked for.  A byte of the model is a pair *)
(* of a frame and a place in it and stands for a stretch of bytes.         *)
(***************************************************************************)
EXTENDS Naturals, Sequences, FiniteSets, SequencesExt

CONSTANTS
    Candidates,       \* kSeplosPollCandidates: [kind, dialect, inv]
    CandidatePeriod,  \* SEPLOS_BMS_REQUEST_CANDIDATE_PERIOD
    Period,           \* SEPLOS_BMS_QUERY_PERIOD_MS, in rounds of the loop
    Stale,            \* BRIDGE_SOURCE_STALE_MS
    BufMax,           \* room of rxBuf
    Delays,           \* rounds a battery may need for an answer
    Batteries,        \* what may be on the line: [speaks, refuses, inv], dialects it answers
    Harms,            \* what may happen to an answer
    MaxFaults,        \* bound: harmed answers, failed writes, failed inversions
    MaxSwaps          \* bound: exchanged batteries

SeplosAssumption ==
    /\ Candidates \in Seq([kind : {"ascii", "rtu"}, dialect : STRING, inv : BOOLEAN])
    /\ Candidates # <<>>
    /\ {CandidatePeriod, Period} \subseteq Nat \ {0}
    /\ {Stale, BufMax, MaxFaults, MaxSwaps} \subseteq Nat
    /\ Delays \subseteq Nat /\ Delays # {} /\ IsFiniteSet(Delays)
    /\ Batteries \subseteq [speaks : SUBSET STRING, refuses : SUBSET STRING, inv : BOOLEAN]
    /\ Harms \subseteq {"lost", "split", "damaged", "noise"}

VARIABLES
    since,      \* age of lastPollUs; Period stands for longer and never
    pollCount,
    next,       \* nextCid2: "telemetry" or "alarms"
    cand,       \* candidateIndex
    polled,     \* lastPolledCandidate
    locked,     \* candidateLocked
    inverted,   \* lineInverted
    asked,      \* lastRequestedCid2; and of lastModbus...: whether, and for which registers
    rx,         \* rxBuf
    work,       \* workingSnapshot: from which values pack, cells and alarms are; 0 for none
    model,      \* g_batteryModel
    packet,     \* the latest snapshot and packet: whether there are, and how old the last
                \* frame is (lastFrameUs)
    wire, answer, battery,
    gen,        \* the values of the battery; those of the one before are lower
    faults, swaps, heard,
    crossed     \* whether an answer was on its way when the task was started again

ctxVars == <<since, pollCount, next, cand, polled, locked, inverted, asked>>
outVars == <<rx, work, model, packet>>
envVars == <<battery, gen, swaps>>
vars    == <<ctxVars, outVars, wire, answer, heard, faults, crossed, envVars>>

MaxAge   == Stale + 4 * Period
Grown(a) == IF a >= MaxAge THEN MaxAge ELSE a + 1
Empty    == [pack |-> 0, cells |-> 0, alarms |-> 0]
NoModel  == [valid |-> FALSE, pack |-> 0, cells |-> 0, alarms |-> 0]
NoPacket == [have |-> FALSE, frame |-> MaxAge, ever |-> FALSE]
NoAnswer == [frame |-> [kind |-> "none"], due |-> 0, from |-> 0]
Abouts   == {"telemetry", "alarms"}

\* What is on the line.  A frame with no content is the refusal of a request.
Size(f) == CASE f.kind = "ascii" -> 3 [] f.kind = "rtu" -> 4 [] OTHER -> 1

Bytes(f) == [i \in 1..Size(f) |-> <<f, i>>]

TypeOK ==
    /\ since \in 0..Period /\ pollCount \in 0..(CandidatePeriod * Len(Candidates) - 1)
    /\ next \in Abouts /\ {cand, polled} \subseteq DOMAIN Candidates
    /\ {locked, inverted, battery.inv, crossed} \subseteq BOOLEAN
    /\ asked.about \in Abouts /\ asked.rtu \in BOOLEAN /\ asked.reg \in Abouts
    /\ Len(rx) <= BufMax
    /\ \A w \in {work, model} : {w.pack, w.cells, w.alarms} \subseteq 0..(MaxSwaps + 2)
    /\ packet.have \in BOOLEAN /\ {packet.frame, heard} \subseteq 0..MaxAge
    /\ faults \in 0..MaxFaults /\ swaps \in 0..MaxSwaps /\ gen \in 1..(MaxSwaps + 1)

Init ==
    /\ since = Period /\ pollCount = 0 /\ next = "telemetry" /\ cand = 1 /\ polled = 1
    /\ locked = FALSE /\ inverted = FALSE
    /\ asked = [about |-> "telemetry", rtu |-> FALSE, reg |-> "telemetry"]
    /\ rx = <<>> /\ work = Empty /\ model = NoModel /\ packet = NoPacket
    /\ wire = <<>> /\ answer = NoAnswer /\ battery \in Batteries /\ gen = 1
    /\ heard = MaxAge /\ faults = 0 /\ swaps = 0 /\ crossed = FALSE

-----------------------------------------------------------------------------
(* What a frame does.  s is the part of the state that frames change.      *)

Now == [rx |-> rx, work |-> work, model |-> model,
        packet |-> [packet EXCEPT !.frame = Grown(@)], cand |-> cand, locked |-> locked]

\* lockPollCandidate.
Lock(s) == IF s.locked THEN s ELSE [s EXCEPT !.cand = polled, !.locked = TRUE]

\* Without telemetry the model stays what it was, and no packet is made; the
\* snapshot is stored and the source is alive.
HasTelemetry(w) == w.pack # 0 \/ w.cells # 0

Publish(s) ==
    [s EXCEPT !.packet = [have |-> TRUE, frame |-> 0, ever |-> TRUE],
              !.model  = IF HasTelemetry(s.work)
                         THEN [valid |-> TRUE, pack |-> s.work.pack, cells |-> s.work.cells,
                               alarms |-> s.work.alarms]
                         ELSE @]

\* seplosRs485DecodeTelemetryInfo replaces all but the alarms.
Telemetry(s, f) ==
    Publish([s EXCEPT !.work = [pack |-> f.val, cells |-> f.val, alarms |-> @.alarms]])

Alarms(s, f) == Publish([s EXCEPT !.work.alarms = f.val])

\* inferCid2FromFrame: from the length, so that a late answer is known for what
\* it is.  A frame without content cannot be decoded.
AsciiFrame(s, f) ==
    IF f.empty THEN Lock(s)
    ELSE IF f.about = "telemetry" THEN Telemetry(Lock(s), f) ELSE Alarms(Lock(s), f)

\* applyModbusPia and applyModbusPib: which registers an answer holds is known
\* from what was asked for.  The answer with the pack is too short for cells, not
\* the other way round: Odd is the pack made of cells.
Odd == MaxSwaps + 2

Applied(s, f, reg) ==
    CASE f.empty -> s
      [] ~f.empty /\ reg = "telemetry" /\ f.about = "telemetry" ->
           Publish([s EXCEPT !.work.pack = f.val])
      [] ~f.empty /\ reg = "telemetry" /\ f.about = "alarms" -> Publish([s EXCEPT !.work.pack = Odd])
      [] ~f.empty /\ reg = "alarms" /\ f.about = "alarms" -> Publish([s EXCEPT !.work.cells = f.val])
      [] OTHER -> s

RtuFrame(s, f) == Applied(Lock(s), f, asked.reg)

-----------------------------------------------------------------------------
(* consumeModbusRx and consumeRx.                                          *)

\* The first place where the address and the function of the last request are.
RtuStarts(buf) ==
    {i \in 1..(Len(buf) - 1) :
        /\ buf[i][1].kind = "rtu" /\ buf[i][2] = 1
        /\ buf[i + 1] = <<buf[i][1], 2>>}

First(places) == CHOOSE i \in places : \A j \in places : i <= j

From(buf, i) == SubSeq(buf, i, Len(buf))

\* What is not the begin of an answer is dropped; only one answer is handled.
ConsumeRtu(s) ==
    IF ~asked.rtu THEN s
    ELSE IF RtuStarts(s.rx) = {} THEN [s EXCEPT !.rx = <<>>]
    ELSE LET buf == From(s.rx, First(RtuStarts(s.rx)))
             f   == buf[1][1]
         IN CASE Len(buf) < Size(f) -> [s EXCEPT !.rx = buf]
              [] Len(buf) >= Size(f) /\ f.ok /\ SubSeq(buf, 1, Size(f)) = Bytes(f) ->
                   [RtuFrame(s, f) EXCEPT !.rx = From(buf, Size(f) + 1)]
              [] OTHER -> [s EXCEPT !.rx = Tail(buf)]

IsStart(b) == b[1].kind = "ascii" /\ b[2] = 1
IsEnd(b)   == b[1].kind = "ascii" /\ b[2] = 3

AsciiStarts(buf, from) == {i \in from..Len(buf) : IsStart(buf[i])}

\* From the first start to the next end: a frame if it is one, whatever is between.
EndedAt(s, p) ==
    LET starts == {i \in AsciiStarts(s.st.rx, s.next) : i < p} IN
    IF ~IsEnd(s.st.rx[p]) \/ starts = {} THEN s
    ELSE LET i == First(starts)
             f == s.st.rx[i][1]
         IN [st   |-> IF SubSeq(s.st.rx, i, p) = Bytes(f) /\ f.ok THEN AsciiFrame(s.st, f) ELSE s.st,
             next |-> p + 1]

ConsumeAscii(s) ==
    LET upTo[p \in 0..Len(s.rx)] ==
            IF p = 0 THEN [st |-> s, next |-> 1] ELSE EndedAt(upTo[p - 1], p)
        e    == upTo[Len(s.rx)]
        rest == AsciiStarts(s.rx, e.next)
    IN [e.st EXCEPT !.rx = IF rest = {} THEN <<>> ELSE From(s.rx, First(rest))]

\* What does not fit drops what is there.
Fill(s, data) ==
    [s EXCEPT !.rx = IF Len(data) > BufMax - Len(@)
                     THEN From(data, IF Len(data) > BufMax THEN Len(data) - BufMax + 1 ELSE 1)
                     ELSE @ \o data]

\* What the one protocol leaves is handed to the other, the part of an answer too.
ConsumeRx(s) == IF wire = <<>> THEN s ELSE ConsumeAscii(ConsumeRtu(Fill(s, wire)))

-----------------------------------------------------------------------------
(* pollSeplos.                                                             *)

\* selectPollCandidate.
Selected(s) == IF s.locked THEN s.cand ELSE (pollCount \div CandidatePeriod) + 1

Flip(about) == IF about = "telemetry" THEN "alarms" ELSE "telemetry"

Understood(c, inv) == battery.inv = inv /\ c.dialect \in battery.speaks \cup battery.refuses

AnswerTo(c, about) ==
    [kind |-> c.kind, about |-> about, val |-> gen, ok |-> TRUE,
     empty |-> c.dialect \in battery.refuses]

Sooner == IF answer = NoAnswer THEN answer ELSE [answer EXCEPT !.due = @ - 1]

Sent(c, inv) ==
    IF ~Understood(c, inv) \/ answer # NoAnswer THEN answer' = Sooner
    ELSE \E n \in Delays : answer' = [frame |-> AnswerTo(c, next), due |-> n, from |-> 0]

NotDue(s) ==
    /\ since < Period
    /\ since' = since + 1 /\ cand' = s.cand /\ answer' = Sooner
    /\ UNCHANGED <<pollCount, next, polled, inverted, asked, faults>>

\* A line that cannot be inverted is used as it is.
Inverted(c) ==
    \/ inverted' = c.inv /\ UNCHANGED faults
    \/ /\ inverted # c.inv /\ UNCHANGED inverted
       /\ faults < MaxFaults /\ faults' = faults + 1

\* A request that could not be written has already set what an answer of the
\* other protocol is taken for.
Ask(c) ==
    IF c.kind = "rtu" THEN asked' = [asked EXCEPT !.rtu = TRUE, !.reg = next]
    ELSE asked' = [asked EXCEPT !.rtu = FALSE]

WriteFails(s) ==
    LET c == Candidates[Selected(s)] IN
    /\ since = Period
    /\ faults < MaxFaults /\ faults' = faults + 1
    /\ cand' = Selected(s) /\ inverted' = c.inv /\ Ask(c) /\ answer' = Sooner
    /\ UNCHANGED <<since, pollCount, next, polled>>

Poll(s) ==
    LET c == Candidates[Selected(s)] IN
    /\ since = Period
    /\ cand' = Selected(s) /\ polled' = Selected(s)
    /\ Inverted(c) /\ Sent(c, inverted')
    /\ asked' = [about |-> next, rtu |-> c.kind = "rtu",
                 reg |-> IF c.kind = "rtu" THEN next ELSE asked.reg]
    /\ pollCount' = (pollCount + 1) % (CandidatePeriod * Len(Candidates))
    /\ next' = Flip(next) /\ since' = 1

-----------------------------------------------------------------------------
(* maybeClearStaleSource, at the end of every round.                       *)

ClearKeepsLock(s) ==
    IF s.packet.have /\ s.packet.frame > Stale
    THEN [s EXCEPT !.model = NoModel, !.packet.have = FALSE, !.work = Empty]
    ELSE s

ClearStale(s) ==
    IF s.packet.have /\ s.packet.frame > Stale
    THEN [s EXCEPT !.locked = FALSE, !.model = NoModel, !.packet.have = FALSE,
                   !.work = Empty]
    ELSE s

Loop ==
    /\ answer = NoAnswer \/ answer.due > 0
    /\ \E s \in {ConsumeRx(Now)} :
          /\ NotDue(s) \/ WriteFails(s) \/ Poll(s)
          /\ \E c \in {ClearStale(s)} :
                /\ rx' = c.rx /\ work' = c.work /\ model' = c.model /\ packet' = c.packet
                /\ locked' = c.locked
    /\ wire' = <<>> /\ heard' = Grown(heard)
    /\ UNCHANGED <<crossed, envVars>>

\* seplosRs485BmsTaskStop and Start: everything is as it was in the beginning.
Restart ==
    /\ swaps < MaxSwaps /\ swaps' = swaps + 1
    /\ since' = Period /\ pollCount' = 0 /\ next' = "telemetry" /\ cand' = 1 /\ polled' = 1
    /\ locked' = FALSE /\ inverted' = FALSE
    /\ asked' = [about |-> "telemetry", rtu |-> FALSE, reg |-> "telemetry"]
    /\ rx' = <<>> /\ work' = Empty /\ model' = NoModel /\ packet' = NoPacket
    /\ wire' = <<>> /\ crossed' = (crossed \/ answer # NoAnswer)
    /\ UNCHANGED <<answer, battery, gen, heard, faults>>

-----------------------------------------------------------------------------
(* The battery and the line, between two rounds.                           *)

Due == answer # NoAnswer /\ answer.due = 0

Harm(h) == Due /\ h \in Harms /\ faults < MaxFaults /\ faults' = faults + 1

\* With the wrong polarity nothing of it can be read.
Readable(data) ==
    IF battery.inv = inverted THEN data
    ELSE <<<<[answer.frame EXCEPT !.kind = "junk"], 1>>>>

Rest == SubSeq(Bytes(answer.frame), answer.from + 1, Size(answer.frame))

Arrive ==
    /\ Due
    /\ wire' = wire \o Readable(Rest)
    /\ answer' = NoAnswer /\ heard' = 0
    /\ UNCHANGED <<ctxVars, outVars, envVars, faults, crossed>>

Lose ==
    /\ Harm("lost")
    /\ answer' = NoAnswer
    /\ UNCHANGED <<ctxVars, outVars, envVars, wire, heard, crossed>>

\* The driver hands over an answer in two rounds.
Split ==
    /\ Harm("split") /\ answer.from = 0
    /\ \E k \in 1..(Size(answer.frame) - 1) :
          /\ wire' = wire \o Readable(SubSeq(Bytes(answer.frame), 1, k))
          /\ answer' = [answer EXCEPT !.due = 1, !.from = k]
    /\ heard' = 0
    /\ UNCHANGED <<ctxVars, outVars, envVars, crossed>>

Damage ==
    /\ Harm("damaged") /\ answer.from = 0
    /\ answer' = [answer EXCEPT !.frame.ok = FALSE]
    /\ UNCHANGED <<ctxVars, outVars, envVars, wire, heard, crossed>>

\* The begin of a frame that has no end, as on a line without bias.
Noise ==
    /\ Harm("noise")
    /\ wire' = Append(wire, <<[answer.frame EXCEPT !.kind = "ascii", !.ok = FALSE], 1>>)
    /\ UNCHANGED <<ctxVars, outVars, envVars, answer, heard, crossed>>

Swap ==
    /\ swaps < MaxSwaps /\ swaps' = swaps + 1
    /\ gen' = gen + 1 /\ battery' \in Batteries /\ answer' = NoAnswer
    /\ UNCHANGED <<ctxVars, outVars, wire, heard, faults, crossed>>

-----------------------------------------------------------------------------
Harmed == Lose \/ Split \/ Damage \/ Noise

Next == Loop \/ Restart \/ Arrive \/ Harmed \/ Swap

\* Every loop, and nothing else, lets one of these ages grow.
Turn == (answer = NoAnswer \/ answer.due > 0) /\ since' \in 0..Period /\ since' # since

Spec == Init /\ [][Next]_vars /\ WF_since(Turn) /\ WF_vars(Arrive)

-----------------------------------------------------------------------------
(* Properties.                                                             *)

\* The pack values of the model are those the battery sent as such, not cells that
\* came in answer to another request (lastModbusRegister), and are never of a
\* battery that is not there yet.  An answer that the task before asked for is another
\* matter: behind noise it stays in the buffer until one is asked for again.
AttributedRight == ~crossed => model.pack <= gen /\ model.cells <= gen /\ model.alarms <= gen

\* A candidate is kept only if the battery that is on the line, or was, answers it:
\* not the one that is tried next.
LockedIsAnswered ==
    (locked /\ swaps = 0) =>
        Candidates[cand].dialect \in battery.speaks \cup battery.refuses

\* A silent battery is dropped with all that is known of it, and its candidate with it.
SilentIsDropped ==
    (heard > Stale + 1 /\ ~crossed) => ~model.valid /\ ~packet.have /\ (packet.ever => ~locked)

\* Of a step: while nothing goes wrong a source that was found stays found.
FoundIsKept == (faults' = 0 /\ swaps' = 0 /\ model.valid) => model'.valid

\* Of a step: what is shown first after a source was stale is of what came then.
OnlyNewIsShown ==
    (packet.ever /\ ~packet.have /\ model'.valid) =>
        {model'.pack, model'.cells, model'.alarms}
            \subseteq {0} \cup {b[1].val : b \in ToSet(wire) \cup ToSet(rx)}

\* Whatever was lost, and whichever battery it is in the end, its dialect is found
\* and its values are shown: what must be so in the end.
Found == model.valid /\ locked /\ model.pack = gen /\ model.cells = gen
=============================================================================
