------------------------------ MODULE ModbusPoll ------------------------------
(***************************************************************************)
(* A source that reads the registers of a BMS over Modbus: the loop of its *)
(* task, which reads the line for 10 ms, feeds the decoder, sends the next *)
(* request when the period is over and publishes what is cached.  One step *)
(* of the model is one round of the loop, and its time the unit of time.   *)
(***************************************************************************)
EXTENDS ModbusDecoder

CONSTANTS
    Blocks,         \* the blocks that are read in turn: [start, count, kind of the answer, first]
    Device,         \* the address of the BMS
    Period,         \* loops between two requests
    PublishPeriod,  \* loops between two publications
    Stale,          \* loops after which the source is stale
    Delays,         \* loops the BMS may need for an answer
    Echo,           \* whether the transceiver loops back what is sent
    ClearsPacket,   \* whether a stale source clears its latest packet, too
    StatusBlocks,   \* starts of the blocks with registers like a status block of Voltronic
    Harms,          \* what may happen to an answer
    MaxFaults,      \* bound: lost, split, damaged and refused answers, failed writes
    MaxCuts         \* bound: how often the BMS is disconnected

PollAssumption ==
    /\ Blocks \in Seq([start : Nat, count : Nat \ {0}, kind : {"resp", "wide", "word"},
                       first : {"device", "function"}])
    /\ Blocks # <<>>
    /\ {Period, Device} \subseteq Nat \ {0} /\ PublishPeriod \in Nat \ {0, 1}
    /\ Delays \subseteq Nat /\ Delays # {} /\ IsFiniteSet(Delays)
    /\ {Stale, MaxFaults, MaxCuts} \subseteq Nat
    /\ {Echo, ClearsPacket} \subseteq BOOLEAN
    /\ Harms \subseteq {"lost", "split", "damaged", "refused", "noise"}

VARIABLES
    d,         \* the decoder
    idx,       \* pollIndex
    since,     \* age of lastPollUs; Period stands for longer and never
    pubDue,    \* loops until the next publication
    model,     \* g_batteryModel: the registers it was made of and its stamp
    packet,    \* the latest packet, the same
    wire,      \* what the receiver holds: bytes that the next loop reads
    answer,    \* what the BMS is about to send, in how many loops, and after which byte
    cut,       \* the BMS is disconnected
    gen,       \* of the values in the BMS: grows when they change
    heard,     \* age of the last answer of the BMS that came in one piece
    faults, cuts

devVars == <<d, idx, since, pubDue, model, packet>>
envVars == <<cut, gen, cuts>>
vars == <<devVars, wire, answer, heard, faults, envVars>>

Regs     == UNION {Blocks[b].start..(Blocks[b].start + Blocks[b].count - 1) : b \in DOMAIN Blocks}
MaxDelay == CHOOSE n \in Delays : \A m \in Delays : m <= n
MaxAge   == (IF Stale > ReqMaxAge THEN Stale ELSE ReqMaxAge) + PublishPeriod + Gap + 2
Ages     == 0..MaxAge
Nothing  == [valid |-> FALSE, regs |-> {}, stamp |-> 0]
NoAnswer == [frame |-> [kind |-> "none"], due |-> 0, from |-> 0]

TypeOK ==
    /\ Len(d.buf) <= BufMax /\ Len(d.reqs) <= QueueLen /\ Len(d.cache) <= CacheMax
    /\ d.age \in Ages /\ \A i \in DOMAIN d.reqs : d.reqs[i].age \in Ages
    /\ \A i, j \in DOMAIN d.cache : d.cache[i].reg = d.cache[j].reg => i = j
    /\ idx \in DOMAIN Blocks /\ since \in 0..Period /\ pubDue \in 0..PublishPeriod
    /\ \A p \in {model, packet} : p.valid \in BOOLEAN /\ p.stamp \in Ages
    /\ answer.due \in 0..(MaxDelay + 1) /\ answer.from \in Nat
    /\ cut \in BOOLEAN /\ gen \in 0..MaxCuts /\ heard \in Ages
    /\ faults \in 0..MaxFaults /\ cuts \in 0..MaxCuts

Init ==
    /\ d = Decoder0
    /\ idx = 1 /\ since = Period /\ pubDue = PublishPeriod
    /\ model = Nothing /\ packet = Nothing
    /\ wire = <<>> /\ answer = NoAnswer
    /\ cut = FALSE /\ gen = 0 /\ heard = MaxAge
    /\ faults = 0 /\ cuts = 0

-----------------------------------------------------------------------------
(* The loop.                                                               *)

\* Ages are capped where nothing depends on them any more.
Grown(a) == IF a >= MaxAge THEN MaxAge ELSE a + 1

Older(e) == [e EXCEPT !.age = Grown(@)]

Aged(dec) ==
    [Older(dec) EXCEPT !.last = Older(@), !.reqs = [i \in DOMAIN @ |-> Older(@[i])],
                       !.cache = [i \in DOMAIN @ |-> Older(@[i])]]

\* What the loop does with what it read in these 10 ms.
Received(dec) ==
    IF wire # <<>> THEN Feed(dec, wire)
    ELSE IF dec.have /\ dec.age > Gap THEN Flush(dec) ELSE dec

NextBlock(i) == (i % Len(Blocks)) + 1

Request(b) == [kind |-> "req", dev |-> Device, start |-> b.start, count |-> b.count, val |-> 0,
               ok |-> TRUE, first |-> b.first, status |-> FALSE]

\* The answer the BMS gives to block b: what it holds now.
AnswerTo(b) == [kind |-> b.kind, dev |-> Device, start |-> b.start, count |-> b.count, val |-> gen,
                ok |-> TRUE, first |-> b.first, status |-> b.start \in StatusBlocks]

\* The answer of the BMS gets nearer while the loop runs.
Sooner == IF answer = NoAnswer THEN answer ELSE [answer EXCEPT !.due = @ - 1]

\* The BMS takes its time; what it is asked in the meantime is lost.
Asked(b) ==
    IF cut \/ answer # NoAnswer THEN answer' = Sooner
    ELSE \E n \in Delays : answer' = [frame |-> AnswerTo(b), due |-> n, from |-> 0]

\* The poller is not due.
NotDue(dec) ==
    /\ since < Period
    /\ d' = dec /\ since' = since + 1
    /\ wire' = <<>> /\ answer' = Sooner
    /\ UNCHANGED <<idx, faults>>

\* A failed write is tried again in the next loop, with the same block.
WriteFails(dec) ==
    /\ since = Period
    /\ faults < MaxFaults /\ faults' = faults + 1
    /\ d' = dec /\ wire' = <<>> /\ answer' = Sooner
    /\ UNCHANGED <<idx, since>>

\* ...PollerTick, and the RecordRequest after it.
Poll(dec) ==
    LET b == Blocks[idx] IN
    /\ since = Period
    /\ d' = RecordRequest(dec, Device, b.start, b.count)
    /\ idx' = NextBlock(idx) /\ since' = 1
    /\ wire' = IF Echo THEN Bytes(Request(b)) ELSE <<>>
    /\ Asked(b)
    /\ UNCHANGED faults

\* What is built from the cache holds the registers whatever their age is.
Built(dec) == [valid |-> TRUE, regs |-> ToSet(dec.cache), stamp |-> NewestAge(dec, MaxAge)]

Publish(dec) ==
    IF NewestAge(dec, MaxAge) > Stale
    THEN model' = Nothing /\ packet' = IF ClearsPacket THEN Nothing ELSE packet
    ELSE model' = Built(dec) /\ packet' = Built(dec)

MaybePublish(dec) ==
    IF pubDue > 0
    THEN pubDue' = pubDue - 1 /\ UNCHANGED <<model, packet>>
    ELSE pubDue' = PublishPeriod - 1 /\ Publish(dec)

Loop ==
    /\ answer = NoAnswer \/ answer.due > 0
    /\ \E dec \in {Received(Aged(d))} : NotDue(dec) \/ WriteFails(dec) \/ Poll(dec)
    /\ MaybePublish(d')
    /\ heard' = Grown(heard)
    /\ UNCHANGED envVars

-----------------------------------------------------------------------------
(* The BMS and the line, between two loops.                                *)

Due == answer # NoAnswer /\ answer.due = 0

Harm(h) == Due /\ h \in Harms /\ faults < MaxFaults /\ faults' = faults + 1

Rest(f) == SubSeq(Bytes(f), answer.from + 1, Size(f))

Arrive ==
    /\ Due
    /\ wire' = wire \o Rest(answer.frame)
    /\ answer' = NoAnswer /\ heard' = 0
    /\ UNCHANGED <<devVars, envVars, faults>>

Lose ==
    /\ Harm("lost")
    /\ answer' = NoAnswer
    /\ UNCHANGED <<devVars, envVars, wire, heard>>

\* The driver hands over the first part of an answer in one loop, the rest in the next.
Split ==
    /\ Harm("split") /\ answer.from = 0
    /\ \E k \in 1..(Size(answer.frame) - 1) :
          /\ wire' = wire \o SubSeq(Bytes(answer.frame), 1, k)
          /\ answer' = [answer EXCEPT !.due = 1, !.from = k]
    /\ UNCHANGED <<devVars, envVars, heard>>

\* A wrong bit in the registers or the checksum.
Damage ==
    /\ Harm("damaged") /\ answer.from = 0
    /\ answer' = [answer EXCEPT !.frame.ok = FALSE]
    /\ UNCHANGED <<devVars, envVars, wire, heard>>

\* An exception instead of the registers.
Refuse ==
    /\ Harm("refused") /\ answer.from = 0 /\ IsAnswer(answer.frame)
    /\ answer' = [answer EXCEPT !.frame.kind = "exc"]
    /\ UNCHANGED <<devVars, envVars, wire, heard>>

\* A byte that belongs to no frame comes before the answer.
Noise ==
    /\ Harm("noise")
    /\ wire' = Append(wire, <<[answer.frame EXCEPT !.kind = "noise", !.ok = FALSE], 1>>)
    /\ UNCHANGED <<devVars, envVars, answer, heard>>

Cut ==
    /\ ~cut /\ cuts < MaxCuts
    /\ cut' = TRUE /\ cuts' = cuts + 1
    /\ answer' = NoAnswer
    /\ UNCHANGED <<devVars, wire, gen, heard, faults>>

\* When it is back it holds other values.
Join ==
    /\ cut
    /\ cut' = FALSE /\ gen' = gen + 1
    /\ UNCHANGED <<devVars, wire, answer, cuts, heard, faults>>

-----------------------------------------------------------------------------
Harmed == Lose \/ Split \/ Damage \/ Refuse \/ Noise

Next == Loop \/ Arrive \/ Harmed \/ Cut \/ Join

\* Every loop, and nothing else, counts towards the next publication: what is
\* fair to this is fair to Loop.
Turn == (answer = NoAnswer \/ answer.due > 0) /\ pubDue' \in (0..(PublishPeriod - 1)) \ {pubDue}

\* The task runs, the BMS answers what is not harmed, and is connected again.
Spec == Init /\ [][Next]_vars /\ WF_pubDue(Turn) /\ WF_vars(Arrive) /\ WF_vars(Join)

-----------------------------------------------------------------------------
(* Properties.                                                             *)

\* No register holds the value of another one: however answers, exceptions,
\* echoes, lost, split and repeated frames follow each other, an answer that
\* comes before the next request is given to the right one
\* (reqQueuePopForResp: the newest first).
AttributedRight == \A i \in DOMAIN d.cache : d.cache[i].from = d.cache[i].reg

\* The requests that wait for an answer are the recent ones, and their queue never
\* runs over, so that no request is dropped for another; an echo that is decoded
\* together with the answer counts twice.
OpenRequestsAreRecent ==
    /\ Len(d.reqs) <= (IF Echo THEN 2 ELSE 1) * ((ReqMaxAge \div Period) + 1)
    /\ Len(d.reqs) < QueueLen

\* As long as nothing goes wrong, what is published was read within one round
\* over the blocks.
RoundKeepsFresh ==
    (faults = 0 /\ cuts = 0) =>
        \A e \in model.regs : e.age <= Len(Blocks) * Period + MaxDelay + 2

\* A BMS that is silent for longer than the window and a publication is shown no
\* more, by no half of a frame either.
SilentIsCleared ==
    heard > Stale + PublishPeriod + Gap + 1 => ~model.valid /\ (ClearsPacket => ~packet.valid)

\* After whatever happened the values the BMS holds now are published, all of
\* them: what must be so in the end.
Found ==
    /\ model.valid /\ {e.reg : e \in model.regs} = Regs
    /\ \A e \in model.regs : e.val = gen /\ e.ok
=============================================================================
