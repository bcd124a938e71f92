------------------------------- MODULE JkNative -------------------------------
(***************************************************************************)
(* The native JK source: it asks for everything every 250 ms, collects     *)
(* what comes, and reads a frame from its head as far as the length in it  *)
(* says.  Entries carry an id each; what has no known id is skipped byte   *)
(* by byte.  The checksum at the end is not looked at.  A byte of the      *)
(* model is a pair of a frame and a place: 1 is the head, 2 the length,    *)
(* then one for each entry, and the last is the end id with the checksum.  *)
(***************************************************************************)
EXTENDS Naturals, Sequences, FiniteSets, SequencesExt, Functions

CONSTANTS
    Fields,      \* the entries of an answer, in their order
    Optional,    \* entries a battery may leave out
    Period,      \* JKBMS_RS485_NATIVE_QUERY_PERIOD_MS, in rounds of the loop
    Stale,       \* BRIDGE_SOURCE_STALE_MS
    BufMax,      \* JKBMS_RS485_NATIVE_MAX_FRAME_LEN
    Delays,      \* rounds the battery may need
    Harms,       \* what may happen to an answer
    Odd,         \* a value that nobody sent
    MaxFaults,   \* bound: harmed answers, failed writes
    MaxCuts      \* bound: disconnections

NativeAssumption ==
    /\ Fields \in Seq(STRING) /\ Fields # <<>> /\ Optional \subseteq Range(Fields)
    /\ "none" \notin Range(Fields)
    /\ {Period, BufMax} \subseteq Nat \ {0} /\ {Stale, MaxFaults, MaxCuts} \subseteq Nat
    /\ Delays \subseteq Nat /\ Delays # {} /\ IsFiniteSet(Delays)
    /\ Harms \subseteq {"lost", "split", "length", "entry", "truncated"}

VARIABLES
    since,    \* age of lastPollUs; Period stands for longer and never
    rx,       \* rxBuf
    model,    \* g_batteryModel: what was read, a function of some of the fields
    have,     \* there is a snapshot, a packet and a model
    frame,    \* age of lastFrameUs
    wire, answer, cut, gen, heard, faults, cuts,
    torn      \* a battery went away in the middle of an answer

srcVars == <<since, rx, model, have, frame>>
envVars == <<cut, gen, cuts, torn>>
vars    == <<srcVars, envVars, wire, answer, heard, faults>>

MaxAge   == Stale + 3 * Period
Grown(a) == IF a >= MaxAge THEN MaxAge ELSE a + 1
NoAnswer == [frame |-> [parts |-> <<>>], due |-> 0, from |-> 0]

Size(f) == Len(f.parts) + 3

\* The byte at place i of frame f; an entry may be damaged, the rest is right.
Bytes(f) == [i \in 1..f.sent |-> <<f, i>>]

TypeOK ==
    /\ since \in 0..Period /\ Len(rx) <= BufMax
    /\ DOMAIN model \subseteq Range(Fields) /\ (~have => DOMAIN model = {})
    /\ {frame, heard} \subseteq 0..MaxAge
    /\ cut \in BOOLEAN /\ torn \in BOOLEAN /\ gen \in 0..MaxCuts
    /\ faults \in 0..MaxFaults /\ cuts \in 0..MaxCuts

Nothing == [f \in {} |-> 0]

Init ==
    /\ since = Period /\ rx = <<>> /\ model = Nothing /\ have = FALSE /\ frame = MaxAge
    /\ wire = <<>> /\ answer = NoAnswer /\ cut = FALSE /\ gen = 0 /\ heard = MaxAge
    /\ faults = 0 /\ cuts = 0 /\ torn = FALSE

-----------------------------------------------------------------------------
(* jkbmsRs485NativeDecodeFrame.                                            *)

IsHead(b)  == b[2] = 1
IsEnd(b)   == b[2] = Size(b[1])
IsEntry(b) == b[2] \in 3..(Size(b[1]) - 1)

Field(b) == b[1].parts[b[2] - 2]

\* The entries of data up to the first end id are read, whichever answer they
\* belong to; heads and lengths between them are ids nobody knows.
Entries(data) ==
    LET ends == {i \in DOMAIN data : IsEnd(data[i])}
    IN {i \in DOMAIN data : IsEntry(data[i]) /\ \A e \in ends : i < e}

\* Of a field that comes twice the last value counts.
Read(data) ==
    LET at(f) == {i \in Entries(data) : Field(data[i]) = f}
        last(f) == CHOOSE i \in at(f) : \A j \in at(f) : j <= i
    IN [f \in {Field(data[i]) : i \in Entries(data)} |->
            IF f = data[last(f)][1].bad THEN Odd ELSE data[last(f)][1].val]

\* What a frame may be read as.  If its length reaches into another one, its bytes
\* may be taken for the data of an entry, which may be too long as well; a
\* damaged entry may have an id nobody knows.
Decoded(data) ==
    LET new     == Read(data)
        whole   == \A i \in 2..Len(data) : data[i][1] = data[1][1]
        without == [f \in DOMAIN new \ {data[1][1].bad} |-> new[f]]
    IN IF whole /\ data[1][1].bad = "none" THEN {new}
       ELSE {new, without} \cup (IF whole THEN {} ELSE {Nothing})

-----------------------------------------------------------------------------
(* consumeRx: from head to head; s is the source, and may is what it may be    *)
(* after the frames that were read so far.                                     *)

From(buf, i) == SubSeq(buf, i, Len(buf))
\* publishSnapshot; a frame nothing could be read of changes nothing.
Published(s, snap) ==
    IF snap = Nothing THEN s ELSE [model |-> snap, have |-> TRUE, frame |-> 0]

\* At place p of the buffer: a head whose length fits the buffer is a frame as
\* soon as all of it is there, and no head in it is looked at.
FrameAt(s, p) ==
    LET buf == s.rx
        f   == buf[p][1]
    IN IF p < s.next \/ ~IsHead(buf[p]) \/ s.wait \/ f.len < 3 \/ f.len > BufMax
          \/ (p < Len(buf) /\ buf[p + 1] # <<f, 2>>)
       THEN s
       ELSE IF p + f.len - 1 > Len(buf) THEN [s EXCEPT !.wait = TRUE, !.next = p]
       ELSE [s EXCEPT !.next = p + f.len,
                      !.may = {Published(m, snap) : m \in @, snap \in Decoded(SubSeq(buf, p, p + f.len - 1))}]

\* Bytes that do not fit drop what is there.
Fill(data) ==
    IF Len(data) > BufMax - Len(rx)
    THEN From(data, IF Len(data) > BufMax THEN Len(data) - BufMax + 1 ELSE 1)
    ELSE rx \o data

\* What is before a head that is waited for is dropped.
ConsumeRx ==
    LET old == [model |-> model, have |-> have, frame |-> Grown(frame)]
        buf == Fill(wire)
        upTo[p \in 0..Len(buf)] ==
            IF p = 0 THEN [rx |-> buf, next |-> 1, wait |-> FALSE, may |-> {old}]
            ELSE FrameAt(upTo[p - 1], p)
        e   == upTo[Len(buf)]
    IN IF wire = <<>> THEN [rx |-> rx, may |-> {old}]
       ELSE [may |-> e.may, rx |-> IF e.wait THEN From(buf, e.next) ELSE <<>>]

-----------------------------------------------------------------------------
(* The loop.                                                               *)

AnswerOf(parts) ==
    [parts |-> parts, val |-> gen, bad |-> "none", len |-> Len(parts) + 3, sent |-> Len(parts) + 3]

Sooner == IF answer = NoAnswer THEN answer ELSE [answer EXCEPT !.due = @ - 1]

\* The entries a battery sends that leaves some of them out.
AllBut(skip) ==
    LET upTo[i \in 0..Len(Fields)] ==
            IF i = 0 THEN <<>>
            ELSE IF Fields[i] \in skip THEN upTo[i - 1]
            ELSE Append(upTo[i - 1], Fields[i])
    IN upTo[Len(Fields)]

Sent ==
    IF cut \/ answer # NoAnswer THEN answer' = Sooner
    ELSE \E n \in Delays, skip \in SUBSET Optional :
            answer' = [frame |-> AnswerOf(AllBut(skip)), due |-> n, from |-> 0]

NotDue     == since < Period /\ since' = since + 1 /\ answer' = Sooner /\ UNCHANGED faults

WriteFails == /\ since = Period /\ faults < MaxFaults
              /\ faults' = faults + 1 /\ answer' = Sooner /\ UNCHANGED since

Poll       == since = Period /\ since' = 1 /\ Sent /\ UNCHANGED faults

\* Mutant: the source is dropped after every unanswered request.
ClearAtOnce(s) ==
    IF s.have /\ s.frame > Period THEN [s EXCEPT !.model = Nothing, !.have = FALSE] ELSE s

\* maybeClearStaleSource.
ClearStale(s) ==
    IF s.have /\ s.frame > Stale THEN [s EXCEPT !.model = Nothing, !.have = FALSE] ELSE s

Loop ==
    /\ answer = NoAnswer \/ answer.due > 0
    /\ \E c \in {ConsumeRx} : \E m \in c.may : \E s \in {ClearStale(m)} :
          rx' = c.rx /\ model' = s.model /\ have' = s.have /\ frame' = s.frame
    /\ NotDue \/ WriteFails \/ Poll
    /\ wire' = <<>> /\ heard' = Grown(heard)
    /\ UNCHANGED envVars

-----------------------------------------------------------------------------
(* The battery and the line.                                               *)

Due == answer # NoAnswer /\ answer.due = 0

Harm(h) == Due /\ answer.from = 0 /\ h \in Harms /\ faults < MaxFaults /\ faults' = faults + 1

Arrive ==
    /\ Due
    /\ wire' = wire \o From(Bytes(answer.frame), answer.from + 1)
    /\ answer' = NoAnswer /\ heard' = 0
    /\ UNCHANGED <<srcVars, envVars, faults>>

Lose == Harm("lost") /\ answer' = NoAnswer /\ UNCHANGED <<srcVars, envVars, wire, heard>>

Split ==
    /\ Harm("split")
    /\ \E k \in 1..(answer.frame.sent - 1) :
          /\ wire' = wire \o SubSeq(Bytes(answer.frame), 1, k)
          /\ answer' = [answer EXCEPT !.due = 1, !.from = k]
    /\ heard' = 0
    /\ UNCHANGED <<srcVars, envVars>>

\* A wrong bit in the length: too short, too long, or out of the range.
DamageLength ==
    /\ Harm("length")
    /\ \E n \in {3, Size(answer.frame) + 2, BufMax, BufMax + 1} : answer' = [answer EXCEPT !.frame.len = n]
    /\ UNCHANGED <<srcVars, envVars, wire, heard>>

DamageEntry ==
    /\ Harm("entry")
    /\ \E f \in Range(answer.frame.parts) : answer' = [answer EXCEPT !.frame.bad = f]
    /\ UNCHANGED <<srcVars, envVars, wire, heard>>

\* The rest of an answer is lost.
Truncate ==
    /\ Harm("truncated")
    /\ \E k \in 2..(answer.frame.sent - 1) : answer' = [answer EXCEPT !.frame.sent = k]
    /\ UNCHANGED <<srcVars, envVars, wire, heard>>

Cut ==
    /\ ~cut /\ cuts < MaxCuts
    /\ cut' = TRUE /\ cuts' = cuts + 1 /\ answer' = NoAnswer
    /\ torn' = (torn \/ answer.from > 0)
    /\ UNCHANGED <<srcVars, wire, gen, heard, faults>>

Join ==
    /\ cut /\ cut' = FALSE /\ gen' = gen + 1
    /\ UNCHANGED <<srcVars, wire, answer, cuts, torn, heard, faults>>

-----------------------------------------------------------------------------
Harmed == Lose \/ Split \/ DamageLength \/ DamageEntry \/ Truncate

Next == Loop \/ Arrive \/ Harmed \/ Cut \/ Join

\* Every loop, and nothing else, lets this age change.
Turn == (answer = NoAnswer \/ answer.due > 0) /\ since' \in 0..Period /\ since' # since

Spec == Init /\ [][Next]_vars /\ WF_since(Turn) /\ WF_vars(Arrive) /\ WF_vars(Join)

-----------------------------------------------------------------------------
(* Properties.                                                             *)

\* What is shown was sent in one answer: no field is left of an earlier one, or of
\* an earlier battery, as long as no byte is wrong or missing, that is, none is
\* damaged or lost in an answer, and no battery goes away while it sends one.
SnapshotIsOneAnswer == ~torn => \A f, g \in DOMAIN model : model[f] = model[g]

\* Of a step: one harmed answer, whatever its length says and however much of the
\* next answers it swallows, does not stop the source.
HarmIsSurvived == (faults' <= 1 /\ cuts' = 0 /\ have) => have'

\* A silent battery is not shown, nor is anything read of a rest in the buffer.
SilentIsCleared == heard > Stale + 1 => ~have

\* After all that is lost, swallowed or wrong, what the battery holds is shown, all
\* it must send: what must be so in the end.
Found ==
    /\ have /\ Range(Fields) \ Optional \subseteq DOMAIN model
    /\ \A f \in DOMAIN model : model[f] = gen
=============================================================================
