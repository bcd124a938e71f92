--------------------------- MODULE GrowattResponder ---------------------------
(***************************************************************************)
(* The Growatt responder on RS485: requests of the inverter are found in a *)
(* stream of bytes and answered, on one kind of route with what a battery  *)
(* on CAN told in its own dialect, on the other with the shared model.     *)
(* The stream is modelled in halves of a request, noise included; of the   *)
(* values only whether they are known.                                     *)
(***************************************************************************)
EXTENDS Naturals, FiniteSets, Sequences, SequencesExt

CONSTANTS
    Stale,        \* BRIDGE_SOURCE_STALE_MS
    Chunk,        \* sizeof(rxChunk), in halves of a request
    QueueMax,     \* receive queue of the CAN controller
    Batteries,    \* what may be on the bus: [frames, cells], the frames it sends and whether
                  \*   the extremes of its cells may be true
    Routes,       \* "can", "model"
    Harms,        \* "write", "lost", "noise", "foreign"
    MaxRequests,  \* bound: requests
    MaxFaults     \* bound: harms, exchanged batteries, restarts

\* What each frame holds.
Fields ==
    [f313 |-> {"pack", "temp", "soc", "soh"}, f314 |-> {}, f319 |-> {"cells"}, f322 |-> {"temp", "soc"},
     batt |-> {"pack", "soc", "soh"}, volt |-> {"cells"}, temp |-> {"temp"},
     f456 |-> {"limit"}, f457 |-> {"soc", "soh"}, f458 |-> {"pack", "temp"},
     f351 |-> {"limit"}, f355 |-> {"soc", "soh"}, f356 |-> {"pack", "temp"}, f373 |-> {"cells"}]

ResponderAssumption ==
    /\ {Stale, MaxRequests, MaxFaults} \subseteq Nat /\ {Chunk, QueueMax} \subseteq Nat \ {0}
    /\ Routes \subseteq {"can", "model"}
    /\ Batteries \subseteq [frames : SUBSET DOMAIN Fields, cells : BOOLEAN]
    /\ Harms \subseteq {"write", "lost", "noise", "foreign"}

VARIABLES
    route,    \* the task that runs
    cache,    \* ctx->cache: the values that are known
    age,      \* age of lastCanFrameUs
    canq,     \* frames the controller has received
    model,    \* whether the shared model is valid, on the other kind of route
    rx,       \* what the UART has received
    stream,   \* streamBuf
    shown,    \* g_canRsGrowattSnapshot
    verdict,  \* of the last request: whether it was answered, and what was then known
    battery, heard, told, asked, log, judged, faults

canVars  == <<cache, age>>
lineVars == <<rx, stream, asked, log, judged, verdict>>
envVars  == <<battery, heard, told>>
vars     == <<route, canVars, canq, model, lineVars, shown, envVars, faults>>

Needed   == {"soc", "soh", "pack", "temp", "cells"}
NotShown == [have |-> FALSE]
NoRequest == [req |-> 0]
MaxAge   == 3 * Stale + 2
Grown(a) == IF a >= MaxAge THEN MaxAge ELSE a + 1

TypeOK ==
    /\ route \in Routes /\ cache \subseteq Needed \cup {"limit"}
    /\ {age, heard} \subseteq 0..MaxAge
    /\ Len(canq) <= QueueMax /\ model \in BOOLEAN
    /\ Len(stream) <= 1 /\ asked \in 0..MaxRequests /\ faults \in 0..MaxFaults

Init ==
    /\ route \in Routes /\ cache = {} /\ age = MaxAge /\ canq = <<>>
    /\ model = FALSE /\ rx = <<>> /\ stream = <<>> /\ shown = NotShown /\ verdict = NoRequest
    /\ battery \in Batteries /\ heard = MaxAge /\ told = {}
    /\ asked = 0 /\ log = <<>> /\ judged = <<>> /\ faults = 0

-----------------------------------------------------------------------------
(* cacheFromCanFrame.                                                      *)

\* Mutant: extremes are only what the battery told.
NotEstimated(c) == c

\* ensureCellExtremesFromPack, and what the GoodWe frame does by itself.
Estimated(c) == IF "pack" \in c THEN c \cup {"cells"} ELSE c

\* The extremes in 0x319 are taken as they are, those of others if they may be true.
Taken(f) == Fields[f.id] \ (IF f.id \in {"volt", "f373"} /\ ~f.cells THEN {"cells"} ELSE {})

\* Mutant: any frame shows that the battery is alive.
CachedAny(e, frames) ==
    LET known == {f \in frames : f.id \in DOMAIN Fields}
    IN  IF frames = {} THEN e
        ELSE [cache |-> Estimated(e.cache \cup UNION {Taken(f) : f \in known}), age |-> 0]

\* The frames that wait, one after the other: what they tell adds up.
Cached(e, frames) ==
    LET known == {f \in frames : f.id \in DOMAIN Fields}
    IN  IF known = {} THEN e
        ELSE [cache |-> Estimated(e.cache \cup UNION {Taken(f) : f \in known}), age |-> 0]

Drained == Cached([cache |-> cache, age |-> age], Range(canq))

-----------------------------------------------------------------------------
(* The stream: the requests that are in it, and what is kept for the next  *)
(* reading when no more are found.                                         *)

IsRequest(s, i) == i + 1 \in DOMAIN s /\ s[i].part = 1 /\ s[i + 1] = [req |-> s[i].req, part |-> 2]

At(s) == {i \in DOMAIN s : IsRequest(s, i)}

Nth(S, k) == CHOOSE i \in S : Cardinality({j \in S : j <= i}) = k

Requests(s) == [k \in 1..Cardinality(At(s)) |-> s[Nth(At(s), k)].req]

\* Mutant: a request that was found stays.
RequestKept(s) == s

\* What is kept of the stream: half a request at most.
Rest(s) ==
    IF s = <<>> \/ (Len(s) > 1 /\ IsRequest(s, Len(s) - 1)) THEN <<>> ELSE <<s[Len(s)]>>

Ready(c) == Needed \subseteq c

Fresh(a) == a <= Stale

\* Whether the task would answer now; fillSnapshotFromBatteryModel makes up what is
\* missing in a valid model.
AnswersCan(e) == Ready(e.cache) /\ Fresh(e.age)

\* One turn of the task: frames, then a chunk of bytes, then every request that is
\* complete; ok says whether the answers can be written.
Turn(e, answers, ok) ==
    LET n    == IF Len(rx) < Chunk THEN Len(rx) ELSE Chunk
        s    == stream \o SubSeq(rx, 1, n)
        reqs == Requests(s)
        sent == ok /\ answers
    IN /\ cache' = e.cache /\ age' = e.age
       /\ rx' = SubSeq(rx, n + 1, Len(rx)) /\ stream' = Rest(s)
       /\ judged' = judged \o reqs
       /\ IF reqs = <<>> THEN UNCHANGED <<verdict, shown>>
          ELSE /\ verdict' = [req |-> Last(reqs), sent |-> sent, ok |-> ok, heard |-> heard, told |-> told]
               /\ shown' = IF sent THEN [have |-> TRUE, age |-> 0] ELSE shown

Writes(ok) == ok \/ ("write" \in Harms /\ faults < MaxFaults)

\* canRs485GrowattTask.
CanTask ==
    /\ route = "can" /\ (canq # <<>> \/ rx # <<>>)
    /\ canq' = <<>>
    /\ \E ok \in BOOLEAN, e \in {Drained} :
          /\ Writes(ok) /\ Turn(e, AnswersCan(e), ok)
          /\ faults' = IF ok THEN faults ELSE faults + 1
    /\ UNCHANGED <<route, model, asked, log, envVars>>

\* jkbmsRs485GrowattTask.
ModelTask ==
    /\ route = "model" /\ rx # <<>>
    /\ \E ok \in BOOLEAN :
          /\ Writes(ok) /\ Turn([cache |-> cache, age |-> age], model, ok)
          /\ faults' = IF ok THEN faults ELSE faults + 1
    /\ UNCHANGED <<route, canq, model, asked, log, envVars>>

\* canRs485GrowattBridgeStop, clearTransportBuffers, and one of the two Enable.
Restart ==
    /\ faults < MaxFaults /\ faults' = faults + 1
    /\ route' \in Routes
    /\ cache' = {} /\ age' = MaxAge /\ canq' = <<>> /\ told' = {}
    /\ rx' = <<>> /\ stream' = <<>> /\ log' = <<>> /\ judged' = <<>>
    /\ shown' = NotShown /\ verdict' = NoRequest /\ model' = FALSE
    /\ UNCHANGED <<asked, battery, heard>>

\* Whether canRs485GrowattBridgeGetLatestSnapshot gives one.
Latest == shown.have /\ shown.age <= Stale

-----------------------------------------------------------------------------
(* The battery, the bus, the inverter and time.                            *)

Frame(id) == [id |-> id, cells |-> battery.cells]

Send ==
    /\ route = "can" /\ Len(canq) < QueueMax
    /\ \E id \in battery.frames :
          /\ canq' = Append(canq, Frame(id)) /\ told' = told \cup {id}
          /\ heard' = 0
    /\ UNCHANGED <<route, canVars, model, lineVars, shown, battery, faults>>

\* Other devices are on the bus, too.
Foreign ==
    /\ "foreign" \in Harms /\ faults < MaxFaults /\ faults' = faults + 1
    /\ route = "can" /\ Len(canq) < QueueMax
    /\ canq' = Append(canq, [Frame("f314") EXCEPT !.id = "other"])
    /\ UNCHANGED <<route, canVars, model, lineVars, shown, envVars>>

\* The source of the other route sets the model or clears it.
SetModel ==
    /\ route = "model" /\ model' \in BOOLEAN
    /\ heard' = IF model' THEN 0 ELSE heard
    /\ UNCHANGED <<route, canVars, canq, lineVars, shown, battery, told, faults>>

\* The inverter asks, its request arriving in halves; one may be lost, or be noise.
Half(r, p) ==
    \/ /\ rx' = Append(rx, [req |-> r, part |-> p]) /\ log' = Append(log, [req |-> r, part |-> p])
       /\ UNCHANGED faults
    \/ /\ "lost" \in Harms /\ faults < MaxFaults /\ faults' = faults + 1 /\ UNCHANGED <<rx, log>>
    \/ /\ "noise" \in Harms /\ faults < MaxFaults /\ faults' = faults + 1
       /\ rx' = Append(rx, [req |-> 0, part |-> 1]) /\ log' = Append(log, [req |-> 0, part |-> 1])

AskBegins ==
    /\ asked < MaxRequests /\ asked' = asked + 1 /\ Half(asked + 1, 1)
    /\ UNCHANGED <<route, canVars, canq, model, stream, judged, verdict, shown, envVars>>

AskEnds ==
    /\ log # <<>> /\ log[Len(log)] = [req |-> asked, part |-> 1]
    /\ Half(asked, 2)
    /\ UNCHANGED <<route, canVars, canq, model, asked, stream, judged, verdict, shown, envVars>>

\* A tick is long, and the task looks every 2 ms: nothing waits for it.
Tick ==
    /\ rx = <<>> /\ (route = "can" => canq = <<>>)
    /\ age' = Grown(age)
    /\ heard' = IF model THEN 0 ELSE Grown(heard)
    /\ shown' = IF shown.have THEN [shown EXCEPT !.age = Grown(@)] ELSE shown
    /\ UNCHANGED <<route, cache, canq, model, lineVars, battery, told, faults>>

Task == CanTask \/ ModelTask

Next == Task \/ Restart \/ Send \/ Foreign \/ SetModel \/ AskBegins \/ AskEnds \/ Tick

Spec == Init /\ [][Next]_vars

-----------------------------------------------------------------------------
(* Properties.                                                             *)

Judged == verdict # NoRequest

\* However a request is cut into readings, and whatever is around it, it is found, once
\* and in its turn.
EveryRequestIsFound == rx = <<>> => judged = Requests(log)

\* Nothing is answered for a battery that is silent, whatever else is on its bus.
SilentIsNotAnswered == (Judged /\ verdict.sent) => verdict.heard <= Stale

\* A battery that has sent each of its frames once and is still heard is answered for,
\* whatever its dialect.
HeardIsAnswered ==
    (Judged /\ route = "can" /\ verdict.ok /\ ~verdict.sent) =>
        verdict.heard > Stale \/ verdict.told # battery.frames

\* The telemetry of the responder is not older than the two windows.
ShownIsRecent == Latest => heard <= 2 * Stale

=============================================================================
