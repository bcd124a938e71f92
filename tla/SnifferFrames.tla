---------------------------- MODULE SnifferFrames ----------------------------
(***************************************************************************)
(* The RS485 sniffer: bytes are read as they have come and gathered in a   *)
(* frame, which is logged when the line has been quiet or when the next    *)
(* bytes do not fit. A byte is its number. The task turns once in a tick.  *)
(***************************************************************************)
EXTENDS Naturals, Sequences, SequencesExt

CONSTANTS
    Bytes,     \* bound: bytes on the line
    PerTick,   \* bytes that come in a tick
    FrameMax,  \* room in a frame
    Gap        \* SNIFFER_RS485_GAP_US, in ticks

SnifferAssumption ==
    /\ Bytes \in Nat /\ {PerTick, FrameMax, Gap} \subseteq Nat \ {0} /\ 2 * PerTick <= FrameMax

VARIABLES
    uart,          \* bytes come and not read
    count,         \* bytes come
    here,          \* of them, in this tick
    quiet,         \* ticks since the last
    first, joined, \* bytes after a long silence, and bytes after a short one
    frame, age, haveLastByte,
    logs,
    turned         \* the task has had its turn in this tick

vars == <<uart, count, here, quiet, first, joined, frame, age, haveLastByte, logs, turned>>
line == <<count, here, quiet, first, joined>>

Long == Gap + 3

TypeOK ==
    /\ count \in 0..Bytes /\ here \in 0..PerTick /\ quiet \in 0..Long /\ first \cup joined \subseteq 1..count
    /\ Len(frame) <= FrameMax /\ age \in 0..Long /\ haveLastByte \in BOOLEAN /\ turned \in BOOLEAN
    /\ Range(uart) \cup Range(frame) \subseteq 1..count

Init ==
    /\ uart = <<>> /\ count = 0 /\ here = 0 /\ quiet = Long /\ first = {} /\ joined = {}
    /\ frame = <<>> /\ age = 0 /\ haveLastByte = FALSE /\ logs = <<>> /\ turned = FALSE

Come ==
    /\ count < Bytes /\ here < PerTick /\ count' = count + 1 /\ here' = here + 1 /\ quiet' = 0
    /\ uart' = Append(uart, count + 1)
    /\ first' = IF quiet > Gap + 1 THEN first \cup {count + 1} ELSE first
    /\ joined' = IF quiet < Gap THEN joined \cup {count + 1} ELSE joined
    /\ UNCHANGED <<frame, age, haveLastByte, logs, turned>>

Logged(f, l) == IF f = <<>> THEN l ELSE Append(l, f)

\* What does not fit begins a new frame.
Gather(f, l, chunk) ==
    IF Len(f) + Len(chunk) > FrameMax THEN [frame |-> chunk, logs |-> Logged(f, l)]
    ELSE [frame |-> f \o chunk, logs |-> l]

Ended == haveLastByte /\ age > Gap

\* Mutant: bytes are gathered before the silence is looked at.
TurnUnchecked ==
    /\ turned' = TRUE /\ uart' = <<>> /\ UNCHANGED line
    /\ IF uart # <<>>
       THEN LET g == Gather(frame, logs, uart)
            IN frame' = g.frame /\ logs' = g.logs /\ age' = 0 /\ haveLastByte' = TRUE
       ELSE /\ frame' = (IF Ended THEN <<>> ELSE frame) /\ logs' = (IF Ended THEN Logged(frame, logs) ELSE logs)
            /\ haveLastByte' = (haveLastByte /\ ~Ended) /\ UNCHANGED age

\* A turn of rs485SnifferTask with bytes, and without.
Turn ==
    /\ turned' = TRUE /\ uart' = <<>> /\ UNCHANGED line
    /\ IF uart # <<>>
       THEN LET g == Gather(IF Ended THEN <<>> ELSE frame, IF Ended THEN Logged(frame, logs) ELSE logs, uart)
            IN frame' = g.frame /\ logs' = g.logs /\ age' = 0 /\ haveLastByte' = TRUE
       ELSE /\ frame' = (IF Ended THEN <<>> ELSE frame) /\ logs' = (IF Ended THEN Logged(frame, logs) ELSE logs)
            /\ haveLastByte' = (haveLastByte /\ ~Ended) /\ UNCHANGED age

Tick ==
    /\ turned /\ turned' = FALSE /\ here' = 0
    /\ quiet' = (IF quiet < Long THEN quiet + 1 ELSE quiet) /\ age' = (IF age < Long THEN age + 1 ELSE age)
    /\ UNCHANGED <<uart, count, first, joined, frame, haveLastByte, logs>>

Next == Come \/ Turn \/ Tick

Spec == Init /\ [][Next]_vars

-----------------------------------------------------------------------------
\* The bytes of s are those that came after the n-th.
Follows(s, n) == \A i \in DOMAIN s : s[i] = n + i

\* The last byte of the logs before the k-th.
Before(k) == IF k = 1 THEN 0 ELSE Last(logs[k - 1])

\* Every byte is logged once and in order, or waits to be.
NothingIsLost ==
    /\ \A k \in DOMAIN logs : logs[k] # <<>> /\ Follows(logs[k], Before(k))
    /\ Follows(frame \o uart, Before(Len(logs) + 1))
    /\ Before(Len(logs) + 1) + Len(frame \o uart) = count

\* What comes after a silence longer than the gap begins a log.
SilenceDivides ==
    \A k \in DOMAIN logs : \A i \in 2..Len(logs[k]) : logs[k][i] \notin first

\* What comes within the gap is divided only where the frame had no room for what comes in two ticks,
\* from turn to turn.
OnlySilenceDivides ==
    \A k \in 2..Len(logs) : logs[k][1] \in joined => Len(logs[k - 1]) + 2 * PerTick > FrameMax

\* A frame does not wait for the next one to be logged.
QuietIsLogged == quiet > Gap + 1 /\ turned => frame = <<>>
=============================================================================
