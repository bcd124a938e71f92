------------------------------ MODULE CanDecoder ------------------------------
(***************************************************************************)
(* The decoder of battery frames on one CAN interface. Two tasks share its *)
(* caches: the receiver stores each frame and publishes the battery model  *)
(* at once, and a task that runs every five seconds publishes what is      *)
(* still fresh, or clears what was published. A frame is its identifier,   *)
(* its age, and whether the state of charge in it is one that can be.      *)
(***************************************************************************)
EXTENDS Naturals, FiniteSets, FiniteSetsExt

CONSTANTS
    Protocols,    \* what the interface may be set to
    BmsHere,      \* may the battery be on this interface: a set of booleans
    Sends,        \* what is on the bus under each protocol
    Odd,          \* frames that may hold a state of charge that cannot be
    BridgeStale,  \* BRIDGE_SOURCE_STALE_MS, in ticks
    PylonStale,   \* CAN_PYLON_LIKE_SOURCE_STALE_MS
    SnapPeriod,   \* CAN_DECODER_SNAPSHOT_PRINT_PERIOD_MS
    Alive,        \* the battery sends all its frames in time
    MaxRestarts   \* bound: restarts of the route

PylonLike == {"pylon", "victron", "deye", "goodwe"}

PylonIds   == {"p351", "p355", "p356", "p35C"}
GoodweIds  == {"g456", "g457", "g458"}
GrowattIds == {"w311", "w313", "w322"}
JkIds      == {"j02F4", "j04F4"}
Cached     == PylonIds \cup GoodweIds \cup GrowattIds \cup JkIds

DecoderAssumption ==
    /\ Protocols \subseteq PylonLike \cup {"growatt", "jk"} /\ BmsHere \subseteq BOOLEAN
    /\ Sends \in [Protocols -> SUBSET (Cached \cup {"other"})] /\ Odd \subseteq Cached
    /\ {BridgeStale, PylonStale, SnapPeriod} \subseteq Nat \ {0} /\ BridgeStale <= PylonStale
    /\ Alive \in BOOLEAN /\ MaxRestarts \in Nat

VARIABLES
    protocol, bmsHere,
    cache,     \* the four caches: what was heard, by identifier
    model,     \* g_batteryModel, and what it was made of
    shown,     \* g_manualTelemetry
    pc, copy,  \* of the periodic task: between its copy and what it does with it
    since,     \* time since the periodic task ran
    quiet,     \* time since any frame
    stopping,  \* the route is being stopped
    restarts

vars == <<protocol, bmsHere, cache, model, shown, pc, copy, since, quiet, stopping, restarts>>

StaleOf(p) == IF p \in PylonLike THEN PylonStale ELSE BridgeStale
MaxAge     == PylonStale + (2 + MaxRestarts) * SnapPeriod + 1
Frames     == [v : {"plain", "odd"}, age : 0..PylonStale + 1]
Views      == [from : {"here", "elsewhere"}, old : 0..PylonStale + 1, stamp : 0..MaxAge]

TypeOK ==
    /\ protocol \in Protocols /\ bmsHere \in BmsHere
    /\ \A c \in {cache, copy} : DOMAIN c \subseteq Cached /\ \A i \in DOMAIN c : c[i] \in Frames
    /\ \A s \in {model, shown} : s \subseteq Views /\ Cardinality(s) <= 1
    /\ pc \in {"idle", "copied"} /\ since \in 0..SnapPeriod /\ quiet \in 0..MaxAge
    /\ stopping \in BOOLEAN /\ restarts \in 0..MaxRestarts

Nothing == [i \in {} |-> 0]

Init ==
    /\ protocol \in Protocols /\ bmsHere \in BmsHere /\ cache = Nothing /\ model = {} /\ shown = {}
    /\ pc = "idle" /\ copy = Nothing /\ since = 0 /\ quiet = 0
    /\ stopping = FALSE /\ restarts = 0

-----------------------------------------------------------------------------
(* What the frames of a dialect tell.                                      *)

Plain(c, i)     == c[i].v = "plain"
Fresh(c, i, ms) == i \in DOMAIN c /\ c[i].age <= ms
Oldest(c, ids)  == Max({c[i].age : i \in ids})

View(c, ids) == {[from |-> "here", old |-> Oldest(c, ids), stamp |-> 0]}

\* canUpdateUniversalModelFromPylonCache: where the state of charge cannot be, 0 is published.
FromPylon(c) ==
    IF Fresh(c, "p355", PylonStale) /\ Fresh(c, "p356", PylonStale) THEN View(c, {"p355", "p356"}) ELSE {}

\* canUpdateUniversalModelFromGoodweCache: the state of charge is clamped.
FromGoodwe(c) ==
    IF Fresh(c, "g457", BridgeStale) /\ Fresh(c, "g458", BridgeStale) THEN View(c, {"g457", "g458"}) ELSE {}

\* canUpdateUniversalModelFromGrowattCache: no frame is too old, and one of two must
\* hold a state of charge that can be.
FromGrowatt(c) ==
    LET soc == {i \in {"w313", "w322"} \cap DOMAIN c : Plain(c, i)}
    IN IF "w313" \in DOMAIN c /\ soc # {}
       THEN View(c, {"w313"} \cup (IF "w313" \in soc THEN {} ELSE soc)) ELSE {}

\* jkbmsCanExtract.
FromJk(c) == IF "j02F4" \in DOMAIN c THEN View(c, {"j02F4"}) ELSE {}

\* What a frame publishes, for the model and for the telemetry.
ToModel(c) ==
    CASE protocol = "growatt" -> FromGrowatt(c)
      [] protocol = "jk"      -> FromJk(c)
      [] protocol = "goodwe"  -> IF FromPylon(c) # {} THEN FromPylon(c) ELSE FromGoodwe(c)
      [] OTHER                -> FromPylon(c)

ToShown(c) ==
    CASE protocol = "growatt" -> FromGrowatt(c)
      [] protocol = "goodwe"  -> FromGoodwe(c)
      [] OTHER                -> {}

\* canDecoderOnFrame: every cache is offered the frame, and every dialect is asked. Each of them takes
\* a critical section of its own; all are over within a tick, and here they are one step.
OnFrame(i, v) ==
    LET c == IF i \in Cached THEN [j \in DOMAIN cache \cup {i} |-> IF j = i THEN [v |-> v, age |-> 0] ELSE cache[j]]
             ELSE cache
    IN /\ i \in Sends[protocol] /\ (v = "odd" => i \in Odd)
       /\ cache' = c /\ quiet' = 0
       /\ model' = IF ToModel(c) # {} THEN ToModel(c) ELSE model
       /\ shown' = IF ToShown(c) # {} THEN ToShown(c) ELSE shown
       /\ UNCHANGED <<protocol, bmsHere, pc, copy, since, stopping, restarts>>

-----------------------------------------------------------------------------
(* canDecoderPrintCachedSnapshot: a copy is taken under the lock, and what *)
(* is too old is removed from the copy.                                    *)

WindowOf(i) == IF i \in PylonIds THEN StaleOf(protocol) ELSE BridgeStale

Copy ==
    /\ pc = "idle" /\ since = SnapPeriod /\ pc' = "copied" /\ since' = 0
    /\ copy' = [i \in {i \in DOMAIN cache : Fresh(cache, i, WindowOf(i))} |-> cache[i]]
    /\ UNCHANGED <<protocol, bmsHere, cache, model, shown, quiet, stopping, restarts>>

Required(p) == IF p \in {"deye", "victron"} THEN {"p351", "p355", "p356"} ELSE {"p355", "p356"}

AnyOf(ids) == DOMAIN copy \cap ids # {}

Decodes ==
    \/ AnyOf(PylonIds) /\ Required(protocol) \subseteq DOMAIN copy
    \/ ~AnyOf(PylonIds) /\ protocol = "jk" /\ "j02F4" \in DOMAIN copy

\* canClearStaleSourceTelemetry is called; Growatt frames that are complete are only logged.
Clears ==
    /\ ~Decodes
    /\ \/ AnyOf(PylonIds) \/ protocol \in PylonLike \/ protocol = "jk"
       \/ protocol = "growatt" /\ ~AnyOf({"w313", "w322"})

Publish ==
    LET s == IF Decodes THEN (IF AnyOf(PylonIds) THEN View(copy, {"p355", "p356"}) ELSE FromJk(copy)) ELSE {}
    IN /\ pc = "copied" /\ pc' = "idle" /\ copy' = Nothing
       /\ model' = (IF Clears /\ bmsHere THEN {} ELSE IF s = {} THEN model ELSE s)
       /\ shown' = (IF Clears /\ bmsHere THEN {} ELSE IF s = {} THEN shown ELSE s)
       /\ UNCHANGED <<protocol, bmsHere, cache, since, quiet, stopping, restarts>>

-----------------------------------------------------------------------------
\* pylonRs485BridgeStop is called for every route and empties the telemetry; the receiver still runs.
StopBridge ==
    /\ ~stopping /\ restarts < MaxRestarts /\ stopping' = TRUE /\ shown' = {}
    /\ UNCHANGED <<protocol, bmsHere, cache, model, pc, copy, since, quiet, restarts>>

\* Then the tasks are deleted wherever they are and the caches are reset, and the route is started
\* again; the model stays, and so does what was published in between.
Restart ==
    /\ stopping /\ stopping' = FALSE /\ restarts' = restarts + 1
    /\ cache' = Nothing /\ copy' = Nothing /\ pc' = "idle" /\ since' = 0
    /\ UNCHANGED <<protocol, bmsHere, model, shown, quiet>>

\* The battery is on another interface, where the same decoder publishes it.
Elsewhere ==
    /\ ~bmsHere /\ model' = {[from |-> "elsewhere", old |-> 0, stamp |-> 0]}
    /\ shown' = model' /\ UNCHANGED <<protocol, bmsHere, cache, pc, copy, since, quiet, stopping, restarts>>

Grown(a, max) == IF a >= max THEN max ELSE a + 1
Late(i) == i \in DOMAIN cache => cache[i].age >= WindowOf(i)

Tick ==
    /\ pc = "idle" /\ ~stopping /\ since < SnapPeriod /\ since' = since + 1
    /\ Alive => \A i \in Sends[protocol] \cap Cached : ~Late(i)
    /\ cache' = [i \in DOMAIN cache |-> [cache[i] EXCEPT !.age = Grown(@, PylonStale + 1)]]
    /\ model' = {[m EXCEPT !.stamp = Grown(@, MaxAge)] : m \in model}
    /\ shown' = {[m EXCEPT !.stamp = Grown(@, MaxAge)] : m \in shown}
    /\ quiet' = Grown(quiet, MaxAge)
    /\ UNCHANGED <<protocol, bmsHere, pc, copy, stopping, restarts>>

Next ==
    \/ \E i \in Cached \cup {"other"}, v \in {"plain", "odd"} : OnFrame(i, v)
    \/ Copy \/ Publish \/ StopBridge \/ Restart \/ Elsewhere \/ Tick

\* A battery that lives sends what is late.
SendLate == \E i \in Cached : Late(i) /\ OnFrame(i, "plain")

Spec == Init /\ [][Next]_vars
        /\ WF_vars(Copy) /\ WF_vars(Publish) /\ WF_vars(Tick) /\ WF_vars(Restart)
        /\ WF_vars(SendLate)

-----------------------------------------------------------------------------
\* What a Pylon-like battery told is in the model and in the telemetry no longer than its window
\* and one period of the snapshot task, and another period for each restart of the route, whatever
\* else is heard meanwhile.
RecentOrForgotten ==
    protocol \in PylonLike =>
        \A m \in model \cup shown :
            m.from = "here" => m.old + m.stamp <= PylonStale + (1 + restarts) * SnapPeriod

\* After a bus has been silent for a window and a period, nothing of it is left.
SilentBusIsForgotten ==
    bmsHere /\ quiet > StaleOf(protocol) + (1 + restarts) * SnapPeriod => model = {} /\ shown = {}

\* Of a step: the snapshot task of an interface that is not the battery's leaves the battery alone.
OtherIsKept ==
    ~bmsHere /\ (\E m \in model : m.from = "elsewhere") => \E m \in model' : m.from = "elsewhere"

\* A battery that sends in time is, from some time on, always in the model and in the
\* telemetry: what must be so then.
Found == model # {} /\ shown # {}

=============================================================================
