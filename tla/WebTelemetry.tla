----------------------------- MODULE WebTelemetry -----------------------------
(***************************************************************************)
(* What GET /api/telemetry and /api/telemetry2 tell. CAN decoders push the *)
(* battery they hear into a cache; pollers keep their latest snapshot and  *)
(* packet. The one task of the web server saves the settings and later     *)
(* reads the cache and the poller that the settings name, in several       *)
(* critical sections, while another task stops the old route and starts    *)
(* the new one. A value is known by the slot it was made for and its age.  *)
(***************************************************************************)
EXTENDS Integers, FiniteSets

CONSTANTS
    Routes,     \* settings: the kind of the battery in each slot
    Stale,      \* WEB_TELEMETRY_STALE_MS and the pollers' own windows, in ticks
    MaxPause,   \* bound: how long an answer may take
    Alive,      \* whether batteries answer in time: a set of possible choices
    MaxPosts    \* bound: settings saved

Pollers == {"pace", "jk", "daly"}
Slots   == {"bms1", "bms2"}

ASSUME TelemetryAssumption ==
    /\ \A r \in Routes : /\ r.bms1 \in Pollers \cup {"can"} /\ r.bms2 \in {"jk", "daly", "none"}
                         /\ r.bms1 # r.bms2
    /\ Stale \in Nat \ {0} /\ MaxPause \in Nat /\ Alive \subseteq BOOLEAN /\ MaxPosts \in Nat

VARIABLES
    saved,     \* runtimeSettingsGet
    running,   \* the route that runs
    apply,     \* where the change of the route is
    manual,    \* g_manualTelemetry and its time
    setter,    \* bridgeSetTelemetrySnapshot between the clock and its critical section
    snap, packet,  \* g_latestSnapshot, g_latestPacket of each poller
    pc, slot,  \* of the web server: where it is in its answer, and about what
    elapsed,   \* time since it read the clock
    settled,   \* the route ran as saved when it did
    got,       \* what it has read
    told,      \* the last answer
    alive,     \* batteries answer in time
    posts

srcVars == <<manual, setter, snap, packet>>
webVars == <<pc, slot, elapsed, settled, got, told>>
vars == <<saved, running, apply, srcVars, webVars, alive, posts>>

MaxAge == Stale + MaxPause + 1
Values == [route : Routes, slot : Slots, age : 0..MaxAge]
\* An age when the clock was read; negative for what came later.
Seen == [route : Routes, slot : Slots, age : -MaxPause..MaxAge]
Stamps == -MaxPause..MaxAge
Places == {"idle", "entered", "cached", "snapped", "read"}

AtMostOne(S, T) == S \subseteq T /\ Cardinality(S) <= 1

TypeOK ==
    /\ {saved, running} \subseteq Routes
    /\ apply \in {"done", "asked", "bridge", "can", "stopped"}
    /\ AtMostOne(manual, Values) /\ AtMostOne(setter, Values)
    /\ \A k \in Pollers : AtMostOne(snap[k], Values) /\ AtMostOne(packet[k], Values)
    /\ pc \in Places /\ slot \in Slots /\ elapsed \in 0..MaxPause /\ settled \in BOOLEAN
    /\ AtMostOne(got.manual, Seen) /\ AtMostOne(got.snap, Seen) /\ AtMostOne(got.packet, Seen)
    /\ AtMostOne(got.stamp, Stamps)
    /\ Cardinality(told) <= 1
    /\ \A t \in told : DOMAIN t = {"valid", "stale", "parts", "route", "slot", "settled"}
    /\ \A t \in told : /\ t.parts \subseteq Seen /\ t.route \in Routes /\ t.slot \in Slots
                       /\ {t.valid, t.stale, t.settled} \subseteq BOOLEAN
    /\ alive \in Alive /\ posts \in 0..MaxPosts

NothingRead == [manual |-> {}, snap |-> {}, packet |-> {}, stamp |-> {}]
NoneOfAll   == [k \in Pollers |-> {}]

Init ==
    /\ saved \in Routes /\ running = saved /\ apply = "done"
    /\ manual = {} /\ setter = {} /\ snap = NoneOfAll /\ packet = NoneOfAll
    /\ pc = "idle" /\ slot = "bms1" /\ elapsed = 0 /\ settled = FALSE /\ got = NothingRead /\ told = {}
    /\ alive \in Alive /\ posts = 0

-----------------------------------------------------------------------------
(* The sources.                                                            *)

New(s) == {[route |-> running, slot |-> s, age |-> 0]}

CanRuns     == running.bms1 = "can" /\ apply \in {"done", "asked", "bridge"}
Runs(k, s)  == running[s] = k /\ apply \in {"done", "asked", "bridge", "can"}

\* A decoder of CAN frames calls bridgeSetTelemetrySnapshot, which reads the clock first. No caller
\* of today tells an invalid battery.
SetterEnters ==
    /\ CanRuns /\ setter = {} /\ setter' = New("bms1")
    /\ UNCHANGED <<saved, running, apply, manual, snap, packet, webVars, alive, posts>>

SetterStores ==
    /\ CanRuns /\ setter # {} /\ manual' = setter /\ setter' = {}
    /\ UNCHANGED <<saved, running, apply, snap, packet, webVars, alive, posts>>

\* canClearStaleSourceTelemetry, of the interface that the saved settings name.
DecoderClears ==
    /\ CanRuns /\ saved.bms1 = "can" /\ setter = {} /\ \A m \in manual : m.age >= Stale
    /\ manual' = {} /\ UNCHANGED <<saved, running, apply, setter, snap, packet, webVars, alive, posts>>

\* The packet alone, of PACE, Growatt, China Tower and WOW.
PaceStores(s) ==
    /\ Runs("pace", s) /\ packet' = [packet EXCEPT !["pace"] = New(s)]
    /\ UNCHANGED <<saved, running, apply, manual, setter, snap, webVars, alive, posts>>

\* Snapshot and packet in two critical sections: JK, Voltronic, Seplos.
JkStoresSnapshot(s) ==
    /\ Runs("jk", s) /\ snap' = [snap EXCEPT !["jk"] = New(s)]
    /\ UNCHANGED <<saved, running, apply, manual, setter, packet, webVars, alive, posts>>

JkStoresPacket(s) ==
    /\ Runs("jk", s) /\ snap["jk"] # {} /\ packet' = [packet EXCEPT !["jk"] = snap["jk"]]
    /\ UNCHANGED <<saved, running, apply, manual, setter, snap, webVars, alive, posts>>

\* Both in one: Daly.
DalyStores(s) ==
    /\ Runs("daly", s) /\ snap' = [snap EXCEPT !["daly"] = New(s)]
    /\ packet' = [packet EXCEPT !["daly"] = New(s)]
    /\ UNCHANGED <<saved, running, apply, manual, setter, webVars, alive, posts>>

\* A poller whose battery is silent for longer than its window clears both; that of PACE does not.
PollerClears(k, s) ==
    /\ k # "pace" /\ Runs(k, s) /\ snap[k] # {} /\ \A v \in snap[k] : v.age > Stale
    /\ snap' = [snap EXCEPT ![k] = {}] /\ packet' = [packet EXCEPT ![k] = {}]
    /\ UNCHANGED <<saved, running, apply, manual, setter, webVars, alive, posts>>

-----------------------------------------------------------------------------
(* A change of the settings. The web server saves them between two answers *)
(* and the task settings_apply does the rest.                              *)

Save ==
    /\ pc = "idle" /\ apply = "done" /\ posts < MaxPosts /\ posts' = posts + 1
    /\ saved' \in Routes \ {saved} /\ apply' = "asked"
    /\ UNCHANGED <<running, srcVars, webVars, alive>>

\* orchestratorStop: the telemetry is emptied, then the tasks on CAN are deleted, then the pollers.
StopBridge ==
    /\ apply = "asked" /\ apply' = "bridge" /\ manual' = {}
    /\ UNCHANGED <<saved, running, setter, snap, packet, webVars, alive, posts>>

StopCan ==
    /\ apply = "bridge" /\ apply' = "can" /\ setter' = {}
    /\ UNCHANGED <<saved, running, manual, snap, packet, webVars, alive, posts>>

StopPollers ==
    /\ apply = "can" /\ apply' = "stopped" /\ snap' = NoneOfAll /\ packet' = NoneOfAll
    /\ UNCHANGED <<saved, running, manual, setter, webVars, alive, posts>>

Start ==
    /\ apply = "stopped" /\ apply' = "done" /\ running' = saved
    /\ UNCHANGED <<saved, srcVars, webVars, alive, posts>>

-----------------------------------------------------------------------------
(* bridgeGetTelemetrySnapshot and bridgeGetSecondaryTelemetrySnapshot.     *)

AsSeen(v) == [v EXCEPT !.age = @ - elapsed]

\* The clock is read first, once.
Ask(s) ==
    /\ pc = "idle" /\ slot' = s /\ elapsed' = 0 /\ got' = NothingRead /\ told' = {}
    /\ settled' = (apply = "done" /\ running = saved)
    /\ pc' = IF s = "bms1" THEN "entered" ELSE "cached"
    /\ UNCHANGED <<saved, running, apply, srcVars, alive, posts>>

\* Unsigned subtraction: what was stored after the clock was read is as old as can be.
TooOld(age) == age < 0 \/ age > Stale

ReadManual ==
    LET m == {AsSeen(v) : v \in manual}
        used == {v \in m : ~TooOld(v.age)}
    IN /\ pc = "entered" /\ pc' = "cached"
       /\ got' = [got EXCEPT !.manual = used, !.stamp = {v.age : v \in m}]
       /\ manual' = IF used = {} THEN {} ELSE manual
       /\ UNCHANGED <<saved, running, apply, setter, snap, packet, slot, elapsed, settled, told, alive,
                      posts>>

\* Mutant: the second battery is read for the first one.
KindOfOther == IF saved.bms2 # "none" THEN saved.bms2 ELSE saved.bms1

Kind == saved[slot]

ReadSnapshot ==
    /\ pc = "cached" /\ pc' = "snapped"
    /\ got' = [got EXCEPT !.snap = IF Kind \in Pollers THEN {AsSeen(v) : v \in snap[Kind]} ELSE {}]
    /\ UNCHANGED <<saved, running, apply, srcVars, slot, elapsed, settled, told, alive, posts>>

ReadPacket ==
    /\ pc = "snapped" /\ pc' = "read"
    /\ got' = [got EXCEPT !.packet = IF Kind \in Pollers THEN {AsSeen(v) : v \in packet[Kind]} ELSE {}]
    /\ UNCHANGED <<saved, running, apply, srcVars, slot, elapsed, settled, told, alive, posts>>

\* The packet's time, for Daly that of the snapshot without one, else that of the cache.
\* Mutant: the time of the cache stays.
StampOfCache == got.stamp

Stamp ==
    IF got.packet # {} THEN {v.age : v \in got.packet}
    ELSE IF Kind = "daly" /\ got.snap # {} THEN {v.age : v \in got.snap}
    ELSE got.stamp

\* Both are used when there is a snapshot; a battery of the first slot may do with the packet alone.
Polled == IF got.snap # {} THEN got.snap ELSE IF slot = "bms1" THEN got.packet ELSE {}

\* A poller overwrites the fields it knows; the others keep what the cache told.
Parts == got.manual \cup Polled

\* Mutant: the age is not held at zero.
Wrapped(age) == TooOld(age)

\* The age is zero for what came later; what has no time is never stale.
Outdated(age) == age > Stale

Answer ==
    LET stale == \E a \in Stamp : Outdated(a)
    IN /\ pc = "read" /\ pc' = "idle" /\ got' = NothingRead /\ elapsed' = 0
       /\ told' = {[valid |-> Parts # {} /\ ~stale, stale |-> stale, route |-> saved, slot |-> slot,
                    settled |-> settled, parts |-> IF stale THEN {} ELSE Parts]}
       /\ UNCHANGED <<saved, running, apply, srcVars, slot, settled, alive, posts>>

-----------------------------------------------------------------------------
Older(S) == {[v EXCEPT !.age = IF @ >= MaxAge THEN @ ELSE @ + 1] : v \in S}
Fresh(S) == S # {} => \E v \in S : v.age < Stale

\* The packet follows the snapshot in the same turn of a poller. What living batteries tell is told
\* again in time.
Tick ==
    /\ packet["jk"] = snap["jk"]
    /\ pc # "idle" => elapsed < MaxPause
    /\ elapsed' = IF pc = "idle" THEN 0 ELSE elapsed + 1
    /\ alive => /\ CanRuns => Fresh(manual) /\ setter = {}
                /\ \A k \in Pollers : Fresh(snap[k]) /\ Fresh(packet[k])
    /\ manual' = Older(manual) /\ setter' = Older(setter)
    /\ snap' = [k \in Pollers |-> Older(snap[k])] /\ packet' = [k \in Pollers |-> Older(packet[k])]
    /\ UNCHANGED <<saved, running, apply, pc, slot, settled, got, told, alive, posts>>

Store(s) == PaceStores(s) \/ JkStoresSnapshot(s) \/ JkStoresPacket(s) \/ DalyStores(s)
Read == ReadManual \/ ReadSnapshot \/ ReadPacket \/ Answer
Change == StopBridge \/ StopCan \/ StopPollers \/ Start

Next ==
    \/ SetterEnters \/ SetterStores \/ DecoderClears
    \/ \E s \in Slots : Store(s) \/ Ask(s) \/ \E k \in Pollers : PollerClears(k, s)
    \/ Save \/ Change \/ Read \/ Tick

\* Tasks run, the browser asks about the first battery, and a battery's answers are stored.
Spec ==
    /\ Init /\ [][Next]_vars /\ WF_vars(Change) /\ WF_vars(Read) /\ WF_vars(Ask("bms1"))
    /\ WF_vars(PaceStores("bms1")) /\ WF_vars(DalyStores("bms1"))
    /\ WF_vars(JkStoresSnapshot("bms1")) /\ WF_vars(JkStoresPacket("bms1"))

-----------------------------------------------------------------------------
\* Of a battery on CAN and of one whose packet alone is kept, nothing is told that was older than
\* the window when the answer was begun.
ToldIsRecent ==
    \A t \in told : t.route[t.slot] \in {"can", "pace"} => \A p \in t.parts : p.age <= Stale

\* An answer begun while the saved route ran tells of polled batteries only those of that route, in
\* the slot it was asked for.
SettledIsOwn ==
    \A t \in told : t.settled =>
        \A p \in t.parts : p.route[p.slot] # "can" => p.route = t.route /\ p.slot = t.slot

\* A polled battery that keeps answering is, after the last change of the settings, always told.
LivingIsTold ==
    <>[](alive /\ running.bms1 # "can" => \A t \in told : t.slot = "bms1" => t.valid)
=============================================================================
