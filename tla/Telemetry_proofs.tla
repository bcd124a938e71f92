--------------------------- MODULE Telemetry_proofs ---------------------------
(***************************************************************************)
(* The battery's values on their way to the web page.  First the web       *)
(* server: what is told of polled batteries after a change of the settings *)
(* is of the new route and of the slot asked for, and what is told of the  *)
(* others is recent, for every set of routes, every window and any number  *)
(* of changes.  Then the sources that read the battery, each of them with  *)
(* any constants: what they show was told by the battery, together and     *)
(* recently, and what is silent is dropped.                                *)
(***************************************************************************)
EXTENDS WebTelemetry, Sequences, FiniteSetTheorems, WellFoundedInduction, TLAPS

\* A value of any age.
Made == [route : Routes, slot : Slots, age : Int]

Typed ==
    /\ saved \in Routes /\ running \in Routes /\ slot \in Slots /\ settled \in BOOLEAN /\ elapsed \in Int
    /\ snap \in [Pollers -> SUBSET Made] /\ packet \in [Pollers -> SUBSET Made]
    /\ got \in [manual : SUBSET Made, snap : SUBSET Made, packet : SUBSET Made, stamp : SUBSET Int]

\* Only a battery on CAN is pushed.
Pushed == {v \in Made : v.route[v.slot] = "can"}
PushedIsOnCan == manual \subseteq Pushed /\ setter \subseteq Pushed /\ got.manual \subseteq Pushed

\* What the pollers keep is of the route that runs, each its own.
KeptIsRunning ==
    /\ \A k \in Pollers : \A v \in snap[k] \cup packet[k] : v.route = running /\ running[v.slot] = k
    /\ apply = "stopped" => \A k \in Pollers : snap[k] = {} /\ packet[k] = {}
    /\ apply = "done" => running = saved

\* The settings do not change while an answer is made.
ReadIsOwn ==
    pc # "idle" /\ settled =>
        /\ apply = "done"
        /\ \A p \in got.snap \cup got.packet : p.route = saved /\ p.slot = slot

IInv == Typed /\ PushedIsOnCan /\ KeptIsRunning /\ ReadIsOwn /\ SettledIsOwn

-----------------------------------------------------------------------------
\* The poller of one slot is not that of the other.
LEMMA SlotOfKind ==
    ASSUME NEW r \in Routes, NEW s \in Slots, NEW t \in Slots, r[s] = r[t]
    PROVE  s = t
  BY TelemetryAssumption DEF Slots

\* What a poller stores anew is of its route and slot.
LEMMA NewIsMade ==
    ASSUME running \in Routes, NEW s \in Slots
    PROVE  New(s) \subseteq Made /\ \A v \in New(s) : v.route = running /\ v.slot = s
  BY DEF New, Made

\* Reading and ageing keep what a value is of.
LEMMA SeenIsMade ==
    ASSUME elapsed \in Int, NEW v \in Made
    PROVE  AsSeen(v) \in Made /\ AsSeen(v).route = v.route /\ AsSeen(v).slot = v.slot
  BY DEF AsSeen, Made

LEMMA OlderIsMade ==
    ASSUME NEW S \in SUBSET Made
    PROVE  /\ Older(S) \subseteq Made
           /\ \A w \in Older(S) : \E v \in S : w.route = v.route /\ w.slot = v.slot
  <1> SUFFICES ASSUME NEW w \in Older(S)
      PROVE  w \in Made /\ \E v \in S : w.route = v.route /\ w.slot = v.slot
    OBVIOUS
  <1>1. PICK v \in S : w = [v EXCEPT !.age = IF @ >= MaxAge THEN @ ELSE @ + 1]
    BY DEF Older
  <1>2. v \in Made
    OBVIOUS
  <1> QED BY <1>1, <1>2 DEF Made

-----------------------------------------------------------------------------
\* Before anything is read.
LEMMA NothingReadIsTyped ==
    /\ NothingRead \in [manual : SUBSET Made, snap : SUBSET Made, packet : SUBSET Made, stamp : SUBSET Int]
    /\ NothingRead.manual = {} /\ NothingRead.snap = {} /\ NothingRead.packet = {}
  BY DEF NothingRead

LEMMA InitIInv == ASSUME Init PROVE IInv
  <1>1. Typed
    <2>1. NoneOfAll \in [Pollers -> SUBSET Made]
      BY DEF NoneOfAll
    <2>2. saved \in Routes /\ running \in Routes /\ slot \in Slots
      BY DEF Init, Slots
    <2>3. elapsed \in Int
      BY DEF Init
    <2>4. settled \in BOOLEAN
      BY Zenon DEF Init
    <2> QED BY <2>1, <2>2, <2>3, <2>4, NothingReadIsTyped DEF Init, Typed
  <1>2. PushedIsOnCan
    BY NothingReadIsTyped DEF Init, PushedIsOnCan
  <1>3. KeptIsRunning
    BY DEF Init, KeptIsRunning, NoneOfAll
  <1>4. ReadIsOwn /\ SettledIsOwn
    BY DEF Init, ReadIsOwn, SettledIsOwn
  <1> QED BY <1>1, <1>2, <1>3, <1>4 DEF IInv

\* The steps of the pollers: the web server and the settings stay.
LEMMA StoresKeepIInv ==
    ASSUME IInv, NEW s \in Slots, Store(s)
    PROVE  IInv'
  <1> USE DEF IInv
  <1>1. /\ UNCHANGED <<saved, running, apply, manual, setter, webVars>>
        /\ snap' \in [Pollers -> SUBSET Made] /\ packet' \in [Pollers -> SUBSET Made]
        /\ \A k \in Pollers : \A v \in snap'[k] \cup packet'[k] : v.route = running /\ running[v.slot] = k
        /\ apply # "stopped"
    <2> USE NewIsMade DEF Typed, KeptIsRunning
    <2>1. CASE PaceStores(s)
      BY <2>1 DEF PaceStores, Runs, Pollers, webVars
    <2>2. CASE JkStoresSnapshot(s)
      BY <2>2 DEF JkStoresSnapshot, Runs, Pollers, webVars
    <2>3. CASE JkStoresPacket(s)
      BY <2>3 DEF JkStoresPacket, Runs, Pollers, webVars
    <2>4. CASE DalyStores(s)
      BY <2>4 DEF DalyStores, Runs, Pollers, webVars
    <2> QED BY <2>1, <2>2, <2>3, <2>4 DEF Store
  <1> QED BY <1>1 DEF webVars, Typed, PushedIsOnCan, KeptIsRunning, ReadIsOwn, SettledIsOwn

LEMMA ClearKeepsIInv ==
    ASSUME IInv, NEW k \in Pollers, NEW s \in Slots, PollerClears(k, s)
    PROVE  IInv'
  BY DEF PollerClears, webVars, IInv, Typed, PushedIsOnCan, KeptIsRunning, ReadIsOwn, SettledIsOwn

\* A change of the settings begins between two answers.
LEMMA ChangeKeepsIInv ==
    ASSUME IInv, Save \/ Change
    PROVE  IInv'
  <1> USE DEF IInv, Typed, PushedIsOnCan, KeptIsRunning, ReadIsOwn, SettledIsOwn, webVars, srcVars
  <1>1. CASE Save
    BY <1>1 DEF Save
  <1>2. CASE StopBridge
    BY <1>2 DEF StopBridge
  <1>3. CASE StopCan
    BY <1>3 DEF StopCan
  <1>4. CASE StopPollers
    BY <1>4 DEF StopPollers, NoneOfAll
  <1>5. CASE Start
    BY <1>5 DEF Start
  <1> QED BY <1>1, <1>2, <1>3, <1>4, <1>5 DEF Change

LEMMA AskKeepsIInv ==
    ASSUME IInv, NEW s \in Slots, Ask(s)
    PROVE  IInv'
  <1>1. /\ slot' \in Slots /\ elapsed' \in Int /\ settled' \in BOOLEAN
        /\ got' = NothingRead /\ told' = {}
        /\ UNCHANGED <<saved, running, apply, manual, setter, snap, packet>>
    BY DEF Ask, srcVars
  <1>2. settled' => apply = "done"
    BY DEF Ask
  <1>3. Typed' /\ PushedIsOnCan'
    BY <1>1, NothingReadIsTyped DEF IInv, Typed, PushedIsOnCan
  <1>4. KeptIsRunning'
    BY <1>1 DEF IInv, KeptIsRunning
  <1>5. ReadIsOwn' /\ SettledIsOwn'
    BY <1>1, <1>2, NothingReadIsTyped DEF ReadIsOwn, SettledIsOwn
  <1> QED BY <1>3, <1>4, <1>5 DEF IInv

\* What is read of the poller that the settings name is of the slot asked for.
LEMMA ReadOfKind ==
    ASSUME IInv, NEW S, S \in {snap, packet}, Kind \in Pollers
    PROVE  /\ {AsSeen(v) : v \in S[Kind]} \subseteq Made
           /\ running = saved => \A p \in {AsSeen(v) : v \in S[Kind]} : p.route = saved /\ p.slot = slot
  <1>1. S[Kind] \subseteq Made
    BY DEF IInv, Typed
  <1>2. \A v \in S[Kind] : v.route = running /\ running[v.slot] = Kind
    BY DEF IInv, KeptIsRunning
  <1>3. ASSUME running = saved, NEW v \in S[Kind]
        PROVE  v.route = saved /\ v.slot = slot
    <2>1. v.slot \in Slots
      BY <1>1 DEF Made
    <2>2. saved[v.slot] = saved[slot]
      BY <1>2, <1>3 DEF Kind
    <2> QED BY <1>2, <1>3, <2>1, <2>2, SlotOfKind DEF IInv, Typed
  <1> QED BY <1>1, <1>3, SeenIsMade DEF IInv, Typed

LEMMA ReadKeepsIInv ==
    ASSUME IInv, Read
    PROVE  IInv'
  <1>1. CASE ReadManual
    <2> DEFINE m == {AsSeen(v) : v \in manual}
               used == {v \in m : ~TooOld(v.age)}
    <2>1. /\ got' = [got EXCEPT !.manual = used, !.stamp = {v.age : v \in m}]
          /\ manual' \subseteq manual /\ pc # "idle"
          /\ UNCHANGED <<saved, running, apply, setter, snap, packet, slot, elapsed, settled, told>>
      BY <1>1 DEF ReadManual
    <2>2. \A v \in manual : AsSeen(v) \in Pushed /\ AsSeen(v).age \in Int
      BY SeenIsMade DEF IInv, Typed, PushedIsOnCan, Pushed, Made
    <2>3. used \subseteq Pushed /\ {v.age : v \in m} \subseteq Int
      BY <2>2
    <2> HIDE DEF m, used
    <2>4. /\ got' \in [manual : SUBSET Made, snap : SUBSET Made, packet : SUBSET Made, stamp : SUBSET Int]
          /\ got'.manual = used /\ got'.snap = got.snap /\ got'.packet = got.packet
      BY <2>1, <2>3 DEF IInv, Typed, Pushed
    <2> QED BY <2>1, <2>3, <2>4 DEF IInv, Typed, PushedIsOnCan, KeptIsRunning, ReadIsOwn, SettledIsOwn
  <1>2. CASE ReadSnapshot
    <2>1. /\ got'.snap \subseteq Made
          /\ running = saved => \A p \in got'.snap : p.route = saved /\ p.slot = slot
          /\ got'.packet = got.packet /\ got'.manual = got.manual
          /\ got' \in [manual : SUBSET Made, snap : SUBSET Made, packet : SUBSET Made, stamp : SUBSET Int]
      BY <1>2, ReadOfKind DEF ReadSnapshot, IInv, Typed
    <2> QED BY <1>2, <2>1 DEF ReadSnapshot, srcVars, IInv, Typed, PushedIsOnCan, KeptIsRunning, ReadIsOwn, SettledIsOwn
  <1>3. CASE ReadPacket
    <2>1. /\ got'.packet \subseteq Made
          /\ running = saved => \A p \in got'.packet : p.route = saved /\ p.slot = slot
          /\ got'.snap = got.snap /\ got'.manual = got.manual
          /\ got' \in [manual : SUBSET Made, snap : SUBSET Made, packet : SUBSET Made, stamp : SUBSET Int]
      BY <1>3, ReadOfKind DEF ReadPacket, IInv, Typed
    <2> QED BY <1>3, <2>1 DEF ReadPacket, srcVars, IInv, Typed, PushedIsOnCan, KeptIsRunning, ReadIsOwn, SettledIsOwn
  <1>4. CASE Answer
    <2>1. Parts \subseteq got.manual \cup got.snap \cup got.packet
      BY DEF Parts, Polled
    <2>2. \A t \in told' : /\ t.parts \subseteq Parts /\ t.route = saved /\ t.slot = slot
                           /\ t.settled = settled
      BY <1>4 DEF Answer
    <2>3. SettledIsOwn'
      BY <1>4, <2>1, <2>2 DEF Answer, IInv, PushedIsOnCan, Pushed, ReadIsOwn, SettledIsOwn
    <2> QED BY <1>4, <2>3 DEF Answer, NothingRead, srcVars, IInv, Typed, PushedIsOnCan, KeptIsRunning, ReadIsOwn
  <1> QED BY <1>1, <1>2, <1>3, <1>4 DEF Read

LEMMA TickKeepsIInv ==
    ASSUME IInv, Tick
    PROVE  IInv'
  <1>1. /\ elapsed' \in Int
        /\ UNCHANGED <<saved, running, apply, pc, slot, settled, got, told>>
    BY DEF Tick, IInv, Typed
  <1>2. snap' \in [Pollers -> SUBSET Made] /\ packet' \in [Pollers -> SUBSET Made]
    BY OlderIsMade DEF Tick, IInv, Typed
  <1>3. ASSUME NEW k \in Pollers, NEW w \in snap'[k] \cup packet'[k]
        PROVE  \E v \in snap[k] \cup packet[k] : w.route = v.route /\ w.slot = v.slot
    BY <1>3, OlderIsMade DEF Tick, IInv, Typed
  <1>4. KeptIsRunning'
    <2>1. \A k \in Pollers : \A w \in snap'[k] \cup packet'[k] : w.route = running /\ running[w.slot] = k
      BY <1>3 DEF IInv, KeptIsRunning
    <2>2. apply = "stopped" => \A k \in Pollers : snap'[k] = {} /\ packet'[k] = {}
      BY <1>3 DEF IInv, KeptIsRunning
    <2> QED BY <1>1, <2>1, <2>2 DEF IInv, KeptIsRunning
  <1>5. manual' \subseteq Pushed /\ setter' \subseteq Pushed
    BY OlderIsMade DEF Tick, IInv, PushedIsOnCan, Pushed
  <1> QED BY <1>1, <1>2, <1>4, <1>5 DEF IInv, Typed, PushedIsOnCan, ReadIsOwn, SettledIsOwn

\* What a decoder stores is of a battery on CAN.
LEMMA DecoderKeepsIInv ==
    ASSUME IInv, SetterEnters \/ SetterStores \/ DecoderClears
    PROVE  IInv'
  <1> USE DEF IInv, webVars, Typed, PushedIsOnCan, KeptIsRunning, ReadIsOwn, SettledIsOwn
  <1>1. CASE SetterEnters
    <2>1. setter' \subseteq Pushed
      BY <1>1, NewIsMade DEF SetterEnters, CanRuns, Pushed, Slots
    <2> QED BY <1>1, <2>1 DEF SetterEnters
  <1>2. CASE SetterStores
    BY <1>2 DEF SetterStores
  <1>3. CASE DecoderClears
    BY <1>3 DEF DecoderClears
  <1> QED BY <1>1, <1>2, <1>3

LEMMA IInvIsKept ==
    ASSUME IInv, [Next]_vars
    PROVE  IInv'
  <1>1. CASE UNCHANGED vars
    BY <1>1 DEF vars, srcVars, webVars, IInv, Typed, PushedIsOnCan, KeptIsRunning, ReadIsOwn, SettledIsOwn
  <1>2. CASE Next
    BY <1>2, DecoderKeepsIInv, StoresKeepIInv, ClearKeepsIInv, ChangeKeepsIInv, AskKeepsIInv,
       ReadKeepsIInv, TickKeepsIInv DEF Next
  <1> QED BY <1>1, <1>2

\* After a change of the settings, what GET /api/telemetry and /api/telemetry2 tell of polled
\* batteries is of the new route and of the slot asked for.
THEOREM SettledIsOwnOfPollers == Spec => []SettledIsOwn
  <1>1. Init => IInv
    BY InitIInv
  <1>2. IInv /\ [Next]_vars => IInv'
    BY IInvIsKept
  <1>3. IInv => SettledIsOwn
    BY DEF IInv
  <1> QED BY <1>1, <1>2, <1>3, PTL DEF Spec

-----------------------------------------------------------------------------
(* What is told of a battery on CAN and of one whose packet alone is kept  *)
(* is recent, whatever routes and windows there are and however long an    *)
(* answer takes.                                                           *)

\* Of what PACE keeps there is no snapshot.
PaceHasNoSnapshot == snap["pace"] = {}

\* What was taken from the cache was not too old, and what was read of a poller was read of the one
\* that the settings name: nothing where they name none.
TakenIsRecent ==
    /\ \A p \in got.manual : p.age <= Stale
    /\ pc = "cached" => got.snap = {} /\ got.packet = {}
    /\ pc = "entered" => got.manual = {} /\ got.snap = {} /\ got.packet = {}
    /\ pc \in {"snapped", "read"} =>
        /\ Kind = "pace" => got.snap = {}
        /\ Kind \notin Pollers => got.snap = {} /\ got.packet = {}
    /\ pc = "snapped" => got.packet = {}

RecentInv == IInv /\ PaceHasNoSnapshot /\ TakenIsRecent /\ ToldIsRecent

\* Of a packet that is told alone no part is older than the time it is judged by.
LEMMA AnswerIsRecent ==
    ASSUME RecentInv, Answer
    PROVE  ToldIsRecent'
  <1> DEFINE stale == \E a \in Stamp : Outdated(a)
  <1>1. /\ pc = "read"
        /\ \A t \in told' : /\ t.route = saved /\ t.slot = slot
                             /\ t.parts = IF stale THEN {} ELSE Parts
    BY DEF Answer
  <1>2. /\ Kind = "pace" => got.snap = {}
        /\ Kind \notin Pollers => got.snap = {} /\ got.packet = {}
        /\ \A p \in got.manual : p.age <= Stale
    BY <1>1 DEF RecentInv, TakenIsRecent
  <1>3. SUFFICES ASSUME NEW t \in told', saved[slot] \in {"can", "pace"}, ~stale, NEW p \in Parts
                 PROVE  p.age <= Stale
    BY <1>1 DEF ToldIsRecent
  <1>4. got.snap = {} /\ (p \in got.manual \/ p \in got.packet)
    BY <1>2, <1>3 DEF Kind, Parts, Polled, Pollers
  <1>5. CASE p \in got.manual
    BY <1>2, <1>5
  <1>6. CASE p \in got.packet
    <2>1. p.age \in Stamp
      BY <1>6 DEF Stamp
    <2>2. ~(p.age > Stale)
      BY <1>3, <2>1 DEF Outdated
    <2>3. p.age \in Int
      BY <1>6 DEF RecentInv, IInv, Typed, Made
    <2> QED BY <2>2, <2>3, TelemetryAssumption
  <1> QED BY <1>4, <1>5, <1>6

LEMMA ReadKeepsTaken ==
    ASSUME RecentInv, Read
    PROVE  PaceHasNoSnapshot' /\ TakenIsRecent' /\ ToldIsRecent'
  <1>1. CASE ReadManual
    <2> DEFINE m == {AsSeen(v) : v \in manual}
               used == {v \in m : ~TooOld(v.age)}
    <2>1. /\ got' = [got EXCEPT !.manual = used, !.stamp = {v.age : v \in m}]
          /\ pc = "entered" /\ pc' = "cached" /\ UNCHANGED <<snap, told>>
      BY <1>1 DEF ReadManual
    <2>2. \A v \in manual : AsSeen(v).age \in Int
      BY SeenIsMade DEF RecentInv, IInv, Typed, PushedIsOnCan, Pushed, Made
    <2>3. \A p \in used : p.age <= Stale
      BY <2>2, TelemetryAssumption DEF TooOld
    <2> HIDE DEF m, used
    <2>4. got'.manual = used /\ got'.snap = got.snap /\ got'.packet = got.packet
      BY <2>1 DEF RecentInv, IInv, Typed
    <2> QED BY <2>1, <2>3, <2>4 DEF RecentInv, PaceHasNoSnapshot, TakenIsRecent, ToldIsRecent
  <1>2. CASE ReadSnapshot
    <2>1. /\ got'.manual = got.manual /\ got'.packet = got.packet
          /\ got'.snap = IF Kind \in Pollers THEN {AsSeen(v) : v \in snap[Kind]} ELSE {}
      BY <1>2 DEF ReadSnapshot, RecentInv, IInv, Typed
    <2>2. Kind' = Kind /\ pc = "cached" /\ pc' = "snapped" /\ UNCHANGED <<snap, told>>
      BY <1>2 DEF ReadSnapshot, Kind, srcVars
    <2> QED BY <2>1, <2>2 DEF RecentInv, PaceHasNoSnapshot, TakenIsRecent, ToldIsRecent, Pollers
  <1>3. CASE ReadPacket
    <2>1. /\ got'.manual = got.manual /\ got'.snap = got.snap
          /\ got'.packet = IF Kind \in Pollers THEN {AsSeen(v) : v \in packet[Kind]} ELSE {}
      BY <1>3 DEF ReadPacket, RecentInv, IInv, Typed
    <2>2. Kind' = Kind /\ pc = "snapped" /\ pc' = "read" /\ UNCHANGED <<snap, told>>
      BY <1>3 DEF ReadPacket, Kind, srcVars
    <2> QED BY <2>1, <2>2 DEF RecentInv, PaceHasNoSnapshot, TakenIsRecent, ToldIsRecent, Pollers
  <1>4. CASE Answer
    <2>1. pc' = "idle" /\ got' = NothingRead /\ UNCHANGED snap
      BY <1>4 DEF Answer, srcVars
    <2> QED BY <1>4, <2>1, AnswerIsRecent, NothingReadIsTyped
        DEF RecentInv, PaceHasNoSnapshot, TakenIsRecent
  <1> QED BY <1>1, <1>2, <1>3, <1>4 DEF Read

\* Nothing but the web server reads, and it reads under one record.
LEMMA OthersKeepTaken ==
    ASSUME RecentInv, [Next]_vars, ~Read
    PROVE  PaceHasNoSnapshot' /\ TakenIsRecent' /\ ToldIsRecent'
  <1> USE DEF RecentInv, PaceHasNoSnapshot, TakenIsRecent, ToldIsRecent, Kind, webVars, srcVars
  <1>1. CASE SetterEnters \/ SetterStores \/ DecoderClears
    BY <1>1 DEF SetterEnters, SetterStores, DecoderClears
  <1>2. ASSUME NEW s \in Slots, Store(s)
        PROVE  PaceHasNoSnapshot' /\ TakenIsRecent' /\ ToldIsRecent'
    <2>1. UNCHANGED <<saved, webVars>>
      BY <1>2 DEF Store, PaceStores, JkStoresSnapshot, JkStoresPacket, DalyStores
    <2>2. snap'["pace"] = snap["pace"]
      BY <1>2 DEF Store, PaceStores, JkStoresSnapshot, JkStoresPacket, DalyStores, IInv, Typed, Pollers
    <2> QED BY <2>1, <2>2
  <1>3. ASSUME NEW s \in Slots, NEW k \in Pollers, PollerClears(k, s)
        PROVE  PaceHasNoSnapshot' /\ TakenIsRecent' /\ ToldIsRecent'
    BY <1>3 DEF PollerClears, IInv, Typed, Pollers
  <1>4. ASSUME NEW s \in Slots, Ask(s)
        PROVE  PaceHasNoSnapshot' /\ TakenIsRecent' /\ ToldIsRecent'
    <2>1. got' = NothingRead /\ told' = {} /\ UNCHANGED snap /\ pc' \in {"entered", "cached"}
      BY <1>4 DEF Ask
    <2> QED BY <2>1, NothingReadIsTyped
  <1>5. CASE Save
    BY <1>5 DEF Save
  <1>6. CASE Change
    BY <1>6 DEF Change, StopBridge, StopCan, StopPollers, Start, NoneOfAll, Pollers
  <1>7. CASE Tick
    <2>1. snap'["pace"] = Older(snap["pace"]) /\ UNCHANGED <<saved, pc, slot, got, told>>
      BY <1>7 DEF Tick, Pollers
    <2> QED BY <2>1 DEF Older
  <1>8. CASE UNCHANGED vars
    BY <1>8 DEF vars
  <1> QED BY <1>1, <1>2, <1>3, <1>4, <1>5, <1>6, <1>7, <1>8 DEF Next

\* Nothing is told of a battery on CAN, or of one whose packet alone is kept, that was older than the
\* window when the answer was begun, however the answer is interrupted.
THEOREM ToldIsRecentAlways == Spec => []ToldIsRecent
  <1>1. Init => RecentInv
    <2> SUFFICES ASSUME Init PROVE RecentInv
      OBVIOUS
    <2> QED BY InitIInv, NothingReadIsTyped
        DEF Init, NoneOfAll, Pollers, RecentInv, PaceHasNoSnapshot, TakenIsRecent, ToldIsRecent
  <1>2. RecentInv /\ [Next]_vars => RecentInv'
    BY IInvIsKept, ReadKeepsTaken, OthersKeepTaken DEF RecentInv
  <1>3. RecentInv => ToldIsRecent
    BY DEF RecentInv
  <1> QED BY <1>1, <1>2, <1>3, PTL DEF Spec

-----------------------------------------------------------------------------
(* The decoder of the batteries that send on CAN unasked.                  *)

CONSTANTS
    Protocols, BmsHere, Sends, Odd, BridgeStale, PylonStale, SnapPeriod, LivingBus, MaxRestarts

VARIABLES
    protocol, bmsHere, cache, model, shown, task, copy, since, quiet, stopping, restarts

Decoder == INSTANCE CanDecoder WITH Alive <- LivingBus, pc <- task

\* What is kept, and of what kind it is: in the model and in the telemetry at most one view.
DecTyped ==
    /\ protocol \in Protocols /\ bmsHere \in BmsHere
    /\ \A c \in {cache, copy} : DOMAIN c \subseteq Decoder!Cached /\ \A i \in DOMAIN c : c[i] \in Decoder!Frames
    /\ \A s \in {model, shown} : s = {} \/ \E m \in Decoder!Views : s = {m}
    /\ task \in {"idle", "copied"} /\ since \in 0..SnapPeriod /\ quiet \in 0..Decoder!MaxAge
    /\ stopping \in BOOLEAN /\ restarts \in 0..MaxRestarts /\ (stopping => restarts < MaxRestarts)

\* Of a copy that was taken nothing is too old; no frame is younger than the silence of the bus.
CopyIsFresh ==
    /\ task = "copied" => since = 0
    /\ task = "idle" => DOMAIN copy = {}
    /\ \A i \in DOMAIN copy : copy[i].age <= Decoder!WindowOf(i) /\ quiet <= copy[i].age
    /\ \A i \in DOMAIN cache : cache[i].age <= PylonStale => quiet <= cache[i].age

\* How long the snapshot task may have been kept from looking: a restart begins its period anew.
Waited == restarts * SnapPeriod + (IF task = "copied" THEN SnapPeriod ELSE since)

RecentSoFar ==
    bmsHere /\ protocol \in Decoder!PylonLike =>
        \A m \in model \cup shown : m.from = "here" => m.old + m.stamp <= PylonStale + Waited

QuietSoFar ==
    bmsHere /\ (model # {} \/ shown # {}) => quiet <= Decoder!StaleOf(protocol) + Waited

DecInv == Decoder!DecoderAssumption /\ DecTyped /\ CopyIsFresh /\ RecentSoFar /\ QuietSoFar

-----------------------------------------------------------------------------
LEMMA DecNumbers ==
    ASSUME Decoder!DecoderAssumption
    PROVE  /\ BridgeStale \in Nat \ {0} /\ PylonStale \in Nat \ {0} /\ SnapPeriod \in Nat \ {0}
           /\ MaxRestarts \in Nat /\ BridgeStale <= PylonStale
           /\ Decoder!MaxAge \in Nat /\ BmsHere \subseteq BOOLEAN
  <1>1. /\ BridgeStale \in Nat \ {0} /\ PylonStale \in Nat \ {0} /\ SnapPeriod \in Nat \ {0}
        /\ MaxRestarts \in Nat /\ BridgeStale <= PylonStale /\ BmsHere \subseteq BOOLEAN
    BY DEF Decoder!DecoderAssumption
  <1>2. (2 + MaxRestarts) * SnapPeriod \in Nat
    BY <1>1
  <1> QED BY <1>1, <1>2 DEF Decoder!MaxAge

\* The longest that the task may be kept from looking.
LEMMA WaitedIsNat ==
    ASSUME DecTyped, Decoder!DecoderAssumption
    PROVE  /\ Waited \in Nat /\ restarts * SnapPeriod \in Nat /\ restarts * SnapPeriod <= Waited
           /\ Waited <= (1 + restarts) * SnapPeriod
           /\ (restarts + 1) * SnapPeriod = restarts * SnapPeriod + SnapPeriod
  <1>1. restarts \in Nat /\ SnapPeriod \in Nat /\ since \in Nat /\ since <= SnapPeriod
    BY DecNumbers DEF DecTyped
  <1>2. restarts * SnapPeriod \in Nat
    BY <1>1
  <1>3. (1 + restarts) * SnapPeriod = restarts * SnapPeriod + SnapPeriod
    BY <1>1
  <1>4. (restarts + 1) * SnapPeriod = restarts * SnapPeriod + SnapPeriod
    BY <1>1
  <1> QED BY <1>1, <1>2, <1>3, <1>4 DEF Waited

\* The oldest of two frames is one of them.
LEMMA OldestIsOne ==
    ASSUME NEW c, NEW a, NEW b, c[a].age \in Nat, c[b].age \in Nat
    PROVE  Decoder!Oldest(c, {a, b}) \in {c[a].age, c[b].age}
  <1> DEFINE S == {c[a].age, c[b].age}
  <1>1. {c[i].age : i \in {a, b}} = S
    OBVIOUS
  <1>2. \E x \in S : \A y \in S : x >= y
    OBVIOUS
  <1>3. Decoder!Max(S) \in S
    BY <1>2 DEF Decoder!Max
  <1> QED BY <1>1, <1>3 DEF Decoder!Oldest

LEMMA ViewIsMade ==
    ASSUME NEW c, NEW a, NEW b, c[a] \in Decoder!Frames, c[b] \in Decoder!Frames, Decoder!DecoderAssumption
    PROVE  \E m \in Decoder!Views : /\ Decoder!View(c, {a, b}) = {m} /\ m.from = "here" /\ m.stamp = 0
                                    /\ m.old \in {c[a].age, c[b].age}
  <1> DEFINE m == [from |-> "here", old |-> Decoder!Oldest(c, {a, b}), stamp |-> 0]
  <1>1. c[a].age \in 0..PylonStale + 1 /\ c[b].age \in 0..PylonStale + 1
    BY DEF Decoder!Frames
  <1>4. c[a].age \in Nat /\ c[b].age \in Nat
    BY <1>1, DecNumbers
  <1>2. m.old \in {c[a].age, c[b].age}
    BY <1>4, OldestIsOne
  <1>3. m \in Decoder!Views
    BY <1>1, <1>2, DecNumbers DEF Decoder!Views
  <1> QED BY <1>2, <1>3 DEF Decoder!View

\* What is made of frames, by whichever dialect: a view of frames that are there, none older than its window.
LEMMA DialectsMake ==
    ASSUME NEW c, \A i \in DOMAIN c : c[i] \in Decoder!Frames, Decoder!DecoderAssumption
    PROVE  /\ \A s \in {Decoder!FromPylon(c), Decoder!FromGoodwe(c), Decoder!FromGrowatt(c), Decoder!FromJk(c)} :
                  s = {} \/ \E m \in Decoder!Views : s = {m} /\ m.from = "here" /\ m.stamp = 0
           /\ \A s \in {Decoder!FromPylon(c), Decoder!FromGoodwe(c)} : \A m \in s : m.old <= PylonStale
  <1>1. Decoder!FromPylon(c) # {} =>
            \E m \in Decoder!Views : Decoder!FromPylon(c) = {m} /\ m.from = "here" /\ m.stamp = 0 /\ m.old <= PylonStale
    <2> SUFFICES ASSUME Decoder!FromPylon(c) # {}
                 PROVE  \E m \in Decoder!Views : Decoder!FromPylon(c) = {m} /\ m.from = "here" /\ m.stamp = 0 /\ m.old <= PylonStale
      OBVIOUS
    <2>1. /\ Decoder!FromPylon(c) = Decoder!View(c, {"p355", "p356"})
          /\ Decoder!Fresh(c, "p355", PylonStale) /\ Decoder!Fresh(c, "p356", PylonStale)
      BY DEF Decoder!FromPylon
    <2>2. /\ c["p355"] \in Decoder!Frames /\ c["p356"] \in Decoder!Frames
          /\ c["p355"].age <= PylonStale /\ c["p356"].age <= PylonStale
      BY <2>1 DEF Decoder!Fresh
    <2>3. PICK m \in Decoder!Views : /\ Decoder!View(c, {"p355", "p356"}) = {m} /\ m.from = "here" /\ m.stamp = 0
                                     /\ m.old \in {c["p355"].age, c["p356"].age}
      BY <2>2, ViewIsMade
    <2> QED BY <2>1, <2>2, <2>3
  <1>2. Decoder!FromGoodwe(c) # {} =>
            \E m \in Decoder!Views : Decoder!FromGoodwe(c) = {m} /\ m.from = "here" /\ m.stamp = 0 /\ m.old <= PylonStale
    <2> SUFFICES ASSUME Decoder!FromGoodwe(c) # {}
                 PROVE  \E m \in Decoder!Views : Decoder!FromGoodwe(c) = {m} /\ m.from = "here" /\ m.stamp = 0 /\ m.old <= PylonStale
      OBVIOUS
    <2>1. /\ Decoder!FromGoodwe(c) = Decoder!View(c, {"g457", "g458"})
          /\ Decoder!Fresh(c, "g457", BridgeStale) /\ Decoder!Fresh(c, "g458", BridgeStale)
      BY DEF Decoder!FromGoodwe
    <2>2. /\ c["g457"] \in Decoder!Frames /\ c["g458"] \in Decoder!Frames
          /\ c["g457"].age <= BridgeStale /\ c["g458"].age <= BridgeStale
      BY <2>1 DEF Decoder!Fresh
    <2>3. PICK m \in Decoder!Views : /\ Decoder!View(c, {"g457", "g458"}) = {m} /\ m.from = "here" /\ m.stamp = 0
                                     /\ m.old \in {c["g457"].age, c["g458"].age}
      BY <2>2, ViewIsMade
    <2>4. m.old \in Nat /\ m.old <= BridgeStale
      BY <2>2, <2>3, DecNumbers DEF Decoder!Views
    <2> QED BY <2>1, <2>3, <2>4, DecNumbers
  <1>3. Decoder!FromGrowatt(c) # {} =>
            \E m \in Decoder!Views : Decoder!FromGrowatt(c) = {m} /\ m.from = "here" /\ m.stamp = 0
    <2> SUFFICES ASSUME Decoder!FromGrowatt(c) # {}
                 PROVE  \E m \in Decoder!Views : Decoder!FromGrowatt(c) = {m} /\ m.from = "here" /\ m.stamp = 0
      OBVIOUS
    <2> DEFINE soc == {i \in {"w313", "w322"} \cap DOMAIN c : Decoder!Plain(c, i)}
    <2>1. /\ "w313" \in DOMAIN c /\ soc # {}
          /\ Decoder!FromGrowatt(c) = Decoder!View(c, {"w313"} \cup (IF "w313" \in soc THEN {} ELSE soc))
      BY DEF Decoder!FromGrowatt
    <2>2. CASE "w313" \in soc
      <3>1. {"w313"} \cup (IF "w313" \in soc THEN {} ELSE soc) = {"w313", "w313"}
        BY <2>2
      <3>2. \E m \in Decoder!Views : Decoder!View(c, {"w313", "w313"}) = {m} /\ m.from = "here" /\ m.stamp = 0
        BY <2>1, ViewIsMade
      <3>3. Decoder!FromGrowatt(c) = Decoder!View(c, {"w313", "w313"})
        BY <2>1, <3>1
      <3> HIDE DEF soc
      <3> QED BY <3>2, <3>3
    <2>3. CASE "w313" \notin soc
      <3>1. soc = {"w322"} /\ "w322" \in DOMAIN c
        BY <2>1, <2>3
      <3>2. {"w313"} \cup (IF "w313" \in soc THEN {} ELSE soc) = {"w313", "w322"}
        BY <2>3, <3>1
      <3>3. \E m \in Decoder!Views : Decoder!View(c, {"w313", "w322"}) = {m} /\ m.from = "here" /\ m.stamp = 0
        <4>1. c["w313"] \in Decoder!Frames /\ c["w322"] \in Decoder!Frames
          BY <2>1, <3>1
        <4> HIDE DEF soc
        <4>2. PICK m \in Decoder!Views : /\ Decoder!View(c, {"w313", "w322"}) = {m} /\ m.from = "here" /\ m.stamp = 0
                                         /\ m.old \in {c["w313"].age, c["w322"].age}
          BY <4>1, ViewIsMade
        <4> QED BY <4>2
      <3>4. Decoder!FromGrowatt(c) = Decoder!View(c, {"w313", "w322"})
        BY <2>1, <3>2
      <3> HIDE DEF soc
      <3> QED BY <3>3, <3>4
    <2> QED BY <2>2, <2>3
  <1>4. Decoder!FromJk(c) # {} =>
            \E m \in Decoder!Views : Decoder!FromJk(c) = {m} /\ m.from = "here" /\ m.stamp = 0
    <2>1. {"j02F4"} = {"j02F4", "j02F4"}
      OBVIOUS
    <2>2. Decoder!FromJk(c) # {} => "j02F4" \in DOMAIN c /\ Decoder!FromJk(c) = Decoder!View(c, {"j02F4", "j02F4"})
      BY <2>1 DEF Decoder!FromJk
    <2>3. "j02F4" \in DOMAIN c =>
              \E m \in Decoder!Views : Decoder!View(c, {"j02F4", "j02F4"}) = {m} /\ m.from = "here" /\ m.stamp = 0
      <3> HAVE "j02F4" \in DOMAIN c
      <3>1. c["j02F4"] \in Decoder!Frames
        OBVIOUS
      <3> QED BY <3>1, ViewIsMade
    <2> QED BY <2>2, <2>3
  <1> QED BY <1>1, <1>2, <1>3, <1>4

\* What a frame publishes.
LEMMA FramePublishes ==
    ASSUME NEW c, \A i \in DOMAIN c : c[i] \in Decoder!Frames, Decoder!DecoderAssumption
    PROVE  \A s \in {Decoder!ToModel(c), Decoder!ToShown(c)} :
               /\ s = {} \/ \E m \in Decoder!Views : s = {m} /\ m.from = "here" /\ m.stamp = 0
               /\ protocol \in Decoder!PylonLike => \A m \in s : m.old <= PylonStale
  <1>1. /\ Decoder!ToModel(c) \in {Decoder!FromPylon(c), Decoder!FromGoodwe(c), Decoder!FromGrowatt(c), Decoder!FromJk(c)}
        /\ protocol \in Decoder!PylonLike => Decoder!ToModel(c) \in {Decoder!FromPylon(c), Decoder!FromGoodwe(c)}
    BY DEF Decoder!ToModel, Decoder!PylonLike
  <1>2. /\ Decoder!ToShown(c) \in {{}, Decoder!FromGoodwe(c), Decoder!FromGrowatt(c)}
        /\ protocol \in Decoder!PylonLike => Decoder!ToShown(c) \in {{}, Decoder!FromGoodwe(c)}
    BY DEF Decoder!ToShown, Decoder!PylonLike
  <1> QED BY <1>1, <1>2, DialectsMake

-----------------------------------------------------------------------------
(* The steps of its two tasks, of the bus and of the clock.                *)

LEMMA DecStarts == Decoder!DecoderAssumption /\ Decoder!Init => DecInv
  <1> SUFFICES ASSUME Decoder!DecoderAssumption, Decoder!Init PROVE DecInv
    OBVIOUS
  <1>1. DOMAIN cache = {} /\ DOMAIN copy = {}
    BY DEF Decoder!Init, Decoder!Nothing
  <1>2. DecTyped
    <2>1. since \in 0..SnapPeriod /\ quiet \in 0..Decoder!MaxAge /\ restarts \in 0..MaxRestarts
      BY DecNumbers DEF Decoder!Init
    <2>2. \A c \in {cache, copy} : DOMAIN c \subseteq Decoder!Cached /\ \A i \in DOMAIN c : c[i] \in Decoder!Frames
      BY <1>1
    <2> QED BY <2>1, <2>2 DEF Decoder!Init, DecTyped
  <1>3. CopyIsFresh
    BY <1>1 DEF Decoder!Init, CopyIsFresh
  <1>4. RecentSoFar /\ QuietSoFar
    BY DEF Decoder!Init, RecentSoFar, QuietSoFar
  <1> QED BY <1>2, <1>3, <1>4 DEF DecInv

LEMMA FrameStep ==
    ASSUME DecInv, NEW i \in Decoder!Cached \cup {"other"}, NEW v \in {"plain", "odd"}, Decoder!OnFrame(i, v)
    PROVE  DecInv'
  <1> DEFINE c == IF i \in Decoder!Cached
                  THEN [j \in DOMAIN cache \cup {i} |-> IF j = i THEN [v |-> v, age |-> 0] ELSE cache[j]]
                  ELSE cache
  <1>1. /\ cache' = c /\ quiet' = 0
        /\ model' = IF Decoder!ToModel(c) # {} THEN Decoder!ToModel(c) ELSE model
        /\ shown' = IF Decoder!ToShown(c) # {} THEN Decoder!ToShown(c) ELSE shown
        /\ UNCHANGED <<protocol, bmsHere, task, copy, since, stopping, restarts>>
    BY DEF Decoder!OnFrame
  <1>2. Decoder!DecoderAssumption /\ DecTyped /\ CopyIsFresh /\ RecentSoFar /\ QuietSoFar
    BY DEF DecInv
  <1>3. [v |-> v, age |-> 0] \in Decoder!Frames
    BY <1>2, DecNumbers DEF Decoder!Frames
  <1>4. DOMAIN c \subseteq Decoder!Cached /\ \A j \in DOMAIN c : c[j] \in Decoder!Frames
    <2>1. DOMAIN cache \subseteq Decoder!Cached /\ \A j \in DOMAIN cache : cache[j] \in Decoder!Frames
      BY <1>2 DEF DecTyped
    <2>2. CASE i \in Decoder!Cached
      <3>1. c = [j \in DOMAIN cache \cup {i} |-> IF j = i THEN [v |-> v, age |-> 0] ELSE cache[j]]
        BY <2>2
      <3> HIDE DEF c
      <3>2. \A j \in DOMAIN c : c[j] \in Decoder!Frames
        BY <1>3, <2>1, <3>1
      <3> QED BY <2>1, <2>2, <3>1, <3>2
    <2> QED BY <2>1, <2>2
  <1> HIDE DEF c
  <1>5. \A s \in {Decoder!ToModel(c), Decoder!ToShown(c)} :
            /\ s = {} \/ \E m \in Decoder!Views : s = {m} /\ m.from = "here" /\ m.stamp = 0
            /\ protocol \in Decoder!PylonLike => \A m \in s : m.old <= PylonStale
    BY <1>2, <1>4, FramePublishes
  <1>6. DecTyped'
    <2>1. \A s \in {model', shown'} : s = {} \/ \E m \in Decoder!Views : s = {m}
      BY <1>1, <1>2, <1>5 DEF DecTyped
    <2>2. 0 \in 0..Decoder!MaxAge
      BY <1>2, DecNumbers
    <2> QED BY <1>1, <1>2, <1>4, <2>1, <2>2 DEF DecTyped
  <1>7. CopyIsFresh'
    <2>1. \A j \in DOMAIN copy : copy[j].age \in Nat
      BY <1>2, DecNumbers DEF DecTyped, Decoder!Frames
    <2>2. \A j \in DOMAIN c : c[j].age \in Nat
      BY <1>2, <1>4, DecNumbers DEF Decoder!Frames
    <2> QED BY <1>1, <1>2, <2>1, <2>2 DEF CopyIsFresh, Decoder!WindowOf
  <1>8. Waited' = Waited /\ Waited \in Nat
    BY <1>1, <1>2, WaitedIsNat DEF Waited
  <1>9. RecentSoFar'
    <2> SUFFICES ASSUME bmsHere, protocol \in Decoder!PylonLike, NEW m \in model' \cup shown', m.from = "here"
                 PROVE  m.old + m.stamp <= PylonStale + Waited
      BY <1>1, <1>8 DEF RecentSoFar
    <2>1. CASE m \in model \cup shown
      BY <1>2, <2>1 DEF RecentSoFar
    <2>2. CASE m \in Decoder!ToModel(c) \cup Decoder!ToShown(c)
      <3>1. m \in Decoder!Views /\ m.stamp = 0 /\ m.old <= PylonStale
        BY <1>5, <2>2
      <3>2. m.old \in Nat
        BY <1>2, <3>1, DecNumbers DEF Decoder!Views
      <3> QED BY <1>2, <1>8, <3>1, <3>2, DecNumbers
    <2> QED BY <1>1, <2>1, <2>2
  <1>10. QuietSoFar'
    BY <1>1, <1>2, <1>8, DecNumbers DEF QuietSoFar, Decoder!StaleOf
  <1> QED BY <1>2, <1>6, <1>7, <1>9, <1>10 DEF DecInv

LEMMA CopyStep ==
    ASSUME DecInv, Decoder!Copy
    PROVE  DecInv'
  <1>1. /\ task = "idle" /\ since = SnapPeriod /\ task' = "copied" /\ since' = 0
        /\ copy' = [i \in {i \in DOMAIN cache : Decoder!Fresh(cache, i, Decoder!WindowOf(i))} |-> cache[i]]
        /\ UNCHANGED <<protocol, bmsHere, cache, model, shown, quiet, stopping, restarts>>
    BY DEF Decoder!Copy
  <1>2. Decoder!DecoderAssumption /\ DecTyped /\ CopyIsFresh /\ RecentSoFar /\ QuietSoFar
    BY DEF DecInv
  <1>3. DecTyped'
    BY <1>1, <1>2, DecNumbers DEF DecTyped
  <1>4. CopyIsFresh'
    <2>1. \A i \in DOMAIN copy' : i \in DOMAIN cache /\ copy'[i] = cache[i] /\ cache[i].age <= Decoder!WindowOf(i)
      BY <1>1 DEF Decoder!Fresh
    <2>2. \A i \in DOMAIN cache : Decoder!WindowOf(i) <= PylonStale /\ Decoder!WindowOf(i) \in Nat /\ cache[i].age \in Nat
      BY <1>2, DecNumbers DEF Decoder!WindowOf, Decoder!StaleOf, DecTyped, Decoder!Frames
    <2>3. \A i \in DOMAIN copy' : quiet <= copy'[i].age
      <3> TAKE i \in DOMAIN copy'
      <3>1. cache[i].age <= PylonStale
        BY <1>2, <2>1, <2>2, DecNumbers
      <3> QED BY <1>2, <2>1, <3>1 DEF CopyIsFresh
    <2> QED BY <1>1, <1>2, <2>1, <2>3 DEF CopyIsFresh, Decoder!WindowOf
  <1>5. Waited' = Waited
    BY <1>1 DEF Waited
  <1>6. RecentSoFar' /\ QuietSoFar'
    BY <1>1, <1>2, <1>5 DEF RecentSoFar, QuietSoFar
  <1> QED BY <1>2, <1>3, <1>4, <1>6 DEF DecInv

\* What the task publishes was in the copy, and it publishes nothing, or clears, only if the
\* copy lacks what tells the state of charge.
LEMMA PublishStep ==
    ASSUME DecInv, Decoder!Publish
    PROVE  DecInv'
  <1> DEFINE s == IF Decoder!Decodes
                  THEN (IF Decoder!AnyOf(Decoder!PylonIds) THEN Decoder!View(copy, {"p355", "p356"})
                        ELSE Decoder!FromJk(copy))
                  ELSE {}
  <1>1. /\ task = "copied" /\ task' = "idle" /\ copy' = Decoder!Nothing
        /\ model' = (IF Decoder!Clears /\ bmsHere THEN {} ELSE IF s = {} THEN model ELSE s)
        /\ shown' = (IF Decoder!Clears /\ bmsHere THEN {} ELSE IF s = {} THEN shown ELSE s)
        /\ UNCHANGED <<protocol, bmsHere, cache, since, quiet, stopping, restarts>>
    BY DEF Decoder!Publish
  <1>2. Decoder!DecoderAssumption /\ DecTyped /\ CopyIsFresh /\ RecentSoFar /\ QuietSoFar
    BY DEF DecInv
  <1>3. DOMAIN copy' = {} /\ since = 0 /\ since' = 0
    BY <1>1, <1>2 DEF Decoder!Nothing, CopyIsFresh
  <1>4. \A i \in DOMAIN copy : /\ copy[i] \in Decoder!Frames /\ copy[i].age \in Nat
                               /\ copy[i].age <= Decoder!WindowOf(i) /\ quiet <= copy[i].age
    BY <1>2, DecNumbers DEF DecTyped, CopyIsFresh, Decoder!Frames
  <1>5. Waited' = restarts * SnapPeriod /\ Waited' \in Nat
    BY <1>1, <1>2, <1>3, WaitedIsNat DEF Waited
  <1>6. Decoder!Decodes =>
            \E m \in Decoder!Views : /\ s = {m} /\ m.stamp = 0
                                     /\ protocol \in Decoder!PylonLike => m.old <= PylonStale
    <2> SUFFICES ASSUME Decoder!Decodes
                 PROVE  \E m \in Decoder!Views : /\ s = {m} /\ m.stamp = 0
                                                 /\ protocol \in Decoder!PylonLike => m.old <= PylonStale
      OBVIOUS
    <2>1. CASE Decoder!AnyOf(Decoder!PylonIds)
      <3>1. "p355" \in DOMAIN copy /\ "p356" \in DOMAIN copy
        BY <2>1 DEF Decoder!Decodes, Decoder!Required
      <3>2. PICK m \in Decoder!Views : /\ Decoder!View(copy, {"p355", "p356"}) = {m} /\ m.from = "here" /\ m.stamp = 0
                                       /\ m.old \in {copy["p355"].age, copy["p356"].age}
        BY <1>2, <1>4, <3>1, ViewIsMade
      <3>3. protocol \in Decoder!PylonLike => m.old <= PylonStale
        BY <1>4, <3>1, <3>2 DEF Decoder!WindowOf, Decoder!StaleOf, Decoder!PylonIds
      <3> QED BY <2>1, <3>2, <3>3
    <2>2. CASE ~Decoder!AnyOf(Decoder!PylonIds)
      <3>1. protocol = "jk" /\ "j02F4" \in DOMAIN copy
        BY <2>2 DEF Decoder!Decodes
      <3>2. s = Decoder!FromJk(copy) /\ Decoder!FromJk(copy) # {}
        BY <2>2, <3>1 DEF Decoder!FromJk, Decoder!View
      <3>3. \A t \in {Decoder!FromJk(copy)} : t = {} \/ \E m \in Decoder!Views : t = {m} /\ m.from = "here" /\ m.stamp = 0
        BY <1>2, <1>4, DialectsMake
      <3> QED BY <3>1, <3>2, <3>3 DEF Decoder!PylonLike
    <2> QED BY <2>1, <2>2
  <1>7. ~Decoder!Decodes => s = {}
    OBVIOUS
  <1>8. ~Decoder!Decodes /\ ~Decoder!Clears => protocol = "growatt" /\ \E i \in DOMAIN copy : i \notin Decoder!PylonIds
    BY <1>2 DEF Decoder!Clears, Decoder!AnyOf, Decoder!PylonIds, Decoder!PylonLike, DecTyped, Decoder!DecoderAssumption
  <1>9. Decoder!Decodes => \E i \in DOMAIN copy : TRUE
    BY DEF Decoder!Decodes, Decoder!AnyOf
  <1> HIDE DEF s
  <1>10. DecTyped'
    <2>1. \A t \in {model', shown'} : t = {} \/ \E m \in Decoder!Views : t = {m}
      BY <1>1, <1>2, <1>6, <1>7 DEF DecTyped
    <2> QED BY <1>1, <1>2, <1>3, <2>1 DEF DecTyped
  <1>11. CopyIsFresh'
    BY <1>1, <1>2, <1>3 DEF CopyIsFresh
  <1>12. RecentSoFar'
    <2> SUFFICES ASSUME bmsHere, protocol \in Decoder!PylonLike, NEW m \in model' \cup shown', m.from = "here"
                 PROVE  m.old + m.stamp <= PylonStale + Waited'
      BY <1>1 DEF RecentSoFar
    <2>1. Decoder!Decodes
      BY <1>1, <1>8 DEF Decoder!PylonLike
    <2>2. m \in Decoder!Views /\ m.stamp = 0 /\ m.old <= PylonStale
      BY <1>1, <1>6, <2>1 DEF Decoder!Clears
    <2>3. m.old \in Nat
      BY <1>2, <2>2, DecNumbers DEF Decoder!Views
    <2> QED BY <1>2, <1>5, <2>2, <2>3, DecNumbers
  <1>13. QuietSoFar'
    <2> SUFFICES ASSUME bmsHere, model' # {} \/ shown' # {}
                 PROVE  quiet <= Decoder!StaleOf(protocol) + Waited'
      BY <1>1 DEF QuietSoFar
    <2>1. ~Decoder!Clears
      BY <1>1
    <2>2. PICK i \in DOMAIN copy : TRUE
      BY <1>8, <1>9, <2>1
    <2>3. Decoder!WindowOf(i) <= Decoder!StaleOf(protocol) /\ Decoder!StaleOf(protocol) \in Nat /\ Decoder!WindowOf(i) \in Nat
      BY <1>2, DecNumbers DEF Decoder!WindowOf, Decoder!StaleOf
    <2>4. quiet \in Nat
      BY <1>2, DecNumbers DEF DecTyped
    <2> QED BY <1>4, <1>5, <2>2, <2>3, <2>4
  <1> QED BY <1>2, <1>10, <1>11, <1>12, <1>13 DEF DecInv

LEMMA StopStep ==
    ASSUME DecInv, Decoder!StopBridge
    PROVE  DecInv'
  <1>1. /\ stopping' = TRUE /\ shown' = {}
        /\ UNCHANGED <<protocol, bmsHere, cache, model, task, copy, since, quiet, restarts>>
    BY DEF Decoder!StopBridge
  <1>2. Waited' = Waited
    BY <1>1 DEF Waited
  <1>3. DecTyped'
    BY <1>1 DEF DecInv, DecTyped, Decoder!StopBridge
  <1>4. CopyIsFresh'
    BY <1>1 DEF DecInv, CopyIsFresh, Decoder!WindowOf
  <1>5. RecentSoFar' /\ QuietSoFar'
    BY <1>1, <1>2 DEF DecInv, RecentSoFar, QuietSoFar
  <1> QED BY <1>3, <1>4, <1>5 DEF DecInv

\* The period that is lost is counted with the restarts.
LEMMA RestartStep ==
    ASSUME DecInv, Decoder!Restart
    PROVE  DecInv'
  <1>1. /\ stopping' = FALSE /\ restarts' = restarts + 1
        /\ cache' = Decoder!Nothing /\ copy' = Decoder!Nothing /\ task' = "idle" /\ since' = 0
        /\ UNCHANGED <<protocol, bmsHere, model, shown, quiet>>
    BY DEF Decoder!Restart
  <1>2. stopping
    BY DEF Decoder!Restart
  <1>3. Decoder!DecoderAssumption /\ DecTyped /\ CopyIsFresh /\ RecentSoFar /\ QuietSoFar
    BY DEF DecInv
  <1>4. DOMAIN cache' = {} /\ DOMAIN copy' = {}
    BY <1>1 DEF Decoder!Nothing
  <1>5. Waited' = restarts * SnapPeriod + SnapPeriod /\ Waited \in Nat /\ Waited <= Waited' /\ Waited' \in Nat
    <2>1. Waited' = (restarts + 1) * SnapPeriod + 0
      BY <1>1 DEF Waited
    <2>2. /\ Waited \in Nat /\ restarts * SnapPeriod \in Nat
          /\ Waited <= (1 + restarts) * SnapPeriod
          /\ (restarts + 1) * SnapPeriod = restarts * SnapPeriod + SnapPeriod
      BY <1>3, WaitedIsNat
    <2>3. since \in Nat /\ since <= SnapPeriod /\ SnapPeriod \in Nat
      BY <1>3, DecNumbers DEF DecTyped
    <2>4. Waited <= restarts * SnapPeriod + SnapPeriod
      BY <2>2, <2>3 DEF Waited
    <2> QED BY <2>1, <2>2, <2>3, <2>4
  <1>6. DecTyped'
    <2>1. restarts' \in 0..MaxRestarts /\ since' \in 0..SnapPeriod
      BY <1>1, <1>2, <1>3, DecNumbers DEF DecTyped
    <2> QED BY <1>1, <1>3, <1>4, <2>1 DEF DecTyped
  <1>7. CopyIsFresh'
    BY <1>1, <1>4 DEF CopyIsFresh
  <1>8. RecentSoFar'
    <2> SUFFICES ASSUME bmsHere, protocol \in Decoder!PylonLike, NEW m \in model \cup shown, m.from = "here"
                 PROVE  m.old + m.stamp <= PylonStale + Waited'
      BY <1>1 DEF RecentSoFar
    <2>1. m.old + m.stamp <= PylonStale + Waited
      BY <1>3 DEF RecentSoFar
    <2>2. m \in Decoder!Views
      BY <1>3 DEF DecTyped
    <2>3. m.old \in Nat /\ m.stamp \in Nat
      BY <1>3, <2>2, DecNumbers DEF Decoder!Views
    <2> QED BY <1>3, <1>5, <2>1, <2>3, DecNumbers
  <1>9. QuietSoFar'
    <2>1. Decoder!StaleOf(protocol) \in Nat /\ quiet \in Nat
      BY <1>3, DecNumbers DEF DecTyped, Decoder!StaleOf
    <2> QED BY <1>1, <1>3, <1>5, <2>1 DEF QuietSoFar, Decoder!StaleOf
  <1> QED BY <1>3, <1>6, <1>7, <1>8, <1>9 DEF DecInv

LEMMA ElsewhereStep ==
    ASSUME DecInv, Decoder!Elsewhere
    PROVE  DecInv'
  <1>1. /\ ~bmsHere /\ model' = {[from |-> "elsewhere", old |-> 0, stamp |-> 0]} /\ shown' = model'
        /\ UNCHANGED <<protocol, bmsHere, cache, task, copy, since, quiet, stopping, restarts>>
    BY DEF Decoder!Elsewhere
  <1>2. [from |-> "elsewhere", old |-> 0, stamp |-> 0] \in Decoder!Views
    BY DecNumbers DEF DecInv, Decoder!Views
  <1>3. DecTyped'
    BY <1>1, <1>2 DEF DecInv, DecTyped
  <1>4. CopyIsFresh'
    BY <1>1 DEF DecInv, CopyIsFresh, Decoder!WindowOf
  <1>5. RecentSoFar' /\ QuietSoFar'
    BY <1>1 DEF RecentSoFar, QuietSoFar
  <1> QED BY <1>3, <1>4, <1>5 DEF DecInv

\* A view that grows older stays a view.
LEMMA ViewGrows ==
    ASSUME Decoder!DecoderAssumption, NEW m \in Decoder!Views
    PROVE  LET n == [m EXCEPT !.stamp = Decoder!Grown(@, Decoder!MaxAge)]
           IN  /\ n \in Decoder!Views /\ n.from = m.from /\ n.old = m.old
               /\ n.stamp \in Nat /\ m.stamp \in Nat /\ m.old \in Nat /\ n.stamp <= m.stamp + 1
  <1> DEFINE n == [m EXCEPT !.stamp = Decoder!Grown(@, Decoder!MaxAge)]
  <1>1. m.stamp \in 0..Decoder!MaxAge /\ m.old \in 0..PylonStale + 1
    BY DEF Decoder!Views
  <1>2. Decoder!Grown(m.stamp, Decoder!MaxAge) \in 0..Decoder!MaxAge /\ Decoder!Grown(m.stamp, Decoder!MaxAge) <= m.stamp + 1
    BY <1>1, DecNumbers DEF Decoder!Grown
  <1>3. n = [from |-> m.from, old |-> m.old, stamp |-> Decoder!Grown(m.stamp, Decoder!MaxAge)]
    BY DEF Decoder!Views
  <1>4. n \in Decoder!Views
    BY <1>2, <1>3 DEF Decoder!Views
  <1> QED BY <1>1, <1>2, <1>3, <1>4, DecNumbers

LEMMA TickStep ==
    ASSUME DecInv, Decoder!Tick
    PROVE  DecInv'
  <1> DEFINE grown(m) == [m EXCEPT !.stamp = Decoder!Grown(@, Decoder!MaxAge)]
  <1>1. /\ task = "idle" /\ ~stopping /\ since < SnapPeriod /\ since' = since + 1
        /\ cache' = [i \in DOMAIN cache |-> [cache[i] EXCEPT !.age = Decoder!Grown(@, PylonStale + 1)]]
        /\ model' = {grown(m) : m \in model} /\ shown' = {grown(m) : m \in shown}
        /\ quiet' = Decoder!Grown(quiet, Decoder!MaxAge)
        /\ UNCHANGED <<protocol, bmsHere, task, copy, stopping, restarts>>
    BY DEF Decoder!Tick
  <1>2. Decoder!DecoderAssumption /\ DecTyped /\ CopyIsFresh /\ RecentSoFar /\ QuietSoFar
    BY DEF DecInv
  <1>3. \A m \in Decoder!Views : /\ grown(m) \in Decoder!Views /\ grown(m).from = m.from /\ grown(m).old = m.old
                                 /\ grown(m).stamp \in Nat /\ m.stamp \in Nat /\ m.old \in Nat
                                 /\ grown(m).stamp <= m.stamp + 1
    BY <1>2, ViewGrows
  <1> HIDE DEF grown
  <1>4. quiet \in Nat /\ quiet' \in 0..Decoder!MaxAge /\ quiet' <= quiet + 1
    BY <1>1, <1>2, DecNumbers DEF DecTyped, Decoder!Grown
  <1>5. /\ DOMAIN cache' = DOMAIN cache
        /\ \A i \in DOMAIN cache : /\ cache'[i] \in Decoder!Frames /\ cache[i].age \in Nat
                                   /\ cache'[i].age <= PylonStale => cache'[i].age = cache[i].age + 1
    <2>1. DOMAIN cache' = DOMAIN cache
      BY <1>1
    <2>2. ASSUME NEW i \in DOMAIN cache
          PROVE  /\ cache'[i] \in Decoder!Frames /\ cache[i].age \in Nat
                 /\ cache'[i].age <= PylonStale => cache'[i].age = cache[i].age + 1
      <3>1. cache[i] \in [v : {"plain", "odd"}, age : 0..PylonStale + 1]
        BY <1>2 DEF DecTyped, Decoder!Frames
      <3>2. cache'[i] = [v |-> cache[i].v, age |-> Decoder!Grown(cache[i].age, PylonStale + 1)]
        BY <1>1, <3>1
      <3>3. cache[i].age \in 0..PylonStale + 1
        BY <3>1
      <3>4. /\ Decoder!Grown(cache[i].age, PylonStale + 1) \in 0..PylonStale + 1 /\ cache[i].age \in Nat
            /\ Decoder!Grown(cache[i].age, PylonStale + 1) <= PylonStale =>
                   Decoder!Grown(cache[i].age, PylonStale + 1) = cache[i].age + 1
        BY <1>2, <3>3, DecNumbers DEF Decoder!Grown
      <3> QED BY <3>1, <3>2, <3>4 DEF Decoder!Frames
    <2> QED BY <2>1, <2>2
  <1>6. DecTyped'
    <2>1. \A s \in {model, shown} : {grown(m) : m \in s} = {} \/ \E m \in Decoder!Views : {grown(k) : k \in s} = {m}
      <3> SUFFICES ASSUME NEW s \in {model, shown}, s # {}
                   PROVE  \E m \in Decoder!Views : {grown(k) : k \in s} = {m}
        OBVIOUS
      <3>1. PICK k \in Decoder!Views : s = {k}
        BY <1>2 DEF DecTyped
      <3>2. {grown(j) : j \in s} = {grown(k)}
        BY <3>1
      <3> QED BY <1>3, <3>1, <3>2
    <2>2. \A s \in {model', shown'} : s = {} \/ \E m \in Decoder!Views : s = {m}
      BY <1>1, <2>1
    <2>3. since' \in 0..SnapPeriod
      BY <1>1, <1>2, DecNumbers DEF DecTyped
    <2>4. DOMAIN cache' \subseteq Decoder!Cached /\ \A i \in DOMAIN cache' : cache'[i] \in Decoder!Frames
      BY <1>2, <1>5 DEF DecTyped
    <2> QED BY <1>1, <1>2, <1>4, <2>2, <2>3, <2>4 DEF DecTyped
  <1>7. CopyIsFresh'
    <2>1. \A i \in DOMAIN cache' : cache'[i].age <= PylonStale => quiet' <= cache'[i].age
      <3> SUFFICES ASSUME NEW i \in DOMAIN cache, cache'[i].age <= PylonStale PROVE quiet' <= cache'[i].age
        BY <1>5
      <3>1. cache'[i].age = cache[i].age + 1 /\ cache[i].age \in Nat
        BY <1>5
      <3>2. cache[i].age <= PylonStale
        BY <1>2, <3>1, DecNumbers
      <3>3. quiet <= cache[i].age
        BY <1>2, <3>2 DEF CopyIsFresh
      <3> QED BY <1>2, <1>4, <3>1, <3>3, DecNumbers
    <2>2. DOMAIN copy' = {}
      BY <1>1, <1>2 DEF CopyIsFresh
    <2> QED BY <1>1, <2>1, <2>2 DEF CopyIsFresh
  <1>8. Waited' = Waited + 1 /\ Waited \in Nat
    <2>1. restarts * SnapPeriod \in Nat /\ since \in Nat /\ Waited \in Nat
      BY <1>2, WaitedIsNat, DecNumbers DEF DecTyped
    <2> QED BY <1>1, <2>1 DEF Waited
  <1>9. RecentSoFar'
    <2> SUFFICES ASSUME bmsHere, protocol \in Decoder!PylonLike, NEW m \in model' \cup shown', m.from = "here"
                 PROVE  m.old + m.stamp <= PylonStale + Waited'
      BY <1>1 DEF RecentSoFar
    <2>1. PICK k \in model \cup shown : m = grown(k)
      BY <1>1
    <2>2. k \in Decoder!Views
      BY <1>2 DEF DecTyped
    <2>3. k.old + k.stamp <= PylonStale + Waited
      BY <1>2, <1>3, <2>1, <2>2 DEF RecentSoFar
    <2>4. m.old = k.old /\ m.stamp <= k.stamp + 1 /\ m.stamp \in Nat /\ k.stamp \in Nat /\ k.old \in Nat
      BY <1>3, <2>1, <2>2
    <2> QED BY <1>2, <1>8, <2>3, <2>4, DecNumbers
  <1>10. QuietSoFar'
    <2> SUFFICES ASSUME bmsHere, model' # {} \/ shown' # {}
                 PROVE  quiet' <= Decoder!StaleOf(protocol) + Waited'
      BY <1>1 DEF QuietSoFar, Decoder!StaleOf
    <2>1. quiet <= Decoder!StaleOf(protocol) + Waited
      BY <1>1, <1>2 DEF QuietSoFar
    <2>2. Decoder!StaleOf(protocol) \in Nat
      BY <1>2, DecNumbers DEF Decoder!StaleOf
    <2> QED BY <1>4, <1>8, <2>1, <2>2
  <1> QED BY <1>2, <1>6, <1>7, <1>9, <1>10 DEF DecInv

LEMMA DecStep == DecInv /\ [Decoder!Next]_(Decoder!vars) => DecInv'
  <1> SUFFICES ASSUME DecInv, [Decoder!Next]_(Decoder!vars) PROVE DecInv'
    OBVIOUS
  <1>1. CASE \E i \in Decoder!Cached \cup {"other"}, v \in {"plain", "odd"} : Decoder!OnFrame(i, v)
    BY <1>1, FrameStep
  <1>2. CASE Decoder!Copy
    BY <1>2, CopyStep
  <1>3. CASE Decoder!Publish
    BY <1>3, PublishStep
  <1>4. CASE Decoder!StopBridge
    BY <1>4, StopStep
  <1>5. CASE Decoder!Restart
    BY <1>5, RestartStep
  <1>6. CASE Decoder!Elsewhere
    BY <1>6, ElsewhereStep
  <1>7. CASE Decoder!Tick
    BY <1>7, TickStep
  <1>8. CASE UNCHANGED Decoder!vars
    BY <1>8 DEF Decoder!vars, DecInv, DecTyped, CopyIsFresh, RecentSoFar, QuietSoFar, Waited,
                Decoder!WindowOf, Decoder!StaleOf
  <1> QED BY <1>1, <1>2, <1>3, <1>4, <1>5, <1>6, <1>7, <1>8 DEF Decoder!Next

LEMMA DecIsInv == Decoder!DecoderAssumption /\ Decoder!Spec => []DecInv
  BY DecStarts, DecStep, PTL DEF Decoder!Spec

\* The caches hold frames, and the model and the telemetry one battery at most.
THEOREM DecoderTypeIsRight == Decoder!DecoderAssumption /\ Decoder!Spec => []Decoder!TypeOK
  <1>1. \A S : Decoder!Cardinality(S) = Cardinality(S)
    BY DEF Decoder!Cardinality, Cardinality
  <1>2. DecInv => Decoder!TypeOK
    <2> SUFFICES ASSUME DecTyped PROVE Decoder!TypeOK
      BY DEF DecInv
    <2>1. \A s \in {model, shown} : s \subseteq Decoder!Views /\ Cardinality(s) <= 1
      <3> TAKE s \in {model, shown}
      <3>1. CASE s = {}
        BY <3>1, FS_EmptySet
      <3>2. CASE \E m \in Decoder!Views : s = {m}
        BY <3>2, FS_Singleton
      <3> QED BY <3>1, <3>2 DEF DecTyped
    <2> QED BY <1>1, <2>1 DEF DecTyped, Decoder!TypeOK
  <1> QED BY <1>2, DecIsInv, PTL

\* On the interface of a Pylon-like battery: what it told is in the model and in the telemetry no longer
\* than its window, one period of the snapshot task, and one for each restart of the route, whatever
\* else is heard, for every window, period and number of restarts and whatever is on the bus. The
\* interface must be the battery's: the task clears nothing for another (canClearStaleSourceTelemetry).
THEOREM ToldByTheBusIsRecent ==
    Decoder!DecoderAssumption /\ Decoder!Spec => [](bmsHere => Decoder!RecentOrForgotten)
  <1>1. DecInv => (bmsHere => Decoder!RecentOrForgotten)
    <2> SUFFICES ASSUME DecInv, bmsHere, protocol \in Decoder!PylonLike,
                        NEW m \in model \cup shown, m.from = "here"
                 PROVE  m.old + m.stamp <= PylonStale + (1 + restarts) * SnapPeriod
      BY DEF Decoder!RecentOrForgotten
    <2>1. Decoder!DecoderAssumption /\ DecTyped /\ m.old + m.stamp <= PylonStale + Waited
      BY DEF DecInv, RecentSoFar
    <2>2. Waited \in Nat /\ Waited <= (1 + restarts) * SnapPeriod
      BY <2>1, WaitedIsNat
    <2>3. (1 + restarts) * SnapPeriod \in Nat
      BY <2>1, DecNumbers DEF DecTyped
    <2>4. m \in Decoder!Views
      BY <2>1 DEF DecTyped
    <2>5. m.old \in Nat /\ m.stamp \in Nat /\ PylonStale \in Nat
      BY <2>1, <2>4, DecNumbers DEF Decoder!Views
    <2> DEFINE limit == (1 + restarts) * SnapPeriod
    <2> HIDE DEF limit
    <2> QED BY <2>1, <2>2, <2>3, <2>5 DEF limit
  <1> QED BY <1>1, DecIsInv, PTL

\* On the battery's interface, under every protocol: when its bus has been silent for the window, a
\* period and one for each restart, nothing of the battery is left.
THEOREM SilentBusIsForgottenAlways ==
    Decoder!DecoderAssumption /\ Decoder!Spec => []Decoder!SilentBusIsForgotten
  <1>1. DecInv => Decoder!SilentBusIsForgotten
    <2> SUFFICES ASSUME DecInv, bmsHere, model # {} \/ shown # {}
                 PROVE  ~(quiet > Decoder!StaleOf(protocol) + (1 + restarts) * SnapPeriod)
      BY DEF Decoder!SilentBusIsForgotten
    <2>1. Decoder!DecoderAssumption /\ DecTyped /\ quiet <= Decoder!StaleOf(protocol) + Waited
      BY DEF DecInv, QuietSoFar
    <2>2. Waited \in Nat /\ Waited <= (1 + restarts) * SnapPeriod
      BY <2>1, WaitedIsNat
    <2>3. (1 + restarts) * SnapPeriod \in Nat /\ Decoder!StaleOf(protocol) \in Nat /\ quiet \in Nat
      BY <2>1, DecNumbers DEF DecTyped, Decoder!StaleOf
    <2> DEFINE limit == (1 + restarts) * SnapPeriod
    <2> HIDE DEF limit
    <2> QED BY <2>1, <2>2, <2>3 DEF limit
  <1> QED BY <1>1, DecIsInv, PTL

\* Where what is heard is of no dialect, the caches stay empty.
Unread ==
    /\ \A p \in Protocols : Sends[p] \cap Decoder!Cached = {}
    /\ protocol \in Protocols /\ DOMAIN cache = {} /\ DOMAIN copy = {}

LEMMA UnreadStep == DecInv /\ Unread /\ [Decoder!Next]_(Decoder!vars) => Unread' /\ Decoder!OtherIsKept
  <1> SUFFICES ASSUME DecInv, Unread, [Decoder!Next]_(Decoder!vars) PROVE Unread' /\ Decoder!OtherIsKept
    OBVIOUS
  <1> USE DEF Unread, Decoder!OtherIsKept
  <1>1. ASSUME NEW i \in Decoder!Cached \cup {"other"}, NEW v \in {"plain", "odd"}, Decoder!OnFrame(i, v)
        PROVE  Unread' /\ Decoder!OtherIsKept
    <2>1. i \in Sends[protocol] /\ i \notin Decoder!Cached
      BY <1>1 DEF Decoder!OnFrame
    <2>2. /\ cache' = cache /\ UNCHANGED <<protocol, copy>>
          /\ model' = IF Decoder!ToModel(cache) # {} THEN Decoder!ToModel(cache) ELSE model
      BY <1>1, <2>1 DEF Decoder!OnFrame
    <2>3. /\ Decoder!FromPylon(cache) = {} /\ Decoder!FromGoodwe(cache) = {}
          /\ Decoder!FromGrowatt(cache) = {} /\ Decoder!FromJk(cache) = {}
      BY DEF Decoder!FromPylon, Decoder!FromGoodwe, Decoder!FromGrowatt, Decoder!FromJk, Decoder!Fresh
    <2>4. Decoder!ToModel(cache) = {}
      BY <2>3 DEF Decoder!ToModel
    <2> QED BY <2>2, <2>4
  <1>2. CASE Decoder!Copy
    BY <1>2 DEF Decoder!Copy
  <1>3. CASE Decoder!Publish
    <2>1. ~Decoder!Decodes
      BY DEF Decoder!Decodes, Decoder!AnyOf
    <2> QED BY <1>3, <2>1 DEF Decoder!Publish, Decoder!Nothing
  <1>4. CASE Decoder!StopBridge
    BY <1>4 DEF Decoder!StopBridge
  <1>5. CASE Decoder!Restart
    BY <1>5 DEF Decoder!Restart, Decoder!Nothing
  <1>6. CASE Decoder!Elsewhere
    BY <1>6 DEF Decoder!Elsewhere
  <1>7. CASE Decoder!Tick
    <2>1. /\ DOMAIN cache' = {} /\ UNCHANGED <<protocol, copy>>
          /\ model' = {[m EXCEPT !.stamp = Decoder!Grown(@, Decoder!MaxAge)] : m \in model}
      BY <1>7 DEF Decoder!Tick
    <2>2. \A m \in model : [m EXCEPT !.stamp = Decoder!Grown(@, Decoder!MaxAge)].from = m.from
      <3>1. model \subseteq Decoder!Views
        BY DEF DecInv, DecTyped
      <3> QED BY <3>1, ViewGrows DEF DecInv
    <2> QED BY <2>1, <2>2
  <1>8. CASE UNCHANGED Decoder!vars
    BY <1>8 DEF Decoder!vars
  <1> QED BY <1>1, <1>2, <1>3, <1>4, <1>5, <1>6, <1>7, <1>8 DEF Decoder!Next

\* On the interface that is not the battery's, whose bus holds nothing that is decoded, no step takes
\* away what another interface told of the battery, the clearing of what is stale included.
THEOREM OtherIsKeptAlways ==
    Decoder!DecoderAssumption /\ (\A p \in Protocols : Sends[p] \cap Decoder!Cached = {}) /\ Decoder!Spec
        => [][Decoder!OtherIsKept]_(Decoder!vars)
  <1>1. (\A p \in Protocols : Sends[p] \cap Decoder!Cached = {}) /\ Decoder!Init => Unread
    BY DEF Unread, Decoder!Init, Decoder!Nothing
  <1> QED BY <1>1, UnreadStep, DecIsInv, PTL DEF Decoder!Spec

-----------------------------------------------------------------------------
(* Numbers and recursive functions: what every source needs.               *)

\* As an order that is well founded.
LessThan == OpToRel(<, Nat)

LEMMA LeastNumber ==
    ASSUME NEW T \in SUBSET Nat, T # {}
    PROVE  \E m \in T : \A n \in T : m <= n
  <1>1. IsWellFoundedOn(LessThan, Nat)
    BY NatLessThanWellFounded DEF LessThan
  <1>2. PICK m \in T : \A n \in T : ~(<<n, m>> \in LessThan)
    BY <1>1, WFMin
  <1>3. \A n \in T : ~(n < m)
    BY <1>2 DEF LessThan, OpToRel
  <1> QED BY <1>3

LEMMA Climb ==
    ASSUME NEW N \in Nat, NEW T, 0 \in T, \A i \in 1..N : i - 1 \in T => i \in T
    PROVE  \A i \in 0..N : i \in T
  <1> SUFFICES ASSUME NEW k \in 0..N, k \notin T PROVE FALSE
    OBVIOUS
  <1> DEFINE Bad == {i \in 0..N : i \notin T}
  <1>1. PICK m \in Bad : \A n \in Bad : m <= n
    <2>1. Bad \in SUBSET Nat /\ Bad # {}
      OBVIOUS
    <2> HIDE DEF Bad
    <2> QED BY <2>1, LeastNumber
  <1>2. m \in 1..N /\ m - 1 \notin Bad
    BY <1>1
  <1> QED BY <1>1, <1>2

Moves(S, N) == [1..N -> [S -> S]]
IsRun(g, S, N, b, F) == g \in [0..N -> S] /\ g[0] = b /\ \A i \in 1..N : g[i] = F[i][g[i - 1]]

LEMMA IterExists ==
    ASSUME NEW S, NEW N \in Nat, NEW b \in S, NEW F \in Moves(S, N)
    PROVE  \E g : IsRun(g, S, N, b, F)
  <1> USE DEF Moves
  <1> DEFINE Upto(n, g) == g[0] = b /\ \A i \in 1..n : g[i] = F[i][g[i - 1]]
             T == {n \in 0..N : \E g \in [0..n -> S] : Upto(n, g)}
  <1>1. 0 \in T
    <2> DEFINE h == [i \in 0..0 |-> b]
    <2>1. h \in [0..0 -> S] /\ Upto(0, h)
      OBVIOUS
    <2> HIDE DEF h, Upto
    <2> QED BY <2>1
  <1>2. ASSUME NEW n \in 1..N, n - 1 \in T PROVE n \in T
    <2>1. PICK g \in [0..(n - 1) -> S] : Upto(n - 1, g)
      BY <1>2
    <2> DEFINE h == [i \in 0..n |-> IF i = n THEN F[n][g[n - 1]] ELSE g[i]]
    <2>2. F[n][g[n - 1]] \in S
      OBVIOUS
    <2>3. h \in [0..n -> S] /\ h[0] = b
      BY <2>1, <2>2
    <2>4. ASSUME NEW i \in 1..n PROVE h[i] = F[i][h[i - 1]]
      <3>1. h[i - 1] = g[i - 1]
        OBVIOUS
      <3>2. CASE i = n
        BY <3>1, <3>2
      <3>3. CASE i # n
        <4>1. i \in 1..(n - 1)
          BY <3>3
        <4> QED BY <2>1, <3>1, <3>3, <4>1
      <3> QED BY <3>2, <3>3
    <2>5. Upto(n, h)
      BY <2>3, <2>4
    <2> HIDE DEF h, Upto
    <2> QED BY <2>3, <2>5
  <1>3. N \in T
    <2>1. \A i \in 1..N : i - 1 \in T => i \in T
      BY <1>2
    <2> HIDE DEF T
    <2>2. \A i \in 0..N : i \in T
      BY <1>1, <2>1, Climb
    <2> QED BY <2>2
  <1>4. \E g \in [0..N -> S] : Upto(N, g)
    BY <1>3
  <1> QED BY <1>4 DEF IsRun

-----------------------------------------------------------------------------
(* The Daly source on CAN.                                                 *)

CONSTANTS
    MaxCells, FirstNo, InitCmds, RunCmds, Targets, Variants, Hosts, Master, Window, Hold, Batteries,
    Harms, MaxFaults, MaxSwaps

VARIABLES
    cmd, plan, matched, expected, learned, active, record, frame, out, rxq, bus, hold, air, battery,
    gen, heard, faults, swaps

DalyBus == INSTANCE DalyCan WITH Stale <- Window, pc <- task, snap <- record

\* No answer comes late, and no other device asks on the bus.
OnlyPrompt == {"late", "foreign", "other"} \cap Harms = {}

AnswersForm(v) == v.host \in battery.hosts /\ (v.short => battery.short)

\* What is in the air or in the queue while an answer is waited for is the answer to that request.
AnswersAreOwn ==
    swaps = 0 =>
        /\ task # "wait" => air = DalyBus!NoAnswer
        /\ air # DalyBus!NoAnswer => "due" \in DOMAIN air /\ air.due = 0 /\ rxq = <<>>
        /\ task = "wait" /\ (air # DalyBus!NoAnswer \/ rxq # <<>>) => AnswersForm(plan[1].variant)
        /\ \A v \in learned : AnswersForm(v)

CanInv == OnlyPrompt /\ swaps \in Nat /\ AnswersAreOwn

LEMMA CanStarts == OnlyPrompt /\ DalyBus!Init => CanInv
  BY DEF DalyBus!Init, CanInv, AnswersAreOwn, DalyBus!NoAnswer

\* A step of the task that asks nothing while nothing is waited for.
LEMMA QuietStep ==
    ASSUME CanInv, task # "wait", task' # "wait", UNCHANGED <<learned, air, battery, swaps>>
    PROVE  CanInv'
  BY DEF CanInv, OnlyPrompt, AnswersAreOwn, AnswersForm, DalyBus!NoAnswer

LEMMA TryOverLeaves == DalyBus!TryOver => task' \in {"round", "poll", "ask"}
  BY DEF DalyBus!TryOver, DalyBus!CommandOver

LEMMA AskStep ==
    ASSUME CanInv, DalyBus!Ask
    PROVE  CanInv'
  <1>1. /\ task = "ask" /\ task' = "wait" /\ rxq' = <<>> /\ UNCHANGED <<plan, learned, battery, swaps>>
        /\ DalyBus!Send(Head(plan))
    BY DEF DalyBus!Ask, DalyBus!envVars
  <1>2. SUFFICES ASSUME swaps = 0
                 PROVE  air' # DalyBus!NoAnswer =>
                            "due" \in DOMAIN air' /\ air'.due = 0 /\ AnswersForm(plan[1].variant)
    BY <1>1, <1>2 DEF CanInv, OnlyPrompt, AnswersAreOwn, AnswersForm, DalyBus!NoAnswer
  <1>3. air = DalyBus!NoAnswer
    BY <1>1, <1>2 DEF CanInv, AnswersAreOwn
  <1>4. CASE air' = air
    BY <1>3, <1>4
  <1>5. CASE air' # air
    <2>1. DalyBus!Understands(Head(plan)) /\ "due" \in DOMAIN air' /\ air'.due = 0
      BY <1>1, <1>5 DEF DalyBus!Send, CanInv, OnlyPrompt
    <2> QED BY <2>1 DEF DalyBus!Understands, AnswersForm
  <1> QED BY <1>4, <1>5

LEMMA WaitFrameStep ==
    ASSUME CanInv, DalyBus!WaitFrame
    PROVE  CanInv'
  <1>1. /\ task = "wait" /\ rxq # <<>> /\ UNCHANGED <<air, battery, swaps>>
        /\ \/ UNCHANGED <<task, plan, learned>>
           \/ learned' = DalyBus!Learn /\ UNCHANGED <<task, plan>>
           \/ learned' = DalyBus!Learn /\ task' # "wait"
    BY DEF DalyBus!WaitFrame, DalyBus!envVars, DalyBus!CommandOver
  <1>2. SUFFICES ASSUME swaps = 0 PROVE AnswersAreOwn'
    BY <1>1 DEF CanInv, OnlyPrompt, AnswersAreOwn
  <1>3. air = DalyBus!NoAnswer /\ AnswersForm(plan[1].variant) /\ \A v \in learned : AnswersForm(v)
    BY <1>1, <1>2 DEF CanInv, AnswersAreOwn
  <1>4. \A v \in learned' : AnswersForm(v)
    BY <1>1, <1>3 DEF DalyBus!Learn
  <1> QED BY <1>1, <1>3, <1>4 DEF AnswersAreOwn, AnswersForm, DalyBus!NoAnswer

LEMMA WaitEndsStep ==
    ASSUME CanInv, DalyBus!WaitEnds
    PROVE  CanInv'
  <1>1. /\ task = "wait" /\ UNCHANGED <<learned, battery, rxq, swaps>>
        /\ ~DalyBus!Due /\ air' = IF air = DalyBus!NoAnswer THEN air ELSE [air EXCEPT !.due = @ - 1]
    BY DEF DalyBus!WaitEnds, DalyBus!Tick, DalyBus!envVars
  <1>2. task' # "wait"
    BY TryOverLeaves DEF DalyBus!WaitEnds, DalyBus!CommandOver
  <1>3. swaps = 0 => air = DalyBus!NoAnswer
    BY <1>1 DEF CanInv, AnswersAreOwn, DalyBus!Due
  <1> QED BY <1>1, <1>2, <1>3 DEF CanInv, OnlyPrompt, AnswersAreOwn, AnswersForm, DalyBus!NoAnswer

LEMMA CanStep == CanInv /\ [DalyBus!Next]_(DalyBus!vars) => CanInv'
  <1> SUFFICES ASSUME CanInv, [DalyBus!Next]_(DalyBus!vars) PROVE CanInv'
    OBVIOUS
  <1> USE DEF DalyBus!envVars, DalyBus!taskVars, DalyBus!busVars
  <1>1. CASE DalyBus!PollRuns
    BY <1>1, QuietStep DEF DalyBus!PollRuns
  <1>2. CASE DalyBus!PollIsOff
    BY <1>2, QuietStep DEF DalyBus!PollIsOff, DalyBus!CommandOver
  <1>3. CASE DalyBus!Ask
    BY <1>3, AskStep
  <1>4. CASE DalyBus!AskFails
    <2>1. task' # "wait" /\ task = "ask" /\ UNCHANGED <<learned, air, battery, swaps>>
      BY <1>4, TryOverLeaves DEF DalyBus!AskFails
    <2> QED BY <2>1, QuietStep
  <1>5. CASE DalyBus!WaitFrame
    BY <1>5, WaitFrameStep
  <1>6. CASE DalyBus!WaitEnds
    BY <1>6, WaitEndsStep
  <1>7. CASE DalyBus!SniffFrame
    BY <1>7, QuietStep DEF DalyBus!SniffFrame
  <1>8. CASE DalyBus!SniffEnds \/ DalyBus!RoundEnds
    <2>1. /\ task # "wait" /\ task' # "wait" /\ UNCHANGED <<learned, battery, swaps>>
          /\ air' = IF air = DalyBus!NoAnswer THEN air ELSE [air EXCEPT !.due = @ - 1]
      BY <1>8 DEF DalyBus!SniffEnds, DalyBus!RoundEnds, DalyBus!Tick
    <2>2. swaps = 0 => air = DalyBus!NoAnswer
      BY <2>1 DEF CanInv, AnswersAreOwn
    <2> QED BY <2>1, <2>2 DEF CanInv, OnlyPrompt, AnswersAreOwn, AnswersForm, DalyBus!NoAnswer
  <1>9. CASE DalyBus!Restart \/ DalyBus!Swap
    <2>1. swaps' = swaps + 1
      BY <1>9 DEF DalyBus!Restart, DalyBus!Swap
    <2> QED BY <2>1 DEF CanInv, OnlyPrompt, AnswersAreOwn
  <1>10. CASE DalyBus!Arrive
    <2>1. /\ air # DalyBus!NoAnswer /\ air' = DalyBus!NoAnswer
          /\ UNCHANGED <<task, plan, learned, battery, swaps>>
      BY <1>10 DEF DalyBus!Arrive, DalyBus!Due
    <2> QED BY <2>1 DEF CanInv, OnlyPrompt, AnswersAreOwn, AnswersForm, DalyBus!NoAnswer
  <1>11. CASE DalyBus!Lose
    <2>1. /\ air # DalyBus!NoAnswer /\ UNCHANGED <<task, plan, learned, rxq, battery, swaps>>
          /\ air' = DalyBus!NoAnswer \/ air' = [air EXCEPT !.frames = Tail(@)]
      BY <1>11 DEF DalyBus!Lose, DalyBus!Due
    <2>2. swaps = 0 => "due" \in DOMAIN air /\ air.due = 0 /\ rxq = <<>> /\ task = "wait" /\ AnswersForm(plan[1].variant)
      BY <2>1 DEF CanInv, AnswersAreOwn
    <2>3. ("due" \in DOMAIN air' /\ air'.due = 0) \/ air' = DalyBus!NoAnswer \/ swaps # 0
      BY <2>1, <2>2
    <2> QED BY <2>1, <2>2, <2>3 DEF CanInv, OnlyPrompt, AnswersAreOwn, AnswersForm, DalyBus!NoAnswer
  <1>12. CASE DalyBus!Foreign \/ DalyBus!AnswersOther
    BY <1>12 DEF DalyBus!Foreign, DalyBus!AnswersOther, DalyBus!Fault, CanInv, OnlyPrompt
  <1>13. CASE DalyBus!BusOff
    <2>1. air' = DalyBus!NoAnswer /\ UNCHANGED <<task, plan, learned, rxq, battery, swaps>>
      BY <1>13 DEF DalyBus!BusOff
    <2> QED BY <2>1 DEF CanInv, OnlyPrompt, AnswersAreOwn, AnswersForm, DalyBus!NoAnswer
  <1>14. CASE DalyBus!BusRecovered \/ UNCHANGED DalyBus!vars
    <2>1. UNCHANGED <<task, plan, learned, rxq, air, battery, swaps>>
      BY <1>14 DEF DalyBus!BusRecovered, DalyBus!vars
    <2> QED BY <2>1 DEF CanInv, OnlyPrompt, AnswersAreOwn, AnswersForm, DalyBus!NoAnswer
  <1> QED BY <1>1, <1>2, <1>3, <1>4, <1>5, <1>6, <1>7, <1>8, <1>9, <1>10, <1>11, <1>12, <1>13, <1>14
          DEF DalyBus!Next, DalyBus!Task, DalyBus!Poll

\* Once dalyCanPollCommand has learned a form of request, it is one that the battery answers: whatever
\* is lost, however often the controller goes off and sending fails, for every bus, plan and number of
\* faults, until the battery is exchanged. Answers that come late, or to others, may teach a wrong one
\* (the source takes them for answers), so there must be none.
THEOREM LearnedIsAnsweredAlways == OnlyPrompt /\ DalyBus!Spec => []DalyBus!LearnedIsAnswered
  <1>1. CanInv => DalyBus!LearnedIsAnswered
    BY DEF CanInv, AnswersAreOwn, AnswersForm, DalyBus!LearnedIsAnswered
  <1> QED BY <1>1, CanStarts, CanStep, PTL DEF DalyBus!Spec

-----------------------------------------------------------------------------
(* The same source on every bus: what its task and its snapshot may hold.   *)

CanAssumed == DalyBus!CellsAssumption /\ DalyBus!CanAssumption

Forms == [host : Hosts, short : BOOLEAN]

\* The assumptions, as they are used.
CanSizes ==
    /\ MaxCells \in Nat \ {0} /\ FirstNo \in {0, 1}
    /\ InitCmds \in Seq(DalyBus!Cmds) /\ RunCmds \in Seq(DalyBus!Cmds) /\ RunCmds # <<>>
    /\ Len(Targets) \in Nat \ {0} /\ DOMAIN Targets = 1..Len(Targets) /\ \A i \in DOMAIN Targets : Targets[i] \in STRING
    /\ Len(Variants) \in Nat /\ Len(Variants) > 1 /\ DOMAIN Variants = 1..Len(Variants)
    /\ \A i \in DOMAIN Variants : Variants[i] \in Forms
    /\ Window \in Nat /\ Hold \in Nat /\ MaxFaults \in Nat /\ MaxSwaps \in Nat
    /\ \A b \in Batteries : b.n \in Nat /\ b.id \in STRING /\ b.hosts \subseteq Hosts

LEMMA CanSizesAre == CanAssumed => CanSizes
  <1> SUFFICES ASSUME CanAssumed PROVE CanSizes
    OBVIOUS
  <1>1. MaxCells \in Nat \ {0} /\ FirstNo \in {0, 1}
    BY DEF CanAssumed, DalyBus!CellsAssumption
  <1>2. /\ InitCmds \in Seq(DalyBus!Cmds) /\ RunCmds \in Seq(DalyBus!Cmds) /\ RunCmds # <<>>
        /\ Targets \in Seq(STRING) /\ Targets # <<>>
        /\ Variants \in Seq([host : Hosts, short : BOOLEAN]) /\ Len(Variants) > 1
        /\ Window \in Nat /\ Hold \in Nat /\ MaxFaults \in Nat /\ MaxSwaps \in Nat
        /\ Batteries \subseteq [id : STRING, hosts : SUBSET Hosts, short : BOOLEAN, direct : BOOLEAN, n : Nat]
    BY DEF CanAssumed, DalyBus!CanAssumption
  <1>4. Len(Targets) \in Nat \ {0} /\ DOMAIN Targets = 1..Len(Targets) /\ \A i \in DOMAIN Targets : Targets[i] \in STRING
    BY <1>2
  <1>5. /\ Len(Variants) \in Nat /\ DOMAIN Variants = 1..Len(Variants)
        /\ \A i \in DOMAIN Variants : Variants[i] \in Forms
    <2>1. Variants \in Seq(Forms)
      BY <1>2 DEF Forms
    <2> QED BY <2>1
  <1> QED BY <1>1, <1>2, <1>4, <1>5 DEF CanSizes

Sole(s) == s = {} \/ \E x : s = {x}

LEMMA SameCardinality == ASSUME NEW s PROVE DalyBus!Cardinality(s) = Cardinality(s)
  BY DEF DalyBus!Cardinality, Cardinality

LEMMA OneIsOne == ASSUME NEW s, Sole(s) PROVE Cardinality(s) <= 1
  <1>1. CASE s = {}
    BY <1>1, FS_EmptySet
  <1>2. CASE \E x : s = {x}
    BY <1>2, FS_Singleton
  <1> QED BY <1>1, <1>2 DEF Sole

\* The snapshots the two Daly sources make, and what they are made of.
Ranges == (Nat \X Nat) \cup {<<DalyBus!Lowest(m), DalyBus!Highest(m)>> : m \in SUBSET Nat}

Shapes ==
    [valid : BOOLEAN, soc : SUBSET Nat, range : SUBSET Ranges, cells : [1..MaxCells -> Nat],
     count : 0..MaxCells, temps : BOOLEAN]

Shots == {s \in Shapes : Sole(s.soc) /\ Sole(s.range)}

LEMMA ShotHas ==
    ASSUME NEW s \in Shots
    PROVE  /\ s = [valid |-> s.valid, soc |-> s.soc, range |-> s.range, cells |-> s.cells, count |-> s.count,
                   temps |-> s.temps]
           /\ s.valid \in BOOLEAN /\ s.soc \in SUBSET Nat /\ s.range \in SUBSET Ranges
           /\ s.cells \in [1..MaxCells -> Nat] /\ s.count \in 0..MaxCells /\ s.temps \in BOOLEAN
           /\ Sole(s.soc) /\ Sole(s.range)
  <1>1. s \in Shapes /\ Sole(s.soc) /\ Sole(s.range)
    BY DEF Shots
  <1> QED BY <1>1 DEF Shapes

Ids == STRING \cup Hosts

CanFrames ==
    [mid : Ids, low : Ids, short : BOOLEAN, cmd : DalyBus!Cmds, val : Nat, no : Nat, mv : Nat, n : Nat,
     range : Nat \X Nat]

LEMMA ShotIsSnapshot == ASSUME NEW s \in Shots PROVE DalyBus!IsSnapshot(s)
  <1>1. DalyBus!Cardinality(s.soc) <= 1 /\ DalyBus!Cardinality(s.range) <= 1
    BY ShotHas, OneIsOne, SameCardinality
  <1>2. /\ {s.valid, s.temps} \subseteq BOOLEAN /\ s.count \in 0..MaxCells
        /\ DOMAIN s.cells = 1..MaxCells
    BY ShotHas
  <1> QED BY <1>1, <1>2 DEF DalyBus!IsSnapshot

\* The assumptions of both Daly sources.
Celled == MaxCells \in Nat \ {0} /\ FirstNo \in {0, 1}

LEMMA CanIsCelled == CanSizes => Celled
  BY DEF CanSizes, Celled

LEMMA CellClamps ==
    ASSUME Celled, NEW n \in Nat
    PROVE  DalyBus!Clamped(n) \in 0..MaxCells
  <1> DEFINE S == {n, MaxCells}
  <1>1. DalyBus!Clamped(n) = CHOOSE x \in S : \A y \in S : x <= y
    BY DEF DalyBus!Clamped, DalyBus!Min
  <1>2. \E x \in S : \A y \in S : x <= y
    BY DEF Celled
  <1>3. DalyBus!Clamped(n) \in S /\ DalyBus!Clamped(n) <= MaxCells
    BY <1>1, <1>2
  <1> QED BY <1>3 DEF Celled

LEMMA LargerOfTwo ==
    ASSUME NEW a \in 0..MaxCells, NEW b \in 0..MaxCells, MaxCells \in Nat
    PROVE  DalyBus!Max({a, b}) \in 0..MaxCells
  <1> DEFINE S == {a, b}
  <1>1. DalyBus!Max(S) = CHOOSE x \in S : \A y \in S : x >= y
    BY DEF DalyBus!Max
  <1>2. \E x \in S : \A y \in S : x >= y
    OBVIOUS
  <1>3. DalyBus!Max(S) \in S
    BY <1>1, <1>2
  <1> QED BY <1>3

LEMMA DecodeMakesShots ==
    ASSUME Celled, NEW s \in Shots, NEW f, f.val \in Nat, f.no \in Nat, f.mv \in Nat, f.n \in Nat,
           f.range \in Nat \X Nat
    PROVE  DalyBus!Decode(s, f) \in Shots /\ DalyBus!Decode(s, f).valid
  <1> DEFINE at == f.no + 1 - FirstNo
             t  == [s EXCEPT !.valid = TRUE]
             d  == DalyBus!Decode(s, f)
             ShotOf(soc, range, cells, count, temps) ==
                 [valid |-> TRUE, soc |-> soc, range |-> range, cells |-> cells, count |-> count, temps |-> temps]
  <1>1. /\ s.soc \in SUBSET Nat /\ s.range \in SUBSET Ranges /\ s.cells \in [1..MaxCells -> Nat]
        /\ s.count \in 0..MaxCells /\ s.temps \in BOOLEAN /\ Sole(s.soc) /\ Sole(s.range)
        /\ t = ShotOf(s.soc, s.range, s.cells, s.count, s.temps)
    <2>1. t = ShotOf(s.soc, s.range, s.cells, s.count, s.temps)
      <3>1. /\ s = [valid |-> s.valid, soc |-> s.soc, range |-> s.range, cells |-> s.cells, count |-> s.count,
                    temps |-> s.temps]
            /\ t = [s EXCEPT !.valid = TRUE]
        BY ShotHas
      <3> HIDE DEF t
      <3> QED BY <3>1
    <2> QED BY <2>1, ShotHas
  <1>2. ASSUME NEW soc \in SUBSET Nat, NEW range \in SUBSET Ranges, NEW cells \in [1..MaxCells -> Nat],
               NEW count \in 0..MaxCells, NEW temps \in BOOLEAN, Sole(soc), Sole(range)
        PROVE  ShotOf(soc, range, cells, count, temps) \in Shots
    BY <1>2 DEF Shots, Shapes
  <1>3. DalyBus!Clamped(f.n) \in 0..MaxCells
    BY CellClamps
  <1>4. Sole({f.val}) /\ Sole({f.range})
    BY DEF Sole
  <1> HIDE DEF t
  <1>5. \/ d = [t EXCEPT !.soc = {f.val}]
        \/ d = [t EXCEPT !.range = {f.range}]
        \/ d = [t EXCEPT !.temps = TRUE]
        \/ d = [t EXCEPT !.count = DalyBus!Clamped(f.n)]
        \/ at \in 1..MaxCells /\ d = [t EXCEPT !.cells[at] = f.mv, !.count = DalyBus!Max({t.count, at})]
        \/ d = t
    BY DEF DalyBus!Decode, t
  <1> HIDE DEF d
  <1>6. \/ d = ShotOf({f.val}, s.range, s.cells, s.count, s.temps)
        \/ d = ShotOf(s.soc, {f.range}, s.cells, s.count, s.temps)
        \/ d = ShotOf(s.soc, s.range, s.cells, s.count, TRUE)
        \/ d = ShotOf(s.soc, s.range, s.cells, DalyBus!Clamped(f.n), s.temps)
        \/ at \in 1..MaxCells /\ d = ShotOf(s.soc, s.range, [s.cells EXCEPT ![at] = f.mv],
                                          DalyBus!Max({s.count, at}), s.temps)
        \/ d = t
    BY <1>1, <1>5
  <1>7. ASSUME at \in 1..MaxCells
        PROVE  [s.cells EXCEPT ![at] = f.mv] \in [1..MaxCells -> Nat] /\ DalyBus!Max({s.count, at}) \in 0..MaxCells
    <2>1. MaxCells \in Nat /\ at \in 0..MaxCells
      BY <1>7 DEF Celled
    <2> QED BY <1>1, <2>1, LargerOfTwo
  <1>8. d.valid
    BY <1>1, <1>6
  <1> HIDE DEF ShotOf
  <1>a. t \in Shots /\ s.soc \in SUBSET Nat
    BY <1>1, <1>2
  <1>b. {f.val} \in SUBSET Nat /\ {f.range} \in SUBSET Ranges /\ TRUE \in BOOLEAN
    BY DEF Ranges
  <1>9. d \in Shots
    <2>1. CASE d = ShotOf({f.val}, s.range, s.cells, s.count, s.temps)
      BY <2>1, <1>1, <1>2, <1>4, <1>b
    <2>2. CASE d = ShotOf(s.soc, {f.range}, s.cells, s.count, s.temps)
      BY <2>2, <1>1, <1>2, <1>4, <1>b
    <2>3. CASE d = ShotOf(s.soc, s.range, s.cells, s.count, TRUE)
      BY <2>3, <1>1, <1>2, <1>b
    <2>4. CASE d = ShotOf(s.soc, s.range, s.cells, DalyBus!Clamped(f.n), s.temps)
      BY <2>4, <1>1, <1>2, <1>3
    <2>5. CASE at \in 1..MaxCells /\ d = ShotOf(s.soc, s.range, [s.cells EXCEPT ![at] = f.mv],
                                            DalyBus!Max({s.count, at}), s.temps)
      BY <2>5, <1>1, <1>2, <1>7
    <2> QED BY <1>6, <1>a, <2>1, <2>2, <2>3, <2>4, <2>5
  <1> QED BY <1>8, <1>9 DEF d

-----------------------------------------------------------------------------
Requests == [target : Ids, variant : Forms]
Tries    == Len(Targets) * Len(Variants)

CanTaskTyped ==
    /\ task \in {"sniff", "poll", "ask", "wait", "round"}
    /\ cmd \in Seq(DalyBus!Cmds) /\ Len(cmd) <= Len(InitCmds) + Len(RunCmds) /\ (task # "round" => cmd # <<>>)
    /\ plan \in Seq(Requests) /\ Len(plan) <= Tries /\ (task \in {"ask", "wait"} => plan # <<>>)
    /\ matched \in 0..MaxCells /\ expected \in 0..MaxCells
    /\ learned \subseteq Forms /\ Sole(learned)

CanDataTyped ==
    /\ active \in Ids /\ record \in Shots /\ frame \in 0..DalyBus!MaxAge
    /\ (out.have => record.valid) /\ DalyBus!ExtremesAreOfCells

\* An answer that is on its way.
OnAir(a) == a = [due |-> a.due, frames |-> a.frames] /\ a.due \in Nat /\ a.frames \in Seq(CanFrames)

LEMMA AnswerMade ==
    ASSUME NEW n \in Nat, NEW q \in Seq(CanFrames)
    PROVE  OnAir([due |-> n, frames |-> q])
  BY DEF OnAir

CanBusTyped ==
    /\ rxq \in Seq(CanFrames) /\ OnAir(air)
    /\ bus \in {"running", "off", "recovering", "stopped"} /\ hold \in 0..Hold
    /\ battery \in Batteries /\ gen \in 1..(swaps + 1) /\ heard \in 0..DalyBus!MaxAge
    /\ faults \in 0..MaxFaults /\ swaps \in 0..MaxSwaps

CanTyped == CanSizes /\ CanTaskTyped /\ CanDataTyped /\ CanBusTyped

\* The actions that leave a part of the state alone keep it as it is.
LEMMA CanTaskStays ==
    ASSUME CanTaskTyped, UNCHANGED <<task, cmd, plan, matched, expected, learned>>
    PROVE  CanTaskTyped'
  BY DEF CanTaskTyped

LEMMA CanDataStays ==
    ASSUME CanDataTyped, UNCHANGED <<active, record, frame, out>>
    PROVE  CanDataTyped'
  BY DEF CanDataTyped, DalyBus!ExtremesAreOfCells

LEMMA CanBusStays ==
    ASSUME CanBusTyped, UNCHANGED <<rxq, air, bus, hold, battery, gen, heard, faults, swaps>>
    PROVE  CanBusTyped'
  BY DEF CanBusTyped

LEMMA TriesAre == CanSizes => Tries \in Nat /\ Tries >= 2
  <1> DEFINE a == Len(Targets)
             b == Len(Variants)
  <1>1. ASSUME CanSizes PROVE a \in Nat /\ b \in Nat /\ a >= 1 /\ b >= 2
    BY <1>1 DEF CanSizes
  <1> HIDE DEF a, b
  <1>2. ASSUME CanSizes PROVE a * b \in Nat /\ a * b >= 2
    <2>1. (a - 1) * b >= 0
      BY <1>1, <1>2
    <2>2. a * b = (a - 1) * b + b
      BY <1>1, <1>2
    <2> QED BY <1>1, <1>2, <2>1, <2>2
  <1> QED BY <1>2 DEF Tries, a, b

LEMMA CanMaxAge == CanSizes => DalyBus!MaxAge \in Nat
  <1> SUFFICES ASSUME CanSizes PROVE DalyBus!MaxAge \in Nat
    OBVIOUS
  <1>1. Len(RunCmds) \in Nat /\ Len(Targets) \in Nat /\ Len(Variants) \in Nat /\ Window \in Nat
    BY DEF CanSizes
  <1>2. Len(RunCmds) * Len(Targets) \in Nat
    BY <1>1
  <1>3. Len(RunCmds) * Len(Targets) * Len(Variants) \in Nat
    BY <1>1, <1>2
  <1> QED BY <1>1, <1>3 DEF DalyBus!MaxAge, DalyBus!LongRound

LEMMA CanGrows ==
    ASSUME CanSizes, NEW a \in 0..DalyBus!MaxAge
    PROVE  DalyBus!Grown(a) \in 0..DalyBus!MaxAge
  BY CanMaxAge DEF DalyBus!Grown

\* What the frames of the queue may leave: a snapshot that was valid stays valid.
Heards == {e \in [active : Ids, snap : Shots, frame : 0..DalyBus!MaxAge] : record.valid => e.snap.valid}

LEMMA HeardIs ==
    ASSUME CanSizes, NEW e \in Heards, NEW f \in CanFrames
    PROVE  DalyBus!Heard(e, f) \in Heards
  <1> DEFINE d == DalyBus!Decode(e.snap, f)
  <1>1. d \in Shots /\ d.valid
    <2>1. /\ e.snap \in Shots /\ f.val \in Nat /\ f.no \in Nat /\ f.mv \in Nat /\ f.n \in Nat
          /\ f.range \in Nat \X Nat
      BY DEF Heards, CanFrames
    <2> QED BY <2>1, CanIsCelled, DecodeMakesShots
  <1>2. DalyBus!SourceOf(f) \in Ids
    BY DEF DalyBus!SourceOf, CanFrames
  <1> HIDE DEF d
  <1>3. e \in [active : Ids, snap : Shots, frame : 0..DalyBus!MaxAge] /\ (record.valid => e.snap.valid)
    BY DEF Heards
  <1>4. DalyBus!Heard(e, f) = IF f.short \/ ~DalyBus!Known(f) THEN e
                              ELSE [e EXCEPT !.active = DalyBus!SourceOf(f), !.snap = d, !.frame = 0]
    BY DEF DalyBus!Heard, d
  <1> DEFINE h == [e EXCEPT !.active = DalyBus!SourceOf(f), !.snap = d, !.frame = 0]
  <1>5. h = [active |-> DalyBus!SourceOf(f), snap |-> d, frame |-> 0]
    <2>1. e = [active |-> e.active, snap |-> e.snap, frame |-> e.frame]
      BY <1>3
    <2>2. h = [e EXCEPT !.active = DalyBus!SourceOf(f), !.snap = d, !.frame = 0]
      OBVIOUS
    <2> HIDE DEF h
    <2> QED BY <2>1, <2>2
  <1>6. h \in Heards
    <2> HIDE DEF h
    <2> QED BY <1>1, <1>2, <1>5, CanMaxAge DEF Heards
  <1> QED BY <1>4, <1>6

LEMMA DrainedIs ==
    ASSUME CanSizes, DalyBus!Ctx \in Heards, NEW N \in Nat, N = Len(rxq), \A i \in 1..N : rxq[i] \in CanFrames
    PROVE  DalyBus!Drained \in Heards
  <1> DEFINE b     == DalyBus!Ctx
             F     == [i \in 1..N |-> [x \in Heards |-> DalyBus!Heard(x, rxq[i])]]
             Eq(g) == g = [n \in 0..N |-> IF n = 0 THEN b ELSE DalyBus!Heard(g[n - 1], rxq[n])]
             f     == CHOOSE g : Eq(g)
  <1>1. F \in Moves(Heards, N)
    BY HeardIs DEF Moves
  <1>2. \A i \in 1..N : \A x \in Heards : F[i][x] = DalyBus!Heard(x, rxq[i])
    OBVIOUS
  <1> HIDE DEF F
  <1>3. PICK g : IsRun(g, Heards, N, b, F)
    BY <1>1, IterExists
  <1>4. Eq(g)
    <2>1. \A n \in 0..N : g[n] = IF n = 0 THEN b ELSE DalyBus!Heard(g[n - 1], rxq[n])
      BY <1>2, <1>3 DEF IsRun
    <2> QED BY <2>1, <1>3 DEF IsRun
  <1>5. Eq(f)
    <2> HIDE DEF Eq
    <2> QED BY <1>4
  <1>6. DalyBus!Drained = f[N]
    BY DEF DalyBus!Drained
  <1> HIDE DEF f, b
  <1>7. f[0] = b /\ \A n \in 1..N : f[n] = DalyBus!Heard(f[n - 1], rxq[n])
    BY <1>5
  <1> DEFINE T == {n \in 0..N : f[n] \in Heards}
  <1>8. 0 \in T /\ \A i \in 1..N : i - 1 \in T => i \in T
    BY <1>7, HeardIs DEF b
  <1> HIDE DEF T
  <1>9. \A i \in 0..N : i \in T
    BY <1>8, Climb
  <1> QED BY <1>6, <1>9 DEF T

\* What comes after the frames of the queue, or one of them.
LEMMA TakeKeepsData ==
    ASSUME CanSizes, CanDataTyped, NEW e \in Heards, DalyBus!Take(e), UNCHANGED out
    PROVE  CanDataTyped'
  <1>1. active' \in Ids /\ record' \in Shots /\ frame' \in 0..DalyBus!MaxAge /\ (record.valid => record'.valid)
    BY DEF Heards, DalyBus!Take
  <1> QED BY <1>1 DEF CanDataTyped, DalyBus!ExtremesAreOfCells, DalyBus!MaxAge, DalyBus!LongRound

LEMMA CtxIs == CanDataTyped => DalyBus!Ctx \in Heards
  BY DEF CanDataTyped, DalyBus!Ctx, Heards

LEMMA QueueIs ==
    ASSUME CanBusTyped
    PROVE  Len(rxq) \in Nat /\ \A i \in 1..Len(rxq) : rxq[i] \in CanFrames
  BY DEF CanBusTyped

LEMMA NoneIsEmpty == ASSUME NEW S, NEW r \in Seq(S) PROVE r = <<>> <=> Len(r) = 0
  OBVIOUS

LEMMA TailIs ==
    ASSUME NEW S, NEW q \in Seq(S), q # <<>>
    PROVE  /\ Len(q) \in Nat \ {0} /\ Tail(q) \in Seq(S) /\ Len(Tail(q)) = Len(q) - 1
           /\ Tail(q) = <<>> <=> Len(q) = 1
  <1>1. Len(q) \in Nat \ {0}
    OBVIOUS
  <1>2. Tail(q) \in Seq(S) /\ Len(Tail(q)) = Len(q) - 1
    BY <1>1
  <1>3. Tail(q) = <<>> <=> Len(Tail(q)) = 0
    BY <1>2, NoneIsEmpty
  <1> QED BY <1>1, <1>2, <1>3

LEMMA CommandOverTyped ==
    ASSUME CanSizes, CanTaskTyped, task # "round", DalyBus!CommandOver
    PROVE  /\ task' \in {"poll", "round"} /\ plan' = <<>> /\ matched' = 0 /\ expected' = 0
           /\ cmd' \in Seq(DalyBus!Cmds) /\ Len(cmd') <= Len(InitCmds) + Len(RunCmds)
           /\ (task' # "round" => cmd' # <<>>)
  <1>1. /\ cmd \in Seq(DalyBus!Cmds) /\ cmd # <<>> /\ Len(cmd) <= Len(InitCmds) + Len(RunCmds)
        /\ Len(InitCmds) \in Nat /\ Len(RunCmds) \in Nat
    BY DEF CanTaskTyped, CanSizes
  <1>2. cmd' = Tail(cmd) /\ task' = IF Len(cmd) = 1 THEN "round" ELSE "poll"
    BY DEF DalyBus!CommandOver
  <1>3. cmd' \in Seq(DalyBus!Cmds) /\ Len(cmd') = Len(cmd) - 1 /\ Len(cmd) \in Nat \ {0}
        /\ (cmd' = <<>> <=> Len(cmd) = 1)
    BY <1>1, <1>2, TailIs
  <1> QED BY <1>1, <1>2, <1>3 DEF DalyBus!CommandOver

LEMMA CommandOverKeeps ==
    ASSUME CanSizes, CanTaskTyped, task # "round", DalyBus!CommandOver, learned' \subseteq Forms, Sole(learned')
    PROVE  CanTaskTyped'
  <1>1. Tries \in Nat /\ MaxCells \in Nat
    BY TriesAre DEF CanSizes
  <1>2. plan' \in Seq(Requests) /\ Len(plan') = 0
    BY CommandOverTyped
  <1>3. /\ task' \in {"poll", "round"} /\ matched' = 0 /\ expected' = 0
        /\ cmd' \in Seq(DalyBus!Cmds) /\ Len(cmd') <= Len(InitCmds) + Len(RunCmds)
        /\ (task' # "round" => cmd' # <<>>)
    BY CommandOverTyped
  <1> QED BY <1>1, <1>2, <1>3 DEF CanTaskTyped

LEMMA TryOverKeeps ==
    ASSUME CanSizes, CanTaskTyped, task \in {"ask", "wait"}, DalyBus!TryOver, UNCHANGED learned
    PROVE  CanTaskTyped'
  <1>1. CASE DalyBus!CommandOver
    BY <1>1, CommandOverKeeps DEF CanTaskTyped
  <1>2. CASE Len(plan) # 1 /\ plan' = Tail(plan) /\ task' = "ask" /\ UNCHANGED <<cmd, matched, expected>>
    <2>1. plan \in Seq(Requests) /\ plan # <<>> /\ Len(plan) <= Tries
      BY DEF CanTaskTyped
    <2>2. Tries \in Nat
      BY TriesAre
    <2> DEFINE q == plan
               r == plan'
    <2>3. q \in Seq(Requests) /\ q # <<>> /\ r = Tail(q) /\ Len(q) # 1
      BY <1>2, <2>1
    <2> HIDE DEF q, r
    <2>4. r \in Seq(Requests) /\ Len(r) = Len(q) - 1 /\ r # <<>>
      BY <2>3, TailIs
    <2>5. Len(q) \in Nat /\ Len(q) <= Tries
      BY <2>1 DEF q
    <2>6. plan' \in Seq(Requests) /\ Len(plan') <= Tries /\ plan' # <<>>
      BY <2>2, <2>4, <2>5 DEF r
    <2> QED BY <1>2, <2>6 DEF CanTaskTyped
  <1> QED BY <1>1, <1>2 DEF DalyBus!TryOver

-----------------------------------------------------------------------------
LEMMA QuotientIsLess ==
    ASSUME NEW a \in Nat, NEW b \in Nat \ {0}, NEW n \in 0..(a * b - 1)
    PROVE  n \div b \in 0..(a - 1) /\ n % b \in 0..(b - 1)
  <1> DEFINE q == n \div b
             r == n % b
  <1>1. q \in Int /\ r \in 0..(b - 1) /\ n = b * q + r /\ n \in Nat /\ a * b \in Nat /\ n < a * b
    OBVIOUS
  <1> HIDE DEF q, r
  <1>2. q >= 0
    <2> SUFFICES ASSUME q <= -1 PROVE FALSE
      BY <1>1
    <2>1. b * (-1 - q) >= 0
      BY <1>1
    <2>2. b * (-1 - q) = -b - b * q
      BY <1>1
    <2> QED BY <1>1, <2>1, <2>2
  <1>3. q < a
    <2> SUFFICES ASSUME q >= a PROVE FALSE
      BY <1>1
    <2>1. b * (q - a) >= 0
      BY <1>1
    <2>2. b * (q - a) = b * q - a * b
      BY <1>1
    <2> QED BY <1>1, <2>1, <2>2
  <1> QED BY <1>1, <1>2, <1>3 DEF q, r

LEMMA PlanIs ==
    ASSUME CanSizes, CanTaskTyped, CanDataTyped
    PROVE  DalyBus!Plan \in Seq(Requests) /\ DalyBus!Plan # <<>> /\ Len(DalyBus!Plan) <= Tries
  <1>1. /\ active \in Ids /\ Tries \in Nat /\ Tries >= 2
        /\ \A i \in 1..Len(Variants) : Variants[i] \in Forms
        /\ \A i \in 1..Len(Targets) : Targets[i] \in Ids
        /\ Len(Targets) \in Nat \ {0} /\ Len(Variants) \in Nat /\ Len(Variants) > 1
    BY TriesAre DEF CanDataTyped, CanSizes, Ids
  <1>2. CASE learned # {}
    <2> DEFINE v == CHOOSE v \in learned : TRUE
    <2>1. v \in Forms
      BY <1>2 DEF CanTaskTyped
    <2> HIDE DEF v
    <2>2. DalyBus!Plan = <<[target |-> active, variant |-> v]>>
      BY <1>2 DEF DalyBus!Plan, v
    <2> QED BY <1>1, <2>1, <2>2 DEF Requests
  <1>3. CASE learned = {} /\ ~DalyBus!IsStale
    <2> DEFINE p == [i \in 1..2 |-> [target |-> active, variant |-> Variants[i]]]
    <2>1. DalyBus!Plan = p
      BY <1>3 DEF DalyBus!Plan
    <2>2. \A i \in 1..2 : [target |-> active, variant |-> Variants[i]] \in Requests
      BY <1>1 DEF Requests
    <2>3. p \in Seq(Requests) /\ Len(p) = 2
      BY <2>2
    <2> QED BY <1>1, <2>1, <2>3, NoneIsEmpty
  <1>4. CASE learned = {} /\ DalyBus!IsStale
    <2> DEFINE R(i) == [target  |-> Targets[((i - 1) \div Len(Variants)) + 1],
                        variant |-> Variants[((i - 1) % Len(Variants)) + 1]]
               p == [i \in 1..Tries |-> R(i)]
    <2>1. DalyBus!Plan = p
      BY <1>4 DEF DalyBus!Plan, Tries
    <2>2. ASSUME NEW i \in 1..Tries PROVE R(i) \in Requests
      <3> DEFINE q == (i - 1) \div Len(Variants)
                 r == (i - 1) % Len(Variants)
      <3>1. i - 1 \in 0..(Len(Targets) * Len(Variants) - 1)
        BY <1>1 DEF Tries
      <3>2. q \in 0..(Len(Targets) - 1) /\ r \in 0..(Len(Variants) - 1)
        <4>1. Len(Variants) \in Nat \ {0} /\ Len(Targets) \in Nat
          BY <1>1
        <4> QED BY <4>1, <3>1, QuotientIsLess
      <3> HIDE DEF q, r
      <3>3. Targets[q + 1] \in Ids /\ Variants[r + 1] \in Forms
        BY <1>1, <3>2
      <3> QED BY <3>3 DEF Requests, q, r
    <2> HIDE DEF R
    <2>3. p \in Seq(Requests) /\ Len(p) = Tries
      BY <1>1, <2>2
    <2> QED BY <1>1, <2>1, <2>3, NoneIsEmpty
  <1> QED BY <1>2, <1>3, <1>4

LEMMA AnswerIs ==
    ASSUME CanSizes, CanBusTyped, NEW c \in DalyBus!Cmds, NEW h \in Hosts
    PROVE  DalyBus!AnswerTo(c, h) \in Seq(CanFrames)
  <1> DEFINE n == IF c = "cells" THEN battery.n ELSE 1
             m == IF battery.direct THEN battery.id ELSE h
             l == IF battery.direct THEN h ELSE battery.id
             F(i) == [mid |-> m, low |-> l, short |-> FALSE, cmd |-> c, val |-> gen, no |-> i - 1,
                      mv |-> DalyBus!Mv(i), n |-> battery.n,
                      range |-> <<DalyBus!Mv(1), DalyBus!Mv(battery.n)>>]
  <1>1. battery.n \in Nat /\ n \in Nat /\ m \in Ids /\ l \in Ids /\ gen \in Nat
    BY DEF CanBusTyped, CanSizes, Ids
  <1>2. DalyBus!AnswerTo(c, h) = [i \in 1..n |-> F(i)]
    BY DEF DalyBus!AnswerTo
  <1>3. ASSUME NEW i \in 1..n PROVE F(i) \in CanFrames
    <2>1. DalyBus!Mv(i) \in Nat /\ DalyBus!Mv(1) \in Nat /\ DalyBus!Mv(battery.n) \in Nat /\ i - 1 \in Nat
      BY <1>1 DEF DalyBus!Mv
    <2> HIDE DEF n, m, l
    <2> QED BY <1>1, <2>1 DEF CanFrames
  <1> HIDE DEF F, n
  <1> QED BY <1>1, <1>2, <1>3

CanParts == CanTaskTyped' /\ CanDataTyped' /\ CanBusTyped'

LEMMA CanGoesOn ==
    ASSUME CanTyped, DalyBus!PollRuns \/ DalyBus!PollIsOff
    PROVE  CanParts
  <1> USE DEF DalyBus!busVars, DalyBus!envVars
  <1>1. CanDataTyped'
    BY CanDataStays DEF CanTyped, DalyBus!PollRuns, DalyBus!PollIsOff
  <1>2. CanBusTyped'
    <2>1. /\ UNCHANGED <<rxq, air, battery, gen, swaps, heard>>
          /\ faults \in 0..MaxFaults /\ bus \in {"running", "off", "recovering", "stopped"} /\ hold \in 0..Hold
          /\ MaxFaults \in Nat /\ Hold \in Nat
      BY DEF CanTyped, CanSizes, CanBusTyped, DalyBus!PollRuns, DalyBus!PollIsOff
    <2>2. hold' \in 0..Hold
      BY <2>1 DEF DalyBus!PollRuns, DalyBus!PollIsOff, DalyBus!Recovers, DalyBus!StaysDown,
                  DalyBus!Restarted, DalyBus!Rest
    <2>3. /\ faults' \in 0..MaxFaults
          /\ bus' \in {"running", "off", "recovering", "stopped"}
      BY <2>1 DEF DalyBus!PollRuns, DalyBus!PollIsOff, DalyBus!Recovers, DalyBus!StaysDown, DalyBus!Restarted
    <2> QED BY <2>1, <2>2, <2>3 DEF CanTyped, CanBusTyped, OnAir, DalyBus!MaxAge
  <1>3. CanTaskTyped'
    <2>1. CASE DalyBus!PollIsOff
      BY <2>1, CommandOverKeeps DEF CanTyped, CanTaskTyped, DalyBus!PollIsOff
    <2>2. CASE DalyBus!PollRuns
      <3>1. /\ task = "poll" /\ task' = "ask" /\ plan' = DalyBus!Plan /\ UNCHANGED <<cmd, matched, learned>>
            /\ expected' = DalyBus!FrameCount(record, Head(cmd))
        BY <2>2 DEF DalyBus!PollRuns
      <3>2. expected' \in 0..MaxCells
        <4>1. record.count \in 0..MaxCells /\ MaxCells \in Nat \ {0}
          BY ShotHas DEF CanTyped, CanDataTyped, CanSizes
        <4> QED BY <3>1, <4>1 DEF DalyBus!FrameCount
      <3>3. plan' \in Seq(Requests) /\ plan' # <<>> /\ Len(plan') <= Tries
        BY <3>1, PlanIs DEF CanTyped
      <3> QED BY <3>1, <3>2, <3>3 DEF CanTyped, CanTaskTyped
    <2> QED BY <2>1, <2>2
  <1> QED BY <1>1, <1>2, <1>3 DEF CanParts

LEMMA CanAsks ==
    ASSUME CanTyped, DalyBus!Ask \/ DalyBus!AskFails
    PROVE  CanParts
  <1> USE DEF DalyBus!busVars, DalyBus!envVars
  <1>1. CanDataTyped'
    <2>1. DalyBus!Take(DalyBus!Drained) /\ UNCHANGED out
      BY DEF DalyBus!Ask, DalyBus!AskFails
    <2>2. DalyBus!Drained \in Heards
      BY DrainedIs, CtxIs, QueueIs DEF CanTyped
    <2> QED BY <2>1, <2>2, TakeKeepsData DEF CanTyped
  <1>2. CASE DalyBus!Ask
    <2>1. CanTaskTyped'
      BY <1>2 DEF CanTyped, CanTaskTyped, DalyBus!Ask
    <2>2. OnAir(air') /\ faults' \in 0..MaxFaults
      <3> DEFINE frames == DalyBus!AnswerTo(Head(cmd), Head(plan).variant.host)
      <3>1. frames \in Seq(CanFrames)
        <4>1. cmd \in Seq(DalyBus!Cmds) /\ cmd # <<>> /\ plan \in Seq(Requests) /\ plan # <<>>
          BY <1>2 DEF CanTyped, CanTaskTyped, DalyBus!Ask
        <4>2. Head(cmd) \in DalyBus!Cmds /\ Head(plan) \in Requests
          BY <4>1
        <4>3. Head(plan).variant.host \in Hosts
          BY <4>2 DEF Requests, Forms
        <4> QED BY <4>2, <4>3, AnswerIs DEF CanTyped
      <3>2. \/ UNCHANGED <<air, faults>>
            \/ air' = [due |-> 0, frames |-> frames] /\ UNCHANGED faults
            \/ air' = [due |-> 1, frames |-> frames] /\ faults < MaxFaults /\ faults' = faults + 1
        <4>1. DalyBus!Send(Head(plan))
          BY <1>2 DEF DalyBus!Ask
        <4> QED BY <4>1 DEF DalyBus!Send
      <3> HIDE DEF frames
      <3>3. OnAir([due |-> 0, frames |-> frames]) /\ OnAir([due |-> 1, frames |-> frames])
        BY <3>1, AnswerMade
      <3>4. OnAir(air) /\ faults \in 0..MaxFaults /\ MaxFaults \in Nat
        BY DEF CanTyped, CanBusTyped, CanSizes
      <3>5. OnAir(air')
        BY <3>2, <3>3, <3>4
      <3> QED BY <3>2, <3>4, <3>5
    <2>3. rxq' \in Seq(CanFrames) /\ UNCHANGED <<bus, hold, battery, gen, swaps, heard>>
      BY <1>2 DEF DalyBus!Ask
    <2>4. CanBusTyped'
      BY <2>2, <2>3 DEF CanTyped, CanBusTyped
    <2> QED BY <1>1, <2>1, <2>4 DEF CanParts
  <1>3. CASE DalyBus!AskFails
    <2>1. CanTaskTyped'
      BY <1>3, TryOverKeeps DEF CanTyped, DalyBus!AskFails
    <2>2. /\ rxq' = <<>> /\ UNCHANGED <<air, battery, gen, swaps, heard>>
          /\ bus' \in {"running", "off", "recovering", "stopped"} /\ hold' \in 0..Hold /\ faults' \in 0..MaxFaults
      BY <1>3 DEF CanTyped, CanSizes, CanBusTyped, DalyBus!AskFails, DalyBus!Recovers, DalyBus!StaysDown, DalyBus!Restarted
    <2>3. CanBusTyped'
      BY <2>2 DEF CanTyped, CanBusTyped
    <2> QED BY <1>1, <2>1, <2>3 DEF CanParts
  <1> QED BY <1>2, <1>3

\* A frame is taken out of the queue.
LEMMA FrameTaken ==
    ASSUME CanTyped, rxq # <<>>, rxq' = Tail(rxq), DalyBus!Take(DalyBus!Heard(DalyBus!Ctx, Head(rxq))),
           UNCHANGED <<out, bus, hold, air, battery, gen, swaps, heard, faults>>
    PROVE  CanDataTyped' /\ CanBusTyped'
  <1>1. Head(rxq) \in CanFrames /\ rxq' \in Seq(CanFrames)
    BY TailIs DEF CanTyped, CanBusTyped
  <1>2. DalyBus!Heard(DalyBus!Ctx, Head(rxq)) \in Heards
    BY <1>1, HeardIs, CtxIs DEF CanTyped
  <1>3. CanDataTyped'
    BY <1>2, TakeKeepsData DEF CanTyped
  <1> QED BY <1>1, <1>3 DEF CanTyped, CanBusTyped

LEMMA CanReads ==
    ASSUME CanTyped, DalyBus!WaitFrame \/ DalyBus!SniffFrame
    PROVE  CanParts
  <1>1. CanDataTyped' /\ CanBusTyped'
    BY FrameTaken DEF DalyBus!WaitFrame, DalyBus!SniffFrame, DalyBus!busVars, DalyBus!envVars
  <1>2. CASE UNCHANGED <<task, cmd, plan, matched, expected, learned>>
    BY <1>1, <1>2, CanTaskStays DEF CanParts, CanTyped
  <1>3. CASE DalyBus!WaitFrame /\ learned' = DalyBus!Learn
    <2>1. learned' \subseteq Forms /\ Sole(learned')
      <3>1. plan \in Seq(Requests) /\ plan # <<>> /\ learned \subseteq Forms /\ Sole(learned)
        BY <1>3 DEF CanTyped, CanTaskTyped, DalyBus!WaitFrame
      <3>2. plan[1] \in Requests
        BY <3>1
      <3> QED BY <1>3, <3>1, <3>2 DEF DalyBus!Learn, Requests, Sole
    <2>2. CASE DalyBus!CommandOver
      <3>1. CanTaskTyped'
        BY <1>3, <2>1, <2>2, CommandOverKeeps DEF CanTyped, DalyBus!WaitFrame
      <3> QED BY <1>1, <3>1 DEF CanParts
    <2>3. CASE matched + 1 < expected /\ matched' = matched + 1 /\ UNCHANGED <<task, cmd, plan, expected>>
      <3>1. matched' \in 0..MaxCells
        BY <2>3 DEF CanTyped, CanSizes, CanTaskTyped
      <3>2. CanTaskTyped'
        BY <2>1, <2>3, <3>1 DEF CanTyped, CanTaskTyped
      <3> QED BY <1>1, <3>2 DEF CanParts
    <2>4. matched \in Nat /\ expected \in Nat
      BY DEF CanTyped, CanSizes, CanTaskTyped
    <2> QED BY <1>3, <2>2, <2>3, <2>4, <1>2 DEF DalyBus!WaitFrame
  <1> QED BY <1>2, <1>3 DEF DalyBus!WaitFrame, DalyBus!SniffFrame

-----------------------------------------------------------------------------
LEMMA CanTicks ==
    ASSUME CanTyped, DalyBus!Tick
    PROVE  OnAir(air') /\ heard' \in 0..DalyBus!MaxAge
  <1>1. heard' \in 0..DalyBus!MaxAge
    BY CanGrows DEF CanTyped, CanBusTyped, DalyBus!Tick
  <1>2. OnAir(air) /\ air' = (IF air = DalyBus!NoAnswer THEN air ELSE [air EXCEPT !.due = @ - 1])
        /\ (air = DalyBus!NoAnswer \/ air.due # 0)
    BY DEF CanTyped, CanBusTyped, DalyBus!Tick, DalyBus!Due
  <1>3. CASE air = DalyBus!NoAnswer
    <2>1. air' = air
      BY <1>2, <1>3
    <2> QED BY <1>1, <1>2, <2>1
  <1>4. CASE air # DalyBus!NoAnswer
    <2>1. air = [due |-> air.due, frames |-> air.frames] /\ air' = [air EXCEPT !.due = air.due - 1]
      BY <1>2, <1>4 DEF OnAir
    <2>2. air' = [due |-> air.due - 1, frames |-> air.frames]
      BY <2>1
    <2>3. air.due \in Nat /\ air.due # 0 /\ air.frames \in Seq(CanFrames)
      BY <1>2, <1>4 DEF OnAir
    <2>4. air.due - 1 \in Nat
      BY <2>3
    <2>5. OnAir([due |-> air.due - 1, frames |-> air.frames])
      BY <2>3, <2>4, AnswerMade
    <2> QED BY <1>1, <2>2, <2>5
  <1> QED BY <1>1, <1>3, <1>4

LEMMA CanFrameGrows == CanTyped => DalyBus!Grown(frame) \in 0..DalyBus!MaxAge
  BY CanGrows DEF CanTyped, CanDataTyped

LEMMA CanWaits ==
    ASSUME CanTyped, DalyBus!WaitEnds \/ DalyBus!SniffEnds
    PROVE  CanParts
  <1> USE DEF DalyBus!busVars, DalyBus!envVars
  <1>1. OnAir(air') /\ heard' \in 0..DalyBus!MaxAge
    BY CanTicks DEF DalyBus!WaitEnds, DalyBus!SniffEnds
  <1>2. CanBusTyped'
    BY <1>1 DEF CanTyped, CanBusTyped, DalyBus!WaitEnds, DalyBus!SniffEnds, DalyBus!MaxAge, DalyBus!LongRound
  <1>3. CanDataTyped'
    <2>1. frame' \in 0..DalyBus!MaxAge /\ UNCHANGED <<active, record, out>>
      BY CanFrameGrows DEF DalyBus!WaitEnds, DalyBus!SniffEnds
    <2> QED BY <2>1 DEF CanTyped, CanDataTyped, DalyBus!ExtremesAreOfCells, DalyBus!MaxAge, DalyBus!LongRound
  <1>4. CanTaskTyped'
    <2>1. CASE DalyBus!SniffEnds
      BY <2>1 DEF CanTyped, CanTaskTyped, DalyBus!SniffEnds
    <2>2. CASE DalyBus!WaitEnds
      <3>1. task = "wait" /\ UNCHANGED learned /\ (DalyBus!CommandOver \/ DalyBus!TryOver)
        BY <2>2 DEF DalyBus!WaitEnds
      <3> QED BY <3>1, CommandOverKeeps, TryOverKeeps DEF CanTyped, CanTaskTyped
    <2> QED BY <2>1, <2>2
  <1> QED BY <1>2, <1>3, <1>4 DEF CanParts

\* The lowest and the highest of some cells are numbers.
LEMMA ExtremesMakeShots ==
    ASSUME NEW s \in Shots, NEW cells \in SUBSET (1..MaxCells)
    PROVE  /\ DalyBus!Extremes(s, cells) \in Shots
           /\ DalyBus!Extremes(s, cells).cells = s.cells /\ DalyBus!Extremes(s, cells).count = s.count
           /\ DalyBus!Extremes(s, cells).valid = s.valid
           /\ cells # {} =>
                LET mvs == {s.cells[i] : i \in cells}
                IN DalyBus!Extremes(s, cells).range = {<<DalyBus!Lowest(mvs), DalyBus!Highest(mvs)>>}
  <1> DEFINE mvs == {s.cells[i] : i \in cells}
             r   == <<DalyBus!Lowest(mvs), DalyBus!Highest(mvs)>>
             e   == [s EXCEPT !.range = {r}]
  <1>1. CASE cells = {}
    BY <1>1 DEF DalyBus!Extremes
  <1>2. CASE cells # {}
    <2>1. mvs \in SUBSET Nat
      BY ShotHas
    <2>2. DalyBus!Extremes(s, cells) = e
      BY <1>2 DEF DalyBus!Extremes
    <2>3. {r} \in SUBSET Ranges /\ Sole({r})
      <3> HIDE DEF mvs
      <3> QED BY <2>1 DEF Ranges, Sole
    <2> HIDE DEF e, r
    <2>4. e = [valid |-> s.valid, soc |-> s.soc, range |-> {r}, cells |-> s.cells, count |-> s.count,
               temps |-> s.temps]
      <3>1. e = [s EXCEPT !.range = {r}]
        BY DEF e
      <3>2. s = [valid |-> s.valid, soc |-> s.soc, range |-> s.range, cells |-> s.cells, count |-> s.count,
                 temps |-> s.temps]
        BY ShotHas
      <3> QED BY <3>1, <3>2
    <2>5. e \in Shots
      BY <2>3, <2>4, ShotHas DEF Shots, Shapes
    <2>6. e.cells = s.cells /\ e.count = s.count /\ e.valid = s.valid /\ e.range = {r}
      BY <2>4
    <2> QED BY <2>2, <2>5, <2>6, <1>2 DEF r
  <1> QED BY <1>1, <1>2

Spans(range, mvs) == range = {<<DalyBus!Lowest(mvs), DalyBus!Highest(mvs)>>}
VoltsOf(s) == {s.cells[i] : i \in DalyBus!CellsRead(s)}
Shown(q)  == {q.cells[i] : i \in DOMAIN q.cells} \ {0}

\* The extremes of the cells that were read are those of the packet.
LEMMA PacketShowsRead ==
    ASSUME CanSizes, NEW s \in Shots, Spans(s.range, VoltsOf(s))
    PROVE  Spans(DalyBus!Packet(s).range, Shown(DalyBus!Packet(s)))
  <1> DEFINE q == DalyBus!Packet(s)
  <1>1. q.range = s.range /\ q.cells = [i \in 1..s.count |-> s.cells[i]]
    BY DEF DalyBus!Packet
  <1>2. s.cells \in [1..MaxCells -> Nat] /\ s.count \in 0..MaxCells /\ MaxCells \in Nat
    BY ShotHas DEF CanSizes
  <1>3. {q.cells[i] : i \in DOMAIN q.cells} \ {0} = {s.cells[i] : i \in DalyBus!CellsRead(s)}
    <2>1. \A i \in 1..s.count : s.cells[i] \in Nat /\ (s.cells[i] > 0 <=> s.cells[i] # 0)
      BY <1>2
    <2>2. DalyBus!CellsRead(s) = {i \in 1..s.count : s.cells[i] # 0}
      BY <2>1 DEF DalyBus!CellsRead
    <2>3. {q.cells[i] : i \in DOMAIN q.cells} = {s.cells[i] : i \in 1..s.count}
      BY <1>1
    <2> QED BY <2>2, <2>3
  <1> QED BY <1>1, <1>3 DEF Spans, Shown, VoltsOf

LEMMA CanRoundEnds ==
    ASSUME CanTyped, DalyBus!RoundEnds
    PROVE  CanParts
  <1> USE DEF DalyBus!busVars, DalyBus!envVars
  <1>1. OnAir(air') /\ heard' \in 0..DalyBus!MaxAge
    BY CanTicks DEF DalyBus!RoundEnds
  <1>2. CanBusTyped'
    BY <1>1 DEF CanTyped, CanBusTyped, DalyBus!RoundEnds, DalyBus!MaxAge, DalyBus!LongRound
  <1>3. CanTaskTyped'
    <2>1. RunCmds \in Seq(DalyBus!Cmds) /\ RunCmds # <<>> /\ Len(RunCmds) \in Nat /\ Len(InitCmds) \in Nat
      BY DEF CanTyped, CanSizes
    <2> QED BY <2>1 DEF CanTyped, CanTaskTyped, DalyBus!RoundEnds
  <1> DEFINE read == DalyBus!CellsRead(record)
             s    == DalyBus!Extremes(record, read)
             mvs  == {record.cells[i] : i \in read}
  <1>4. /\ record' = s /\ active' = active /\ frame' \in 0..DalyBus!MaxAge
        /\ \/ out' = DalyBus!Nothing
           \/ out' = DalyBus!Packet(s) /\ DalyBus!HasContent(s)
           \/ out' = out
    BY CanFrameGrows DEF DalyBus!RoundEnds
  <1>5. record \in Shots /\ CanSizes /\ read \in SUBSET (1..MaxCells)
    <2>1. record \in Shots /\ CanSizes
      BY DEF CanTyped, CanDataTyped
    <2>2. record.count \in 0..MaxCells /\ MaxCells \in Nat
      BY <2>1, ShotHas DEF CanSizes
    <2> QED BY <2>1, <2>2 DEF DalyBus!CellsRead
  <1>6. /\ s \in Shots /\ s.cells = record.cells /\ s.count = record.count /\ s.valid = record.valid
        /\ read # {} => s.range = {<<DalyBus!Lowest(mvs), DalyBus!Highest(mvs)>>}
    BY <1>5, ExtremesMakeShots
  <1>7. DalyBus!CellsRead(s) = read
    BY <1>6 DEF DalyBus!CellsRead
  <1>8. out'.have => record'.valid
    BY <1>4, <1>6 DEF CanTyped, CanDataTyped, DalyBus!Nothing, DalyBus!Packet, DalyBus!HasContent
  <1>9. DalyBus!ExtremesAreOfCells'
    <2>1. CASE out' = out
      BY <2>1 DEF CanTyped, CanDataTyped, DalyBus!ExtremesAreOfCells
    <2>2. CASE out' = DalyBus!Nothing
      <3>1. {out'.cells[i] : i \in DOMAIN out'.cells} = {}
        BY <2>2 DEF DalyBus!Nothing
      <3> QED BY <3>1 DEF DalyBus!ExtremesAreOfCells
    <2>3. CASE out' = DalyBus!Packet(s) /\ read # {}
      <3>1. Spans(s.range, VoltsOf(s))
        BY <2>3, <1>6, <1>7 DEF Spans, VoltsOf
      <3> HIDE DEF s
      <3>2. Spans(DalyBus!Packet(s).range, Shown(DalyBus!Packet(s)))
        BY <3>1, <1>5, <1>6, PacketShowsRead
      <3>3. Spans(out'.range, Shown(out'))
        BY <2>3, <3>2
      <3> QED BY <3>3 DEF Spans, Shown, DalyBus!ExtremesAreOfCells
    <2>4. CASE out' = DalyBus!Packet(s) /\ read = {}
      <3>1. {out'.cells[i] : i \in DOMAIN out'.cells} \ {0} = {}
        <4>1. out'.cells = [i \in 1..s.count |-> s.cells[i]] /\ s.cells \in [1..MaxCells -> Nat]
              /\ s.count \in 0..MaxCells /\ MaxCells \in Nat
          BY <2>4, <1>5, <1>6, ShotHas DEF DalyBus!Packet, CanSizes
        <4>2. \A i \in 1..s.count : s.cells[i] = 0
          BY <2>4, <1>7, <4>1 DEF DalyBus!CellsRead
        <4> HIDE DEF s
        <4> QED BY <4>1, <4>2
      <3> QED BY <3>1 DEF DalyBus!ExtremesAreOfCells
    <2> QED BY <1>4, <2>1, <2>2, <2>3, <2>4
  <1>10. CanDataTyped'
    BY <1>4, <1>5, <1>6, <1>8, <1>9 DEF CanTyped, CanDataTyped, DalyBus!MaxAge, DalyBus!LongRound
  <1> QED BY <1>2, <1>3, <1>10 DEF CanParts

-----------------------------------------------------------------------------
\* What a source starts with.
LEMMA FirstShot ==
    ASSUME CanSizes
    PROVE  DalyBus!NoSnapshot \in Shots /\ OnAir(DalyBus!NoAnswer)
  <1>1. MaxCells \in Nat \ {0}
    BY DEF CanSizes
  <1>2. DalyBus!NoSnapshot \in Shots
    BY <1>1 DEF DalyBus!NoSnapshot, Shots, Shapes, Sole
  <1>3. OnAir(DalyBus!NoAnswer)
    BY DEF DalyBus!NoAnswer, OnAir
  <1> QED BY <1>2, <1>3

LEMMA AllCommands ==
    ASSUME CanSizes
    PROVE  /\ InitCmds \o RunCmds \in Seq(DalyBus!Cmds) /\ InitCmds \o RunCmds # <<>>
           /\ Len(InitCmds \o RunCmds) <= Len(InitCmds) + Len(RunCmds)
  <1> DEFINE S == DalyBus!Cmds
  <1>1. InitCmds \in Seq(S) /\ RunCmds \in Seq(S) /\ RunCmds # <<>>
    BY DEF CanSizes
  <1> HIDE DEF S
  <1>2. /\ InitCmds \o RunCmds \in Seq(S) /\ Len(InitCmds \o RunCmds) = Len(InitCmds) + Len(RunCmds)
        /\ Len(InitCmds) \in Nat /\ Len(RunCmds) \in Nat \ {0}
    BY <1>1
  <1>3. InitCmds \o RunCmds # <<>>
    BY <1>2, NoneIsEmpty
  <1> QED BY <1>2, <1>3 DEF S

LEMMA NothingShown == ~DalyBus!Nothing.have /\ {DalyBus!Nothing.cells[i] : i \in DOMAIN DalyBus!Nothing.cells} = {}
  BY DEF DalyBus!Nothing

LEMMA CanStartsTyped == CanAssumed /\ DalyBus!Init => CanTyped
  <1> SUFFICES ASSUME CanAssumed, DalyBus!Init PROVE CanTyped
    OBVIOUS
  <1>1. CanSizes
    BY CanSizesAre
  <1>2. DalyBus!NoSnapshot \in Shots /\ OnAir(DalyBus!NoAnswer) /\ DalyBus!MaxAge \in Nat /\ Tries \in Nat
    BY <1>1, FirstShot, CanMaxAge, TriesAre
  <1>3. CanTaskTyped
    <2>1. cmd \in Seq(DalyBus!Cmds) /\ cmd # <<>> /\ Len(cmd) <= Len(InitCmds) + Len(RunCmds)
      BY <1>1, AllCommands DEF DalyBus!Init
    <2> QED BY <1>1, <1>2, <2>1 DEF CanTaskTyped, DalyBus!Init, CanSizes, Sole
  <1>4. CanDataTyped
    <2>1. active \in Ids
      BY <1>1 DEF DalyBus!Init, CanSizes, Ids
    <2>2. out = DalyBus!Nothing /\ record = DalyBus!NoSnapshot /\ frame = DalyBus!MaxAge
      BY DEF DalyBus!Init
    <2> QED BY <1>2, <2>1, <2>2, NothingShown DEF CanDataTyped, DalyBus!ExtremesAreOfCells
  <1>5. CanBusTyped
    BY <1>1, <1>2 DEF CanBusTyped, DalyBus!Init, CanSizes
  <1> QED BY <1>1, <1>3, <1>4, <1>5 DEF CanTyped

LEMMA CanStartsAgain ==
    ASSUME CanTyped, DalyBus!Restart
    PROVE  CanParts
  <1>1. CanSizes
    BY DEF CanTyped
  <1>2. DalyBus!NoSnapshot \in Shots /\ DalyBus!MaxAge \in Nat /\ Tries \in Nat
    BY <1>1, FirstShot, CanMaxAge, TriesAre
  <1>3. CanTaskTyped'
    <2>1. cmd' \in Seq(DalyBus!Cmds) /\ cmd' # <<>> /\ Len(cmd') <= Len(InitCmds) + Len(RunCmds)
      BY <1>1, AllCommands DEF DalyBus!Restart, DalyBus!Started
    <2>2. /\ task' = "sniff" /\ plan' = <<>> /\ matched' = 0 /\ expected' = 0 /\ learned' = {}
      BY DEF DalyBus!Restart, DalyBus!Started
    <2> QED BY <1>1, <1>2, <2>1, <2>2 DEF CanTaskTyped, CanSizes, Sole
  <1>4. CanDataTyped'
    <2>1. active' \in Ids
      BY <1>1 DEF DalyBus!Restart, DalyBus!Started, CanSizes, Ids
    <2>2. out' = DalyBus!Nothing /\ record' = DalyBus!NoSnapshot /\ frame' = DalyBus!MaxAge
      BY DEF DalyBus!Restart, DalyBus!Started
    <2>3. out'.have = FALSE /\ {out'.cells[i] : i \in DOMAIN out'.cells} = {}
      BY <2>2 DEF DalyBus!Nothing
    <2>4. DalyBus!ExtremesAreOfCells'
      BY <2>3 DEF DalyBus!ExtremesAreOfCells
    <2>5. record' \in Shots /\ frame' \in 0..DalyBus!MaxAge
      BY <1>2, <2>2
    <2> QED BY <2>1, <2>3, <2>4, <2>5 DEF CanDataTyped, DalyBus!MaxAge, DalyBus!LongRound
  <1>5. CanBusTyped'
    BY <1>1 DEF CanTyped, CanBusTyped, DalyBus!Restart, DalyBus!Started, CanSizes, DalyBus!MaxAge, DalyBus!LongRound
  <1> QED BY <1>3, <1>4, <1>5 DEF CanParts

LEMMA CanBusMoves ==
    ASSUME CanTyped, DalyBus!Arrive \/ DalyBus!BusOff \/ DalyBus!BusRecovered \/ DalyBus!Swap \/ DalyBus!Foreign
    PROVE  CanParts
  <1> USE DEF DalyBus!busVars, DalyBus!envVars, DalyBus!taskVars
  <1>1. UNCHANGED DalyBus!taskVars
    BY DEF DalyBus!Arrive, DalyBus!BusOff, DalyBus!BusRecovered, DalyBus!Swap, DalyBus!Foreign
  <1>2. CanTaskTyped' /\ CanDataTyped'
    BY <1>1, CanTaskStays, CanDataStays DEF CanTyped
  <1>3. CASE DalyBus!Arrive
    <2>1. air.frames \in Seq(CanFrames) /\ rxq \in Seq(CanFrames) /\ DalyBus!MaxAge \in Nat /\ OnAir(DalyBus!NoAnswer)
      BY CanMaxAge, FirstShot DEF CanTyped, CanBusTyped, OnAir
    <2>2. rxq' \in Seq(CanFrames)
      <3>1. rxq' = rxq \o air.frames
        BY <1>3 DEF DalyBus!Arrive
      <3> QED BY <2>1, <3>1
    <2>3. CanBusTyped'
      BY <1>3, <2>1, <2>2 DEF CanTyped, CanBusTyped, DalyBus!Arrive, DalyBus!MaxAge, DalyBus!LongRound
    <2> QED BY <1>2, <2>3 DEF CanParts
  <1>4. CASE DalyBus!BusOff
    <2>1. CanBusTyped'
      BY <1>4, FirstShot DEF CanTyped, CanBusTyped, CanSizes, DalyBus!BusOff, DalyBus!Fault
    <2> QED BY <1>2, <2>1 DEF CanParts
  <1>5. CASE DalyBus!BusRecovered
    <2>1. CanBusTyped'
      BY <1>5 DEF CanTyped, CanBusTyped, DalyBus!BusRecovered
    <2> QED BY <1>2, <2>1 DEF CanParts
  <1>6. CASE DalyBus!Swap
    <2>1. CanBusTyped'
      BY <1>6, FirstShot DEF CanTyped, CanBusTyped, CanSizes, DalyBus!Swap
    <2> QED BY <1>2, <2>1 DEF CanParts
  <1>7. CASE DalyBus!Foreign
    <2>1. PICK i \in DOMAIN Targets, j \in DOMAIN Variants, c \in {"soc", "cells"} :
            rxq' = Append(rxq, [mid |-> Targets[i], low |-> Variants[j].host, short |-> Variants[j].short,
                                cmd |-> c, val |-> 0, no |-> 0, mv |-> 0, n |-> 0, range |-> <<0, 0>>])
      BY <1>7 DEF DalyBus!Foreign
    <2> DEFINE f == [mid |-> Targets[i], low |-> Variants[j].host, short |-> Variants[j].short,
                     cmd |-> c, val |-> 0, no |-> 0, mv |-> 0, n |-> 0, range |-> <<0, 0>>]
    <2>2. f \in CanFrames
      <3>1. Targets[i] \in Ids /\ Variants[j].host \in Ids /\ Variants[j].short \in BOOLEAN /\ c \in DalyBus!Cmds
        BY DEF CanTyped, CanSizes, Ids, Forms, DalyBus!Cmds
      <3> QED BY <3>1 DEF CanFrames
    <2> HIDE DEF f
    <2>3. rxq' \in Seq(CanFrames)
      <3>1. rxq \in Seq(CanFrames) /\ rxq' = Append(rxq, f)
        BY <2>1 DEF CanTyped, CanBusTyped, f
      <3> QED BY <2>2, <3>1
    <2>4. UNCHANGED <<air, bus, hold, battery, gen, swaps, heard>> /\ faults < MaxFaults /\ faults' = faults + 1
      BY <1>7 DEF DalyBus!Foreign, DalyBus!Fault
    <2>5. CanBusTyped'
      BY <2>3, <2>4 DEF CanTyped, CanBusTyped, CanSizes
    <2> QED BY <1>2, <2>5 DEF CanParts
  <1> QED BY <1>3, <1>4, <1>5, <1>6, <1>7

LEMMA CanLoses ==
    ASSUME CanTyped, DalyBus!Lose
    PROVE  CanParts
  <1> USE DEF DalyBus!busVars, DalyBus!envVars, DalyBus!taskVars
  <1>1. CanTaskTyped' /\ CanDataTyped'
    BY CanTaskStays, CanDataStays DEF CanTyped, DalyBus!Lose
  <1>2. OnAir(air')
    <2>1. OnAir(air) /\ DalyBus!Due /\ OnAir(DalyBus!NoAnswer)
          /\ air' = IF Len(air.frames) = 1 THEN DalyBus!NoAnswer ELSE [air EXCEPT !.frames = Tail(air.frames)]
      BY FirstShot DEF CanTyped, CanBusTyped, DalyBus!Lose
    <2>2. CASE Len(air.frames) = 1
      BY <2>1, <2>2
    <2>3. CASE Len(air.frames) # 1
      <3>1. air = [due |-> air.due, frames |-> air.frames] /\ air' = [air EXCEPT !.frames = Tail(air.frames)]
            /\ air.due \in Nat /\ air.frames \in Seq(CanFrames)
        BY <2>1, <2>3 DEF OnAir
      <3>2. air' = [due |-> air.due, frames |-> Tail(air.frames)]
        BY <3>1
      <3>3. air.frames # <<>>
        <4>1. air # DalyBus!NoAnswer /\ air.due = 0
          BY <2>1 DEF DalyBus!Due
        <4> QED BY <3>1, <4>1 DEF DalyBus!NoAnswer
      <3>4. Tail(air.frames) \in Seq(CanFrames)
        BY <3>1, <3>3, TailIs
      <3> QED BY <3>1, <3>2, <3>4, AnswerMade
    <2> QED BY <2>2, <2>3
  <1>3. CanBusTyped'
    <2>1. UNCHANGED <<rxq, bus, hold, battery, gen, swaps, heard>> /\ faults < MaxFaults /\ faults' = faults + 1
      BY DEF DalyBus!Lose, DalyBus!Fault
    <2> QED BY <1>2, <2>1 DEF CanTyped, CanBusTyped, CanSizes
  <1> QED BY <1>1, <1>3 DEF CanParts

LEMMA CanAnswersOther ==
    ASSUME CanTyped, DalyBus!AnswersOther
    PROVE  CanParts
  <1> USE DEF DalyBus!busVars, DalyBus!envVars, DalyBus!taskVars
  <1>1. CanTaskTyped' /\ CanDataTyped'
    BY CanTaskStays, CanDataStays DEF CanTyped, DalyBus!AnswersOther
  <1>2. PICK h \in battery.hosts, c \in {"soc", "cells"} : rxq' = rxq \o DalyBus!AnswerTo(c, h)
    BY DEF DalyBus!AnswersOther
  <1>3. rxq' \in Seq(CanFrames)
    <2>1. h \in Hosts /\ c \in DalyBus!Cmds /\ rxq \in Seq(CanFrames)
      BY DEF CanTyped, CanBusTyped, CanSizes, DalyBus!Cmds
    <2>2. DalyBus!AnswerTo(c, h) \in Seq(CanFrames)
      BY <2>1, AnswerIs DEF CanTyped
    <2> QED BY <1>2, <2>1, <2>2
  <1>4. CanBusTyped'
    <2>1. UNCHANGED <<air, bus, hold, battery, gen, swaps>> /\ heard' = 0
      BY DEF DalyBus!AnswersOther
    <2>2. faults < MaxFaults /\ faults' = faults + 1
      BY DEF DalyBus!AnswersOther, DalyBus!Fault
    <2>3. 0 \in 0..DalyBus!MaxAge /\ DalyBus!MaxAge' = DalyBus!MaxAge /\ CanBusTyped /\ MaxFaults \in Nat
      BY CanMaxAge DEF CanTyped, CanSizes, DalyBus!MaxAge, DalyBus!LongRound
    <2>4. faults' \in 0..MaxFaults
      BY <2>2, <2>3 DEF CanBusTyped
    <2> QED BY <1>3, <2>1, <2>3, <2>4 DEF CanBusTyped
  <1> QED BY <1>1, <1>4 DEF CanParts

LEMMA CanStepTyped == CanTyped /\ [DalyBus!Next]_DalyBus!vars => CanTyped'
  <1> SUFFICES ASSUME CanTyped, [DalyBus!Next]_DalyBus!vars PROVE CanTyped'
    OBVIOUS
  <1>1. CanParts
    <2>1. CASE DalyBus!Poll
      BY <2>1, CanGoesOn, CanAsks, CanReads, CanWaits DEF DalyBus!Poll
    <2>2. CASE DalyBus!SniffFrame \/ DalyBus!SniffEnds \/ DalyBus!RoundEnds
      BY <2>2, CanReads, CanWaits, CanRoundEnds
    <2>3. CASE DalyBus!Restart
      BY <2>3, CanStartsAgain
    <2>4. CASE DalyBus!Lose \/ DalyBus!AnswersOther
      BY <2>4, CanLoses, CanAnswersOther
    <2>5. CASE DalyBus!Arrive \/ DalyBus!Foreign \/ DalyBus!BusOff \/ DalyBus!BusRecovered \/ DalyBus!Swap
      BY <2>5, CanBusMoves
    <2>6. CASE UNCHANGED DalyBus!vars
      <3>1. /\ UNCHANGED <<task, cmd, plan, matched, expected, learned>>
            /\ UNCHANGED <<active, record, frame, out>>
            /\ UNCHANGED <<rxq, air, bus, hold, battery, gen, heard, faults, swaps>>
        BY <2>6 DEF DalyBus!vars, DalyBus!taskVars, DalyBus!busVars, DalyBus!envVars
      <3> QED BY <3>1, CanTaskStays, CanDataStays, CanBusStays DEF CanTyped, CanParts
    <2> QED BY <2>1, <2>2, <2>3, <2>4, <2>5, <2>6 DEF DalyBus!Next, DalyBus!Task
  <1> QED BY <1>1 DEF CanTyped, CanParts, CanSizes

LEMMA CanIsTypeOK == CanTyped => DalyBus!TypeOK /\ DalyBus!ExtremesAreOfCells
  <1> SUFFICES ASSUME CanTyped PROVE DalyBus!TypeOK /\ DalyBus!ExtremesAreOfCells
    OBVIOUS
  <1>1. Len(plan) <= Len(Targets) * Len(Variants) /\ Len(cmd) <= Len(InitCmds) + Len(RunCmds)
        /\ (task \in {"ask", "wait"} => cmd # <<>> /\ plan # <<>>)
    BY DEF CanTyped, CanTaskTyped, Tries
  <1>2. DalyBus!Cardinality(learned) <= 1
    BY OneIsOne, SameCardinality DEF CanTyped, CanTaskTyped
  <1>3. DalyBus!IsSnapshot(record)
    BY ShotIsSnapshot DEF CanTyped, CanDataTyped
  <1>4. /\ matched \in 0..MaxCells /\ expected \in 0..MaxCells /\ {frame, heard} \subseteq 0..DalyBus!MaxAge
        /\ (out.have => record.valid) /\ task \in {"sniff", "poll", "ask", "wait", "round"}
        /\ bus \in {"running", "off", "recovering", "stopped"} /\ hold \in 0..Hold
        /\ faults \in 0..MaxFaults /\ swaps \in 0..MaxSwaps
    BY DEF CanTyped, CanTaskTyped, CanDataTyped, CanBusTyped
  <1>5. gen \in 1..(MaxSwaps + 1) /\ DalyBus!ExtremesAreOfCells
    BY DEF CanTyped, CanDataTyped, CanBusTyped, CanSizes
  <1> QED BY <1>1, <1>2, <1>3, <1>4, <1>5 DEF DalyBus!TypeOK

\* The Daly source on CAN keeps to its tables and bounds: a command is never tried with a target or a
\* form of request that is not in them (dalyCanPollBms), and every part of the snapshot is of a frame,
\* for every list of commands, every form of request and every set of batteries and harms.
THEOREM CanKeepsTypes == CanAssumed /\ DalyBus!Spec => []DalyBus!TypeOK
  <1>1. CanAssumed /\ DalyBus!Init => CanTyped
    BY CanStartsTyped
  <1>2. CanTyped /\ [DalyBus!Next]_DalyBus!vars => CanTyped'
    BY CanStepTyped
  <1>3. CanTyped => DalyBus!TypeOK
    BY CanIsTypeOK
  <1> QED BY <1>1, <1>2, <1>3, PTL DEF DalyBus!Spec

\* The lowest and the highest cell of a snapshot are those of cells it holds (refreshCellStats), whatever
\* frames were lost, came late or were of another battery.
THEOREM CanShowsItsExtremes == CanAssumed /\ DalyBus!Spec => []DalyBus!ExtremesAreOfCells
  <1>1. CanAssumed /\ DalyBus!Init => CanTyped
    BY CanStartsTyped
  <1>2. CanTyped /\ [DalyBus!Next]_DalyBus!vars => CanTyped'
    BY CanStepTyped
  <1>3. CanTyped => DalyBus!ExtremesAreOfCells
    BY CanIsTypeOK
  <1> QED BY <1>1, <1>2, <1>3, PTL DEF DalyBus!Spec

-----------------------------------------------------------------------------
(* How long the Daly source on CAN shows a silent battery.                  *)

\* The controller stays on, and no other device asks on the bus.
Undisturbed == {"busoff", "foreign"} \cap Harms = {}

\* For so long a frame may have been in the queue, which is emptied when the next request is sent.
QueuedFor == IF task = "wait" THEN 0 ELSE IF task = "round" THEN 1 ELSE IF task = "sniff" THEN 2 ELSE 3

CanLags ==
    /\ bus = "running"
    /\ heard <= frame + 3
    /\ rxq # <<>> => heard <= QueuedFor

\* Once a form is learned each command is tried only once.
OneTry ==
    /\ task # "wait" => matched = 0
    /\ learned # {} /\ task \in {"ask", "wait"} /\ matched = 0 => ~(Len(plan) > 1)

\* The ticks until the task has asked all commands of this round.
Turns(form, n) == n * (IF form # {} THEN 1 ELSE Tries)

CanLeft ==
    CASE task = "round" -> 0
      [] task \in {"ask", "wait"} -> (IF learned # {} THEN 1 ELSE Len(plan)) + Turns(learned, Len(cmd) - 1)
      [] OTHER -> Turns(learned, Len(cmd))

CanRoundIs == Turns(learned, Len(RunCmds)) + 3

CanShowsInTime ==
    out.have => task # "sniff" /\ Len(cmd) <= Len(RunCmds) /\ heard + CanLeft <= Window + CanRoundIs

CanInTime == CanTyped /\ Undisturbed /\ CanLags /\ OneTry /\ CanShowsInTime

\* Sums, of numbers that are not those of the state.
LEMMA Lagging == ASSUME NEW a \in Nat, NEW b \in Nat, NEW c \in Nat, a <= b + 3, b <= c PROVE a <= c + 3
  OBVIOUS

LEMMA Sums ==
    ASSUME NEW a \in Nat, NEW b \in Nat, NEW c \in Nat, NEW d \in Nat, a <= c, b <= d
    PROVE  a + b <= c + d
  OBVIOUS

LEMMA Follows == ASSUME NEW a \in Nat, NEW b \in Nat, NEW c \in Nat, a <= b, b <= c PROVE a <= c
  OBVIOUS

LEMMA SumIs == ASSUME NEW a \in Nat, NEW b \in Nat PROVE a + b \in Nat /\ a <= a + b /\ 0 <= a + b
  OBVIOUS

LEMMA SmallLag == ASSUME NEW a \in Nat, NEW b \in Nat, a <= 2 PROVE a <= b + 3
  OBVIOUS

LEMMA OneLess ==
    ASSUME NEW a \in Nat, NEW b \in Nat, NEW c \in Nat, NEW d \in Nat, a <= c + 1, b <= d - 1
    PROVE  a + b <= c + d
  OBVIOUS

LEMMA TurnsAre ==
    ASSUME CanSizes, NEW n \in Nat
    PROVE  /\ Turns(learned, n) \in Nat /\ Turns(learned, 0) = 0 /\ Turns(learned, n + 1) = Turns(learned, n) + (IF learned # {} THEN 1 ELSE Tries)
           /\ \A m \in Nat : m <= n => Turns(learned, m) <= Turns(learned, n)
  <1> DEFINE k == IF learned # {} THEN 1 ELSE Tries
  <1>1. k \in Nat
    BY TriesAre
  <1>2. \A m \in Nat : Turns(learned, m) = m * k
    BY DEF Turns
  <1> HIDE DEF k, Turns
  <1>3. n * k \in Nat /\ 0 * k = 0 /\ (n + 1) * k = n * k + k
    BY <1>1
  <1>4. ASSUME NEW m \in Nat, m <= n PROVE m * k <= n * k
    <2>1. PICK d \in Nat : n = m + d
      <3>1. n - m \in Nat /\ n = m + (n - m)
        BY <1>4
      <3> QED BY <3>1
    <2>2. n * k = m * k + d * k /\ d * k >= 0 /\ m * k \in Nat /\ d * k \in Nat
      BY <1>1, <2>1
    <2> QED BY <2>2
  <1> QED BY <1>2, <1>3, <1>4 DEF k

LEMMA CanHasSizes ==
    ASSUME CanTyped
    PROVE  /\ CanSizes /\ Len(RunCmds) \in Nat \ {0} /\ Window \in Nat /\ Tries \in Nat /\ Tries >= 2
           /\ Len(cmd) \in Nat /\ Len(plan) \in Nat /\ Len(plan) <= Tries
           /\ heard \in Nat /\ frame \in Nat /\ heard <= DalyBus!MaxAge /\ frame <= DalyBus!MaxAge
           /\ matched \in Nat /\ DalyBus!MaxAge \in Nat
           /\ (task # "round" => Len(cmd) >= 1) /\ (task \in {"ask", "wait"} => Len(plan) >= 1)
  <1>1. CanSizes /\ DalyBus!MaxAge \in Nat /\ Tries \in Nat /\ Tries >= 2
    BY TriesAre, CanMaxAge DEF CanTyped
  <1>2. RunCmds \in Seq(DalyBus!Cmds) /\ RunCmds # <<>> /\ Window \in Nat /\ MaxCells \in Nat
    BY <1>1 DEF CanSizes
  <1>3. Len(RunCmds) \in Nat \ {0}
    BY <1>2, NoneIsEmpty
  <1>4. cmd \in Seq(DalyBus!Cmds) /\ plan \in Seq(Requests) /\ Len(plan) <= Tries /\ matched \in 0..MaxCells
        /\ (task # "round" => cmd # <<>>) /\ (task \in {"ask", "wait"} => plan # <<>>)
    BY DEF CanTyped, CanTaskTyped
  <1>5. (cmd = <<>> <=> Len(cmd) = 0) /\ (plan = <<>> <=> Len(plan) = 0) /\ Len(cmd) \in Nat /\ Len(plan) \in Nat
    BY <1>4, NoneIsEmpty
  <1>6. heard \in 0..DalyBus!MaxAge /\ frame \in 0..DalyBus!MaxAge
    BY DEF CanTyped, CanDataTyped, CanBusTyped
  <1> QED BY <1>1, <1>2, <1>3, <1>4, <1>5, <1>6

LEMMA CanStartsInTime == CanAssumed /\ Undisturbed /\ DalyBus!Init => CanInTime
  <1> SUFFICES ASSUME CanAssumed, Undisturbed, DalyBus!Init PROVE CanInTime
    OBVIOUS
  <1>1. CanTyped
    BY CanStartsTyped
  <1>2. CanLags
    BY <1>1, CanHasSizes DEF CanLags, DalyBus!Init
  <1>3. OneTry /\ CanShowsInTime
    BY DEF OneTry, CanShowsInTime, DalyBus!Init, DalyBus!Nothing
  <1> QED BY <1>1, <1>2, <1>3 DEF CanInTime

\* The age of what was heard and that of the last frame grow together.
LEMMA LagStays ==
    ASSUME CanTyped, heard <= frame + 3
    PROVE  DalyBus!Grown(heard) <= DalyBus!Grown(frame) + 3 /\ DalyBus!Grown(heard) <= heard + 1
           /\ DalyBus!Grown(heard) \in Nat /\ DalyBus!Grown(frame) \in Nat
  BY CanHasSizes DEF DalyBus!Grown

LEMMA NothingDrained == rxq = <<>> => DalyBus!Drained.frame = frame
  <1> SUFFICES ASSUME rxq = <<>> PROVE DalyBus!Drained.frame = frame
    OBVIOUS
  <1> DEFINE b     == DalyBus!Ctx
             Eq(g) == g = [n \in 0..Len(rxq) |-> IF n = 0 THEN b ELSE DalyBus!Heard(g[n - 1], rxq[n])]
             f     == CHOOSE g : Eq(g)
             h     == [n \in 0..0 |-> b]
  <1>1. Len(rxq) = 0
    OBVIOUS
  <1>2. Eq(h)
    <2>1. \A n \in 0..0 : h[n] = IF n = 0 THEN b ELSE DalyBus!Heard(h[n - 1], rxq[n])
      OBVIOUS
    <2> QED BY <1>1, <2>1
  <1>3. Eq(f)
    <2> HIDE DEF Eq, h
    <2> QED BY <1>2
  <1>4. DalyBus!Drained = f[0]
    BY <1>1 DEF DalyBus!Drained
  <1> HIDE DEF f, b
  <1>5. f[0] = b
    BY <1>1, <1>3
  <1> QED BY <1>4, <1>5 DEF b, DalyBus!Ctx

\* What is left of the round is not longer when a command is over.
LEMMA TurnsLess ==
    ASSUME CanTyped, task # "round"
    PROVE  /\ Turns(learned, Len(cmd)) = Turns(learned, Len(cmd) - 1) + (IF learned # {} THEN 1 ELSE Tries)
           /\ Turns(learned, Len(cmd) - 1) \in Nat /\ Turns(learned, 0) = 0
           /\ Len(cmd) <= Len(RunCmds) => Turns(learned, Len(cmd)) <= Turns(learned, Len(RunCmds))
           /\ Turns(learned, Len(RunCmds)) \in Nat
  <1> DEFINE n == Len(cmd) - 1
  <1>1. n \in Nat /\ Len(RunCmds) \in Nat /\ Len(cmd) \in Nat /\ CanSizes
    BY CanHasSizes
  <1>2. Turns(learned, n) \in Nat /\ Turns(learned, 0) = 0 /\ Turns(learned, n + 1) = Turns(learned, n) + (IF learned # {} THEN 1 ELSE Tries)
    BY <1>1, TurnsAre
  <1>3. Turns(learned, Len(RunCmds)) \in Nat /\ \A m \in Nat : m <= Len(RunCmds) => Turns(learned, m) <= Turns(learned, Len(RunCmds))
    BY <1>1, TurnsAre
  <1>4. n + 1 = Len(cmd)
    BY <1>1
  <1> HIDE DEF Turns
  <1> QED BY <1>1, <1>2, <1>3, <1>4

\* A step that moves on to the next try, or to the next command.
CanMovesOn ==
    \/ cmd' = Tail(cmd) /\ matched' = 0 /\ task' = IF Len(cmd) = 1 THEN "round" ELSE "poll"
    \/ Len(plan) > 1 /\ plan' = Tail(plan) /\ task' = "ask" /\ UNCHANGED <<cmd, matched>>

LEMMA CanMoves ==
    ASSUME CanTyped, task \in {"ask", "wait"}, CanMovesOn, learned' = learned,
           Len(plan) > 1 /\ task' = "ask" => learned = {}
    PROVE  CanLeft' <= CanLeft - 1 /\ Len(cmd') <= Len(cmd) /\ CanLeft' \in Nat /\ CanLeft \in Nat
  <1>1. /\ Len(cmd) \in Nat \ {0} /\ Len(plan) \in Nat \ {0} /\ Tries \in Nat
        /\ cmd \in Seq(DalyBus!Cmds) /\ plan \in Seq(Requests)
    BY CanHasSizes DEF CanTyped, CanTaskTyped
  <1> DEFINE w == Turns(learned, Len(cmd) - 1)
  <1>2. w \in Nat /\ Turns(learned, Len(cmd)) = w + (IF learned # {} THEN 1 ELSE Tries) /\ Turns(learned, 0) = 0
    BY TurnsLess
  <1>3. CanLeft = (IF learned # {} THEN 1 ELSE Len(plan)) + w
    BY DEF CanLeft
  <1> HIDE DEF Turns
  <1>5. CASE cmd' = Tail(cmd) /\ task' = IF Len(cmd) = 1 THEN "round" ELSE "poll"
    <2>1. Len(cmd') = Len(cmd) - 1
      BY <1>1, <1>5, TailIs
    <2>2. CanLeft' = IF Len(cmd) = 1 THEN 0 ELSE w
      <3>1. Turns(learned', Len(cmd')) = w
        BY <2>1
      <3> QED BY <1>5, <3>1 DEF CanLeft
    <2> QED BY <1>1, <1>2, <1>3, <2>1, <2>2
  <1>6. CASE Len(plan) > 1 /\ plan' = Tail(plan) /\ task' = "ask" /\ UNCHANGED cmd
    <2>1. Len(plan') = Len(plan) - 1
      BY <1>1, <1>6, TailIs
    <2>2. CanLeft' = Len(plan') + w
      <3>1. Turns(learned', Len(cmd') - 1) = w
        BY <1>6
      <3> QED BY <1>6, <3>1 DEF CanLeft
    <2> QED BY <1>1, <1>2, <1>3, <1>6, <2>1, <2>2
  <1> QED BY <1>5, <1>6 DEF CanMovesOn

\* The steps that leave the bus running: no harm switches it off.
LEMMA BusStays ==
    ASSUME CanInTime, DalyBus!Next
    PROVE  bus' = "running" /\ ~DalyBus!PollIsOff /\ ~DalyBus!BusOff /\ ~DalyBus!BusRecovered /\ ~DalyBus!Foreign
  <1>1. bus = "running" /\ "busoff" \notin Harms /\ "foreign" \notin Harms
    BY DEF CanInTime, CanLags, Undisturbed
  <1>2. ~DalyBus!PollIsOff /\ ~DalyBus!BusOff /\ ~DalyBus!BusRecovered /\ ~DalyBus!Foreign
    BY <1>1 DEF DalyBus!PollIsOff, DalyBus!BusOff, DalyBus!BusRecovered, DalyBus!Foreign, DalyBus!Fault
  <1>3. bus' = "running"
    <2> USE <1>1 DEF DalyBus!busVars, DalyBus!Recovers, DalyBus!Restarted, DalyBus!StaysDown
    <2>1. CASE DalyBus!Poll
      BY <2>1, <1>2 DEF DalyBus!Poll, DalyBus!PollRuns, DalyBus!Ask, DalyBus!AskFails, DalyBus!WaitFrame,
                        DalyBus!WaitEnds
    <2>2. CASE DalyBus!SniffFrame \/ DalyBus!SniffEnds \/ DalyBus!RoundEnds \/ DalyBus!Restart
      BY <2>2 DEF DalyBus!SniffFrame, DalyBus!SniffEnds, DalyBus!RoundEnds, DalyBus!Restart, DalyBus!Started
    <2>3. CASE DalyBus!Arrive \/ DalyBus!Lose \/ DalyBus!AnswersOther \/ DalyBus!Swap
      BY <2>3 DEF DalyBus!Arrive, DalyBus!Lose, DalyBus!AnswersOther, DalyBus!Swap
    <2> QED BY <1>2, <2>1, <2>2, <2>3 DEF DalyBus!Next, DalyBus!Task
  <1> QED BY <1>2, <1>3

\* What a step of the task or of the bus must leave, part by part.
CanInTimeParts == CanLags' /\ OneTry' /\ CanShowsInTime'

LEMMA RoundIsNat == ASSUME CanTyped PROVE CanRoundIs \in Nat
  <1>1. Turns(learned, Len(RunCmds)) \in Nat
    BY CanHasSizes, TurnsAre
  <1> HIDE DEF Turns
  <1> QED BY <1>1 DEF CanRoundIs

\* Nothing more is shown, what is left of the round has not grown, and neither has its length.
LEMMA ShowsOn ==
    ASSUME CanTyped, CanShowsInTime, out' = out, learned' = learned, task' # "sniff", Len(cmd') <= Len(cmd),
           heard' \in Nat, CanLeft' \in Nat, CanLeft \in Nat, Len(cmd') \in Nat,
           heard' + CanLeft' <= heard + CanLeft
    PROVE  CanShowsInTime'
  <1>1. CanRoundIs' = CanRoundIs
    BY DEF CanRoundIs, Turns
  <1>2. Window \in Nat /\ heard \in Nat /\ Len(cmd) \in Nat /\ Len(RunCmds) \in Nat /\ CanRoundIs \in Nat
    BY CanHasSizes, RoundIsNat
  <1> HIDE DEF CanLeft, CanRoundIs
  <1>3. ASSUME out'.have
        PROVE  Len(cmd') <= Len(RunCmds) /\ heard' + CanLeft' <= Window + CanRoundIs'
    <2>1. Len(cmd) <= Len(RunCmds) /\ heard + CanLeft <= Window + CanRoundIs
      BY <1>3 DEF CanShowsInTime
    <2>2. Len(cmd') <= Len(RunCmds)
      BY <1>2, <2>1, Follows
    <2>3. heard + CanLeft \in Nat /\ heard' + CanLeft' \in Nat /\ Window + CanRoundIs \in Nat
      BY <1>2, SumIs
    <2>4. heard' + CanLeft' <= Window + CanRoundIs
      BY <2>1, <2>3, Follows
    <2> QED BY <1>1, <2>2, <2>4
  <1> QED BY <1>3 DEF CanShowsInTime

LEMMA PollRunsInTime ==
    ASSUME CanInTime, CanTyped', bus' = "running", DalyBus!PollRuns
    PROVE  CanInTimeParts
  <1>1. /\ task = "poll" /\ task' = "ask" /\ plan' = DalyBus!Plan
        /\ UNCHANGED <<cmd, matched, learned, frame, out, rxq, heard>>
    BY DEF DalyBus!PollRuns
  <1>2. CanTyped /\ CanLags /\ OneTry /\ CanShowsInTime
    BY DEF CanInTime
  <1>3. CanLags' /\ matched' = 0
    BY <1>1, <1>2 DEF CanLags, QueuedFor, OneTry
  <1>4. learned # {} => ~(Len(plan') > 1)
    <2>1. learned # {} => ~(Len(DalyBus!Plan) > 1)
      BY DEF DalyBus!Plan
    <2> QED BY <1>1, <2>1
  <1>5. Len(plan') \in Nat /\ Len(plan') <= Tries /\ Tries \in Nat
    <2>1. plan' \in Seq(Requests) /\ Len(plan') <= Tries' /\ Tries' = Tries
      BY DEF CanTyped, CanTaskTyped, Tries
    <2> QED BY <1>2, <2>1, CanHasSizes
  <1>6. CanLeft' <= CanLeft /\ CanLeft' \in Nat /\ CanLeft \in Nat
    <2> DEFINE w == Turns(learned, Len(cmd) - 1)
    <2>1. CanLeft = w + (IF learned # {} THEN 1 ELSE Tries) /\ w \in Nat
      BY <1>1, <1>2, TurnsLess DEF CanLeft
    <2>2. CanLeft' = (IF learned # {} THEN 1 ELSE Len(plan')) + w
      BY <1>1 DEF CanLeft, Turns
    <2> HIDE DEF w
    <2> QED BY <2>1, <2>2, <1>5
  <1>7. CanShowsInTime'
    <2>1. heard \in Nat /\ Len(cmd) \in Nat
      BY <1>2, CanHasSizes
    <2> HIDE DEF CanLeft
    <2>2. heard' + CanLeft' <= heard + CanLeft
      <3>1. heard' \in Nat /\ heard' <= heard
        BY <1>1, <2>1
      <3> QED BY <1>6, <2>1, <3>1, Sums
    <2> QED BY <1>1, <1>2, <1>6, <2>1, <2>2, ShowsOn
  <1> QED BY <1>1, <1>3, <1>4, <1>7 DEF OneTry, CanInTimeParts

LEMMA LeftIs == ASSUME CanTyped PROVE CanLeft \in Nat
  <1>1. Len(cmd) \in Nat /\ Len(plan) \in Nat /\ (task # "round" => Len(cmd) >= 1) /\ CanSizes
    BY CanHasSizes
  <1>2. ASSUME task # "round" PROVE Turns(learned, Len(cmd)) \in Nat /\ Turns(learned, Len(cmd) - 1) \in Nat
    <2>1. Len(cmd) \in Nat /\ Len(cmd) - 1 \in Nat
      BY <1>1, <1>2
    <2> QED BY <1>1, <2>1, TurnsAre
  <1> HIDE DEF Turns
  <1> QED BY <1>1, <1>2 DEF CanLeft

\* Asking, or failing to: the queue is empty then, and no time has passed.
LEMMA AskInTime ==
    ASSUME CanInTime, CanTyped', bus' = "running", DalyBus!Ask \/ DalyBus!AskFails
    PROVE  CanInTimeParts
  <1>1. /\ task = "ask" /\ rxq' = <<>> /\ frame' = DalyBus!Drained.frame
        /\ UNCHANGED <<learned, out, heard>>
    BY DEF DalyBus!Ask, DalyBus!AskFails, DalyBus!Take
  <1>2. CanTyped /\ CanLags /\ OneTry /\ CanShowsInTime
    BY DEF CanInTime
  <1>3. CanLags'
    <2>1. heard \in Nat /\ frame \in Nat /\ frame' \in Nat
      <3>1. frame' \in 0..DalyBus!MaxAge
        BY DEF CanTyped, CanDataTyped, DalyBus!MaxAge, DalyBus!LongRound
      <3> QED BY <1>2, <3>1, CanHasSizes
    <2>2. heard <= frame' + 3
      <3>1. CASE rxq = <<>>
        BY <3>1, <1>1, <1>2, NothingDrained DEF CanLags
      <3>2. CASE rxq # <<>>
        BY <3>2, <1>1, <1>2, <2>1 DEF CanLags, QueuedFor
      <3> QED BY <3>1, <3>2
    <2> QED BY <1>1, <2>2 DEF CanLags
  <1>4. CASE DalyBus!Ask
    <2>1. task' = "wait" /\ UNCHANGED <<cmd, plan, matched>>
      BY <1>4 DEF DalyBus!Ask
    <2>2. CanLeft' = CanLeft
      BY <1>1, <2>1 DEF CanLeft, Turns
    <2>3. CanShowsInTime'
      BY <1>1, <1>2, <2>1, <2>2, LeftIs, CanHasSizes, ShowsOn
    <2> QED BY <1>1, <1>2, <1>3, <2>1, <2>3 DEF OneTry, CanInTimeParts
  <1>5. CASE DalyBus!AskFails
    <2>1. CanMovesOn /\ (task' = "ask" => Len(plan) > 1) /\ (task' = "ask" => matched' = matched)
          /\ task' \in {"round", "poll", "ask"} /\ (task' # "ask" => matched' = 0)
      <3>1. DalyBus!TryOver
        BY <1>5 DEF DalyBus!AskFails
      <3>2. Len(plan) \in Nat /\ Len(plan) >= 1
        BY <1>1, <1>2, CanHasSizes
      <3>3. CASE DalyBus!CommandOver
        BY <3>3 DEF DalyBus!CommandOver, CanMovesOn
      <3>4. CASE ~DalyBus!CommandOver
        <4>1. plan' = Tail(plan) /\ task' = "ask" /\ UNCHANGED <<cmd, matched>>
          BY <3>1, <3>4 DEF DalyBus!TryOver
        <4>2. Len(plan) # 1
          BY <3>1, <3>4 DEF DalyBus!TryOver
        <4>3. Len(plan) > 1
          BY <3>2, <4>2
        <4> QED BY <4>1, <4>3 DEF CanMovesOn
      <3> QED BY <3>3, <3>4
    <2>2. matched = 0 /\ (learned # {} => ~(Len(plan) > 1))
      BY <1>1, <1>2 DEF OneTry
    <2>3. CanLeft' <= CanLeft - 1 /\ Len(cmd') <= Len(cmd) /\ CanLeft' \in Nat /\ CanLeft \in Nat
      <3>1. Len(plan) > 1 => learned = {}
        BY <2>2
      <3> QED BY <1>1, <1>2, <2>1, <3>1, CanMoves
    <2>4. Len(cmd') \in Nat /\ heard \in Nat
      <3>1. cmd' \in Seq(DalyBus!Cmds)
        BY DEF CanTyped, CanTaskTyped
      <3> QED BY <1>2, <3>1, CanHasSizes
    <2>5. CanShowsInTime'
      <3>1. heard' \in Nat /\ heard' <= heard + 1
        BY <1>1, <2>4
      <3>2. heard' + CanLeft' <= heard + CanLeft
        BY <2>3, <2>4, <3>1, OneLess
      <3> QED BY <1>1, <1>2, <2>1, <2>3, <2>4, <3>1, <3>2, ShowsOn
    <2>6. OneTry'
      <3>1. Len(plan) > 1 => learned = {}
        BY <2>2
      <3>2. task' = "ask" => learned' = {}
        BY <1>1, <2>1, <3>1
      <3>3. matched' = 0
        BY <2>1, <2>2
      <3> QED BY <2>1, <3>2, <3>3 DEF OneTry
    <2> QED BY <1>3, <2>5, <2>6 DEF CanInTimeParts
  <1> QED BY <1>4, <1>5

\* A tick while an answer is waited for ends the wait.
LEMMA WaitInTime ==
    ASSUME CanInTime, CanTyped', bus' = "running", DalyBus!WaitEnds
    PROVE  CanInTimeParts
  <1>1. /\ task = "wait" /\ UNCHANGED <<learned, out, rxq>>
        /\ frame' = DalyBus!Grown(frame) /\ heard' = DalyBus!Grown(heard)
        /\ IF matched > 0 THEN DalyBus!CommandOver ELSE DalyBus!TryOver
    BY DEF DalyBus!WaitEnds, DalyBus!Tick
  <1>2. CanTyped /\ CanLags /\ OneTry /\ CanShowsInTime
    BY DEF CanInTime
  <1>3. heard' <= frame' + 3 /\ heard' <= heard + 1 /\ heard' \in Nat /\ heard \in Nat
    BY <1>1, <1>2, LagStays, CanHasSizes DEF CanLags
  <1>4. Len(plan) \in Nat /\ Len(plan) >= 1 /\ matched \in Nat
    BY <1>1, <1>2, CanHasSizes
  <1>5. /\ CanMovesOn /\ (task' = "ask" => Len(plan) > 1 /\ matched = 0) /\ matched' = 0
        /\ task' \in {"round", "poll", "ask"}
    <2>1. CASE DalyBus!CommandOver
      BY <2>1 DEF DalyBus!CommandOver, CanMovesOn
    <2>2. CASE ~DalyBus!CommandOver
      <3>1. ~(matched > 0) /\ Len(plan) # 1 /\ plan' = Tail(plan) /\ task' = "ask" /\ UNCHANGED <<cmd, matched>>
        BY <1>1, <2>2 DEF DalyBus!TryOver
      <3>2. matched = 0 /\ Len(plan) > 1
        BY <1>4, <3>1
      <3> QED BY <3>1, <3>2 DEF CanMovesOn
    <2> QED BY <2>1, <2>2
  <1>6. task' = "ask" => learned = {}
    <2>1. learned # {} /\ matched = 0 => ~(Len(plan) > 1)
      BY <1>1, <1>2 DEF OneTry
    <2> QED BY <1>5, <2>1
  <1>7. CanLeft' <= CanLeft - 1 /\ Len(cmd') <= Len(cmd) /\ CanLeft' \in Nat /\ CanLeft \in Nat
    BY <1>1, <1>2, <1>5, <1>6, CanMoves
  <1>8. CanLags'
    <2>1. rxq # <<>> => heard <= 0
      BY <1>1, <1>2 DEF CanLags, QueuedFor
    <2>2. rxq' # <<>> => heard' <= 1
      BY <1>1, <1>3, <2>1
    <2>3. rxq' # <<>> => heard' <= QueuedFor'
      BY <1>3, <1>5, <2>2 DEF QueuedFor
    <2> QED BY <1>3, <2>3 DEF CanLags
  <1>9. Len(cmd') \in Nat
    <2>1. cmd' \in Seq(DalyBus!Cmds)
      BY DEF CanTyped, CanTaskTyped
    <2> QED BY <2>1
  <1>10. CanShowsInTime'
    BY <1>1, <1>2, <1>3, <1>5, <1>7, <1>9, ShowsOn
  <1> QED BY <1>1, <1>5, <1>6, <1>8, <1>10 DEF OneTry, CanInTimeParts

\* A frame that is read from the queue while an answer is waited for has just come.
LEMMA FrameInTime ==
    ASSUME CanInTime, CanTyped', bus' = "running", DalyBus!WaitFrame
    PROVE  CanInTimeParts
  <1>1. /\ task = "wait" /\ rxq # <<>> /\ UNCHANGED <<out, heard>>
    BY DEF DalyBus!WaitFrame
  <1>0. \/ UNCHANGED <<task, cmd, plan, matched, learned>>
        \/ learned' = DalyBus!Learn /\ DalyBus!CommandOver
        \/ learned' = DalyBus!Learn /\ matched' = matched + 1 /\ UNCHANGED <<task, cmd, plan>>
    BY DEF DalyBus!WaitFrame
  <1>2. CanTyped /\ CanLags /\ OneTry /\ CanShowsInTime
    BY DEF CanInTime
  <1>3. heard = 0
    <2>1. heard <= 0 /\ heard \in Nat
      BY <1>1, <1>2, CanHasSizes DEF CanLags, QueuedFor
    <2> QED BY <2>1
  <1>4. CanLags'
    <2>1. frame' \in 0..DalyBus!MaxAge
      BY DEF CanTyped, CanDataTyped, DalyBus!MaxAge, DalyBus!LongRound
    <2>2. DalyBus!MaxAge \in Nat
      BY <1>2, CanHasSizes
    <2>3. heard' = 0 /\ heard' <= frame' + 3
      <3>1. heard' = 0 /\ frame' \in Nat
        BY <1>1, <1>3, <2>1, <2>2
      <3>2. 0 <= frame' + 3
        BY <3>1, SumIs
      <3> QED BY <3>1, <3>2
    <2>4. heard' <= QueuedFor'
      BY <2>3 DEF QueuedFor
    <2> QED BY <2>3, <2>4 DEF CanLags
  <1>5. CASE UNCHANGED <<task, cmd, plan, matched, learned>>
    <2>1. CanLeft' = CanLeft
      BY <1>5 DEF CanLeft, Turns
    <2>2. CanShowsInTime'
      BY <1>1, <1>2, <1>5, <2>1, LeftIs, CanHasSizes, ShowsOn
    <2> QED BY <1>2, <1>4, <1>5, <2>2 DEF OneTry, CanInTimeParts
  <1>6. CASE \/ learned' = DalyBus!Learn /\ DalyBus!CommandOver
             \/ learned' = DalyBus!Learn /\ matched' = matched + 1 /\ UNCHANGED <<task, cmd, plan>>
    <2>1. learned' # {}
      BY <1>6 DEF DalyBus!Learn
    <2>2. /\ Len(cmd) \in Nat \ {0} /\ cmd \in Seq(DalyBus!Cmds) /\ matched \in Nat /\ Len(RunCmds) \in Nat
          /\ Window \in Nat
      BY <1>1, <1>2, CanHasSizes DEF CanTyped, CanTaskTyped
    <2>3. Len(cmd') \in Nat /\ Len(cmd') <= Len(cmd) /\ task' \in {"wait", "poll", "round"}
      BY <1>1, <1>6, <2>2, TailIs DEF DalyBus!CommandOver
    <2>4. CanRoundIs' = Len(RunCmds) + 3
      BY <2>1, <2>2 DEF CanRoundIs, Turns
    <2>5. CanLeft' <= Len(cmd') /\ CanLeft' \in Nat
      <3>1. CASE task' = "round"
        BY <2>3, <3>1 DEF CanLeft
      <3>2. CASE task' = "poll"
        BY <2>1, <2>3, <3>2 DEF CanLeft, Turns
      <3>3. CASE task' = "wait"
        <4>1. cmd' = cmd
          BY <1>1, <1>6, <3>3 DEF DalyBus!CommandOver
        <4> QED BY <2>1, <2>2, <3>3, <4>1 DEF CanLeft, Turns
      <3> QED BY <2>3, <3>1, <3>2, <3>3
    <2>6. CanShowsInTime'
      <3> SUFFICES ASSUME out'.have PROVE Len(cmd') <= Len(RunCmds) /\ heard' + CanLeft' <= Window + CanRoundIs'
        BY <2>3 DEF CanShowsInTime
      <3>1. Len(cmd) <= Len(RunCmds)
        BY <1>1, <1>2 DEF CanShowsInTime
      <3> HIDE DEF CanLeft, CanRoundIs
      <3> QED BY <1>1, <1>3, <2>2, <2>3, <2>4, <2>5, <3>1
    <2>7. OneTry'
      <3>1. CASE DalyBus!CommandOver
        BY <3>1, <2>3 DEF OneTry, DalyBus!CommandOver
      <3>2. CASE matched' = matched + 1 /\ task' = task
        <4>1. task' = "wait" /\ matched' # 0
          BY <1>1, <2>2, <3>2
        <4> QED BY <4>1 DEF OneTry
      <3>3. DalyBus!CommandOver \/ (matched' = matched + 1 /\ task' = task)
        BY <1>6
      <3> QED BY <3>1, <3>2, <3>3
    <2> QED BY <1>4, <2>6, <2>7 DEF CanInTimeParts
  <1> QED BY <1>5, <1>6, <1>0

\* At the end of a round what is shown is no older than the window and the lag.
LEMMA RoundInTime ==
    ASSUME CanInTime, CanTyped', bus' = "running", DalyBus!RoundEnds
    PROVE  CanInTimeParts
  <1>1. /\ task = "round" /\ UNCHANGED <<plan, matched, learned, rxq>> /\ cmd' = RunCmds
        /\ frame' = DalyBus!Grown(frame) /\ heard' = DalyBus!Grown(heard)
        /\ task' = IF frame' > Window THEN "sniff" ELSE "poll"
        /\ frame' > Window => out' = DalyBus!Nothing
    <2>1. UNCHANGED <<plan, matched, learned, rxq>> /\ task = "round" /\ cmd' = RunCmds
      BY DEF DalyBus!RoundEnds
    <2>2. frame' = DalyBus!Grown(frame) /\ heard' = DalyBus!Grown(heard)
      BY DEF DalyBus!RoundEnds, DalyBus!Tick
    <2>3. task' = IF frame' > Window THEN "sniff" ELSE "poll"
      BY DEF DalyBus!RoundEnds, DalyBus!TooOld
    <2>4. frame' > Window => out' = DalyBus!Nothing
      BY DEF DalyBus!RoundEnds, DalyBus!TooOld
    <2> QED BY <2>1, <2>2, <2>3, <2>4
  <1>2. CanTyped /\ CanLags /\ OneTry /\ CanShowsInTime
    BY DEF CanInTime
  <1>3. heard' <= frame' + 3 /\ heard' <= heard + 1 /\ heard' \in Nat /\ frame' \in Nat /\ heard \in Nat
    BY <1>1, <1>2, LagStays, CanHasSizes DEF CanLags
  <1>4. CanLags'
    <2>1. rxq # <<>> => heard <= 1
      BY <1>1, <1>2 DEF CanLags, QueuedFor
    <2>2. rxq' # <<>> => heard' <= 2
      BY <1>1, <1>3, <2>1
    <2>3. rxq' # <<>> => heard' <= QueuedFor'
      BY <1>1, <1>3, <2>2 DEF QueuedFor
    <2> QED BY <1>3, <2>3 DEF CanLags
  <1>5. matched' = 0
    <2>1. matched = 0
      BY <1>1, <1>2 DEF OneTry
    <2> QED BY <1>1, <2>1
  <1>6. CanShowsInTime'
    <2>1. CASE frame' > Window
      BY <1>1, <2>1 DEF CanShowsInTime, DalyBus!Nothing
    <2>2. CASE ~(frame' > Window)
      <3>1. Window \in Nat /\ Len(RunCmds) \in Nat /\ Turns(learned, Len(RunCmds)) \in Nat
        BY <1>2, CanHasSizes, TurnsAre
      <3>2. CanLeft' = Turns(learned, Len(RunCmds)) /\ CanRoundIs' = Turns(learned, Len(RunCmds)) + 3 /\ Len(cmd') <= Len(RunCmds)
        BY <1>1, <2>2, <3>1 DEF CanLeft, CanRoundIs, Turns
      <3>3. heard' <= Window + 3
        <4>1. Window \in Nat
          BY <3>1
        <4>2. frame' <= Window
          BY <1>3, <2>2, <4>1
        <4> QED BY <1>3, <4>1, <4>2, Lagging
      <3> HIDE DEF Turns
      <3> QED BY <1>1, <1>3, <2>2, <3>1, <3>2, <3>3 DEF CanShowsInTime
    <2> QED BY <2>1, <2>2
  <1>7. OneTry'
    BY <1>1, <1>5 DEF OneTry
  <1> QED BY <1>4, <1>6, <1>7 DEF CanInTimeParts

\* Frames that are read while nothing was asked, and the tick that ends that.
LEMMA SniffInTime ==
    ASSUME CanInTime, CanTyped', bus' = "running", DalyBus!SniffFrame \/ DalyBus!SniffEnds
    PROVE  CanInTimeParts
  <1>1. task = "sniff" /\ UNCHANGED <<matched, learned, out>> /\ task' \in {"sniff", "poll"}
    BY DEF DalyBus!SniffFrame, DalyBus!SniffEnds
  <1>2. CanTyped /\ CanLags /\ OneTry /\ CanShowsInTime
    BY DEF CanInTime
  <1>3. OneTry' /\ CanShowsInTime'
    BY <1>1, <1>2 DEF OneTry, CanShowsInTime
  <1>4. heard \in Nat /\ frame \in Nat /\ frame' \in Nat
    <2>1. frame' \in 0..DalyBus!MaxAge
      BY DEF CanTyped, CanDataTyped, DalyBus!MaxAge, DalyBus!LongRound
    <2> QED BY <1>2, <2>1, CanHasSizes
  <1>5. CASE DalyBus!SniffFrame
    <2>1. rxq # <<>> /\ heard' = heard /\ task' = "sniff"
      BY <1>5, <1>1 DEF DalyBus!SniffFrame
    <2>2. heard <= 2
      BY <1>1, <1>2, <2>1 DEF CanLags, QueuedFor
    <2>3. heard <= frame' + 3
      BY <1>4, <2>2, SmallLag
    <2> QED BY <1>3, <2>1, <2>2, <2>3 DEF CanLags, QueuedFor, CanInTimeParts
  <1>6. CASE DalyBus!SniffEnds
    <2>1. rxq' = rxq /\ heard' = DalyBus!Grown(heard) /\ frame' = DalyBus!Grown(frame) /\ task' = "poll"
      BY <1>6 DEF DalyBus!SniffEnds, DalyBus!Tick
    <2>2. heard' <= frame' + 3 /\ heard' <= heard + 1 /\ heard' \in Nat
      BY <1>2, <2>1, LagStays DEF CanLags
    <2>3. rxq # <<>> => heard <= 2
      BY <1>1, <1>2 DEF CanLags, QueuedFor
    <2>4. rxq' # <<>> => heard' <= 3
      BY <1>4, <2>1, <2>2, <2>3
    <2>5. rxq' # <<>> => heard' <= QueuedFor'
      BY <2>1, <2>4 DEF QueuedFor
    <2> QED BY <1>3, <2>2, <2>5 DEF CanLags, CanInTimeParts
  <1> QED BY <1>5, <1>6

\* The steps of the bus and of the battery leave the task alone; what comes is new.
LEMMA BusInTime ==
    ASSUME CanInTime, CanTyped', bus' = "running", UNCHANGED DalyBus!taskVars,
           heard' = 0 \/ UNCHANGED <<heard, rxq>>
    PROVE  CanInTimeParts
  <1>1. CanTyped /\ CanLags /\ OneTry /\ CanShowsInTime
    BY DEF CanInTime
  <1>2. UNCHANGED <<task, cmd, plan, matched, learned, out, frame>>
    BY DEF DalyBus!taskVars
  <1>3. heard \in Nat /\ frame \in Nat /\ heard' \in Nat /\ heard' <= heard
    <2>1. heard \in Nat /\ frame \in Nat
      BY <1>1, CanHasSizes
    <2> QED BY <2>1
  <1>4. CanLags'
    <2>1. heard' <= frame + 3
      BY <1>1, <1>3, Follows DEF CanLags
    <2>2. rxq' # <<>> => heard' <= QueuedFor
      BY <1>1, <1>3 DEF CanLags, QueuedFor
    <2> QED BY <1>2, <2>1, <2>2 DEF CanLags, QueuedFor
  <1>5. CanShowsInTime'
    <2>1. CanLeft' = CanLeft /\ CanLeft \in Nat
      BY <1>1, <1>2, LeftIs DEF CanLeft, Turns
    <2> HIDE DEF CanLeft
    <2>2. heard' + CanLeft' <= heard + CanLeft
      <3>1. CanLeft' \in Nat /\ CanLeft' <= CanLeft
        BY <2>1
      <3> QED BY <1>3, <2>1, <3>1, Sums
    <2>3. Len(cmd') \in Nat /\ Len(cmd') <= Len(cmd)
      BY <1>1, <1>2, CanHasSizes
    <2>4. task' # "sniff" => CanShowsInTime'
      BY <1>1, <1>2, <1>3, <2>1, <2>2, <2>3, ShowsOn
    <2>5. task' = "sniff" => ~out'.have
      BY <1>1, <1>2 DEF CanShowsInTime
    <2> QED BY <2>4, <2>5 DEF CanShowsInTime
  <1> QED BY <1>1, <1>2, <1>4, <1>5 DEF OneTry, CanInTimeParts

LEMMA CanStepInTime == CanInTime /\ [DalyBus!Next]_DalyBus!vars => CanInTime'
  <1> SUFFICES ASSUME CanInTime, [DalyBus!Next]_DalyBus!vars PROVE CanInTime'
    OBVIOUS
  <1>1. CanTyped' /\ CanTyped
    BY CanStepTyped DEF CanInTime
  <1>2. bus' = "running"
    BY BusStays DEF CanInTime, CanLags, DalyBus!vars, DalyBus!busVars
  <1>3. Undisturbed'
    BY DEF CanInTime, Undisturbed
  <1>4. CanInTimeParts
    <2> USE DEF DalyBus!envVars, DalyBus!busVars
    <2>1. CASE DalyBus!PollRuns \/ DalyBus!PollIsOff \/ DalyBus!Ask \/ DalyBus!AskFails
      <3>1. DalyBus!PollIsOff => FALSE
        BY BusStays DEF DalyBus!Next, DalyBus!Task, DalyBus!Poll
      <3> QED BY <1>1, <1>2, <2>1, <3>1, PollRunsInTime, AskInTime
    <2>2. CASE DalyBus!WaitFrame \/ DalyBus!WaitEnds
      BY <1>1, <1>2, <2>2, FrameInTime, WaitInTime
    <2>3. CASE DalyBus!SniffFrame \/ DalyBus!SniffEnds \/ DalyBus!RoundEnds
      BY <1>1, <1>2, <2>3, SniffInTime, RoundInTime
    <2>4. CASE DalyBus!Restart
      <3>1. /\ rxq' = <<>> /\ matched' = 0 /\ learned' = {} /\ out' = DalyBus!Nothing
            /\ frame' = DalyBus!MaxAge /\ heard' = heard
        BY <2>4 DEF DalyBus!Restart, DalyBus!Started
      <3>2. heard' <= frame' + 3
        <4>1. heard \in Nat /\ DalyBus!MaxAge \in Nat /\ heard <= DalyBus!MaxAge + 3
          BY <1>1, CanHasSizes
        <4> QED BY <3>1, <4>1
      <3>3. task' = "sniff"
        BY <2>4 DEF DalyBus!Restart, DalyBus!Started
      <3> QED BY <1>2, <3>1, <3>2, <3>3 DEF CanLags, OneTry, CanShowsInTime, DalyBus!Nothing, CanInTimeParts
    <2>5. CASE DalyBus!Arrive \/ DalyBus!Lose \/ DalyBus!AnswersOther \/ DalyBus!Swap
      <3>1. UNCHANGED DalyBus!taskVars /\ (heard' = 0 \/ UNCHANGED <<heard, rxq>>)
        BY <2>5 DEF DalyBus!Arrive, DalyBus!Lose, DalyBus!AnswersOther, DalyBus!Swap
      <3> QED BY <1>1, <1>2, <3>1, BusInTime
    <2>6. CASE DalyBus!Foreign \/ DalyBus!BusOff \/ DalyBus!BusRecovered
      <3>1. FALSE
        BY <2>6, BusStays DEF DalyBus!Next
      <3> QED BY <3>1
    <2>7. CASE UNCHANGED DalyBus!vars
      <3>1. UNCHANGED DalyBus!taskVars /\ UNCHANGED <<heard, rxq>>
        BY <2>7 DEF DalyBus!vars
      <3> QED BY <1>1, <1>2, <3>1, BusInTime
    <2> QED BY <2>1, <2>2, <2>3, <2>4, <2>5, <2>6, <2>7 DEF DalyBus!Next, DalyBus!Task, DalyBus!Poll
  <1> QED BY <1>1, <1>3, <1>4 DEF CanInTime, CanInTimeParts

\* The Daly source on CAN shows no battery that has been silent for longer than the window and the rounds
\* that its task takes to see it: one try of each command once the form is learned, every form at every
\* address before (dalyCanTask, dalyCanPollCommand); for every list of commands, targets and forms, and
\* whatever answers are lost, late or to others, and whatever sending fails. While the controller is off the
\* task does not read what it had received, so it must stay on; and the requests of other devices keep a
\* snapshot fresh without a word of the battery.
THEOREM CanClearsTheSilent == CanAssumed /\ Undisturbed /\ DalyBus!Spec => []DalyBus!SilentIsCleared
  <1>1. CanInTime => DalyBus!SilentIsCleared
    <2> SUFFICES ASSUME CanInTime, out.have PROVE DalyBus!SilentIsCleared
      BY DEF DalyBus!SilentIsCleared
    <2>1. heard + CanLeft <= Window + CanRoundIs /\ CanTyped
      BY DEF CanInTime, CanShowsInTime
    <2>2. heard \in Nat /\ CanLeft \in Nat /\ Window \in Nat /\ CanRoundIs \in Nat /\ Tries \in Nat
          /\ Len(RunCmds) \in Nat /\ CanSizes
      BY <2>1, LeftIs, RoundIsNat, CanHasSizes
    <2>3. heard <= Window + CanRoundIs
      <3> HIDE DEF CanLeft, CanRoundIs
      <3> QED BY <2>1, <2>2
    <2>4. CanRoundIs = IF learned # {} THEN Len(RunCmds) + 3 ELSE Len(RunCmds) * Tries + 3
      <3>1. Len(RunCmds) * 1 = Len(RunCmds)
        BY <2>2
      <3> QED BY <3>1 DEF CanRoundIs, Turns
    <2>5. DalyBus!LongRound + 1 = Len(RunCmds) * Tries + 3
      <3>1. Len(RunCmds) \in Nat /\ Len(Targets) \in Nat /\ Len(Variants) \in Nat
        BY <2>2 DEF CanSizes
      <3>2. Len(RunCmds) * Len(Targets) * Len(Variants) = Len(RunCmds) * Tries
        BY <3>1 DEF Tries
      <3>3. Len(RunCmds) * Tries \in Nat
        BY <2>2
      <3> QED BY <3>2, <3>3 DEF DalyBus!LongRound
    <2> QED BY <2>3, <2>4, <2>5 DEF DalyBus!SilentIsCleared
  <1>2. CanAssumed /\ Undisturbed /\ DalyBus!Init => CanInTime
    BY CanStartsInTime
  <1>3. CanInTime /\ [DalyBus!Next]_DalyBus!vars => CanInTime'
    BY CanStepInTime
  <1> QED BY <1>1, <1>2, <1>3, PTL DEF DalyBus!Spec

-----------------------------------------------------------------------------
(* The Daly source on RS485.                                               *)

CONSTANTS
    ModbusAddrs, ClassicAddrs, Timeout, Idle, MinCells

VARIABLES
    any, left, hard, partial

DalyLine == INSTANCE DalyRs485 WITH Stale <- Window, pc <- task, snap <- record

\* Every battery only knows blocks and has cells enough for them to be taken for cells, and no bit of a
\* block is wrong: at the deadline a block is taken whatever its checksum.
OnlyBlocks ==
    /\ MaxCells \in Nat \ {0} /\ MinCells \in Nat
    /\ "damaged" \notin Harms
    /\ \A b \in Batteries : b.classic = {} /\ b.n \in Nat \ {0} /\ b.n >= MinCells

Snapshots ==
    [valid : BOOLEAN, soc : SUBSET Nat, range : SUBSET (Nat \X Nat), cells : [1..MaxCells -> Nat],
     count : 0..MaxCells, temps : BOOLEAN]

\* What a snapshot or a packet holds is of the generation g of the battery.
IsOf(g, mvs, extremes, n) ==
    /\ \A i \in 1..n : mvs[i] = 10 * g + i
    /\ \A r \in extremes : r = <<10 * g + 1, 10 * g + n>>

Least(n) == IF n <= MaxCells THEN n ELSE MaxCells

\* A block, whole or in part, is of one generation.
IsBlock(a) ==
    /\ DOMAIN a = {"state", "kind", "n", "val", "mvs"}
    /\ a.kind = "modbus" /\ a.state \in {"whole", "cut", "short", "blank"}
    /\ a.n \in Nat \ {0} /\ a.n >= MinCells /\ a.val \in Nat
    /\ a.mvs = [i \in 1..Least(a.n) |-> 10 * a.val + i]

SnapshotIsOfOne(s) == s \in Snapshots /\ \A g \in s.soc : IsOf(g, s.cells, s.range, s.count)

PacketIsOfOne(p) ==
    /\ p.soc \subseteq Nat
    /\ \E c \in 0..MaxCells : /\ DOMAIN p.cells = 1..c /\ Len(p.cells) = c
                              /\ \A g \in p.soc : IsOf(g, p.cells, p.range, c)

LineInv ==
    /\ OnlyBlocks
    /\ battery \in Batteries /\ gen \in Nat
    /\ SnapshotIsOfOne(record) /\ PacketIsOfOne(out)
    /\ air # DalyLine!NoAnswer => IsBlock(air)
    /\ \A a \in partial : IsBlock(a)

LEMMA Clamps ==
    ASSUME OnlyBlocks, NEW n \in Nat \ {0}
    PROVE  DalyLine!Clamped(n) = Least(n) /\ Least(n) \in 1..MaxCells
  <1> DEFINE S == {n, MaxCells}
  <1>1. DalyLine!Clamped(n) = CHOOSE x \in S : \A y \in S : x <= y
    BY DEF DalyLine!Clamped, DalyLine!Min
  <1>2. Least(n) \in S /\ \A x \in S : (\A y \in S : x <= y) <=> x = Least(n)
    BY DEF OnlyBlocks, Least
  <1> QED BY <1>1, <1>2 DEF OnlyBlocks, Least

\* The invariant after a step, part by part.
LEMMA LineParts ==
    ASSUME OnlyBlocks, battery' \in Batteries, gen' \in Nat,
           SnapshotIsOfOne(record'), PacketIsOfOne(out'),
           air' # DalyLine!NoAnswer => IsBlock(air'),
           \A a \in partial' : IsBlock(a)
    PROVE  LineInv'
  BY DEF LineInv, OnlyBlocks, SnapshotIsOfOne, PacketIsOfOne, IsBlock, IsOf, Least, Snapshots, DalyLine!NoAnswer

LEMMA EmptyPacket == OnlyBlocks => PacketIsOfOne(DalyLine!Nothing)
  <1> SUFFICES ASSUME OnlyBlocks PROVE PacketIsOfOne(DalyLine!Nothing)
    OBVIOUS
  <1> DEFINE p == DalyLine!Nothing
  <1>1. p.soc = {} /\ DOMAIN p.cells = 1..0 /\ Len(p.cells) = 0
    BY DEF DalyLine!Nothing
  <1>2. 0 \in 0..MaxCells
    BY DEF OnlyBlocks
  <1> QED BY <1>1, <1>2 DEF PacketIsOfOne

LEMMA EmptySnapshot == OnlyBlocks => SnapshotIsOfOne(DalyLine!NoSnapshot)
  BY DEF DalyLine!NoSnapshot, SnapshotIsOfOne, Snapshots, OnlyBlocks

LEMMA LineStarts == OnlyBlocks /\ DalyLine!Init => LineInv
  BY EmptyPacket, EmptySnapshot DEF DalyLine!Init, LineInv

\* The lowest and the highest of the cells of one generation.
LEMMA ExtremesOfOne ==
    ASSUME NEW g \in Nat, NEW c \in Nat \ {0}
    PROVE  LET mvs == {10 * g + i : i \in 1..c}
           IN DalyLine!Lowest(mvs) = 10 * g + 1 /\ DalyLine!Highest(mvs) = 10 * g + c
  <1> DEFINE mvs == {10 * g + i : i \in 1..c}
  <1>1. 10 * g + 1 \in mvs /\ 10 * g + c \in mvs
    OBVIOUS
  <1>2. \A m \in mvs : m \in Nat /\ 10 * g + 1 <= m /\ m <= 10 * g + c
    OBVIOUS
  <1> HIDE DEF mvs
  <1>3. \A m \in mvs : (\A n \in mvs : m <= n) => m = 10 * g + 1
    BY <1>1, <1>2
  <1>4. \A m \in mvs : (\A n \in mvs : n <= m) => m = 10 * g + c
    BY <1>1, <1>2
  <1>5. DalyLine!Lowest(mvs) = 10 * g + 1
    <2>1. DalyLine!Lowest(mvs) = CHOOSE m \in mvs : \A n \in mvs : m <= n
      BY DEF DalyLine!Lowest
    <2> QED BY <2>1, <1>1, <1>2, <1>3
  <1>6. DalyLine!Highest(mvs) = 10 * g + c
    <2>1. DalyLine!Highest(mvs) = CHOOSE m \in mvs : \A n \in mvs : n <= m
      BY DEF DalyLine!Highest
    <2> QED BY <2>1, <1>1, <1>2, <1>4
  <1> QED BY <1>5, <1>6 DEF mvs

\* A block replaces the cells, their extremes and the state of charge together.
LEMMA BlockReplaces ==
    ASSUME OnlyBlocks, NEW q, SnapshotIsOfOne(q), NEW a, IsBlock(a)
    PROVE  SnapshotIsOfOne(DalyLine!DecodeBlock(q, a))
  <1> DEFINE s == DalyLine!DecodeBlock(q, a)
             c == Least(a.n)
             d == DalyLine!CellsOf(q, a)
             e == DalyLine!Extremes(d, 1..d.count)
             o == [e EXCEPT !.soc = {a.val}]
             t == IF a.state = "cut" THEN o ELSE [o EXCEPT !.temps = TRUE]
             r == <<10 * a.val + 1, 10 * a.val + c>>
  <1>1. c \in 1..MaxCells /\ c \in Nat \ {0} /\ DalyLine!Clamped(a.n) = c /\ a.val \in Nat /\ MaxCells \in Nat
    BY Clamps DEF IsBlock, OnlyBlocks
  <1>2. CASE a.state = "blank"
    <2>1. s = q \/ s = [[q EXCEPT !.temps = TRUE] EXCEPT !.valid = TRUE]
          \/ s = [q EXCEPT !.valid = TRUE]
      BY <1>2 DEF DalyLine!DecodeBlock
    <2> QED BY <2>1 DEF SnapshotIsOfOne, Snapshots
  <1>3. CASE a.state # "blank"
    <2>1. s = [t EXCEPT !.valid = TRUE]
      <3>1. ~(a.n < MinCells)
        BY DEF IsBlock, OnlyBlocks
      <3> QED BY <1>3, <3>1 DEF DalyLine!DecodeBlock, DalyLine!Updates
    <2>2. d = [[q EXCEPT !.cells = [i \in 1..MaxCells |-> IF i \in 1..c THEN 10 * a.val + i ELSE q.cells[i]]]
               EXCEPT !.count = c]
      BY <1>1 DEF DalyLine!CellsOf, IsBlock
    <2>3. /\ d \in Snapshots /\ d.count = c
          /\ \A i \in 1..c : d.cells[i] = 10 * a.val + i
      <3> DEFINE f == [i \in 1..MaxCells |-> IF i \in 1..c THEN 10 * a.val + i ELSE q.cells[i]]
      <3> HIDE DEF c, d
      <3>1. q \in Snapshots /\ q.cells \in [1..MaxCells -> Nat]
        BY DEF SnapshotIsOfOne, Snapshots
      <3>2. f \in [1..MaxCells -> Nat] /\ \A i \in 1..c : f[i] = 10 * a.val + i
        BY <1>1, <3>1
      <3> HIDE DEF f
      <3>3. d = [[q EXCEPT !.cells = f] EXCEPT !.count = c]
        BY <2>2 DEF f
      <3>4. q = [valid |-> q.valid, soc |-> q.soc, range |-> q.range, cells |-> q.cells, count |-> q.count,
                 temps |-> q.temps]
        BY <3>1 DEF Snapshots
      <3>5. d = [valid |-> q.valid, soc |-> q.soc, range |-> q.range, cells |-> f, count |-> c,
                 temps |-> q.temps]
        BY <3>3, <3>4
      <3>6. c \in 0..MaxCells /\ q.valid \in BOOLEAN /\ q.soc \in SUBSET Nat /\ q.temps \in BOOLEAN
            /\ q.range \in SUBSET (Nat \X Nat)
        BY <1>1, <3>1 DEF Snapshots
      <3>7. d.cells = f /\ d.count = c /\ d \in Snapshots
        BY <3>2, <3>5, <3>6 DEF Snapshots
      <3> QED BY <3>2, <3>7
    <2> HIDE DEF d, c
    <2>4. {d.cells[i] : i \in 1..d.count} = {10 * a.val + i : i \in 1..c}
      BY <2>3
    <2>5. e = [d EXCEPT !.range = {r}]
      <3>1. 1 \in 1..d.count
        BY <1>1, <2>3
      <3>2. DalyLine!Lowest({10 * a.val + i : i \in 1..c}) = 10 * a.val + 1
            /\ DalyLine!Highest({10 * a.val + i : i \in 1..c}) = 10 * a.val + c
        BY <1>1, ExtremesOfOne
      <3> QED BY <2>4, <3>1, <3>2 DEF DalyLine!Extremes
    <2>6. r \in Nat \X Nat
      BY <1>1
    <2> HIDE DEF e, r, s
    <2>7. e \in Snapshots /\ e.cells = d.cells /\ e.count = d.count /\ e.range = {r}
      BY <2>3, <2>5, <2>6 DEF Snapshots
    <2>8. o \in Snapshots /\ o.soc = {a.val} /\ o.cells = e.cells /\ o.count = e.count /\ o.range = e.range
      BY <2>7, <1>1 DEF Snapshots
    <2> HIDE DEF o
    <2>9. s \in Snapshots /\ s.soc = {a.val} /\ s.cells = e.cells /\ s.count = e.count /\ s.range = {r}
      BY <2>1, <2>7, <2>8 DEF Snapshots
    <2> QED BY <2>3, <2>7, <2>9 DEF SnapshotIsOfOne, IsOf, r, s
  <1> QED BY <1>2, <1>3

\* A packet of the snapshot holds what the snapshot holds.
LEMMA PacketIsOf ==
    ASSUME OnlyBlocks, NEW q, SnapshotIsOfOne(q)
    PROVE  PacketIsOfOne(DalyLine!Packet(q))
  <1> DEFINE p == DalyLine!Packet(q)
             c == q.count
  <1>1. c \in 0..MaxCells /\ c \in Nat /\ q.soc \subseteq Nat
    BY DEF SnapshotIsOfOne, Snapshots, OnlyBlocks
  <1>2. p.cells = [i \in 1..c |-> q.cells[i]] /\ p.soc = q.soc /\ p.range = q.range
    BY DEF DalyLine!Packet
  <1> HIDE DEF p
  <1>3. DOMAIN p.cells = 1..c /\ Len(p.cells) = c
    BY <1>1, <1>2
  <1>4. \A g \in p.soc : IsOf(g, p.cells, p.range, c)
    BY <1>2 DEF SnapshotIsOfOne, IsOf
  <1> QED BY <1>1, <1>2, <1>3, <1>4 DEF PacketIsOfOne, p

LEMMA LineStep == LineInv /\ [DalyLine!Next]_(DalyLine!vars) => LineInv'
  <1> SUFFICES ASSUME LineInv, [DalyLine!Next]_(DalyLine!vars) PROVE LineInv'
    OBVIOUS
  <1>0. /\ OnlyBlocks /\ battery \in Batteries /\ gen \in Nat
        /\ SnapshotIsOfOne(record) /\ PacketIsOfOne(out)
        /\ air # DalyLine!NoAnswer => IsBlock(air)
        /\ \A a \in partial : IsBlock(a)
    BY DEF LineInv
  <1>a. ASSUME UNCHANGED <<record, out>>, battery' \in Batteries, gen' \in Nat,
               air' \in {air, DalyLine!NoAnswer}, partial' \in {partial, {}}
        PROVE  LineInv'
    BY <1>0, <1>a, LineParts
  <1>1. CASE DalyLine!Ask
    <2>1. UNCHANGED <<record, out, battery, gen>> /\ partial' = {}
          /\ air' = (IF DalyLine!Understood(Head(plan)) THEN DalyLine!AnswerTo(Head(plan))
                     ELSE DalyLine!NoAnswer)
      BY <1>1 DEF DalyLine!Ask, DalyLine!dataVars, DalyLine!envVars
    <2>2. CASE ~DalyLine!Understood(Head(plan))
      BY <2>1, <2>2, <1>0, <1>a
    <2>3. CASE DalyLine!Understood(Head(plan))
      <3>1. Head(plan).kind = "modbus" /\ battery.n \in Nat \ {0} /\ battery.n >= MinCells
        BY <2>3, <1>0 DEF DalyLine!Understood, OnlyBlocks
      <3>2. DalyLine!Clamped(battery.n) = Least(battery.n)
        BY <3>1, <1>0, Clamps
      <3>3. air' = [state |-> "whole", kind |-> "modbus", n |-> battery.n, val |-> gen,
                    mvs |-> [i \in 1..Least(battery.n) |-> 10 * gen + i]]
        BY <2>1, <2>3, <3>1, <3>2 DEF DalyLine!AnswerTo, DalyLine!Mv
      <3>4. IsBlock(air')
        BY <3>1, <3>3, <1>0 DEF IsBlock
      <3> QED BY <2>1, <3>4, <1>0, LineParts
    <2> QED BY <2>2, <2>3
  <1>2. CASE DalyLine!WriteFails \/ DalyLine!Enough
    BY <1>2, <1>0, <1>a
       DEF DalyLine!WriteFails, DalyLine!Enough, DalyLine!Over, DalyLine!dataVars, DalyLine!envVars
  <1>3. CASE DalyLine!ReadBlock
    <2>1. air' = DalyLine!NoAnswer /\ UNCHANGED <<battery, gen>> /\ IsBlock(air)
      BY <1>3, <1>0 DEF DalyLine!ReadBlock, DalyLine!Coming, DalyLine!envVars
    <2>2. CASE UNCHANGED <<record, out>> /\ partial' = {air}
      BY <2>1, <2>2, <1>0, LineParts
    <2>3. CASE DalyLine!TakeBlock(air) /\ partial' = {}
      <3>1. record' = DalyLine!DecodeBlock(record, air) /\ out' = out
        BY <2>3 DEF DalyLine!TakeBlock
      <3>2. SnapshotIsOfOne(record')
        BY <1>0, <2>1, <3>1, BlockReplaces
      <3> QED BY <2>1, <2>3, <3>1, <3>2, <1>0, LineParts
    <2> QED BY <1>3, <2>2, <2>3 DEF DalyLine!ReadBlock, DalyLine!Over, DalyLine!dataVars
  <1>4. CASE DalyLine!ReadClassic
    BY <1>4, <1>0 DEF DalyLine!ReadClassic, DalyLine!Coming, IsBlock
  <1>5. CASE DalyLine!Waits
    BY <1>5, <1>0, <1>a DEF DalyLine!Waits, DalyLine!envVars
  <1>6. CASE DalyLine!WaitEnds
    <2>1. UNCHANGED <<air, battery, gen>> /\ partial' = {}
      BY <1>6 DEF DalyLine!WaitEnds, DalyLine!Over, DalyLine!envVars
    <2>2. CASE \E a \in partial : DalyLine!Partial(a)
      <3> DEFINE b == CHOOSE a \in partial : TRUE
      <3>1. record' = DalyLine!DecodeBlock(record, b) /\ out' = out
        BY <1>6, <2>2 DEF DalyLine!WaitEnds, DalyLine!TakeBlock
      <3>2. IsBlock(b)
        BY <2>2, <1>0
      <3> HIDE DEF b
      <3>3. SnapshotIsOfOne(record')
        BY <1>0, <3>1, <3>2, BlockReplaces
      <3> QED BY <2>1, <3>1, <3>3, <1>0, LineParts
    <2>3. CASE ~ \E a \in partial : DalyLine!Partial(a)
      <3>1. UNCHANGED <<record, out>>
        BY <1>6, <2>3 DEF DalyLine!WaitEnds
      <3> QED BY <2>1, <3>1, <1>0, <1>a
    <2> QED BY <2>2, <2>3
  <1>7. CASE DalyLine!RoundEnds
    <2>1. UNCHANGED <<record, partial, air, battery, gen>>
          /\ out' \in {DalyLine!Nothing, DalyLine!Packet(record), out}
      BY <1>7 DEF DalyLine!RoundEnds, DalyLine!winVars, DalyLine!envVars
    <2>2. PacketIsOfOne(out')
      BY <2>1, <1>0, EmptyPacket, PacketIsOf
    <2> QED BY <2>1, <2>2, <1>0, LineParts
  <1>8. CASE DalyLine!Restart
    <2>1. record' = DalyLine!NoSnapshot /\ out' = DalyLine!Nothing /\ air' = DalyLine!NoAnswer /\ partial' = {}
          /\ UNCHANGED <<battery, gen>>
      BY <1>8 DEF DalyLine!Restart, DalyLine!Cleared
    <2> QED BY <2>1, <1>0, EmptyPacket, EmptySnapshot, LineParts
  <1>9. CASE DalyLine!Lose
    BY <1>9, <1>0, <1>a DEF DalyLine!Lose, DalyLine!winVars, DalyLine!dataVars, DalyLine!envVars
  <1>10. CASE DalyLine!SpoilBlock \/ DalyLine!SpoilClassic
    <2>1. PICK h \in {"damaged", "cut", "short", "blank", "noise"} :
             (DalyLine!Spoil("modbus", h) /\ h # "noise") \/ DalyLine!Spoil("classic", h)
      BY <1>10 DEF DalyLine!SpoilBlock, DalyLine!SpoilClassic
    <2>2. h \in Harms /\ air # DalyLine!NoAnswer /\ UNCHANGED <<record, out, partial, battery, gen>>
      BY <2>1 DEF DalyLine!Spoil, DalyLine!Harm, DalyLine!Coming, DalyLine!winVars, DalyLine!dataVars,
                  DalyLine!envVars
    <2>3. IsBlock(air) /\ h # "damaged"
      BY <2>2, <1>0 DEF OnlyBlocks
    <2>4. h # "noise" /\ air' = [air EXCEPT !.state = h]
      BY <2>1, <2>3 DEF DalyLine!Spoil, IsBlock
    <2>5. IsBlock(air')
      BY <2>3, <2>4 DEF IsBlock
    <2> QED BY <2>2, <2>5, <1>0, LineParts
  <1>11. CASE DalyLine!Babble
    BY <1>11, <1>0, <1>a DEF DalyLine!Babble, DalyLine!dataVars, DalyLine!envVars
  <1>12. CASE DalyLine!Swap
    BY <1>12, <1>0, <1>a DEF DalyLine!Swap, DalyLine!winVars, DalyLine!dataVars
  <1>13. CASE UNCHANGED DalyLine!vars
    BY <1>13, <1>0, <1>a DEF DalyLine!vars, DalyLine!winVars, DalyLine!dataVars, DalyLine!envVars
  <1> QED BY <1>1, <1>2, <1>3, <1>4, <1>5, <1>6, <1>7, <1>8, <1>9, <1>10, <1>11, <1>12, <1>13
          DEF DalyLine!Next, DalyLine!Read, DalyLine!Wait, DalyLine!Harmed

\* The packet of the Daly source on RS485 holds cells, extremes and a state of charge of one battery at
\* one time: whatever answers are lost, cut off behind or before the state of charge, empty, or not asked
\* for because a write failed, and whatever battery is put in place of another, with more cells or fewer
\* (dalyDecodeModbusRegisters replaces all of them together).
THEOREM BlockIsShownWholeAlways == OnlyBlocks /\ DalyLine!Spec => []DalyLine!BlockIsShownWhole
  <1>1. LineInv => DalyLine!BlockIsShownWhole
    BY DEF LineInv, PacketIsOfOne, IsOf, DalyLine!BlockIsShownWhole
  <1> QED BY <1>1, LineStarts, LineStep, PTL DEF DalyLine!Spec

-----------------------------------------------------------------------------
(* The same source with every battery: what its task asks for, and how     *)
(* long that takes.                                                        *)

LineAssumed == DalyLine!CellsAssumption /\ DalyLine!Rs485Assumption

\* The assumptions, as they are used.
LineSizes ==
    /\ MaxCells \in Nat \ {0} /\ FirstNo \in {0, 1}
    /\ Len(InitCmds) \in Nat \ {0} /\ \A i \in 1..Len(InitCmds) : InitCmds[i] \in DalyBus!Cmds
    /\ Len(RunCmds) \in Nat \ {0} /\ \A i \in 1..Len(RunCmds) : RunCmds[i] \in DalyBus!Cmds
    /\ Len(ModbusAddrs) \in Nat \ {0} /\ \A i \in 1..Len(ModbusAddrs) : ModbusAddrs[i] \in STRING
    /\ DOMAIN ModbusAddrs = 1..Len(ModbusAddrs)
    /\ Len(ClassicAddrs) \in Nat \ {0} /\ \A i \in 1..Len(ClassicAddrs) : ClassicAddrs[i] \in STRING
    /\ Window \in Nat /\ Timeout \in Nat /\ Idle \in Nat /\ 0 < Idle /\ Idle <= Timeout
    /\ MinCells \in Nat /\ Odd \in Nat /\ MaxFaults \in Nat /\ MaxSwaps \in Nat
    /\ \A b \in Batteries : b.n \in Nat

LEMMA SeqHas ==
    ASSUME NEW S, NEW q \in Seq(S), q # <<>>
    PROVE  Len(q) \in Nat \ {0} /\ DOMAIN q = 1..Len(q) /\ \A i \in 1..Len(q) : q[i] \in S
  OBVIOUS

LEMMA LineSizesAre == LineAssumed => LineSizes
  <1> SUFFICES ASSUME LineAssumed PROVE LineSizes
    OBVIOUS
  <1>1. /\ InitCmds \in Seq(DalyLine!Cmds) /\ RunCmds \in Seq(DalyLine!Cmds)
        /\ InitCmds # <<>> /\ RunCmds # <<>>
        /\ ModbusAddrs \in Seq(STRING) /\ ClassicAddrs \in Seq(STRING)
        /\ ModbusAddrs # <<>> /\ ClassicAddrs # <<>>
        /\ {Window, Timeout, Idle, MinCells, Odd, MaxFaults, MaxSwaps} \subseteq Nat
        /\ 0 < Idle /\ Idle <= Timeout
        /\ Batteries \subseteq [modbus : SUBSET STRING, classic : SUBSET STRING, n : Nat]
    BY DEF LineAssumed, DalyLine!Rs485Assumption
  <1>2. MaxCells \in Nat \ {0} /\ FirstNo \in {0, 1}
    BY DEF LineAssumed, DalyLine!CellsAssumption
  <1>3. DalyLine!Cmds = DalyBus!Cmds
    BY DEF DalyLine!Cmds, DalyBus!Cmds
  <1>4. Len(InitCmds) \in Nat \ {0} /\ \A i \in 1..Len(InitCmds) : InitCmds[i] \in DalyBus!Cmds
    BY <1>1, <1>3, SeqHas
  <1>5. Len(RunCmds) \in Nat \ {0} /\ \A i \in 1..Len(RunCmds) : RunCmds[i] \in DalyBus!Cmds
    BY <1>1, <1>3, SeqHas
  <1>6. Len(ModbusAddrs) \in Nat \ {0} /\ (\A i \in 1..Len(ModbusAddrs) : ModbusAddrs[i] \in STRING)
        /\ DOMAIN ModbusAddrs = 1..Len(ModbusAddrs)
    BY <1>1, SeqHas
  <1>7. Len(ClassicAddrs) \in Nat \ {0} /\ \A i \in 1..Len(ClassicAddrs) : ClassicAddrs[i] \in STRING
    BY <1>1, SeqHas
  <1>8. \A b \in Batteries : b.n \in Nat
    BY <1>1
  <1>9. Window \in Nat /\ Timeout \in Nat /\ Idle \in Nat /\ MinCells \in Nat /\ Odd \in Nat
        /\ MaxFaults \in Nat /\ MaxSwaps \in Nat
    BY <1>1
  <1> HIDE DEF LineAssumed
  <1> QED BY <1>1, <1>2, <1>4, <1>5, <1>6, <1>7, <1>8, <1>9 DEF LineSizes

LineRequests == [kind : {"modbus", "classic"}, cmd : DalyBus!Cmds \cup {"block"}, addr : STRING]

\* A plan: m requests for a block, and then classic ones only.
PlanHas(q, m) ==
    /\ q \in Seq(LineRequests) /\ m \in 0..Len(q)
    /\ \A i \in 1..Len(q) : q[i].kind = "modbus" <=> i <= m

\* The ticks that n requests, m of them for a block, may take.
Work(n, m) == 2 * Timeout * m + (n - m)

LEMMA WorkIs ==
    ASSUME LineSizes, NEW n \in Nat, NEW m \in 0..n
    PROVE  /\ Work(n, m) \in Nat /\ 2 * Timeout * m \in Nat
           /\ m > 0 => n - 1 \in Nat /\ m - 1 \in 0..(n - 1) /\ Work(n, m) = 2 * Timeout + Work(n - 1, m - 1)
           /\ m = 0 => Work(n, m) = n
  <1> DEFINE t == 2 * Timeout
  <1>1. t \in Nat
    BY DEF LineSizes
  <1>2. Work(n, m) = t * m + (n - m) /\ Work(n - 1, m - 1) = t * (m - 1) + ((n - 1) - (m - 1))
    BY DEF Work
  <1> HIDE DEF t
  <1>3. t * m \in Nat /\ t * 0 = 0
    BY <1>1
  <1>4. t * m = t + t * (m - 1)
    BY <1>1
  <1>5. Work(n, m) \in Nat
    BY <1>2, <1>3
  <1>6. m = 0 => Work(n, m) = n
    BY <1>2, <1>3
  <1>7. ASSUME m > 0
        PROVE  n - 1 \in Nat /\ m - 1 \in 0..(n - 1) /\ Work(n, m) = t + Work(n - 1, m - 1)
    <2>1. t * (m - 1) \in Nat
      BY <1>1, <1>7
    <2>2. n - 1 \in Nat /\ m - 1 \in 0..(n - 1) /\ (n - 1) - (m - 1) = n - m /\ n - m \in Nat
      BY <1>7
    <2> DEFINE x == t * m
               y == t * (m - 1)
    <2>3. Work(n, m) = x + (n - m) /\ Work(n - 1, m - 1) = y + (n - m) /\ x = t + y /\ y \in Nat
      BY <1>2, <1>4, <2>1, <2>2
    <2> HIDE DEF x, y
    <2>4. Work(n, m) = t + Work(n - 1, m - 1)
      BY <1>1, <2>2, <2>3
    <2> QED BY <2>2, <2>4
  <1> QED BY <1>3, <1>5, <1>6, <1>7 DEF t

Behind(m) == IF m > 0 THEN m - 1 ELSE 0

LEMMA TailHas ==
    ASSUME NEW q, NEW m, PlanHas(q, m), q # <<>>
    PROVE  /\ q[1] \in LineRequests /\ (q[1].kind = "modbus" <=> m > 0)
           /\ Len(q) \in Nat \ {0} /\ Len(Tail(q)) = Len(q) - 1 /\ PlanHas(Tail(q), Behind(m))
  <1>1. q \in Seq(LineRequests) /\ m \in 0..Len(q) /\ \A i \in 1..Len(q) : q[i].kind = "modbus" <=> i <= m
    BY DEF PlanHas
  <1>2. Len(q) \in Nat \ {0} /\ Tail(q) \in Seq(LineRequests) /\ Len(Tail(q)) = Len(q) - 1
    BY <1>1, TailIs
  <1>3. \A i \in 1..Len(Tail(q)) : Tail(q)[i] = q[i + 1]
    BY <1>1, <1>2
  <1>4. q[1] \in LineRequests /\ (q[1].kind = "modbus" <=> m > 0)
    BY <1>1, <1>2
  <1>5. Behind(m) \in 0..Len(Tail(q))
    BY <1>1, <1>2 DEF Behind
  <1>6. ASSUME NEW i \in 1..Len(Tail(q)) PROVE Tail(q)[i].kind = "modbus" <=> i <= Behind(m)
    <2>1. Tail(q)[i] = q[i + 1] /\ i + 1 \in 1..Len(q)
      BY <1>2, <1>3
    <2>2. q[i + 1].kind = "modbus" <=> i + 1 <= m
      BY <1>1, <2>1
    <2>3. i + 1 <= m <=> i <= Behind(m)
      BY <1>1, <1>2 DEF Behind
    <2> QED BY <2>1, <2>2, <2>3
  <1> QED BY <1>2, <1>4, <1>5, <1>6 DEF PlanHas

\* What is left of a plan of classic requests.
LEMMA RestHas ==
    ASSUME NEW q, PlanHas(q, 0), NEW k \in 2..Len(q)
    PROVE  Len(SubSeq(q, k, Len(q))) \in Nat /\ Len(SubSeq(q, k, Len(q))) <= Len(q) - 1
           /\ PlanHas(SubSeq(q, k, Len(q)), 0)
  <1> DEFINE s == SubSeq(q, k, Len(q))
  <1>1. q \in Seq(LineRequests) /\ Len(q) \in Nat /\ \A i \in 1..Len(q) : q[i].kind # "modbus"
    BY DEF PlanHas
  <1>2. s \in Seq(LineRequests) /\ Len(s) = Len(q) - k + 1
    BY <1>1
  <1>3. \A i \in 1..Len(s) : s[i] = q[i + k - 1] /\ i + k - 1 \in 1..Len(q)
    BY <1>1, <1>2
  <1> HIDE DEF s
  <1>4. \A i \in 1..Len(s) : s[i].kind # "modbus"
    BY <1>1, <1>3
  <1>5. Len(s) \in Nat /\ Len(s) <= Len(q) - 1
    BY <1>1, <1>2
  <1>6. PlanHas(s, 0)
    BY <1>2, <1>4, <1>5 DEF PlanHas
  <1> QED BY <1>5, <1>6 DEF s

LEMMA LeastIsIn ==
    ASSUME NEW T \in SUBSET Nat, T # {}
    PROVE  DalyLine!Min(T) \in T
  <1>1. PICK m \in T : \A n \in T : m <= n
    BY LeastNumber
  <1>2. DalyLine!Min(T) = CHOOSE x \in T : \A y \in T : x <= y
    BY DEF DalyLine!Min
  <1> QED BY <1>1, <1>2

LEMMA NonePlanned == PlanHas(<<>>, 0)
  BY DEF PlanHas

\* Whether or not the request was answered, what is left takes no longer than all the requests behind it.
LEMMA RemainingHas ==
    ASSUME LineSizes, NEW m, PlanHas(plan, m), plan # <<>>, NEW a \in BOOLEAN
    PROVE  \E k : /\ PlanHas(DalyLine!Remaining(a), k)
                  /\ Work(Len(DalyLine!Remaining(a)), k) <= Work(Len(plan) - 1, Behind(m))
  <1> DEFINE others == {i \in DOMAIN plan : ~DalyLine!Same(plan[i], Head(plan))}
             r      == DalyLine!Remaining(a)
             rest   == SubSeq(plan, DalyLine!Min(others), Len(plan))
  <1>1. /\ Len(plan) \in Nat \ {0} /\ Len(Tail(plan)) = Len(plan) - 1 /\ PlanHas(Tail(plan), Behind(m))
        /\ plan[1].kind = "modbus" <=> m > 0
    BY TailHas
  <1>2. Work(Len(plan) - 1, Behind(m)) \in Nat /\ Behind(m) \in 0..(Len(plan) - 1)
    <2>1. Behind(m) \in 0..(Len(plan) - 1)
      BY <1>1 DEF PlanHas
    <2> QED BY <1>1, <2>1, WorkIs
  <1>3. Head(plan) = plan[1] /\ plan \in Seq(LineRequests) /\ DOMAIN plan = 1..Len(plan)
    BY DEF PlanHas
  <1>4. CASE ~a
    <2>1. r = Tail(plan)
      BY <1>4 DEF DalyLine!Remaining
    <2> QED BY <1>1, <1>2, <2>1
  <1>5. CASE a /\ (Head(plan).kind = "modbus" \/ others = {})
    <2>1. r = <<>>
      BY <1>5 DEF DalyLine!Remaining
    <2>2. Work(Len(<<>>), 0) = 0
      BY WorkIs
    <2> QED BY <1>2, <2>1, <2>2, NonePlanned
  <1>6. CASE a /\ Head(plan).kind # "modbus" /\ others # {}
    <2>1. r = rest
      BY <1>6 DEF DalyLine!Remaining
    <2>2. m = 0 /\ PlanHas(plan, 0)
      BY <1>1, <1>3, <1>6 DEF PlanHas
    <2>3. DalyLine!Min(others) \in 2..Len(plan)
      <3>1. others \in SUBSET (2..Len(plan))
        BY <1>1, <1>3 DEF DalyLine!Same
      <3> HIDE DEF others
      <3>2. others \in SUBSET Nat /\ others # {}
        BY <1>6, <3>1
      <3>3. DalyLine!Min(others) \in others
        BY <3>2, LeastIsIn
      <3> QED BY <3>1, <3>3
    <2> HIDE DEF others
    <2>4. Len(rest) \in Nat /\ Len(rest) <= Len(plan) - 1 /\ PlanHas(rest, 0)
      BY <2>2, <2>3, RestHas
    <2> HIDE DEF rest
    <2>5. Work(Len(rest), 0) = Len(rest)
      BY <2>4, WorkIs
    <2>6. Work(Len(plan) - 1, Behind(m)) = Len(plan) - 1
      BY <1>1, <1>2, <2>2, WorkIs DEF Behind
    <2> QED BY <1>1, <2>1, <2>4, <2>5, <2>6
  <1> QED BY <1>4, <1>5, <1>6

\* The positions of the classic requests: so many for each command.
LEMMA PlaceIs ==
    ASSUME NEW l \in Nat, NEW n \in Nat \ {0}, NEW i \in 1..(l * n)
    PROVE  ((i - 1) \div n) + 1 \in 1..l /\ ((i - 1) % n) + 1 \in 1..n
  <1> DEFINE d == (i - 1) \div n
             r == (i - 1) % n
  <1>1. i - 1 \in Nat /\ l * n \in Nat /\ i - 1 < l * n
    OBVIOUS
  <1>2. d \in Nat /\ r \in 0..(n - 1) /\ i - 1 = d * n + r
    BY <1>1
  <1> HIDE DEF d, r
  <1>3. d < l
    <2> SUFFICES ASSUME l <= d PROVE FALSE
      BY <1>2
    <2>1. PICK e \in Nat : d = l + e
      <3>1. d - l \in Nat /\ d = l + (d - l)
        BY <1>2
      <3> QED BY <3>1
    <2>2. d * n = l * n + e * n /\ e * n \in Nat /\ d * n \in Nat
      BY <2>1
    <2> QED BY <1>1, <1>2, <2>2
  <1> QED BY <1>2, <1>3 DEF d, r

LEMMA ClassicHas ==
    ASSUME LineSizes, NEW cmds, Len(cmds) \in Nat \ {0}, \A i \in 1..Len(cmds) : cmds[i] \in DalyBus!Cmds
    PROVE  /\ PlanHas(DalyLine!Classic(cmds), 0) /\ DalyLine!Classic(cmds) # <<>>
           /\ Len(DalyLine!Classic(cmds)) = Len(cmds) * Len(ClassicAddrs)
  <1> DEFINE l == Len(cmds)
             n == Len(ClassicAddrs)
             c == DalyLine!Classic(cmds)
             f(i) == [kind |-> "classic", cmd |-> cmds[((i - 1) \div n) + 1], addr |-> ClassicAddrs[((i - 1) % n) + 1]]
  <1>1. c = [i \in 1..(l * n) |-> f(i)]
    BY DEF DalyLine!Classic
  <1>2. l \in Nat \ {0} /\ n \in Nat \ {0} /\ l * n \in Nat /\ l * n # 0
    BY DEF LineSizes
  <1>3. ASSUME NEW i \in 1..(l * n) PROVE f(i) \in LineRequests /\ f(i).kind = "classic"
    <2>1. ((i - 1) \div n) + 1 \in 1..l /\ ((i - 1) % n) + 1 \in 1..n
      <3>1. l \in Nat /\ n \in Nat \ {0} /\ i \in 1..(l * n)
        BY <1>2, <1>3
      <3> HIDE DEF l, n
      <3> QED BY <3>1, PlaceIs
    <2> QED BY <2>1 DEF LineRequests, LineSizes
  <1> HIDE DEF c, f
  <1>4. c \in Seq(LineRequests) /\ Len(c) = l * n
    BY <1>1, <1>2, <1>3
  <1>5. \A i \in 1..Len(c) : c[i].kind = "classic"
    BY <1>1, <1>3, <1>4
  <1>6. PlanHas(c, 0)
    BY <1>2, <1>4, <1>5 DEF PlanHas
  <1>7. c # <<>>
    BY <1>2, <1>4
  <1> QED BY <1>4, <1>6, <1>7 DEF c

LEMMA JoinedHas ==
    ASSUME NEW S, NEW p \in Seq(S), NEW q \in Seq(S)
    PROVE  /\ p \o q \in Seq(S) /\ Len(p \o q) = Len(p) + Len(q)
           /\ \A i \in 1..Len(p) : (p \o q)[i] = p[i]
           /\ \A i \in (Len(p) + 1)..(Len(p) + Len(q)) : (p \o q)[i] = q[i - Len(p)] /\ i - Len(p) \in 1..Len(q)
  OBVIOUS

LEMMA RoundHas ==
    ASSUME LineSizes
    PROVE  /\ PlanHas(DalyLine!Round, Len(ModbusAddrs)) /\ DalyLine!Round # <<>>
           /\ Work(Len(DalyLine!Round), Len(ModbusAddrs)) + 1 = DalyLine!LongRound
           /\ DalyLine!LongRound \in Nat /\ Len(DalyLine!Round) \in Nat
  <1> DEFINE p == DalyLine!Modbus
             q == DalyLine!Classic(RunCmds)
             m == Len(ModbusAddrs)
             t == 2 * Timeout
             w == Len(RunCmds) * Len(ClassicAddrs)
  <1>1. m \in Nat \ {0} /\ DOMAIN ModbusAddrs = 1..m /\ t \in Nat /\ w \in Nat
    BY DEF LineSizes
  <1>2. p \in Seq(LineRequests) /\ Len(p) = m /\ \A i \in 1..m : p[i].kind = "modbus"
    BY <1>1 DEF DalyLine!Modbus, LineRequests, LineSizes
  <1>3. PlanHas(q, 0) /\ Len(q) = w
    BY ClassicHas DEF LineSizes
  <1>4. q \in Seq(LineRequests) /\ \A i \in 1..w : q[i].kind # "modbus"
    BY <1>3, <1>1 DEF PlanHas
  <1>5. DalyLine!Round = p \o q
    BY DEF DalyLine!Round
  <1> HIDE DEF p, q, m, t, w
  <1>6. /\ p \o q \in Seq(LineRequests) /\ Len(p \o q) = m + w
        /\ \A i \in 1..m : (p \o q)[i] = p[i]
        /\ \A i \in (m + 1)..(m + w) : (p \o q)[i] = q[i - m] /\ i - m \in 1..w
    BY <1>2, <1>3, <1>4, JoinedHas
  <1>7. PlanHas(p \o q, m)
    <2>1. m \in 0..Len(p \o q)
      BY <1>1, <1>6
    <2>2. ASSUME NEW i \in 1..Len(p \o q) PROVE (p \o q)[i].kind = "modbus" <=> i <= m
      <3>1. CASE i <= m
        BY <1>1, <1>2, <1>6, <3>1
      <3>2. CASE i > m
        <4>1. i \in (m + 1)..(m + w)
          BY <1>1, <1>6, <3>2
        <4> QED BY <1>1, <1>4, <1>6, <3>2, <4>1
      <3> QED BY <1>1, <3>1, <3>2
    <2> QED BY <1>6, <2>1, <2>2 DEF PlanHas
  <1>8. p \o q # <<>>
    BY <1>1, <1>6
  <1>9. Work(m + w, m) = t * m + w
    <2>1. (m + w) - m = w
      BY <1>1
    <2> QED BY <2>1 DEF Work, t
  <1>10. DalyLine!LongRound = t * m + w + 1
    BY DEF DalyLine!LongRound, t, m, w
  <1>11. t * m \in Nat
    BY <1>1
  <1>12. /\ PlanHas(DalyLine!Round, m) /\ DalyLine!Round # <<>> /\ Len(DalyLine!Round) = m + w
         /\ Work(Len(DalyLine!Round), m) = t * m + w
    BY <1>5, <1>6, <1>7, <1>8, <1>9
  <1>13. DalyLine!LongRound \in Nat /\ m + w \in Nat
    BY <1>1, <1>10, <1>11
  <1> HIDE DEF m
  <1>14. Work(Len(DalyLine!Round), m) + 1 = DalyLine!LongRound
    BY <1>10, <1>12
  <1> QED BY <1>12, <1>13, <1>14 DEF m

-----------------------------------------------------------------------------
(* The snapshot, whatever frames and blocks it is made of.                 *)

\* Both sources make their snapshots in the same way.
LEMMA SameShots ==
    /\ \A x, f : DalyLine!Decode(x, f) = DalyBus!Decode(x, f)
    /\ \A x, c : DalyLine!Extremes(x, c) = DalyBus!Extremes(x, c)
    /\ \A x : DalyLine!IsSnapshot(x) = DalyBus!IsSnapshot(x)
    /\ \A x : DalyLine!Clamped(x) = DalyBus!Clamped(x)
    /\ DalyLine!NoSnapshot = DalyBus!NoSnapshot
  <1>1. \A x : DalyLine!Clamped(x) = DalyBus!Clamped(x)
    BY DEF DalyLine!Clamped, DalyBus!Clamped, DalyLine!Min, DalyBus!Min
  <1>2. \A x : DalyLine!Max(x) = DalyBus!Max(x)
    BY DEF DalyLine!Max, DalyBus!Max
  <1>3. \A x, f : DalyLine!Decode(x, f) = DalyBus!Decode(x, f)
    BY <1>1, <1>2 DEF DalyLine!Decode, DalyBus!Decode
  <1>4. \A x : DalyLine!Lowest(x) = DalyBus!Lowest(x) /\ DalyLine!Highest(x) = DalyBus!Highest(x)
    BY DEF DalyLine!Lowest, DalyBus!Lowest, DalyLine!Highest, DalyBus!Highest
  <1>5. \A x, c : DalyLine!Extremes(x, c) = DalyBus!Extremes(x, c)
    BY <1>4 DEF DalyLine!Extremes, DalyBus!Extremes
  <1>6. \A x : DalyLine!IsSnapshot(x) = DalyBus!IsSnapshot(x)
    BY DEF DalyLine!IsSnapshot, DalyBus!IsSnapshot, DalyLine!Cardinality, DalyBus!Cardinality
  <1>7. DalyLine!NoSnapshot = DalyBus!NoSnapshot
    BY DEF DalyLine!NoSnapshot, DalyBus!NoSnapshot
  <1> QED BY <1>1, <1>3, <1>5, <1>6, <1>7

LEMMA LineIsCelled == LineSizes => Celled
  BY DEF LineSizes, Celled

LineFrames ==
    [cmd : DalyBus!Cmds \cup {"block"}, val : Nat, no : Nat, mv : Nat, n : Nat, range : Nat \X Nat]

\* An answer, whole or not: a block or classic frames.
AnyBlock(a) ==
    /\ a = [state |-> a.state, kind |-> "modbus", n |-> a.n, val |-> a.val, mvs |-> a.mvs]
    /\ a.n \in Nat /\ a.val \in Nat /\ \A i \in DOMAIN a.mvs : a.mvs[i] \in Nat

AnyFrames(a) ==
    /\ a = [state |-> a.state, kind |-> "classic", frames |-> a.frames]
    /\ a.frames \in Seq(LineFrames)

LEMMA ShotMade ==
    ASSUME NEW valid \in BOOLEAN, NEW soc \in SUBSET Nat, NEW range \in SUBSET Ranges,
           NEW cells \in [1..MaxCells -> Nat], NEW count \in 0..MaxCells, NEW temps \in BOOLEAN,
           Sole(soc), Sole(range)
    PROVE  [valid |-> valid, soc |-> soc, range |-> range, cells |-> cells, count |-> count, temps |-> temps] \in Shots
  BY DEF Shots, Shapes

LEMMA CellsMakeShots ==
    ASSUME LineSizes, NEW s \in Shots, NEW a, AnyBlock(a)
    PROVE  DalyLine!CellsOf(s, a) \in Shots
  <1> DEFINE c == [i \in 1..MaxCells |-> IF i \in DOMAIN a.mvs THEN a.mvs[i] ELSE s.cells[i]]
             k == DalyLine!Clamped(a.n)
             d == DalyLine!CellsOf(s, a)
  <1>1. /\ s = [valid |-> s.valid, soc |-> s.soc, range |-> s.range, cells |-> s.cells, count |-> s.count,
                temps |-> s.temps]
        /\ s.valid \in BOOLEAN /\ s.soc \in SUBSET Nat /\ s.range \in SUBSET Ranges
        /\ s.cells \in [1..MaxCells -> Nat] /\ s.count \in 0..MaxCells /\ s.temps \in BOOLEAN
        /\ Sole(s.soc) /\ Sole(s.range)
    BY ShotHas
  <1>2. c \in [1..MaxCells -> Nat]
    BY <1>1 DEF AnyBlock
  <1>3. k \in 0..MaxCells
    BY CellClamps, LineIsCelled, SameShots DEF AnyBlock
  <1>4. d = [s EXCEPT !.cells = c, !.count = k]
    BY DEF DalyLine!CellsOf
  <1> HIDE DEF c, k, d
  <1>5. d = [valid |-> s.valid, soc |-> s.soc, range |-> s.range, cells |-> c, count |-> k, temps |-> s.temps]
    BY <1>1, <1>4
  <1>6. d \in Shots
    BY <1>1, <1>2, <1>3, <1>5, ShotMade
  <1> QED BY <1>6 DEF d

\* A part of a snapshot replaced.
LEMMA ShotParts ==
    ASSUME NEW s \in Shots
    PROVE  \E valid \in BOOLEAN, soc \in SUBSET Nat, range \in SUBSET Ranges, cells \in [1..MaxCells -> Nat],
              count \in 0..MaxCells, temps \in BOOLEAN :
             /\ Sole(soc) /\ Sole(range)
             /\ s = [valid |-> valid, soc |-> soc, range |-> range, cells |-> cells, count |-> count, temps |-> temps]
  BY ShotHas

LEMMA Replaced ==
    ASSUME NEW s \in Shots
    PROVE  /\ [s EXCEPT !.valid = TRUE] \in Shots /\ [s EXCEPT !.valid = TRUE].valid
           /\ [s EXCEPT !.temps = TRUE] \in Shots
           /\ \A v \in Nat : [s EXCEPT !.soc = {v}] \in Shots
           /\ \A k \in 0..MaxCells : [s EXCEPT !.count = k] \in Shots
  <1>1. PICK valid \in BOOLEAN, soc \in SUBSET Nat, range \in SUBSET Ranges, cells \in [1..MaxCells -> Nat],
              count \in 0..MaxCells, temps \in BOOLEAN :
             /\ Sole(soc) /\ Sole(range)
             /\ s = [valid |-> valid, soc |-> soc, range |-> range, cells |-> cells, count |-> count, temps |-> temps]
    BY ShotParts
  <1>2. TRUE \in BOOLEAN
    OBVIOUS
  <1>3. [s EXCEPT !.valid = TRUE] \in Shots /\ [s EXCEPT !.valid = TRUE].valid
    <2>1. \A x : [s EXCEPT !.valid = x] =
            [valid |-> x, soc |-> soc, range |-> range, cells |-> cells, count |-> count, temps |-> temps]
      BY <1>1
    <2>2. [valid |-> TRUE, soc |-> soc, range |-> range, cells |-> cells, count |-> count, temps |-> temps] \in Shots
      BY <1>1, <1>2, ShotMade
    <2> QED BY <2>1, <2>2
  <1>4. [s EXCEPT !.temps = TRUE] \in Shots
    <2>1. \A x : [s EXCEPT !.temps = x] =
            [valid |-> valid, soc |-> soc, range |-> range, cells |-> cells, count |-> count, temps |-> x]
      BY <1>1
    <2>2. [valid |-> valid, soc |-> soc, range |-> range, cells |-> cells, count |-> count, temps |-> TRUE] \in Shots
      BY <1>1, <1>2, ShotMade
    <2> QED BY <2>1, <2>2
  <1>5. ASSUME NEW v \in Nat PROVE [s EXCEPT !.soc = {v}] \in Shots
    <2>1. \A x : [s EXCEPT !.soc = x] =
            [valid |-> valid, soc |-> x, range |-> range, cells |-> cells, count |-> count, temps |-> temps]
      BY <1>1
    <2>2. {v} \in SUBSET Nat /\ Sole({v})
      BY DEF Sole
    <2>3. [valid |-> valid, soc |-> {v}, range |-> range, cells |-> cells, count |-> count, temps |-> temps] \in Shots
      BY <1>1, <2>2, ShotMade
    <2> QED BY <2>1, <2>3
  <1>6. ASSUME NEW k \in 0..MaxCells PROVE [s EXCEPT !.count = k] \in Shots
    <2>1. [s EXCEPT !.count = k] =
            [valid |-> valid, soc |-> soc, range |-> range, cells |-> cells, count |-> k, temps |-> temps]
      BY <1>1
    <2>2. [valid |-> valid, soc |-> soc, range |-> range, cells |-> cells, count |-> k, temps |-> temps] \in Shots
      BY <1>1, ShotMade
    <2> QED BY <2>1, <2>2
  <1> QED BY <1>3, <1>4, <1>5, <1>6

LEMMA BlockMakesShots ==
    ASSUME LineSizes, NEW s \in Shots, NEW a, AnyBlock(a)
    PROVE  /\ DalyLine!DecodeBlock(s, a) \in Shots
           /\ s.valid => DalyLine!DecodeBlock(s, a).valid
  <1> DEFINE d == DalyLine!CellsOf(s, a)
             e == [d EXCEPT !.count = s.count]
             x == DalyLine!Extremes(d, 1..d.count)
             c == CASE a.state = "blank" -> s
                    [] a.state # "blank" /\ a.n < MinCells -> e
                    [] OTHER -> x
             o == IF a.state = "blank" THEN c ELSE [c EXCEPT !.soc = {a.val}]
             t == IF a.state \in {"blank", "cut"} THEN o ELSE [o EXCEPT !.temps = TRUE]
             b == DalyLine!DecodeBlock(s, a)
  <1>1. d \in Shots
    BY CellsMakeShots
  <1>2. e \in Shots
    <2> HIDE DEF d
    <2> QED BY <1>1, Replaced, ShotHas
  <1>3. x \in Shots
    <2> HIDE DEF d
    <2>1. 1..d.count \in SUBSET (1..MaxCells)
      BY <1>1, ShotHas DEF LineSizes
    <2> QED BY <1>1, <2>1, ExtremesMakeShots, SameShots
  <1>4. b = s \/ b = [t EXCEPT !.valid = TRUE]
    BY DEF DalyLine!DecodeBlock
  <1> HIDE DEF d, e, x, b
  <1>5. c \in Shots
    BY <1>2, <1>3
  <1> HIDE DEF c
  <1>6. o \in Shots
    <2>1. a.val \in Nat
      BY DEF AnyBlock
    <2>2. [c EXCEPT !.soc = {a.val}] \in Shots
      BY <1>5, <2>1, Replaced
    <2> QED BY <1>5, <2>2
  <1> HIDE DEF o
  <1>7. t \in Shots
    BY <1>6, Replaced
  <1> HIDE DEF t
  <1>8. b \in Shots /\ (s.valid => b.valid)
    BY <1>4, <1>7, Replaced
  <1> QED BY <1>8 DEF b

\* So do the frames of a classic answer, one after the other.
LEMMA DecodedIs ==
    ASSUME LineSizes, NEW s \in Shots, NEW came, came \in Seq(LineFrames)
    PROVE  DalyLine!Decoded(s, came) \in Shots /\ (s.valid => DalyLine!Decoded(s, came).valid)
  <1> DEFINE N     == Len(came)
             S     == {x \in Shots : s.valid => x.valid}
             F     == [i \in 1..N |-> [x \in S |-> DalyLine!Decode(x, came[i])]]
             Eq(g) == g = [n \in 0..N |-> IF n = 0 THEN s ELSE DalyLine!Decode(g[n - 1], came[n])]
             f     == CHOOSE g : Eq(g)
  <1>0. N \in Nat /\ \A i \in 1..N : came[i] \in LineFrames
    OBVIOUS
  <1>1. ASSUME NEW i \in 1..N, NEW x \in S PROVE DalyLine!Decode(x, came[i]) \in S
    <2> DEFINE h == came[i]
    <2>1. h.val \in Nat /\ h.no \in Nat /\ h.mv \in Nat /\ h.n \in Nat /\ h.range \in Nat \X Nat
      BY <1>0 DEF LineFrames
    <2> HIDE DEF h
    <2>2. DalyBus!Decode(x, h) \in Shots /\ DalyBus!Decode(x, h).valid
      BY <2>1, DecodeMakesShots, LineIsCelled
    <2>3. DalyLine!Decode(x, h) = DalyBus!Decode(x, h)
      BY SameShots
    <2>4. DalyLine!Decode(x, h) \in S
      BY <2>2, <2>3
    <2> QED BY <2>4 DEF h
  <1>2. s \in S
    OBVIOUS
  <1> HIDE DEF N, S
  <1>3. F \in Moves(S, N) /\ \A i \in 1..N : \A x \in S : F[i][x] = DalyLine!Decode(x, came[i])
    BY <1>1 DEF Moves
  <1> HIDE DEF F
  <1>4. PICK g : IsRun(g, S, N, s, F)
    BY <1>0, <1>2, <1>3, IterExists
  <1>5. Eq(g)
    <2>1. \A n \in 0..N : g[n] = IF n = 0 THEN s ELSE DalyLine!Decode(g[n - 1], came[n])
      BY <1>0, <1>3, <1>4 DEF IsRun
    <2> QED BY <2>1, <1>4 DEF IsRun
  <1>6. Eq(f)
    <2> HIDE DEF Eq
    <2> QED BY <1>5
  <1>7. DalyLine!Decoded(s, came) = f[N]
    BY DEF DalyLine!Decoded, N
  <1> HIDE DEF f
  <1>8. f[0] = s /\ \A n \in 1..N : f[n] = DalyLine!Decode(f[n - 1], came[n])
    BY <1>0, <1>6
  <1> DEFINE T == {n \in 0..N : f[n] \in S}
  <1>9. 0 \in T /\ \A i \in 1..N : i - 1 \in T => i \in T
    BY <1>0, <1>1, <1>2, <1>8
  <1> HIDE DEF T
  <1>10. \A i \in 0..N : i \in T
    BY <1>0, <1>9, Climb
  <1>11. DalyLine!Decoded(s, came) \in S
    BY <1>0, <1>7, <1>10 DEF T
  <1> QED BY <1>11 DEF S

-----------------------------------------------------------------------------
(* The task keeps to its types.                                            *)

LineTask ==
    /\ task \in {"ask", "wait", "round"} /\ (task # "round" => plan # <<>>) /\ any \in BOOLEAN
    /\ matched \in 0..MaxCells /\ expected \in 0..MaxCells
    /\ left \in 0..Timeout /\ hard \in 0..(2 * Timeout) /\ left <= hard
    /\ \E m : PlanHas(plan, m)

LineData == record \in Shots /\ frame \in 0..DalyLine!MaxAge /\ (out.have => record.valid)

LineWire ==
    /\ air = DalyLine!NoAnswer \/ AnyBlock(air) \/ AnyFrames(air)
    /\ Sole(partial) /\ \A a \in partial : AnyBlock(a)
    /\ battery \in Batteries /\ gen \in 1..(swaps + 1) /\ heard \in 0..DalyLine!MaxAge
    /\ faults \in 0..MaxFaults /\ swaps \in 0..MaxSwaps

LineTyped == LineSizes /\ LineTask /\ LineData /\ LineWire

LineParted == LineTask' /\ LineData' /\ LineWire'

LEMMA LineIsTypeOK == LineTyped => DalyLine!TypeOK
  <1> SUFFICES ASSUME LineTyped PROVE DalyLine!TypeOK
    OBVIOUS
  <1>1. LineSizes /\ LineTask /\ LineData /\ LineWire
    BY DEF LineTyped
  <1>2. DalyLine!Cardinality(partial) <= 1
    <2>1. Cardinality(partial) <= 1
      BY <1>1, OneIsOne DEF LineWire
    <2>2. DalyLine!Cardinality(partial) = Cardinality(partial)
      BY DEF DalyLine!Cardinality, Cardinality
    <2> QED BY <2>1, <2>2
  <1>3. DalyLine!IsSnapshot(record)
    BY <1>1, ShotIsSnapshot, SameShots DEF LineData
  <1>4. {frame, heard} \subseteq 0..DalyLine!MaxAge
    BY <1>1 DEF LineData, LineWire
  <1>5. /\ task \in {"ask", "wait", "round"} /\ (task # "round" => plan # <<>>)
        /\ any \in BOOLEAN /\ matched \in 0..MaxCells /\ expected \in 0..MaxCells
        /\ left \in 0..Timeout /\ hard \in 0..(2 * Timeout) /\ left <= hard
    BY <1>1 DEF LineTask
  <1>6. faults \in 0..MaxFaults /\ swaps \in 0..MaxSwaps /\ gen \in 1..(MaxSwaps + 1)
    BY <1>1 DEF LineWire, LineSizes
  <1>7. out.have => record.valid
    BY <1>1 DEF LineData
  <1> QED BY <1>2, <1>3, <1>4, <1>5, <1>6, <1>7 DEF DalyLine!TypeOK

LEMMA LineAges ==
    ASSUME LineSizes
    PROVE  /\ DalyLine!MaxAge \in Nat /\ DalyLine!LongRound \in Nat \ {0}
           /\ \A a \in 0..DalyLine!MaxAge : DalyLine!Grown(a) \in 0..DalyLine!MaxAge
  <1>1. DalyLine!LongRound \in Nat
    BY RoundHas
  <1>2. DalyLine!LongRound # 0
    <2> DEFINE w == Work(Len(DalyLine!Round), Len(ModbusAddrs))
    <2>1. w \in Nat /\ w + 1 = DalyLine!LongRound
      BY RoundHas, WorkIs DEF PlanHas
    <2> HIDE DEF w
    <2> QED BY <2>1
  <1>3. DalyLine!MaxAge \in Nat
    BY <1>1 DEF DalyLine!MaxAge, LineSizes
  <1>4. ASSUME NEW a \in 0..DalyLine!MaxAge PROVE DalyLine!Grown(a) \in 0..DalyLine!MaxAge
    BY <1>3, <1>4 DEF DalyLine!Grown
  <1> QED BY <1>1, <1>2, <1>3, <1>4

\* The lesser of two times.
LEMMA LesserIs ==
    ASSUME NEW a \in Nat, NEW b \in Nat
    PROVE  DalyLine!Min({a, b}) \in Nat /\ DalyLine!Min({a, b}) <= a /\ DalyLine!Min({a, b}) <= b
           /\ DalyLine!Min({a, b}) \in {a, b}
  <1> DEFINE S == {a, b}
  <1>1. DalyLine!Min(S) = CHOOSE x \in S : \A y \in S : x <= y
    BY DEF DalyLine!Min
  <1>2. \E x \in S : \A y \in S : x <= y
    OBVIOUS
  <1>3. DalyLine!Min(S) \in S /\ \A y \in S : DalyLine!Min(S) <= y
    BY <1>1, <1>2
  <1> QED BY <1>3

LEMMA LineTaskStays ==
    ASSUME LineTask, UNCHANGED <<task, plan, any, matched, expected, left, hard>>
    PROVE  LineTask'
  BY DEF LineTask

LEMMA LineDataStays ==
    ASSUME LineData, UNCHANGED <<record, frame, out>>
    PROVE  LineData'
  BY DEF LineData, DalyLine!MaxAge, DalyLine!LongRound

LEMMA WireGoes ==
    ASSUME LineWire,
           air' = DalyLine!NoAnswer \/ AnyBlock(air') \/ AnyFrames(air'),
           Sole(partial'), \A a \in partial' : AnyBlock(a),
           battery' \in Batteries, gen' \in 1..(swaps' + 1), heard' \in 0..DalyLine!MaxAge,
           faults' \in 0..MaxFaults, swaps' \in 0..MaxSwaps
    PROVE  LineWire'
  BY DEF LineWire, DalyLine!MaxAge, DalyLine!LongRound, DalyLine!NoAnswer

LEMMA OverTyped ==
    ASSUME LineSizes, LineTask, task # "round", NEW a \in BOOLEAN, DalyLine!Over(a)
    PROVE  LineTask' /\ partial' = {}
  <1>1. PICK m : PlanHas(plan, m)
    BY DEF LineTask
  <1>2. plan # <<>> /\ any \in BOOLEAN
    BY DEF LineTask
  <1>3. PICK k : PlanHas(DalyLine!Remaining(a), k)
    BY <1>1, <1>2, RemainingHas
  <1>4. /\ plan' = DalyLine!Remaining(a) /\ task' = (IF plan' = <<>> THEN "round" ELSE "ask")
        /\ any' = (any \/ a) /\ matched' = 0 /\ expected' = 0 /\ left' = 0 /\ hard' = 0 /\ partial' = {}
    BY DEF DalyLine!Over
  <1>5. PlanHas(plan', k)
    BY <1>3, <1>4
  <1>6. any' \in BOOLEAN
    BY <1>2, <1>4
  <1>7. 0 \in 0..MaxCells /\ 0 \in 0..Timeout /\ 0 \in 0..(2 * Timeout)
    BY DEF LineSizes
  <1> QED BY <1>4, <1>5, <1>6, <1>7 DEF LineTask

LEMMA NoneIsSole == Sole({}) /\ \A x : Sole({x})
  BY DEF Sole

LEMMA TakeTyped ==
    ASSUME LineSizes, LineData, NEW a, AnyBlock(a), DalyLine!TakeBlock(a)
    PROVE  LineData'
  <1>1. /\ record' = DalyLine!DecodeBlock(record, a) /\ out' = out
        /\ frame' = 0 \/ frame' = frame
    BY DEF DalyLine!TakeBlock
  <1>2. record' \in Shots /\ (record.valid => record'.valid)
    BY <1>1, BlockMakesShots DEF LineData
  <1>3. frame' \in 0..DalyLine!MaxAge
    BY <1>1, LineAges DEF LineData
  <1> QED BY <1>1, <1>2, <1>3 DEF LineData, DalyLine!MaxAge, DalyLine!LongRound

LEMMA AnswerTyped ==
    ASSUME LineSizes, battery \in Batteries, gen \in Nat, NEW r \in LineRequests
    PROVE  AnyBlock(DalyLine!AnswerTo(r)) \/ AnyFrames(DalyLine!AnswerTo(r))
  <1>1. battery.n \in Nat
    BY DEF LineSizes
  <1>2. CASE r.kind = "modbus"
    <2> DEFINE c == DalyLine!Clamped(battery.n)
               v == [i \in 1..c |-> DalyLine!Mv(i)]
    <2>1. DalyLine!AnswerTo(r) = [state |-> "whole", kind |-> "modbus", n |-> battery.n, val |-> gen, mvs |-> v]
      BY <1>2 DEF DalyLine!AnswerTo
    <2>2. \A i \in DOMAIN v : v[i] \in Nat
      <3>1. c \in 0..MaxCells /\ MaxCells \in Nat
        <4>1. DalyBus!Clamped(battery.n) \in 0..MaxCells
          BY <1>1, CellClamps, LineIsCelled
        <4> QED BY <4>1, SameShots DEF LineSizes
      <3> HIDE DEF c
      <3>2. \A i \in 1..c : DalyLine!Mv(i) \in Nat
        BY <3>1 DEF DalyLine!Mv
      <3> QED BY <3>1, <3>2
    <2> HIDE DEF v
    <2> QED BY <1>1, <2>1, <2>2 DEF AnyBlock
  <1>3. CASE r.kind # "modbus"
    <2> DEFINE k == IF r.cmd = "cells" THEN battery.n ELSE 1
               f(i) == [cmd |-> r.cmd, val |-> gen, no |-> i, mv |-> DalyLine!Mv(i), n |-> battery.n,
                        range |-> <<DalyLine!Mv(1), DalyLine!Mv(battery.n)>>]
               q == [i \in 1..k |-> f(i)]
    <2>1. DalyLine!AnswerTo(r) = [state |-> "whole", kind |-> "classic", frames |-> q]
      BY <1>3 DEF DalyLine!AnswerTo
    <2>2. k \in Nat
      BY <1>1
    <2> HIDE DEF k
    <2>3. ASSUME NEW i \in 1..k PROVE f(i) \in LineFrames
      <3>1. DalyLine!Mv(i) \in Nat /\ DalyLine!Mv(1) \in Nat /\ DalyLine!Mv(battery.n) \in Nat /\ i \in Nat
        BY <1>1, <2>2 DEF DalyLine!Mv
      <3>2. r.cmd \in DalyBus!Cmds \cup {"block"}
        BY DEF LineRequests
      <3> QED BY <1>1, <3>1, <3>2 DEF LineFrames
    <2> HIDE DEF f
    <2>4. q \in Seq(LineFrames)
      BY <2>2, <2>3
    <2> HIDE DEF q
    <2> QED BY <2>1, <2>4 DEF AnyFrames
  <1> QED BY <1>2, <1>3

LEMMA AskTyped ==
    ASSUME LineTyped, DalyLine!Ask
    PROVE  LineParted
  <1>1. LineSizes /\ LineTask /\ LineData /\ LineWire
    BY DEF LineTyped
  <1>2. /\ task' = "wait" /\ task = "ask" /\ matched' = 0 /\ partial' = {}
        /\ expected' = DalyLine!FrameCount(record, Head(plan).cmd)
        /\ left' = (IF Head(plan).kind = "modbus" THEN Timeout ELSE 1)
        /\ hard' = (IF Head(plan).kind = "modbus" THEN 2 * Timeout ELSE 1)
        /\ air' \in {DalyLine!NoAnswer, DalyLine!AnswerTo(Head(plan))}
        /\ UNCHANGED <<plan, any, record, frame, out, battery, gen, swaps, heard, faults>>
    BY DEF DalyLine!Ask, DalyLine!dataVars, DalyLine!envVars
  <1>3. PICK m : PlanHas(plan, m)
    BY <1>1 DEF LineTask
  <1>4. plan # <<>> /\ plan[1] \in LineRequests /\ Head(plan) = plan[1]
    <2>1. plan # <<>>
      BY <1>1, <1>2 DEF LineTask
    <2>2. plan[1] \in LineRequests
      BY <1>3, <2>1, TailHas
    <2>3. Head(plan) = plan[1]
      BY <1>3, <2>1 DEF PlanHas
    <2> QED BY <2>1, <2>2, <2>3
  <1>5. expected' \in 0..MaxCells
    BY <1>1, <1>2, ShotHas DEF DalyLine!FrameCount, LineData, LineSizes
  <1>6. left' \in 0..Timeout /\ hard' \in 0..(2 * Timeout) /\ left' <= hard'
    BY <1>1, <1>2 DEF LineSizes
  <1>7. LineTask'
    <2>1. plan' # <<>> /\ any' \in BOOLEAN /\ matched' \in 0..MaxCells /\ PlanHas(plan', m)
      BY <1>1, <1>2, <1>3, <1>4 DEF LineTask, LineSizes
    <2> QED BY <1>2, <1>5, <1>6, <2>1 DEF LineTask
  <1>8. LineData'
    BY <1>1, <1>2, LineDataStays
  <1>9. LineWire'
    <2>1. battery \in Batteries /\ gen \in Nat
      BY <1>1 DEF LineWire, LineSizes
    <2>2. air' = DalyLine!NoAnswer \/ AnyBlock(air') \/ AnyFrames(air')
      BY <1>1, <1>2, <1>4, <2>1, AnswerTyped
    <2>3. battery' \in Batteries /\ gen' \in 1..(swaps' + 1) /\ heard' \in 0..DalyLine!MaxAge
          /\ faults' \in 0..MaxFaults /\ swaps' \in 0..MaxSwaps
      BY <1>1, <1>2 DEF LineWire
    <2> QED BY <1>1, <1>2, <2>2, <2>3, NoneIsSole, WireGoes
  <1> QED BY <1>7, <1>8, <1>9 DEF LineParted

LEMMA ReadTyped ==
    ASSUME LineTyped, DalyLine!Read
    PROVE  LineParted
  <1>1. LineSizes /\ LineTask /\ LineData /\ LineWire
    BY DEF LineTyped
  <1>2. /\ task = "wait" /\ air' = DalyLine!NoAnswer /\ heard' = 0
        /\ AnyBlock(air) \/ AnyFrames(air)
        /\ UNCHANGED <<battery, gen, swaps, faults>>
    BY <1>1 DEF DalyLine!Read, DalyLine!ReadBlock, DalyLine!ReadClassic, DalyLine!Coming, DalyLine!envVars, LineWire
  <1>3. ASSUME Sole(partial'), \A a \in partial' : AnyBlock(a) PROVE LineWire'
    <2>1. battery' \in Batteries /\ gen' \in 1..(swaps' + 1) /\ heard' \in 0..DalyLine!MaxAge
          /\ faults' \in 0..MaxFaults /\ swaps' \in 0..MaxSwaps
      BY <1>1, <1>2, LineAges DEF LineWire
    <2> QED BY <1>1, <1>2, <1>3, <2>1, WireGoes
  <1>4. CASE DalyLine!ReadBlock
    <2>1. AnyBlock(air)
      BY <1>2, <1>4 DEF DalyLine!ReadBlock, AnyFrames
    <2>2. CASE DalyLine!TakeBlock(air) /\ DalyLine!Over(TRUE)
      BY <1>1, <1>2, <1>3, <2>1, <2>2, OverTyped, TakeTyped, NoneIsSole DEF LineParted
    <2>3. CASE /\ left' = DalyLine!Min({Idle, hard}) /\ partial' = {air}
               /\ UNCHANGED <<task, plan, any, matched, expected, hard, record, frame, out>>
      <3>1. hard \in Nat /\ Idle \in Nat /\ Idle <= Timeout /\ Timeout \in Nat
        BY <1>1 DEF LineTask, LineSizes
      <3>2. left' \in 0..Timeout /\ left' <= hard'
        BY <2>3, <3>1, LesserIs
      <3>3. LineTask'
        BY <1>1, <2>3, <3>2 DEF LineTask
      <3> QED BY <1>1, <1>3, <2>1, <2>3, <3>3, LineDataStays, NoneIsSole DEF LineParted
    <2> QED BY <1>4, <2>2, <2>3 DEF DalyLine!ReadBlock, DalyLine!dataVars
  <1>5. CASE DalyLine!ReadClassic
    <2> DEFINE came == DalyLine!Parsed(air)
    <2>1. /\ record' = DalyLine!Decoded(record, came) /\ matched' = DalyLine!Min({MaxCells, matched + Len(came)})
          /\ frame' \in {frame, 0}
          /\ UNCHANGED <<task, plan, any, expected, left, hard, partial, out>>
      BY <1>5 DEF DalyLine!ReadClassic
    <2>2. came \in Seq(LineFrames)
      BY <1>2, <1>5 DEF DalyLine!Parsed, DalyLine!ReadClassic, AnyBlock, AnyFrames
    <2> HIDE DEF came
    <2>3. record' \in Shots /\ (record.valid => record'.valid)
      BY <1>1, <2>1, <2>2, DecodedIs DEF LineData
    <2>4. frame' \in 0..DalyLine!MaxAge
      BY <1>1, <2>1, LineAges DEF LineData
    <2>5. LineData'
      BY <1>1, <2>1, <2>3, <2>4 DEF LineData, DalyLine!MaxAge, DalyLine!LongRound
    <2>6. matched' \in 0..MaxCells
      <3>1. MaxCells \in Nat /\ matched + Len(came) \in Nat
        BY <1>1, <2>2 DEF LineTask, LineSizes
      <3> QED BY <2>1, <3>1, LesserIs
    <2>7. LineTask'
      BY <1>1, <2>1, <2>6 DEF LineTask
    <2>8. LineWire'
      BY <1>1, <1>3, <2>1 DEF LineWire
    <2> QED BY <2>5, <2>7, <2>8 DEF LineParted
  <1> QED BY <1>4, <1>5 DEF DalyLine!Read

\* The steps of time.
LEMMA WaitTyped ==
    ASSUME LineTyped, DalyLine!Wait
    PROVE  LineParted
  <1>1. LineSizes /\ LineTask /\ LineData /\ LineWire
    BY DEF LineTyped
  <1>2. /\ task = "wait" /\ UNCHANGED <<air, battery, gen, swaps, faults>>
        /\ heard' = heard \/ heard' = DalyLine!Grown(heard)
    BY DEF DalyLine!Wait, DalyLine!Enough, DalyLine!Waits, DalyLine!WaitEnds, DalyLine!Tick, DalyLine!envVars
  <1>3. ASSUME partial' \in {partial, {}} PROVE LineWire'
    <2>1. heard' \in 0..DalyLine!MaxAge
      BY <1>1, <1>2, LineAges DEF LineWire
    <2>2. battery' \in Batteries /\ gen' \in 1..(swaps' + 1) /\ faults' \in 0..MaxFaults /\ swaps' \in 0..MaxSwaps
          /\ (air' = DalyLine!NoAnswer \/ AnyBlock(air') \/ AnyFrames(air'))
          /\ Sole(partial') /\ \A a \in partial' : AnyBlock(a)
      BY <1>1, <1>2, <1>3, NoneIsSole DEF LineWire
    <2> QED BY <1>1, <2>1, <2>2, WireGoes
  <1>4. ASSUME UNCHANGED <<record, out>>, frame' \in {frame, DalyLine!Grown(frame)} PROVE LineData'
    <2>1. frame' \in 0..DalyLine!MaxAge
      BY <1>1, <1>4, LineAges DEF LineData
    <2> QED BY <1>1, <1>4, <2>1 DEF LineData, DalyLine!MaxAge, DalyLine!LongRound
  <1>5. CASE DalyLine!Enough
    <2>1. DalyLine!Over(TRUE) /\ UNCHANGED <<record, frame, out>>
      BY <1>5 DEF DalyLine!Enough, DalyLine!dataVars
    <2> QED BY <1>1, <1>2, <1>3, <1>4, <2>1, OverTyped DEF LineParted
  <1>6. CASE DalyLine!Waits
    <2>1. /\ left > 1 /\ left' = left - 1 /\ hard' = hard - 1 /\ frame' = DalyLine!Grown(frame)
          /\ UNCHANGED <<task, plan, any, matched, expected, partial, record, out>>
      BY <1>6 DEF DalyLine!Waits
    <2>2. left' \in 0..Timeout /\ hard' \in 0..(2 * Timeout) /\ left' <= hard'
      BY <1>1, <2>1 DEF LineTask, LineSizes
    <2>3. LineTask'
      BY <1>1, <2>1, <2>2 DEF LineTask
    <2> QED BY <1>3, <1>4, <2>1, <2>3 DEF LineParted
  <1>7. CASE DalyLine!WaitEnds
    <2> DEFINE b == (matched > 0)
    <2>a. DalyLine!Over(TRUE) \/ DalyLine!Over(b)
      BY <1>7 DEF DalyLine!WaitEnds
    <2>b. b \in BOOLEAN
      OBVIOUS
    <2> HIDE DEF b
    <2>2. LineTask' /\ partial' = {}
      BY <1>1, <1>2, <2>a, <2>b, OverTyped
    <2>3. CASE \E a \in partial : DalyLine!Partial(a)
      <3> DEFINE c == CHOOSE a \in partial : TRUE
      <3>1. DalyLine!TakeBlock(c)
        BY <1>7, <2>3 DEF DalyLine!WaitEnds
      <3>2. AnyBlock(c)
        BY <1>1, <2>3 DEF LineWire
      <3> HIDE DEF c
      <3> QED BY <1>1, <1>3, <2>2, <3>1, <3>2, TakeTyped DEF LineParted
    <2>4. CASE ~ \E a \in partial : DalyLine!Partial(a)
      <3>1. frame' = DalyLine!Grown(frame) /\ UNCHANGED <<record, out>>
        BY <1>7, <2>4 DEF DalyLine!WaitEnds
      <3> QED BY <1>3, <1>4, <2>2, <3>1 DEF LineParted
    <2> QED BY <2>3, <2>4
  <1> QED BY <1>5, <1>6, <1>7 DEF DalyLine!Wait

LEMMA RoundTyped ==
    ASSUME LineTyped, DalyLine!RoundEnds
    PROVE  LineParted
  <1>1. LineSizes /\ LineTask /\ LineData /\ LineWire
    BY DEF LineTyped
  <1>2. /\ frame' = DalyLine!Grown(frame) /\ heard' = DalyLine!Grown(heard)
        /\ out' = DalyLine!Nothing \/ (out' = DalyLine!Packet(record) /\ DalyLine!HasContent(record)) \/ out' = out
        /\ plan' = DalyLine!Round /\ task' = "ask" /\ any' = FALSE
        /\ UNCHANGED <<matched, expected, left, hard, partial, record, air, battery, gen, swaps, faults>>
    BY DEF DalyLine!RoundEnds, DalyLine!Tick, DalyLine!winVars, DalyLine!envVars
  <1>3. PlanHas(plan', Len(ModbusAddrs)) /\ plan' # <<>>
    BY <1>1, <1>2, RoundHas
  <1>4. LineTask'
    BY <1>1, <1>2, <1>3 DEF LineTask
  <1>5. frame' \in 0..DalyLine!MaxAge /\ heard' \in 0..DalyLine!MaxAge
    BY <1>1, <1>2, LineAges DEF LineData, LineWire
  <1>6. out'.have => record'.valid
    BY <1>1, <1>2 DEF LineData, DalyLine!Nothing, DalyLine!HasContent
  <1>7. LineData'
    BY <1>1, <1>2, <1>5, <1>6 DEF LineData, DalyLine!MaxAge, DalyLine!LongRound
  <1>8. LineWire'
    <2>1. battery' \in Batteries /\ gen' \in 1..(swaps' + 1) /\ faults' \in 0..MaxFaults /\ swaps' \in 0..MaxSwaps
          /\ (air' = DalyLine!NoAnswer \/ AnyBlock(air') \/ AnyFrames(air'))
          /\ Sole(partial') /\ \A a \in partial' : AnyBlock(a)
      BY <1>1, <1>2 DEF LineWire
    <2> QED BY <1>1, <1>5, <2>1, WireGoes
  <1> QED BY <1>4, <1>7, <1>8 DEF LineParted

LEMMA LineFirst ==
    ASSUME LineSizes
    PROVE  /\ DalyLine!NoSnapshot \in Shots /\ ~DalyLine!Nothing.have
           /\ PlanHas(DalyLine!Classic(InitCmds), 0) /\ DalyLine!Classic(InitCmds) # <<>>
  <1>1. DalyLine!NoSnapshot \in Shots
    BY DEF DalyLine!NoSnapshot, Shots, Shapes, Sole, LineSizes
  <1>2. PlanHas(DalyLine!Classic(InitCmds), 0) /\ DalyLine!Classic(InitCmds) # <<>>
    BY ClassicHas DEF LineSizes
  <1> QED BY <1>1, <1>2 DEF DalyLine!Nothing

LEMMA RestartTyped ==
    ASSUME LineTyped, DalyLine!Restart
    PROVE  LineParted
  <1>1. LineSizes /\ LineTask /\ LineData /\ LineWire
    BY DEF LineTyped
  <1>2. /\ swaps < MaxSwaps /\ swaps' = swaps + 1 /\ task' = "ask" /\ plan' = DalyLine!Classic(InitCmds) /\ any' = FALSE
        /\ matched' = 0 /\ expected' = 0 /\ left' = 0 /\ hard' = 0 /\ partial' = {}
        /\ record' = DalyLine!NoSnapshot /\ frame' = DalyLine!MaxAge /\ out' = DalyLine!Nothing
        /\ air' = DalyLine!NoAnswer /\ UNCHANGED <<battery, gen, heard, faults>>
    BY DEF DalyLine!Restart, DalyLine!Cleared
  <1>3. /\ DalyLine!NoSnapshot \in Shots /\ ~DalyLine!Nothing.have
        /\ PlanHas(plan', 0) /\ plan' # <<>>
    BY <1>1, <1>2, LineFirst
  <1>4. LineTask'
    <2>1. /\ matched' \in 0..MaxCells /\ expected' \in 0..MaxCells
          /\ left' \in 0..Timeout /\ hard' \in 0..(2 * Timeout) /\ left' <= hard'
      BY <1>1, <1>2 DEF LineSizes
    <2>2. any' \in BOOLEAN
      BY <1>2
    <2> QED BY <1>2, <1>3, <2>1, <2>2 DEF LineTask
  <1>5. LineData'
    <2>1. frame' \in 0..DalyLine!MaxAge
      BY <1>1, <1>2, LineAges
    <2> QED BY <1>2, <1>3, <2>1 DEF LineData, DalyLine!MaxAge, DalyLine!LongRound
  <1>6. LineWire'
    <2>1. swaps' \in 0..MaxSwaps /\ gen' \in 1..(swaps' + 1)
      BY <1>1, <1>2 DEF LineWire, LineSizes
    <2>2. battery' \in Batteries /\ heard' \in 0..DalyLine!MaxAge /\ faults' \in 0..MaxFaults
      BY <1>1, <1>2 DEF LineWire
    <2> QED BY <1>1, <1>2, <2>1, <2>2, NoneIsSole, WireGoes
  <1> QED BY <1>4, <1>5, <1>6 DEF LineParted

\* What happens on the line.
LEMMA HarmedTyped ==
    ASSUME LineTyped, DalyLine!Harmed \/ DalyLine!Swap
    PROVE  LineParted
  <1>1. LineSizes /\ LineTask /\ LineData /\ LineWire
    BY DEF LineTyped
  <1>2. ASSUME DalyLine!Lose \/ DalyLine!SpoilBlock \/ DalyLine!SpoilClassic
        PROVE  /\ faults < MaxFaults /\ faults' = faults + 1 /\ air # DalyLine!NoAnswer
               /\ UNCHANGED <<task, plan, any, matched, expected, left, hard, partial, record, frame, out, battery, gen,
                              swaps, heard>>
    BY <1>2 DEF DalyLine!Lose, DalyLine!SpoilBlock, DalyLine!SpoilClassic, DalyLine!Spoil, DalyLine!Harm, DalyLine!Coming,
                DalyLine!winVars, DalyLine!dataVars, DalyLine!envVars
  <1>3. ASSUME DalyLine!Lose \/ DalyLine!SpoilBlock \/ DalyLine!SpoilClassic,
               air' = DalyLine!NoAnswer \/ AnyBlock(air') \/ AnyFrames(air')
        PROVE  LineParted
    <2>1. /\ faults < MaxFaults /\ faults' = faults + 1
          /\ UNCHANGED <<task, plan, any, matched, expected, left, hard, partial, record, frame, out, battery, gen,
                         swaps, heard>>
      BY <1>2, <1>3
    <2>2. faults' \in 0..MaxFaults
      BY <1>1, <2>1 DEF LineWire, LineSizes
    <2>3. Sole(partial') /\ (\A a \in partial' : AnyBlock(a)) /\ battery' \in Batteries /\ gen' \in 1..(swaps' + 1)
          /\ heard' \in 0..DalyLine!MaxAge /\ swaps' \in 0..MaxSwaps
      BY <1>1, <2>1 DEF LineWire
    <2>4. LineWire'
      BY <1>1, <1>3, <2>2, <2>3, WireGoes
    <2> QED BY <1>1, <2>1, <2>4, LineTaskStays, LineDataStays DEF LineParted
  <1>4. CASE DalyLine!Lose
    BY <1>3, <1>4 DEF DalyLine!Lose
  <1>5. CASE DalyLine!SpoilBlock
    <2>1. PICK h : /\ air.kind = "modbus" /\ air' = IF h = "damaged" THEN [air EXCEPT !.state = h, !.val = Odd] ELSE [air EXCEPT !.state = h]
      BY <1>5 DEF DalyLine!SpoilBlock, DalyLine!Spoil
    <2>2. AnyBlock(air)
      BY <1>1, <1>2, <1>5, <2>1 DEF LineWire, AnyFrames
    <2>3. AnyBlock(air')
      BY <1>1, <2>1, <2>2 DEF AnyBlock, LineSizes
    <2> QED BY <1>3, <1>5, <2>3
  <1>6. CASE DalyLine!SpoilClassic
    <2>1. air.kind = "classic" /\ air' = [air EXCEPT !.state = "noise"]
      BY <1>6 DEF DalyLine!SpoilClassic, DalyLine!Spoil
    <2>2. AnyFrames(air)
      BY <1>1, <1>2, <1>6, <2>1 DEF LineWire, AnyBlock
    <2>3. AnyFrames(air')
      BY <2>1, <2>2 DEF AnyFrames
    <2> QED BY <1>3, <1>6, <2>3
  <1>7. CASE DalyLine!Babble
    <2>1. /\ left' = DalyLine!Min({Idle, hard})
          /\ UNCHANGED <<task, plan, any, matched, expected, hard, partial, record, frame, out, air, battery, gen, swaps,
                         heard, faults>>
      BY <1>7 DEF DalyLine!Babble, DalyLine!dataVars, DalyLine!envVars
    <2>2. hard \in Nat /\ Idle \in Nat /\ Idle <= Timeout /\ Timeout \in Nat
      BY <1>1 DEF LineTask, LineSizes
    <2>3. left' \in 0..Timeout /\ left' <= hard'
      BY <2>1, <2>2, LesserIs
    <2>4. LineTask'
      BY <1>1, <2>1, <2>3 DEF LineTask
    <2>5. LineWire'
      BY <1>1, <2>1 DEF LineWire, DalyLine!MaxAge, DalyLine!LongRound, DalyLine!NoAnswer
    <2> QED BY <1>1, <2>1, <2>4, <2>5, LineDataStays DEF LineParted
  <1>8. CASE DalyLine!Swap
    <2>1. /\ swaps < MaxSwaps /\ swaps' = swaps + 1 /\ gen' = gen + 1 /\ battery' \in Batteries
          /\ air' = DalyLine!NoAnswer
          /\ UNCHANGED <<task, plan, any, matched, expected, left, hard, partial, record, frame, out, heard, faults>>
      BY <1>8 DEF DalyLine!Swap, DalyLine!winVars, DalyLine!dataVars
    <2>2. swaps' \in 0..MaxSwaps /\ gen' \in 1..(swaps' + 1)
      BY <1>1, <2>1 DEF LineWire, LineSizes
    <2>3. Sole(partial') /\ (\A a \in partial' : AnyBlock(a)) /\ heard' \in 0..DalyLine!MaxAge /\ faults' \in 0..MaxFaults
      BY <1>1, <2>1 DEF LineWire
    <2>4. LineWire'
      BY <1>1, <2>1, <2>2, <2>3, WireGoes
    <2> QED BY <1>1, <2>1, <2>4, LineTaskStays, LineDataStays DEF LineParted
  <1> QED BY <1>4, <1>5, <1>6, <1>7, <1>8 DEF DalyLine!Harmed

LEMMA LineStartsTyped == LineAssumed /\ DalyLine!Init => LineTyped
  <1> SUFFICES ASSUME LineAssumed, DalyLine!Init PROVE LineTyped
    OBVIOUS
  <1>1. LineSizes
    BY LineSizesAre
  <1>2. DalyLine!NoSnapshot \in Shots /\ ~DalyLine!Nothing.have /\ PlanHas(plan, 0) /\ plan # <<>>
        /\ DalyLine!MaxAge \in 0..DalyLine!MaxAge
    BY <1>1, LineFirst, LineAges DEF DalyLine!Init
  <1>3. LineTask
    <2>1. /\ task = "ask" /\ matched \in 0..MaxCells /\ expected \in 0..MaxCells
          /\ left \in 0..Timeout /\ hard \in 0..(2 * Timeout) /\ left <= hard
      BY <1>1 DEF LineSizes, DalyLine!Init
    <2>2. any \in BOOLEAN
      BY DEF DalyLine!Init
    <2> QED BY <1>2, <2>1, <2>2 DEF LineTask
  <1>4. LineData
    BY <1>2 DEF LineData, DalyLine!Init
  <1>5. LineWire
    BY <1>1, <1>2, NoneIsSole DEF LineWire, DalyLine!Init, LineSizes
  <1> QED BY <1>1, <1>3, <1>4, <1>5 DEF LineTyped

LEMMA LineStepTyped == LineTyped /\ [DalyLine!Next]_(DalyLine!vars) => LineTyped'
  <1> SUFFICES ASSUME LineTyped, [DalyLine!Next]_(DalyLine!vars) PROVE LineTyped'
    OBVIOUS
  <1>1. LineSizes /\ LineTask /\ LineData /\ LineWire
    BY DEF LineTyped
  <1>2. LineSizes'
    BY <1>1 DEF LineSizes, DalyBus!Cmds
  <1>3. CASE DalyLine!WriteFails
    <2>1. task = "ask" /\ faults < MaxFaults /\ faults' = faults + 1 /\ DalyLine!Over(FALSE)
          /\ UNCHANGED <<record, frame, out, air, battery, gen, swaps, heard>>
      BY <1>3 DEF DalyLine!WriteFails, DalyLine!dataVars, DalyLine!envVars
    <2>2. LineTask' /\ partial' = {}
      BY <1>1, <2>1, OverTyped
    <2>3. faults' \in 0..MaxFaults
      BY <1>1, <2>1 DEF LineWire, LineSizes
    <2>4. /\ air' = DalyLine!NoAnswer \/ AnyBlock(air') \/ AnyFrames(air')
          /\ battery' \in Batteries /\ gen' \in 1..(swaps' + 1) /\ heard' \in 0..DalyLine!MaxAge
          /\ swaps' \in 0..MaxSwaps /\ Sole(partial') /\ \A a \in partial' : AnyBlock(a)
      BY <1>1, <2>1, <2>2, NoneIsSole DEF LineWire
    <2>5. LineWire'
      BY <1>1, <2>3, <2>4, WireGoes
    <2> QED BY <1>1, <1>2, <2>1, <2>2, <2>5, LineDataStays DEF LineTyped
  <1>4. CASE UNCHANGED DalyLine!vars
    <2>1. UNCHANGED <<task, plan, any, matched, expected, left, hard, partial, record, frame, out, air, battery, gen,
                      swaps, heard, faults>>
      BY <1>4 DEF DalyLine!vars, DalyLine!winVars, DalyLine!dataVars, DalyLine!envVars
    <2>2. LineWire'
      BY <1>1, <2>1 DEF LineWire, DalyLine!MaxAge, DalyLine!LongRound, DalyLine!NoAnswer
    <2> QED BY <1>1, <1>2, <2>1, <2>2, LineTaskStays, LineDataStays DEF LineTyped
  <1>5. CASE DalyLine!Ask \/ DalyLine!Read \/ DalyLine!Wait \/ DalyLine!RoundEnds \/ DalyLine!Restart \/ DalyLine!Harmed \/ DalyLine!Swap
    <2>1. LineParted
      BY <1>5, AskTyped, ReadTyped, WaitTyped, RoundTyped, RestartTyped, HarmedTyped
    <2> QED BY <1>2, <2>1 DEF LineTyped, LineParted
  <1> QED BY <1>3, <1>4, <1>5 DEF DalyLine!Next

\* The Daly source on RS485 keeps to its bounds: the plan of requests, both deadlines, the count of frames and
\* what is left of a block stay what dalyPollCommand, dalyPollModbusRead and dalyTask make them, and the snapshot is
\* of frames and blocks, for every list of commands and addresses, all times, batteries and harms.
THEOREM LineKeepsTypes == LineAssumed /\ DalyLine!Spec => []DalyLine!TypeOK
  BY LineIsTypeOK, LineStartsTyped, LineStepTyped, PTL DEF DalyLine!Spec

-----------------------------------------------------------------------------
(* What the age of the battery's last word, of the snapshot and of what is *)
(* left of a round have to do with each other.                             *)

\* The longest that the rest of a round may take: what is asked in it, and its end.
LineDue(t, h, n, m) ==
    CASE t = "round" -> 1
      [] t = "ask"   -> Work(n, m) + 1
      [] t = "wait"  -> h + (Work(n - 1, Behind(m)) + 1)

LineLimit == Window + DalyLine!LongRound + 2 * Timeout

\* The snapshot is at most so much fresher than the battery: a block that was not accepted is only
\* taken at the deadline.
LineFresh == heard <= frame + 2 * Timeout

BlockHeld == partial # {} => task = "wait" /\ heard + hard <= 2 * Timeout

Lasting == \E m : PlanHas(plan, m) /\ (out.have => heard + LineDue(task, hard, Len(plan), m) <= LineLimit)

LineAged == LineFresh /\ BlockHeld /\ Lasting

LEMMA BothGrow ==
    ASSUME LineSizes, NEW a \in 0..DalyLine!MaxAge, NEW b \in 0..DalyLine!MaxAge, a <= b + 2 * Timeout
    PROVE  DalyLine!Grown(a) <= DalyLine!Grown(b) + 2 * Timeout
  <1>1. DalyLine!MaxAge \in Nat
    BY LineAges
  <1>2. 2 * Timeout \in Nat
    BY DEF LineSizes
  <1> DEFINE t == 2 * Timeout
             x == DalyLine!MaxAge
  <1>3. /\ DalyLine!Grown(a) = (IF a >= x THEN x ELSE a + 1)
        /\ DalyLine!Grown(b) = (IF b >= x THEN x ELSE b + 1)
    BY DEF DalyLine!Grown
  <1> HIDE DEF t, x
  <1>4. a \in 0..x /\ b \in 0..x /\ a <= b + t /\ x \in Nat /\ t \in Nat
    BY <1>1, <1>2 DEF t, x
  <1>5. DalyLine!Grown(a) <= DalyLine!Grown(b) + t
    BY <1>3, <1>4
  <1> QED BY <1>5 DEF t

LEMMA OneGrows ==
    ASSUME LineSizes, NEW a \in 0..DalyLine!MaxAge
    PROVE  DalyLine!Grown(a) \in Nat /\ DalyLine!Grown(a) <= a + 1
  <1>1. DalyLine!MaxAge \in Nat
    BY LineAges
  <1> DEFINE x == DalyLine!MaxAge
  <1> HIDE DEF x
  <1>2. DalyLine!Grown(a) = (IF a >= x THEN x ELSE a + 1)
    BY DEF DalyLine!Grown, x
  <1>3. a \in 0..x /\ x \in Nat
    BY <1>1 DEF x
  <1> QED BY <1>2, <1>3

LEMMA LastsOn ==
    ASSUME NEW m, PlanHas(plan', m), out'.have => heard' + LineDue(task', hard', Len(plan'), m) <= LineLimit
    PROVE  Lasting'
  BY DEF Lasting, LineLimit, DalyLine!LongRound

\* A tick more since the battery spoke, and one less to wait.
LEMMA TickPasses ==
    ASSUME NEW h \in Nat, NEW d \in Nat, NEW b \in Nat, NEW g \in Nat, NEW e \in Nat,
           h + d <= b, g <= h + 1, e + 1 <= d
    PROVE  g + e <= b
  OBVIOUS

LEMMA NoLater ==
    ASSUME NEW h \in Nat, NEW d \in Nat, NEW b \in Nat, NEW g \in Nat, NEW e \in Nat,
           h + d <= b, g <= h, e <= d
    PROVE  g + e <= b
  OBVIOUS

LEMMA LineDueIs ==
    ASSUME LineSizes, NEW q, NEW m, PlanHas(q, m)
    PROVE  /\ \A h : LineDue("round", h, Len(q), m) = 1
           /\ \A h : LineDue("ask", h, Len(q), m) = Work(Len(q), m) + 1
           /\ Work(Len(q), m) \in Nat
  <1>1. Len(q) \in Nat /\ m \in 0..Len(q)
    BY DEF PlanHas
  <1>2. Work(Len(q), m) \in Nat
    BY <1>1, WorkIs
  <1>3. \A h : LineDue("round", h, Len(q), m) = 1
    BY DEF LineDue
  <1>4. \A h : LineDue("ask", h, Len(q), m) = Work(Len(q), m) + 1
    BY DEF LineDue
  <1> QED BY <1>2, <1>3, <1>4

LEMMA BehindIs ==
    ASSUME LineSizes, NEW q, NEW m, PlanHas(q, m), q # <<>>
    PROVE  /\ Work(Len(q) - 1, Behind(m)) \in Nat
           /\ m > 0 => Work(Len(q), m) = 2 * Timeout + Work(Len(q) - 1, Behind(m))
           /\ ~(m > 0) => Work(Len(q), m) = 1 + Work(Len(q) - 1, Behind(m))
  <1>1. Len(q) \in Nat /\ m \in 0..Len(q)
    BY DEF PlanHas
  <1>2. Len(q) - 1 \in Nat /\ Behind(m) \in 0..(Len(q) - 1)
    BY <1>1, TailHas DEF Behind
  <1>3. Work(Len(q) - 1, Behind(m)) \in Nat
    BY <1>2, WorkIs
  <1>4. m > 0 => Work(Len(q), m) = 2 * Timeout + Work(Len(q) - 1, Behind(m))
    BY <1>1, WorkIs DEF Behind
  <1>5. ASSUME ~(m > 0) PROVE Work(Len(q), m) = 1 + Work(Len(q) - 1, Behind(m))
    <2>1. Behind(m) = 0 /\ m = 0
      BY <1>1, <1>5 DEF Behind
    <2>2. Work(Len(q), m) = Len(q)
      BY <1>1, <2>1, WorkIs
    <2>3. Work(Len(q) - 1, Behind(m)) = Len(q) - 1
      BY <1>2, <2>1, WorkIs
    <2> QED BY <1>1, <2>2, <2>3
  <1> QED BY <1>3, <1>4, <1>5

\* When a request is over, no more is due than the requests behind it.
LEMMA OverDue ==
    ASSUME LineSizes, NEW m, PlanHas(plan, m), plan # <<>>, NEW a \in BOOLEAN, DalyLine!Over(a)
    PROVE  \E k : /\ PlanHas(plan', k) /\ LineDue(task', hard', Len(plan'), k) \in Nat
                  /\ LineDue(task', hard', Len(plan'), k) <= Work(Len(plan) - 1, Behind(m)) + 1
  <1>1. PICK k : /\ PlanHas(DalyLine!Remaining(a), k)
                 /\ Work(Len(DalyLine!Remaining(a)), k) <= Work(Len(plan) - 1, Behind(m))
    BY RemainingHas
  <1>2. plan' = DalyLine!Remaining(a) /\ task' \in {"round", "ask"} /\ hard' = 0
    BY DEF DalyLine!Over
  <1> DEFINE q == DalyLine!Remaining(a)
  <1>3. PlanHas(q, k)
    BY <1>1
  <1>4. Work(Len(q), k) <= Work(Len(plan) - 1, Behind(m))
    BY <1>1
  <1>5. q = plan'
    BY <1>2
  <1> HIDE DEF q
  <1>6. LineDue("round", 0, Len(q), k) = 1 /\ LineDue("ask", 0, Len(q), k) = Work(Len(q), k) + 1 /\ Work(Len(q), k) \in Nat
    BY <1>3, LineDueIs
  <1>7. Work(Len(plan) - 1, Behind(m)) \in Nat
    BY BehindIs
  <1>8. LineDue(task', 0, Len(q), k) \in Nat /\ LineDue(task', 0, Len(q), k) <= Work(Len(plan) - 1, Behind(m)) + 1
    BY <1>2, <1>4, <1>6, <1>7
  <1> QED BY <1>2, <1>3, <1>5, <1>8

LEMMA LineLimitIs == LineSizes => LineLimit \in Nat /\ 2 * Timeout \in Nat
  BY LineAges DEF LineSizes, LineLimit

LEMMA LineTimes ==
    ASSUME LineTyped
    PROVE  /\ LineSizes /\ heard \in Nat /\ heard <= DalyLine!MaxAge /\ frame \in Nat /\ hard \in Nat /\ hard <= 2 * Timeout
           /\ left \in Nat /\ left <= hard /\ LineLimit \in Nat /\ 2 * Timeout \in Nat /\ DalyLine!MaxAge \in Nat
           /\ heard \in 0..DalyLine!MaxAge /\ frame \in 0..DalyLine!MaxAge
  <1>1. LineSizes /\ LineTask /\ LineData /\ LineWire
    BY DEF LineTyped
  <1>2. heard \in 0..DalyLine!MaxAge /\ frame \in 0..DalyLine!MaxAge /\ DalyLine!MaxAge \in Nat
    BY <1>1, LineAges DEF LineData, LineWire
  <1>3. hard \in 0..(2 * Timeout) /\ left \in 0..Timeout /\ left <= hard /\ LineLimit \in Nat /\ 2 * Timeout \in Nat
        /\ Timeout \in Nat
    BY <1>1, LineLimitIs DEF LineTask, LineSizes
  <1>4. heard \in Nat /\ heard <= DalyLine!MaxAge /\ frame \in Nat
    BY <1>2
  <1>5. hard \in Nat /\ hard <= 2 * Timeout /\ left \in Nat
    BY <1>3
  <1> QED BY <1>1, <1>2, <1>3, <1>4, <1>5

LEMMA AskAges ==
    ASSUME LineTyped, LineAged, DalyLine!Ask
    PROVE  LineAged'
  <1>1. /\ task = "ask" /\ task' = "wait" /\ partial' = {}
        /\ hard' = (IF Head(plan).kind = "modbus" THEN 2 * Timeout ELSE 1)
        /\ UNCHANGED <<plan, out, heard, frame>>
    BY DEF DalyLine!Ask, DalyLine!dataVars
  <1>2. /\ LineSizes /\ heard \in Nat /\ LineLimit \in Nat /\ 2 * Timeout \in Nat
    BY LineTimes
  <1>3. PICK m : PlanHas(plan, m) /\ (out.have => heard + LineDue(task, hard, Len(plan), m) <= LineLimit)
    BY DEF LineAged, Lasting
  <1>4. plan # <<>>
    BY <1>1 DEF LineTyped, LineTask
  <1> DEFINE w == Work(Len(plan) - 1, Behind(m))
             v == Work(Len(plan), m)
  <1>5. w \in Nat /\ (m > 0 => v = 2 * Timeout + w) /\ (~(m > 0) => v = 1 + w)
    BY <1>2, <1>3, <1>4, BehindIs
  <1>6. Head(plan).kind = "modbus" <=> m > 0
    <2>1. Head(plan) = plan[1]
      BY <1>3, <1>4 DEF PlanHas
    <2> QED BY <2>1, <1>3, <1>4, TailHas
  <1>7. LineDue(task, hard, Len(plan), m) = v + 1
    BY <1>1 DEF LineDue
  <1>8. LineDue(task', hard', Len(plan'), m) = hard' + (w + 1)
    BY <1>1 DEF LineDue
  <1> HIDE DEF w, v
  <1>9. hard' + (w + 1) = v + 1
    BY <1>1, <1>2, <1>5, <1>6
  <1>10. out'.have => heard' + LineDue(task', hard', Len(plan'), m) <= LineLimit
    BY <1>1, <1>3, <1>7, <1>8, <1>9
  <1>11. PlanHas(plan', m)
    BY <1>1, <1>3
  <1>12. Lasting'
    BY <1>10, <1>11, LastsOn
  <1>13. LineFresh'
    BY <1>1 DEF LineAged, LineFresh
  <1>14. BlockHeld'
    BY <1>1 DEF BlockHeld
  <1> QED BY <1>12, <1>13, <1>14 DEF LineAged

\* A request that is over within a tick, with the source still as fresh.
LEMMA OverAges ==
    ASSUME LineTyped, LineAged, task \in {"ask", "wait"}, NEW a \in BOOLEAN, DalyLine!Over(a), out' = out,
           heard' \in Nat, heard' <= heard \/ (heard' <= heard + 1 /\ task = "wait" /\ hard >= 1)
    PROVE  Lasting' /\ BlockHeld'
  <1>1. /\ LineSizes /\ heard \in Nat /\ LineLimit \in Nat /\ 2 * Timeout \in Nat /\ hard \in Nat
    BY LineTimes
  <1>2. PICK m : PlanHas(plan, m) /\ (out.have => heard + LineDue(task, hard, Len(plan), m) <= LineLimit)
    BY DEF LineAged, Lasting
  <1>3. plan # <<>>
    BY DEF LineTyped, LineTask
  <1> DEFINE w == Work(Len(plan) - 1, Behind(m))
             v == Work(Len(plan), m)
             d == LineDue(task, hard, Len(plan), m)
  <1>4. w \in Nat /\ (m > 0 => v = 2 * Timeout + w) /\ (~(m > 0) => v = 1 + w)
    BY <1>1, <1>2, <1>3, BehindIs
  <1>5. PICK k : /\ PlanHas(plan', k) /\ LineDue(task', hard', Len(plan'), k) \in Nat
                 /\ LineDue(task', hard', Len(plan'), k) <= w + 1
    BY <1>1, <1>2, <1>3, OverDue
  <1>6. (task = "ask" => d = v + 1) /\ (task = "wait" => d = hard + (w + 1))
    BY DEF LineDue
  <1> DEFINE e == LineDue(task', hard', Len(plan'), k)
  <1>7. e \in Nat /\ e <= w + 1 /\ (out.have => heard + d <= LineLimit)
    BY <1>2, <1>5
  <1> HIDE DEF w, v, d, e
  <1>8. d \in Nat /\ e <= d /\ (task = "wait" /\ hard >= 1 => e + 1 <= d)
    BY <1>1, <1>4, <1>6, <1>7
  <1>9. ASSUME out'.have PROVE heard' + e <= LineLimit
    <2>1. heard + d <= LineLimit
      BY <1>7, <1>9
    <2>2. CASE heard' <= heard
      BY <1>1, <1>7, <1>8, <2>1, <2>2, NoLater
    <2>3. CASE heard' <= heard + 1 /\ task = "wait" /\ hard >= 1
      BY <1>1, <1>7, <1>8, <2>1, <2>3, TickPasses
    <2> QED BY <2>2, <2>3
  <1>10. Lasting'
    <2>1. out'.have => heard' + LineDue(task', hard', Len(plan'), k) <= LineLimit
      BY <1>9 DEF e
    <2> QED BY <1>5, <2>1, LastsOn
  <1>11. BlockHeld'
    BY DEF BlockHeld, DalyLine!Over
  <1> QED BY <1>10, <1>11

LEMMA ReadAges ==
    ASSUME LineTyped, LineAged, DalyLine!Read
    PROVE  LineAged'
  <1>1. task = "wait" /\ heard' = 0 /\ out' = out
    BY DEF DalyLine!Read, DalyLine!ReadBlock, DalyLine!ReadClassic, DalyLine!Coming, DalyLine!TakeBlock, DalyLine!dataVars
  <1>2. /\ LineSizes /\ heard \in Nat /\ LineLimit \in Nat /\ 2 * Timeout \in Nat /\ hard \in Nat /\ hard <= 2 * Timeout
        /\ frame \in Nat
    BY LineTimes
  <1>3. frame' \in Nat
    <2>1. LineData'
      BY ReadTyped DEF LineParted
    <2>2. DalyLine!MaxAge' = DalyLine!MaxAge /\ DalyLine!MaxAge \in Nat
      BY LineTimes DEF DalyLine!MaxAge, DalyLine!LongRound
    <2> QED BY <2>1, <2>2 DEF LineData
  <1>4. LineFresh'
    <2>1. 0 <= frame' + 2 * Timeout
      BY <1>2, <1>3, SumIs
    <2> QED BY <1>1, <2>1 DEF LineFresh
  <1>5. CASE DalyLine!Over(TRUE)
    <2>1. heard' \in Nat /\ heard' <= heard /\ task \in {"ask", "wait"}
      BY <1>1, <1>2
    <2>2. Lasting' /\ BlockHeld'
      BY <1>1, <1>5, <2>1, OverAges
    <2> QED BY <1>4, <2>2 DEF LineAged
  <1>6. CASE UNCHANGED <<task, plan, hard>>
    <2>1. BlockHeld'
      <3>1. heard' + hard' <= 2 * Timeout
        BY <1>1, <1>2, <1>6
      <3> QED BY <1>1, <1>6, <3>1 DEF BlockHeld
    <2>2. PICK m : PlanHas(plan, m) /\ (out.have => heard + LineDue(task, hard, Len(plan), m) <= LineLimit)
      BY DEF LineAged, Lasting
    <2> DEFINE d == LineDue(task, hard, Len(plan), m)
               w == Work(Len(plan) - 1, Behind(m))
    <2>3. d \in Nat
      <3>1. plan # <<>>
        BY <1>1 DEF LineTyped, LineTask
      <3>2. w \in Nat
        BY <1>2, <2>2, <3>1, BehindIs
      <3>3. d = hard + (w + 1)
        BY <1>1 DEF LineDue
      <3> HIDE DEF d, w
      <3> QED BY <1>2, <3>2, <3>3
    <2>4. out.have => heard + d <= LineLimit
      BY <2>2
    <2>5. LineDue(task', hard', Len(plan'), m) = d
      BY <1>6
    <2> HIDE DEF d
    <2>6. out.have => 0 + d <= LineLimit
      BY <1>2, <2>3, <2>4
    <2>7. out'.have => heard' + LineDue(task', hard', Len(plan'), m) <= LineLimit
      BY <1>1, <2>5, <2>6
    <2>8. PlanHas(plan', m)
      BY <1>6, <2>2
    <2>9. Lasting'
      BY <2>7, <2>8, LastsOn
    <2> QED BY <1>4, <2>1, <2>9 DEF LineAged
  <1>7. DalyLine!Over(TRUE) \/ UNCHANGED <<task, plan, hard>>
    BY DEF DalyLine!Read, DalyLine!ReadBlock, DalyLine!ReadClassic
  <1> QED BY <1>5, <1>6, <1>7

LEMMA OneOff ==
    ASSUME NEW a \in Nat, NEW b, b = a - 1, a > 1, NEW w \in Nat
    PROVE  /\ b \in Nat /\ b + 1 <= a
           /\ a + (w + 1) \in Nat /\ b + (w + 1) \in Nat /\ (b + (w + 1)) + 1 <= a + (w + 1)
  OBVIOUS

\* A tick less is left, and a tick more has passed.
LEMMA WaitsAges ==
    ASSUME LineTyped, LineAged, DalyLine!Waits
    PROVE  LineAged'
  <1>1. /\ task = "wait" /\ left > 1 /\ heard' = DalyLine!Grown(heard) /\ frame' = DalyLine!Grown(frame)
        /\ hard' = hard - 1 /\ UNCHANGED <<task, plan, partial, out>>
    BY DEF DalyLine!Waits, DalyLine!Tick
  <1>2. /\ LineSizes /\ heard \in Nat /\ LineLimit \in Nat /\ 2 * Timeout \in Nat /\ hard \in Nat /\ left <= hard
        /\ left \in Nat /\ frame \in Nat /\ heard \in 0..DalyLine!MaxAge /\ frame \in 0..DalyLine!MaxAge
    BY LineTimes
  <1>3. hard' \in Nat /\ hard' + 1 <= hard /\ hard > 1
    <2>1. hard > 1 /\ 0 \in Nat
      BY <1>1, <1>2
    <2> QED BY <1>1, <1>2, <2>1, OneOff
  <1>4. heard' \in Nat /\ heard' <= heard + 1
    BY <1>1, <1>2, OneGrows
  <1>5. LineFresh'
    <2>1. DalyLine!Grown(heard) <= DalyLine!Grown(frame) + 2 * Timeout
      BY <1>2, BothGrow DEF LineAged, LineFresh
    <2> QED BY <1>1, <2>1 DEF LineFresh
  <1>6. BlockHeld'
    <2>1. ASSUME partial' # {} PROVE heard' + hard' <= 2 * Timeout
      <3>1. heard + hard <= 2 * Timeout
        BY <1>1, <2>1 DEF LineAged, BlockHeld
      <3> QED BY <1>2, <1>3, <1>4, <3>1, TickPasses
    <2> QED BY <1>1, <2>1 DEF BlockHeld
  <1>7. PICK m : PlanHas(plan, m) /\ (out.have => heard + LineDue(task, hard, Len(plan), m) <= LineLimit)
    BY DEF LineAged, Lasting
  <1> DEFINE w == Work(Len(plan) - 1, Behind(m))
             d == LineDue(task, hard, Len(plan), m)
             e == LineDue(task', hard', Len(plan'), m)
  <1>8. d = hard + (w + 1) /\ e = hard' + (w + 1)
    BY <1>1 DEF LineDue
  <1>9. w \in Nat
    <2>1. plan # <<>>
      BY <1>1 DEF LineTyped, LineTask
    <2> QED BY <1>2, <1>7, <2>1, BehindIs
  <1>10. out.have => heard + d <= LineLimit
    BY <1>7
  <1> HIDE DEF w, d, e
  <1>11. d \in Nat /\ e \in Nat /\ e + 1 <= d
    BY <1>1, <1>2, <1>3, <1>8, <1>9, OneOff
  <1>12. ASSUME out'.have PROVE heard' + e <= LineLimit
    <2>1. heard + d <= LineLimit
      BY <1>1, <1>10, <1>12
    <2> QED BY <1>2, <1>4, <1>11, <2>1, TickPasses
  <1>13. Lasting'
    <2>1. out'.have => heard' + LineDue(task', hard', Len(plan'), m) <= LineLimit
      BY <1>12 DEF e
    <2>2. PlanHas(plan', m)
      BY <1>1, <1>7
    <2> QED BY <2>1, <2>2, LastsOn
  <1> QED BY <1>5, <1>6, <1>13 DEF LineAged

\* The deadline: a block that is taken now came when the request was already waiting.
LEMMA WaitEndsAges ==
    ASSUME LineTyped, LineAged, DalyLine!WaitEnds
    PROVE  LineAged'
  <1>1. /\ task = "wait" /\ left = 1 /\ heard' = DalyLine!Grown(heard) /\ out' = out
        /\ frame' = DalyLine!Grown(frame) \/ (partial # {} /\ frame' \in {0, frame})
    BY DEF DalyLine!WaitEnds, DalyLine!Tick, DalyLine!TakeBlock
  <1>2. /\ LineSizes /\ heard \in Nat /\ LineLimit \in Nat /\ 2 * Timeout \in Nat /\ hard \in Nat /\ left <= hard
        /\ left \in Nat /\ frame \in Nat /\ heard \in 0..DalyLine!MaxAge /\ frame \in 0..DalyLine!MaxAge
    BY LineTimes
  <1>3. heard' \in Nat /\ heard' <= heard + 1 /\ hard >= 1
    BY <1>1, <1>2, OneGrows
  <1>4. Lasting' /\ BlockHeld'
    <2> DEFINE b == (matched > 0)
    <2>1. DalyLine!Over(TRUE) \/ DalyLine!Over(b)
      BY DEF DalyLine!WaitEnds
    <2>2. b \in BOOLEAN
      OBVIOUS
    <2> HIDE DEF b
    <2> QED BY <1>1, <1>3, <2>1, <2>2, OverAges
  <1>5. LineFresh'
    <2>1. CASE frame' = DalyLine!Grown(frame)
      <3>1. DalyLine!Grown(heard) <= DalyLine!Grown(frame) + 2 * Timeout
        BY <1>2, BothGrow DEF LineAged, LineFresh
      <3> QED BY <1>1, <2>1, <3>1 DEF LineFresh
    <2>2. CASE partial # {} /\ frame' \in {0, frame}
      <3>1. heard + hard <= 2 * Timeout
        BY <2>2 DEF LineAged, BlockHeld
      <3>2. heard' <= 2 * Timeout
        <4>1. heard + 1 <= 2 * Timeout
          BY <1>2, <1>3, <3>1
        <4> DEFINE t == 2 * Timeout
        <4>2. t \in Nat /\ heard + 1 \in Nat /\ heard + 1 <= t
          BY <1>2, <4>1
        <4> HIDE DEF t
        <4>3. heard' <= t
          BY <1>3, <4>2, Follows
        <4> QED BY <4>3 DEF t
      <3>3. frame' \in Nat
        BY <1>2, <2>2
      <3>4. heard' <= frame' + 2 * Timeout
        BY <1>2, <1>3, <3>2, <3>3
      <3> QED BY <3>4 DEF LineFresh
    <2> QED BY <1>1, <2>1, <2>2
  <1> QED BY <1>4, <1>5 DEF LineAged

LEMMA InWindow ==
    ASSUME NEW h \in Nat, NEW f \in Nat, NEW t \in Nat, NEW w \in Nat, NEW r \in Nat, h <= f + t, ~(f > w)
    PROVE  h + r <= w + r + t
  OBVIOUS

\* At the end of a round what is too old is taken back, and anything else has a whole round to go.
LEMMA RoundAges ==
    ASSUME LineTyped, LineAged, DalyLine!RoundEnds
    PROVE  LineAged'
  <1>1. /\ task = "round" /\ heard' = DalyLine!Grown(heard) /\ frame' = DalyLine!Grown(frame)
        /\ plan' = DalyLine!Round /\ task' = "ask" /\ partial' = partial
        /\ (frame' > Window => out' = DalyLine!Nothing)
    BY DEF DalyLine!RoundEnds, DalyLine!Tick, DalyLine!winVars, DalyLine!TooOld
  <1>2. /\ LineSizes /\ heard \in Nat /\ LineLimit \in Nat /\ 2 * Timeout \in Nat /\ frame \in Nat
        /\ heard \in 0..DalyLine!MaxAge /\ frame \in 0..DalyLine!MaxAge
    BY LineTimes
  <1>3. heard' \in Nat /\ frame' \in Nat
    BY <1>1, <1>2, OneGrows
  <1>4. LineFresh' /\ heard' <= frame' + 2 * Timeout
    <2>1. DalyLine!Grown(heard) <= DalyLine!Grown(frame) + 2 * Timeout
      BY <1>2, BothGrow DEF LineAged, LineFresh
    <2> QED BY <1>1, <2>1 DEF LineFresh
  <1>5. BlockHeld'
    BY <1>1 DEF LineAged, BlockHeld
  <1> DEFINE m == Len(ModbusAddrs)
             q == DalyLine!Round
             r == DalyLine!LongRound
             t == 2 * Timeout
  <1>6. PlanHas(q, m) /\ Work(Len(q), m) + 1 = r /\ r \in Nat
    BY <1>2, RoundHas
  <1>7. LineDue(task', hard', Len(plan'), m) = r
    <2>1. LineDue("ask", hard', Len(q), m) = Work(Len(q), m) + 1
      BY DEF LineDue
    <2> QED BY <1>1, <1>6, <2>1
  <1>8. ASSUME out'.have PROVE heard' + r <= LineLimit
    <2>1. ~(frame' > Window)
      BY <1>1, <1>8 DEF DalyLine!Nothing
    <2> HIDE DEF r, t
    <2>2. heard' + r <= Window + r + t
      <3>1. Window \in Nat /\ t \in Nat /\ heard' <= frame' + t
        BY <1>2, <1>4 DEF LineSizes, t
      <3> QED BY <1>3, <1>6, <2>1, <3>1, InWindow
    <2> QED BY <2>2 DEF LineLimit, r, t
  <1>9. PlanHas(plan', m)
    BY <1>1, <1>6
  <1>10. Lasting'
    <2>1. out'.have => heard' + LineDue(task', hard', Len(plan'), m) <= LineLimit
      BY <1>7, <1>8
    <2> QED BY <1>9, <2>1, LastsOn
  <1> QED BY <1>4, <1>5, <1>10 DEF LineAged

LEMMA RestartAges ==
    ASSUME LineTyped, LineAged, DalyLine!Restart
    PROVE  LineAged'
  <1>1. /\ plan' = DalyLine!Classic(InitCmds) /\ partial' = {} /\ frame' = DalyLine!MaxAge /\ heard' = heard
        /\ out' = DalyLine!Nothing
    BY DEF DalyLine!Restart, DalyLine!Cleared
  <1>2. /\ LineSizes /\ heard \in Nat /\ heard <= DalyLine!MaxAge /\ DalyLine!MaxAge \in Nat /\ 2 * Timeout \in Nat
    BY LineTimes
  <1>3. LineFresh'
    <2>1. heard <= DalyLine!MaxAge + 2 * Timeout
      BY <1>2
    <2> QED BY <1>1, <2>1 DEF LineFresh
  <1>4. BlockHeld'
    BY <1>1 DEF BlockHeld
  <1>5. Lasting'
    <2>1. PlanHas(plan', 0) /\ ~out'.have
      BY <1>1, <1>2, LineFirst
    <2> QED BY <2>1, LastsOn
  <1> QED BY <1>3, <1>4, <1>5 DEF LineAged

LEMMA AgedStays ==
    ASSUME LineAged, UNCHANGED <<task, plan, hard, partial, out, heard, frame>>
    PROVE  LineAged'
  <1>1. PICK m : PlanHas(plan, m) /\ (out.have => heard + LineDue(task, hard, Len(plan), m) <= LineLimit)
    BY DEF LineAged, Lasting
  <1>2. PlanHas(plan', m) /\ (out'.have => heard' + LineDue(task', hard', Len(plan'), m) <= LineLimit)
    BY <1>1
  <1>3. Lasting'
    BY <1>2, LastsOn
  <1> QED BY <1>3 DEF LineAged, LineFresh, BlockHeld

LEMMA LineStartsAged == LineTyped /\ DalyLine!Init => LineAged
  <1> SUFFICES ASSUME LineTyped, DalyLine!Init PROVE LineAged
    OBVIOUS
  <1>1. heard = DalyLine!MaxAge /\ frame = DalyLine!MaxAge /\ partial = {} /\ out = DalyLine!Nothing
        /\ plan = DalyLine!Classic(InitCmds)
    BY DEF DalyLine!Init
  <1>2. LineSizes /\ DalyLine!MaxAge \in Nat /\ 2 * Timeout \in Nat
    BY LineTimes
  <1>3. LineFresh
    <2>1. DalyLine!MaxAge <= DalyLine!MaxAge + 2 * Timeout
      BY <1>2
    <2> QED BY <1>1, <2>1 DEF LineFresh
  <1>4. Lasting
    BY <1>1, <1>2, LineFirst DEF Lasting
  <1> QED BY <1>1, <1>3, <1>4 DEF LineAged, BlockHeld

LEMMA LineStepAged == LineTyped /\ LineAged /\ [DalyLine!Next]_(DalyLine!vars) => LineAged'
  <1> SUFFICES ASSUME LineTyped, LineAged, [DalyLine!Next]_(DalyLine!vars) PROVE LineAged'
    OBVIOUS
  <1>1. CASE DalyLine!WriteFails \/ DalyLine!Enough
    <2>1. /\ task \in {"ask", "wait"}
          /\ DalyLine!Over(TRUE) \/ DalyLine!Over(FALSE)
          /\ UNCHANGED <<out, heard, frame>>
      BY <1>1 DEF DalyLine!WriteFails, DalyLine!Enough, DalyLine!dataVars
    <2>2. heard' \in Nat /\ heard' <= heard
      BY <2>1, LineTimes
    <2>3. Lasting' /\ BlockHeld'
      BY <2>1, <2>2, OverAges
    <2>4. LineFresh'
      BY <2>1 DEF LineAged, LineFresh
    <2> QED BY <2>3, <2>4 DEF LineAged
  <1>2. CASE DalyLine!Harmed \/ DalyLine!Swap \/ UNCHANGED DalyLine!vars
    <2>1. UNCHANGED <<task, plan, hard, partial, out, heard, frame>>
      BY <1>2 DEF DalyLine!Harmed, DalyLine!Lose, DalyLine!SpoilBlock, DalyLine!SpoilClassic, DalyLine!Spoil,
                  DalyLine!Babble, DalyLine!Swap, DalyLine!vars, DalyLine!winVars, DalyLine!dataVars, DalyLine!envVars
    <2> QED BY <2>1, AgedStays
  <1>3. CASE DalyLine!Ask \/ DalyLine!Read \/ DalyLine!Waits \/ DalyLine!WaitEnds \/ DalyLine!RoundEnds \/ DalyLine!Restart
    BY <1>3, AskAges, ReadAges, WaitsAges, WaitEndsAges, RoundAges, RestartAges
  <1> QED BY <1>1, <1>2, <1>3 DEF DalyLine!Next, DalyLine!Wait

LEMMA AgedIsCleared == LineTyped /\ LineAged => DalyLine!SilentIsCleared
  <1> SUFFICES ASSUME LineTyped, LineAged, out.have PROVE heard <= Window + DalyLine!LongRound + 2 * Timeout
    BY DEF DalyLine!SilentIsCleared
  <1>1. PICK m : PlanHas(plan, m) /\ heard + LineDue(task, hard, Len(plan), m) <= LineLimit
    BY DEF LineAged, Lasting
  <1>2. /\ LineSizes /\ heard \in Nat /\ LineLimit \in Nat /\ hard \in Nat
    BY LineTimes
  <1>3. task \in {"ask", "wait", "round"} /\ (task # "round" => plan # <<>>)
    BY DEF LineTyped, LineTask
  <1> DEFINE d == LineDue(task, hard, Len(plan), m)
             w == Work(Len(plan) - 1, Behind(m))
             v == Work(Len(plan), m)
  <1>4. v \in Nat /\ (task # "round" => w \in Nat)
    BY <1>1, <1>2, <1>3, LineDueIs, BehindIs
  <1>5. (task = "round" => d = 1) /\ (task = "ask" => d = v + 1) /\ (task = "wait" => d = hard + (w + 1))
    BY DEF LineDue
  <1>6. heard + d <= LineLimit
    BY <1>1
  <1> HIDE DEF d, w, v
  <1>7. d \in Nat
    BY <1>2, <1>3, <1>4, <1>5
  <1>8. heard <= LineLimit
    BY <1>2, <1>6, <1>7
  <1> QED BY <1>8 DEF LineLimit

\* A battery that is silent is not shown for longer than the window, a round and the time that bytes can put the
\* end of a request off (dalyTask and dalyPollModbusRead), whatever was damaged, cut off, put off or not written, and
\* with every list of commands and addresses.
THEOREM LineClearsTheSilent == LineAssumed /\ DalyLine!Spec => []DalyLine!SilentIsCleared
  <1>1. LineAssumed /\ DalyLine!Init => LineTyped /\ LineAged
    BY LineStartsTyped, LineStartsAged
  <1>2. LineTyped /\ LineAged /\ [DalyLine!Next]_(DalyLine!vars) => LineTyped' /\ LineAged'
    BY LineStepTyped, LineStepAged
  <1> QED BY <1>1, <1>2, AgedIsCleared, PTL DEF DalyLine!Spec

-----------------------------------------------------------------------------
(* The poller of a Pylon battery.                                          *)

CONSTANTS
    Addresses, CidSeq, Dialects, Adrs, Known, Rejects, Period, Wait, Quiet, Retry, MaxTimeouts

VARIABLES
    sleep, cidIdx, addrIdx, cellAddrIdx, dialect, retry, ask, discover, count, pend, preferred, timeouts,
    silence, valid, modelValid, modelAge, packAge, line

Probe == INSTANCE PylonProbe WITH Stale <- Window, pc <- task, Variants <- Dialects, variant <- dialect

ProbeAssumed == Probe!SeqAssumption /\ Probe!NumberAssumption

ProbeInv == ProbeAssumed /\ Probe!TypeOK

\* The assumptions, as they are used.
Sizes ==
    /\ Len(Addresses) \in Nat \ {0} /\ DOMAIN Addresses = 1..Len(Addresses)
    /\ \A i \in 1..Len(Addresses) : Addresses[i] \in Adrs
    /\ Len(CidSeq) \in Nat \ {0} /\ DOMAIN CidSeq = 1..Len(CidSeq)
    /\ \A i \in 1..Len(CidSeq) : CidSeq[i] \in Probe!Cids
    /\ Adrs \subseteq Nat
    /\ Period \in Nat \ {0} /\ Wait \in Nat \ {0} /\ Wait <= Period
    /\ Timeout \in Nat /\ Window \in Nat /\ Retry \in Nat /\ MaxTimeouts \in Nat \ {0}
    /\ Dialects \in Nat \ {0} /\ MaxFaults \in Nat /\ MaxSwaps \in Nat

LEMMA SizesAre == ProbeAssumed => Sizes
  <1> SUFFICES ASSUME ProbeAssumed PROVE Sizes
    OBVIOUS
  <1>1. Addresses \in Seq(Adrs) /\ Addresses # <<>> /\ Adrs \subseteq Nat
    BY DEF ProbeAssumed, Probe!SeqAssumption
  <1>2. CidSeq \in Seq(Probe!Cids) /\ CidSeq # <<>>
    BY DEF ProbeAssumed, Probe!SeqAssumption, Probe!Cids
  <1>3. /\ Len(Addresses) \in Nat \ {0} /\ DOMAIN Addresses = 1..Len(Addresses)
        /\ \A i \in 1..Len(Addresses) : Addresses[i] \in Adrs
    BY <1>1
  <1>4. /\ Len(CidSeq) \in Nat \ {0} /\ DOMAIN CidSeq = 1..Len(CidSeq)
        /\ \A i \in 1..Len(CidSeq) : CidSeq[i] \in Probe!Cids
    BY <1>2
  <1> QED BY <1>1, <1>3, <1>4 DEF Sizes, ProbeAssumed, Probe!NumberAssumption

\* What there is to know of the task that sends ...
Sending ==
    /\ task \in {"choose", "adr", "send", "next"} /\ sleep \in 0..Period
    /\ cidIdx \in 1..Len(CidSeq) /\ addrIdx \in 1..Len(Addresses)
    /\ cellAddrIdx \in 1..(Len(Addresses) + 1) /\ dialect \in 1..Dialects /\ retry \in 0..Retry
    /\ ask \in Probe!Frame \cup {Probe!NoFrame} /\ discover \in BOOLEAN
    /\ count \in {Len(Addresses), Len(Addresses) + 1}

\* ... of the one that receives ...
Receiving ==
    /\ pend \in [active : BOOLEAN, adr : Adrs \cup {0}, cid : Probe!Cids, due : 0..Timeout]
    /\ preferred \in Adrs \cup {0} /\ timeouts \in 0..MaxTimeouts
    /\ silence \in 0..(Window + 1) /\ valid \subseteq Probe!Cids
    /\ modelValid \in BOOLEAN /\ modelAge \in 0..(Window + 1) /\ packAge \in 0..(Window + 1)

\* ... and of the line.
OnTheLine ==
    /\ line \in Probe!Frame \cup {Probe!NoFrame} /\ battery \in Adrs
    /\ faults \in 0..MaxFaults /\ swaps \in 0..MaxSwaps

LEMMA ProbeParts == Sizes => (Probe!TypeOK <=> Sending /\ Receiving /\ OnTheLine)
  BY DEF Sizes, Probe!TypeOK, Sending, Receiving, OnTheLine, Probe!NoAdr, Probe!Ages

\* The invariant after a step, part by part.
LEMMA ProbeTyped ==
    ASSUME ProbeAssumed, Sending', Receiving', OnTheLine'
    PROVE  ProbeInv'
  <1>1. Sizes
    BY SizesAre
  <1>2. Sizes' /\ ProbeAssumed'
    BY <1>1 DEF Sizes, ProbeAssumed, Probe!SeqAssumption, Probe!NumberAssumption, Probe!Cids
  <1> QED BY <1>2, ProbeParts, PTL DEF ProbeInv

LEMMA SendingStays ==
    ASSUME Sending, UNCHANGED <<task, sleep, cidIdx, addrIdx, cellAddrIdx, dialect, retry, ask, discover, count>>
    PROVE  Sending'
  BY DEF Sending, Probe!Frame, Probe!NoFrame, Probe!NoAdr

LEMMA ReceivingStays ==
    ASSUME Receiving, UNCHANGED <<pend, preferred, timeouts, silence, valid, modelValid, modelAge, packAge>>
    PROVE  Receiving'
  BY DEF Receiving, Probe!Cids

LEMMA LineStays ==
    ASSUME OnTheLine, line' \in Probe!Frame \cup {Probe!NoFrame}, battery' \in Adrs,
           faults' \in 0..MaxFaults, swaps' \in 0..MaxSwaps
    PROVE  OnTheLine'
  BY DEF OnTheLine, Probe!Frame, Probe!NoFrame, Probe!NoAdr

LEMMA ProbeStarts == ProbeAssumed /\ Probe!Init => ProbeInv
  <1> SUFFICES ASSUME ProbeAssumed, Probe!Init PROVE ProbeInv
    OBVIOUS
  <1>1. Sizes
    BY SizesAre
  <1>0. /\ 0 \in 0..Period /\ 1 \in 1..Len(CidSeq) /\ 1 \in 1..Len(Addresses) /\ 1 \in 1..(Len(Addresses) + 1)
        /\ 1 \in 1..Dialects /\ 0 \in 0..Retry /\ 0 \in 0..Timeout /\ 0 \in 0..MaxTimeouts
        /\ 0 \in 0..(Window + 1) /\ Window + 1 \in 0..(Window + 1)
    BY <1>1 DEF Sizes
  <1>2. Sending
    BY <1>0 DEF Probe!Init, Sending
  <1>3. Receiving
    BY <1>0 DEF Probe!Init, Receiving, Probe!NoPending, Probe!NoAdr, Probe!Cids
  <1>4. OnTheLine
    BY <1>1 DEF Probe!Init, Sizes, OnTheLine
  <1> QED BY <1>1, <1>2, <1>3, <1>4, ProbeParts DEF ProbeInv

LEMMA Cycles == ASSUME NEW n \in Nat \ {0}, NEW i \in Nat PROVE Probe!Cycle(i, n) \in 1..n
  BY DEF Probe!Cycle

LEMMA LessIsLess == ASSUME NEW n \in Nat PROVE Probe!Less(n) \in 0..n
  BY DEF Probe!Less

LEMMA OlderIsBounded ==
    ASSUME Window \in Nat, NEW a \in 0..(Window + 1) PROVE Probe!Older(a) \in 0..(Window + 1)
  BY DEF Probe!Older

\* The address that is asked next is one of those that are tried, or the preferred.
LEMMA AskedIsAddress ==
    ASSUME Sizes, Sending, Receiving
    PROVE  /\ Probe!NextAdr \in Adrs /\ Probe!Cid \in Probe!Cids
           /\ Probe!CellIdx \in 1..(Len(Addresses) + 1)
           /\ Probe!CellCount \in {Len(Addresses), Len(Addresses) + 1}
  <1>0. /\ Len(Addresses) \in Nat \ {0} /\ cellAddrIdx \in Nat \ {0} /\ addrIdx \in 1..Len(Addresses)
        /\ \A i \in 1..Len(Addresses) : Addresses[i] \in Adrs
        /\ preferred \in Adrs \cup {0}
    BY DEF Sizes, Sending, Receiving
  <1>1. Probe!CellCount = Len(Addresses) + (IF preferred # 0 THEN 1 ELSE 0)
    BY DEF Probe!CellCount, Probe!NoAdr
  <1>2. Probe!CellCount \in {Len(Addresses), Len(Addresses) + 1} /\ Probe!CellCount \in Nat \ {0}
    BY <1>0, <1>1
  <1>3. Probe!CellIdx \in 1..Probe!CellCount
    BY <1>0, <1>2 DEF Probe!CellIdx
  <1>4. Probe!CellIdx \in 1..(Len(Addresses) + 1)
    BY <1>0, <1>2, <1>3
  <1>5. Probe!CellAdr \in Adrs
    <2>1. CASE preferred = 0
      BY <1>0, <1>1, <1>3, <2>1 DEF Probe!CellAdr, Probe!NoAdr
    <2>2. CASE preferred # 0 /\ Probe!CellIdx = 1
      BY <1>0, <2>2 DEF Probe!CellAdr, Probe!NoAdr
    <2>3. CASE preferred # 0 /\ Probe!CellIdx # 1
      <3>1. Probe!CellIdx - 1 \in 1..Len(Addresses)
        BY <1>0, <1>4, <2>3
      <3> QED BY <1>0, <2>3, <3>1 DEF Probe!CellAdr, Probe!NoAdr
    <2> QED BY <2>1, <2>2, <2>3
  <1>6. Probe!NextAdr \in Adrs
    BY <1>0, <1>5 DEF Probe!NextAdr, Probe!NoAdr
  <1>7. Probe!Cid \in Probe!Cids
    BY DEF Probe!Cid, Sizes, Sending
  <1> QED BY <1>2, <1>4, <1>6, <1>7

\* A step of the task that sends keeps the types.
LEMMA ProbeTaskStep ==
    ASSUME Sizes, Sending, Receiving, OnTheLine, Probe!ProbeStep
    PROVE  Sending' /\ Receiving' /\ OnTheLine'
  <1> USE DEF Probe!prefVars, Probe!dataVars, Probe!envVars
  <1>0. line \in Probe!Frame \cup {Probe!NoFrame} /\ battery \in Adrs
        /\ faults \in 0..MaxFaults /\ swaps \in 0..MaxSwaps
    BY DEF OnTheLine
  <1>1. CASE Probe!WaitForQuiet
    <2>1. Sending'
      BY <1>1 DEF Probe!WaitForQuiet, Sending, Sizes, Probe!Frame, Probe!NoFrame, Probe!NoAdr
    <2> QED BY <1>0, <1>1, <2>1, ReceivingStays, LineStays DEF Probe!WaitForQuiet
  <1>2. CASE Probe!SkipSearch
    <2>1. cidIdx' \in 1..Len(CidSeq)
      BY <1>2, Cycles DEF Probe!SkipSearch, Sending, Sizes
    <2>2. cellAddrIdx' \in 1..(Len(Addresses) + 1)
      BY <1>2, AskedIsAddress DEF Probe!SkipSearch
    <2>3. Sending'
      BY <1>2, <2>1, <2>2 DEF Probe!SkipSearch, Sending, Sizes, Probe!Frame, Probe!NoFrame, Probe!NoAdr
    <2> QED BY <1>0, <1>2, <2>3, ReceivingStays, LineStays DEF Probe!SkipSearch
  <1>3. CASE Probe!Choose
    <2>1. ask' \in Probe!Frame /\ discover' \in BOOLEAN
      BY <1>3, AskedIsAddress DEF Probe!Choose, Probe!Frame, Probe!Searching
    <2>2. cellAddrIdx' \in 1..(Len(Addresses) + 1) /\ count' \in {Len(Addresses), Len(Addresses) + 1}
      BY <1>3, AskedIsAddress DEF Probe!Choose
    <2>3. Sending'
      BY <1>3, <2>1, <2>2 DEF Probe!Choose, Sending, Sizes, Probe!Frame, Probe!NoFrame, Probe!NoAdr
    <2>4. Receiving'
      BY <1>3 DEF Probe!Choose, Receiving, Probe!Cids
    <2> QED BY <1>0, <1>3, <2>3, <2>4, LineStays DEF Probe!Choose
  <1>4. CASE Probe!NotePending
    <2>1. Sending'
      BY <1>4 DEF Probe!NotePending, Sending, Probe!Frame, Probe!NoFrame, Probe!NoAdr
    <2>2. ask.adr \in Adrs \cup {0} /\ ask.cid \in Probe!Cids /\ Timeout \in 0..Timeout
      BY DEF Sending, Sizes, Probe!Frame, Probe!NoFrame, Probe!NoAdr, Probe!Cids
    <2>3. pend' \in [active : BOOLEAN, adr : Adrs \cup {0}, cid : Probe!Cids, due : 0..Timeout]
      BY <1>4, <2>2 DEF Probe!NotePending, Receiving
    <2>4. Receiving'
      BY <1>4, <2>3 DEF Probe!NotePending, Receiving, Probe!Cids
    <2> QED BY <1>0, <1>4, <2>1, <2>4, LineStays DEF Probe!NotePending
  <1>5. CASE Probe!Send
    <2>1. Sending'
      BY <1>5 DEF Probe!Send, Sending, Probe!Frame, Probe!NoFrame, Probe!NoAdr
    <2>2. line' \in Probe!Frame \cup {Probe!NoFrame}
      BY <1>5 DEF Probe!Send, Sending
    <2> QED BY <1>0, <1>5, <2>1, <2>2, ReceivingStays, LineStays DEF Probe!Send
  <1>6. CASE Probe!Rest
    <2>1. /\ cidIdx' \in 1..Len(CidSeq) /\ addrIdx' \in 1..Len(Addresses)
          /\ cellAddrIdx' \in 1..(Len(Addresses) + 1) /\ dialect' \in 1..Dialects /\ retry' \in 0..Retry
      <3>0. /\ cidIdx \in Nat /\ addrIdx \in Nat /\ cellAddrIdx \in Nat /\ dialect \in Nat
            /\ count \in Nat \ {0} /\ count <= Len(Addresses) + 1 /\ retry \in 0..Retry /\ Retry \in Nat
            /\ Len(CidSeq) \in Nat \ {0} /\ Len(Addresses) \in Nat \ {0} /\ Dialects \in Nat \ {0}
        BY DEF Sending, Sizes
      <3>1. /\ Probe!Cycle(cidIdx, Len(CidSeq)) \in 1..Len(CidSeq)
            /\ Probe!Cycle(addrIdx, Len(Addresses)) \in 1..Len(Addresses)
            /\ Probe!Cycle(dialect, Dialects) \in 1..Dialects
            /\ Probe!Cycle(cellAddrIdx, count) \in 1..count
        BY <3>0, Cycles
      <3>4. Probe!Cycle(cellAddrIdx, count) \in 1..(Len(Addresses) + 1)
        BY <3>0, <3>1
      <3>2. CASE Probe!AdvanceSearch
        BY <3>0, <3>1, <3>2, <3>4 DEF Probe!AdvanceSearch, Probe!NextVariant, Probe!NextCellAddr, Sending
      <3>3. CASE Probe!Advance
        BY <3>1, <3>3 DEF Probe!Advance, Sending
      <3> QED BY <1>6, <3>2, <3>3 DEF Probe!Rest
    <2>2. Sending'
      BY <1>6, <2>1 DEF Probe!Rest, Sending, Sizes, Probe!Frame, Probe!NoFrame, Probe!NoAdr
    <2> QED BY <1>0, <1>6, <2>2, ReceivingStays, LineStays DEF Probe!Rest
  <1> QED BY <1>1, <1>2, <1>3, <1>4, <1>5, <1>6 DEF Probe!ProbeStep

\* A step of the task that receives keeps the types.
LEMMA ReceiverStep ==
    ASSUME Sizes, Sending, Receiving, OnTheLine, Probe!ReceiveStep
    PROVE  Sending' /\ Receiving' /\ OnTheLine'
  <1> USE DEF Probe!prefVars, Probe!dataVars, Probe!envVars, Probe!probeVars
  <1>0. line \in Probe!Frame \cup {Probe!NoFrame} /\ battery \in Adrs
        /\ faults \in 0..MaxFaults /\ swaps \in 0..MaxSwaps
    BY DEF OnTheLine
  <1>1. CASE Probe!CheckTimeout
    <2>1. faults' \in 0..MaxFaults
      BY <1>0, <1>1 DEF Probe!CheckTimeout, Probe!Fault, Sizes
    <2>2. preferred' \in Adrs \cup {0} /\ timeouts' \in 0..MaxTimeouts
      <3>1. preferred \in Adrs \cup {0} /\ timeouts \in 0..MaxTimeouts /\ MaxTimeouts \in Nat \ {0}
        BY DEF Receiving, Sizes
      <3> QED BY <1>1, <3>1 DEF Probe!CheckTimeout, Probe!TimedOut, Probe!NoAdr
    <2>3. Receiving'
      BY <1>1, <2>2 DEF Probe!CheckTimeout, Receiving, Probe!Cids
    <2> QED BY <1>0, <1>1, <2>1, <2>3, SendingStays, LineStays DEF Probe!CheckTimeout
  <1>2. CASE Probe!DropStale
    <2>1. 0 \in 0..Timeout /\ 0 \in 0..MaxTimeouts
      BY DEF Sizes
    <2>2. pend' \in [active : BOOLEAN, adr : Adrs \cup {0}, cid : Probe!Cids, due : 0..Timeout]
          /\ preferred' \in Adrs \cup {0} /\ timeouts' \in 0..MaxTimeouts
      BY <1>2, <2>1 DEF Probe!DropStale, Probe!NoPending, Probe!NoAdr, Probe!Cids
    <2>3. Receiving'
      BY <1>2, <2>2 DEF Probe!DropStale, Receiving, Probe!Cids
    <2> QED BY <1>0, <1>2, <2>3, SendingStays, LineStays DEF Probe!DropStale
  <1>3. CASE Probe!Receive
    <2>1. line' = Probe!NoFrame /\ silence' = 0 /\ line.adr \in Adrs \cup {0} /\ pend.cid \in Probe!Cids
      BY <1>0, <1>3 DEF Probe!Receive, Receiving, Probe!Frame, Probe!NoFrame, Probe!NoAdr
    <2>2. preferred' \in Adrs \cup {0} /\ timeouts' \in 0..MaxTimeouts
      <3>1. preferred \in Adrs \cup {0} /\ timeouts \in 0..MaxTimeouts /\ 0 \in 0..MaxTimeouts
        BY DEF Receiving, Sizes
      <3> QED BY <1>3, <2>1, <3>1 DEF Probe!Receive, Probe!Remember
    <2>3. /\ valid' \subseteq Probe!Cids /\ modelValid' \in BOOLEAN /\ modelAge' \in 0..(Window + 1)
          /\ packAge' \in 0..(Window + 1)
      <3>1. /\ valid \subseteq Probe!Cids /\ modelValid \in BOOLEAN /\ modelAge \in 0..(Window + 1)
            /\ packAge \in 0..(Window + 1) /\ 0 \in 0..(Window + 1)
        BY DEF Receiving, Sizes
      <3>2. CASE UNCHANGED <<valid, modelValid, modelAge, packAge>>
        BY <3>1, <3>2
      <3>3. CASE Probe!Publish(pend.cid)
        BY <2>1, <3>1, <3>3 DEF Probe!Publish
      <3> QED BY <1>3, <3>2, <3>3 DEF Probe!Receive
    <2>4. pend' \in [active : BOOLEAN, adr : Adrs \cup {0}, cid : Probe!Cids, due : 0..Timeout]
      BY <1>3 DEF Probe!Receive, Receiving
    <2>5. Receiving'
      BY <2>1, <2>2, <2>3, <2>4 DEF Receiving, Sizes, Probe!Cids
    <2> QED BY <1>0, <1>3, <2>1, <2>5, SendingStays, LineStays DEF Probe!Receive
  <1> QED BY <1>1, <1>2, <1>3 DEF Probe!ReceiveStep

LEMMA ProbeStep == ProbeInv /\ [Probe!Next]_(Probe!vars) => ProbeInv'
  <1> SUFFICES ASSUME ProbeInv, [Probe!Next]_(Probe!vars) PROVE ProbeInv'
    OBVIOUS
  <1> USE DEF Probe!prefVars, Probe!dataVars, Probe!envVars, Probe!probeVars
  <1>1. ProbeAssumed /\ Sizes /\ Sending /\ Receiving /\ OnTheLine
    BY SizesAre, ProbeParts DEF ProbeInv
  <1>2. line \in Probe!Frame \cup {Probe!NoFrame} /\ battery \in Adrs
        /\ faults \in 0..MaxFaults /\ swaps \in 0..MaxSwaps /\ MaxFaults \in Nat /\ MaxSwaps \in Nat
    BY <1>1 DEF OnTheLine, Sizes
  <1>3. CASE Probe!ProbeStep
    BY <1>1, <1>3, ProbeTaskStep, ProbeTyped
  <1>4. CASE Probe!ReceiveStep
    BY <1>1, <1>4, ReceiverStep, ProbeTyped
  <1>5. CASE Probe!Reply
    <2>1. line' \in Probe!Frame \cup {Probe!NoFrame}
      <3>1. line \in Probe!Frame
        BY <1>2, <1>5 DEF Probe!Reply, Probe!Here, Probe!NoFrame
      <3>2. [line EXCEPT !.code = "ok"] \in Probe!Frame /\ [line EXCEPT !.code = "rejected"] \in Probe!Frame
        BY <3>1 DEF Probe!Frame
      <3> QED BY <1>5, <3>2 DEF Probe!Reply
    <2> QED BY <1>1, <1>2, <1>5, <2>1, SendingStays, ReceivingStays, LineStays, ProbeTyped DEF Probe!Reply
  <1>6. CASE Probe!NoReply
    BY <1>1, <1>2, <1>6, SendingStays, ReceivingStays, LineStays, ProbeTyped DEF Probe!NoReply
  <1>7. CASE Probe!Lose
    BY <1>1, <1>2, <1>7, SendingStays, ReceivingStays, LineStays, ProbeTyped DEF Probe!Lose, Probe!Fault
  <1>8. CASE Probe!Swap
    BY <1>1, <1>2, <1>8, SendingStays, ReceivingStays, LineStays, ProbeTyped DEF Probe!Swap
  <1>9. CASE Probe!Tick
    <2>1. sleep' \in 0..Period /\ retry' \in 0..Retry
      <3>1. sleep \in 0..Period /\ sleep > 0 /\ sleep' = sleep - 1 /\ Period \in Nat
            /\ retry \in 0..Retry /\ retry' = Probe!Less(retry) /\ Retry \in Nat
        BY <1>1, <1>9 DEF Probe!Tick, Sending, Sizes
      <3> QED BY <3>1, LessIsLess
    <2>2. Sending'
      BY <1>1, <1>9, <2>1 DEF Probe!Tick, Sending, Probe!Frame, Probe!NoFrame, Probe!NoAdr
    <2>3. pend.due \in 0..Timeout /\ Probe!Less(pend.due) \in 0..Timeout
      BY <1>1, LessIsLess DEF Receiving, Sizes
    <2>4. pend' \in [active : BOOLEAN, adr : Adrs \cup {0}, cid : Probe!Cids, due : 0..Timeout]
      BY <1>1, <1>9, <2>3 DEF Probe!Tick, Receiving
    <2>5. silence' \in 0..(Window + 1) /\ modelAge' \in 0..(Window + 1) /\ packAge' \in 0..(Window + 1)
      BY <1>1, <1>9, OlderIsBounded DEF Probe!Tick, Receiving, Sizes
    <2>6. Receiving'
      BY <1>1, <1>9, <2>4, <2>5 DEF Probe!Tick, Receiving, Probe!Cids
    <2> QED BY <1>1, <1>2, <1>9, <2>2, <2>6, LineStays, ProbeTyped DEF Probe!Tick
  <1>10. CASE UNCHANGED Probe!vars
    BY <1>1, <1>2, <1>10, SendingStays, ReceivingStays, LineStays, ProbeTyped DEF Probe!vars
  <1> QED BY <1>3, <1>4, <1>5, <1>6, <1>7, <1>8, <1>9, <1>10 DEF Probe!Next, Probe!BatteryStep

\* The poller of a Pylon battery never asks beyond its tables of addresses and commands, though the
\* receiving task takes the preferred address away between its steps; counters stay within their limits.
THEOREM ProbeTypeIsRight == ProbeAssumed /\ Probe!Spec => []Probe!TypeOK
  <1>1. ProbeInv => Probe!TypeOK
    BY DEF ProbeInv
  <1> QED BY <1>1, ProbeStarts, ProbeStep, PTL DEF Probe!Spec

\* A battery that was silent for the window is not shown any more when time goes on: the receiving task
\* has then cleared the cache and the model (maybeClearNativePylonCacheIfStale), whatever is pending.
THEOREM SilentIsDroppedAlways == ProbeAssumed /\ Probe!Spec => [][Probe!SilentIsDropped]_(Probe!vars)
  <1>1. ProbeInv /\ [Probe!Next]_(Probe!vars) => [Probe!SilentIsDropped]_(Probe!vars)
    <2> SUFFICES ASSUME ProbeInv, Probe!Next, sleep' < sleep PROVE ~(modelValid /\ silence > Window)
      BY DEF Probe!SilentIsDropped
    <2>1. sleep \in 0..Period /\ Period \in Nat /\ Wait \in Nat
      BY SizesAre, ProbeParts DEF ProbeInv, Sending, Sizes
    <2>2. ~Probe!ProbeStep
      BY <2>1 DEF Probe!ProbeStep, Probe!WaitForQuiet, Probe!SkipSearch, Probe!Choose, Probe!NotePending,
                  Probe!Send, Probe!Rest, Probe!Awake
    <2>3. ~(sleep' = sleep)
      BY <2>1
    <2>4. Probe!Tick
      BY <2>2, <2>3
         DEF Probe!Next, Probe!ReceiveStep, Probe!BatteryStep, Probe!CheckTimeout, Probe!DropStale,
             Probe!Receive, Probe!Reply, Probe!NoReply, Probe!Lose, Probe!Swap, Probe!probeVars
    <2> QED BY <2>4 DEF Probe!Tick, Probe!HasData
  <1> QED BY <1>1, ProbeStarts, ProbeStep, PTL DEF Probe!Spec

-----------------------------------------------------------------------------
(* The words of Growatt's frames.                                          *)

CONSTANTS
    Low, High, Step, Spreads, Orders, Flags

VARIABLES
    pack, above, below, order

Words == INSTANCE GrowattWords

PackTyped ==
    /\ Words!WordsAssumption
    /\ pack \in Low..High /\ {above, below} \subseteq Spreads /\ order \in Orders

\* The cells are near enough to the average for two readings of one to be told apart, and
\* none is above what a cell may have.
CellsAreNear == (\A s \in Spreads : s <= 127) /\ Words!Average(High) + 127 <= 5000

LEMMA WordIsItsBytes ==
    ASSUME NEW w \in Nat
    PROVE  Words!Word(Words!Hi(w), Words!Lo(w)) = w
  BY DEF Words!Word, Words!Hi, Words!Lo

\* Read in the order it was sent in, a word is what was sent.
LEMMA SentOrderIsRight ==
    ASSUME NEW w \in Nat, order \in {"big", "little"}
    PROVE  LET d == Words!Put(w)
           IN  \/ order = "big" /\ Words!Read(d, 1, "big") = w
                  /\ Words!Read(d, 1, "little") = Words!Word(Words!Lo(w), Words!Hi(w))
               \/ order = "little" /\ Words!Read(d, 1, "little") = w
                  /\ Words!Read(d, 1, "big") = Words!Word(Words!Lo(w), Words!Hi(w))
  <1>1. CASE order = "big"
    <2>1. Words!Put(w) = <<Words!Hi(w), Words!Lo(w)>>
      BY <1>1 DEF Words!Put
    <2> QED BY <1>1, <2>1, WordIsItsBytes DEF Words!Read
  <1>2. CASE order = "little"
    <2>1. Words!Put(w) = <<Words!Lo(w), Words!Hi(w)>>
      BY <1>2 DEF Words!Put
    <2> QED BY <1>2, <2>1, WordIsItsBytes DEF Words!Read
  <1> QED BY <1>1, <1>2

LEMMA VoltsArePlausible ==
    ASSUME NEW w \in Nat
    PROVE  \/ Words!Volts(w) = {}
           \/ \E v \in Nat : 3000 <= v /\ v <= 9000 /\ Words!Volts(w) = {v}
  <1>1. 10 * w \in Nat
    OBVIOUS
  <1> QED BY <1>1 DEF Words!Volts

\* A voltage is read, it is one, and it is not lower than that of the pack.
LEMMA OneVoltage ==
    ASSUME PackTyped
    PROVE  \E p \in Words!PackVoltage(Words!Frame313) :
              /\ Words!PackVoltage(Words!Frame313) = {p}
              /\ 3000 <= p.cv /\ p.cv <= 9000 /\ p.cv >= pack
  <1> DEFINE d  == Words!Put(pack)
             be == Words!Volts(Words!Read(d, 1, "big"))
             le == Words!Volts(Words!Read(d, 1, "little"))
             b  == {v \in be : \A u \in le : v >= u}
             l  == {v \in le : \A u \in be : v > u}
             back == Words!Word(Words!Lo(pack), Words!Hi(pack))
             Fits(v) == v \in Nat /\ 3000 <= v /\ v <= 9000
  <1>1. Fits(pack) /\ order \in {"big", "little"}
    BY DEF Words!WordsAssumption, PackTyped
  <1>2. Words!Volts(pack) = {pack}
    BY <1>1 DEF Words!Volts
  <1>3. back \in Nat
    BY <1>1 DEF Words!Word, Words!Lo, Words!Hi
  <1>4. Words!Volts(back) = {} \/ \E v : Fits(v) /\ Words!Volts(back) = {v}
    BY <1>3, VoltsArePlausible
  <1>5. (be = {pack} /\ le = Words!Volts(back)) \/ (le = {pack} /\ be = Words!Volts(back))
    BY <1>1, <1>2, SentOrderIsRight
  <1>6. Words!PackVoltage(Words!Frame313) =
           {[order |-> "big", cv |-> v] : v \in b} \cup {[order |-> "little", cv |-> v] : v \in l}
    BY DEF Words!PackVoltage, Words!Frame313
  <1> HIDE DEF be, le, back
  <1>7. \E v : Fits(v) /\ v >= pack /\ ((b = {v} /\ l = {}) \/ (b = {} /\ l = {v}))
    <2>1. CASE Words!Volts(back) = {}
      BY <1>1, <1>5, <2>1
    <2>2. CASE Words!Volts(back) # {}
      <3>1. PICK v : Fits(v) /\ Words!Volts(back) = {v}
        BY <1>4, <2>2
      <3>2. CASE be = {pack} /\ le = {v}
        <4>1. CASE pack >= v
          <5>1. b = {pack} /\ l = {}
            BY <1>1, <3>1, <3>2, <4>1
          <5> QED BY <1>1, <5>1
        <4>2. CASE ~(pack >= v)
          <5>1. b = {} /\ l = {v}
            BY <1>1, <3>1, <3>2, <4>2
          <5> QED BY <1>1, <3>1, <4>2, <5>1
        <4> QED BY <4>1, <4>2
      <3>3. CASE le = {pack} /\ be = {v}
        <4>1. CASE v >= pack
          <5>1. b = {v} /\ l = {}
            BY <1>1, <3>1, <3>3, <4>1
          <5> QED BY <1>1, <3>1, <4>1, <5>1
        <4>2. CASE ~(v >= pack)
          <5>1. b = {} /\ l = {pack}
            BY <1>1, <3>1, <3>3, <4>2
          <5> QED BY <1>1, <5>1
        <4> QED BY <4>1, <4>2
      <3> QED BY <1>5, <3>1, <3>2, <3>3
    <2> QED BY <2>1, <2>2
  <1> HIDE DEF b, l
  <1>8. PICK v : Fits(v) /\ v >= pack /\ ((b = {v} /\ l = {}) \/ (b = {} /\ l = {v}))
    BY <1>7
  <1>9. \E o : Words!PackVoltage(Words!Frame313) = {[order |-> o, cv |-> v]}
    <2>1. CASE b = {v} /\ l = {}
      <3>1. Words!PackVoltage(Words!Frame313) = {[order |-> "big", cv |-> v]}
        BY <1>6, <2>1
      <3> QED BY <3>1
    <2>2. CASE b = {} /\ l = {v}
      <3>1. Words!PackVoltage(Words!Frame313) = {[order |-> "little", cv |-> v]}
        BY <1>6, <2>2
      <3> QED BY <3>1
    <2> QED BY <1>8, <2>1, <2>2
  <1> QED BY <1>8, <1>9

LEMMA PackStarts == Words!WordsAssumption /\ Words!Init => PackTyped
  BY DEF Words!WordsAssumption, Words!Init, PackTyped

LEMMA PackStep == PackTyped /\ [Words!Drift]_(Words!vars) => PackTyped'
  BY DEF Words!WordsAssumption, Words!Drift, Words!vars, PackTyped

\* Of two readings of a cell, 255 mV apart or more, the nearer is the one that was sent.
LEMMA NearerIsRead ==
    ASSUME CellsAreNear, PackTyped,
           NEW mv \in {Words!Is(pack).max, Words!Is(pack).min}
    PROVE  Words!CellWord(Words!Put(mv), 1, pack) = {mv}
  <1> DEFINE avg  == Words!Average(pack)
             be   == Words!Read(Words!Put(mv), 1, "big")
             le   == Words!Read(Words!Put(mv), 1, "little")
             back == Words!Word(Words!Lo(mv), Words!Hi(mv))
  <1>0. /\ pack \in Low..High /\ Low \in Nat /\ High \in Nat /\ 3000 <= Low
        /\ above \in Spreads /\ below \in Spreads /\ Spreads \subseteq Nat /\ order \in {"big", "little"}
    BY DEF Words!WordsAssumption, PackTyped
  <1>1. /\ pack \in Nat /\ 3000 <= pack /\ pack <= High /\ High \in Nat
        /\ above \in Nat /\ above <= 127 /\ below \in Nat /\ below <= 127
        /\ order \in {"big", "little"} /\ Words!Average(High) + 127 <= 5000
    BY <1>0 DEF CellsAreNear
  <1>2. avg \in Nat /\ 1875 <= avg /\ avg <= 4873
    BY <1>1 DEF Words!Average, Words!CellCount
  <1>3. mv = avg + above \/ mv = avg - below
    BY DEF Words!Is
  <1> HIDE DEF avg
  <1>4. mv \in Nat /\ 1500 <= mv /\ mv <= 5000 /\ avg - mv <= 127 /\ mv - avg <= 127
    BY <1>1, <1>2, <1>3
  <1>5. back \in Nat /\ (back = mv \/ back - mv >= 255 \/ mv - back >= 255)
    BY <1>4 DEF Words!Word, Words!Lo, Words!Hi
  <1>6. \/ be = mv /\ le = back
        \/ le = mv /\ be = back
    BY <1>1, <1>4, SentOrderIsRight
  <1> HIDE DEF back
  <1>7. Words!Plausible(mv)
    BY <1>4 DEF Words!Plausible
  <1>8. back = mv \/ Words!Distance(mv, avg) < Words!Distance(back, avg)
    BY <1>2, <1>4, <1>5 DEF Words!Distance
  <1>9. Words!Distance(mv, avg) \in Nat /\ Words!Distance(back, avg) \in Nat
    BY <1>2, <1>4, <1>5 DEF Words!Distance
  <1>10. Words!CellWord(Words!Put(mv), 1, pack) =
           {w \in {be, le} :
              /\ Words!Plausible(w)
              /\ w = be /\ Words!Plausible(le) => Words!Distance(be, avg) <= Words!Distance(le, avg)
              /\ w # be /\ Words!Plausible(be) => Words!Distance(le, avg) < Words!Distance(be, avg)}
    BY DEF Words!CellWord, avg
  <1> HIDE DEF be, le
  <1>11. CASE be = mv /\ le = back
    BY <1>7, <1>8, <1>9, <1>10, <1>11
  <1>12. CASE le = mv /\ be = back
    BY <1>7, <1>8, <1>9, <1>10, <1>12
  <1> QED BY <1>6, <1>11, <1>12

\* Of every pack voltage from 30 V to 90 V, in either byte order, canGrowattDecodePackVoltage takes exactly
\* one reading, and it is a voltage that a pack can have.
THEOREM WordsTypeIsRight == Words!WordsAssumption /\ Words!Spec => []Words!TypeOK
  <1>1. PackTyped => Words!TypeOK
    BY OneVoltage DEF PackTyped, Words!TypeOK
  <1> QED BY <1>1, PackStarts, PackStep, PTL DEF Words!Spec

\* When a voltage can be read in both orders, it is the higher that is taken: a pack is never read as of
\* less than it has.
THEOREM PackIsNotUnderstatedAlways == Words!WordsAssumption /\ Words!Spec => []Words!PackIsNotUnderstated
  <1>1. PackTyped => Words!PackIsNotUnderstated
    BY OneVoltage DEF Words!PackIsNotUnderstated
  <1> QED BY <1>1, PackStarts, PackStep, PTL DEF Words!Spec

\* A cell at most 127 mV from the average is read by canGrowattDecodeCellWord as it was sent, in either
\* order and at every voltage of the pack at which no cell is over 5 V.
THEOREM CellNearAverageIsReadAlways ==
    Words!WordsAssumption /\ CellsAreNear /\ Words!Spec => []Words!CellNearAverageIsRead
  <1> DEFINE Near == CellsAreNear /\ PackTyped
  <1>1. Near => Words!CellNearAverageIsRead
    BY NearerIsRead DEF Words!CellNearAverageIsRead
  <1>2. Words!WordsAssumption /\ CellsAreNear /\ Words!Init => Near
    BY PackStarts
  <1>3. Near /\ [Words!Drift]_(Words!vars) => Near'
    BY PackStep DEF CellsAreNear, Words!Average, Words!CellCount
  <1> QED BY <1>1, <1>2, <1>3, PTL DEF Words!Spec

-----------------------------------------------------------------------------
(* The Seplos source.                                                      *)

CONSTANTS
    Candidates, CandidatePeriod, BufMax, Delays

VARIABLES
    pollCount, next, cand, polled, locked, inverted, asked, rx, work, wire, answer, crossed

Seplos == INSTANCE SeplosPoll WITH Stale <- Window

\* The answers come before the next request; or even in two parts.
InPeriod  == \A n \in Delays : n < Period
Quick     == \A n \in Delays : n + 1 < Period
Unrefused == \A b \in Batteries : b.refuses = {}

SepAssumed == Seplos!SeplosAssumption /\ InPeriod

Seats == [kind : {"ascii", "rtu"}, dialect : STRING, inv : BOOLEAN]

SepSizes ==
    /\ Len(Candidates) \in Nat \ {0} /\ DOMAIN Candidates = 1..Len(Candidates)
    /\ \A i \in 1..Len(Candidates) : Candidates[i].kind \in {"ascii", "rtu"} /\ Candidates[i].inv \in BOOLEAN
    /\ CandidatePeriod \in Nat \ {0} /\ Period \in Nat \ {0}
    /\ Window \in Nat /\ BufMax \in Nat /\ MaxFaults \in Nat /\ MaxSwaps \in Nat
    /\ \A n \in Delays : n \in Nat /\ n < Period
    /\ \A b \in Batteries : b.inv \in BOOLEAN

LEMMA SepSizesAre == SepAssumed => SepSizes
  <1> SUFFICES ASSUME SepAssumed PROVE SepSizes
    OBVIOUS
  <1>1. Candidates \in Seq(Seats) /\ Candidates # <<>>
    BY DEF SepAssumed, Seplos!SeplosAssumption, Seats
  <1>2. /\ Len(Candidates) \in Nat \ {0} /\ DOMAIN Candidates = 1..Len(Candidates)
        /\ \A i \in 1..Len(Candidates) : Candidates[i] \in Seats
    BY <1>1
  <1>3. /\ CandidatePeriod \in Nat \ {0} /\ Period \in Nat \ {0}
        /\ Window \in Nat /\ BufMax \in Nat /\ MaxFaults \in Nat /\ MaxSwaps \in Nat
        /\ \A n \in Delays : n \in Nat /\ n < Period
    BY DEF SepAssumed, Seplos!SeplosAssumption, InPeriod
  <1>4. \A b \in Batteries : b.inv \in BOOLEAN
    BY DEF SepAssumed, Seplos!SeplosAssumption
  <1> QED BY <1>2, <1>3, <1>4 DEF SepSizes, Seats

SepFrames ==
    [kind : {"ascii", "rtu", "junk"}, about : Seplos!Abouts, val : Nat, ok : BOOLEAN, empty : BOOLEAN]

SepBytes == SepFrames \X (1..4)

\* No value is greater than those of the battery that is there, unless an answer crossed a start.
SepTop == IF crossed THEN MaxSwaps + 2 ELSE gen

SepWorks == [pack : 0..SepTop, cells : 0..SepTop, alarms : 0..SepTop]
SepModels == [valid : BOOLEAN, pack : 0..SepTop, cells : 0..SepTop, alarms : 0..SepTop]
SepPackets == [have : BOOLEAN, frame : 0..Seplos!MaxAge, ever : BOOLEAN]

SepStates ==
    [rx : Seq(SepBytes), work : SepWorks, model : SepModels, packet : SepPackets,
     cand : 1..Len(Candidates), locked : BOOLEAN]

Filled(q, w, m, p, c, l) == [rx |-> q, work |-> w, model |-> m, packet |-> p, cand |-> c, locked |-> l]

LEMMA StateHas ==
    ASSUME NEW s \in SepStates
    PROVE  /\ s = Filled(s.rx, s.work, s.model, s.packet, s.cand, s.locked)
           /\ s.rx \in Seq(SepBytes) /\ s.work \in SepWorks /\ s.model \in SepModels
           /\ s.packet \in SepPackets /\ s.cand \in 1..Len(Candidates) /\ s.locked \in BOOLEAN
  BY DEF SepStates, Filled

LEMMA StateMade ==
    ASSUME NEW q \in Seq(SepBytes), NEW w \in SepWorks, NEW m \in SepModels, NEW p \in SepPackets,
           NEW c \in 1..Len(Candidates), NEW l \in BOOLEAN
    PROVE  /\ Filled(q, w, m, p, c, l) \in SepStates
           /\ Filled(q, w, m, p, c, l).rx = q /\ Filled(q, w, m, p, c, l).work = w
           /\ Filled(q, w, m, p, c, l).model = m /\ Filled(q, w, m, p, c, l).packet = p
           /\ Filled(q, w, m, p, c, l).cand = c /\ Filled(q, w, m, p, c, l).locked = l
  BY DEF SepStates, Filled

Yes == TRUE

LEMMA YesIs == Yes \in BOOLEAN
  BY DEF Yes

WithRx(s, x)    == [s EXCEPT !.rx = x]
WithWork(s, x)  == [s EXCEPT !.work = x]
LockedAt(s, x, y)  == [s EXCEPT !.cand = x, !.locked = y]
Showing(s, x, y) == [s EXCEPT !.packet = x, !.model = y]

LEMMA RxChanged ==
    ASSUME NEW s, NEW q, NEW w, NEW m, NEW p, NEW c, NEW l, s = Filled(q, w, m, p, c, l), NEW x
    PROVE  WithRx(s, x) = Filled(x, w, m, p, c, l)
  <1> DEFINE t == [s EXCEPT !.rx = x]
  <1>1. s = [rx |-> q, work |-> w, model |-> m, packet |-> p, cand |-> c, locked |-> l] /\ t = [s EXCEPT !.rx = x]
    BY DEF Filled
  <1> HIDE DEF t
  <1>2. t = [rx |-> x, work |-> w, model |-> m, packet |-> p, cand |-> c, locked |-> l]
    BY <1>1
  <1> QED BY <1>2 DEF t, Filled, WithRx

LEMMA WorkChanged ==
    ASSUME NEW s, NEW q, NEW w, NEW m, NEW p, NEW c, NEW l, s = Filled(q, w, m, p, c, l), NEW x
    PROVE  WithWork(s, x) = Filled(q, x, m, p, c, l)
  <1> DEFINE t == [s EXCEPT !.work = x]
  <1>1. s = [rx |-> q, work |-> w, model |-> m, packet |-> p, cand |-> c, locked |-> l] /\ t = [s EXCEPT !.work = x]
    BY DEF Filled
  <1> HIDE DEF t
  <1>2. t = [rx |-> q, work |-> x, model |-> m, packet |-> p, cand |-> c, locked |-> l]
    BY <1>1
  <1> QED BY <1>2 DEF t, Filled, WithWork

LEMMA LockAlone ==
    ASSUME NEW s, NEW q, NEW w, NEW m, NEW p, NEW c, NEW l,
           s = [rx |-> q, work |-> w, model |-> m, packet |-> p, cand |-> c, locked |-> l], NEW x, NEW y
    PROVE  LockedAt(s, x, y) = [rx |-> q, work |-> w, model |-> m, packet |-> p, cand |-> x, locked |-> y]
  <1> DEFINE t == LockedAt(s, x, y)
  <1>1. t = [s EXCEPT !.cand = x, !.locked = y]
    BY DEF LockedAt
  <1> HIDE DEF t
  <1>2. t = [rx |-> q, work |-> w, model |-> m, packet |-> p, cand |-> x, locked |-> y]
    BY <1>1
  <1> QED BY <1>2 DEF t

LEMMA LockChanged ==
    ASSUME NEW s, NEW q, NEW w, NEW m, NEW p, NEW c, NEW l, s = Filled(q, w, m, p, c, l), NEW x, NEW y
    PROVE  LockedAt(s, x, y) = Filled(q, w, m, p, x, y)
  BY LockAlone DEF Filled

LEMMA ShownAlone ==
    ASSUME NEW s, NEW q, NEW w, NEW m, NEW p, NEW c, NEW l,
           s = [rx |-> q, work |-> w, model |-> m, packet |-> p, cand |-> c, locked |-> l], NEW x, NEW y
    PROVE  Showing(s, x, y) = [rx |-> q, work |-> w, model |-> y, packet |-> x, cand |-> c, locked |-> l]
  <1> DEFINE t == Showing(s, x, y)
  <1>1. t = [s EXCEPT !.packet = x, !.model = y]
    BY DEF Showing
  <1> HIDE DEF t
  <1>2. t = [rx |-> q, work |-> w, model |-> y, packet |-> x, cand |-> c, locked |-> l]
    BY <1>1
  <1> QED BY <1>2 DEF t

LEMMA ShownChanged ==
    ASSUME NEW s, NEW q, NEW w, NEW m, NEW p, NEW c, NEW l, s = Filled(q, w, m, p, c, l), NEW x, NEW y
    PROVE  Showing(s, x, y) = Filled(q, w, y, x, c, l)
  BY ShownAlone DEF Filled

-----------------------------------------------------------------------------
Answered(i) == Candidates[i].dialect \in battery.speaks \cup battery.refuses

\* What is known of the bytes that are there.
Vals == {0} \cup {b[1].val : b \in Seplos!ToSet(wire) \cup Seplos!ToSet(rx)}

\* h is the time for which the battery has been silent.
Fits(s, h) ==
    /\ s.model.valid => s.packet.have
    /\ ~s.packet.have => s.work = Seplos!Empty
    /\ (Quick /\ swaps = 0 /\ s.locked) => Answered(s.cand)
    /\ (Unrefused /\ ~crossed /\ s.locked) => s.packet.have
    /\ (~crossed /\ s.packet.have) => h <= s.packet.frame + 1

\* What is shown by a source that was not is new.
NewIn(w) == (~crossed /\ ~packet.have) => {w.pack, w.cells, w.alarms} \subseteq Vals

Good(s) == s \in SepStates /\ Fits(s, Seplos!Grown(heard)) /\ NewIn(s.work) /\ (s.model.valid => NewIn(s.model))

Timely == (~crossed => heard = 0) /\ ((Quick /\ swaps = 0) => Answered(polled))

\* A frame that may count.
Counts(f) ==
    /\ f \in SepFrames /\ f.val <= SepTop /\ (~crossed => f.val \in Vals) /\ (Unrefused => ~f.empty)

SepContext ==
    /\ SepSizes /\ gen \in Nat /\ SepTop \in Nat /\ heard \in 0..Seplos!MaxAge /\ polled \in 1..Len(Candidates)
    /\ crossed \in BOOLEAN /\ swaps \in Nat

LEMMA SepMaxAge == SepSizes => Seplos!MaxAge \in Nat /\ Seplos!MaxAge > Window + 1
  BY DEF SepSizes, Seplos!MaxAge

\* Whichever frame is published, and with whichever candidate.
LEMMA PublishedIsGood ==
    ASSUME SepContext, Timely, NEW s, Good(s), NEW w \in SepWorks, NewIn(w), NEW c \in 1..Len(Candidates),
           (Quick /\ swaps = 0) => Answered(c), NEW t, t = Filled(s.rx, w, s.model, s.packet, c, Yes)
    PROVE  Good(Seplos!Publish(t)) /\ Seplos!Publish(t).rx = s.rx
  <1> DEFINE m == IF Seplos!HasTelemetry(w)
                  THEN [valid |-> TRUE, pack |-> w.pack, cells |-> w.cells, alarms |-> w.alarms] ELSE s.model
             p == [have |-> TRUE, frame |-> 0, ever |-> TRUE]
  <1>1. t.work = w /\ t.model = s.model
    BY DEF Filled
  <1>2. Seplos!Publish(t) = Showing(t, p, m)
    BY <1>1 DEF Seplos!Publish, Showing
  <1> HIDE DEF m, p
  <1>3. Seplos!Publish(t) = Filled(s.rx, w, m, p, c, Yes)
    BY <1>2, ShownChanged
  <1>4. m \in SepModels /\ (m.valid => NewIn(m))
    BY DEF m, Good, SepStates, SepWorks, SepModels, NewIn
  <1>5. p \in SepPackets /\ p.have /\ p.frame = 0
    BY SepMaxAge DEF p, SepContext, SepPackets
  <1>6. s.rx \in Seq(SepBytes)
    BY DEF Good, SepStates
  <1> DEFINE u == Filled(s.rx, w, m, p, c, Yes)
  <1>7. /\ u \in SepStates /\ u.rx = s.rx /\ u.work = w /\ u.model = m /\ u.packet = p /\ u.cand = c /\ u.locked = Yes
    BY <1>4, <1>5, <1>6, StateMade, YesIs
  <1> HIDE DEF u
  <1>8. ~crossed => Seplos!Grown(heard) <= 1
    <2>1. ~crossed => heard = 0
      BY DEF Timely
    <2>2. Seplos!MaxAge \in Nat /\ Seplos!MaxAge > 0
      BY SepMaxAge DEF SepContext, SepSizes
    <2> QED BY <2>1, <2>2 DEF Seplos!Grown
  <1>9. Fits(u, Seplos!Grown(heard))
    BY <1>5, <1>7, <1>8 DEF Fits
  <1> QED BY <1>3, <1>4, <1>7, <1>9 DEF Good, u

Chosen(s) == IF s.locked THEN s.cand ELSE polled

LEMMA LockIs ==
    ASSUME SepContext, Timely, NEW s, Good(s)
    PROVE  /\ Seplos!Lock(s) = Filled(s.rx, s.work, s.model, s.packet, Chosen(s), Yes)
           /\ Chosen(s) \in 1..Len(Candidates) /\ ((Quick /\ swaps = 0) => Answered(Chosen(s)))
  <1>1. s \in SepStates /\ Fits(s, Seplos!Grown(heard))
    BY DEF Good
  <1>2. /\ s = Filled(s.rx, s.work, s.model, s.packet, s.cand, s.locked)
        /\ s.cand \in 1..Len(Candidates) /\ s.locked \in BOOLEAN
    BY <1>1, StateHas
  <1>3. Chosen(s) \in 1..Len(Candidates) /\ ((Quick /\ swaps = 0) => Answered(Chosen(s)))
    BY <1>1, <1>2 DEF SepContext, Timely, Fits, Chosen
  <1>4. LockedAt(s, polled, Yes) = Filled(s.rx, s.work, s.model, s.packet, polled, Yes)
    BY <1>2, LockChanged
  <1>5. CASE s.locked
    <2>1. Seplos!Lock(s) = s /\ Chosen(s) = s.cand /\ s.locked = Yes
      BY <1>5, <1>2 DEF Seplos!Lock, Yes, Chosen
    <2> QED BY <2>1, <1>2, <1>3
  <1>6. CASE ~s.locked
    <2>1. Seplos!Lock(s) = LockedAt(s, polled, Yes) /\ Chosen(s) = polled
      BY <1>6 DEF Seplos!Lock, LockedAt, Yes, Chosen
    <2> QED BY <1>3, <1>4, <2>1
  <1> QED BY <1>5, <1>6

\* A frame that only says that something is there.
LEMMA LockedIsGood ==
    ASSUME SepContext, Timely, NEW s, Good(s), ~Unrefused \/ crossed
    PROVE  Good(Seplos!Lock(s)) /\ Seplos!Lock(s).rx = s.rx
  <1> DEFINE v == Seplos!Lock(s)
  <1>1. s \in SepStates /\ Fits(s, Seplos!Grown(heard)) /\ NewIn(s.work) /\ (s.model.valid => NewIn(s.model))
    BY DEF Good
  <1>2. /\ s.rx \in Seq(SepBytes) /\ s.work \in SepWorks /\ s.model \in SepModels /\ s.packet \in SepPackets
        /\ Yes \in BOOLEAN
    BY <1>1, StateHas, YesIs
  <1>3. /\ v = Filled(s.rx, s.work, s.model, s.packet, Chosen(s), Yes)
        /\ Chosen(s) \in 1..Len(Candidates) /\ ((Quick /\ swaps = 0) => Answered(Chosen(s)))
    BY LockIs
  <1> HIDE DEF v
  <1>4. /\ v \in SepStates /\ v.rx = s.rx /\ v.work = s.work /\ v.model = s.model /\ v.packet = s.packet
        /\ v.cand = Chosen(s)
    BY <1>2, <1>3, StateMade
  <1>5. Fits(v, Seplos!Grown(heard))
    BY <1>1, <1>3, <1>4 DEF Fits
  <1> QED BY <1>1, <1>4, <1>5 DEF Good, v

LEMMA WorkIsGood ==
    ASSUME SepContext, Timely, NEW s, Good(s), NEW w \in SepWorks, NewIn(w)
    PROVE  /\ Good(Seplos!Publish(WithWork(Seplos!Lock(s), w)))
           /\ Seplos!Publish(WithWork(Seplos!Lock(s), w)).rx = s.rx
  <1> DEFINE t == WithWork(Seplos!Lock(s), w)
  <1>1. /\ Seplos!Lock(s) = Filled(s.rx, s.work, s.model, s.packet, Chosen(s), Yes)
        /\ Chosen(s) \in 1..Len(Candidates) /\ ((Quick /\ swaps = 0) => Answered(Chosen(s)))
    BY LockIs
  <1>2. t = Filled(s.rx, w, s.model, s.packet, Chosen(s), Yes)
    BY <1>1, WorkChanged
  <1> QED BY <1>1, <1>2, PublishedIsGood

\* What is worked on, with one value changed.
LEMMA WorksAre ==
    ASSUME SepContext, NEW s, Good(s), NEW v \in 0..SepTop, (~crossed => v \in Vals)
    PROVE  /\ [s.work EXCEPT !.pack = v] \in SepWorks /\ NewIn([s.work EXCEPT !.pack = v])
           /\ [s.work EXCEPT !.cells = v] \in SepWorks /\ NewIn([s.work EXCEPT !.cells = v])
           /\ [s.work EXCEPT !.alarms = v] \in SepWorks /\ NewIn([s.work EXCEPT !.alarms = v])
           /\ [pack |-> v, cells |-> v, alarms |-> s.work.alarms] \in SepWorks
           /\ NewIn([pack |-> v, cells |-> v, alarms |-> s.work.alarms])
           /\ Seplos!Lock(s).work = s.work \/ ~Timely
  <1>1. s \in SepStates /\ NewIn(s.work)
    BY DEF Good
  <1>2. s.work \in SepWorks
    BY <1>1, StateHas
  <1> DEFINE a == s.work.pack
             b == s.work.cells
             c == s.work.alarms
  <1>3. a \in 0..SepTop /\ b \in 0..SepTop /\ c \in 0..SepTop /\ s.work = [pack |-> a, cells |-> b, alarms |-> c]
    BY <1>2 DEF SepWorks
  <1>4. (~crossed /\ ~packet.have) => {a, b, c, v} \subseteq Vals
    BY <1>1 DEF NewIn
  <1> HIDE DEF a, b, c
  <1>5. ASSUME NEW x \in {a, v}, NEW y \in {b, v}, NEW z \in {c, v}
        PROVE  [pack |-> x, cells |-> y, alarms |-> z] \in SepWorks /\ NewIn([pack |-> x, cells |-> y, alarms |-> z])
    BY <1>3, <1>4, <1>5 DEF SepWorks, NewIn
  <1>6. /\ [s.work EXCEPT !.pack = v] = [pack |-> v, cells |-> b, alarms |-> c]
        /\ [s.work EXCEPT !.cells = v] = [pack |-> a, cells |-> v, alarms |-> c]
        /\ [s.work EXCEPT !.alarms = v] = [pack |-> a, cells |-> b, alarms |-> v]
    BY <1>3
  <1>7. Seplos!Lock(s).work = s.work \/ ~Timely
    BY LockIs DEF Filled
  <1>8. [s.work EXCEPT !.pack = v] \in SepWorks /\ NewIn([s.work EXCEPT !.pack = v])
    BY <1>5, <1>6
  <1>9. [s.work EXCEPT !.cells = v] \in SepWorks /\ NewIn([s.work EXCEPT !.cells = v])
    BY <1>5, <1>6
  <1>10. [s.work EXCEPT !.alarms = v] \in SepWorks /\ NewIn([s.work EXCEPT !.alarms = v])
    BY <1>5, <1>6
  <1> QED BY <1>5, <1>7, <1>8, <1>9, <1>10 DEF c

LEMMA AsciiIsGood ==
    ASSUME SepContext, Timely, NEW s, Good(s), NEW f, Counts(f)
    PROVE  Good(Seplos!AsciiFrame(s, f)) /\ Seplos!AsciiFrame(s, f).rx = s.rx
  <1> DEFINE t == Seplos!Lock(s)
  <1>1. CASE f.empty
    <2>1. Seplos!AsciiFrame(s, f) = t /\ ~Unrefused
      BY <1>1 DEF Seplos!AsciiFrame, Counts
    <2> QED BY <2>1, LockedIsGood
  <1>2. f.val \in 0..SepTop /\ (~crossed => f.val \in Vals)
    BY DEF Counts, SepFrames, SepContext
  <1>3. t.work = s.work
    BY <1>2, WorksAre
  <1> HIDE DEF t
  <1>4. CASE ~f.empty /\ f.about = "telemetry"
    <2> DEFINE w == [pack |-> f.val, cells |-> f.val, alarms |-> s.work.alarms]
    <2>1. Seplos!AsciiFrame(s, f) = Seplos!Publish(WithWork(t, w))
      BY <1>3, <1>4 DEF Seplos!AsciiFrame, Seplos!Telemetry, t, WithWork
    <2>2. w \in SepWorks /\ NewIn(w)
      BY <1>2, WorksAre
    <2> HIDE DEF w
    <2> QED BY <2>1, <2>2, WorkIsGood DEF t
  <1>5. CASE ~f.empty /\ f.about # "telemetry"
    <2> DEFINE w == [s.work EXCEPT !.alarms = f.val]
    <2>1. Seplos!AsciiFrame(s, f) = Seplos!Publish(WithWork(t, w))
      BY <1>3, <1>5 DEF Seplos!AsciiFrame, Seplos!Alarms, t, WithWork
    <2>2. w \in SepWorks /\ NewIn(w)
      BY <1>2, WorksAre
    <2> HIDE DEF w
    <2> QED BY <2>1, <2>2, WorkIsGood DEF t
  <1> QED BY <1>1, <1>4, <1>5

LEMMA RtuIsGood ==
    ASSUME SepContext, Timely, NEW s, Good(s), NEW f, Counts(f), ~crossed => asked.reg = f.about
    PROVE  Good(Seplos!RtuFrame(s, f)) /\ Seplos!RtuFrame(s, f).rx = s.rx
  <1> DEFINE t == Seplos!Lock(s)
             r == Seplos!RtuFrame(s, f)
  <1>1. f.val \in 0..SepTop /\ (~crossed => f.val \in Vals) /\ f.about \in Seplos!Abouts
    BY DEF Counts, SepFrames, SepContext
  <1>2. t.work = s.work
    BY <1>1, WorksAre
  <1>3. /\ (r = t /\ (f.empty \/ asked.reg # f.about))
        \/ r = Seplos!Publish(WithWork(t, [s.work EXCEPT !.pack = f.val]))
        \/ (r = Seplos!Publish(WithWork(t, [s.work EXCEPT !.pack = Seplos!Odd])) /\ asked.reg # f.about)
        \/ r = Seplos!Publish(WithWork(t, [s.work EXCEPT !.cells = f.val]))
    <2> HIDE DEF t
    <2>1. r = Seplos!Applied(t, f, asked.reg)
      BY DEF Seplos!RtuFrame, t
    <2> HIDE DEF r
    <2>2. CASE f.empty
      BY <2>1, <2>2 DEF Seplos!Applied
    <2>3. CASE ~f.empty /\ asked.reg = "telemetry" /\ f.about = "telemetry"
      BY <1>2, <2>1, <2>3 DEF Seplos!Applied, WithWork
    <2>4. CASE ~f.empty /\ asked.reg = "telemetry" /\ f.about = "alarms"
      BY <1>2, <2>1, <2>4 DEF Seplos!Applied, WithWork
    <2>5. CASE ~f.empty /\ asked.reg = "alarms" /\ f.about = "alarms"
      BY <1>2, <2>1, <2>5 DEF Seplos!Applied, WithWork
    <2>6. CASE ~f.empty /\ asked.reg # "telemetry" /\ ~(asked.reg = "alarms" /\ f.about = "alarms")
      <3>1. asked.reg # f.about
        BY <1>1, <2>6 DEF Seplos!Abouts
      <3> QED BY <2>1, <2>6, <3>1 DEF Seplos!Applied
    <2> QED BY <1>1, <2>2, <2>3, <2>4, <2>5, <2>6 DEF Seplos!Abouts
  <1> HIDE DEF r
  <1>4. CASE r = t /\ (f.empty \/ asked.reg # f.about)
    <2>1. ~Unrefused \/ crossed
      BY <1>4 DEF Counts
    <2> QED BY <1>4, <2>1, LockedIsGood DEF r
  <1>5. CASE r = Seplos!Publish(WithWork(t, [s.work EXCEPT !.pack = f.val]))
    <2> DEFINE w == [s.work EXCEPT !.pack = f.val]
    <2>2. w \in SepWorks /\ NewIn(w)
      BY <1>1, WorksAre
    <2> HIDE DEF w
    <2> QED BY <1>5, <2>2, WorkIsGood DEF r, w
  <1>6. CASE r = Seplos!Publish(WithWork(t, [s.work EXCEPT !.pack = Seplos!Odd])) /\ asked.reg # f.about
    <2> DEFINE w == [s.work EXCEPT !.pack = Seplos!Odd]
    <2>1. Seplos!Odd \in 0..SepTop /\ crossed
      BY <1>6 DEF Seplos!Odd, SepTop, SepContext, SepSizes
    <2>2. w \in SepWorks /\ NewIn(w)
      <3> DEFINE x == Seplos!Odd
      <3>1. x \in 0..SepTop /\ (~crossed => x \in Vals)
        BY <2>1
      <3> HIDE DEF x
      <3>2. [s.work EXCEPT !.pack = x] \in SepWorks /\ NewIn([s.work EXCEPT !.pack = x])
        BY <3>1, WorksAre
      <3> QED BY <3>2 DEF x
    <2> HIDE DEF w
    <2> QED BY <1>6, <2>2, WorkIsGood DEF r, w
  <1>7. CASE r = Seplos!Publish(WithWork(t, [s.work EXCEPT !.cells = f.val]))
    <2> DEFINE w == [s.work EXCEPT !.cells = f.val]
    <2>2. w \in SepWorks /\ NewIn(w)
      BY <1>1, WorksAre
    <2> HIDE DEF w
    <2> QED BY <1>7, <2>2, WorkIsGood DEF r, w
  <1> QED BY <1>3, <1>4, <1>5, <1>6, <1>7

-----------------------------------------------------------------------------
IsFirst(b) == b[1].kind = "rtu" /\ b[2] = 1

\* A byte whose frame may count, and that ends or begins one only if it has just come.
Sound(b) ==
    /\ b[1].val <= gen /\ b[1].val \in Vals /\ (Unrefused => ~b[1].empty)
    /\ ~crossed => /\ Seplos!IsEnd(b) => Timely
                   /\ IsFirst(b) => Timely /\ asked.rtu /\ asked.reg = b[1].about

Buffer(q) == q \in Seq(SepBytes) /\ \A i \in 1..Len(q) : Sound(q[i])
Once(q)   == ~crossed => \A i, j \in 1..Len(q) : IsFirst(q[i]) /\ IsFirst(q[j]) => i = j

\* Nothing in it begins an answer of the other protocol.
NoFirst(q) == ~crossed => \A i \in 1..Len(q) : ~IsFirst(q[i])

\* Nothing in it ends a frame.
NoEnd(q) == \A i \in 1..Len(q) : ~Seplos!IsEnd(q[i])

SepBuffers ==
    SepContext /\ (crossed => swaps > 0 /\ Timely) /\ gen <= MaxSwaps + 1

LEMMA FromIs ==
    ASSUME NEW S, NEW q \in Seq(S), NEW i \in 1..(Len(q) + 1)
    PROVE  /\ Seplos!From(q, i) \in Seq(S) /\ Len(Seplos!From(q, i)) = Len(q) - i + 1
           /\ \A k \in 1..(Len(q) - i + 1) : Seplos!From(q, i)[k] = q[k + i - 1]
  BY DEF Seplos!From

LEMMA FirstIs ==
    ASSUME NEW T \in SUBSET Nat, T # {}
    PROVE  Seplos!First(T) \in T /\ \A j \in T : Seplos!First(T) <= j
  <1>1. \E i \in T : \A j \in T : i <= j
    BY LeastNumber
  <1> QED BY <1>1 DEF Seplos!First

LEMMA SuffixIs ==
    ASSUME NEW q, Buffer(q), NEW i \in 1..(Len(q) + 1)
    PROVE  /\ Buffer(Seplos!From(q, i)) /\ Len(Seplos!From(q, i)) = Len(q) - i + 1
           /\ \A k \in 1..(Len(q) - i + 1) : Seplos!From(q, i)[k] = q[k + i - 1]
  <1>1. q \in Seq(SepBytes) /\ (\A k \in 1..Len(q) : Sound(q[k])) /\ Len(q) \in Nat
    BY DEF Buffer
  <1> DEFINE r == Seplos!From(q, i)
  <1>2. /\ r \in Seq(SepBytes) /\ Len(r) = Len(q) - i + 1
        /\ \A k \in 1..(Len(q) - i + 1) : r[k] = q[k + i - 1]
    BY <1>1, FromIs
  <1> HIDE DEF r
  <1>3. ASSUME NEW k \in 1..Len(r) PROVE Sound(r[k])
    BY <1>1, <1>2
  <1> QED BY <1>2, <1>3 DEF Buffer, r

LEMMA SoundCounts ==
    ASSUME SepBuffers, NEW b \in SepBytes, Sound(b)
    PROVE  Counts(b[1]) /\ b[1] \in SepFrames /\ b[2] \in 1..4
  <1> DEFINE f == b[1]
  <1>1. f \in SepFrames /\ b[2] \in 1..4
    BY DEF SepBytes
  <1>2. f.val <= gen /\ f.val \in Vals /\ (Unrefused => ~f.empty)
    BY DEF Sound
  <1> HIDE DEF f
  <1>3. f.val \in Nat /\ gen \in Nat /\ gen <= MaxSwaps + 1 /\ MaxSwaps \in Nat
    BY <1>1 DEF SepFrames, SepBuffers, SepContext, SepSizes
  <1>4. f.val <= SepTop
    BY <1>2, <1>3 DEF SepTop
  <1> QED BY <1>1, <1>2, <1>4 DEF Counts, f

LEMMA EmptyIs == Buffer(<<>>) /\ NoFirst(<<>>) /\ NoEnd(<<>>)
  BY DEF Buffer, NoFirst, NoEnd

\* With something else in the buffer.
LEMMA RxIsGood ==
    ASSUME NEW s, Good(s), NEW q \in Seq(SepBytes)
    PROVE  Good(WithRx(s, q)) /\ WithRx(s, q).rx = q /\ WithRx(s, q).locked = s.locked
  <1>1. s \in SepStates /\ Fits(s, Seplos!Grown(heard)) /\ NewIn(s.work) /\ (s.model.valid => NewIn(s.model))
    BY DEF Good
  <1>2. /\ s = Filled(s.rx, s.work, s.model, s.packet, s.cand, s.locked)
        /\ s.work \in SepWorks /\ s.model \in SepModels /\ s.packet \in SepPackets
        /\ s.cand \in 1..Len(Candidates) /\ s.locked \in BOOLEAN
    BY <1>1, StateHas
  <1> DEFINE v == WithRx(s, q)
  <1>3. v = Filled(q, s.work, s.model, s.packet, s.cand, s.locked)
    BY <1>2, RxChanged
  <1> HIDE DEF v
  <1>4. /\ v \in SepStates /\ v.rx = q /\ v.work = s.work /\ v.model = s.model /\ v.packet = s.packet
        /\ v.cand = s.cand /\ v.locked = s.locked
    BY <1>2, <1>3, StateMade
  <1>5. Fits(v, Seplos!Grown(heard))
    BY <1>1, <1>4 DEF Fits
  <1> QED BY <1>1, <1>4, <1>5 DEF Good, v

\* consumeModbusRx.
LEMMA RtuConsumed ==
    ASSUME SepBuffers, NEW s, Good(s), Buffer(s.rx), Once(s.rx)
    PROVE  /\ Good(Seplos!ConsumeRtu(s)) /\ Buffer(Seplos!ConsumeRtu(s).rx)
           /\ Len(Seplos!ConsumeRtu(s).rx) <= Len(s.rx)
           /\ ~crossed => \A i \in 2..Len(Seplos!ConsumeRtu(s).rx) : ~IsFirst(Seplos!ConsumeRtu(s).rx[i])
           /\ ~crossed /\ Seplos!ConsumeRtu(s).rx # <<>> =>
                ~IsFirst(Seplos!ConsumeRtu(s).rx[1]) \/ ~Seplos!IsStart(Seplos!ConsumeRtu(s).rx[1])
  <1> DEFINE t      == Seplos!ConsumeRtu(s)
             starts == Seplos!RtuStarts(s.rx)
             m      == Seplos!First(starts)
             buf    == Seplos!From(s.rx, m)
             f      == buf[1][1]
  <1>1. s.rx \in Seq(SepBytes) /\ Len(s.rx) \in Nat /\ \A k \in 1..Len(s.rx) : s.rx[k] \in SepBytes /\ Sound(s.rx[k])
    BY DEF Buffer
  <1>2. ASSUME NEW b PROVE ~IsFirst(b) \/ ~Seplos!IsStart(b)
    BY DEF IsFirst, Seplos!IsStart
  <1>3. SUFFICES /\ Good(t) /\ Buffer(t.rx) /\ Len(t.rx) <= Len(s.rx)
                 /\ ~crossed => \A i \in 2..Len(t.rx) : ~IsFirst(t.rx[i])
    BY <1>2
  <1>4. CASE ~asked.rtu
    <2>1. t = s
      BY <1>4 DEF Seplos!ConsumeRtu
    <2>2. ASSUME ~crossed, NEW i \in 1..Len(s.rx) PROVE ~IsFirst(s.rx[i])
      BY <1>1, <1>4, <2>2 DEF Sound
    <2> QED BY <1>1, <2>1, <2>2
  <1>5. CASE asked.rtu /\ starts = {}
    <2>1. t = WithRx(s, <<>>)
      BY <1>5 DEF Seplos!ConsumeRtu, WithRx
    <2>2. <<>> \in Seq(SepBytes) /\ Len(<<>>) = 0
      OBVIOUS
    <2>3. Good(t) /\ t.rx = <<>>
      BY <2>1, <2>2, RxIsGood
    <2> QED BY <1>1, <2>2, <2>3, EmptyIs
  <1>6. CASE asked.rtu /\ starts # {}
    <2>1. m \in starts /\ m \in 1..Len(s.rx) /\ IsFirst(s.rx[m])
      <3>1. starts \in SUBSET Nat
        BY DEF Seplos!RtuStarts
      <3> HIDE DEF starts
      <3>2. m \in starts
        BY <1>6, <3>1, FirstIs
      <3>3. m \in 1..(Len(s.rx) - 1) /\ s.rx[m][1].kind = "rtu" /\ s.rx[m][2] = 1
        BY <3>2 DEF starts, Seplos!RtuStarts
      <3> HIDE DEF m
      <3> QED BY <1>1, <3>2, <3>3 DEF IsFirst
    <2> HIDE DEF m
    <2>2. /\ Buffer(buf) /\ Len(buf) = Len(s.rx) - m + 1 /\ Len(buf) \in Nat \ {0}
          /\ \A k \in 1..Len(buf) : buf[k] = s.rx[k + m - 1]
      <3>1. m \in 1..(Len(s.rx) + 1) /\ Len(s.rx) - m + 1 \in Nat \ {0}
        BY <1>1, <2>1
      <3>2. /\ Buffer(buf) /\ Len(buf) = Len(s.rx) - m + 1
            /\ \A k \in 1..(Len(s.rx) - m + 1) : buf[k] = s.rx[k + m - 1]
        BY <3>1, SuffixIs
      <3> HIDE DEF buf
      <3> QED BY <3>1, <3>2
    <2>3. ASSUME ~crossed, NEW k \in 2..Len(buf) PROVE ~IsFirst(buf[k])
      <3>1. k + m - 1 \in 1..Len(s.rx) /\ k + m - 1 # m /\ buf[k] = s.rx[k + m - 1]
        BY <1>1, <2>1, <2>2
      <3> QED BY <2>1, <2>3, <3>1 DEF Once
    <2>4. buf[1] = s.rx[m] /\ buf[1] \in SepBytes /\ Sound(buf[1]) /\ IsFirst(buf[1])
      BY <1>1, <2>1, <2>2
    <2> HIDE DEF buf
    <2>5. Counts(f) /\ f.kind = "rtu" /\ Timely /\ (~crossed => asked.reg = f.about)
      BY <2>4, SoundCounts DEF Sound, IsFirst, SepBuffers
    <2>6. Seplos!Size(f) = 4
      BY <2>5 DEF Seplos!Size
    <2> HIDE DEF f
    <2>7. \/ t = WithRx(s, buf)
          \/ t = WithRx(Seplos!RtuFrame(s, f), Seplos!From(buf, 5)) /\ Len(buf) >= 4
          \/ t = WithRx(s, Tail(buf))
      <3>1. CASE Len(buf) < 4
        BY <1>6, <2>6, <3>1 DEF Seplos!ConsumeRtu, WithRx, buf, m, f
      <3>2. CASE Len(buf) >= 4 /\ f.ok /\ SubSeq(buf, 1, 4) = Seplos!Bytes(f)
        BY <1>6, <2>6, <3>2 DEF Seplos!ConsumeRtu, WithRx, buf, m, f
      <3>3. CASE Len(buf) >= 4 /\ ~(f.ok /\ SubSeq(buf, 1, 4) = Seplos!Bytes(f))
        <4>1. ~(Len(buf) < 4)
          BY <2>2, <3>3
        <4> QED BY <1>6, <2>6, <3>3, <4>1 DEF Seplos!ConsumeRtu, WithRx, buf, m, f
      <3> QED BY <2>2, <3>1, <3>2, <3>3
    <2>8. buf \in Seq(SepBytes)
      BY <2>2 DEF Buffer
    <2> HIDE DEF t
    <2>9. CASE t = WithRx(s, buf)
      <3>1. Good(t) /\ t.rx = buf
        BY <2>8, <2>9, RxIsGood
      <3> QED BY <1>1, <2>1, <2>2, <2>3, <3>1
    <2>10. CASE t = WithRx(Seplos!RtuFrame(s, f), Seplos!From(buf, 5)) /\ Len(buf) >= 4
      <3> DEFINE q == Seplos!From(buf, 5)
      <3>a. 5 \in 1..(Len(buf) + 1) /\ Len(buf) - 5 + 1 = Len(buf) - 4
        BY <2>2, <2>10
      <3>b. /\ Buffer(q) /\ Len(q) = Len(buf) - 5 + 1
            /\ \A k \in 1..(Len(buf) - 5 + 1) : q[k] = buf[k + 5 - 1]
        BY <2>2, <3>a, SuffixIs
      <3> HIDE DEF q
      <3>1. Buffer(q) /\ Len(q) = Len(buf) - 4 /\ \A k \in 1..Len(q) : q[k] = buf[k + 4]
        BY <2>2, <3>b
      <3>2. q \in Seq(SepBytes)
        BY <3>1 DEF Buffer
      <3>3. Good(Seplos!RtuFrame(s, f))
        BY <2>5, RtuIsGood DEF SepBuffers
      <3>4. Good(t) /\ t.rx = q
        BY <2>10, <3>2, <3>3, RxIsGood DEF q
      <3>5. ASSUME ~crossed, NEW i \in 2..Len(q) PROVE ~IsFirst(q[i])
        <4>1. i + 4 \in 2..Len(buf) /\ q[i] = buf[i + 4]
          BY <2>2, <2>10, <3>1
        <4> QED BY <2>3, <3>5, <4>1
      <3>6. Len(q) <= Len(s.rx)
        BY <1>1, <2>1, <2>2, <3>1
      <3> QED BY <3>1, <3>4, <3>5, <3>6
    <2>11. CASE t = WithRx(s, Tail(buf))
      <3> DEFINE q == Tail(buf)
      <3>1. q = Seplos!From(buf, 2)
        BY <2>2, <2>8 DEF Seplos!From
      <3> HIDE DEF q
      <3>a. 2 \in 1..(Len(buf) + 1)
        BY <2>2
      <3>b. /\ Buffer(q) /\ Len(q) = Len(buf) - 2 + 1
            /\ \A k \in 1..(Len(buf) - 2 + 1) : q[k] = buf[k + 2 - 1]
        BY <2>2, <3>1, <3>a, SuffixIs
      <3>2. Buffer(q) /\ Len(q) = Len(buf) - 1 /\ \A k \in 1..Len(q) : q[k] = buf[k + 1]
        BY <2>2, <3>b
      <3>3. q \in Seq(SepBytes)
        BY <3>2 DEF Buffer
      <3>4. Good(t) /\ t.rx = q
        BY <2>11, <3>3, RxIsGood DEF q
      <3>5. ASSUME ~crossed, NEW i \in 2..Len(q) PROVE ~IsFirst(q[i])
        <4>1. i + 1 \in 2..Len(buf) /\ q[i] = buf[i + 1]
          BY <2>2, <3>2
        <4> QED BY <2>3, <3>5, <4>1
      <3>6. Len(q) <= Len(s.rx)
        BY <1>1, <2>1, <2>2, <3>2
      <3> QED BY <3>2, <3>4, <3>5, <3>6
    <2> QED BY <2>7, <2>9, <2>10, <2>11
  <1> QED BY <1>4, <1>5, <1>6


\* How far the search for frames has come, and what it has made of them.
Ends(q) == {e \in [st : SepStates, next : 1..(Len(q) + 1)] : Good(e.st) /\ e.st.rx = q}

Between(q, i, p) == \E k \in i..Len(q) : k < p /\ Seplos!IsStart(q[k])

LEMMA EndsAre ==
    ASSUME NEW q, Len(q) \in Nat, NEW t, Good(t), t.rx = q, NEW n \in 1..(Len(q) + 1)
    PROVE  /\ [st |-> t, next |-> n] \in Ends(q)
           /\ [st |-> t, next |-> n].st = t /\ [st |-> t, next |-> n].next = n
  BY DEF Ends, Good

LEMMA EndedIs ==
    ASSUME SepBuffers, NEW q, Buffer(q), NEW e \in Ends(q), NEW p \in 1..Len(q)
    PROVE  /\ Seplos!EndedAt(e, p) \in Ends(q)
           /\ Seplos!EndedAt(e, p).next =
                IF Seplos!IsEnd(q[p]) /\ Between(q, e.next, p) THEN p + 1 ELSE e.next
  <1> DEFINE starts == {k \in Seplos!AsciiStarts(e.st.rx, e.next) : k < p}
             i == Seplos!First(starts)
             f == q[i][1]
             d == Seplos!EndedAt(e, p)
  <1>1. /\ q \in Seq(SepBytes) /\ Len(q) \in Nat /\ \A k \in 1..Len(q) : q[k] \in SepBytes /\ Sound(q[k])
    BY DEF Buffer
  <1>2. e.st.rx = q /\ Good(e.st) /\ e.next \in 1..(Len(q) + 1)
    BY DEF Ends
  <1>3. starts = {k \in e.next..Len(q) : k < p /\ Seplos!IsStart(q[k])}
    BY <1>2 DEF Seplos!AsciiStarts
  <1>4. starts # {} <=> Between(q, e.next, p)
    BY <1>3 DEF Between
  <1>5. CASE ~Seplos!IsEnd(q[p]) \/ starts = {}
    <2>1. d = e
      BY <1>2, <1>5 DEF Seplos!EndedAt
    <2> QED BY <1>4, <1>5, <2>1
  <1>6. CASE Seplos!IsEnd(q[p]) /\ starts # {}
    <2>1. i \in 1..Len(q)
      <3>1. starts \in SUBSET Nat /\ starts \subseteq 1..Len(q)
        BY <1>1, <1>2, <1>3
      <3> HIDE DEF starts
      <3>2. i \in starts
        BY <1>6, <3>1, FirstIs
      <3> QED BY <3>1, <3>2
    <2> HIDE DEF starts
    <2> DEFINE t == IF SubSeq(q, i, p) = Seplos!Bytes(f) /\ f.ok THEN Seplos!AsciiFrame(e.st, f) ELSE e.st
    <2>2. d = [st |-> t, next |-> p + 1]
      BY <1>2, <1>6 DEF Seplos!EndedAt, starts
    <2> HIDE DEF i
    <2>3. Counts(f)
      <3>1. q[i] \in SepBytes /\ Sound(q[i])
        BY <1>1, <2>1
      <3> QED BY <3>1, SoundCounts
    <2>4. Timely
      <3>1. Sound(q[p])
        BY <1>1
      <3> QED BY <1>6, <3>1 DEF Sound, SepBuffers
    <2> HIDE DEF f
    <2>5. Good(t) /\ t.rx = q
      BY <1>2, <2>3, <2>4, AsciiIsGood DEF SepBuffers
    <2> HIDE DEF t, d
    <2>6. p + 1 \in 1..(Len(q) + 1)
      BY <1>1
    <2>7. d \in Ends(q) /\ d.next = p + 1
      BY <1>1, <2>2, <2>5, <2>6, EndsAre
    <2> QED BY <1>4, <1>6, <2>7 DEF d
  <1> QED BY <1>5, <1>6

\* No end that was passed has a start before it that was not.
Passed(q, n, p) ==
    \A k \in 1..p : Seplos!IsEnd(q[k]) => \A i \in n..(k - 1) : ~Seplos!IsStart(q[i])

LEMMA PassedMore ==
    ASSUME NEW q, Len(q) \in Nat, NEW p \in 1..Len(q), NEW n \in 1..p, Passed(q, n, p - 1), NEW m,
           m = IF Seplos!IsEnd(q[p]) /\ Between(q, n, p) THEN p + 1 ELSE n
    PROVE  Passed(q, m, p) /\ m \in 1..(p + 1)
  <1>1. CASE Seplos!IsEnd(q[p]) /\ Between(q, n, p)
    BY <1>1 DEF Passed
  <1>2. CASE ~(Seplos!IsEnd(q[p]) /\ Between(q, n, p))
    <2>1. ASSUME NEW k \in 1..p, Seplos!IsEnd(q[k]), NEW i \in n..(k - 1) PROVE ~Seplos!IsStart(q[i])
      <3>1. CASE k = p
        BY <1>2, <2>1, <3>1 DEF Between
      <3>2. CASE k # p
        BY <2>1, <3>2 DEF Passed
      <3> QED BY <3>1, <3>2
    <2> QED BY <1>2, <2>1 DEF Passed
  <1> QED BY <1>1, <1>2

LEMMA SearchIs ==
    ASSUME SepBuffers, NEW s, Good(s), Buffer(s.rx), NEW N \in Nat, N = Len(s.rx)
    PROVE  \E e \in Ends(s.rx) :
             /\ Passed(s.rx, e.next, N)
             /\ Seplos!ConsumeAscii(s) =
                  WithRx(e.st, IF Seplos!AsciiStarts(s.rx, e.next) = {} THEN <<>>
                               ELSE Seplos!From(s.rx, Seplos!First(Seplos!AsciiStarts(s.rx, e.next))))
  <1> DEFINE q     == s.rx
             S     == Ends(q)
             b     == [st |-> s, next |-> 1]
             F     == [p \in 1..N |-> [x \in S |-> Seplos!EndedAt(x, p)]]
             Eq(g) == g = [p \in 0..N |-> IF p = 0 THEN b ELSE Seplos!EndedAt(g[p - 1], p)]
             f     == CHOOSE g : Eq(g)
  <1>0. b \in S /\ b.next = 1
    <2>1. 1 \in 1..(Len(q) + 1) /\ Len(q) \in Nat
      OBVIOUS
    <2> QED BY <2>1, EndsAre
  <1>1. F \in Moves(S, N)
    <2>1. ASSUME NEW p \in 1..N, NEW x \in S PROVE Seplos!EndedAt(x, p) \in S
      BY EndedIs
    <2> HIDE DEF S
    <2> QED BY <2>1 DEF Moves
  <1>2. \A p \in 1..N : \A x \in S : F[p][x] = Seplos!EndedAt(x, p)
    OBVIOUS
  <1> HIDE DEF F, S, b
  <1>3. PICK g : IsRun(g, S, N, b, F)
    BY <1>0, <1>1, IterExists
  <1>4. Eq(g)
    <2>1. \A n \in 0..N : g[n] = IF n = 0 THEN b ELSE Seplos!EndedAt(g[n - 1], n)
      BY <1>2, <1>3 DEF IsRun
    <2> QED BY <2>1, <1>3 DEF IsRun
  <1>5. Eq(f)
    <2> HIDE DEF Eq
    <2> QED BY <1>4
  <1>6. Seplos!ConsumeAscii(s) =
          WithRx(f[N].st, IF Seplos!AsciiStarts(s.rx, f[N].next) = {} THEN <<>>
                          ELSE Seplos!From(s.rx, Seplos!First(Seplos!AsciiStarts(s.rx, f[N].next))))
    BY DEF Seplos!ConsumeAscii, WithRx, b
  <1> HIDE DEF f
  <1>7. f[0] = b /\ \A n \in 1..N : f[n] = Seplos!EndedAt(f[n - 1], n)
    <2>1. \A n \in 0..N : f[n] = IF n = 0 THEN b ELSE Seplos!EndedAt(f[n - 1], n)
      BY <1>5
    <2> HIDE DEF Eq
    <2>2. 0 \in 0..N /\ \A n \in 1..N : n \in 0..N /\ n # 0
      BY <1>0
    <2> QED BY <2>1, <2>2
  <1> DEFINE T == {n \in 0..N : f[n] \in S /\ f[n].next \in 1..(n + 1) /\ Passed(q, f[n].next, n)}
  <1>8. 0 \in T
    <2>1. Passed(q, 1, 0)
      BY DEF Passed
    <2> QED BY <1>0, <1>7, <2>1
  <1>9. ASSUME NEW i \in 1..N, i - 1 \in T PROVE i \in T
    <2>1. f[i - 1] \in S /\ f[i - 1].next \in 1..i /\ Passed(q, f[i - 1].next, i - 1)
      BY <1>9
    <2>2. /\ f[i] \in S
          /\ f[i].next = IF Seplos!IsEnd(q[i]) /\ Between(q, f[i - 1].next, i) THEN i + 1 ELSE f[i - 1].next
      <3>1. f[i] = Seplos!EndedAt(f[i - 1], i)
        BY <1>7
      <3> QED BY <2>1, <3>1, EndedIs DEF S
    <2>3. Passed(q, f[i].next, i) /\ f[i].next \in 1..(i + 1)
      BY <2>1, <2>2, PassedMore
    <2> QED BY <2>2, <2>3
  <1>9a. \A i \in 1..N : i - 1 \in T => i \in T
    BY <1>9
  <1> HIDE DEF T
  <1>10. \A i \in 0..N : i \in T
    BY <1>8, <1>9a, Climb
  <1>11. N \in 0..N /\ N \in T
    BY <1>10
  <1>12. f[N] \in S /\ Passed(q, f[N].next, N)
    BY <1>11 DEF T
  <1> QED BY <1>6, <1>12 DEF S

\* consumeRx, after the answers of the other protocol.
LEMMA AsciiConsumed ==
    ASSUME SepBuffers, NEW s, Good(s), Buffer(s.rx), Len(s.rx) <= BufMax,
           ~crossed => \A i \in 2..Len(s.rx) : ~IsFirst(s.rx[i])
    PROVE  /\ Good(Seplos!ConsumeAscii(s)) /\ Buffer(Seplos!ConsumeAscii(s).rx)
           /\ Len(Seplos!ConsumeAscii(s).rx) <= BufMax
           /\ NoFirst(Seplos!ConsumeAscii(s).rx) /\ NoEnd(Seplos!ConsumeAscii(s).rx)
  <1> DEFINE q == s.rx
             t == Seplos!ConsumeAscii(s)
  <1>1. q \in Seq(SepBytes) /\ Len(q) \in Nat /\ BufMax \in Nat
    BY DEF Buffer, SepBuffers, SepContext, SepSizes
  <1>2. PICK e \in Ends(q) :
          /\ Passed(q, e.next, Len(q))
          /\ t = WithRx(e.st, IF Seplos!AsciiStarts(q, e.next) = {} THEN <<>>
                              ELSE Seplos!From(q, Seplos!First(Seplos!AsciiStarts(q, e.next))))
    BY <1>1, SearchIs
  <1>3. Good(e.st) /\ e.next \in 1..(Len(q) + 1)
    BY DEF Ends
  <1> HIDE DEF t
  <1>4. CASE Seplos!AsciiStarts(q, e.next) = {}
    <2>1. t = WithRx(e.st, <<>>) /\ <<>> \in Seq(SepBytes) /\ Len(<<>>) = 0
      BY <1>2, <1>4
    <2>2. Good(t) /\ t.rx = <<>>
      BY <1>3, <2>1, RxIsGood
    <2> QED BY <1>1, <2>1, <2>2, EmptyIs DEF t
  <1>5. CASE Seplos!AsciiStarts(q, e.next) # {}
    <2> DEFINE T == Seplos!AsciiStarts(q, e.next)
               m == Seplos!First(T)
               r == Seplos!From(q, m)
    <2>1. t = WithRx(e.st, r)
      BY <1>2, <1>5
    <2>2. m \in e.next..Len(q) /\ Seplos!IsStart(q[m])
      <3>1. T \in SUBSET Nat
        BY <1>1, <1>3 DEF Seplos!AsciiStarts
      <3> HIDE DEF T
      <3>2. m \in T
        BY <1>5, <3>1, FirstIs DEF T
      <3> QED BY <3>2 DEF T, Seplos!AsciiStarts
    <2> HIDE DEF m
    <2>3. m \in 1..(Len(q) + 1) /\ m \in 1..Len(q)
      BY <1>1, <1>3, <2>2
    <2>4. /\ Buffer(r) /\ Len(r) = Len(q) - m + 1
          /\ \A k \in 1..(Len(q) - m + 1) : r[k] = q[k + m - 1]
      BY <2>3, SuffixIs
    <2> HIDE DEF r
    <2>5. r \in Seq(SepBytes) /\ Len(r) <= BufMax
      BY <1>1, <2>3, <2>4 DEF Buffer
    <2>6. Good(t) /\ t.rx = r
      BY <1>3, <2>1, <2>5, RxIsGood
    <2>7. ASSUME NEW k \in 1..Len(r) PROVE ~Seplos!IsEnd(r[k]) /\ (~crossed => ~IsFirst(r[k]))
      <3> DEFINE p == k + m - 1
      <3>1. r[k] = q[p] /\ p \in m..Len(q) /\ p \in 1..Len(q)
        BY <1>1, <2>3, <2>4
      <3>2. CASE p = m
        BY <2>2, <3>1, <3>2 DEF Seplos!IsStart, Seplos!IsEnd, IsFirst
      <3>3. CASE p # m
        <4> HIDE DEF p
        <4>1. m \in e.next..(p - 1) /\ p \in 2..Len(q)
          BY <1>1, <1>3, <2>2, <2>3, <3>1, <3>3
        <4>2. ~Seplos!IsEnd(q[p])
          BY <1>2, <2>2, <3>1, <4>1 DEF Passed
        <4> QED BY <3>1, <4>1, <4>2
      <3> QED BY <3>2, <3>3
    <2>8. NoEnd(r) /\ NoFirst(r)
      BY <2>7 DEF NoEnd, NoFirst
    <2> QED BY <2>4, <2>5, <2>6, <2>8 DEF t
  <1> QED BY <1>4, <1>5


LEMMA JoinIs ==
    ASSUME NEW S, NEW w \in Seq(S), NEW d \in Seq(S)
    PROVE  /\ w \o d \in Seq(S) /\ Len(w \o d) = Len(w) + Len(d)
           /\ \A i \in 1..Len(w) : (w \o d)[i] = w[i]
           /\ \A i \in 1..Len(d) : (w \o d)[Len(w) + i] = d[i]
  OBVIOUS

Joined(w, d, q) ==
    \A i \in 1..Len(q) :
        (i \in 1..Len(w) /\ q[i] = w[i]) \/ \E j \in 1..Len(d) : i = Len(w) + j /\ q[i] = d[j]

LEMMA JoinHas ==
    ASSUME NEW S, NEW w \in Seq(S), NEW d \in Seq(S), NEW q, q = w \o d
    PROVE  Joined(w, d, q)
  <1> USE DEF Joined
  <1> SUFFICES ASSUME NEW i \in 1..Len(q)
               PROVE  (i \in 1..Len(w) /\ q[i] = w[i]) \/ \E j \in 1..Len(d) : i = Len(w) + j /\ q[i] = d[j]
    OBVIOUS
  <1>1. Len(w) \in Nat /\ Len(d) \in Nat /\ i \in 1..(Len(w) + Len(d))
    OBVIOUS
  <1>2. CASE i <= Len(w)
    BY <1>1, <1>2, JoinIs
  <1>3. CASE ~(i <= Len(w))
    <2>1. i - Len(w) \in 1..Len(d) /\ i = Len(w) + (i - Len(w))
      BY <1>1, <1>3
    <2>2. (w \o d)[Len(w) + (i - Len(w))] = d[i - Len(w)]
      BY <2>1, JoinIs
    <2> QED BY <2>1, <2>2
  <1> QED BY <1>2, <1>3

\* Fill and what consumes it.
LEMMA RxConsumed ==
    ASSUME SepBuffers, NEW s, Good(s), s.rx = rx, Buffer(rx), Buffer(wire), Once(wire), NoFirst(rx), NoEnd(rx),
           Len(rx) <= BufMax
    PROVE  /\ Good(Seplos!ConsumeRx(s)) /\ Buffer(Seplos!ConsumeRx(s).rx)
           /\ Len(Seplos!ConsumeRx(s).rx) <= BufMax
           /\ NoFirst(Seplos!ConsumeRx(s).rx) /\ NoEnd(Seplos!ConsumeRx(s).rx)
  <1> DEFINE t == Seplos!Fill(s, wire)
             q == IF Len(wire) > BufMax - Len(rx)
                  THEN Seplos!From(wire, IF Len(wire) > BufMax THEN Len(wire) - BufMax + 1 ELSE 1)
                  ELSE rx \o wire
  <1>1. CASE wire = <<>>
    BY <1>1 DEF Seplos!ConsumeRx
  <1>2. CASE wire # <<>>
    <2>1. /\ rx \in Seq(SepBytes) /\ wire \in Seq(SepBytes) /\ Len(rx) \in Nat /\ Len(wire) \in Nat /\ BufMax \in Nat
          /\ (\A i \in 1..Len(rx) : Sound(rx[i])) /\ \A i \in 1..Len(wire) : Sound(wire[i])
      BY DEF Buffer, SepBuffers, SepContext, SepSizes
    <2>2. t = WithRx(s, q)
      BY DEF Seplos!Fill, WithRx
    <2>3. Seplos!ConsumeRx(s) = Seplos!ConsumeAscii(Seplos!ConsumeRtu(t))
      BY <1>2 DEF Seplos!ConsumeRx
    <2> HIDE DEF t
    <2>4. Buffer(q) /\ Len(q) <= BufMax /\ Once(q)
      <3>1. CASE Len(wire) > BufMax - Len(rx)
        <4> DEFINE n == IF Len(wire) > BufMax THEN Len(wire) - BufMax + 1 ELSE 1
        <4>1. q = Seplos!From(wire, n) /\ n \in 1..(Len(wire) + 1) /\ Len(wire) - n + 1 <= BufMax
          BY <2>1, <3>1
        <4> HIDE DEF q, n
        <4>2. /\ Buffer(q) /\ Len(q) = Len(wire) - n + 1
              /\ \A k \in 1..(Len(wire) - n + 1) : q[k] = wire[k + n - 1]
          BY <4>1, SuffixIs
        <4>3. ASSUME ~crossed, NEW i \in 1..Len(q), NEW j \in 1..Len(q), IsFirst(q[i]), IsFirst(q[j]) PROVE i = j
          <5>1. i + n - 1 \in 1..Len(wire) /\ j + n - 1 \in 1..Len(wire) /\ q[i] = wire[i + n - 1] /\ q[j] = wire[j + n - 1]
            BY <2>1, <4>1, <4>2
          <5>2. i + n - 1 = j + n - 1
            BY <4>3, <5>1 DEF Once
          <5> QED BY <4>1, <5>2
        <4> QED BY <4>1, <4>2, <4>3 DEF Once
      <3>2. CASE ~(Len(wire) > BufMax - Len(rx))
        <4>1. q = rx \o wire /\ q \in Seq(SepBytes) /\ Len(q) = Len(rx) + Len(wire) /\ Len(q) <= BufMax
          BY <2>1, <3>2
        <4> HIDE DEF q
        <4>2. ASSUME NEW i \in 1..Len(q)
              PROVE  (i \in 1..Len(rx) /\ q[i] = rx[i]) \/ \E k \in 1..Len(wire) : i = Len(rx) + k /\ q[i] = wire[k]
          <5>1. Joined(rx, wire, q)
            BY <2>1, <4>1, JoinHas
          <5> QED BY <5>1 DEF Joined
        <4>3. Buffer(q)
          BY <2>1, <4>1, <4>2 DEF Buffer
        <4>4. ASSUME ~crossed, NEW i \in 1..Len(q), NEW j \in 1..Len(q), IsFirst(q[i]), IsFirst(q[j]) PROVE i = j
          <5>1. PICK k \in 1..Len(wire) : i = Len(rx) + k /\ q[i] = wire[k]
            BY <4>2, <4>4 DEF NoFirst
          <5>2. PICK l \in 1..Len(wire) : j = Len(rx) + l /\ q[j] = wire[l]
            BY <4>2, <4>4 DEF NoFirst
          <5>3. k = l
            BY <4>4, <5>1, <5>2 DEF Once
          <5> QED BY <5>1, <5>2, <5>3
        <4> QED BY <4>1, <4>3, <4>4 DEF Once
      <3> QED BY <3>1, <3>2
    <2>5. q \in Seq(SepBytes) /\ Len(q) \in Nat
      BY <2>4 DEF Buffer
    <2> HIDE DEF q
    <2>6. Good(t) /\ t.rx = q
      BY <2>2, <2>5, RxIsGood
    <2> DEFINE u == Seplos!ConsumeRtu(t)
    <2>7. /\ Good(u) /\ Buffer(u.rx) /\ Len(u.rx) <= Len(q)
          /\ ~crossed => \A i \in 2..Len(u.rx) : ~IsFirst(u.rx[i])
      BY <2>4, <2>6, RtuConsumed
    <2> HIDE DEF u
    <2>8. Len(u.rx) <= BufMax
      <3>1. Len(u.rx) \in Nat
        BY <2>7 DEF Buffer
      <3> QED BY <2>1, <2>4, <2>5, <2>7, <3>1
    <2> QED BY <2>3, <2>7, <2>8, AsciiConsumed DEF u
  <1> QED BY <1>1, <1>2


-----------------------------------------------------------------------------
(* The invariant, in parts.                                                *)

Sane(f) == f.val <= gen /\ (Unrefused => ~f.empty)

Unspent(b) == ~crossed => (Seplos!IsEnd(b) => Timely) /\ (IsFirst(b) => Timely /\ asked.rtu /\ asked.reg = b[1].about)

SetupOk ==
    /\ since \in 0..Period /\ pollCount \in 0..(CandidatePeriod * Len(Candidates) - 1)
    /\ next \in Seplos!Abouts /\ cand \in 1..Len(Candidates) /\ polled \in 1..Len(Candidates)
    /\ locked \in BOOLEAN /\ inverted \in BOOLEAN /\ crossed \in BOOLEAN
    /\ asked \in [about : Seplos!Abouts, rtu : BOOLEAN, reg : Seplos!Abouts]
    /\ faults \in 0..MaxFaults

AroundOk ==
    /\ battery \in Batteries /\ gen \in 1..(swaps + 1) /\ swaps \in 0..MaxSwaps /\ heard \in 0..Seplos!MaxAge
    /\ crossed => swaps > 0

Held == Filled(rx, work, model, packet, cand, locked)

ShownOk ==
    /\ work \in SepWorks /\ model \in SepModels /\ packet \in SepPackets
    /\ Fits(Held, heard) /\ (packet.have => packet.frame <= Window)

RxOk ==
    /\ rx \in Seq(SepBytes) /\ Len(rx) <= BufMax /\ (\A i \in 1..Len(rx) : Sane(rx[i][1]))
    /\ NoEnd(rx) /\ NoFirst(rx)

WireOk ==
    /\ wire \in Seq(SepBytes) /\ (\A i \in 1..Len(wire) : Sane(wire[i][1]) /\ Unspent(wire[i])) /\ Once(wire)

\* An answer on its way: it comes before the next poll, in two parts too if it is quick.
Pending(f, d, k) ==
    /\ f \in SepFrames /\ f.kind \in {"ascii", "rtu"} /\ Sane(f) /\ d \in Nat /\ k \in 0..(Seplos!Size(f) - 1)
    /\ (~crossed /\ k = 0) =>
         /\ d + since <= Period /\ NoFirst(wire)
         /\ f.kind = "rtu" => asked.rtu /\ asked.reg = f.about
    /\ (Quick /\ swaps = 0) => d + since <= Period /\ Answered(polled) /\ (k = 0 => d + since + 1 <= Period)

AnswerOk ==
    answer = Seplos!NoAnswer \/
        \E f \in SepFrames, d \in Nat, k \in 0..3 : answer = [frame |-> f, due |-> d, from |-> k] /\ Pending(f, d, k)

SepInv == SepSizes /\ SetupOk /\ AroundOk /\ ShownOk /\ RxOk /\ WireOk /\ AnswerOk

LEMMA SepContextOf == SepInv => SepBuffers
  <1> SUFFICES ASSUME SepInv PROVE SepBuffers
    OBVIOUS
  <1>1. SepSizes /\ SetupOk /\ AroundOk
    BY DEF SepInv
  <1>2. /\ gen \in Nat /\ swaps \in Nat /\ gen <= MaxSwaps + 1 /\ heard \in 0..Seplos!MaxAge /\ MaxSwaps \in Nat
        /\ crossed \in BOOLEAN /\ polled \in 1..Len(Candidates) /\ (crossed => swaps > 0)
    BY <1>1 DEF SepSizes, SetupOk, AroundOk
  <1>3. SepTop \in Nat
    BY <1>2 DEF SepTop
  <1>4. crossed => Timely
    BY <1>2 DEF Timely
  <1> QED BY <1>1, <1>2, <1>3, <1>4 DEF SepBuffers, SepContext

\* What it says of what may be seen.
LEMMA SepInvTyped ==
    SepInv => /\ Seplos!TypeOK /\ Seplos!AttributedRight
              /\ (Quick => Seplos!LockedIsAnswered) /\ (Unrefused => Seplos!SilentIsDropped)
  <1> SUFFICES ASSUME SepInv
               PROVE  /\ Seplos!TypeOK /\ Seplos!AttributedRight
                      /\ (Quick => Seplos!LockedIsAnswered) /\ (Unrefused => Seplos!SilentIsDropped)
    OBVIOUS
  <1>1. SepSizes /\ SetupOk /\ AroundOk /\ ShownOk /\ RxOk
    BY DEF SepInv
  <1>2. gen \in Nat /\ gen <= MaxSwaps + 1 /\ MaxSwaps \in Nat /\ SepTop \in 0..(MaxSwaps + 2) /\ (~crossed => SepTop = gen)
    BY <1>1 DEF SepSizes, SetupOk, AroundOk, SepTop
  <1>3. \A w \in {work, model} : w.pack \in 0..SepTop /\ w.cells \in 0..SepTop /\ w.alarms \in 0..SepTop
    BY <1>1 DEF ShownOk, SepWorks, SepModels
  <1>4. packet.have \in BOOLEAN /\ packet.frame \in 0..Seplos!MaxAge /\ (packet.have => packet.frame <= Window)
    BY <1>1 DEF ShownOk, SepPackets
  <1>5. asked.about \in Seplos!Abouts /\ asked.rtu \in BOOLEAN /\ asked.reg \in Seplos!Abouts
    BY <1>1 DEF SetupOk
  <1>6. Seplos!TypeOK
    <2>1. \A w \in {work, model} : {w.pack, w.cells, w.alarms} \subseteq 0..(MaxSwaps + 2)
      BY <1>2, <1>3
    <2>2. battery.inv \in BOOLEAN /\ DOMAIN Candidates = 1..Len(Candidates) /\ gen \in 1..(MaxSwaps + 1)
      BY <1>1, <1>2 DEF SepSizes, AroundOk
    <2> QED BY <1>1, <1>4, <1>5, <2>1, <2>2 DEF Seplos!TypeOK, SetupOk, AroundOk, RxOk
  <1>7. Seplos!AttributedRight
    BY <1>2, <1>3 DEF Seplos!AttributedRight
  <1>8. Fits(Held, heard) /\ Held.model = model /\ Held.packet = packet /\ Held.locked = locked /\ Held.cand = cand
    BY <1>1 DEF ShownOk, Held, Filled
  <1> HIDE DEF Held
  <1>9. Quick => Seplos!LockedIsAnswered
    BY <1>8 DEF Fits, Answered, Seplos!LockedIsAnswered
  <1>10. ASSUME Unrefused, heard > Window + 1, ~crossed PROVE ~model.valid /\ ~packet.have /\ ~locked
    <2>1. ~packet.have
      BY <1>1, <1>4, <1>8, <1>10, SepMaxAge DEF Fits, AroundOk, SepSizes
    <2> QED BY <1>8, <1>10, <2>1 DEF Fits
  <1> QED BY <1>6, <1>7, <1>9, <1>10 DEF Seplos!SilentIsDropped

LEMMA SepStarts == SepAssumed /\ Seplos!Init => SepInv
  <1> SUFFICES ASSUME SepAssumed, Seplos!Init PROVE SepInv
    OBVIOUS
  <1> USE DEF Seplos!Init
  <1>1. SepSizes /\ Seplos!MaxAge \in Nat
    BY SepSizesAre, SepMaxAge
  <1>2. SetupOk
    <2>1. CandidatePeriod * Len(Candidates) \in Nat /\ CandidatePeriod * Len(Candidates) >= 1
      <3>1. \A a, b \in Nat \ {0} : a * b \in Nat /\ a * b >= 1
        <4>1. ASSUME NEW a \in Nat \ {0}, NEW b \in Nat \ {0} PROVE a * b \in Nat /\ a * b >= 1
          <5>1. (a - 1) * b >= 0 /\ a * b = (a - 1) * b + b
            OBVIOUS
          <5> QED BY <5>1
        <4> QED BY <4>1
      <3> QED BY <1>1, <3>1 DEF SepSizes
    <2>2. 0 \in 0..(CandidatePeriod * Len(Candidates) - 1)
      BY <2>1
    <2>3. since \in 0..Period /\ cand \in 1..Len(Candidates) /\ polled \in 1..Len(Candidates) /\ faults \in 0..MaxFaults
      BY <1>1 DEF SepSizes
    <2>4. asked \in [about : Seplos!Abouts, rtu : BOOLEAN, reg : Seplos!Abouts] /\ next \in Seplos!Abouts
      BY DEF Seplos!Abouts
    <2> QED BY <2>2, <2>3, <2>4 DEF SetupOk
  <1>3. AroundOk
    BY <1>1 DEF AroundOk, SepSizes
  <1>4. ShownOk
    <2>1. SepTop = 1
      BY DEF SepTop
    <2>2. work \in SepWorks /\ model \in SepModels /\ packet \in SepPackets /\ ~packet.have /\ ~model.valid /\ work = Seplos!Empty
      BY <1>1, <2>1 DEF SepWorks, SepModels, SepPackets, Seplos!Empty, Seplos!NoModel, Seplos!NoPacket
    <2>3. Fits(Held, heard)
      BY <2>2 DEF Fits, Held, Filled
    <2> QED BY <2>2, <2>3 DEF ShownOk
  <1>5. RxOk /\ WireOk
    BY <1>1 DEF RxOk, WireOk, SepSizes, NoEnd, NoFirst, Once
  <1>6. AnswerOk
    BY DEF AnswerOk
  <1> QED BY <1>1, <1>2, <1>3, <1>4, <1>5, <1>6 DEF SepInv


-----------------------------------------------------------------------------
(* A round of the loop.                                                    *)

LEMMA GrownIs ==
    ASSUME SepSizes, NEW a \in 0..Seplos!MaxAge
    PROVE  Seplos!Grown(a) \in 0..Seplos!MaxAge /\ a <= Seplos!Grown(a) /\ Seplos!Grown(a) <= a + 1
  BY SepMaxAge DEF Seplos!Grown

LEMMA GrowTogether ==
    ASSUME SepSizes, NEW a \in 0..Seplos!MaxAge, NEW b \in 0..Seplos!MaxAge, a <= b + 1
    PROVE  Seplos!Grown(a) <= Seplos!Grown(b) + 1
  BY SepMaxAge DEF Seplos!Grown

LEMMA NowIsGood ==
    ASSUME SepInv
    PROVE  /\ Good(Seplos!Now) /\ Seplos!Now.rx = rx /\ Buffer(rx) /\ Buffer(wire) /\ Once(wire)
           /\ NoFirst(rx) /\ NoEnd(rx) /\ Len(rx) <= BufMax
  <1> DEFINE p == [packet EXCEPT !.frame = Seplos!Grown(@)]
             t == Filled(rx, work, model, p, cand, locked)
  <1>1. SepSizes /\ SetupOk /\ AroundOk /\ ShownOk /\ RxOk /\ WireOk
    BY DEF SepInv
  <1>2. /\ work \in SepWorks /\ model \in SepModels /\ packet \in SepPackets /\ rx \in Seq(SepBytes)
        /\ cand \in 1..Len(Candidates) /\ locked \in BOOLEAN /\ heard \in 0..Seplos!MaxAge
    BY <1>1 DEF ShownOk, RxOk, SetupOk, AroundOk
  <1>3. p \in SepPackets /\ p.have = packet.have /\ p.frame = Seplos!Grown(packet.frame) /\ packet.frame \in 0..Seplos!MaxAge
    <2>1. packet.frame \in 0..Seplos!MaxAge
      BY <1>2 DEF SepPackets
    <2>2. Seplos!Grown(packet.frame) \in 0..Seplos!MaxAge
      BY <1>1, <2>1, GrownIs
    <2> QED BY <1>2, <2>1, <2>2 DEF SepPackets
  <1>4. Seplos!Now = t
    BY DEF Seplos!Now, Filled
  <1> HIDE DEF p
  <1>5. /\ t \in SepStates /\ t.rx = rx /\ t.work = work /\ t.model = model /\ t.packet = p /\ t.cand = cand
        /\ t.locked = locked
    BY <1>2, <1>3, StateMade
  <1>6. /\ Fits(Held, heard) /\ Held.model = model /\ Held.packet = packet /\ Held.locked = locked
        /\ Held.cand = cand /\ Held.work = work
    BY <1>1 DEF ShownOk, Held, Filled
  <1> HIDE DEF t, Held
  <1>7. Fits(t, Seplos!Grown(heard))
    <2>1. (~crossed /\ p.have) => Seplos!Grown(heard) <= p.frame + 1
      <3> SUFFICES ASSUME ~crossed, p.have PROVE Seplos!Grown(heard) <= p.frame + 1
        OBVIOUS
      <3>1. heard <= packet.frame + 1
        BY <1>3, <1>6 DEF Fits
      <3> QED BY <1>1, <1>2, <1>3, <3>1, GrowTogether
    <2> QED BY <1>3, <1>5, <1>6, <2>1 DEF Fits
  <1>8. NewIn(t.work) /\ (t.model.valid => NewIn(t.model))
    <2>1. ~packet.have => work = Seplos!Empty /\ ~model.valid
      BY <1>6 DEF Fits
    <2> QED BY <1>5, <2>1 DEF NewIn, Vals, Seplos!Empty
  <1>9. Buffer(rx) /\ Buffer(wire)
    <2>1. \A i \in 1..Len(rx) : rx[i][1].val \in Vals
      BY <1>2 DEF Vals, Seplos!ToSet
    <2>2. wire \in Seq(SepBytes)
      BY <1>1 DEF WireOk
    <2>3. \A i \in 1..Len(wire) : wire[i][1].val \in Vals
      BY <2>2 DEF Vals, Seplos!ToSet
    <2>4. \A i \in 1..Len(rx) : Sound(rx[i])
      BY <1>1, <2>1 DEF RxOk, NoEnd, NoFirst, Sane, Sound
    <2>5. \A i \in 1..Len(wire) : Sound(wire[i])
      BY <1>1, <2>3 DEF WireOk, Sane, Unspent, Sound
    <2> QED BY <1>2, <2>2, <2>4, <2>5 DEF Buffer
  <1> QED BY <1>1, <1>4, <1>5, <1>7, <1>8, <1>9 DEF Good, RxOk, WireOk, t

No == FALSE

Cleared(s, x, y) == [s EXCEPT !.locked = No, !.model = y, !.packet.have = No, !.work = x]

LEMMA ClearedAlone ==
    ASSUME NEW s, NEW q, NEW w, NEW m, NEW p, NEW c, NEW l,
           s = [rx |-> q, work |-> w, model |-> m, packet |-> p, cand |-> c, locked |-> l], NEW x, NEW y
    PROVE  Cleared(s, x, y) =
             [rx |-> q, work |-> x, model |-> y, packet |-> [p EXCEPT !.have = No], cand |-> c, locked |-> No]
  <1> DEFINE t == Cleared(s, x, y)
  <1>1. t = [s EXCEPT !.locked = No, !.model = y, !.packet.have = No, !.work = x]
    BY DEF Cleared
  <1> HIDE DEF t
  <1>2. t = [rx |-> q, work |-> x, model |-> y, packet |-> [p EXCEPT !.have = No], cand |-> c, locked |-> No]
    BY <1>1
  <1> QED BY <1>2 DEF t

LEMMA ClearedChanged ==
    ASSUME NEW s, NEW q, NEW w, NEW m, NEW p, NEW c, NEW l, s = Filled(q, w, m, p, c, l), NEW x, NEW y
    PROVE  Cleared(s, x, y) = Filled(q, x, y, [p EXCEPT !.have = No], c, No)
  BY ClearedAlone DEF Filled

\* maybeClearStaleSource.
LEMMA ClearedIs ==
    ASSUME SepContext, NEW s, Good(s), NEW c, c = Seplos!ClearStale(s)
    PROVE  /\ c \in SepStates /\ c.rx = s.rx /\ c.cand = s.cand /\ (c.locked => s.locked)
           /\ Fits(c, Seplos!Grown(heard)) /\ (c.packet.have => c.packet.frame <= Window)
           /\ (c.model.valid => NewIn(c.model))
  <1>1. /\ s \in SepStates /\ Fits(s, Seplos!Grown(heard)) /\ (s.model.valid => NewIn(s.model))
    BY DEF Good
  <1>2. /\ s = Filled(s.rx, s.work, s.model, s.packet, s.cand, s.locked)
        /\ s.rx \in Seq(SepBytes) /\ s.packet \in SepPackets /\ s.cand \in 1..Len(Candidates) /\ s.locked \in BOOLEAN
    BY <1>1, StateHas
  <1>3. s.packet.frame \in 0..Seplos!MaxAge /\ s.packet.ever \in BOOLEAN /\ Window \in Nat /\ Seplos!MaxAge \in Nat
    BY <1>2, SepMaxAge DEF SepPackets, SepContext, SepSizes
  <1>4. CASE s.packet.have /\ s.packet.frame > Window
    <2> DEFINE p == [s.packet EXCEPT !.have = No]
    <2>1. c = Cleared(s, Seplos!Empty, Seplos!NoModel)
      BY <1>4 DEF Seplos!ClearStale, Cleared, No
    <2>3. c = Filled(s.rx, Seplos!Empty, Seplos!NoModel, p, s.cand, No)
      BY <1>2, <2>1, ClearedChanged
    <2>4. p \in SepPackets /\ ~p.have /\ No \in BOOLEAN /\ ~No
      BY <1>2 DEF SepPackets, No
    <2>5. /\ Seplos!Empty \in SepWorks /\ Seplos!NoModel \in SepModels /\ ~Seplos!NoModel.valid
      BY DEF SepWorks, SepModels, Seplos!Empty, Seplos!NoModel, SepContext
    <2> HIDE DEF p
    <2>6. /\ c.rx = s.rx /\ c.cand = s.cand /\ ~c.locked /\ c.model = Seplos!NoModel /\ c.packet = p
          /\ c.work = Seplos!Empty /\ c \in SepStates
      BY <1>2, <2>3, <2>4, <2>5, StateMade
    <2>8. Fits(c, Seplos!Grown(heard))
      BY <2>4, <2>5, <2>6 DEF Fits
    <2> QED BY <2>4, <2>5, <2>6, <2>8
  <1>5. CASE ~(s.packet.have /\ s.packet.frame > Window)
    <2>1. c = s
      BY <1>5 DEF Seplos!ClearStale
    <2> QED BY <1>1, <1>3, <1>5, <2>1
  <1> QED BY <1>4, <1>5

\* What is asked next, and what is on its way then.
LEMMA NotDueAnswer ==
    ASSUME SepInv, NEW s, Seplos!NotDue(s), wire' = <<>>, UNCHANGED <<crossed, battery, gen, swaps>>,
           answer = Seplos!NoAnswer \/ answer.due > 0
    PROVE  AnswerOk'
  <1>1. SepSizes /\ SetupOk /\ AroundOk /\ AnswerOk
    BY DEF SepInv
  <1>2. since' = since + 1 /\ answer' = Seplos!Sooner /\ UNCHANGED <<polled, asked>>
    BY DEF Seplos!NotDue
  <1>3. CASE answer = Seplos!NoAnswer
    BY <1>2, <1>3 DEF AnswerOk, Seplos!Sooner
  <1>4. CASE answer # Seplos!NoAnswer
    <2>1. PICK f \in SepFrames, d \in Nat, k \in 0..3 : answer = [frame |-> f, due |-> d, from |-> k] /\ Pending(f, d, k)
      BY <1>1, <1>4 DEF AnswerOk
    <2>2. d > 0
      BY <1>4, <2>1
    <2>3. answer' = [frame |-> f, due |-> d - 1, from |-> k] /\ d - 1 \in Nat
      BY <1>2, <1>4, <2>1, <2>2 DEF Seplos!Sooner
    <2>4. Pending(f, d - 1, k)'
      <3>1. NoFirst(wire)'
        BY DEF NoFirst
      <3>2. /\ (Quick /\ swaps' = 0) => (d - 1) + since' <= Period /\ Answered(polled)' /\ (k = 0 => (d - 1) + since' + 1 <= Period)
            /\ (~crossed' /\ k = 0) => (d - 1) + since' <= Period /\ (f.kind = "rtu" => asked.rtu /\ asked.reg = f.about)
        BY <1>1, <1>2, <2>1 DEF Pending, Answered, SetupOk, SepSizes
      <3>3. f.kind \in {"ascii", "rtu"} /\ Sane(f)' /\ k \in 0..(Seplos!Size(f) - 1)
        BY <2>1 DEF Pending, Sane
      <3> QED BY <1>2, <2>3, <3>1, <3>2, <3>3 DEF Pending, Seplos!Size
    <2> QED BY <2>3, <2>4 DEF AnswerOk
  <1> QED BY <1>3, <1>4

\* No request is made while an answer is awaited that was not held up.
LEMMA LateAnswer ==
    ASSUME SepInv, since = Period, wire' = <<>>, answer' = Seplos!Sooner, UNCHANGED <<crossed, battery, gen, swaps>>,
           answer = Seplos!NoAnswer \/ answer.due > 0
    PROVE  AnswerOk'
  <1>1. SepSizes /\ SetupOk /\ AroundOk /\ AnswerOk
    BY DEF SepInv
  <1>3. CASE answer = Seplos!NoAnswer
    BY <1>3 DEF AnswerOk, Seplos!Sooner
  <1>4. CASE answer # Seplos!NoAnswer
    <2>1. PICK f \in SepFrames, d \in Nat, k \in 0..3 : answer = [frame |-> f, due |-> d, from |-> k] /\ Pending(f, d, k)
      BY <1>1, <1>4 DEF AnswerOk
    <2>2. d > 0
      BY <1>4, <2>1
    <2>3. answer' = [frame |-> f, due |-> d - 1, from |-> k] /\ d - 1 \in Nat
      BY <1>4, <2>1, <2>2 DEF Seplos!Sooner
    <2>4. ~(~crossed /\ k = 0) /\ ~(Quick /\ swaps = 0)
      BY <1>1, <2>1, <2>2 DEF Pending, SepSizes
    <2>5. Pending(f, d - 1, k)'
      BY <2>1, <2>3, <2>4 DEF Pending, Sane, Seplos!Size
    <2> QED BY <2>3, <2>5 DEF AnswerOk
  <1> QED BY <1>3, <1>4

LEMMA PollAnswer ==
    ASSUME SepInv, NEW s, s.locked => s.cand \in 1..Len(Candidates), Seplos!Selected(s) \in 1..Len(Candidates),
           Seplos!Poll(s), wire' = <<>>, UNCHANGED <<crossed, battery, gen, swaps>>,
           answer = Seplos!NoAnswer \/ answer.due > 0
    PROVE  AnswerOk'
  <1> DEFINE i == Seplos!Selected(s)
             c == Candidates[i]
  <1>1. SepSizes /\ SetupOk /\ AroundOk /\ AnswerOk
    BY DEF SepInv
  <1>2. /\ since = Period /\ since' = 1 /\ polled' = i /\ Seplos!Sent(c, inverted')
        /\ asked' = [about |-> next, rtu |-> c.kind = "rtu", reg |-> IF c.kind = "rtu" THEN next ELSE asked.reg]
    BY DEF Seplos!Poll
  <1>3. c.kind \in {"ascii", "rtu"}
    BY <1>1 DEF SepSizes
  <1> HIDE DEF i
  <1>4. CASE ~Seplos!Understood(c, inverted') \/ answer # Seplos!NoAnswer
    BY <1>2, <1>4, LateAnswer DEF Seplos!Sent
  <1>5. CASE Seplos!Understood(c, inverted') /\ answer = Seplos!NoAnswer
    <2>1. PICK n \in Delays : answer' = [frame |-> Seplos!AnswerTo(c, next), due |-> n, from |-> 0]
      BY <1>2, <1>5 DEF Seplos!Sent
    <2>2. PICK f \in SepFrames : /\ f = Seplos!AnswerTo(c, next) /\ f.kind = c.kind /\ f.about = next /\ f.val = gen
                                 /\ (Unrefused => ~f.empty)
      <3> DEFINE g == Seplos!AnswerTo(c, next)
                 e == c.dialect \in battery.refuses
      <3>1. next \in Seplos!Abouts /\ gen \in Nat
        BY <1>1 DEF SetupOk, AroundOk
      <3>2. g = [kind |-> c.kind, about |-> next, val |-> gen, ok |-> TRUE, empty |-> e]
        BY DEF Seplos!AnswerTo
      <3>3. e \in BOOLEAN /\ (Unrefused => ~e)
        BY <1>1 DEF AroundOk, Unrefused
      <3> HIDE DEF g, e
      <3>4. g \in SepFrames /\ g.kind = c.kind /\ g.about = next /\ g.val = gen /\ g.empty = e
        BY <1>3, <3>1, <3>2, <3>3 DEF SepFrames
      <3> QED BY <3>3, <3>4 DEF g
    <2>3. c.dialect \in battery.speaks \cup battery.refuses
      BY <1>5 DEF Seplos!Understood
    <2>4. /\ n \in Nat /\ n + 1 <= Period /\ (Quick => n + 1 + 1 <= Period)
      BY <1>1 DEF SepSizes, Quick
    <2>5. Pending(f, n, 0)'
      <3>1. NoFirst(wire)'
        BY DEF NoFirst
      <3>2. f.kind = "rtu" => asked'.rtu /\ asked'.reg = f.about
        BY <1>2, <2>2
      <3>3. Answered(polled)'
        BY <1>2, <2>3 DEF Answered
      <3>4. 0 \in 0..(Seplos!Size(f) - 1)
        BY DEF Seplos!Size
      <3>5. Sane(f)'
        BY <1>1, <2>2 DEF Sane, AroundOk
      <3> QED BY <1>2, <1>3, <2>2, <2>4, <3>1, <3>2, <3>3, <3>4, <3>5 DEF Pending, Seplos!Size
    <2> QED BY <2>1, <2>2, <2>4, <2>5 DEF AnswerOk
  <1> QED BY <1>4, <1>5


\* What is shown by a source that showed nothing.
NewShown ==
    (~crossed /\ ~packet.have /\ model'.valid) => {model'.pack, model'.cells, model'.alarms} \subseteq Vals

LEMMA SelectedIs ==
    ASSUME SepSizes, SetupOk, NEW s, s.cand \in 1..Len(Candidates)
    PROVE  Seplos!Selected(s) \in 1..Len(Candidates) /\ (s.locked => Seplos!Selected(s) = s.cand)
  <1> DEFINE n == Len(Candidates)
  <1>1. n \in Nat \ {0} /\ CandidatePeriod \in Nat \ {0} /\ pollCount \in 0..(CandidatePeriod * n - 1)
    BY DEF SepSizes, SetupOk
  <1> HIDE DEF n
  <1>2. CandidatePeriod * n = n * CandidatePeriod
    BY <1>1
  <1>3. pollCount \div CandidatePeriod \in 0..(n - 1)
    <2>1. n \in Nat /\ pollCount \in 0..(n * CandidatePeriod - 1)
      BY <1>1, <1>2
    <2> QED BY <1>1, <2>1, QuotientIsLess
  <1>4. (pollCount \div CandidatePeriod) + 1 \in 1..n
    BY <1>1, <1>3
  <1> QED BY <1>4 DEF Seplos!Selected, n

LEMMA CountIs ==
    ASSUME SepSizes, SetupOk
    PROVE  (pollCount + 1) % (CandidatePeriod * Len(Candidates)) \in 0..(CandidatePeriod * Len(Candidates) - 1)
  <1> DEFINE m == CandidatePeriod * Len(Candidates)
  <1>1. m \in Nat
    BY DEF SepSizes
  <1>2. pollCount \in 0..(m - 1)
    BY DEF SetupOk
  <1> HIDE DEF m
  <1>3. m > 0
    BY <1>1, <1>2
  <1>4. (pollCount + 1) % m \in 0..(m - 1)
    BY <1>1, <1>2, <1>3
  <1> QED BY <1>4 DEF m

LEMMA LoopStep ==
    ASSUME SepInv, Seplos!Loop
    PROVE  SepInv' /\ NewShown
  <1>1. SepSizes /\ SetupOk /\ AroundOk /\ AnswerOk /\ SepBuffers /\ SepContext
    BY SepContextOf DEF SepInv, SepBuffers
  <1> DEFINE s == Seplos!ConsumeRx(Seplos!Now)
             c == Seplos!ClearStale(s)
  <1>2. /\ answer = Seplos!NoAnswer \/ answer.due > 0
        /\ Seplos!NotDue(s) \/ Seplos!WriteFails(s) \/ Seplos!Poll(s)
        /\ rx' = c.rx /\ work' = c.work /\ model' = c.model /\ packet' = c.packet /\ locked' = c.locked
        /\ wire' = <<>> /\ heard' = Seplos!Grown(heard)
        /\ UNCHANGED <<crossed, battery, gen, swaps>>
    BY DEF Seplos!Loop, Seplos!envVars
  <1>3. /\ Good(s) /\ Buffer(s.rx) /\ Len(s.rx) <= BufMax /\ NoFirst(s.rx) /\ NoEnd(s.rx)
    <2>1. /\ Good(Seplos!Now) /\ Seplos!Now.rx = rx /\ Buffer(rx) /\ Buffer(wire) /\ Once(wire)
          /\ NoFirst(rx) /\ NoEnd(rx) /\ Len(rx) <= BufMax
      BY NowIsGood
    <2> QED BY <1>1, <2>1, RxConsumed
  <1> HIDE DEF s
  <1>4. /\ c \in SepStates /\ c.rx = s.rx /\ c.cand = s.cand /\ (c.locked => s.locked)
        /\ Fits(c, Seplos!Grown(heard)) /\ (c.packet.have => c.packet.frame <= Window)
        /\ (c.model.valid => NewIn(c.model))
    BY <1>1, <1>3, ClearedIs
  <1> HIDE DEF c
  <1>5. /\ c.work \in SepWorks /\ c.model \in SepModels /\ c.packet \in SepPackets
        /\ c.cand \in 1..Len(Candidates) /\ c.locked \in BOOLEAN
    BY <1>4, StateHas
  <1>6. Seplos!Selected(s) \in 1..Len(Candidates) /\ (s.locked => Seplos!Selected(s) = s.cand)
    BY <1>1, <1>4, <1>5, SelectedIs
  <1>7. SetupOk' /\ AnswerOk' /\ (c.locked => cand' = c.cand)
    <2>1. CASE Seplos!NotDue(s)
      <3>1. /\ since < Period /\ since' = since + 1 /\ cand' = s.cand
            /\ UNCHANGED <<pollCount, next, polled, inverted, asked, faults>>
        BY <2>1 DEF Seplos!NotDue
      <3>2. SetupOk'
        <4>1. since' \in 0..Period
          BY <1>1, <3>1 DEF SetupOk, SepSizes
        <4> QED BY <1>1, <1>2, <1>4, <1>5, <3>1, <4>1 DEF SetupOk
      <3>3. AnswerOk'
        BY <1>2, <2>1, NotDueAnswer
      <3> QED BY <1>4, <3>1, <3>2, <3>3
    <2>2. CASE Seplos!WriteFails(s)
      <3>1. /\ since = Period /\ faults < MaxFaults /\ faults' = faults + 1 /\ cand' = Seplos!Selected(s)
            /\ inverted' = Candidates[Seplos!Selected(s)].inv /\ Seplos!Ask(Candidates[Seplos!Selected(s)])
            /\ answer' = Seplos!Sooner /\ UNCHANGED <<since, pollCount, next, polled>>
        BY <2>2 DEF Seplos!WriteFails
      <3>2. asked' \in [about : Seplos!Abouts, rtu : BOOLEAN, reg : Seplos!Abouts]
        BY <1>1, <3>1 DEF Seplos!Ask, SetupOk
      <3>3. SetupOk'
        <4>1. inverted' \in BOOLEAN /\ faults' \in 0..MaxFaults
          BY <1>1, <1>6, <3>1 DEF SetupOk, SepSizes
        <4> QED BY <1>1, <1>2, <1>5, <1>6, <3>1, <3>2, <4>1 DEF SetupOk
      <3>4. AnswerOk'
        BY <1>2, <3>1, LateAnswer
      <3> QED BY <1>4, <1>6, <3>1, <3>3, <3>4
    <2>3. CASE Seplos!Poll(s)
      <3> DEFINE d == Candidates[Seplos!Selected(s)]
      <3>1. /\ since = Period /\ cand' = Seplos!Selected(s) /\ polled' = Seplos!Selected(s)
            /\ Seplos!Inverted(d) /\ next' = Seplos!Flip(next) /\ since' = 1
            /\ asked' = [about |-> next, rtu |-> d.kind = "rtu", reg |-> IF d.kind = "rtu" THEN next ELSE asked.reg]
            /\ pollCount' = (pollCount + 1) % (CandidatePeriod * Len(Candidates))
        BY <2>3 DEF Seplos!Poll
      <3>2. asked' \in [about : Seplos!Abouts, rtu : BOOLEAN, reg : Seplos!Abouts]
        <4> DEFINE e == d.kind = "rtu"
        <4>1. e \in BOOLEAN /\ next \in Seplos!Abouts /\ asked.reg \in Seplos!Abouts
          BY <1>1 DEF SetupOk
        <4>2. asked' = [about |-> next, rtu |-> e, reg |-> IF e THEN next ELSE asked.reg]
          BY <3>1
        <4> HIDE DEF e
        <4> QED BY <4>1, <4>2
      <3>3. SetupOk'
        <4>1. inverted' \in BOOLEAN /\ faults' \in 0..MaxFaults
          BY <1>1, <1>6, <3>1 DEF SetupOk, SepSizes, Seplos!Inverted
        <4>2. next' \in Seplos!Abouts /\ since' \in 0..Period
          BY <1>1, <3>1 DEF Seplos!Flip, Seplos!Abouts, SepSizes
        <4>3. pollCount' \in 0..(CandidatePeriod * Len(Candidates) - 1)
          BY <1>1, <3>1, CountIs
        <4> QED BY <1>1, <1>2, <1>5, <1>6, <3>1, <3>2, <4>1, <4>2, <4>3 DEF SetupOk
      <3>4. AnswerOk'
        BY <1>2, <1>4, <1>5, <1>6, <2>3, PollAnswer
      <3> QED BY <1>4, <1>6, <3>1, <3>3, <3>4
    <2> QED BY <1>2, <2>1, <2>2, <2>3
  <1>8. AroundOk'
    <2>1. Seplos!MaxAge' = Seplos!MaxAge
      BY DEF Seplos!MaxAge
    <2> QED BY <1>1, <1>2, <2>1, GrownIs DEF AroundOk
  <1>9. ShownOk'
    <2>1. SepTop' = SepTop /\ Seplos!MaxAge' = Seplos!MaxAge
      BY <1>2 DEF SepTop, Seplos!MaxAge
    <2>2. work' \in SepWorks' /\ model' \in SepModels' /\ packet' \in SepPackets'
      BY <1>2, <1>5, <2>1 DEF SepWorks, SepModels, SepPackets
    <2>3. /\ Held'.model = c.model /\ Held'.packet = c.packet /\ Held'.locked = c.locked /\ Held'.cand = cand'
          /\ Held'.work = c.work
      BY <1>2 DEF Held, Filled
    <2>4. Fits(Held, heard)'
      BY <1>2, <1>4, <1>7, <2>3 DEF Fits, Answered, Seplos!Empty
    <2> QED BY <1>2, <1>4, <2>2, <2>4 DEF ShownOk
  <1>10. RxOk'
    <2>1. /\ s.rx \in Seq(SepBytes) /\ \A i \in 1..Len(s.rx) : Sane(s.rx[i][1])
      BY <1>3 DEF Buffer, Sound, Sane
    <2> QED BY <1>2, <1>3, <1>4, <2>1 DEF RxOk, Sane, NoFirst, NoEnd, IsFirst, Seplos!IsEnd
  <1>11. WireOk'
    BY <1>2 DEF WireOk, Once
  <1>12. NewShown
    BY <1>2, <1>4 DEF NewShown, NewIn
  <1> QED BY <1>1, <1>7, <1>8, <1>9, <1>10, <1>11, <1>12 DEF SepInv


-----------------------------------------------------------------------------
(* The battery and the line.                                               *)

\* What a harm, an answer or an exchanged battery leaves.
LEMMA KeptIs ==
    ASSUME SepInv, UNCHANGED <<Seplos!ctxVars, Seplos!outVars, crossed>>, faults' \in 0..MaxFaults,
           swaps' >= swaps, swaps' \in 0..MaxSwaps, gen' >= gen, gen' \in 1..(swaps' + 1),
           battery' \in Batteries, swaps' = 0 => battery' = battery, heard' \in 0..heard
    PROVE  SepSizes' /\ SetupOk' /\ AroundOk' /\ ShownOk' /\ RxOk'
  <1> USE DEF Seplos!ctxVars, Seplos!outVars
  <1>1. SepSizes /\ SetupOk /\ AroundOk /\ ShownOk /\ RxOk
    BY DEF SepInv
  <1>2. SetupOk'
    BY <1>1 DEF SetupOk
  <1>3. AroundOk'
    <2>1. Seplos!MaxAge' = Seplos!MaxAge /\ Seplos!MaxAge \in Nat
      BY <1>1, SepMaxAge DEF Seplos!MaxAge
    <2>2. swaps \in Nat
      BY <1>1 DEF AroundOk, SepSizes
    <2>3. heard' \in 0..Seplos!MaxAge'
      <3>1. heard \in 0..Seplos!MaxAge
        BY <1>1 DEF AroundOk
      <3> QED BY <2>1, <3>1
    <2>4. crossed' => swaps' > 0
      BY <1>1, <2>2 DEF AroundOk
    <2> QED BY <2>3, <2>4 DEF AroundOk
  <1>4. ShownOk'
    <2>1. SepTop' \in Nat /\ SepTop \in Nat /\ SepTop <= SepTop'
      BY <1>1 DEF SepTop, AroundOk, SepSizes
    <2>2. Seplos!MaxAge' = Seplos!MaxAge
      BY DEF Seplos!MaxAge
    <2>3. work' \in SepWorks' /\ model' \in SepModels' /\ packet' \in SepPackets'
      BY <1>1, <2>1, <2>2 DEF ShownOk, SepWorks, SepModels, SepPackets
    <2>4. /\ Held.model = model /\ Held.packet = packet /\ Held.locked = locked /\ Held.cand = cand /\ Held.work = work
          /\ Held' = Held
      BY DEF Held, Filled
    <2>5. Fits(Held, heard)
      BY <1>1 DEF ShownOk
    <2> HIDE DEF Held
    <2>6. ~crossed /\ packet.have => heard' <= packet.frame + 1
      <3>1. packet.frame \in Nat /\ heard \in Nat
        BY <1>1 DEF ShownOk, SepPackets, AroundOk
      <3> QED BY <2>4, <2>5, <3>1 DEF Fits
    <2>7. Fits(Held, heard)'
      <3>1. swaps' = 0 => swaps = 0 /\ battery' = battery
        BY <1>1 DEF AroundOk
      <3> QED BY <2>4, <2>5, <2>6, <3>1 DEF Fits, Answered, Seplos!Empty
    <2> QED BY <1>1, <2>3, <2>7 DEF ShownOk
  <1>5. RxOk'
    <2>1. gen \in Nat /\ gen' \in Nat
      BY <1>1 DEF AroundOk
    <2>2. \A i \in 1..Len(rx) : rx[i][1].val \in Nat
      BY <1>1 DEF RxOk, SepBytes, SepFrames
    <2>3. \A i \in 1..Len(rx) : Sane(rx[i][1])'
      BY <1>1, <2>1, <2>2 DEF RxOk, Sane
    <2> QED BY <1>1, <2>3 DEF RxOk, NoFirst, NoEnd, IsFirst, Seplos!IsEnd
  <1> QED BY <1>1, <1>2, <1>3, <1>4, <1>5 DEF SepSizes

\* More on the line: at most the begin of one answer of registers in all.
FewFirst(d) ==
    \/ \A i \in 1..Len(d) : ~IsFirst(d[i])
    \/ NoFirst(wire) /\ \A i \in 2..Len(d) : ~IsFirst(d[i])

LEMMA WireGrows ==
    ASSUME SepInv, NEW d \in Seq(SepBytes), wire' = wire \o d, FewFirst(d),
           UNCHANGED <<gen, crossed, swaps, polled, asked, battery>>, heard' = heard \/ heard' = 0,
           \A i \in 1..Len(d) : Sane(d[i][1]) /\ Unspent(d[i])'
    PROVE  WireOk'
  <1>1. /\ wire \in Seq(SepBytes) /\ Once(wire)
        /\ \A i \in 1..Len(wire) : Sane(wire[i][1]) /\ Unspent(wire[i])
    BY DEF SepInv, WireOk
  <1>2. Timely => Timely'
    BY DEF Timely, Answered
  <1>3. \A i \in 1..Len(wire) : Sane(wire[i][1])' /\ Unspent(wire[i])'
    BY <1>1, <1>2 DEF Sane, Unspent, IsFirst, Seplos!IsEnd
  <1>4. PICK w \in Seq(SepBytes) : w = wire \o d
    BY <1>1, JoinIs
  <1>5. \A i \in 1..Len(w) :
          (i \in 1..Len(wire) /\ w[i] = wire[i]) \/ \E j \in 1..Len(d) : i = Len(wire) + j /\ w[i] = d[j]
    <2>1. Joined(wire, d, w)
      BY <1>1, <1>4, JoinHas
    <2> QED BY <2>1 DEF Joined
  <1>6. wire' = w
    BY <1>4
  <1>7. ASSUME NEW i \in 1..Len(w) PROVE Sane(w[i][1])' /\ Unspent(w[i])'
    <2>1. CASE i \in 1..Len(wire) /\ w[i] = wire[i]
      <3>1. Sane(wire[i][1]) /\ (~crossed => (Seplos!IsEnd(wire[i]) => Timely')
                /\ (IsFirst(wire[i]) => Timely' /\ asked.rtu /\ asked.reg = wire[i][1].about))
        BY <1>1, <1>2, <2>1 DEF Unspent
      <3> QED BY <1>6, <2>1, <3>1 DEF Sane, Unspent, IsFirst, Seplos!IsEnd
    <2>2. ASSUME NEW j \in 1..Len(d), w[i] = d[j] PROVE Sane(w[i][1])' /\ Unspent(w[i])'
      BY <1>6, <2>2 DEF Sane, Unspent, IsFirst, Seplos!IsEnd
    <2> QED BY <1>5, <2>1, <2>2
  <1>8. ASSUME ~crossed, NEW i \in 1..Len(w), NEW j \in 1..Len(w), IsFirst(w[i]), IsFirst(w[j]) PROVE i = j
    <2>1. (i \in 1..Len(wire) /\ w[i] = wire[i]) \/ \E k \in 1..Len(d) : i = Len(wire) + k /\ w[i] = d[k]
      BY <1>5
    <2>2. (j \in 1..Len(wire) /\ w[j] = wire[j]) \/ \E k \in 1..Len(d) : j = Len(wire) + k /\ w[j] = d[k]
      BY <1>5
    <2>3. CASE \A k \in 1..Len(d) : ~IsFirst(d[k])
      BY <1>1, <1>8, <2>1, <2>2, <2>3 DEF Once
    <2>4. CASE NoFirst(wire) /\ \A k \in 2..Len(d) : ~IsFirst(d[k])
      <3>1. \A k \in 1..Len(wire) : ~IsFirst(wire[k])
        BY <1>8, <2>4 DEF NoFirst
      <3>2. i = Len(wire) + 1
        BY <1>8, <2>1, <2>4, <3>1
      <3>3. j = Len(wire) + 1
        BY <1>8, <2>2, <2>4, <3>1
      <3> QED BY <3>2, <3>3
    <2> QED BY <2>3, <2>4 DEF FewFirst
  <1> QED BY <1>4, <1>6, <1>7, <1>8 DEF WireOk, Once, IsFirst

LEMMA PartIs ==
    ASSUME NEW f \in SepFrames, f.kind \in {"ascii", "rtu"}, NEW a \in 1..Seplos!Size(f), NEW b \in a..Seplos!Size(f)
    PROVE  /\ SubSeq(Seplos!Bytes(f), a, b) \in Seq(SepBytes) /\ Len(SubSeq(Seplos!Bytes(f), a, b)) = b - a + 1
           /\ \A i \in 1..(b - a + 1) : SubSeq(Seplos!Bytes(f), a, b)[i] = <<f, a + i - 1>>
  <1> DEFINE n == Seplos!Size(f)
             q == Seplos!Bytes(f)
  <1>1. n \in 1..4
    BY DEF Seplos!Size
  <1>2. q = [i \in 1..n |-> <<f, i>>]
    BY DEF Seplos!Bytes
  <1> HIDE DEF n, q
  <1>3. q \in Seq(SepBytes) /\ Len(q) = n /\ \A i \in 1..n : q[i] = <<f, i>>
    BY <1>1, <1>2 DEF SepBytes
  <1>4. a \in 1..n /\ b \in a..n
    BY DEF n
  <1> DEFINE p == SubSeq(q, a, b)
  <1>5. p \in Seq(SepBytes) /\ Len(p) = b - a + 1 /\ \A i \in 1..(b - a + 1) : p[i] = q[a + i - 1]
    BY <1>1, <1>3, <1>4
  <1> HIDE DEF p
  <1>6. \A i \in 1..(b - a + 1) : p[i] = <<f, a + i - 1>>
    BY <1>1, <1>3, <1>4, <1>5
  <1> QED BY <1>5, <1>6 DEF p, q

\* What of it can be read.
LEMMA ReadIs ==
    ASSUME NEW f \in SepFrames, f.kind \in {"ascii", "rtu"}, answer.frame = f,
           NEW a \in 1..Seplos!Size(f), NEW b \in a..Seplos!Size(f),
           NEW d, d = Seplos!Readable(SubSeq(Seplos!Bytes(f), a, b))
    PROVE  /\ d \in Seq(SepBytes)
           /\ \A i \in 1..Len(d) :
                /\ d[i][1].val = f.val /\ d[i][1].empty = f.empty
                /\ IsFirst(d[i]) => i = 1 /\ a = 1 /\ d[i][1] = f
  <1> DEFINE p == SubSeq(Seplos!Bytes(f), a, b)
  <1>1. p \in Seq(SepBytes) /\ Len(p) = b - a + 1 /\ \A i \in 1..(b - a + 1) : p[i] = <<f, a + i - 1>>
    BY PartIs
  <1> HIDE DEF p
  <1>2. CASE battery.inv = inverted
    <2>1. d = p
      BY <1>2 DEF Seplos!Readable, p
    <2>2. a \in Nat /\ b \in Nat
      BY DEF Seplos!Size
    <2>3. ASSUME NEW i \in 1..Len(p)
          PROVE  /\ p[i][1].val = f.val /\ p[i][1].empty = f.empty
                 /\ IsFirst(p[i]) => i = 1 /\ a = 1 /\ p[i][1] = f
      <3>1. p[i] = <<f, a + i - 1>>
        BY <1>1
      <3> QED BY <2>2, <3>1 DEF IsFirst
    <2> QED BY <1>1, <2>1, <2>3
  <1>3. CASE battery.inv # inverted
    <2> DEFINE g == [f EXCEPT !.kind = "junk"]
    <2>1. g \in SepFrames /\ g.kind = "junk" /\ g.val = f.val /\ g.empty = f.empty
      BY DEF SepFrames
    <2>2. d = <<<<g, 1>>>>
      BY <1>3 DEF Seplos!Readable
    <2> HIDE DEF g
    <2>3. <<g, 1>> \in SepBytes
      BY <2>1 DEF SepBytes
    <2> QED BY <2>1, <2>2, <2>3 DEF IsFirst
  <1> QED BY <1>2, <1>3


LEMMA SentIs ==
    ASSUME SepInv, answer # Seplos!NoAnswer
    PROVE  \E f \in SepFrames, d \in Nat, k \in 0..3 : answer = [frame |-> f, due |-> d, from |-> k] /\ Pending(f, d, k)
  BY DEF SepInv, AnswerOk

LEMMA SepRestarts ==
    ASSUME SepInv, Seplos!Restart
    PROVE  SepInv'
  <1>1. SepSizes /\ SetupOk /\ AroundOk /\ AnswerOk
    BY DEF SepInv
  <1>2. /\ swaps < MaxSwaps /\ swaps' = swaps + 1
        /\ since' = Period /\ pollCount' = 0 /\ next' = "telemetry" /\ cand' = 1 /\ polled' = 1
        /\ locked' = FALSE /\ inverted' = FALSE
        /\ asked' = [about |-> "telemetry", rtu |-> FALSE, reg |-> "telemetry"]
        /\ rx' = <<>> /\ work' = Seplos!Empty /\ model' = Seplos!NoModel /\ packet' = Seplos!NoPacket
        /\ wire' = <<>> /\ crossed' = (crossed \/ answer # Seplos!NoAnswer)
        /\ UNCHANGED <<answer, battery, gen, heard, faults>>
    BY DEF Seplos!Restart
  <1>3. SetupOk'
    <2>1. 0 \in 0..(CandidatePeriod * Len(Candidates) - 1)
      <3> DEFINE m == CandidatePeriod * Len(Candidates)
      <3>1. pollCount \in 0..(m - 1) /\ m \in Nat
        BY <1>1 DEF SetupOk, SepSizes
      <3> HIDE DEF m
      <3>2. 0 \in 0..(m - 1)
        BY <3>1
      <3> QED BY <3>2 DEF m
    <2>2. Period \in 0..Period /\ 1 \in 1..Len(Candidates) /\ faults \in 0..MaxFaults
      BY <1>1 DEF SetupOk, SepSizes
    <2>3. asked' \in [about : Seplos!Abouts, rtu : BOOLEAN, reg : Seplos!Abouts] /\ next' \in Seplos!Abouts
      BY <1>2 DEF Seplos!Abouts
    <2>4. crossed' \in BOOLEAN
      BY <1>1, <1>2 DEF SetupOk
    <2> QED BY <1>2, <2>1, <2>2, <2>3, <2>4 DEF SetupOk
  <1>4. AroundOk'
    <2>1. Seplos!MaxAge' = Seplos!MaxAge
      BY DEF Seplos!MaxAge
    <2> QED BY <1>1, <1>2, <2>1 DEF AroundOk, SepSizes
  <1>5. ShownOk'
    <2>1. SepTop' \in Nat /\ Seplos!MaxAge' = Seplos!MaxAge /\ Seplos!MaxAge \in Nat
      BY <1>1, <1>2, SepMaxAge DEF SepTop, AroundOk, SepSizes, Seplos!MaxAge
    <2>2. /\ work' \in SepWorks' /\ model' \in SepModels' /\ packet' \in SepPackets'
          /\ ~packet'.have /\ ~model'.valid /\ work' = Seplos!Empty
      BY <1>2, <2>1 DEF SepWorks, SepModels, SepPackets, Seplos!Empty, Seplos!NoModel, Seplos!NoPacket
    <2>3. Fits(Held, heard)'
      BY <1>2, <2>2 DEF Fits, Held, Filled, Seplos!Empty
    <2> QED BY <2>2, <2>3 DEF ShownOk
  <1>6. RxOk' /\ WireOk'
    BY <1>1, <1>2 DEF RxOk, WireOk, SepSizes, NoEnd, NoFirst, Once
  <1>7. AnswerOk'
    <2>1. CASE answer = Seplos!NoAnswer
      BY <1>2, <2>1 DEF AnswerOk
    <2>2. CASE answer # Seplos!NoAnswer
      <3>1. PICK f \in SepFrames, d \in Nat, k \in 0..3 : answer = [frame |-> f, due |-> d, from |-> k] /\ Pending(f, d, k)
        BY <2>2, SentIs
      <3>2. crossed' /\ swaps' # 0
        <4>1. crossed'
          BY <1>2, <2>2
        <4>2. swaps' # 0
          BY <1>1, <1>2 DEF AroundOk
        <4> QED BY <4>1, <4>2
      <3>3. Pending(f, d, k)'
        BY <1>2, <3>1, <3>2 DEF Pending, Sane, Seplos!Size
      <3> QED BY <1>2, <3>1, <3>3 DEF AnswerOk
    <2> QED BY <2>1, <2>2
  <1> QED BY <1>1, <1>3, <1>4, <1>5, <1>6, <1>7 DEF SepInv, SepSizes

\* The bytes of an answer that has come.
LEMMA ReadIsFresh ==
    ASSUME SepInv, NEW f \in SepFrames, NEW k \in 0..3, answer = [frame |-> f, due |-> 0, from |-> k], Pending(f, 0, k),
           NEW b \in (k + 1)..Seplos!Size(f), NEW q, q = Seplos!Readable(SubSeq(Seplos!Bytes(f), k + 1, b)),
           heard' = 0, UNCHANGED <<gen, crossed, swaps, polled, asked, battery>>
    PROVE  /\ q \in Seq(SepBytes) /\ FewFirst(q)
           /\ \A i \in 1..Len(q) : Sane(q[i][1]) /\ Unspent(q[i])'
  <1>1. /\ f.kind \in {"ascii", "rtu"} /\ Sane(f) /\ k \in 0..(Seplos!Size(f) - 1)
        /\ (~crossed /\ k = 0) => NoFirst(wire) /\ (f.kind = "rtu" => asked.rtu /\ asked.reg = f.about)
        /\ (Quick /\ swaps = 0) => Answered(polled)
    BY DEF Pending
  <1>2. k + 1 \in 1..Seplos!Size(f) /\ answer.frame = f
    BY <1>1 DEF Seplos!Size
  <1>3. /\ q \in Seq(SepBytes)
        /\ \A i \in 1..Len(q) :
             /\ q[i][1].val = f.val /\ q[i][1].empty = f.empty
             /\ IsFirst(q[i]) => i = 1 /\ k + 1 = 1 /\ q[i][1] = f
    BY <1>1, <1>2, ReadIs
  <1>4. Timely'
    BY <1>1 DEF Timely, Answered
  <1>5. ASSUME NEW i \in 1..Len(q) PROVE Sane(q[i][1]) /\ Unspent(q[i])'
    <2>1. Sane(q[i][1])
      BY <1>1, <1>3 DEF Sane
    <2>2. ASSUME ~crossed, IsFirst(q[i]) PROVE asked.rtu /\ asked.reg = q[i][1].about
      <3>1. k = 0 /\ q[i][1] = f /\ f.kind = "rtu"
        BY <1>3, <2>2 DEF IsFirst
      <3> QED BY <1>1, <2>2, <3>1
    <2> QED BY <1>4, <2>1, <2>2 DEF Unspent, IsFirst, Seplos!IsEnd
  <1>6. FewFirst(q)
    <2>1. CASE k = 0 /\ ~crossed
      BY <1>1, <1>3, <2>1 DEF FewFirst
    <2>2. CASE k # 0
      BY <1>3, <2>2 DEF FewFirst
    <2>3. CASE crossed
      BY <1>3, <2>3 DEF FewFirst, NoFirst
    <2> QED BY <2>1, <2>2, <2>3
  <1> QED BY <1>3, <1>5, <1>6

LEMMA DueIs ==
    ASSUME SepInv, Seplos!Due
    PROVE  \E f \in SepFrames, k \in 0..3 : answer = [frame |-> f, due |-> 0, from |-> k] /\ Pending(f, 0, k)
  <1>1. answer # Seplos!NoAnswer /\ answer.due = 0
    BY DEF Seplos!Due
  <1>2. PICK f \in SepFrames, d \in Nat, k \in 0..3 : answer = [frame |-> f, due |-> d, from |-> k] /\ Pending(f, d, k)
    BY <1>1, SentIs
  <1>3. d = 0
    BY <1>1, <1>2
  <1> QED BY <1>2, <1>3

LEMMA ArriveStep ==
    ASSUME SepInv, Seplos!Arrive
    PROVE  SepInv'
  <1>1. /\ Seplos!Due /\ wire' = wire \o Seplos!Readable(Seplos!Rest) /\ answer' = Seplos!NoAnswer /\ heard' = 0
        /\ UNCHANGED <<Seplos!ctxVars, Seplos!outVars, battery, gen, swaps, faults, crossed>>
        /\ UNCHANGED <<polled, asked>>
    BY DEF Seplos!Arrive, Seplos!envVars, Seplos!ctxVars
  <1>2. PICK f \in SepFrames, k \in 0..3 : answer = [frame |-> f, due |-> 0, from |-> k] /\ Pending(f, 0, k)
    BY <1>1, DueIs
  <1>3. SepSizes' /\ SetupOk' /\ AroundOk' /\ ShownOk' /\ RxOk'
    <2>1. /\ faults \in 0..MaxFaults /\ swaps \in 0..MaxSwaps /\ gen \in 1..(swaps + 1) /\ battery \in Batteries
          /\ heard \in 0..Seplos!MaxAge
      BY DEF SepInv, SetupOk, AroundOk
    <2>2. 0 \in 0..heard
      BY <2>1
    <2> QED BY <1>1, <2>1, <2>2, KeptIs
  <1>4. WireOk'
    <2>1. PICK n \in (k + 1)..Seplos!Size(f) : n = Seplos!Size(f)
      BY <1>2 DEF Pending, Seplos!Size
    <2>2. Seplos!Rest = SubSeq(Seplos!Bytes(f), k + 1, n)
      BY <1>2, <2>1 DEF Seplos!Rest
    <2>3. PICK q : q = Seplos!Readable(SubSeq(Seplos!Bytes(f), k + 1, n))
      OBVIOUS
    <2>4. q \in Seq(SepBytes) /\ FewFirst(q) /\ \A i \in 1..Len(q) : Sane(q[i][1]) /\ Unspent(q[i])'
      BY <1>1, <1>2, <2>3, ReadIsFresh
    <2> QED BY <1>1, <2>2, <2>3, <2>4, WireGrows
  <1> QED BY <1>1, <1>3, <1>4 DEF SepInv, AnswerOk

LEMMA SplitStep ==
    ASSUME SepInv, Seplos!Split
    PROVE  SepInv'
  <1>1. /\ Seplos!Due /\ faults < MaxFaults /\ faults' = faults + 1 /\ answer.from = 0 /\ heard' = 0
        /\ UNCHANGED <<Seplos!ctxVars, Seplos!outVars, battery, gen, swaps, crossed>>
        /\ UNCHANGED <<polled, asked, since>>
    BY DEF Seplos!Split, Seplos!Harm, Seplos!envVars, Seplos!ctxVars
  <1>2. PICK f \in SepFrames, j \in 0..3 : answer = [frame |-> f, due |-> 0, from |-> j] /\ Pending(f, 0, j)
    BY <1>1, DueIs
  <1>3. PICK k \in 1..(Seplos!Size(f) - 1) :
          /\ wire' = wire \o Seplos!Readable(SubSeq(Seplos!Bytes(f), 1, k))
          /\ answer' = [answer EXCEPT !.due = 1, !.from = k]
    <2>1. answer.frame = f
      BY <1>2
    <2>2. \E k \in 1..(Seplos!Size(answer.frame) - 1) :
            /\ wire' = wire \o Seplos!Readable(SubSeq(Seplos!Bytes(answer.frame), 1, k))
            /\ answer' = [answer EXCEPT !.due = 1, !.from = k]
      BY DEF Seplos!Split
    <2> QED BY <2>1, <2>2
  <1>4. SepSizes' /\ SetupOk' /\ AroundOk' /\ ShownOk' /\ RxOk'
    <2>1. /\ faults \in 0..MaxFaults /\ swaps \in 0..MaxSwaps /\ gen \in 1..(swaps + 1) /\ battery \in Batteries
          /\ heard \in 0..Seplos!MaxAge
      BY DEF SepInv, SetupOk, AroundOk
    <2>2. 0 \in 0..heard
      BY <2>1
    <2>3. faults' \in 0..MaxFaults
      BY <1>1, <2>1 DEF SepInv, SepSizes
    <2> QED BY <1>1, <2>1, <2>2, <2>3, KeptIs
  <1>5. j = 0 /\ k \in (j + 1)..Seplos!Size(f) /\ k \in 0..3 /\ k # 0
    BY <1>1, <1>2, <1>3 DEF Seplos!Size
  <1>6. WireOk'
    <2>0. k \in (j + 1)..Seplos!Size(f)
      BY <1>5
    <2>1. PICK q : q = Seplos!Readable(SubSeq(Seplos!Bytes(f), j + 1, k))
      OBVIOUS
    <2>2. q \in Seq(SepBytes) /\ FewFirst(q) /\ \A i \in 1..Len(q) : Sane(q[i][1]) /\ Unspent(q[i])'
      BY <1>1, <1>2, <2>0, <2>1, ReadIsFresh
    <2>3. wire' = wire \o q
      BY <1>3, <1>5, <2>1
    <2> QED BY <1>1, <2>2, <2>3, WireGrows
  <1>7. AnswerOk'
    <2>1. answer' = [frame |-> f, due |-> 1, from |-> k]
      BY <1>2, <1>3
    <2>2. Pending(f, 1, k)'
      <3>1. (Quick /\ swaps = 0) => 1 + since <= Period /\ Answered(polled)
        <4>1. since \in Nat /\ Period \in Nat
          BY DEF SepInv, SetupOk, SepSizes
        <4> QED BY <1>2, <1>5, <4>1 DEF Pending
      <3>2. f.kind \in {"ascii", "rtu"} /\ Sane(f) /\ k \in 0..(Seplos!Size(f) - 1)
        BY <1>2, <1>3 DEF Pending, Seplos!Size
      <3> QED BY <1>1, <1>5, <3>1, <3>2 DEF Pending, Sane, Answered, Seplos!Size
    <2> QED BY <1>5, <2>1, <2>2 DEF AnswerOk
  <1> QED BY <1>4, <1>6, <1>7 DEF SepInv

LEMMA LoseStep ==
    ASSUME SepInv, Seplos!Lose
    PROVE  SepInv'
  <1>1. /\ faults < MaxFaults /\ faults' = faults + 1 /\ answer' = Seplos!NoAnswer
        /\ UNCHANGED <<Seplos!ctxVars, Seplos!outVars, battery, gen, swaps, wire, heard, crossed>>
        /\ UNCHANGED <<polled, asked>>
    BY DEF Seplos!Lose, Seplos!Harm, Seplos!envVars, Seplos!ctxVars
  <1>2. SepSizes' /\ SetupOk' /\ AroundOk' /\ ShownOk' /\ RxOk'
    <2>1. /\ faults' \in 0..MaxFaults /\ swaps \in 0..MaxSwaps /\ gen \in 1..(swaps + 1) /\ battery \in Batteries
          /\ heard \in 0..heard
      <3>1. /\ faults \in 0..MaxFaults /\ MaxFaults \in Nat /\ swaps \in 0..MaxSwaps /\ gen \in 1..(swaps + 1)
            /\ battery \in Batteries /\ heard \in Nat
        BY DEF SepInv, SepSizes, SetupOk, AroundOk
      <3> QED BY <1>1, <3>1
    <2> QED BY <1>1, <2>1, KeptIs
  <1>3. WireOk'
    BY <1>1 DEF SepInv, WireOk, Sane, Unspent, Timely, Answered, Once, IsFirst, Seplos!IsEnd
  <1> QED BY <1>1, <1>2, <1>3 DEF SepInv, AnswerOk

LEMMA DamageStep ==
    ASSUME SepInv, Seplos!Damage
    PROVE  SepInv'
  <1>1. /\ Seplos!Due /\ faults < MaxFaults /\ faults' = faults + 1 /\ answer' = [answer EXCEPT !.frame.ok = FALSE]
        /\ UNCHANGED <<Seplos!ctxVars, Seplos!outVars, battery, gen, swaps, wire, heard, crossed>>
        /\ UNCHANGED <<polled, asked, since>>
    BY DEF Seplos!Damage, Seplos!Harm, Seplos!envVars, Seplos!ctxVars
  <1>2. SepSizes' /\ SetupOk' /\ AroundOk' /\ ShownOk' /\ RxOk'
    <2>1. /\ faults' \in 0..MaxFaults /\ swaps \in 0..MaxSwaps /\ gen \in 1..(swaps + 1) /\ battery \in Batteries
          /\ heard \in 0..heard
      <3>1. /\ faults \in 0..MaxFaults /\ MaxFaults \in Nat /\ swaps \in 0..MaxSwaps /\ gen \in 1..(swaps + 1)
            /\ battery \in Batteries /\ heard \in Nat
        BY DEF SepInv, SepSizes, SetupOk, AroundOk
      <3> QED BY <1>1, <3>1
    <2> QED BY <1>1, <2>1, KeptIs
  <1>3. WireOk'
    BY <1>1 DEF SepInv, WireOk, Sane, Unspent, Timely, Answered, Once, IsFirst, Seplos!IsEnd
  <1>4. PICK f \in SepFrames, k \in 0..3 : answer = [frame |-> f, due |-> 0, from |-> k] /\ Pending(f, 0, k)
    BY <1>1, DueIs
  <1>5. PICK g : g = [f EXCEPT !.ok = FALSE]
    OBVIOUS
  <1>6. g \in SepFrames /\ g.kind = f.kind /\ g.about = f.about /\ g.val = f.val /\ g.empty = f.empty
    BY <1>5 DEF SepFrames
  <1>7. answer' = [frame |-> g, due |-> 0, from |-> k]
    BY <1>1, <1>4, <1>5
  <1>8. Pending(g, 0, k)'
    BY <1>1, <1>4, <1>6 DEF Pending, Sane, Answered, Seplos!Size, NoFirst, IsFirst
  <1> QED BY <1>2, <1>3, <1>6, <1>7, <1>8 DEF SepInv, AnswerOk

LEMMA NoiseStep ==
    ASSUME SepInv, Seplos!Noise
    PROVE  SepInv'
  <1>1. /\ Seplos!Due /\ faults < MaxFaults /\ faults' = faults + 1
        /\ wire' = Append(wire, <<[answer.frame EXCEPT !.kind = "ascii", !.ok = FALSE], 1>>)
        /\ UNCHANGED <<Seplos!ctxVars, Seplos!outVars, battery, gen, swaps, answer, heard, crossed>>
        /\ UNCHANGED <<polled, asked, since>>
    BY DEF Seplos!Noise, Seplos!Harm, Seplos!envVars, Seplos!ctxVars
  <1>2. SepSizes' /\ SetupOk' /\ AroundOk' /\ ShownOk' /\ RxOk'
    <2>1. /\ faults' \in 0..MaxFaults /\ swaps \in 0..MaxSwaps /\ gen \in 1..(swaps + 1) /\ battery \in Batteries
          /\ heard \in 0..heard
      <3>1. /\ faults \in 0..MaxFaults /\ MaxFaults \in Nat /\ swaps \in 0..MaxSwaps /\ gen \in 1..(swaps + 1)
            /\ battery \in Batteries /\ heard \in Nat
        BY DEF SepInv, SepSizes, SetupOk, AroundOk
      <3> QED BY <1>1, <3>1
    <2> QED BY <1>1, <2>1, KeptIs
  <1>3. PICK f \in SepFrames, k \in 0..3 : answer = [frame |-> f, due |-> 0, from |-> k] /\ Pending(f, 0, k)
    BY <1>1, DueIs
  <1>4. PICK g : g = [f EXCEPT !.kind = "ascii", !.ok = FALSE]
    OBVIOUS
  <1>5. g \in SepFrames /\ g.kind = "ascii" /\ g.val = f.val /\ g.empty = f.empty
    BY <1>4 DEF SepFrames
  <1>6. PICK q : q = <<<<g, 1>>>>
    OBVIOUS
  <1>7. wire \in Seq(SepBytes) /\ wire' = wire \o q /\ q \in Seq(SepBytes) /\ Len(q) = 1 /\ q[1] = <<g, 1>>
    <2>1. wire \in Seq(SepBytes) /\ <<g, 1>> \in SepBytes
      BY <1>5 DEF SepInv, WireOk, SepBytes
    <2>2. wire' = Append(wire, <<g, 1>>)
      BY <1>1, <1>3, <1>4
    <2> QED BY <1>6, <2>1, <2>2
  <1>8. Sane(g)
    BY <1>3, <1>5 DEF Pending, Sane
  <1>9. WireOk'
    <2>1. \A i \in 1..Len(q) : Sane(q[i][1]) /\ Unspent(q[i])' /\ ~IsFirst(q[i])
      BY <1>5, <1>7, <1>8 DEF Unspent, IsFirst, Seplos!IsEnd
    <2> QED BY <1>1, <1>7, <2>1, WireGrows DEF FewFirst
  <1>10. NoFirst(wire) => NoFirst(wire)'
    <2> SUFFICES ASSUME NoFirst(wire) PROVE NoFirst(wire)'
      OBVIOUS
    <2>1. PICK w \in Seq(SepBytes) : w = wire \o q
      BY <1>7, JoinIs
    <2>2. ASSUME ~crossed, NEW i \in 1..Len(w) PROVE ~IsFirst(w[i])
      <3>1. (i \in 1..Len(wire) /\ w[i] = wire[i]) \/ \E j \in 1..Len(q) : i = Len(wire) + j /\ w[i] = q[j]
        <4>1. Joined(wire, q, w)
          BY <1>7, <2>1, JoinHas
        <4> QED BY <4>1 DEF Joined
      <3>2. ~IsFirst(q[1])
        BY <1>5, <1>7 DEF IsFirst
      <3>3. CASE i \in 1..Len(wire) /\ w[i] = wire[i]
        <4>1. ~IsFirst(wire[i])
          BY <2>2, <3>3 DEF NoFirst
        <4> QED BY <3>3, <4>1
      <3>4. CASE \E j \in 1..Len(q) : i = Len(wire) + j /\ w[i] = q[j]
        <4>1. w[i] = q[1]
          BY <1>7, <3>4
        <4> QED BY <3>2, <4>1
      <3> QED BY <3>1, <3>3, <3>4
    <2>3. wire' = w /\ crossed' = crossed
      BY <1>1, <1>7, <2>1
    <2> QED BY <2>2, <2>3 DEF NoFirst, IsFirst
  <1>11. Pending(f, 0, k)'
    BY <1>1, <1>3, <1>10 DEF Pending, Sane, Answered, Seplos!Size
  <1> QED BY <1>1, <1>2, <1>3, <1>9, <1>11 DEF SepInv, AnswerOk

LEMMA SwapStep ==
    ASSUME SepInv, Seplos!Swap
    PROVE  SepInv'
  <1>1. /\ swaps < MaxSwaps /\ swaps' = swaps + 1 /\ gen' = gen + 1 /\ battery' \in Batteries
        /\ answer' = Seplos!NoAnswer
        /\ UNCHANGED <<Seplos!ctxVars, Seplos!outVars, wire, heard, faults, crossed>>
        /\ UNCHANGED <<polled, asked>>
    BY DEF Seplos!Swap, Seplos!ctxVars
  <1>2. /\ faults \in 0..MaxFaults /\ swaps \in 0..MaxSwaps /\ gen \in 1..(swaps + 1) /\ MaxSwaps \in Nat
        /\ heard \in 0..heard
    BY DEF SepInv, SepSizes, SetupOk, AroundOk
  <1>3. SepSizes' /\ SetupOk' /\ AroundOk' /\ ShownOk' /\ RxOk'
    <2>1. /\ faults' \in 0..MaxFaults /\ swaps' >= swaps /\ swaps' \in 0..MaxSwaps /\ gen' >= gen
          /\ gen' \in 1..(swaps' + 1) /\ swaps' # 0 /\ heard' \in 0..heard
      BY <1>1, <1>2
    <2> QED BY <1>1, <2>1, KeptIs
  <1>4. WireOk'
    <2>1. /\ wire \in Seq(SepBytes) /\ Once(wire) /\ \A i \in 1..Len(wire) : Sane(wire[i][1]) /\ Unspent(wire[i])
      BY DEF SepInv, WireOk
    <2>2. Timely => Timely'
      BY <1>1, <1>2 DEF Timely
    <2>3. ASSUME NEW i \in 1..Len(wire) PROVE Sane(wire[i][1])' /\ Unspent(wire[i])'
      <3>1. wire[i][1].val \in Nat
        BY <2>1 DEF SepBytes, SepFrames
      <3>2. Sane(wire[i][1])'
        BY <1>1, <1>2, <2>1, <3>1 DEF Sane
      <3>3. Unspent(wire[i])'
        BY <1>1, <2>1, <2>2 DEF Unspent, IsFirst, Seplos!IsEnd
      <3> QED BY <3>2, <3>3
    <2> QED BY <1>1, <2>1, <2>3 DEF WireOk, Once, IsFirst
  <1> QED BY <1>1, <1>3, <1>4 DEF SepInv, AnswerOk

LEMMA SepIdles ==
    ASSUME SepInv, UNCHANGED Seplos!vars
    PROVE  SepInv'
  <1>1. /\ UNCHANGED <<since, pollCount, next, cand, polled, locked, inverted, asked, rx, work, model, packet>>
        /\ UNCHANGED <<battery, gen, swaps, wire, answer, heard, faults, crossed>>
    BY DEF Seplos!vars, Seplos!ctxVars, Seplos!outVars, Seplos!envVars
  <1>2. SepSizes'
    BY DEF SepInv, SepSizes
  <1>3. SetupOk' /\ AroundOk'
    BY <1>1 DEF SepInv, SetupOk, AroundOk, Seplos!MaxAge
  <1>4. ShownOk'
    BY <1>1 DEF SepInv, ShownOk, SepWorks, SepModels, SepPackets, SepTop, Held, Filled, Fits, Answered, Seplos!Empty,
                Seplos!MaxAge
  <1>5. RxOk' /\ WireOk'
    BY <1>1 DEF SepInv, RxOk, WireOk, Sane, Unspent, Timely, Answered, Once, NoFirst, NoEnd, IsFirst, Seplos!IsEnd
  <1>6. AnswerOk'
    BY <1>1 DEF SepInv, AnswerOk, Pending, Sane, Answered, NoFirst, IsFirst, Seplos!Size
  <1> QED BY <1>2, <1>3, <1>4, <1>5, <1>6 DEF SepInv

LEMMA SepStep ==
    ASSUME SepInv, [Seplos!Next]_(Seplos!vars)
    PROVE  SepInv' /\ NewShown
  <1>1. CASE Seplos!Loop
    BY <1>1, LoopStep
  <1>2. ASSUME ~Seplos!Loop PROVE SepInv' /\ NewShown
    <2>1. SepInv'
      BY <1>2, SepRestarts, ArriveStep, SplitStep, LoseStep, DamageStep, NoiseStep, SwapStep, SepIdles
         DEF Seplos!Next, Seplos!Harmed
    <2>2. ASSUME ~packet.have PROVE ~model.valid
      <3>1. /\ Fits(Held, heard) /\ Held.model = model /\ Held.packet = packet
        BY DEF SepInv, ShownOk, Held, Filled
      <3> QED BY <2>2, <3>1 DEF Fits
    <2>3. model' = model \/ model' = Seplos!NoModel
      BY <1>2 DEF Seplos!Next, Seplos!Harmed, Seplos!Restart, Seplos!Arrive, Seplos!Lose, Seplos!Split, Seplos!Damage,
                  Seplos!Noise, Seplos!Swap, Seplos!outVars, Seplos!vars
    <2> QED BY <2>1, <2>2, <2>3 DEF NewShown, Seplos!NoModel
  <1> QED BY <1>1, <1>2

\* The Seplos source keeps to its tables, its counters and the room of rxBuf (consumeRx drops what does not
\* fit), whatever is harmed, split, lost or of another battery and however often the task is started again.
THEOREM SeplosKeepsTypes == SepAssumed /\ Seplos!Spec => []Seplos!TypeOK
  <1>1. SepAssumed /\ Seplos!Init => SepInv
    BY SepStarts
  <1>2. SepInv /\ [Seplos!Next]_(Seplos!vars) => SepInv'
    BY SepStep
  <1>3. SepInv => Seplos!TypeOK
    BY SepInvTyped
  <1> QED BY <1>1, <1>2, <1>3, PTL DEF Seplos!Spec

\* What the model shows as pack, cells and alarms the battery sent as such: applyModbusPia and
\* applyModbusPib never take the registers of one request for those of another, if every whole answer
\* comes before the next request is due and none was on its way over a restart.
THEOREM SeplosAttributesRight == SepAssumed /\ Seplos!Spec => []Seplos!AttributedRight
  <1>1. SepAssumed /\ Seplos!Init => SepInv
    BY SepStarts
  <1>2. SepInv /\ [Seplos!Next]_(Seplos!vars) => SepInv'
    BY SepStep
  <1>3. SepInv => Seplos!AttributedRight
    BY SepInvTyped
  <1> QED BY <1>1, <1>2, <1>3, PTL DEF Seplos!Spec

\* lockPollCandidate keeps a candidate only if the battery answers its dialect, for every table of
\* candidates, if the answers, split ones too, come before the next request.
THEOREM SeplosLocksTheAnswered == SepAssumed /\ Quick /\ Seplos!Spec => []Seplos!LockedIsAnswered
  <1> DEFINE Inv == SepInv /\ Quick
  <1>1. SepAssumed /\ Quick /\ Seplos!Init => Inv
    BY SepStarts
  <1>2. Inv /\ [Seplos!Next]_(Seplos!vars) => Inv'
    BY SepStep DEF Quick
  <1>3. Inv => Seplos!LockedIsAnswered
    BY SepInvTyped
  <1> QED BY <1>1, <1>2, <1>3, PTL DEF Seplos!Spec

\* maybeClearStaleSource: a battery that was silent for the window and two rounds is shown no more, and its
\* candidate is not kept, for batteries that refuse nothing (a refusal keeps a candidate and shows nothing).
THEOREM SeplosDropsTheSilent == SepAssumed /\ Unrefused /\ Seplos!Spec => []Seplos!SilentIsDropped
  <1> DEFINE Inv == SepInv /\ Unrefused
  <1>1. SepAssumed /\ Unrefused /\ Seplos!Init => Inv
    BY SepStarts
  <1>2. Inv /\ [Seplos!Next]_(Seplos!vars) => Inv'
    BY SepStep DEF Unrefused
  <1>3. Inv => Seplos!SilentIsDropped
    BY SepInvTyped
  <1> QED BY <1>1, <1>2, <1>3, PTL DEF Seplos!Spec

\* After the source was stale, what is published first is of what has come since: nothing is left in
\* workingSnapshot, for every split and harm of the answers.
THEOREM SeplosShowsOnlyNew ==
    SepAssumed /\ Seplos!Spec => [][~crossed => Seplos!OnlyNewIsShown]_(Seplos!vars)
  <1>1. SepAssumed /\ Seplos!Init => SepInv
    BY SepStarts
  <1>2. SepInv /\ [Seplos!Next]_(Seplos!vars) => SepInv'
    BY SepStep
  <1>3. SepInv /\ [Seplos!Next]_(Seplos!vars) => (~crossed => Seplos!OnlyNewIsShown)
    BY SepStep DEF NewShown, Vals, Seplos!OnlyNewIsShown
  <1> QED BY <1>1, <1>2, <1>3, PTL DEF Seplos!Spec
=============================================================================
