------------------------ MODULE SettingsApply_proofs ------------------------
(***************************************************************************)
(* For every set of settings and any number of posts and faults: settings  *)
(* are applied by one actor at a time, settings that validateSettings      *)
(* rejects are never in force, a reboot keeps what was saved, and in the   *)
(* end route and drivers are those of the settings in memory.              *)
(***************************************************************************)
EXTENDS SettingsApply, TLAPS

Places == {"wait", "delay", "check", "stop", "rs", "can", "start", "wifi", "web", "startWeb", "hung"}

\* Without power nothing runs.
OffIsIdle == power = "off" => post = "idle" /\ ~taskExists /\ \A a \in Actors : pc[a] = "wait"

\* The handler applies only while there is no queue or no task, the task only while there are both.
Appliers ==
    /\ pc \in [Actors -> Places]
    /\ AtWork("task") => taskExists /\ queueExists
    /\ AtWork("httpd") => post \in {"inlineFirst", "inline"}
    /\ post = "inlineFirst" => ~queueExists
    /\ post = "inline" => ~taskExists

\* What is being saved is valid, and in flash before it is in memory.
Saving ==
    /\ post \in {"nvs", "ram1", "ram2"} => new \in Valid
    /\ post \in {"ram1", "ram2"} => nvs = new

IInv == OffIsIdle /\ Appliers /\ Saving /\ SettingsAreValid /\ RebootKeepsSettings

-----------------------------------------------------------------------------
\* What is loaded passes validateSettings.
LEMMA LoadedIsValid == \A n : Loaded(n) \in Valid
  BY SettingsAssumption DEF Loaded

\* A record that was written with all its keys is what flash holds.
LEMMA AllIsWritten ==
    ASSUME NEW s \in Valid, NEW n
    PROVE  Written(n, s, SavedKeys) = s
  <1>1. s \in Settings
    BY SettingsAssumption
  <1>2. DOMAIN s = Fields /\ s = [f \in Fields |-> s[f]]
    BY <1>1 DEF Settings, Fields
  <1>3. Written(n, s, SavedKeys) = [f \in Fields |-> s[f]]
    BY DEF Written, SavedKeys
  <1> QED BY <1>2, <1>3

\* A save that sets no key changes nothing of what is loaded.
LEMMA NothingIsWritten ==
    ASSUME NEW n, NEW r
    PROVE  Loaded(Written(n, r, {})) = Loaded(n)
  <1>1. \A f \in Fields : Written(n, r, {})[f] = n[f]
    BY DEF Written
  <1>2. Overlay(Written(n, r, {})) = Overlay(n)
    BY <1>1 DEF Overlay
  <1> QED BY <1>2 DEF Loaded

\* A valid record is loaded as it is.
LEMMA ValidIsLoaded ==
    ASSUME NEW s \in Valid
    PROVE  Loaded(s) = s
  <1>1. s \in Settings
    BY SettingsAssumption
  <1>2. \A f \in Fields : s[f] # Absent
    BY <1>1, SettingsAssumption DEF Settings, Fields
  <1>3. s = [f \in Fields |-> s[f]]
    BY <1>1 DEF Settings, Fields
  <1>4. Overlay(s) = [f \in Fields |-> s[f]]
    BY <1>2 DEF Overlay
  <1> QED BY <1>3, <1>4 DEF Loaded

-----------------------------------------------------------------------------
LEMMA InitInv == Init => IInv
  BY DEF Init, IInv, OffIsIdle, Appliers, Places, AtWork, Actors, Saving, SettingsAreValid, RebootKeepsSettings

\* A handler that is at work has power.
LEMMA HandlerHasPower == IInv /\ post # "idle" => power # "off"
  BY DEF IInv, OffIsIdle

LEMMA PostInv ==
    ASSUME IInv, NEW s \in Posts, Post(s)
    PROVE  IInv'
  BY DEF Post, IInv, OffIsIdle, Appliers, AtWork, Actors, Saving, SettingsAreValid, RebootKeepsSettings,
         saveVars, applyVars

LEMMA SaveFailsInv ==
    ASSUME IInv, NEW F \in SUBSET Fields, SaveFails(F)
    PROVE  IInv'
  <1>1. post = "nvs" /\ post' = "idle" /\ nvs' = Written(nvs, new, F) /\ torn' = (torn \/ F # {})
        /\ UNCHANGED <<power, ram, new, queueExists, taskExists, pc>>
    BY DEF SaveFails, applyVars
  <1>2. OffIsIdle' /\ Appliers' /\ Saving' /\ SettingsAreValid'
    BY <1>1 DEF IInv, OffIsIdle, Appliers, AtWork, Actors, Saving, SettingsAreValid
  <1>3. RebootKeepsSettings'
    <2> SUFFICES ASSUME power = "on", ~torn, F = {} PROVE Loaded(nvs') = ram
      BY <1>1 DEF RebootKeepsSettings
    <2>1. Loaded(nvs) = ram
      BY <1>1 DEF IInv, RebootKeepsSettings
    <2> QED BY <1>1, <2>1, NothingIsWritten
  <1> QED BY <1>2, <1>3 DEF IInv

LEMMA SaveDoneInv ==
    ASSUME IInv, SaveDone
    PROVE  IInv'
  <1>1. new \in Valid
    BY DEF SaveDone, IInv, Saving
  <1>2. nvs' = new'
    BY <1>1, AllIsWritten DEF SaveDone
  <1> QED
    BY <1>1, <1>2 DEF SaveDone, IInv, OffIsIdle, Appliers, AtWork, Actors, Saving, SettingsAreValid,
                      RebootKeepsSettings, applyVars

LEMMA CopyInv ==
    ASSUME IInv, CopyFirstWord \/ CopyRest
    PROVE  IInv'
  <1>1. new \in Valid /\ nvs = new /\ Loaded(new) = new
    BY ValidIsLoaded DEF CopyFirstWord, CopyRest, IInv, Saving
  <1>2. CASE CopyFirstWord
    BY <1>1, <1>2 DEF CopyFirstWord, IInv, OffIsIdle, Appliers, AtWork, Actors, Saving, SettingsAreValid,
                      RebootKeepsSettings, applyVars
  <1>3. CASE CopyRest
    BY <1>1, <1>3 DEF CopyRest, IInv, OffIsIdle, Appliers, AtWork, Actors, Saving, SettingsAreValid,
                      RebootKeepsSettings, applyVars
  <1> QED BY <1>2, <1>3

\* Nothing is written: memory and flash stay what they are.
LEMMA QuietInv ==
    ASSUME SettingsAreValid, RebootKeepsSettings, UNCHANGED <<power, nvs, torn, ram>>,
           post' \notin {"nvs", "ram1", "ram2"}, post \notin {"ram1", "ram2"}
    PROVE  Saving' /\ SettingsAreValid' /\ RebootKeepsSettings'
  BY DEF Saving, SettingsAreValid, RebootKeepsSettings

LEMMA AnswerInv ==
    ASSUME IInv, AnswerAndQueue
    PROVE  IInv'
  <1>1. Saving' /\ SettingsAreValid' /\ RebootKeepsSettings'
    BY QuietInv DEF AnswerAndQueue, IInv, saveVars
  <1>2. OffIsIdle'
    BY HandlerHasPower DEF AnswerAndQueue, OffIsIdle
  <1>3. CASE queueExists /\ post' = "ensure" /\ UNCHANGED applyVars
    BY <1>1, <1>2, <1>3 DEF AnswerAndQueue, IInv, Appliers, AtWork, applyVars
  <1>4. CASE ~queueExists /\ StartInline /\ post' = "inlineFirst"
    BY <1>1, <1>2, <1>4 DEF AnswerAndQueue, StartInline, IInv, Appliers, AtWork, Actors, Places
  <1> QED BY <1>3, <1>4 DEF AnswerAndQueue

LEMMA EnsureInv ==
    ASSUME IInv, EnsureTask
    PROVE  IInv'
  <1>1. Saving' /\ SettingsAreValid' /\ RebootKeepsSettings'
    BY QuietInv DEF EnsureTask, InlineFallback, IInv, saveVars
  <1>2. OffIsIdle'
    BY HandlerHasPower DEF EnsureTask, OffIsIdle
  <1>3. CASE post' = "idle" /\ taskExists' = TRUE /\ UNCHANGED applyVars
    BY <1>1, <1>2, <1>3 DEF EnsureTask, IInv, Appliers, AtWork, applyVars
  <1>4. CASE ~taskExists /\ InlineFallback /\ UNCHANGED taskExists
    BY <1>1, <1>2, <1>4 DEF EnsureTask, InlineFallback, StartInline, IInv, Appliers, AtWork, Actors, Places
  <1>5. CASE taskExists /\ post' = "idle" /\ UNCHANGED <<taskExists, applyVars>>
    BY <1>1, <1>2, <1>5 DEF EnsureTask, IInv, Appliers, AtWork, applyVars
  <1> QED BY <1>3, <1>4, <1>5 DEF EnsureTask

LEMMA InlineDoneInv ==
    ASSUME IInv, InlineDone
    PROVE  IInv'
  <1>1. Saving' /\ SettingsAreValid' /\ RebootKeepsSettings'
    BY QuietInv DEF InlineDone, IInv, saveVars
  <1> QED
    BY <1>1 DEF InlineDone, IInv, OffIsIdle, Appliers, AtWork, Actors, applyVars

-----------------------------------------------------------------------------
\* What neither saves nor posts keeps what is said of flash and memory.
LEMMA KeptBySaving ==
    ASSUME IInv, UNCHANGED <<power, nvs, torn, ram, post, new>>
    PROVE  Saving' /\ SettingsAreValid' /\ RebootKeepsSettings'
  BY DEF IInv, Saving, SettingsAreValid, RebootKeepsSettings

LEMMA ReceiveInv ==
    ASSUME IInv, Receive
    PROVE  IInv'
  <1>1. Saving' /\ SettingsAreValid' /\ RebootKeepsSettings'
    BY KeptBySaving DEF Receive, saveVars, postVars
  <1> QED
    BY <1>1 DEF Receive, Goto, IInv, OffIsIdle, Appliers, AtWork, Actors, Places, postVars

LEMMA DelayInv ==
    ASSUME IInv, Delay
    PROVE  IInv'
  <1>1. Saving' /\ SettingsAreValid' /\ RebootKeepsSettings'
    BY KeptBySaving DEF Delay, saveVars, postVars
  <1> QED
    BY <1>1 DEF Delay, Goto, IInv, OffIsIdle, Appliers, AtWork, Actors, Places, postVars

\* An actor at work goes on, from one place to another.
MovesOn(a) ==
    /\ AtWork(a) /\ \E p \in Places : Goto(a, p)
    /\ UNCHANGED <<power, nvs, torn, ram, post, new, taskExists, queueExists>>

LEMMA MovesOnInv ==
    ASSUME IInv, NEW a \in Actors, MovesOn(a)
    PROVE  IInv'
  <1>1. Saving' /\ SettingsAreValid' /\ RebootKeepsSettings'
    BY KeptBySaving DEF MovesOn
  <1>2. PICK p \in Places : pc' = [pc EXCEPT ![a] = p]
    BY DEF MovesOn, Goto
  <1>3. pc[a] # "wait"
    BY DEF MovesOn, AtWork
  <1> QED
    BY <1>1, <1>2, <1>3 DEF MovesOn, IInv, OffIsIdle, Appliers, AtWork, Actors

LEMMA ApplyMovesOn ==
    ASSUME NEW a \in Actors, Apply(a)
    PROVE  MovesOn(a)
  <1> USE DEF MovesOn, Goto, AtWork, Places, saveVars, postVars
  <1>1. CASE CheckMode(a)
    BY <1>1 DEF CheckMode
  <1>2. CASE StopRoute(a)
    BY <1>2 DEF StopRoute
  <1>3. CASE Rs485Reinit(a)
    BY <1>3 DEF Rs485Reinit
  <1>4. CASE CanReinit(a)
    BY <1>4 DEF CanReinit
  <1>5. CASE StartRoute(a)
    BY <1>5 DEF StartRoute
  <1>6. CASE ReconfigureWifi(a)
    BY <1>6 DEF ReconfigureWifi
  <1>7. CASE StopWeb(a)
    BY <1>7 DEF StopWeb
  <1>8. CASE StartWeb(a)
    BY <1>8 DEF StartWeb
  <1> QED BY <1>1, <1>2, <1>3, <1>4, <1>5, <1>6, <1>7, <1>8 DEF Apply

-----------------------------------------------------------------------------
LEMMA ResetInv ==
    ASSUME IInv, Reset
    PROVE  IInv'
  BY DEF Reset, IInv, OffIsIdle, Appliers, AtWork, Actors, Places, Saving, SettingsAreValid,
         RebootKeepsSettings

LEMMA BootInv ==
    ASSUME IInv, Boot
    PROVE  IInv'
  <1>1. power = "off" /\ power' = "on" /\ UNCHANGED <<post, new, pc>> /\ ram' = Loaded(nvs')
    BY DEF Boot, postVars, applyVars
  <1>2. post' = "idle" /\ \A a \in Actors : pc'[a] = "wait"
    BY <1>1 DEF IInv, OffIsIdle
  <1>3. ram' \in Valid
    BY <1>1, LoadedIsValid
  <1>4. pc' \in [Actors -> Places]
    BY <1>1 DEF IInv, Appliers
  <1>5. Appliers'
    BY <1>2, <1>4 DEF Appliers, AtWork, Actors
  <1>6. Saving' /\ SettingsAreValid' /\ OffIsIdle'
    BY <1>1, <1>2, <1>3 DEF Saving, SettingsAreValid, OffIsIdle
  <1>7. RebootKeepsSettings'
    BY <1>1, LoadedIsValid DEF RebootKeepsSettings, Loaded, Overlay
  <1> QED BY <1>5, <1>6, <1>7 DEF IInv

\* The station and the networks have no part in it.
LEMMA KeptInv ==
    ASSUME IInv, UNCHANGED <<power, nvs, torn, ram, post, new, taskExists, queueExists, pc>>
    PROVE  IInv'
  <1>1. Saving' /\ SettingsAreValid' /\ RebootKeepsSettings'
    BY KeptBySaving
  <1> QED BY <1>1 DEF IInv, OffIsIdle, Appliers, AtWork

LEMMA WifiInv ==
    ASSUME IInv, \/ GotIp \/ Disconnected
                 \/ \E n \in Ssids : NetworkLost(n) \/ NetworkBack(n)
    PROVE  IInv'
  <1>1. UNCHANGED <<power, nvs, torn, ram, post, new, taskExists, queueExists, pc>>
    BY DEF GotIp, Disconnected, NetworkLost, NetworkBack, saveVars, postVars, applyVars
  <1> QED BY <1>1, KeptInv

-----------------------------------------------------------------------------
LEMMA NextInv ==
    ASSUME IInv, [Next]_vars
    PROVE  IInv'
  <1>1. CASE UNCHANGED vars
    BY <1>1, KeptInv DEF vars, saveVars, postVars, applyVars
  <1>2. ASSUME NEW s \in Posts, Post(s) PROVE IInv'
    BY <1>2, PostInv
  <1>3. ASSUME NEW F \in SUBSET Fields, SaveFails(F) PROVE IInv'
    BY <1>3, SaveFailsInv
  <1>4. CASE Handler
    BY <1>4, SaveDoneInv, CopyInv, AnswerInv, EnsureInv, InlineDoneInv DEF Handler
  <1>5. CASE Receive \/ Delay
    BY <1>5, ReceiveInv, DelayInv
  <1>6. ASSUME NEW a \in Actors, Apply(a) PROVE IInv'
    BY <1>6, ApplyMovesOn, MovesOnInv
  <1>7. CASE GotIp \/ Disconnected \/ \E n \in Ssids : NetworkLost(n) \/ NetworkBack(n)
    BY <1>7, WifiInv
  <1>8. CASE Crash \/ NullQueue
    BY <1>8, ResetInv DEF Crash, NullQueue
  <1>9. CASE Boot
    BY <1>9, BootInv
  <1> QED BY <1>1, <1>2, <1>3, <1>4, <1>5, <1>6, <1>7, <1>8, <1>9 DEF Next

LEMMA Invariance == Spec => []IInv
  <1>1. Init => IInv
    BY InitInv
  <1>2. IInv /\ [Next]_vars => IInv'
    BY NextInv
  <1> QED BY <1>1, <1>2, PTL DEF Spec

\* applyRuntimeSettings is never run by the task and by a handler at the same time, though neither
\* orchestratorStop nor orchestratorStart takes a lock.
THEOREM AppliersExclude == Spec => []OneApplier
  <1>1. IInv => OneApplier
    BY DEF IInv, Appliers, OneApplier
  <1> QED BY <1>1, Invariance, PTL

\* runtimeSettingsInit and settingsPostHandler: whatever failed or was cut, what is in force has
\* passed validateSettings.
THEOREM ValidStays == Spec => []SettingsAreValid
  <1>1. IInv => SettingsAreValid
    BY DEF IInv
  <1> QED BY <1>1, Invariance, PTL

\* runtimeSettingsSave: outside of a save, and unless one failed half way since the boot, a boot would
\* load what is in memory.
THEOREM RebootKeeps == Spec => []RebootKeepsSettings
  <1>1. IInv => RebootKeepsSettings
    BY DEF IInv
  <1> QED BY <1>1, Invariance, PTL

-----------------------------------------------------------------------------
(* The route settles.                                                      *)

\* The bridge mode runs, and the settings in memory want it.
BridgeWanted == power = "on" /\ modeStarted /\ runningMode = Bridge /\ ram.mode = Bridge

\* The route and the drivers are those of the settings in memory.
RouteIsCurrent == rs = ram /\ can = ram /\ (running = ram \/ startFailed)

\* What the actor has read so far is what the memory holds now, so the rest of its way ends
\* with the current route.
OnCourse(a) ==
    /\ pc[a] \in {"rs", "can", "start"} => rec[a] = ram
    /\ pc[a] \in {"can", "start"} => rs = ram
    /\ pc[a] = "start" => can = ram
    /\ pc[a] \in {"wifi", "web", "startWeb", "hung"} => RouteIsCurrent

\* A request waits, and there is a task to take it or the handler is about to see to one.
Pending == queueExists /\ queue # Absent /\ (taskExists \/ post = "ensure")

\* An apply that matches the memory is yet to start, is under way or is over.
Covered ==
    BridgeWanted =>
        \/ post \in {"ram2", "queue"}
        \/ Pending
        \/ \E a \in Actors : AtWork(a) /\ OnCourse(a)
        \/ (\A a \in Actors : ~AtWork(a)) /\ RouteIsCurrent

\* Without a queue nothing is queued; every actor has a place for its snapshot.
Slots == (power = "off" => queue = Absent) /\ (~queueExists => queue = Absent) /\ DOMAIN rec = Actors

CInv == IInv /\ Slots /\ Covered

LEMMA InitCovered == Init => CInv
  <1>1. Init => Slots /\ Covered
    BY DEF Init, Slots, Covered, BridgeWanted
  <1> QED BY <1>1, InitInv DEF CInv

\* Where the request goes is not Absent.
LEMMA RequestIsThere == ApplyReq \in Requests /\ ApplyReq # Absent
  <1>1. \A b, c \in BOOLEAN : [web |-> b, wifi |-> c] \in Requests
    BY DEF Requests
  <1>2. (new.web # old.web) \in BOOLEAN /\ (new.ssid # old.ssid) \in BOOLEAN
    OBVIOUS
  <1>3. ApplyReq \in Requests
    BY <1>1, <1>2, Zenon DEF ApplyReq
  <1> QED BY <1>3, SettingsAssumption

\* The other actor rests.
LEMMA AloneAtWork ==
    ASSUME IInv, NEW a \in Actors, AtWork(a), NEW b \in Actors, AtWork(b)
    PROVE  a = b
  BY DEF IInv, Appliers, AtWork, Actors

\* Neither the memory, the requests, the actors nor the route are touched.
LEMMA KeptCovered ==
    ASSUME CInv, UNCHANGED <<power, ram, queueExists, queue, applyVars, routeVars>>,
           taskExists => taskExists',
           \/ UNCHANGED post
           \/ post \notin {"ram2", "queue", "ensure"}
           \/ post = "ensure" /\ taskExists'
    PROVE  Slots' /\ Covered'
  BY DEF CInv, Slots, Covered, BridgeWanted, Pending, RouteIsCurrent, OnCourse, AtWork, applyVars, routeVars

LEMMA HandlerCovered ==
    ASSUME CInv, Handler
    PROVE  Slots' /\ Covered'
  <1> USE DEF saveVars, routeVars
  <1>1. CASE SaveDone
    BY <1>1, KeptCovered DEF SaveDone
  <1>2. CASE CopyFirstWord
    BY <1>2 DEF CopyFirstWord, CInv, Slots, Covered, applyVars
  <1>3. CASE CopyRest
    BY <1>3 DEF CopyRest, CInv, Slots, Covered, applyVars
  <1>4. CASE AnswerAndQueue
    <2>1. CASE queueExists /\ queue' = ApplyReq /\ post' = "ensure" /\ UNCHANGED applyVars
      <3>1. Pending'
        BY <1>4, <2>1, RequestIsThere DEF AnswerAndQueue, Pending
      <3>2. power # "off"
        BY <1>4, HandlerHasPower DEF AnswerAndQueue, CInv
      <3> QED BY <1>4, <2>1, <3>1, <3>2 DEF AnswerAndQueue, CInv, Slots, Covered, applyVars
    <2>2. CASE ~queueExists /\ StartInline /\ post' = "inlineFirst" /\ UNCHANGED queue
      <3>1. AtWork("httpd")' /\ OnCourse("httpd")'
        BY <2>2 DEF StartInline, CInv, IInv, Appliers, AtWork, OnCourse, Actors
      <3> QED BY <1>4, <2>2, <3>1 DEF AnswerAndQueue, StartInline, CInv, Slots, Covered, Actors
    <2> QED BY <1>4, <2>1, <2>2 DEF AnswerAndQueue
  <1>5. CASE EnsureTask
    <2>1. CASE post' = "idle" /\ taskExists' = TRUE /\ UNCHANGED applyVars
      BY <1>5, <2>1, KeptCovered DEF EnsureTask
    <2>2. CASE taskExists /\ post' = "idle" /\ UNCHANGED <<taskExists, applyVars>>
      BY <1>5, <2>2, KeptCovered DEF EnsureTask
    <2>3. CASE InlineFallback /\ UNCHANGED taskExists
      <3>1. AtWork("httpd")' /\ OnCourse("httpd")'
        BY <2>3 DEF InlineFallback, StartInline, CInv, IInv, Appliers, AtWork, OnCourse, Actors
      <3> QED BY <1>5, <2>3, <3>1 DEF EnsureTask, InlineFallback, StartInline, CInv, Slots, Covered, Actors
    <2> QED BY <1>5, <2>1, <2>2, <2>3 DEF EnsureTask
  <1>6. CASE InlineDone
    BY <1>6, KeptCovered DEF InlineDone
  <1> QED BY <1>1, <1>2, <1>3, <1>4, <1>5, <1>6 DEF Handler

LEMMA ReceiveCovered ==
    ASSUME CInv, Receive
    PROVE  Slots' /\ Covered'
  <1>1. AtWork("task")' /\ OnCourse("task")'
    BY DEF Receive, Goto, CInv, IInv, Appliers, AtWork, OnCourse, Actors
  <1> QED BY <1>1 DEF Receive, CInv, Slots, Covered, Actors

LEMMA DelayCovered ==
    ASSUME CInv, Delay
    PROVE  Slots' /\ Covered'
  <1>1. AtWork("task")' /\ OnCourse("task")'
    BY DEF Delay, Goto, CInv, IInv, Appliers, AtWork, OnCourse, Actors
  <1>2. BridgeWanted' = BridgeWanted /\ UNCHANGED <<post, queue, queueExists, taskExists, power, rec>>
    BY DEF Delay, BridgeWanted, saveVars, postVars, routeVars
  <1> QED BY <1>1, <1>2 DEF CInv, Slots, Covered, Actors

\* A step of an actor that is on course keeps it on course, or ends its way with the current route.
LEMMA StaysOnCourse ==
    ASSUME CInv, BridgeWanted, NEW a \in Actors, Apply(a), OnCourse(a)
    PROVE  (AtWork(a) /\ OnCourse(a))' \/ (~AtWork(a) /\ RouteIsCurrent)'
  <1>0. a \in DOMAIN pc /\ a \in DOMAIN rec
    BY DEF CInv, IInv, Appliers, Slots
  <1> USE <1>0 DEF Goto, OnCourse, AtWork, RouteIsCurrent, saveVars, routeVars
  <1>1. CASE CheckMode(a)
    BY <1>1 DEF CheckMode, BridgeWanted
  <1>2. CASE StopRoute(a)
    BY <1>2 DEF StopRoute, Snapshot
  <1>3. CASE Rs485Reinit(a)
    BY <1>3 DEF Rs485Reinit
  <1>4. CASE CanReinit(a)
    BY <1>4 DEF CanReinit
  <1>5. CASE StartRoute(a)
    BY <1>5 DEF StartRoute
  <1>6. CASE ReconfigureWifi(a)
    BY <1>6 DEF ReconfigureWifi
  <1>7. CASE StopWeb(a)
    BY <1>7 DEF StopWeb
  <1>8. CASE StartWeb(a)
    BY <1>8 DEF StartWeb
  <1> QED BY <1>1, <1>2, <1>3, <1>4, <1>5, <1>6, <1>7, <1>8 DEF Apply

\* What an actor's step leaves alone.
LEMMA ApplyKeeps ==
    ASSUME CInv, NEW a \in Actors, Apply(a)
    PROVE  /\ UNCHANGED <<power, ram, modeStarted, runningMode, post, queue, queueExists, taskExists>>
           /\ DOMAIN rec' = Actors
           /\ \A b \in Actors \ {a} : pc'[b] = pc[b]
  <1> USE DEF Goto, saveVars, postVars, routeVars, CInv, Slots
  <1>1. CASE CheckMode(a)
    BY <1>1 DEF CheckMode, IInv, Appliers
  <1>2. CASE StopRoute(a)
    BY <1>2 DEF StopRoute, IInv, Appliers
  <1>3. CASE Rs485Reinit(a)
    BY <1>3 DEF Rs485Reinit, IInv, Appliers
  <1>4. CASE CanReinit(a)
    BY <1>4 DEF CanReinit, IInv, Appliers
  <1>5. CASE StartRoute(a)
    BY <1>5 DEF StartRoute, IInv, Appliers
  <1>6. CASE ReconfigureWifi(a)
    BY <1>6 DEF ReconfigureWifi, IInv, Appliers
  <1>7. CASE StopWeb(a)
    BY <1>7 DEF StopWeb, IInv, Appliers
  <1>8. CASE StartWeb(a)
    BY <1>8 DEF StartWeb, IInv, Appliers
  <1> QED BY <1>1, <1>2, <1>3, <1>4, <1>5, <1>6, <1>7, <1>8 DEF Apply

LEMMA ApplyCovered ==
    ASSUME CInv, NEW a \in Actors, Apply(a)
    PROVE  Slots' /\ Covered'
  <1>1. AtWork(a) /\ IInv
    BY ApplyMovesOn DEF MovesOn, CInv
  <1>2. UNCHANGED <<power, post, queue, queueExists, taskExists>> /\ DOMAIN rec' = Actors
    BY ApplyKeeps
  <1>3. Slots'
    BY <1>2 DEF CInv, Slots
  <1>4. BridgeWanted' = BridgeWanted
    BY ApplyKeeps DEF BridgeWanted
  <1>5. ASSUME BridgeWanted PROVE \/ post' \in {"ram2", "queue"}
                                  \/ Pending'
                                  \/ \E b \in Actors : (AtWork(b) /\ OnCourse(b))'
                                  \/ (\A b \in Actors : ~AtWork(b)') /\ RouteIsCurrent'
    <2>1. CASE post \in {"ram2", "queue"} \/ Pending
      BY <1>2, <2>1 DEF Pending
    <2>2. CASE \E b \in Actors : AtWork(b) /\ OnCourse(b)
      <3>1. OnCourse(a)
        BY <1>1, <2>2, AloneAtWork
      <3>2. \A b \in Actors \ {a} : ~AtWork(b)'
        BY <1>1, AloneAtWork, ApplyKeeps DEF AtWork
      <3> QED BY <1>5, <3>1, <3>2, StaysOnCourse
    <2> QED BY <1>1, <1>5, <2>1, <2>2 DEF CInv, Covered
  <1> QED BY <1>3, <1>4, <1>5 DEF Covered

LEMMA ResetCovered ==
    ASSUME CInv, Reset
    PROVE  Slots' /\ Covered'
  BY DEF Reset, CInv, Slots, Covered, BridgeWanted

\* The drivers and the route of a boot are those of what it loaded.
LEMMA BootCovered ==
    ASSUME CInv, Boot
    PROVE  Slots' /\ Covered'
  <1>1. rs' = ram' /\ can' = ram' /\ power = "off" /\ power' = "on" /\ UNCHANGED <<queue, pc, rec>>
    BY DEF Boot, StartMode, applyVars
  <1>2. modeStarted' /\ ram'.mode = Bridge => running' = ram'
    BY DEF Boot, StartMode
  <1>3. queue' = Absent /\ \A a \in Actors : ~AtWork(a)'
    BY <1>1 DEF CInv, IInv, OffIsIdle, Slots, AtWork
  <1> QED BY <1>1, <1>2, <1>3 DEF CInv, Slots, Covered, BridgeWanted, RouteIsCurrent

LEMMA NextCovered ==
    ASSUME CInv, [Next]_vars
    PROVE  CInv'
  <1> SUFFICES Slots' /\ Covered'
    BY NextInv DEF CInv
  <1>1. CASE UNCHANGED vars
    BY <1>1, KeptCovered DEF vars, saveVars, postVars
  <1>2. ASSUME NEW s \in Posts, Post(s) PROVE Slots' /\ Covered'
    BY <1>2, KeptCovered DEF Post, saveVars
  <1>3. ASSUME NEW F \in SUBSET Fields, SaveFails(F) PROVE Slots' /\ Covered'
    BY <1>3, KeptCovered DEF SaveFails
  <1>4. CASE Handler
    BY <1>4, HandlerCovered
  <1>5. CASE Receive \/ Delay
    BY <1>5, ReceiveCovered, DelayCovered
  <1>6. ASSUME NEW a \in Actors, Apply(a) PROVE Slots' /\ Covered'
    BY <1>6, ApplyCovered
  <1>7. CASE GotIp \/ Disconnected \/ \E n \in Ssids : NetworkLost(n) \/ NetworkBack(n)
    BY <1>7, KeptCovered DEF GotIp, Disconnected, NetworkLost, NetworkBack, saveVars, postVars
  <1>8. CASE Crash \/ NullQueue
    BY <1>8, ResetCovered DEF Crash, NullQueue
  <1>9. CASE Boot
    BY <1>9, BootCovered
  <1> QED BY <1>1, <1>2, <1>3, <1>4, <1>5, <1>6, <1>7, <1>8, <1>9 DEF Next

\* applyBridgeRuntimeSettings, rs485Reinit and canReinit each read the settings for themselves, while
\* settingsPostHandler may be writing them: once nothing is saved, queued or applied, the route and
\* both drivers are those of the one record in memory, or the route's start failed.
THEOREM RouteSettlesAlways == Spec => []RouteSettles
  <1>1. Init => CInv
    BY InitCovered
  <1>2. CInv /\ [Next]_vars => CInv'
    BY NextCovered
  <1>3. CInv => RouteSettles
    BY DEF CInv, Covered, BridgeWanted, Pending, RouteIsCurrent, RouteSettles, Settled
  <1> QED BY <1>1, <1>2, <1>3, PTL DEF Spec
=============================================================================
