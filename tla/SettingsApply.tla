---------------------------- MODULE SettingsApply ----------------------------
(***************************************************************************)
(* Settings on their way from a POST to the running system: flash (NVS),   *)
(* the copy in memory, the one-place queue to the task settings_apply, the *)
(* route and the drivers that are started anew from what the memory holds  *)
(* at that time, the Wi-Fi station and the web server, with crashes and    *)
(* boots in between.                                                       *)
(*                                                                         *)
(* A settings record is a function on Fields, in the order runtime         *)
(* settings are written; "bms" and "inv" each stand for line, protocol and *)
(* port of one side.  Faults counts what the environment does wrong.       *)
(***************************************************************************)
EXTENDS Naturals, FiniteSets

CONSTANTS
    Bms, Inv, Webs, Ssids,  \* values of the fields
    Modes, Bridge,          \* working modes; the one with a route
    Valid,                  \* the records validateSettings accepts
    Default,                \* defaultSettings
    Posts,                  \* the records that may be posted
    Absent,                 \* a key NVS does not hold, a request that is not there
    MaxRetry,               \* WIFI_STA_MAX_RETRY
    MaxPosts, MaxFaults     \* bounds of the runs

Settings == [mode : Modes, bms : Bms, inv : Inv, web : Webs, ssid : Ssids]
Requests == [web : BOOLEAN, wifi : BOOLEAN]

ASSUME SettingsAssumption ==
    /\ Valid \subseteq Settings /\ Default \in Valid /\ Posts \subseteq Settings
    /\ Bridge \in Modes
    /\ Absent \notin Settings \cup Requests \cup Modes \cup Bms \cup Inv \cup Webs \cup Ssids

ASSUME BoundAssumption == {MaxRetry, MaxPosts, MaxFaults} \subseteq Nat

Fields == {"mode", "bms", "inv", "web", "ssid"}

\* The words of bridge_runtime_settings_t that a copy writes first.
FirstWord == {"mode", "bms"}

Actors == {"task", "httpd"}

VARIABLES
    power,               \* "off" between a crash and the next boot
    nvs,                 \* what flash holds, per key
    torn,                \* since the boot a save failed that had set keys, and none was done after it
    ram,                 \* s_runtimeSettings
    post, old, new,      \* settingsPostHandler: where it is, oldSettings, settings
    acked,               \* the record that was last answered "Saved and applied"
    queueExists, queue,  \* s_settingsApplyQueue
    taskExists,          \* s_settingsApplyTask
    pc, req, rec,        \* per actor: place in applyRuntimeSettings, its request,
                         \* the snapshot of applyBridgeRuntimeSettings
    modeStarted, runningMode,
    running,             \* the record the route was started from, or Absent
    startFailed,         \* the last orchestratorStartFromRuntime failed
    rs, can,             \* the records the drivers were set up from
    http, httpPort,      \* s_httpd: "down", "up", "hung"
    wifi, wifiCfg, tries, ap,  \* the station; the networks in reach
    posts, faults        \* counters of the bounds

saveVars  == <<nvs, torn, ram>>
postVars  == <<post, old, new, acked, posts>>
applyVars == <<pc, req, rec>>
routeVars == <<modeStarted, runningMode, running, startFailed, rs, can>>
httpVars  == <<http, httpPort>>
wifiVars  == <<wifi, wifiCfg, tries>>
envVars   == <<ap, faults>>
vars == <<power, saveVars, postVars, queueExists, queue, taskExists, applyVars,
          routeVars, httpVars, wifiVars, envVars>>

TypeOK ==
    /\ power \in {"off", "on"}
    /\ \A f \in Fields : nvs[f] \in {s[f] : s \in Settings} \cup {Absent}
    /\ DOMAIN nvs = Fields
    /\ torn \in BOOLEAN
    /\ {ram, new, old, rs, can} \subseteq Settings
    /\ post \in {"idle", "nvs", "ram1", "ram2", "queue", "inlineFirst", "ensure", "inline"}
    /\ acked \in Settings \cup {Absent}
    /\ {queueExists, taskExists, modeStarted, startFailed} \subseteq BOOLEAN
    /\ queue \in Requests \cup {Absent}
    /\ pc \in [Actors -> {"wait", "delay", "check", "stop", "rs", "can", "start",
                          "wifi", "web", "startWeb", "hung"}]
    /\ req \in [Actors -> Requests]
    /\ rec \in [Actors -> Settings]
    /\ runningMode \in Modes
    /\ running \in Settings \cup {Absent}
    /\ http \in {"down", "up", "hung"} /\ httpPort \in Webs
    /\ wifi \in {"down", "connecting", "connected"} /\ wifiCfg \in Ssids
    /\ tries \in 0..MaxRetry /\ ap \subseteq Ssids
    /\ posts \in 0..MaxPosts /\ faults \in 0..MaxFaults

Fault == faults < MaxFaults /\ faults' = faults + 1

NoRequest == [web |-> FALSE, wifi |-> FALSE]

-----------------------------------------------------------------------------
(* runtime_settings.c.                                                     *)

\* What runtimeSettingsInit makes of flash: key by key over the defaults.
Overlay(n) == [f \in Fields |-> IF n[f] = Absent THEN Default[f] ELSE n[f]]

\* Mutant: what was loaded is not validated.
LoadedUnchecked(n) == Overlay(n)

\* Settings that do not pass validateSettings are dropped as a whole.
Loaded(n) == IF Overlay(n) \in Valid THEN Overlay(n) ELSE Default

\* Flash after the keys F of s were set.
Written(n, s, F) == [f \in Fields |-> IF f \in F THEN s[f] ELSE n[f]]

\* Mutant: the key of the second side is not written.
SavedKeysNoInv == Fields \ {"inv"}

SavedKeys == Fields

-----------------------------------------------------------------------------
(* settingsPostHandler, run by the one httpd task.                         *)

AtWork(a) == pc[a] # "wait"

\* A request that fails before or in validateSettings changes nothing.
Post(s) ==
    /\ power = "on" /\ http = "up" /\ wifi = "connected"
    /\ post = "idle" /\ posts < MaxPosts
    /\ posts' = posts + 1
    /\ old' = ram
    /\ new' = s
    /\ post' = IF s \in Valid THEN "nvs" ELSE "idle"
    /\ UNCHANGED <<power, saveVars, acked, queueExists, queue, taskExists,
                   applyVars, routeVars, httpVars, wifiVars, envVars>>

\* runtimeSettingsSave: a key that cannot be set does not keep the others from
\* being set, and with all of them set the commit may fail; the answer is then
\* 400. No key is set when NVS cannot be opened.
SaveFails(F) ==
    /\ post = "nvs"
    /\ Fault
    /\ nvs' = Written(nvs, new, F)
    /\ torn' = (torn \/ F # {})
    /\ post' = "idle"
    /\ UNCHANGED <<power, ram, old, new, acked, posts, queueExists, queue, taskExists,
                   applyVars, routeVars, httpVars, wifiVars, ap>>

SaveDone ==
    /\ post = "nvs"
    /\ nvs' = Written(nvs, new, SavedKeys)
    /\ torn' = FALSE
    /\ post' = "ram1"
    /\ UNCHANGED <<power, ram, old, new, acked, posts, queueExists, queue, taskExists,
                   applyVars, routeVars, httpVars, wifiVars, envVars>>

\* The struct is copied without a lock: a reader may come between two words.
CopyFirstWord ==
    /\ post = "ram1"
    /\ ram' = Written(ram, new, FirstWord)
    /\ post' = "ram2"
    /\ UNCHANGED <<power, nvs, torn, old, new, acked, posts, queueExists, queue, taskExists,
                   applyVars, routeVars, httpVars, wifiVars, envVars>>

CopyRest ==
    /\ post = "ram2"
    /\ ram' = new
    /\ post' = "queue"
    /\ UNCHANGED <<power, nvs, torn, old, new, acked, posts, queueExists, queue, taskExists,
                   applyVars, routeVars, httpVars, wifiVars, envVars>>

ApplyReq == [web |-> new.web # old.web, wifi |-> new.ssid # old.ssid]

StartInline == /\ pc' = [pc EXCEPT !["httpd"] = "check"]
               /\ req' = [req EXCEPT !["httpd"] = ApplyReq]
               /\ UNCHANGED rec

\* The answer is sent before anything is applied.
AnswerAndQueue ==
    /\ post = "queue"
    /\ acked' = new
    /\ \/ queueExists /\ queue' = ApplyReq /\ post' = "ensure" /\ UNCHANGED applyVars
       \/ ~queueExists /\ StartInline /\ post' = "inlineFirst" /\ UNCHANGED queue
    /\ UNCHANGED <<power, saveVars, old, new, posts, queueExists, taskExists,
                   routeVars, httpVars, wifiVars, envVars>>

\* Mutant: a handler that cannot create the task leaves it at that.
NoInline == UNCHANGED applyVars /\ post' = "idle"

\* What a handler does that cannot create the task.
InlineFallback == StartInline /\ post' = "inline"

\* Mutant: the task is created whether there is one or not, and the request
\* is applied here as well.
EnsureTaskAlways ==
    /\ post = "ensure"
    /\ taskExists' = TRUE /\ InlineFallback
    /\ UNCHANGED <<power, saveVars, old, new, acked, posts, queueExists, queue,
                   routeVars, httpVars, wifiVars, envVars>>

EnsureTask ==
    /\ post = "ensure"
    /\ \/ taskExists /\ post' = "idle" /\ UNCHANGED <<taskExists, applyVars, faults>>
       \/ ~taskExists /\ taskExists' = TRUE /\ post' = "idle" /\ UNCHANGED <<applyVars, faults>>
       \/ ~taskExists /\ Fault /\ InlineFallback /\ UNCHANGED taskExists
    /\ UNCHANGED <<power, saveVars, old, new, acked, posts, queueExists, queue,
                   routeVars, httpVars, wifiVars, ap>>

InlineDone ==
    /\ post \in {"inlineFirst", "inline"}
    /\ pc["httpd"] = "wait"
    /\ post' = IF post = "inlineFirst" THEN "ensure" ELSE "idle"
    /\ UNCHANGED <<power, saveVars, old, new, acked, posts, queueExists, queue, taskExists,
                   applyVars, routeVars, httpVars, wifiVars, envVars>>

Handler ==
    \/ SaveDone \/ CopyFirstWord \/ CopyRest
    \/ AnswerAndQueue \/ EnsureTask \/ InlineDone

-----------------------------------------------------------------------------
(* settingsApplyTask and applyRuntimeSettings.                             *)

Goto(a, place) == pc' = [pc EXCEPT ![a] = place]

Receive ==
    /\ taskExists /\ queueExists /\ pc["task"] = "wait" /\ queue # Absent
    /\ req' = [req EXCEPT !["task"] = queue]
    /\ queue' = Absent
    /\ Goto("task", "delay")
    /\ UNCHANGED <<power, saveVars, postVars, queueExists, taskExists, rec,
                   routeVars, httpVars, wifiVars, envVars>>

Delay ==
    /\ pc["task"] = "delay"
    /\ Goto("task", "check")
    /\ UNCHANGED <<power, saveVars, postVars, queueExists, queue, taskExists, req, rec,
                   routeVars, httpVars, wifiVars, envVars>>

\* workingModesApplyRuntimeSettings: only a started bridge mode that is still
\* wanted is applied; a mode is never switched.
CheckMode(a) ==
    /\ pc[a] = "check"
    /\ Goto(a, IF modeStarted /\ ram.mode = runningMode /\ runningMode = Bridge
               THEN "stop" ELSE "wifi")
    /\ UNCHANGED <<power, saveVars, postVars, queueExists, queue, taskExists, req, rec,
                   routeVars, httpVars, wifiVars, envVars>>

\* Mutant: the route is started from the settings the handler replaced.
SnapshotOld == old

\* applyBridgeRuntimeSettings reads the settings again ...
Snapshot == ram

\* ... and stops the route.
StopRoute(a) ==
    /\ pc[a] = "stop"
    /\ rec' = [rec EXCEPT ![a] = Snapshot]
    /\ running' = Absent
    /\ Goto(a, "rs")
    /\ UNCHANGED <<power, saveVars, postVars, queueExists, queue, taskExists, req,
                   modeStarted, runningMode, startFailed, rs, can,
                   httpVars, wifiVars, envVars>>

\* rs485Reinit and canReinit each read the settings for themselves.
Rs485Reinit(a) ==
    /\ pc[a] = "rs"
    /\ rs' = ram
    /\ Goto(a, "can")
    /\ UNCHANGED <<power, saveVars, postVars, queueExists, queue, taskExists, req, rec,
                   modeStarted, runningMode, running, startFailed, can,
                   httpVars, wifiVars, envVars>>

CanReinit(a) ==
    /\ pc[a] = "can"
    /\ can' = ram
    /\ Goto(a, "start")
    /\ UNCHANGED <<power, saveVars, postVars, queueExists, queue, taskExists, req, rec,
                   modeStarted, runningMode, running, startFailed, rs,
                   httpVars, wifiVars, envVars>>

StartRoute(a) ==
    /\ pc[a] = "start"
    /\ \/ running' = rec[a] /\ startFailed' = FALSE /\ UNCHANGED faults
       \/ Fault /\ running' = Absent /\ startFailed' = TRUE
    /\ Goto(a, "wifi")
    /\ UNCHANGED <<power, saveVars, postVars, queueExists, queue, taskExists, req, rec,
                   modeStarted, runningMode, rs, can, httpVars, wifiVars, ap>>

Retried == IF tries < MaxRetry THEN tries + 1 ELSE tries

\* wifiApplyRuntimeSettings: the disconnect is seen by wifiEventHandler too.
ReconfigureWifi(a) ==
    /\ pc[a] = "wifi"
    /\ \/ /\ req[a].wifi
          /\ wifiCfg' = ram.ssid
          /\ wifi' = "connecting"
          /\ tries' = IF wifi = "down" THEN tries ELSE Retried
       \/ ~req[a].wifi /\ UNCHANGED wifiVars
    /\ Goto(a, IF req[a].web THEN "web" ELSE "wait")
    /\ UNCHANGED <<power, saveVars, postVars, queueExists, queue, taskExists, req, rec,
                   routeVars, httpVars, envVars>>

\* httpd_stop waits for the httpd task to leave its handler; called from the
\* handler itself it waits for good.
StopWeb(a) ==
    /\ pc[a] = "web"
    /\ \/ a = "httpd" /\ http' = "hung" /\ Goto(a, "hung")
       \/ a = "task" /\ http = "down" /\ Goto(a, "startWeb") /\ UNCHANGED http
       \/ a = "task" /\ http = "up" /\ post = "idle" /\ http' = "down" /\ Goto(a, "startWeb")
    /\ UNCHANGED <<power, saveVars, postVars, queueExists, queue, taskExists, req, rec,
                   routeVars, httpPort, wifiVars, envVars>>

StartWeb(a) ==
    /\ pc[a] = "startWeb"
    /\ \/ http' = "up" /\ httpPort' = ram.web /\ UNCHANGED faults
       \/ Fault /\ UNCHANGED httpVars
    /\ Goto(a, "wait")
    /\ UNCHANGED <<power, saveVars, postVars, queueExists, queue, taskExists, req, rec,
                   routeVars, wifiVars, ap>>

Apply(a) ==
    \/ CheckMode(a) \/ StopRoute(a) \/ Rs485Reinit(a) \/ CanReinit(a) \/ StartRoute(a)
    \/ ReconfigureWifi(a) \/ StopWeb(a) \/ StartWeb(a)

-----------------------------------------------------------------------------
(* wifiEventHandler.                                                       *)

GotIp ==
    /\ power = "on" /\ wifi = "connecting" /\ wifiCfg \in ap
    /\ wifi' = "connected"
    /\ tries' = 0
    /\ UNCHANGED <<power, saveVars, postVars, queueExists, queue, taskExists, applyVars,
                   routeVars, httpVars, wifiCfg, envVars>>

\* An attempt failed or the network went; after MaxRetry retries in a row the
\* station gives up, until the settings are applied or the device boots.
Disconnected ==
    /\ power = "on" /\ wifi # "down" /\ wifiCfg \notin ap
    /\ wifi' = IF tries < MaxRetry THEN "connecting" ELSE "down"
    /\ tries' = Retried
    /\ UNCHANGED <<power, saveVars, postVars, queueExists, queue, taskExists, applyVars,
                   routeVars, httpVars, wifiCfg, envVars>>

NetworkLost(n) == /\ n \in ap /\ Fault /\ ap' = ap \ {n}
                  /\ UNCHANGED <<power, saveVars, postVars, queueExists, queue, taskExists,
                                 applyVars, routeVars, httpVars, wifiVars>>

NetworkBack(n) == /\ n \notin ap /\ ap' = ap \cup {n}
                  /\ UNCHANGED <<power, saveVars, postVars, queueExists, queue, taskExists,
                                 applyVars, routeVars, httpVars, wifiVars, faults>>

-----------------------------------------------------------------------------
(* Crash and boot.                                                         *)

\* Power loss, a failed ESP_ERROR_CHECK (as in canReinit), or the assertion of
\* xQueueReceive when the task was created without a queue.
Reset ==
    /\ power' = "off"
    /\ \/ post # "nvs" /\ UNCHANGED nvs
       \/ post = "nvs" /\ \E F \in SUBSET Fields : nvs' = Written(nvs, new, F)
    /\ post' = "idle" /\ acked' = Absent
    /\ queue' = Absent /\ queueExists' = FALSE /\ taskExists' = FALSE
    /\ pc' = [a \in Actors |-> "wait"] /\ req' = [a \in Actors |-> NoRequest]
    /\ modeStarted' = FALSE /\ running' = Absent /\ startFailed' = FALSE
    /\ http' = "down" /\ wifi' = "down" /\ tries' = 0
    /\ ram' = Default
    /\ UNCHANGED <<torn, old, new, posts, rec, runningMode, rs, can, httpPort, wifiCfg, ap>>

Crash == power = "on" /\ Fault /\ Reset

NullQueue == power = "on" /\ taskExists /\ ~queueExists /\ Reset /\ UNCHANGED faults

\* app_main: the drivers, then the mode.
StartMode(startOk) ==
    /\ rs' = ram' /\ can' = ram'
    /\ modeStarted' = startOk
    /\ runningMode' = IF startOk THEN ram'.mode ELSE Bridge
    /\ running' = IF startOk /\ ram'.mode = Bridge THEN ram' ELSE Absent
    /\ startFailed' = FALSE

\* webInterfaceTask: the queue, the task, the station, the server.
StartWebInterface(queueOk, taskOk, webOk) ==
    /\ queueExists' = queueOk
    /\ taskExists' = (queueOk /\ taskOk)
    /\ wifi' = "connecting" /\ wifiCfg' = ram'.ssid /\ tries' = 0
    /\ http' = IF webOk THEN "up" ELSE "down"
    /\ httpPort' = ram'.web

\* Flash that cannot be initialised is erased.
Boot ==
    /\ power = "off" /\ power' = "on"
    /\ \E erase, startOk, queueOk, taskOk, webOk \in BOOLEAN :
        /\ IF startOk /\ queueOk /\ taskOk /\ webOk /\ ~erase
           THEN UNCHANGED faults
           ELSE Fault
        /\ nvs' = IF erase THEN [f \in Fields |-> Absent] ELSE nvs
        /\ torn' = FALSE
        /\ ram' = Loaded(nvs')
        /\ StartMode(startOk)
        /\ StartWebInterface(queueOk, taskOk, webOk)
    /\ UNCHANGED <<postVars, queue, applyVars, ap>>

-----------------------------------------------------------------------------

\* A device that was never set up, before its first boot.
Init ==
    /\ power = "off"
    /\ nvs = [f \in Fields |-> Absent] /\ torn = FALSE /\ ram = Default
    /\ post = "idle" /\ old = Default /\ new = Default /\ acked = Absent
    /\ queueExists = FALSE /\ queue = Absent /\ taskExists = FALSE
    /\ pc = [a \in Actors |-> "wait"] /\ req = [a \in Actors |-> NoRequest]
    /\ rec = [a \in Actors |-> Default]
    /\ modeStarted = FALSE /\ runningMode = Bridge /\ running = Absent /\ startFailed = FALSE
    /\ rs = Default /\ can = Default
    /\ http = "down" /\ httpPort = Default.web
    /\ wifi = "down" /\ wifiCfg = Default.ssid /\ tries = 0 /\ ap = Ssids
    /\ posts = 0 /\ faults = 0

Next ==
    \/ \E s \in Posts : Post(s)
    \/ \E F \in SUBSET Fields : SaveFails(F)
    \/ Handler
    \/ Receive \/ Delay
    \/ \E a \in Actors : Apply(a)
    \/ GotIp \/ Disconnected
    \/ \E n \in Ssids : NetworkLost(n) \/ NetworkBack(n)
    \/ Crash \/ NullQueue \/ Boot

\* Boot, the tasks and the Wi-Fi driver run; nobody has to post anything, and
\* nothing has to fail.
Fairness ==
    /\ WF_vars(Boot) /\ WF_vars(Handler) /\ WF_vars(Receive \/ Delay)
    /\ \A a \in Actors : WF_vars(Apply(a))
    /\ WF_vars(GotIp) /\ WF_vars(Disconnected)

Spec == Init /\ [][Next]_vars /\ Fairness

-----------------------------------------------------------------------------
(* Properties.                                                             *)

\* orchestratorStart and orchestratorStop take no lock: the task and a handler
\* that applies the settings itself are never at it at the same time.
OneApplier == ~(AtWork("task") /\ AtWork("httpd"))

\* Nothing is saved, queued or applied.
Settled ==
    /\ power = "on" /\ post = "idle" /\ \A a \in Actors : ~AtWork(a)
    /\ taskExists => queue = Absent

\* However the saves and the four separate reads of one apply interleave,
\* in the end the route and both drivers are those of one record, the saved
\* one (or the start failed), as long as the mode is not another one.
RouteSettles ==
    Settled /\ modeStarted /\ runningMode = Bridge /\ ram.mode = Bridge =>
        /\ rs = ram /\ can = ram
        /\ running = ram \/ startFailed

\* validateSettings is passed again at boot: what a cut or failed save left in
\* flash never becomes settings that a POST would have been refused for.
SettingsAreValid == power = "on" /\ post # "ram2" => ram \in Valid

\* A reboot changes nothing: outside of a save, flash holds what the memory
\* holds, also after a boot that found what a crash had left of a save, or after
\* a save that could not begin. The exception is a save that failed half way: its
\* keys wait in flash for the next boot, until another one is done.
RebootKeepsSettings ==
    power = "on" /\ ~torn /\ post \notin {"ram1", "ram2"} => Loaded(nvs) = ram

\* "Saved and applied": a record so answered, if it keeps the running bridge
\* mode, comes to run, or its start fails, or another answer follows, or the
\* device resets.
SavedIsApplied ==
    \A s \in Posts :
        (acked = s /\ s.mode = Bridge /\ runningMode = Bridge /\ modeStarted)
            ~> (running = s \/ startFailed \/ acked # s)

=============================================================================
