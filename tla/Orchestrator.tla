---------------------------- MODULE Orchestrator ----------------------------
(***************************************************************************)
(* The bridge control task: it stops the running route (orchestratorStop), *)
(* then starts the one the settings select (orchestratorStartFromRuntime), *)
(* one call of the route's program at a time, with every failure path.     *)
(* Between two of its calls the tasks that are alive keep publishing to    *)
(* the shared battery model and filling the CAN decoder caches.            *)
(*                                                                         *)
(* There is one control task: app_main at boot, then the settings-apply    *)
(* task through workingModesApplyRuntimeSettings.                          *)
(***************************************************************************)
EXTENDS RoutePrograms

VARIABLES
    modeStarted,  \* s_modeStarted of mode_manager.c
    phase,        \* what the control task is executing
    pc,           \* the call it executes next
    cfg,          \* the settings snapshot of the last start
    result,       \* esp_err_t of that start
    toStop,       \* tasks a failure path still has to stop ...
    resets,       \* ... and whether it then resets the queues
    running,      \* tasks whose handle is set
    held,         \* the queue handles each task works on
    ctx,          \* the queue fields of g_orchestratorCtx
    active,       \* g_orchestratorCtx.canRs485TranslatorActive
    live,         \* queues allocated and not deleted
    model,        \* who wrote the battery model, under which configuration
    canCache      \* CAN decoder caches: "empty", "current" or "previous"

controlVars == <<modeStarted, phase, pc, cfg, result, toStop, resets>>
taskVars    == <<running, held, ctx, active, live>>
dataVars    == <<model, canCache>>
vars        == <<controlVars, taskVars, dataVars>>

NoModel  == [by |-> "none", age |-> "none"]
Ages     == {"current", "previous"}

Phases  == {"idle", "stopping", "starting", "undoing", "secondary", "aborting"}
Results == {"none", "ok", "failed", "already_running"}

ControlType ==
    /\ modeStarted \in BOOLEAN
    /\ phase \in Phases
    /\ pc \in Nat \ {0}
    /\ cfg \in Configs \cup {NoConfig}
    /\ phase \in {"starting", "undoing", "secondary"} => cfg \in Configs
    /\ result \in Results
    /\ toStop \in SUBSET Tasks
    /\ resets \in BOOLEAN

TaskType ==
    /\ running \in SUBSET Tasks
    /\ held \in [QueueTasks -> SUBSET Handles]
    /\ ctx \in [Slots -> Handles \cup {NULL}]
    /\ active \in BOOLEAN
    /\ live \in SUBSET Handles

DataType ==
    /\ model \in [by : Publishers, age : Ages] \cup {NoModel}
    /\ canCache \in {"empty"} \cup Ages

TypeOK == ControlType /\ TaskType /\ DataType

EmptyCtx == [slot \in Slots |-> NULL]

\* Boot: workingModesStart has called applyBridgeRuntimeSettings, which
\* begins with orchestratorStop.
Init ==
    /\ modeStarted = FALSE
    /\ phase = "stopping"
    /\ pc = 1
    /\ cfg = NoConfig
    /\ result = "none"
    /\ toStop = {}
    /\ resets = FALSE
    /\ running = {}
    /\ held = [t \in QueueTasks |-> {}]
    /\ ctx = EmptyCtx
    /\ active = FALSE
    /\ live = {}
    /\ model = NoModel
    /\ canCache = "empty"

-----------------------------------------------------------------------------
(* The control task's position.                                            *)

Stopping == phase \in {"stopping", "aborting"}
Starting == phase \in {"starting", "secondary"}

StartScript == IF phase = "starting" THEN Programs[cfg] ELSE SecondaryPrograms[cfg]

CallsLeft == IF Starting THEN pc <= Len(StartScript)
                         ELSE Stopping /\ pc <= Len(StopScript)

CurrentCall == IF Starting THEN StartScript[pc].call ELSE StopScript[pc]

At(op) == CallsLeft /\ CurrentCall.op = op

Advance ==
    /\ pc' = pc + 1
    /\ UNCHANGED <<modeStarted, phase, cfg, result, toStop, resets>>

CtxHandles == {ctx[slot] : slot \in Slots} \ {NULL}

\* A poller started by startSecondaryBmsTask has publishBatteryModel FALSE.
TelemetryOnly(t) == t \in QueueTasks /\ ctx["sec"] \in held[t]

\* What a new configuration makes of data written before it.
Aged(age) == IF age = "current" THEN "previous" ELSE age

-----------------------------------------------------------------------------
(* Calls that always succeed.                                              *)

MemsetCtx ==
    /\ At("memset")
    /\ ctx' = EmptyCtx
    /\ active' = FALSE
    /\ Advance
    /\ UNCHANGED <<running, held, live, dataVars>>

CanDecoderResetCaches ==
    /\ At("caches")
    /\ canCache' = "empty"
    /\ Advance
    /\ UNCHANGED <<taskVars, model>>

SetActive ==
    /\ \/ At("activate") /\ active' = TRUE
       \/ At("deactivate") /\ active' = FALSE
    /\ Advance
    /\ UNCHANGED <<running, held, ctx, live, dataVars>>

\* Void: a task xTaskCreate could not create is missing without an error.
PylonRs485BridgeEnable ==
    /\ At("bridge")
    /\ \E created \in SUBSET PylonTasksOf[cfg] :
           running' = (running \ PylonTasks) \cup created
    /\ Advance
    /\ UNCHANGED <<held, ctx, active, live, dataVars>>

CanForwardSnifferStart ==
    /\ At("forwarder")
    /\ \E created \in SUBSET ForwarderTasksOf[cfg] :
           running' = (running \ ForwarderTasks) \cup created
    /\ Advance
    /\ UNCHANGED <<held, ctx, active, live, dataVars>>

\* vTaskDelete; the stop functions of most pollers then clear the model,
\* those of a task that does not run return at once.
ModelAfterStop(t) ==
    IF t \in running /\ t \in ClearOnStop /\ ~TelemetryOnly(t) THEN NoModel ELSE model

HeldAfterStop(t) == [u \in QueueTasks |-> IF u = t THEN {} ELSE held[u]]

TaskStop ==
    /\ At("stop")
    /\ LET t == CurrentCall.arg
       IN  /\ model' = ModelAfterStop(t)
           /\ running' = running \ {t}
           /\ held' = HeldAfterStop(t)
    /\ Advance
    /\ UNCHANGED <<ctx, active, live, canCache>>

OrchestratorReset ==
    /\ At("reset")
    /\ live' = live \ CtxHandles
    /\ ctx' = EmptyCtx
    /\ Advance
    /\ UNCHANGED <<running, held, active, dataVars>>

-----------------------------------------------------------------------------
(* Calls that may fail.                                                    *)

CreateQueue ==
    /\ At("create")
    /\ \E h \in Handles \ live :
           /\ live' = live \cup {h}
           /\ ctx' = [ctx EXCEPT ![CurrentCall.arg] = h]
    /\ Advance
    /\ UNCHANGED <<running, held, active, dataVars>>

\* Mutant: the publish flag tested the wrong way round.
ClearsOnSecondaryStart(t) == t \in Pollers /\ phase = "secondary"

\* The publishing pollers clear the model before they create their task.
ClearsOnStart(t) == t \in Pollers /\ phase = "starting"

TaskStart ==
    /\ At("start")
    /\ LET t == CurrentCall.arg
           queues == {ctx[slot] : slot \in CurrentCall.slots}
       IN  /\ t \notin running          \* else ESP_ERR_INVALID_STATE
           /\ NULL \notin queues        \* else ESP_ERR_INVALID_ARG
           /\ running' = running \cup {t}
           /\ held' = [u \in QueueTasks |-> IF u = t THEN queues ELSE held[u]]
           /\ model' = IF ClearsOnStart(t) THEN NoModel ELSE model
    /\ Advance
    /\ UNCHANGED <<ctx, active, live, canCache>>

\* Mutant: the error code of a start function is not looked at.
FailPrimaryIgnored ==
    /\ phase = "starting"
    /\ At("create") \/ At("start")
    /\ Advance
    /\ UNCHANGED <<taskVars, dataVars>>

\* A queue or a task cannot be created, or the CAN port of the Daly poller
\* cannot be reopened; the caller's failure path begins.
FailPrimary ==
    /\ phase = "starting"
    /\ At("create") \/ At("start")
    /\ phase' = "undoing"
    /\ toStop' = StartScript[pc].undo.stop
    /\ resets' = StartScript[pc].undo.reset
    /\ result' = "failed"
    /\ \/ model' = model
       \/ At("start") /\ ClearsOnStart(CurrentCall.arg) /\ model' = NoModel
    /\ UNCHANGED <<modeStarted, pc, cfg, taskVars, canCache>>

\* startSecondaryBmsTask deletes its own queue, then the whole route goes.
FailSecondary ==
    /\ phase = "secondary"
    /\ At("create") \/ At("start")
    /\ live' = live \ {ctx["sec"]}
    /\ ctx' = [ctx EXCEPT !["sec"] = NULL]
    /\ phase' = "aborting"
    /\ pc' = 1
    /\ result' = "failed"
    /\ UNCHANGED <<modeStarted, cfg, toStop, resets, running, held, active, dataVars>>

\* The failure path stops tasks (in an order left open here) ...
UndoStop(t) ==
    /\ phase = "undoing"
    /\ t \in toStop
    /\ toStop' = toStop \ {t}
    /\ model' = ModelAfterStop(t)
    /\ running' = running \ {t}
    /\ held' = HeldAfterStop(t)
    /\ UNCHANGED <<modeStarted, phase, pc, cfg, result, resets,
                   ctx, active, live, canCache>>

\* Mutant: the failed start is tried again at once.
UndoReturnRetries ==
    /\ phase = "undoing"
    /\ toStop = {}
    /\ live' = IF resets THEN live \ CtxHandles ELSE live
    /\ ctx' = IF resets THEN EmptyCtx ELSE ctx
    /\ phase' = "starting"
    /\ pc' = 1
    /\ resets' = FALSE
    /\ UNCHANGED <<modeStarted, cfg, result, toStop, running, held, active, dataVars>>

\* ... then resets the queues, if it does, and returns the error.
UndoReturn ==
    /\ phase = "undoing"
    /\ toStop = {}
    /\ live' = IF resets THEN live \ CtxHandles ELSE live
    /\ ctx' = IF resets THEN EmptyCtx ELSE ctx
    /\ phase' = "idle"
    /\ resets' = FALSE
    /\ UNCHANGED <<modeStarted, pc, cfg, result, toStop, running, held, active, dataVars>>

-----------------------------------------------------------------------------
(* From one script to the next.                                            *)

\* applyBridgeRuntimeSettings after orchestratorStop.  The code takes the
\* snapshot before the stop and uses it only here.
BeginStart(s) ==
    /\ phase = "stopping"
    /\ ~CallsLeft
    /\ cfg' = s
    /\ pc' = 1
    /\ IF "orchestrator" \in running \/ active
       THEN phase' = "idle" /\ result' = "already_running"
       ELSE phase' = "starting" /\ result' = "none"
    /\ model' = [model EXCEPT !.age = Aged(@)]
    /\ canCache' = Aged(canCache)
    /\ UNCHANGED <<modeStarted, toStop, resets, taskVars>>

PrimaryStarted ==
    /\ phase = "starting"
    /\ ~CallsLeft
    /\ phase' = "secondary"
    /\ pc' = 1
    /\ UNCHANGED <<modeStarted, cfg, result, toStop, resets, taskVars, dataVars>>

\* workingModesStart sets s_modeStarted only on success; later applies find
\* it set.
StartReturns ==
    /\ phase = "secondary"
    /\ ~CallsLeft
    /\ phase' = "idle"
    /\ result' = "ok"
    /\ modeStarted' = TRUE
    /\ UNCHANGED <<pc, cfg, toStop, resets, taskVars, dataVars>>

AbortReturns ==
    /\ phase = "aborting"
    /\ ~CallsLeft
    /\ phase' = "idle"
    /\ UNCHANGED <<modeStarted, pc, cfg, result, toStop, resets, taskVars, dataVars>>

\* workingModesApplyRuntimeSettings: ESP_ERR_INVALID_STATE unless started.
ApplyRequest ==
    /\ phase = "idle"
    /\ modeStarted
    /\ phase' = "stopping"
    /\ pc' = 1
    /\ UNCHANGED <<modeStarted, cfg, result, toStop, resets, taskVars, dataVars>>

Control ==
    \/ MemsetCtx \/ CanDecoderResetCaches \/ SetActive \/ TaskStop
    \/ PylonRs485BridgeEnable \/ CanForwardSnifferStart \/ OrchestratorReset
    \/ CreateQueue \/ TaskStart \/ FailPrimary \/ FailSecondary
    \/ \E t \in Tasks : UndoStop(t)
    \/ UndoReturn \/ PrimaryStarted \/ StartReturns \/ AbortReturns
    \/ \E s \in Configs : BeginStart(s)

-----------------------------------------------------------------------------
(* The running tasks, between any two calls of the control task.           *)

\* batteryModelSet.  The inverter side of the Pylon bridge republishes a
\* Pylon RS485 summary, as the settings it reads again demand: those of the
\* next route as soon as an apply is under way.
Publish(t) ==
    /\ t \in running \cap Publishers
    /\ ~TelemetryOnly(t)
    /\ t = "pylonInvRx" => phase = "stopping" \/ PylonPassthroughMode(cfg)
    /\ model' = [by |-> t, age |-> "current"]
    /\ UNCHANGED <<controlVars, taskVars, canCache>>

\* A task finds its own source silent and calls batteryModelClear.
SourceStale(t) ==
    /\ t \in (running \cap Publishers) \ {"pylonInvRx"}
    /\ ~TelemetryOnly(t)
    /\ model' = NoModel
    /\ UNCHANGED <<controlVars, taskVars, canCache>>

\* canDecoderOnFrame: every frame is cached.
CanFrame(t) ==
    /\ t \in running \cap FrameDecoders
    /\ canCache' = "current"
    /\ UNCHANGED <<controlVars, taskVars, model>>

Environment ==
    \/ ApplyRequest
    \/ \E t \in Tasks : Publish(t) \/ SourceStale(t) \/ CanFrame(t)

Next == Control \/ Environment

Spec == Init /\ [][Next]_vars /\ WF_vars(Control)

-----------------------------------------------------------------------------
(* Properties.                                                             *)

\* No task works on a queue that vQueueDelete has freed: every path that
\* deletes queues has first deleted the tasks started on them.
NoDanglingQueue == \A t \in running \cap QueueTasks : held[t] \subseteq live

\* No queue is leaked: every allocated queue is still reachable from
\* g_orchestratorCtx, whose memsets would otherwise forget it.
NoQueueLeak == live = CtxHandles

\* A start that fails outside the generic orchestratorStart (which keeps the
\* BMS task on purpose) leaves no task running and no queue allocated.
FailedStartLeavesNothing ==
    phase = "idle" /\ result = "failed" /\ Route(cfg) # "generic"
        => running = {} /\ live = {}

\* A start function never finds its task already running, or its queue
\* missing: ESP_ERR_INVALID_STATE and ESP_ERR_INVALID_ARG never come up.
StartFindsTaskStopped ==
    /\ result # "already_running"
    /\ At("start") => /\ CurrentCall.arg \notin running
                      /\ \A slot \in CurrentCall.slots : ctx[slot] # NULL

\* ESP_OK means that every task started with a checked call is running.
OkMeansStarted ==
    phase = "idle" /\ result = "ok"
        => Started(Programs[cfg]) \cup Started(SecondaryPrograms[cfg]) \subseteq running

\* While a route starts or runs, the CAN decoder caches hold no frame of an
\* earlier configuration: they are reset after every task that fills them
\* has been stopped.
CacheIsOfThisRoute ==
    phase \in {"starting", "secondary", "idle"} => canCache # "previous"

\* Once a route with a poller as its source is up, the battery model its
\* responders and senders read was written by that poller, under this
\* configuration.
PrimaryPollers(s) == Started(Programs[s]) \cap Pollers

PollerModelIsOwn ==
    phase = "idle" /\ result = "ok" /\ PrimaryPollers(cfg) # {}
        => \/ model = NoModel
           \/ model.age = "current" /\ model.by \in PrimaryPollers(cfg)

\* The calls above implement the promise of RouteLifecycle.
Calls(s, op) == \E i \in DOMAIN Programs[s] : Programs[s][i].call.op = op

CheckedTasks(s) == Started(Programs[s]) \cup Started(SecondaryPrograms[s])

RouteTasks(s) ==
    CheckedTasks(s) \cup {t \in PylonTasksOf[s] : Calls(s, "bridge")}
                    \cup {t \in ForwarderTasksOf[s] : Calls(s, "forwarder")}

Stage ==
    CASE phase = "stopping"                  -> "quiescing"
      [] phase \in {"starting", "secondary"} -> "raising"
      [] phase \in {"undoing", "aborting"}   -> "lowering"
      [] phase = "idle" /\ result = "ok"     -> "up"
      [] OTHER                               -> IF running = {} THEN "down" ELSE "stranded"

Lifecycle ==
    INSTANCE RouteLifecycle WITH
        Routes    <- Configs,
        Members   <- RouteTasks,
        Required  <- CheckedTasks,
        MayStrand <- LAMBDA s : Route(s) = "generic",
        stage     <- Stage,
        route     <- cfg,
        serving   <- running

ImplementsLifecycle == Lifecycle!Spec

\* With two BMSs configured, the primary BMS is the only source of the shared
\* battery model (docs/dual_bms.md:4-6): it holds nothing a task outside the
\* primary route wrote.
DualModelIsPrimary ==
    phase = "idle" /\ result = "ok" /\ cfg.dual_bms /\ model # NoModel
        => model.by \in RouteTasks(cfg) \ {SecondaryTask(cfg)}

\* Every start and every apply returns.
ControlReturns == phase # "idle" ~> phase = "idle"
=============================================================================
