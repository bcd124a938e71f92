--------------------------- MODULE RoutePrograms ---------------------------
(***************************************************************************)
(* What orchestrator.c does to start and to stop a bridge route, as data:  *)
(* the tasks, and for every route the calls its branch makes, in order,    *)
(* each with what the branch undoes when the call fails.  Orchestrator.tla *)
(* executes these programs.                                                *)
(***************************************************************************)
EXTENDS RouteSelection, Sequences

CONSTANTS
    Configs,      \* the runtime settings the bridge may be asked to run
    Handles,      \* the queue handles xQueueCreate can return
    NULL,
    NoConfig      \* no route has been started yet

ASSUME ConfigsAssumption ==
    \A s \in Configs : s \in Settings /\ ValidSettings(s) /\ s.mode = "BRIDGE"

ASSUME HandlesAssumption == NULL \notin Handles /\ NoConfig \notin Configs

-----------------------------------------------------------------------------
(* Tasks, each a static handle of its file (NULL = not running).           *)

Pollers ==
    {"growattBms", "jkbmsModbus", "jkbmsNative", "pace", "voltronic",
     "chinaTower", "wow", "seplos", "dalyRs485", "dalyCan"}

\* Tasks that keep the queue handle they were started with.
QueueTasks == Pollers \cup {"pylonBms", "growattInv", "pylonInv", "orchestrator"}

Responders     == {"canRsGrowatt", "modelRsGrowatt"}
PylonTasks     == {"pylonBmsRx", "pylonInvRx", "pylonProbe"}
ForwarderTasks == {"canTaskA", "canTaskB", "canSnapshot"}
Tasks          == QueueTasks \cup Responders \cup PylonTasks \cup ForwarderTasks

\* Tasks that feed canDecoderOnFrame, and through it caches and model.
FrameDecoders == {"canTaskA", "canTaskB", "canRsGrowatt"}

\* Every task that calls batteryModelSet (the Pylon BMS scaffold does not).
Publishers == Pollers \cup FrameDecoders \cup {"canSnapshot", "pylonBmsRx", "pylonInvRx"}

\* The pollers whose TaskStop ends with batteryModelClear.
ClearOnStop == Pollers \ {"dalyRs485", "dalyCan"}

Slots == {"bms", "inv", "sec"}   \* bmsQueue, inverterQueue, secondaryBmsQueue

-----------------------------------------------------------------------------
(* Programs.  A call is an operation, the task or slot it concerns and the *)
(* slots whose handles a started task keeps.  "undo" names the tasks the   *)
(* failure path stops, and whether it then calls orchestratorReset.        *)

Call(op, arg, slots) == [op |-> op, arg |-> arg, slots |-> slots]

Keep        == [stop |-> {}, reset |-> FALSE]
Reset       == [stop |-> {}, reset |-> TRUE]
Drop(tasks) == [stop |-> tasks, reset |-> TRUE]

Memset           == [call |-> Call("memset", "none", {}), undo |-> Keep]
ResetCaches      == [call |-> Call("caches", "none", {}), undo |-> Keep]
EnablePylon      == [call |-> Call("bridge", "none", {}), undo |-> Keep]
StartForwarder   == [call |-> Call("forwarder", "none", {}), undo |-> Keep]
Activate         == [call |-> Call("activate", "none", {}), undo |-> Keep]
Create(slot, u)  == [call |-> Call("create", slot, {}), undo |-> u]
Spawn(t, ss, u)  == [call |-> Call("start", t, ss), undo |-> u]

JkbmsTasks == {"jkbmsModbus", "jkbmsNative"}

\* Mutant: the native protocol polled by the Modbus task.
JkbmsPollerModbusOnly(p) == IF IsJkbmsRs485Protocol(p) THEN "jkbmsModbus" ELSE "jkbmsNative"

JkbmsPoller(p) == IF p = "RS485_JKBMS_NATIVE" THEN "jkbmsNative" ELSE "jkbmsModbus"

CanToRsGrowattProgram == <<Spawn("canRsGrowatt", {}, Keep), Activate>>

\* Pylon RS485 source, Growatt RS485 responder on the battery model.
RsPylonToRsGrowattProgram ==
    <<Memset, ResetCaches, EnablePylon,
      Spawn("modelRsGrowatt", {}, Drop(PylonTasks)), Activate>>

RsPylonToCanGrowattProgram ==
    <<Memset, Create("inv", Reset), ResetCaches, EnablePylon,
      Spawn("growattInv", {"inv"}, Drop(PylonTasks)), Activate>>

\* A poller into the model, the Growatt RS485 responder out of it.
ModelResponderProgram(poller, undoTasks) ==
    <<Memset, Create("bms", Reset), Spawn(poller, {"bms"}, Reset),
      Spawn("modelRsGrowatt", {}, Drop(undoTasks)), Activate>>

\* Mutant: the responder of the neighbouring branch.
RsJkbmsToCanGrowattResponder(poller) ==
    <<Memset, Create("bms", Reset), Spawn(poller, {"bms"}, Reset), ResetCaches,
      Spawn("modelRsGrowatt", {}, Drop(JkbmsTasks)), Activate>>

\* The JKBMS poller's queue is read directly by the CAN Growatt sender.
RsJkbmsToCanGrowattProgram(poller) ==
    <<Memset, Create("bms", Reset), Spawn(poller, {"bms"}, Reset), ResetCaches,
      Spawn("growattInv", {"bms"}, Drop(JkbmsTasks)), Activate>>

\* A poller into the model, the synthetic Pylon responder out of it.
PylonResponderProgram(poller) ==
    <<Memset, Create("bms", Reset), Spawn(poller, {"bms"}, Reset),
      EnablePylon, Activate>>

\* Mutant: the last failure path forgets the source task.
CanDalyToCanPylonForgetful ==
    <<Memset, Create("bms", Reset), Create("inv", Reset),
      Spawn("dalyCan", {"bms"}, Reset),
      Spawn("pylonInv", {"inv"}, Drop({"dalyCan"})),
      Spawn("orchestrator", {"bms", "inv"}, Drop({"pylonInv"}))>>

CanDalyToCanPylonProgram ==
    <<Memset, Create("bms", Reset), Create("inv", Reset),
      Spawn("dalyCan", {"bms"}, Reset),
      Spawn("pylonInv", {"inv"}, Drop({"dalyCan"})),
      Spawn("orchestrator", {"bms", "inv"}, Drop({"pylonInv", "dalyCan"}))>>

PassthroughProgram == <<Memset, ResetCaches, StartForwarder, Activate>>

PylonBridgeProgram == <<Memset, ResetCaches, EnablePylon, StartForwarder, Activate>>

PylonToCanProgram ==
    <<Memset, ResetCaches, EnablePylon, Create("inv", Drop(PylonTasks)),
      Spawn("pylonInv", {"inv"}, Drop(PylonTasks)), StartForwarder, Activate>>

\* orchestratorStart: once the BMS task runs, a failure keeps it and both
\* queues ("keeping queues alive to avoid invalid handles").
GenericProgram(bmsTask, inverterTask) ==
    <<Memset, Create("bms", Reset), Create("inv", Reset),
      Spawn(bmsTask, {"bms"}, Reset), Spawn(inverterTask, {"inv"}, Keep),
      Spawn("orchestrator", {"bms", "inv"}, Keep)>>

\* startBmsTask on the task family of the configured source.
GenericBmsTask(s) ==
    LET family == ProtocolIdFromUiProtocol(s.bms_protocol)
    IN  CASE family = "GROWATT"      -> "growattBms"
          [] family = "PYLON"        -> "pylonBms"
          [] family = "JKBMS"        -> "jkbmsModbus"
          [] family = "JKBMS_NATIVE" -> "jkbmsNative"
          [] family = "PACE"         -> "pace"
          [] family = "VOLTRONIC"    -> "voltronic"
          [] family = "CHINA_TOWER"  -> "chinaTower"
          [] family = "WOW"          -> "wow"
          [] family = "SEPLOS"       -> "seplos"
          [] family = "DALY"         -> IF s.bms_line = "CAN" THEN "dalyCan" ELSE "dalyRs485"

\* startInverterTask; a valid inverter protocol is never of another family.
GenericInverterTask(s) ==
    IF ProtocolIdFromUiProtocol(s.inverter_protocol) = "PYLON" THEN "pylonInv"
                                                               ELSE "growattInv"

Program(s) ==
    LET route == Route(s)
    IN  CASE route = "canToRsGrowatt"        -> CanToRsGrowattProgram
          [] route = "rsPylonToRsGrowatt"    -> RsPylonToRsGrowattProgram
          [] route = "rsPylonToCanGrowatt"   -> RsPylonToCanGrowattProgram
          [] route = "rsJkbmsToRsGrowatt"    ->
                 ModelResponderProgram(JkbmsPoller(s.bms_protocol), JkbmsTasks)
          [] route = "rsWowToRsGrowatt"      -> ModelResponderProgram("wow", {"wow"})
          [] route = "rsGrowattToRsGrowatt"  -> ModelResponderProgram("growattBms", {"growattBms"})
          [] route = "rsJkbmsToCanGrowatt"   -> RsJkbmsToCanGrowattProgram(JkbmsPoller(s.bms_protocol))
          [] route = "rsJkbmsToRsPylon"      -> PylonResponderProgram(JkbmsPoller(s.bms_protocol))
          [] route = "rsGrowattToRsPylon"    -> PylonResponderProgram("growattBms")
          [] route = "rsPaceToRsPylon"       -> PylonResponderProgram("pace")
          [] route = "rsVoltronicToRsPylon"  -> PylonResponderProgram("voltronic")
          [] route = "rsChinaTowerToRsPylon" -> PylonResponderProgram("chinaTower")
          [] route = "rsWowToRsPylon"        -> PylonResponderProgram("wow")
          [] route = "rsSeplosToRsPylon"     -> PylonResponderProgram("seplos")
          [] route = "rsDalyToRsPylon"       -> PylonResponderProgram("dalyRs485")
          [] route = "canDalyToRsPylon"      -> PylonResponderProgram("dalyCan")
          [] route = "canDalyToCanPylon"     -> CanDalyToCanPylonProgram
          [] route = "canDirectPassthrough"  -> PassthroughProgram
          [] route = "pylonRs485Route"       ->
                 IF s.inverter_line = "CAN" /\ s.inverter_protocol = "CAN_PYLON"
                 THEN PylonToCanProgram ELSE PylonBridgeProgram
          [] OTHER                           ->
                 GenericProgram(GenericBmsTask(s), GenericInverterTask(s))

\* startSecondaryBmsTask.
SecondaryTask(s) ==
    IF IsRs485JkbmsModbus(s.bms2_protocol) THEN "jkbmsModbus" ELSE "dalyRs485"

SecondaryProgram(s) ==
    IF s.dual_bms
    THEN <<Create("sec", Keep), Spawn(SecondaryTask(s), {"sec"}, Keep)>>
    ELSE <<>>

\* The tasks a program starts with a checked call.
Started(program) ==
    {program[i].call.arg : i \in {j \in DOMAIN program : program[j].call.op = "start"}}

\* orchestratorStop, in its order (clearTransportBuffers touches no state
\* modelled here).
Stop(t) == Call("stop", t, {})

\* Mutants: the queues deleted before their tasks, not deleted at all, the
\* caches cleared while the decoders still run, the Pylon probe forgotten.
StopTransport ==
    <<Stop("canRsGrowatt"), Stop("modelRsGrowatt"),
      Stop("pylonBmsRx"), Stop("pylonInvRx"), Stop("pylonProbe"),
      Stop("canTaskA"), Stop("canTaskB"), Stop("canSnapshot")>>

StopQueueTasks ==
    <<Stop("growattBms"), Stop("growattInv"), Stop("jkbmsModbus"),
      Stop("jkbmsNative"), Stop("pace"), Stop("voltronic"), Stop("chinaTower"),
      Stop("wow"), Stop("seplos"), Stop("dalyRs485"), Stop("dalyCan"),
      Stop("pylonBms"), Stop("pylonInv")>>

CachesThenIdle == <<Call("caches", "none", {}), Call("deactivate", "none", {})>>
ResetThenMemset == <<Call("reset", "none", {}), Call("memset", "none", {})>>

StopScriptResetFirst ==
    <<Stop("orchestrator")>> \o StopTransport \o CachesThenIdle
        \o ResetThenMemset \o StopQueueTasks

StopScriptNoReset ==
    <<Stop("orchestrator")>> \o StopTransport \o CachesThenIdle
        \o StopQueueTasks \o <<Call("memset", "none", {})>>

StopScriptCachesFirst ==
    <<Stop("orchestrator")>> \o CachesThenIdle \o StopTransport
        \o StopQueueTasks \o ResetThenMemset

StopScriptKeepsProbe ==
    <<Stop("orchestrator")>>
        \o SelectSeq(StopTransport, LAMBDA call : call.arg # "pylonProbe")
        \o CachesThenIdle \o StopQueueTasks \o ResetThenMemset

StopScript ==
    <<Stop("orchestrator"),
      Stop("canRsGrowatt"), Stop("modelRsGrowatt"),
      Stop("pylonBmsRx"), Stop("pylonInvRx"), Stop("pylonProbe"),
      Stop("canTaskA"), Stop("canTaskB"), Stop("canSnapshot"),
      Call("caches", "none", {}), Call("deactivate", "none", {}),
      Stop("growattBms"), Stop("growattInv"), Stop("jkbmsModbus"),
      Stop("jkbmsNative"), Stop("pace"), Stop("voltronic"), Stop("chinaTower"),
      Stop("wow"), Stop("seplos"), Stop("dalyRs485"), Stop("dalyCan"),
      Stop("pylonBms"), Stop("pylonInv"),
      Call("reset", "none", {}), Call("memset", "none", {})>>

\* The tasks pylonRs485BridgeEnable and canForwardSnifferStart create.
PylonWanted(s) ==
    {t \in PylonTasks :
        \/ t = "pylonBmsRx" /\ (PylonPassthroughMode(s) \/ PylonToCanMode(s)
                                                        \/ PylonSourceOnlyMode(s))
        \/ t = "pylonInvRx" /\ s.inverter_line = "RS485" /\ ~PylonSourceOnlyMode(s)
        \/ t = "pylonProbe" /\ (PylonToCanMode(s) \/ PylonSourceOnlyMode(s))}

ForwarderWanted(s) ==
    {t \in ForwarderTasks :
        \/ t = "canSnapshot" /\ "CAN" \in {s.bms_line, s.inverter_line}
        \/ t = "canTaskA" /\ s.bms_line = "CAN"
        \/ t = "canTaskB" /\ s.inverter_line = "CAN"}

Programs          == [s \in Configs |-> Program(s)]
SecondaryPrograms == [s \in Configs |-> SecondaryProgram(s)]
PylonTasksOf      == [s \in Configs |-> PylonWanted(s)]
ForwarderTasksOf  == [s \in Configs |-> ForwarderWanted(s)]
=============================================================================
