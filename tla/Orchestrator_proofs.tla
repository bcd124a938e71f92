------------------------ MODULE Orchestrator_proofs ------------------------
(***************************************************************************)
(* Proofs about Orchestrator, for every set of configurations and of queue *)
(* handles.  First, what every program and the stop script have in common, *)
(* and the inductive invariant they maintain; then, that no queue leaks;   *)
(* then what a route promises, and that the calls of the control task      *)
(* implement RouteLifecycle; last, that caches and battery model are those *)
(* of the route that runs.                                                 *)
(***************************************************************************)
EXTENDS Orchestrator, WellFoundedInduction, TLAPS

PrimarySlots == {"bms", "inv"}
StartOps     == {"memset", "caches", "bridge", "forwarder", "activate", "create", "start"}
Undos        == [stop : SUBSET Tasks, reset : BOOLEAN]

\* What each step of a primary program may be ...
StepOK(step) ==
    /\ step.call.op \in StartOps
    /\ step.call.op = "create" => step.call.arg \in PrimarySlots
    /\ step.call.op = "start" => /\ step.call.arg \in Tasks
                                 /\ step.call.slots \subseteq PrimarySlots
    /\ step.undo.stop \subseteq Tasks
    /\ step.undo.reset \in BOOLEAN

\* ... and that a failure path which deletes the queues stops every queue
\* task started before.
UndoOK(p, i) ==
    p[i].undo.reset =>
        \A j \in 1..(i - 1) :
            p[j].call.op = "start" /\ p[j].call.arg \in QueueTasks
                => p[j].call.arg \in p[i].undo.stop

WellFormed(p) ==
    /\ Len(p) \in Nat
    /\ \A i \in 1..Len(p) : StepOK(p[i]) /\ UndoOK(p, i)

-----------------------------------------------------------------------------
(* The steps.                                                              *)

\* The calls without arguments are start steps, and no failure path follows them.
LEMMA PlainSteps ==
    /\ StepOK(Memset) /\ Memset.call.op # "start" /\ Memset.undo = Keep
    /\ StepOK(ResetCaches) /\ ResetCaches.call.op # "start" /\ ResetCaches.undo = Keep
    /\ StepOK(EnablePylon) /\ EnablePylon.call.op # "start" /\ EnablePylon.undo = Keep
    /\ StepOK(StartForwarder) /\ StartForwarder.call.op # "start" /\ StartForwarder.undo = Keep
    /\ StepOK(Activate) /\ Activate.call.op # "start" /\ Activate.undo = Keep
BY DEF StepOK, StartOps, PrimarySlots, Memset, ResetCaches, EnablePylon,
       StartForwarder, Activate, Call, Keep

\* The three kinds of failure path have the shape of one.
LEMMA UndoKinds ==
    /\ Keep \in Undos /\ ~Keep.reset
    /\ Reset \in Undos /\ Reset.stop = {}
    /\ \A tasks \in SUBSET Tasks : Drop(tasks) \in Undos /\ Drop(tasks).stop = tasks
BY DEF Keep, Reset, Drop, Undos

\* xQueueCreate of a primary queue is a step, and starts no task.
LEMMA CreateSteps ==
    \A slot \in PrimarySlots, u \in Undos :
        /\ StepOK(Create(slot, u))
        /\ Create(slot, u).call.op # "start"
        /\ Create(slot, u).undo = u
BY DEF StepOK, StartOps, Undos, Create, Call

\* Starting a task on primary queues is a step, with the failure path given.
LEMMA SpawnSteps ==
    \A t \in Tasks, slots \in SUBSET PrimarySlots, u \in Undos :
        /\ StepOK(Spawn(t, slots, u))
        /\ Spawn(t, slots, u).call.arg = t
        /\ Spawn(t, slots, u).undo = u
BY DEF StepOK, StartOps, Undos, Spawn, Call

\* The tasks the programs name, and which of them keep queue handles.
LEMMA TaskNames ==
    /\ QueueTasks \subseteq Tasks /\ Pollers \subseteq QueueTasks
    /\ JkbmsTasks \subseteq QueueTasks /\ PylonTasks \subseteq Tasks
    /\ "canRsGrowatt" \in Tasks \ QueueTasks /\ "modelRsGrowatt" \in Tasks \ QueueTasks
    /\ "pylonInv" \in QueueTasks /\ "growattInv" \in QueueTasks
    /\ "orchestrator" \in QueueTasks /\ "dalyCan" \in QueueTasks
    /\ "wow" \in QueueTasks /\ "growattBms" \in QueueTasks
BY DEF Tasks, Responders, QueueTasks, Pollers, JkbmsTasks

\* The queue fields the programs name.
LEMMA SlotNames ==
    /\ "bms" \in PrimarySlots /\ "inv" \in PrimarySlots
    /\ {} \in SUBSET PrimarySlots /\ {"bms"} \in SUBSET PrimarySlots
    /\ {"inv"} \in SUBSET PrimarySlots /\ {"bms", "inv"} \in SUBSET PrimarySlots
BY DEF PrimarySlots

-----------------------------------------------------------------------------
(* Every program shape of orchestrator.c is well formed.                   *)

\* orchestrator.c, branch canToRsGrowatt.
LEMMA CanToRsGrowattWF ==
    WellFormed(CanToRsGrowattProgram)
<1> DEFINE p == CanToRsGrowattProgram
<1>1. Len(p) = 2 /\ \A k \in 1..2 : StepOK(p[k])
  BY PlainSteps, UndoKinds, CreateSteps, SpawnSteps, TaskNames, SlotNames DEF CanToRsGrowattProgram
<1>2. \A k \in 1..2 : UndoOK(p, k)
  BY PlainSteps, UndoKinds, CreateSteps, SpawnSteps, TaskNames, SlotNames DEF CanToRsGrowattProgram, UndoOK
<1>3. QED
  BY <1>1, <1>2 DEF WellFormed

\* orchestrator.c, branch rsPylonToRsGrowatt.
LEMMA RsPylonToRsGrowattWF ==
    WellFormed(RsPylonToRsGrowattProgram)
<1> DEFINE p == RsPylonToRsGrowattProgram
<1>1. Len(p) = 5 /\ \A k \in 1..5 : StepOK(p[k])
  BY PlainSteps, UndoKinds, CreateSteps, SpawnSteps, TaskNames, SlotNames DEF RsPylonToRsGrowattProgram
<1>2. \A k \in 1..5 : UndoOK(p, k)
  BY PlainSteps, UndoKinds, CreateSteps, SpawnSteps, TaskNames, SlotNames DEF RsPylonToRsGrowattProgram, UndoOK
<1>3. QED
  BY <1>1, <1>2 DEF WellFormed

\* orchestrator.c, branch rsPylonToCanGrowatt.
LEMMA RsPylonToCanGrowattWF ==
    WellFormed(RsPylonToCanGrowattProgram)
<1> DEFINE p == RsPylonToCanGrowattProgram
<1>1. Len(p) = 6 /\ \A k \in 1..6 : StepOK(p[k])
  BY PlainSteps, UndoKinds, CreateSteps, SpawnSteps, TaskNames, SlotNames DEF RsPylonToCanGrowattProgram
<1>2. \A k \in 1..6 : UndoOK(p, k)
  BY PlainSteps, UndoKinds, CreateSteps, SpawnSteps, TaskNames, SlotNames DEF RsPylonToCanGrowattProgram, UndoOK
<1>3. QED
  BY <1>1, <1>2 DEF WellFormed

\* The branches that answer as Growatt from the battery model.
LEMMA ModelResponderWF ==
    ASSUME NEW t \in QueueTasks, NEW undo \in SUBSET QueueTasks, t \in undo
    PROVE  WellFormed(ModelResponderProgram(t, undo))
<1> DEFINE p == ModelResponderProgram(t, undo)
<1>0. undo \in SUBSET Tasks
  BY TaskNames DEF PylonTasks, JkbmsTasks
<1>1. Len(p) = 5 /\ \A k \in 1..5 : StepOK(p[k])
  BY <1>0, PlainSteps, UndoKinds, CreateSteps, SpawnSteps, TaskNames, SlotNames DEF ModelResponderProgram
<1>2. \A k \in 1..5 : UndoOK(p, k)
  BY <1>0, PlainSteps, UndoKinds, CreateSteps, SpawnSteps, TaskNames, SlotNames DEF ModelResponderProgram, UndoOK
<1>3. QED
  BY <1>1, <1>2 DEF WellFormed

\* orchestrator.c, branch rsJkbmsToCanGrowatt.
LEMMA RsJkbmsToCanGrowattWF ==
    ASSUME NEW t \in JkbmsTasks
    PROVE  WellFormed(RsJkbmsToCanGrowattProgram(t))
<1> DEFINE p == RsJkbmsToCanGrowattProgram(t)
<1>0. JkbmsTasks \in SUBSET Tasks
  BY TaskNames DEF PylonTasks, JkbmsTasks
<1>1. Len(p) = 6 /\ \A k \in 1..6 : StepOK(p[k])
  BY <1>0, PlainSteps, UndoKinds, CreateSteps, SpawnSteps, TaskNames, SlotNames DEF RsJkbmsToCanGrowattProgram
<1>2. \A k \in 1..6 : UndoOK(p, k)
  BY <1>0, PlainSteps, UndoKinds, CreateSteps, SpawnSteps, TaskNames, SlotNames DEF RsJkbmsToCanGrowattProgram, UndoOK
<1>3. QED
  BY <1>1, <1>2 DEF WellFormed

\* The branches that answer as Pylon from the battery model.
LEMMA PylonResponderWF ==
    ASSUME NEW t \in QueueTasks
    PROVE  WellFormed(PylonResponderProgram(t))
<1> DEFINE p == PylonResponderProgram(t)
<1>1. Len(p) = 5 /\ \A k \in 1..5 : StepOK(p[k])
  BY PlainSteps, UndoKinds, CreateSteps, SpawnSteps, TaskNames, SlotNames DEF PylonResponderProgram
<1>2. \A k \in 1..5 : UndoOK(p, k)
  BY PlainSteps, UndoKinds, CreateSteps, SpawnSteps, TaskNames, SlotNames DEF PylonResponderProgram, UndoOK
<1>3. QED
  BY <1>1, <1>2 DEF WellFormed

\* orchestrator.c, branch canDalyToCanPylon.
LEMMA CanDalyToCanPylonWF ==
    WellFormed(CanDalyToCanPylonProgram)
<1> DEFINE p == CanDalyToCanPylonProgram
<1>0. {"dalyCan"} \in SUBSET Tasks /\ {"pylonInv", "dalyCan"} \in SUBSET Tasks
  BY TaskNames DEF PylonTasks, JkbmsTasks
<1>1. Len(p) = 6 /\ \A k \in 1..6 : StepOK(p[k])
  BY <1>0, PlainSteps, UndoKinds, CreateSteps, SpawnSteps, TaskNames, SlotNames DEF CanDalyToCanPylonProgram
<1>2. \A k \in 1..6 : UndoOK(p, k)
  BY <1>0, PlainSteps, UndoKinds, CreateSteps, SpawnSteps, TaskNames, SlotNames DEF CanDalyToCanPylonProgram, UndoOK
<1>3. QED
  BY <1>1, <1>2 DEF WellFormed

\* orchestrator.c, branch canDirectPassthrough.
LEMMA PassthroughWF ==
    WellFormed(PassthroughProgram)
<1> DEFINE p == PassthroughProgram
<1>1. Len(p) = 4 /\ \A k \in 1..4 : StepOK(p[k])
  BY PlainSteps, UndoKinds, CreateSteps, SpawnSteps, TaskNames, SlotNames DEF PassthroughProgram
<1>2. \A k \in 1..4 : UndoOK(p, k)
  BY PlainSteps, UndoKinds, CreateSteps, SpawnSteps, TaskNames, SlotNames DEF PassthroughProgram, UndoOK
<1>3. QED
  BY <1>1, <1>2 DEF WellFormed

\* orchestrator.c, branch pylonRs485Route, inverter on RS485.
LEMMA PylonBridgeWF ==
    WellFormed(PylonBridgeProgram)
<1> DEFINE p == PylonBridgeProgram
<1>1. Len(p) = 5 /\ \A k \in 1..5 : StepOK(p[k])
  BY PlainSteps, UndoKinds, CreateSteps, SpawnSteps, TaskNames, SlotNames DEF PylonBridgeProgram
<1>2. \A k \in 1..5 : UndoOK(p, k)
  BY PlainSteps, UndoKinds, CreateSteps, SpawnSteps, TaskNames, SlotNames DEF PylonBridgeProgram, UndoOK
<1>3. QED
  BY <1>1, <1>2 DEF WellFormed

\* orchestrator.c, branch pylonRs485Route, inverter on CAN Pylon.
LEMMA PylonToCanWF ==
    WellFormed(PylonToCanProgram)
<1> DEFINE p == PylonToCanProgram
<1>1. Len(p) = 7 /\ \A k \in 1..7 : StepOK(p[k])
  BY PlainSteps, UndoKinds, CreateSteps, SpawnSteps, TaskNames, SlotNames DEF PylonToCanProgram
<1>2. \A k \in 1..7 : UndoOK(p, k)
  BY PlainSteps, UndoKinds, CreateSteps, SpawnSteps, TaskNames, SlotNames DEF PylonToCanProgram, UndoOK
<1>3. QED
  BY <1>1, <1>2 DEF WellFormed

\* orchestratorStart: its late failure paths delete no queue.
LEMMA GenericWF ==
    ASSUME NEW b \in QueueTasks, NEW i \in QueueTasks
    PROVE  WellFormed(GenericProgram(b, i))
<1> DEFINE p == GenericProgram(b, i)
<1>1. Len(p) = 6 /\ \A k \in 1..6 : StepOK(p[k])
  BY PlainSteps, UndoKinds, CreateSteps, SpawnSteps, TaskNames, SlotNames DEF GenericProgram
<1>2. \A k \in 1..6 : UndoOK(p, k)
  BY PlainSteps, UndoKinds, CreateSteps, SpawnSteps, TaskNames, SlotNames DEF GenericProgram, UndoOK
<1>3. QED
  BY <1>1, <1>2 DEF WellFormed

\* startBmsTask and startInverterTask start queue tasks.
LEMMA GenericTasks ==
    ASSUME NEW s
    PROVE  GenericBmsTask(s) \in QueueTasks /\ GenericInverterTask(s) \in QueueTasks
<1>1. ProtocolIdFromUiProtocol(s.bms_protocol) \in
          {"GROWATT", "PYLON", "JKBMS", "JKBMS_NATIVE", "PACE", "VOLTRONIC",
           "CHINA_TOWER", "WOW", "SEPLOS", "DALY"}
  BY DEF ProtocolIdFromUiProtocol
<1>2. GenericBmsTask(s) \in QueueTasks
  BY <1>1 DEF GenericBmsTask, QueueTasks, Pollers
<1>3. GenericInverterTask(s) \in QueueTasks
  BY DEF GenericInverterTask, QueueTasks
<1>4. QED
  BY <1>2, <1>3

\* The program of every configuration is well formed.
LEMMA ProgramWF ==
    ASSUME NEW s
    PROVE  WellFormed(Program(s))
<1>1. JkbmsPoller(s.bms_protocol) \in JkbmsTasks
  BY DEF JkbmsPoller, JkbmsTasks
<1>2. JkbmsTasks \subseteq QueueTasks /\ Pollers \subseteq QueueTasks
  BY DEF JkbmsTasks, QueueTasks, Pollers
<1>3. /\ WellFormed(ModelResponderProgram(JkbmsPoller(s.bms_protocol), JkbmsTasks))
      /\ WellFormed(RsJkbmsToCanGrowattProgram(JkbmsPoller(s.bms_protocol)))
      /\ WellFormed(PylonResponderProgram(JkbmsPoller(s.bms_protocol)))
  BY <1>1, <1>2, ModelResponderWF, RsJkbmsToCanGrowattWF, PylonResponderWF
<1>4. /\ WellFormed(ModelResponderProgram("wow", {"wow"}))
      /\ WellFormed(ModelResponderProgram("growattBms", {"growattBms"}))
  <2>1. "wow" \in QueueTasks /\ "growattBms" \in QueueTasks
    BY DEF QueueTasks, Pollers
  <2>2. QED
    BY <2>1, ModelResponderWF
<1>5. \A t \in Pollers : WellFormed(PylonResponderProgram(t))
  BY <1>2, PylonResponderWF
<1>6. /\ "growattBms" \in Pollers /\ "pace" \in Pollers /\ "voltronic" \in Pollers
      /\ "chinaTower" \in Pollers /\ "wow" \in Pollers /\ "seplos" \in Pollers
      /\ "dalyRs485" \in Pollers /\ "dalyCan" \in Pollers
  BY DEF Pollers
<1>7. WellFormed(GenericProgram(GenericBmsTask(s), GenericInverterTask(s)))
  BY GenericTasks, GenericWF
<1>8. QED
  BY <1>3, <1>4, <1>5, <1>6, <1>7, CanToRsGrowattWF, RsPylonToRsGrowattWF,
     RsPylonToCanGrowattWF, CanDalyToCanPylonWF, PassthroughWF, PylonBridgeWF,
     PylonToCanWF
  DEF Program

-----------------------------------------------------------------------------

\* startSecondaryBmsTask creates its queue, then starts its task.
LEMMA SecondaryShape ==
    ASSUME NEW s
    PROVE  LET p == SecondaryProgram(s)
           IN  \/ Len(p) = 0
               \/ /\ Len(p) = 2
                  /\ p[1].call.op = "create" /\ p[1].call.arg = "sec"
                  /\ p[2].call.op = "start" /\ p[2].call.slots = {"sec"}
                  /\ p[2].call.arg \in QueueTasks
BY DEF SecondaryProgram, SecondaryTask, Create, Spawn, Call, QueueTasks, Pollers

\* orchestratorStop deletes every queue task before it deletes the queues.
StopOps == {"stop", "caches", "deactivate", "reset", "memset"}

\* Every step of orchestratorStop is one of the calls modelled.
LEMMA StopShape ==
    /\ Len(StopScript) = 26
    /\ \A i \in 1..26 : /\ StopScript[i].op \in StopOps
                        /\ StopScript[i].op = "stop" => StopScript[i].arg \in Tasks
                        /\ StopScript[i].op = "reset" => i = 25
    /\ StopScript[25].op = "reset"
    /\ StopScript[26].op = "memset"
BY DEF StopScript, Stop, Call, StopOps, Tasks, QueueTasks, Pollers, Responders,
       PylonTasks, ForwarderTasks

\* orchestratorStop deletes every queue task before it deletes the queues.
LEMMA StopCoversQueueTasks ==
    \A t \in QueueTasks : \E i \in 1..24 : StopScript[i].op = "stop" /\ StopScript[i].arg = t
BY DEF StopScript, Stop, Call, QueueTasks, Pollers
-----------------------------------------------------------------------------
(* The inductive invariant.                                                *)

ActiveQueueTasks == running \cap QueueTasks

CtxLive == \A slot \in Slots : ctx[slot] \in live \cup {NULL}

CtxDistinct == \A a, b \in Slots : a # b /\ ctx[a] = ctx[b] => ctx[a] = NULL

\* While a route starts, the queue tasks are those its program started.
InStart ==
    phase = "starting" =>
        /\ ctx["sec"] = NULL
        /\ \A t \in ActiveQueueTasks :
              \E j \in 1..(pc - 1) : /\ Programs[cfg][j].call.op = "start"
                                    /\ Programs[cfg][j].call.arg = t

\* A failure path that will delete the queues still stops them all.
InUndo == phase = "undoing" /\ resets => ActiveQueueTasks \subseteq toStop

\* So does orchestratorStop, at every point before its orchestratorReset.
InStop ==
    Stopping =>
        /\ pc > 25 => ctx = EmptyCtx
        /\ \A t \in ActiveQueueTasks :
              \E j \in pc..24 : StopScript[j].op = "stop" /\ StopScript[j].arg = t

\* Until the secondary poller runs, nobody holds the secondary queue.
InSecondary ==
    phase = "secondary" =>
        /\ pc = 1 => ctx["sec"] = NULL
        /\ pc = 2 => \A t \in ActiveQueueTasks : ctx["sec"] \notin held[t]

IInv ==
    /\ TypeOK /\ NoDanglingQueue /\ CtxLive /\ CtxDistinct
    /\ InStart /\ InUndo /\ InStop /\ InSecondary

\* The invariant holds when app_main calls workingModesStart.
LEMMA InitIInv == Init => IInv
<1> SUFFICES ASSUME Init PROVE IInv
  OBVIOUS
<1> USE DEF Init
<1>1. TypeOK
  <2>1. modeStarted \in BOOLEAN /\ resets \in BOOLEAN /\ active \in BOOLEAN
    OBVIOUS
  <2>2. held \in [QueueTasks -> SUBSET Handles] /\ ctx \in [Slots -> Handles \cup {NULL}]
    BY DEF EmptyCtx
  <2>3. /\ phase \in Phases /\ pc \in Nat \ {0} /\ result \in Results
        /\ phase \notin {"starting", "undoing", "secondary"}
    BY DEF Phases, Results
  <2>4. QED
    BY <2>1, <2>2, <2>3, Zenon DEF TypeOK, ControlType, TaskType, DataType
<1>2. NoDanglingQueue /\ InStart /\ InUndo /\ InSecondary
  BY DEF NoDanglingQueue, InStart, InUndo, InSecondary
<1>3. CtxLive /\ CtxDistinct
  BY DEF CtxLive, CtxDistinct, EmptyCtx
<1>4. InStop
  BY DEF InStop, ActiveQueueTasks
<1>5. QED
  BY <1>1, <1>2, <1>3, <1>4 DEF IInv

\* What is known of the call the control task is at.
LEMMA CallFacts ==
    ASSUME TypeOK, CallsLeft
    PROVE  /\ phase \in {"starting", "secondary", "stopping", "aborting"}
           /\ phase = "starting" =>
                  /\ cfg \in Configs
                  /\ pc \in 1..Len(Programs[cfg])
                  /\ StepOK(Programs[cfg][pc]) /\ UndoOK(Programs[cfg], pc)
                  /\ CurrentCall = Programs[cfg][pc].call
           /\ phase = "secondary" =>
                  /\ pc \in {1, 2}
                  /\ pc = 1 => CurrentCall.op = "create" /\ CurrentCall.arg = "sec"
                  /\ pc = 2 => /\ CurrentCall.op = "start" /\ CurrentCall.slots = {"sec"}
                               /\ CurrentCall.arg \in QueueTasks
           /\ Stopping =>
                  /\ pc \in 1..26
                  /\ CurrentCall = StopScript[pc]
                  /\ CurrentCall.op \in StopOps
                  /\ CurrentCall.op = "stop" => CurrentCall.arg \in Tasks
                  /\ CurrentCall.op = "reset" => pc = 25
                  /\ pc = 25 => CurrentCall.op = "reset"
                  /\ pc = 26 => CurrentCall.op = "memset"
<1>1. phase \in {"starting", "secondary", "stopping", "aborting"}
  BY DEF CallsLeft, Starting, Stopping
<1>2. ASSUME phase = "starting"
      PROVE  /\ cfg \in Configs
             /\ pc \in 1..Len(Programs[cfg])
             /\ StepOK(Programs[cfg][pc]) /\ UndoOK(Programs[cfg], pc)
             /\ CurrentCall = Programs[cfg][pc].call
  <2>1. cfg \in Configs
    BY <1>2 DEF TypeOK, ControlType
  <2>2. Programs[cfg] = Program(cfg) /\ WellFormed(Programs[cfg])
    BY <2>1, ProgramWF DEF Programs
  <2>3. pc \in 1..Len(Programs[cfg])
    BY <1>2, <2>2 DEF TypeOK, ControlType, CallsLeft, Starting, StartScript, WellFormed
  <2>4. QED
    BY <1>2, <2>1, <2>2, <2>3 DEF WellFormed, CurrentCall, Starting, StartScript
<1>3. ASSUME phase = "secondary"
      PROVE  /\ pc \in {1, 2}
             /\ pc = 1 => CurrentCall.op = "create" /\ CurrentCall.arg = "sec"
             /\ pc = 2 => /\ CurrentCall.op = "start" /\ CurrentCall.slots = {"sec"}
                          /\ CurrentCall.arg \in QueueTasks
  <2>1. SecondaryPrograms[cfg] = SecondaryProgram(cfg)
    BY <1>3 DEF TypeOK, ControlType, SecondaryPrograms
  <2>2. pc <= Len(SecondaryProgram(cfg)) /\ CurrentCall = SecondaryProgram(cfg)[pc].call
    BY <1>3, <2>1 DEF CallsLeft, CurrentCall, Starting, StartScript
  <2>3. QED
    BY <2>2, SecondaryShape DEF TypeOK, ControlType
<1>4. ASSUME Stopping
      PROVE  /\ pc \in 1..26
             /\ CurrentCall = StopScript[pc]
             /\ CurrentCall.op \in StopOps
             /\ CurrentCall.op = "stop" => CurrentCall.arg \in Tasks
             /\ CurrentCall.op = "reset" => pc = 25
             /\ pc = 25 => CurrentCall.op = "reset"
             /\ pc = 26 => CurrentCall.op = "memset"
  <2>1. pc \in 1..26 /\ CurrentCall = StopScript[pc]
    BY <1>4, StopShape DEF TypeOK, ControlType, CallsLeft, CurrentCall, Starting, Stopping
  <2>2. QED
    BY <2>1, StopShape
<1>5. QED
  BY <1>1, <1>2, <1>3, <1>4

-----------------------------------------------------------------------------
(* Every action preserves the invariant.                                   *)

\* Advancing past a call that neither starts nor stops a task keeps what is
\* known of the queue tasks.
LEMMA AdvanceKeepsTasks ==
    ASSUME IInv, CallsLeft, Advance, running' = running, held' = held,
           CurrentCall.op \notin {"start", "stop", "create"},
           ctx' \in {ctx, EmptyCtx},
           Stopping /\ pc = 25 => ctx' = EmptyCtx,
           ctx["sec"] = NULL => ctx'["sec"] = NULL
    PROVE  InStart' /\ InUndo' /\ InStop' /\ InSecondary'
<1> USE DEF IInv
<1>1. InStart'
  <2> SUFFICES ASSUME phase = "starting"
               PROVE  /\ ctx'["sec"] = NULL
                      /\ \A t \in ActiveQueueTasks :
                            \E j \in 1..pc : /\ Programs[cfg][j].call.op = "start"
                                            /\ Programs[cfg][j].call.arg = t
    BY DEF Advance, InStart, ActiveQueueTasks, TypeOK, ControlType
  <2> QED
    BY DEF InStart, ActiveQueueTasks, TypeOK, ControlType
<1>2. InUndo'
  BY DEF InUndo, ActiveQueueTasks, Advance
<1>3. InStop'
  <2> SUFFICES ASSUME Stopping
               PROVE  /\ pc + 1 > 25 => ctx' = EmptyCtx
                      /\ \A t \in ActiveQueueTasks :
                            \E j \in (pc + 1)..24 : StopScript[j].op = "stop" /\ StopScript[j].arg = t
    BY DEF Advance, InStop, ActiveQueueTasks, Stopping
  <2>1. CurrentCall = StopScript[pc] /\ pc \in 1..26
    BY CallFacts
  <2>2. pc + 1 > 25 => ctx' = EmptyCtx
    BY <2>1 DEF InStop
  <2>3. QED
    BY <2>1, <2>2 DEF InStop, ActiveQueueTasks
<1>4. InSecondary'
  BY CallFacts DEF InSecondary, Advance
<1>5. QED
  BY <1>1, <1>2, <1>3, <1>4

\* Advance keeps the control variables in their types.
LEMMA AdvanceType ==
    ASSUME ControlType, Advance
    PROVE  ControlType'
<1>1. pc' \in Nat \ {0}
  BY DEF ControlType, Advance
<1>2. QED
  BY <1>1, Zenon DEF ControlType, Advance

\* The memset forgets the queues; no task that works on them runs by then.
LEMMA MemsetCtxInv == IInv /\ MemsetCtx => IInv'
<1> SUFFICES ASSUME IInv, MemsetCtx PROVE IInv'
  OBVIOUS
<1> USE DEF IInv, MemsetCtx, dataVars
<1>1. InStart' /\ InUndo' /\ InStop' /\ InSecondary'
  BY AdvanceKeepsTasks DEF At, EmptyCtx, Slots
<1>2. TaskType'
  BY DEF TypeOK, TaskType, EmptyCtx
<1>3. TypeOK'
  BY <1>2, AdvanceType DEF TypeOK, DataType
<1>4. NoDanglingQueue' /\ CtxLive' /\ CtxDistinct'
  BY DEF NoDanglingQueue, CtxLive, CtxDistinct, EmptyCtx
<1>5. QED
  BY <1>1, <1>3, <1>4

\* Resetting the CAN caches touches no task.
LEMMA CanDecoderResetCachesInv == IInv /\ CanDecoderResetCaches => IInv'
<1> SUFFICES ASSUME IInv, CanDecoderResetCaches PROVE IInv'
  OBVIOUS
<1> USE DEF IInv, CanDecoderResetCaches, dataVars, taskVars
<1>0. CallsLeft /\ CurrentCall.op \in {"caches", "activate", "deactivate"} /\ ctx' = ctx
  BY DEF At
<1>1. InStart' /\ InUndo' /\ InStop' /\ InSecondary'
  BY <1>0, AdvanceKeepsTasks, CallFacts
<1>2. TypeOK'
  BY AdvanceType DEF TypeOK, TaskType, DataType, Ages
<1>3. NoDanglingQueue' /\ CtxLive' /\ CtxDistinct'
  BY DEF NoDanglingQueue, CtxLive, CtxDistinct
<1>4. QED
  BY <1>1, <1>2, <1>3

\* The translator flag touches no task.
LEMMA SetActiveInv == IInv /\ SetActive => IInv'
<1> SUFFICES ASSUME IInv, SetActive PROVE IInv'
  OBVIOUS
<1> USE DEF IInv, SetActive, dataVars, taskVars
<1>0. CallsLeft /\ CurrentCall.op \in {"caches", "activate", "deactivate"} /\ ctx' = ctx
  BY DEF At
<1>1. InStart' /\ InUndo' /\ InStop' /\ InSecondary'
  BY <1>0, AdvanceKeepsTasks, CallFacts
<1>2. TypeOK'
  BY AdvanceType DEF TypeOK, TaskType, DataType, Ages
<1>3. NoDanglingQueue' /\ CtxLive' /\ CtxDistinct'
  BY DEF NoDanglingQueue, CtxLive, CtxDistinct
<1>4. QED
  BY <1>1, <1>2, <1>3

\* The void starts touch no queue task: ActiveQueueTasks stays the same.
LEMMA VoidStart ==
    ASSUME IInv, CallsLeft, Advance, CurrentCall.op \in {"bridge", "forwarder"},
           NEW gone \in SUBSET (Tasks \ QueueTasks), NEW created \in SUBSET (Tasks \ QueueTasks),
           running' = (running \ gone) \cup created,
           UNCHANGED <<held, ctx, active, live, dataVars>>
    PROVE  IInv'
<1> USE DEF IInv
<1>1. running' \in SUBSET Tasks /\ ActiveQueueTasks' = ActiveQueueTasks
  BY DEF ActiveQueueTasks, TypeOK, TaskType
<1>2. phase = "starting"
  BY CallFacts DEF StopOps, Stopping
<1>3. InStart' /\ InUndo' /\ InStop' /\ InSecondary'
  BY <1>1, <1>2 DEF Advance, InStart, InUndo, InStop, InSecondary, Stopping, TypeOK, ControlType
<1>4. TypeOK'
  BY <1>1, AdvanceType DEF TypeOK, TaskType, DataType, dataVars
<1>5. NoDanglingQueue' /\ CtxLive' /\ CtxDistinct'
  BY <1>1 DEF NoDanglingQueue, CtxLive, CtxDistinct, ActiveQueueTasks
<1>6. QED
  BY <1>3, <1>4, <1>5

\* The Pylon bridge and the CAN forwarder keep no queue handle.
LEMMA BridgeTasksAreNoQueueTasks ==
    /\ PylonTasks \subseteq Tasks \ QueueTasks
    /\ ForwarderTasks \subseteq Tasks \ QueueTasks
BY DEF PylonTasks, ForwarderTasks, Tasks, QueueTasks, Pollers

\* Enabling the Pylon bridge keeps the queue tasks as they are.
LEMMA PylonRs485BridgeEnableInv == IInv /\ PylonRs485BridgeEnable => IInv'
<1> SUFFICES ASSUME IInv, PylonRs485BridgeEnable PROVE IInv'
  OBVIOUS
<1>1. PICK created \in SUBSET PylonTasksOf[cfg] : running' = (running \ PylonTasks) \cup created
  BY DEF PylonRs485BridgeEnable
<1>2. CallsLeft /\ CurrentCall.op = "bridge"
  BY DEF PylonRs485BridgeEnable, At
<1>3. cfg \in Configs
  BY <1>2, CallFacts DEF IInv, StopOps, Stopping
<1>4. created \subseteq Tasks \ QueueTasks
  BY <1>3, BridgeTasksAreNoQueueTasks DEF PylonTasksOf, PylonWanted
<1>5. QED
  BY <1>1, <1>2, <1>4, BridgeTasksAreNoQueueTasks, VoidStart DEF PylonRs485BridgeEnable

\* Starting the CAN forwarder keeps the queue tasks as they are.
LEMMA CanForwardSnifferStartInv == IInv /\ CanForwardSnifferStart => IInv'
<1> SUFFICES ASSUME IInv, CanForwardSnifferStart PROVE IInv'
  OBVIOUS
<1>1. PICK created \in SUBSET ForwarderTasksOf[cfg] : running' = (running \ ForwarderTasks) \cup created
  BY DEF CanForwardSnifferStart
<1>2. CallsLeft /\ CurrentCall.op = "forwarder"
  BY DEF CanForwardSnifferStart, At
<1>3. cfg \in Configs
  BY <1>2, CallFacts DEF IInv, StopOps, Stopping
<1>4. created \subseteq Tasks \ QueueTasks
  BY <1>3, BridgeTasksAreNoQueueTasks DEF ForwarderTasksOf, ForwarderWanted
<1>5. QED
  BY <1>1, <1>2, <1>4, BridgeTasksAreNoQueueTasks, VoidStart DEF CanForwardSnifferStart

\* Deleting a task leaves the others as they are.
LEMMA TaskStopInv == IInv /\ TaskStop => IInv'
<1> SUFFICES ASSUME IInv, TaskStop PROVE IInv'
  OBVIOUS
<1> DEFINE t == CurrentCall.arg
<1> USE DEF IInv
<1>1. /\ CallsLeft /\ CurrentCall.op = "stop" /\ Advance
      /\ running' = running \ {t} /\ held' = HeldAfterStop(t)
      /\ model' = ModelAfterStop(t)
      /\ UNCHANGED <<ctx, active, live, canCache>>
  BY DEF TaskStop, At
<1>2. Stopping /\ pc \in 1..24 /\ CurrentCall = StopScript[pc]
  BY <1>1, CallFacts DEF StepOK, StartOps, StopOps, Stopping
<1>3. /\ ActiveQueueTasks' = ActiveQueueTasks \ {t}
      /\ \A u \in ActiveQueueTasks' : held'[u] = held[u]
  BY <1>1 DEF ActiveQueueTasks, HeldAfterStop
<1>4. InStop'
  <2> SUFFICES \A u \in ActiveQueueTasks \ {t} :
                  \E j \in (pc + 1)..24 : StopScript[j].op = "stop" /\ StopScript[j].arg = u
    BY <1>1, <1>2, <1>3 DEF InStop, Advance, Stopping
  <2> QED
    BY <1>2 DEF InStop
<1>5. InStart' /\ InUndo' /\ InSecondary'
  BY <1>1, <1>2 DEF Advance, InStart, InUndo, InSecondary, Stopping
<1>6. TaskType'
  BY <1>1 DEF TypeOK, TaskType, HeldAfterStop
<1>7. DataType'
  BY <1>1 DEF TypeOK, DataType, ModelAfterStop
<1>8. TypeOK'
  BY <1>1, <1>6, <1>7, AdvanceType DEF TypeOK
<1>9. NoDanglingQueue' /\ CtxLive' /\ CtxDistinct'
  BY <1>1, <1>3 DEF NoDanglingQueue, CtxLive, CtxDistinct, ActiveQueueTasks
<1>10. QED
  BY <1>4, <1>5, <1>8, <1>9

\* When the queues go, no queue task is left.
LEMMA OrchestratorResetInv == IInv /\ OrchestratorReset => IInv'
<1> SUFFICES ASSUME IInv, OrchestratorReset PROVE IInv'
  OBVIOUS
<1> USE DEF IInv
<1>1. /\ CallsLeft /\ CurrentCall.op = "reset" /\ Advance
      /\ live' = live \ CtxHandles /\ ctx' = EmptyCtx
      /\ UNCHANGED <<running, held, active, dataVars>>
  BY DEF OrchestratorReset, At
<1>2. Stopping /\ pc = 25
  BY <1>1, CallFacts DEF StepOK, StartOps, StopOps, Stopping
<1>3. ActiveQueueTasks = {}
  BY <1>2 DEF InStop
<1>4. InStart' /\ InUndo' /\ InStop' /\ InSecondary'
  BY <1>1, <1>3, AdvanceKeepsTasks DEF EmptyCtx, Slots
<1>5. TaskType'
  BY <1>1 DEF TypeOK, TaskType, EmptyCtx
<1>6. TypeOK'
  BY <1>1, <1>5, AdvanceType DEF TypeOK, DataType, dataVars
<1>7. NoDanglingQueue' /\ CtxLive' /\ CtxDistinct'
  BY <1>1, <1>3 DEF NoDanglingQueue, CtxLive, CtxDistinct, ActiveQueueTasks, EmptyCtx
<1>8. QED
  BY <1>4, <1>6, <1>7

\* A new queue is nobody's yet.
LEMMA CreateQueueInv == IInv /\ CreateQueue => IInv'
<1> SUFFICES ASSUME IInv, CreateQueue PROVE IInv'
  OBVIOUS
<1> DEFINE slot == CurrentCall.arg
<1> USE DEF IInv
<1>1. PICK h \in Handles \ live :
          /\ live' = live \cup {h}
          /\ ctx' = [ctx EXCEPT ![slot] = h]
  BY DEF CreateQueue
<1>2. /\ CallsLeft /\ CurrentCall.op = "create" /\ Advance
      /\ UNCHANGED <<running, held, active, dataVars>>
  BY DEF CreateQueue, At
<1>3. ~Stopping
  BY <1>2, CallFacts DEF StopOps
<1>4. phase = "starting" => slot \in PrimarySlots
  BY <1>2, CallFacts DEF StepOK
<1>5. InStart' /\ InUndo' /\ InStop'
  <2>1. phase = "starting" => ctx'["sec"] = ctx["sec"]
    BY <1>1, <1>4 DEF TypeOK, TaskType, Slots, PrimarySlots
  <2>2. InStart'
    <3> SUFFICES ASSUME phase = "starting"
                 PROVE  /\ ctx'["sec"] = NULL
                        /\ \A t \in ActiveQueueTasks :
                              \E j \in 1..pc : /\ Programs[cfg][j].call.op = "start"
                                              /\ Programs[cfg][j].call.arg = t
      BY <1>2 DEF Advance, InStart, ActiveQueueTasks, TypeOK, ControlType
    <3> QED
      BY <2>1 DEF InStart, TypeOK, ControlType
  <2>3. QED
    BY <1>2, <1>3, <2>2 DEF Advance, InUndo, InStop, Stopping, ActiveQueueTasks
<1>6. InSecondary'
  <2> SUFFICES ASSUME phase = "secondary", NEW t \in ActiveQueueTasks
               PROVE  pc + 1 # 1 /\ (pc + 1 = 2 => ctx'["sec"] \notin held[t])
    BY <1>2 DEF Advance, InSecondary, ActiveQueueTasks, TypeOK, ControlType
  <2>1. held[t] \subseteq live
    BY DEF NoDanglingQueue, ActiveQueueTasks
  <2>2. pc = 1 => ctx'["sec"] = h
    BY <1>1, <1>2, CallFacts DEF TypeOK, TaskType, Slots
  <2>3. QED
    BY <2>1, <2>2 DEF TypeOK, ControlType
<1>7. TaskType'
  BY <1>1, <1>2 DEF TypeOK, TaskType
<1>8. TypeOK'
  BY <1>2, <1>7, AdvanceType DEF TypeOK, DataType, dataVars
<1>9. NoDanglingQueue'
  BY <1>1, <1>2 DEF NoDanglingQueue
<1>10. CtxLive' /\ CtxDistinct'
  BY <1>1, HandlesAssumption DEF CtxLive, CtxDistinct, TypeOK, TaskType
<1>11. QED
  BY <1>5, <1>6, <1>8, <1>9, <1>10

\* A task is started on queues that are alive.
LEMMA TaskStartInv == IInv /\ TaskStart => IInv'
<1> SUFFICES ASSUME IInv, TaskStart PROVE IInv'
  OBVIOUS
<1> DEFINE t == CurrentCall.arg
           queues == {ctx[slot] : slot \in CurrentCall.slots}
<1> USE DEF IInv
<1>1. /\ CallsLeft /\ CurrentCall.op = "start" /\ Advance
      /\ NULL \notin queues
      /\ running' = running \cup {t}
      /\ held' = [u \in QueueTasks |-> IF u = t THEN queues ELSE held[u]]
      /\ model' \in {model, NoModel}
      /\ UNCHANGED <<ctx, active, live, canCache>>
  BY DEF TaskStart, At
<1>2. /\ phase \in {"starting", "secondary"}
      /\ t \in Tasks /\ CurrentCall.slots \subseteq Slots
  BY <1>1, CallFacts DEF StopOps, Stopping, StepOK, PrimarySlots, Slots, Tasks
<1>3. queues \subseteq live /\ queues \subseteq Handles
  BY <1>1, <1>2 DEF CtxLive, TypeOK, TaskType
<1>4. InStart'
  <2> SUFFICES ASSUME phase = "starting"
               PROVE  /\ ctx["sec"] = NULL
                      /\ \A u \in ActiveQueueTasks \cup {t} :
                            \E j \in 1..pc : /\ Programs[cfg][j].call.op = "start"
                                            /\ Programs[cfg][j].call.arg = u
    BY <1>1 DEF Advance, InStart, ActiveQueueTasks, TypeOK, ControlType
  <2>1. CurrentCall = Programs[cfg][pc].call
    BY <1>1, CallFacts
  <2>2. QED
    BY <1>1, <2>1 DEF InStart, TypeOK, ControlType
<1>5. InUndo' /\ InStop' /\ InSecondary'
  BY <1>1, <1>2, CallFacts DEF Advance, InUndo, InStop, InSecondary, Stopping,
                               TypeOK, ControlType
<1>6. TaskType'
  BY <1>1, <1>2, <1>3 DEF TypeOK, TaskType
<1>7. DataType'
  BY <1>1 DEF TypeOK, DataType
<1>8. TypeOK'
  BY <1>1, <1>6, <1>7, AdvanceType DEF TypeOK
<1>9. NoDanglingQueue'
  BY <1>1, <1>3 DEF NoDanglingQueue
<1>10. CtxLive' /\ CtxDistinct'
  BY <1>1 DEF CtxLive, CtxDistinct
<1>11. QED
  BY <1>4, <1>5, <1>8, <1>9, <1>10

\* The failure path of a step stops all that must stop.
LEMMA FailPrimaryInv == IInv /\ FailPrimary => IInv'
<1> SUFFICES ASSUME IInv, FailPrimary PROVE IInv'
  OBVIOUS
<1> DEFINE undo == Programs[cfg][pc].undo
<1> USE DEF IInv
<1>1. /\ CallsLeft /\ phase = "starting" /\ phase' = "undoing"
      /\ toStop' = undo.stop /\ resets' = undo.reset /\ result' = "failed"
      /\ model' \in {model, NoModel}
      /\ UNCHANGED <<modeStarted, pc, cfg, taskVars, canCache>>
  BY DEF FailPrimary, At, StartScript
<1>2. /\ cfg \in Configs /\ pc \in 1..Len(Programs[cfg])
      /\ StepOK(Programs[cfg][pc]) /\ UndoOK(Programs[cfg], pc)
  BY <1>1, CallFacts
<1>3. InUndo'
  <2> SUFFICES ASSUME undo.reset, NEW t \in ActiveQueueTasks
               PROVE  t \in undo.stop
    BY <1>1 DEF InUndo, ActiveQueueTasks, taskVars
  <2> QED
    BY <1>1, <1>2 DEF InStart, UndoOK, ActiveQueueTasks
<1>4. InStart' /\ InStop' /\ InSecondary'
  BY <1>1 DEF InStart, InStop, InSecondary, Stopping
<1>5. ControlType'
  <2>1. undo.stop \in SUBSET Tasks /\ undo.reset \in BOOLEAN
    BY <1>2 DEF StepOK
  <2>2. phase' \in Phases /\ result' \in Results
    BY <1>1 DEF Phases, Results
  <2>3. QED
    BY <1>1, <1>2, <2>1, <2>2, Zenon DEF TypeOK, ControlType
<1>6. TypeOK'
  BY <1>1, <1>5 DEF TypeOK, TaskType, DataType, taskVars
<1>7. NoDanglingQueue' /\ CtxLive' /\ CtxDistinct'
  BY <1>1 DEF NoDanglingQueue, CtxLive, CtxDistinct, taskVars
<1>8. QED
  BY <1>3, <1>4, <1>6, <1>7

\* Only startSecondaryBmsTask's own queue goes, which nobody works on.
LEMMA FailSecondaryInv == IInv /\ FailSecondary => IInv'
<1> SUFFICES ASSUME IInv, FailSecondary PROVE IInv'
  OBVIOUS
<1> USE DEF IInv
<1>1. /\ CallsLeft /\ phase = "secondary" /\ phase' = "aborting" /\ pc' = 1
      /\ live' = live \ {ctx["sec"]} /\ ctx' = [ctx EXCEPT !["sec"] = NULL]
      /\ result' = "failed"
      /\ UNCHANGED <<modeStarted, cfg, toStop, resets, running, held, active, dataVars>>
  BY DEF FailSecondary, At
<1>2. \A t \in ActiveQueueTasks : ctx["sec"] \notin held[t]
  <2> SUFFICES ASSUME NEW t \in ActiveQueueTasks
               PROVE  ctx["sec"] \notin held[t]
    OBVIOUS
  <2>1. held[t] \subseteq Handles
    BY DEF TypeOK, TaskType, ActiveQueueTasks
  <2>2. pc \in {1, 2}
    BY <1>1, CallFacts
  <2>3. QED
    BY <1>1, <2>1, <2>2, HandlesAssumption DEF InSecondary
<1>3. NoDanglingQueue'
  BY <1>1, <1>2 DEF NoDanglingQueue, ActiveQueueTasks
<1>4. CtxLive' /\ CtxDistinct'
  BY <1>1 DEF CtxLive, CtxDistinct, TypeOK, TaskType, Slots
<1>5. InStop'
  <2> SUFFICES \A t \in ActiveQueueTasks :
                  \E j \in 1..24 : StopScript[j].op = "stop" /\ StopScript[j].arg = t
    BY <1>1 DEF InStop, ActiveQueueTasks
  <2> QED
    BY StopCoversQueueTasks DEF ActiveQueueTasks
<1>6. InStart' /\ InUndo' /\ InSecondary'
  BY <1>1 DEF InStart, InUndo, InSecondary
<1>7. ControlType'
  <2>1. phase' \in Phases /\ result' \in Results /\ pc' \in Nat \ {0}
        /\ phase' \notin {"starting", "undoing", "secondary"}
    BY <1>1 DEF Phases, Results
  <2>2. QED
    BY <1>1, <2>1, Zenon DEF TypeOK, ControlType
<1>8. TaskType'
  BY <1>1 DEF TypeOK, TaskType
<1>9. QED
  BY <1>1, <1>3, <1>4, <1>5, <1>6, <1>7, <1>8 DEF TypeOK, DataType, dataVars

\* A failure path deletes one task.
LEMMA UndoStopInv == IInv /\ (\E t \in Tasks : UndoStop(t)) => IInv'
<1> SUFFICES ASSUME IInv, NEW t \in Tasks, UndoStop(t) PROVE IInv'
  OBVIOUS
<1> USE DEF IInv
<1>1. /\ phase = "undoing" /\ toStop' = toStop \ {t}
      /\ running' = running \ {t} /\ held' = HeldAfterStop(t)
      /\ model' = ModelAfterStop(t)
      /\ UNCHANGED <<modeStarted, phase, pc, cfg, result, resets, ctx, active, live, canCache>>
  BY DEF UndoStop
<1>2. /\ ActiveQueueTasks' = ActiveQueueTasks \ {t}
      /\ \A u \in ActiveQueueTasks' : held'[u] = held[u]
  BY <1>1 DEF ActiveQueueTasks, HeldAfterStop
<1>3. InStart' /\ InUndo' /\ InStop' /\ InSecondary'
  BY <1>1, <1>2 DEF InStart, InUndo, InStop, InSecondary, Stopping
<1>4. ControlType'
  BY <1>1, Zenon DEF TypeOK, ControlType
<1>5. TaskType'
  BY <1>1 DEF TypeOK, TaskType, HeldAfterStop
<1>6. DataType'
  BY <1>1 DEF TypeOK, DataType, ModelAfterStop
<1>7. NoDanglingQueue' /\ CtxLive' /\ CtxDistinct'
  BY <1>1, <1>2 DEF NoDanglingQueue, CtxLive, CtxDistinct, ActiveQueueTasks
<1>8. QED
  BY <1>3, <1>4, <1>5, <1>6, <1>7 DEF TypeOK

\* When a failure path deletes queues, no task that works on them is left.
LEMMA UndoReturnInv == IInv /\ UndoReturn => IInv'
<1> SUFFICES ASSUME IInv, UndoReturn PROVE IInv'
  OBVIOUS
<1> USE DEF IInv
<1>1. /\ phase = "undoing" /\ toStop = {} /\ phase' = "idle" /\ resets' = FALSE
      /\ live' = IF resets THEN live \ CtxHandles ELSE live
      /\ ctx' = IF resets THEN EmptyCtx ELSE ctx
      /\ UNCHANGED <<modeStarted, pc, cfg, result, toStop, running, held, active, dataVars>>
  BY DEF UndoReturn
<1>2. resets => ActiveQueueTasks = {}
  BY <1>1 DEF InUndo
<1>3. NoDanglingQueue'
  BY <1>1, <1>2 DEF NoDanglingQueue, ActiveQueueTasks
<1>4. CtxLive' /\ CtxDistinct'
  BY <1>1 DEF CtxLive, CtxDistinct, EmptyCtx
<1>5. InStart' /\ InUndo' /\ InStop' /\ InSecondary'
  BY <1>1 DEF InStart, InUndo, InStop, InSecondary, Stopping
<1>6. ControlType'
  <2>1. phase' \in Phases /\ phase' \notin {"starting", "undoing", "secondary"}
    BY <1>1 DEF Phases
  <2>2. QED
    BY <1>1, <2>1, Zenon DEF TypeOK, ControlType
<1>7. TaskType'
  <2>1. ctx' \in [Slots -> Handles \cup {NULL}] /\ live' \in SUBSET Handles
    BY <1>1 DEF TypeOK, TaskType, EmptyCtx
  <2>2. QED
    BY <1>1, <2>1 DEF TypeOK, TaskType
<1>8. QED
  BY <1>1, <1>3, <1>4, <1>5, <1>6, <1>7 DEF TypeOK, DataType, dataVars

\* Moving to the next script.
LEMMA PrimaryStartedInv == IInv /\ PrimaryStarted => IInv'
<1> SUFFICES ASSUME IInv, PrimaryStarted PROVE IInv'
  OBVIOUS
<1> USE DEF IInv
<1>1. /\ phase = "starting" /\ phase' = "secondary" /\ pc' = 1
      /\ UNCHANGED <<modeStarted, cfg, result, toStop, resets, taskVars, dataVars>>
  BY DEF PrimaryStarted
<1>2. ControlType'
  <2>1. phase' \in Phases /\ pc' \in Nat \ {0}
    BY <1>1 DEF Phases
  <2>2. cfg \in Configs
    BY <1>1 DEF TypeOK, ControlType
  <2>3. QED
    BY <1>1, <2>1, <2>2, Zenon DEF TypeOK, ControlType
<1>3. TypeOK'
  BY <1>1, <1>2 DEF TypeOK, TaskType, DataType, taskVars, dataVars
<1>4. InStart' /\ InUndo' /\ InStop' /\ InSecondary'
  BY <1>1 DEF InStart, InUndo, InStop, InSecondary, Stopping, taskVars
<1>5. NoDanglingQueue' /\ CtxLive' /\ CtxDistinct'
  BY <1>1 DEF NoDanglingQueue, CtxLive, CtxDistinct, taskVars
<1>6. QED
  BY <1>3, <1>4, <1>5

\* A return of the control task changes no task.
LEMMA ReturnInv == IInv /\ (StartReturns \/ AbortReturns) => IInv'
<1> SUFFICES ASSUME IInv, StartReturns \/ AbortReturns PROVE IInv'
  OBVIOUS
<1> USE DEF IInv
<1>1. /\ phase \in {"secondary", "aborting"} /\ phase' = "idle"
      /\ modeStarted' \in {modeStarted, TRUE} /\ result' \in {result, "ok"}
      /\ UNCHANGED <<pc, cfg, toStop, resets, taskVars, dataVars>>
  BY DEF StartReturns, AbortReturns
<1>2. ControlType'
  <2>1. phase' \in Phases /\ phase' \notin {"starting", "undoing", "secondary"}
    BY <1>1 DEF Phases
  <2>2. result' \in Results
    BY <1>1 DEF TypeOK, ControlType, Results
  <2>3. modeStarted' \in BOOLEAN
    BY <1>1, Zenon DEF TypeOK, ControlType
  <2>4. QED
    BY <1>1, <2>1, <2>2, <2>3, Zenon DEF TypeOK, ControlType
<1>3. TypeOK'
  BY <1>1, <1>2 DEF TypeOK, TaskType, DataType, taskVars, dataVars
<1>4. InStart' /\ InUndo' /\ InStop' /\ InSecondary'
  BY <1>1 DEF InStart, InUndo, InStop, InSecondary, Stopping, taskVars
<1>5. NoDanglingQueue' /\ CtxLive' /\ CtxDistinct'
  BY <1>1 DEF NoDanglingQueue, CtxLive, CtxDistinct, taskVars
<1>6. QED
  BY <1>3, <1>4, <1>5

\* After orchestratorStop nothing that uses a queue runs.
LEMMA BeginStartInv == IInv /\ (\E s \in Configs : BeginStart(s)) => IInv'
<1> SUFFICES ASSUME IInv, NEW s \in Configs, BeginStart(s) PROVE IInv'
  OBVIOUS
<1> USE DEF IInv
<1>1. /\ phase = "stopping" /\ ~CallsLeft /\ cfg' = s /\ pc' = 1
      /\ phase' \in {"idle", "starting"} /\ result' \in {"already_running", "none"}
      /\ model' = [model EXCEPT !.age = Aged(@)] /\ canCache' = Aged(canCache)
      /\ UNCHANGED <<modeStarted, toStop, resets, taskVars>>
  BY DEF BeginStart
<1>2. pc > 26
  BY <1>1, StopShape DEF CallsLeft, Starting, Stopping, TypeOK, ControlType
<1>3. ctx = EmptyCtx /\ ActiveQueueTasks = {}
  BY <1>1, <1>2 DEF InStop, Stopping, TypeOK, ControlType
<1>4. InStart' /\ InUndo' /\ InStop' /\ InSecondary'
  BY <1>1, <1>3 DEF InStart, InUndo, InStop, InSecondary, Stopping, taskVars,
                    ActiveQueueTasks, EmptyCtx, Slots
<1>5. ControlType'
  <2>1. phase' \in Phases /\ pc' \in Nat \ {0} /\ result' \in Results
    BY <1>1 DEF Phases, Results
  <2>2. QED
    BY <1>1, <2>1, Zenon DEF TypeOK, ControlType
<1>6. DataType'
  <2>1. Aged(canCache) \in {"empty"} \cup Ages
    BY DEF TypeOK, DataType, Aged, Ages
  <2>2. CASE model = NoModel
    BY <1>1, <2>1, <2>2 DEF DataType, NoModel, Aged
  <2>3. CASE model \in [by : Publishers, age : Ages]
    BY <1>1, <2>1, <2>3 DEF DataType, Aged, Ages
  <2>4. QED
    BY <2>2, <2>3 DEF TypeOK, DataType
<1>7. TypeOK' /\ NoDanglingQueue' /\ CtxLive' /\ CtxDistinct'
  BY <1>1, <1>5, <1>6 DEF TypeOK, TaskType, NoDanglingQueue, CtxLive, CtxDistinct, taskVars
<1>8. QED
  BY <1>4, <1>7

\* A new apply begins with the stop script.
LEMMA ApplyRequestInv == IInv /\ ApplyRequest => IInv'
<1> SUFFICES ASSUME IInv, ApplyRequest PROVE IInv'
  OBVIOUS
<1> USE DEF IInv
<1>1. /\ phase = "idle" /\ phase' = "stopping" /\ pc' = 1
      /\ UNCHANGED <<modeStarted, cfg, result, toStop, resets, taskVars, dataVars>>
  BY DEF ApplyRequest
<1>2. InStop'
  <2> SUFFICES \A t \in ActiveQueueTasks :
                  \E j \in 1..24 : StopScript[j].op = "stop" /\ StopScript[j].arg = t
    BY <1>1 DEF InStop, ActiveQueueTasks, taskVars
  <2> QED
    BY StopCoversQueueTasks DEF ActiveQueueTasks
<1>3. ControlType'
  <2>1. phase' \in Phases /\ pc' \in Nat \ {0}
        /\ phase' \notin {"starting", "undoing", "secondary"}
    BY <1>1 DEF Phases
  <2>2. QED
    BY <1>1, <2>1, Zenon DEF TypeOK, ControlType
<1>4. InStart' /\ InUndo' /\ InSecondary'
  BY <1>1 DEF InStart, InUndo, InSecondary
<1>5. TypeOK' /\ NoDanglingQueue' /\ CtxLive' /\ CtxDistinct'
  BY <1>1, <1>3 DEF TypeOK, TaskType, DataType, NoDanglingQueue, CtxLive, CtxDistinct,
                    taskVars, dataVars
<1>6. QED
  BY <1>2, <1>4, <1>5

\* The tasks themselves only write data.
LEMMA DataStep ==
    ASSUME IInv, UNCHANGED <<controlVars, taskVars>>, DataType'
    PROVE  IInv'
BY DEF IInv, TypeOK, ControlType, TaskType, NoDanglingQueue, CtxLive, CtxDistinct,
       InStart, InUndo, InStop, InSecondary, ActiveQueueTasks, Stopping,
       controlVars, taskVars

\* What the running tasks publish changes no task and no queue.
LEMMA TaskWritesInv ==
    ASSUME IInv, NEW t \in Tasks, Publish(t) \/ SourceStale(t) \/ CanFrame(t)
    PROVE  IInv'
<1>1. UNCHANGED <<controlVars, taskVars>>
  BY DEF Publish, SourceStale, CanFrame
<1>2. DataType'
  BY DEF IInv, TypeOK, DataType, Publish, SourceStale, CanFrame, Ages
<1>3. QED
  BY <1>1, <1>2, DataStep

-----------------------------------------------------------------------------

\* Every step preserves the invariant.
LEMMA NextIInv == IInv /\ [Next]_vars => IInv'
<1> SUFFICES ASSUME IInv, [Next]_vars PROVE IInv'
  OBVIOUS
<1>1. CASE Control
  BY <1>1, MemsetCtxInv, CanDecoderResetCachesInv, SetActiveInv, TaskStopInv,
     PylonRs485BridgeEnableInv, CanForwardSnifferStartInv, OrchestratorResetInv,
     CreateQueueInv, TaskStartInv, FailPrimaryInv, FailSecondaryInv, UndoStopInv,
     UndoReturnInv, PrimaryStartedInv, ReturnInv, BeginStartInv
  DEF Control
<1>2. CASE Environment
  BY <1>2, ApplyRequestInv, TaskWritesInv DEF Environment
<1>3. CASE UNCHANGED vars
  <2>1. UNCHANGED <<controlVars, taskVars>> /\ UNCHANGED dataVars
    BY <1>3 DEF vars
  <2>2. DataType'
    BY <2>1 DEF IInv, TypeOK, DataType, dataVars
  <2>3. QED
    BY <2>1, <2>2, DataStep
<1>4. QED
  BY <1>1, <1>2, <1>3 DEF Next

\* The invariant holds in every reachable state.
THEOREM Invariance == Spec => []IInv
BY InitIInv, NextIInv, PTL DEF Spec

\* Every variable keeps to its type, whatever the configurations and handles.
THEOREM TypeCorrect == Spec => []TypeOK
<1>1. IInv => TypeOK
  BY DEF IInv
<1>2. QED
  BY <1>1, Invariance, PTL

\* No running task ever works on a deleted queue, for every set of valid
\* bridge configurations, every failure and every interleaving.
THEOREM QueuesOutliveTasks == Spec => []NoDanglingQueue
<1>1. IInv => NoDanglingQueue
  BY DEF IInv
<1>2. QED
  BY <1>1, Invariance, PTL

-----------------------------------------------------------------------------
(* No queue is leaked, whichever calls fail: a memset of the context       *)
(* forgets nothing, since it comes first in a program or after the reset,  *)
(* and a queue is created only in a field that is empty.                   *)

\* A program clears the context before anything else, and fills a field once.
Careful(p) ==
    \A i \in 1..Len(p) :
        /\ p[i].call.op = "memset" => i = 1
        /\ \A j \in 1..(i - 1) :
              p[i].call.op = "create" /\ p[j].call.op = "create" => p[i].call.arg # p[j].call.arg

\* While a route starts, a field that is not empty was filled by its program.
InCreate ==
    phase = "starting" =>
        \A slot \in PrimarySlots : ctx[slot] # NULL =>
            \E j \in 1..(pc - 1) : /\ Programs[cfg][j].call.op = "create"
                                  /\ Programs[cfg][j].call.arg = slot

LeakInv == NoQueueLeak /\ InCreate

-----------------------------------------------------------------------------
(* The programs.                                                           *)

LEMMA Ops ==
    /\ Memset.call.op = "memset" /\ ResetCaches.call.op = "caches" /\ EnablePylon.call.op = "bridge"
    /\ StartForwarder.call.op = "forwarder" /\ Activate.call.op = "activate"
    /\ \A slot, u : Create(slot, u).call.op = "create" /\ Create(slot, u).call.arg = slot
    /\ \A t, slots, u : Spawn(t, slots, u).call.op = "start"
  BY DEF Memset, ResetCaches, EnablePylon, StartForwarder, Activate, Create, Spawn, Call

LEMMA FixedCareful ==
    /\ Careful(CanToRsGrowattProgram) /\ Careful(RsPylonToRsGrowattProgram)
    /\ Careful(RsPylonToCanGrowattProgram) /\ Careful(CanDalyToCanPylonProgram)
    /\ Careful(PassthroughProgram) /\ Careful(PylonBridgeProgram) /\ Careful(PylonToCanProgram)
  <1>1. Careful(CanToRsGrowattProgram) /\ Careful(RsPylonToRsGrowattProgram)
    BY Ops DEF Careful, CanToRsGrowattProgram, RsPylonToRsGrowattProgram
  <1>2. Careful(RsPylonToCanGrowattProgram) /\ Careful(CanDalyToCanPylonProgram)
    BY Ops DEF Careful, RsPylonToCanGrowattProgram, CanDalyToCanPylonProgram
  <1>3. Careful(PassthroughProgram) /\ Careful(PylonBridgeProgram) /\ Careful(PylonToCanProgram)
    BY Ops DEF Careful, PassthroughProgram, PylonBridgeProgram, PylonToCanProgram
  <1> QED BY <1>1, <1>2, <1>3

LEMMA ParametersCareful ==
    ASSUME NEW t, NEW u
    PROVE  /\ Careful(ModelResponderProgram(t, u)) /\ Careful(RsJkbmsToCanGrowattProgram(t))
           /\ Careful(PylonResponderProgram(t)) /\ Careful(GenericProgram(t, u))
  <1>1. Careful(ModelResponderProgram(t, u)) /\ Careful(RsJkbmsToCanGrowattProgram(t))
    BY Ops DEF Careful, ModelResponderProgram, RsJkbmsToCanGrowattProgram
  <1>2. Careful(PylonResponderProgram(t)) /\ Careful(GenericProgram(t, u))
    BY Ops DEF Careful, PylonResponderProgram, GenericProgram
  <1> QED BY <1>1, <1>2

LEMMA ProgramCareful ==
    ASSUME NEW s
    PROVE  Careful(Program(s))
  BY FixedCareful, ParametersCareful DEF Program

LEMMA StopMemset == \A i \in 1..26 : StopScript[i].op = "memset" => i = 26
  BY DEF StopScript, Stop, Call

\* What a call that touches the context is, by phase.
LEMMA CarefulCall ==
    ASSUME IInv, CallsLeft
    PROVE  /\ CurrentCall.op = "memset" => \/ phase = "starting" /\ pc = 1
                                           \/ Stopping /\ pc = 26
           /\ CurrentCall.op = "reset" => Stopping
           /\ CurrentCall.op = "create" => \/ phase = "starting" /\ CurrentCall.arg \in PrimarySlots
                                           \/ phase = "secondary" /\ pc = 1 /\ CurrentCall.arg = "sec"
           /\ phase = "starting" => Careful(Programs[cfg])
  <1>1. TypeOK
    BY DEF IInv
  <1>2. phase = "starting" => Careful(Programs[cfg]) /\ StepOK(Programs[cfg][pc])
                              /\ pc \in 1..Len(Programs[cfg]) /\ CurrentCall = Programs[cfg][pc].call
    BY <1>1, CallFacts, ProgramCareful DEF Programs
  <1>3. CASE phase = "starting"
    BY <1>2, <1>3 DEF Careful, StepOK, StartOps
  <1>4. CASE phase = "secondary"
    BY <1>1, <1>4, CallFacts
  <1>5. CASE Stopping
    BY <1>1, <1>5, CallFacts, StopMemset DEF StopOps, Stopping
  <1> QED BY <1>1, <1>3, <1>4, <1>5, CallFacts DEF Stopping

-----------------------------------------------------------------------------
(* The steps.                                                              *)

LEMMA EmptyHasNone == EmptyCtx["sec"] = NULL /\ \A slot \in PrimarySlots : EmptyCtx[slot] = NULL
  BY DEF EmptyCtx, Slots, PrimarySlots

\* What leaves queues and context alone, and does not begin a start.
LEMMA QueuesKept ==
    ASSUME IInv, LeakInv, UNCHANGED <<live, ctx>>,
           phase' = "starting" => phase = "starting" /\ cfg' = cfg /\ pc' \in {pc, pc + 1}
    PROVE  LeakInv'
  <1>1. NoQueueLeak'
    BY DEF LeakInv, NoQueueLeak, CtxHandles
  <1>2. InCreate'
    BY DEF LeakInv, InCreate, IInv, TypeOK, ControlType
  <1> QED BY <1>1, <1>2 DEF LeakInv

LEMMA MemsetLeak ==
    ASSUME IInv, LeakInv, MemsetCtx
    PROVE  LeakInv'
  <1>1. CallsLeft /\ CurrentCall.op = "memset" /\ ctx' = EmptyCtx /\ live' = live /\ phase' = phase
    BY DEF MemsetCtx, At, Advance
  <1>2. \A slot \in Slots : ctx[slot] = NULL
    <2>1. CASE phase = "starting" /\ pc = 1
      BY <2>1 DEF LeakInv, InCreate, IInv, InStart, Slots, PrimarySlots
    <2>2. CASE Stopping /\ pc = 26
      BY <2>2 DEF IInv, InStop, EmptyCtx
    <2> QED BY <1>1, <2>1, <2>2, CarefulCall
  <1>3. live = {}
    BY <1>2 DEF LeakInv, NoQueueLeak, CtxHandles
  <1>4. NoQueueLeak'
    BY <1>1, <1>3 DEF NoQueueLeak, CtxHandles, EmptyCtx
  <1>5. InCreate'
    BY <1>1, EmptyHasNone DEF InCreate
  <1> QED BY <1>4, <1>5 DEF LeakInv

LEMMA ResetLeak ==
    ASSUME IInv, LeakInv, OrchestratorReset
    PROVE  LeakInv'
  <1>1. ctx' = EmptyCtx /\ live' = {}
    BY DEF OrchestratorReset, LeakInv, NoQueueLeak
  <1>2. NoQueueLeak'
    BY <1>1 DEF NoQueueLeak, CtxHandles, EmptyCtx
  <1>3. InCreate'
    BY <1>1, EmptyHasNone DEF InCreate
  <1> QED BY <1>2, <1>3 DEF LeakInv

\* A field in which a queue is created was empty.
LEMMA CreateLeak ==
    ASSUME IInv, LeakInv, CreateQueue
    PROVE  LeakInv'
  <1> DEFINE slot == CurrentCall.arg
  <1>1. PICK h \in Handles \ live : live' = live \cup {h} /\ ctx' = [ctx EXCEPT ![slot] = h]
    BY DEF CreateQueue
  <1>2. /\ CallsLeft /\ CurrentCall.op = "create"
        /\ phase' = phase /\ cfg' = cfg /\ pc' = pc + 1 /\ pc \in Nat \ {0}
    BY DEF CreateQueue, At, Advance, IInv, TypeOK, ControlType
  <1>3. slot \in Slots /\ ctx \in [Slots -> Handles \cup {NULL}]
    BY <1>2, CarefulCall DEF Slots, PrimarySlots, IInv, TypeOK, TaskType
  <1>4. phase = "starting" =>
            /\ slot \in PrimarySlots /\ Careful(Programs[cfg]) /\ pc \in 1..Len(Programs[cfg])
            /\ CurrentCall = Programs[cfg][pc].call
    BY <1>2, CarefulCall, CallFacts DEF IInv
  <1>5. ctx[slot] = NULL
    <2>1. CASE phase = "starting"
      BY <1>2, <1>4, <2>1 DEF LeakInv, InCreate, Careful
    <2>2. CASE phase = "secondary"
      BY <1>2, <2>2, CarefulCall DEF IInv, InSecondary
    <2> QED BY <1>2, <2>1, <2>2, CarefulCall
  <1>6. NoQueueLeak'
    BY <1>1, <1>3, <1>5, HandlesAssumption DEF LeakInv, NoQueueLeak, CtxHandles
  <1>7. InCreate'
    <2> SUFFICES ASSUME phase = "starting", NEW r \in PrimarySlots, ctx'[r] # NULL
                 PROVE  \E j \in 1..pc : /\ Programs[cfg][j].call.op = "create"
                                        /\ Programs[cfg][j].call.arg = r
      BY <1>2 DEF InCreate
    <2>1. CASE r = slot
      BY <1>2, <1>4, <2>1
    <2>2. CASE r # slot
      <3>1. ctx[r] # NULL
        BY <1>1, <1>3, <2>2 DEF Slots, PrimarySlots
      <3> QED BY <1>2, <3>1 DEF LeakInv, InCreate
    <2> QED BY <2>1, <2>2
  <1> QED BY <1>6, <1>7 DEF LeakInv

LEMMA FailSecondaryLeak ==
    ASSUME IInv, LeakInv, FailSecondary
    PROVE  LeakInv'
  <1>1. live' = live \ {ctx["sec"]} /\ ctx' = [ctx EXCEPT !["sec"] = NULL] /\ phase' = "aborting"
    BY DEF FailSecondary
  <1>2. ctx \in [Slots -> Handles \cup {NULL}] /\ "sec" \in Slots
    BY DEF IInv, TypeOK, TaskType, Slots
  <1>3. \A slot \in Slots \ {"sec"} : ctx[slot] = ctx["sec"] => ctx[slot] = NULL
    BY <1>2 DEF IInv, CtxDistinct
  <1>4. NoQueueLeak'
    BY <1>1, <1>2, <1>3 DEF LeakInv, NoQueueLeak, CtxHandles
  <1>5. InCreate'
    BY <1>1 DEF InCreate
  <1> QED BY <1>4, <1>5 DEF LeakInv

LEMMA UndoReturnLeak ==
    ASSUME IInv, LeakInv, UndoReturn
    PROVE  LeakInv'
  <1>1. phase' = "idle" /\ live' = (IF resets THEN live \ CtxHandles ELSE live)
        /\ ctx' = (IF resets THEN EmptyCtx ELSE ctx)
    BY DEF UndoReturn
  <1>2. NoQueueLeak'
    BY <1>1 DEF LeakInv, NoQueueLeak, CtxHandles, EmptyCtx
  <1>3. InCreate'
    BY <1>1 DEF InCreate
  <1> QED BY <1>2, <1>3 DEF LeakInv

\* A start begins with an empty context.
LEMMA BeginStartLeak ==
    ASSUME IInv, LeakInv, NEW s \in Configs, BeginStart(s)
    PROVE  LeakInv'
  <1>1. phase = "stopping" /\ ~CallsLeft /\ UNCHANGED <<live, ctx>>
    BY DEF BeginStart, taskVars
  <1>2. pc > 25
    BY <1>1, StopShape DEF CallsLeft, Starting, Stopping, IInv, TypeOK, ControlType
  <1>3. ctx = EmptyCtx
    BY <1>1, <1>2 DEF IInv, InStop, Stopping
  <1>4. NoQueueLeak'
    BY <1>1 DEF LeakInv, NoQueueLeak, CtxHandles
  <1>5. InCreate'
    BY <1>1, <1>3, EmptyHasNone DEF InCreate
  <1> QED BY <1>4, <1>5 DEF LeakInv

LEMMA NextLeak ==
    ASSUME IInv, LeakInv, [Next]_vars
    PROVE  LeakInv'
  <1>1. CASE CanDecoderResetCaches \/ SetActive \/ TaskStop \/ PylonRs485BridgeEnable
             \/ CanForwardSnifferStart \/ TaskStart
    BY <1>1, QueuesKept DEF CanDecoderResetCaches, SetActive, TaskStop, PylonRs485BridgeEnable,
                            CanForwardSnifferStart, TaskStart, Advance, taskVars
  <1>2. CASE FailPrimary
    BY <1>2, QueuesKept DEF FailPrimary, taskVars
  <1>3. CASE \E t \in Tasks : UndoStop(t)
    BY <1>3, QueuesKept DEF UndoStop
  <1>4. CASE PrimaryStarted \/ StartReturns \/ AbortReturns \/ ApplyRequest
    BY <1>4, QueuesKept DEF PrimaryStarted, StartReturns, AbortReturns, ApplyRequest, taskVars
  <1>5. CASE \E t \in Tasks : Publish(t) \/ SourceStale(t) \/ CanFrame(t)
    BY <1>5, QueuesKept DEF Publish, SourceStale, CanFrame, controlVars, taskVars
  <1>6. CASE UNCHANGED vars
    BY <1>6, QueuesKept DEF vars, controlVars, taskVars
  <1>7. CASE MemsetCtx \/ OrchestratorReset \/ CreateQueue \/ FailSecondary \/ UndoReturn
    BY <1>7, MemsetLeak, ResetLeak, CreateLeak, FailSecondaryLeak, UndoReturnLeak
  <1>8. CASE \E s \in Configs : BeginStart(s)
    BY <1>8, BeginStartLeak
  <1> QED BY <1>1, <1>2, <1>3, <1>4, <1>5, <1>6, <1>7, <1>8 DEF Next, Control, Environment

LEMMA InitLeak == Init => LeakInv
  BY DEF Init, LeakInv, NoQueueLeak, CtxHandles, EmptyCtx, InCreate

\* orchestratorReset deletes what xQueueCreate allocated: whatever calls fail on the way, a queue
\* that exists is one the context still names.
THEOREM QueuesAreNotLeaked == Spec => []NoQueueLeak
  <1>1. Init => LeakInv
    BY InitLeak
  <1>2. IInv /\ LeakInv /\ [Next]_vars => LeakInv'
    BY NextLeak
  <1>3. LeakInv => NoQueueLeak
    BY DEF LeakInv
  <1> QED BY <1>1, <1>2, <1>3, Invariance, PTL DEF Spec

-----------------------------------------------------------------------------
(* What a route promises: a dedicated start that fails leaves nothing, one *)
(* that returns ESP_OK has started every task it checks, a start finds its *)
(* task stopped and its queues created. The argument is about what the     *)
(* calls of a program bring: no task is brought twice, no queue is used    *)
(* before it is created, a failure path stops all that was brought.        *)


\* The tasks a step may bring, and those it may bring under a configuration.
MayBring(step) ==
    IF step.call.op = "start" THEN {step.call.arg}
    ELSE IF step.call.op = "bridge" THEN PylonTasks
    ELSE IF step.call.op = "forwarder" THEN ForwarderTasks ELSE {}

Brings(s, step) ==
    IF step.call.op = "start" THEN {step.call.arg}
    ELSE IF step.call.op = "bridge" THEN PylonTasksOf[s]
    ELSE IF step.call.op = "forwarder" THEN ForwarderTasksOf[s] ELSE {}

\* No task is brought twice.
Tidy(p) == \A i \in 1..Len(p) : \A j \in 1..(i - 1) : MayBring(p[i]) \cap MayBring(p[j]) = {}

\* The failure path of a step stops what came before it and resets the queues that were created.
Clean(p) ==
    \A i \in 1..Len(p) : p[i].call.op \in {"create", "start"} =>
        /\ \A j \in 1..(i - 1) : MayBring(p[j]) \subseteq p[i].undo.stop
        /\ p[i].undo.reset \/ \A j \in 1..(i - 1) : p[j].call.op # "create"

-----------------------------------------------------------------------------
(* The programs.                                                           *)

LEMMA StepsBring ==
    /\ MayBring(Memset) = {} /\ MayBring(ResetCaches) = {} /\ MayBring(Activate) = {}
    /\ MayBring(EnablePylon) = PylonTasks /\ MayBring(StartForwarder) = ForwarderTasks
    /\ \A slot, u : MayBring(Create(slot, u)) = {}
    /\ \A t, slots, u : MayBring(Spawn(t, slots, u)) = {t}
  BY DEF MayBring, Memset, ResetCaches, EnablePylon, StartForwarder, Activate, Create, Spawn, Call

LEMMA Undone ==
    /\ Keep.stop = {} /\ Reset.reset /\ Reset.stop = {}
    /\ \A tasks : Drop(tasks).reset /\ Drop(tasks).stop = tasks
    /\ \A slot, u : Create(slot, u).undo = u
    /\ \A t, slots, u : Spawn(t, slots, u).undo = u
  BY DEF Keep, Reset, Drop, Create, Spawn

LEMMA KindsApart ==
    /\ PylonTasks \cap ForwarderTasks = {}
    /\ (QueueTasks \cup Responders) \cap (PylonTasks \cup ForwarderTasks) = {}
    /\ QueueTasks \cap Responders = {} /\ Pollers \cap {"pylonBms", "growattInv", "pylonInv", "orchestrator"} = {}
    /\ "growattInv" # "pylonInv" /\ "orchestrator" \notin {"growattInv", "pylonInv", "pylonBms"}
    /\ {"canRsGrowatt", "modelRsGrowatt"} = Responders
    /\ {"growattInv", "pylonInv", "orchestrator", "pylonBms"} \cup Pollers = QueueTasks
    /\ JkbmsTasks \subseteq Pollers /\ "dalyCan" \in Pollers
  BY DEF PylonTasks, ForwarderTasks, QueueTasks, Pollers, Responders, JkbmsTasks

LEMMA FixedTidy ==
    /\ Tidy(CanToRsGrowattProgram) /\ Tidy(RsPylonToRsGrowattProgram)
    /\ Tidy(RsPylonToCanGrowattProgram) /\ Tidy(CanDalyToCanPylonProgram)
    /\ Tidy(PassthroughProgram) /\ Tidy(PylonBridgeProgram) /\ Tidy(PylonToCanProgram)
  <1>1. Tidy(CanToRsGrowattProgram) /\ Tidy(RsPylonToRsGrowattProgram)
    BY StepsBring, KindsApart DEF Tidy, CanToRsGrowattProgram, RsPylonToRsGrowattProgram
  <1>2. Tidy(RsPylonToCanGrowattProgram)
    BY StepsBring, KindsApart DEF Tidy, RsPylonToCanGrowattProgram
  <1>3. Tidy(CanDalyToCanPylonProgram)
    BY StepsBring, KindsApart DEF Tidy, CanDalyToCanPylonProgram
  <1>4. Tidy(PassthroughProgram) /\ Tidy(PylonBridgeProgram)
    BY StepsBring, KindsApart DEF Tidy, PassthroughProgram, PylonBridgeProgram
  <1>5. Tidy(PylonToCanProgram)
    BY StepsBring, KindsApart DEF Tidy, PylonToCanProgram
  <1> QED BY <1>1, <1>2, <1>3, <1>4, <1>5

LEMMA ParametersTidy ==
    ASSUME NEW t \in Pollers, NEW u
    PROVE  /\ Tidy(ModelResponderProgram(t, u)) /\ Tidy(RsJkbmsToCanGrowattProgram(t))
           /\ Tidy(PylonResponderProgram(t))
  <1>1. Tidy(ModelResponderProgram(t, u))
    BY StepsBring, KindsApart DEF Tidy, ModelResponderProgram
  <1>2. Tidy(RsJkbmsToCanGrowattProgram(t))
    BY StepsBring, KindsApart DEF Tidy, RsJkbmsToCanGrowattProgram
  <1>3. Tidy(PylonResponderProgram(t))
    BY StepsBring, KindsApart DEF Tidy, PylonResponderProgram
  <1> QED BY <1>1, <1>2, <1>3

LEMMA GenericTidy ==
    ASSUME NEW s
    PROVE  Tidy(GenericProgram(GenericBmsTask(s), GenericInverterTask(s)))
  <1>1. GenericInverterTask(s) \in {"growattInv", "pylonInv"}
    BY DEF GenericInverterTask
  <1>2. GenericBmsTask(s) \in Pollers \cup {"pylonBms"}
    <2>1. ProtocolIdFromUiProtocol(s.bms_protocol) \in
              {"GROWATT", "PYLON", "JKBMS", "JKBMS_NATIVE", "PACE", "VOLTRONIC",
               "CHINA_TOWER", "WOW", "SEPLOS", "DALY"}
      BY DEF ProtocolIdFromUiProtocol
    <2> QED BY <2>1 DEF GenericBmsTask, Pollers
  <1>3. GenericBmsTask(s) # GenericInverterTask(s) /\ GenericBmsTask(s) # "orchestrator"
        /\ GenericInverterTask(s) # "orchestrator"
    BY <1>1, <1>2 DEF Pollers
  <1> QED BY <1>3, StepsBring DEF Tidy, GenericProgram

LEMMA PollersOfRoutes ==
    ASSUME NEW p
    PROVE  /\ JkbmsPoller(p) \in JkbmsTasks /\ JkbmsPoller(p) \in Pollers
           /\ {"growattBms", "pace", "voltronic", "chinaTower", "wow", "seplos", "dalyRs485", "dalyCan"}
                  \subseteq Pollers
  BY DEF JkbmsPoller, JkbmsTasks, Pollers

LEMMA ProgramTidy ==
    ASSUME NEW s
    PROVE  Tidy(Program(s))
  <1>1. \A t \in Pollers : \A u :
            /\ Tidy(ModelResponderProgram(t, u)) /\ Tidy(RsJkbmsToCanGrowattProgram(t))
            /\ Tidy(PylonResponderProgram(t))
    BY ParametersTidy
  <1> QED BY <1>1, FixedTidy, GenericTidy, PollersOfRoutes DEF Program

LEMMA FixedClean ==
    /\ Clean(CanToRsGrowattProgram) /\ Clean(RsPylonToRsGrowattProgram)
    /\ Clean(RsPylonToCanGrowattProgram) /\ Clean(CanDalyToCanPylonProgram)
    /\ Clean(PassthroughProgram) /\ Clean(PylonBridgeProgram) /\ Clean(PylonToCanProgram)
  <1>1. Clean(CanToRsGrowattProgram) /\ Clean(RsPylonToRsGrowattProgram)
    BY StepsBring, Undone, Ops DEF Clean, CanToRsGrowattProgram, RsPylonToRsGrowattProgram
  <1>2. Clean(RsPylonToCanGrowattProgram)
    BY StepsBring, Undone, Ops DEF Clean, RsPylonToCanGrowattProgram
  <1>3. Clean(CanDalyToCanPylonProgram)
    BY StepsBring, Undone, Ops DEF Clean, CanDalyToCanPylonProgram
  <1>4. Clean(PassthroughProgram) /\ Clean(PylonBridgeProgram)
    BY StepsBring, Undone, Ops DEF Clean, PassthroughProgram, PylonBridgeProgram
  <1>5. Clean(PylonToCanProgram)
    BY StepsBring, Undone, Ops DEF Clean, PylonToCanProgram
  <1> QED BY <1>1, <1>2, <1>3, <1>4, <1>5

LEMMA ParametersClean ==
    ASSUME NEW t, NEW u, t \in u
    PROVE  Clean(ModelResponderProgram(t, u)) /\ Clean(PylonResponderProgram(t))
           /\ (t \in JkbmsTasks => Clean(RsJkbmsToCanGrowattProgram(t)))
  <1>1. Clean(ModelResponderProgram(t, u))
    BY StepsBring, Undone, Ops DEF Clean, ModelResponderProgram
  <1>2. Clean(PylonResponderProgram(t))
    BY StepsBring, Undone, Ops DEF Clean, PylonResponderProgram
  <1>3. t \in JkbmsTasks => Clean(RsJkbmsToCanGrowattProgram(t))
    BY StepsBring, Undone, Ops DEF Clean, RsJkbmsToCanGrowattProgram
  <1> QED BY <1>1, <1>2, <1>3

\* The branches of the cascade but the last.
Dedicated ==
    {"canToRsGrowatt", "rsPylonToRsGrowatt", "rsPylonToCanGrowatt", "rsJkbmsToRsGrowatt",
     "rsWowToRsGrowatt", "rsGrowattToRsGrowatt", "rsJkbmsToCanGrowatt", "rsJkbmsToRsPylon",
     "rsGrowattToRsPylon", "rsPaceToRsPylon", "rsVoltronicToRsPylon", "rsChinaTowerToRsPylon",
     "rsWowToRsPylon", "rsSeplosToRsPylon", "rsDalyToRsPylon", "canDalyToRsPylon",
     "canDalyToCanPylon", "canDirectPassthrough", "pylonRs485Route"}

\* The cascade selects a route that matches.
LEMMA RouteMatches ==
    ASSUME NEW s, Route(s) # "generic"
    PROVE  \E i \in 1..19 : Route(s) = RouteOrder[i] /\ Matches(s)[RouteOrder[i]]
  <1> DEFINE hits == {i \in DOMAIN RouteOrder : Matches(s)[RouteOrder[i]]}
  <1>1. DOMAIN RouteOrder = 1..19
    BY DEF RouteOrder
  <1>2. hits # {} /\ Route(s) = RouteOrder[Min(hits)]
    BY DEF Route
  <1>3. \E n \in hits : \A m \in hits : n <= m
    <2>0. hits \subseteq Nat
      BY <1>1
    <2> HIDE DEF hits
    <2>1. PICK n \in hits : \A m \in hits : <<m, n>> \notin OpToRel(<, Nat)
      BY <1>2, <2>0, NatLessThanWellFounded, WFMin
    <2>2. \A m \in hits : <<m, n>> \in Nat \X Nat /\ ~(m < n)
      BY <2>0, <2>1 DEF OpToRel
    <2>3. ASSUME NEW m \in hits PROVE n <= m
      <3>1. n \in Nat /\ m \in Nat /\ ~(m < n)
        BY <2>0, <2>2
      <3> QED BY <3>1
    <2> QED BY <2>3, Zenon
  <1>4. Min(hits) \in hits
    BY <1>3 DEF Min
  <1> QED BY <1>1, <1>2, <1>4

LEMMA NamesOfRoutes ==
    \A i \in 1..19 : RouteOrder[i] \in Dedicated
  BY DEF RouteOrder, Dedicated

LEMMA ProgramIsSequence ==
    ASSUME NEW s
    PROVE  DOMAIN Program(s) = 1..Len(Program(s)) /\ Len(Program(s)) \in Nat
  <1>1. \A t, u : /\ DOMAIN ModelResponderProgram(t, u) = 1..5 /\ Len(ModelResponderProgram(t, u)) = 5
                 /\ DOMAIN PylonResponderProgram(t) = 1..5 /\ Len(PylonResponderProgram(t)) = 5
                 /\ DOMAIN RsJkbmsToCanGrowattProgram(t) = 1..6 /\ Len(RsJkbmsToCanGrowattProgram(t)) = 6
                 /\ DOMAIN GenericProgram(t, u) = 1..6 /\ Len(GenericProgram(t, u)) = 6
    BY DEF ModelResponderProgram, PylonResponderProgram, RsJkbmsToCanGrowattProgram, GenericProgram
  <1>2. /\ DOMAIN CanToRsGrowattProgram = 1..2 /\ Len(CanToRsGrowattProgram) = 2
        /\ DOMAIN RsPylonToRsGrowattProgram = 1..5 /\ Len(RsPylonToRsGrowattProgram) = 5
        /\ DOMAIN RsPylonToCanGrowattProgram = 1..6 /\ Len(RsPylonToCanGrowattProgram) = 6
        /\ DOMAIN CanDalyToCanPylonProgram = 1..6 /\ Len(CanDalyToCanPylonProgram) = 6
        /\ DOMAIN PassthroughProgram = 1..4 /\ Len(PassthroughProgram) = 4
        /\ DOMAIN PylonBridgeProgram = 1..5 /\ Len(PylonBridgeProgram) = 5
        /\ DOMAIN PylonToCanProgram = 1..7 /\ Len(PylonToCanProgram) = 7
    BY DEF CanToRsGrowattProgram, RsPylonToRsGrowattProgram, RsPylonToCanGrowattProgram,
           CanDalyToCanPylonProgram, PassthroughProgram, PylonBridgeProgram, PylonToCanProgram
  <1> QED BY <1>1, <1>2 DEF Program

\* Every branch of the cascade but orchestratorStart.
LEMMA ProgramClean ==
    ASSUME NEW s, Route(s) # "generic"
    PROVE  Clean(Program(s))
  <1>1. \A t : Clean(PylonResponderProgram(t))
    <2> SUFFICES ASSUME NEW t PROVE Clean(PylonResponderProgram(t))
      OBVIOUS
    <2> QED BY ParametersClean, t \in {t}
  <1>2. /\ Clean(ModelResponderProgram(JkbmsPoller(s.bms_protocol), JkbmsTasks))
        /\ Clean(RsJkbmsToCanGrowattProgram(JkbmsPoller(s.bms_protocol)))
        /\ Clean(ModelResponderProgram("wow", {"wow"}))
        /\ Clean(ModelResponderProgram("growattBms", {"growattBms"}))
    BY ParametersClean, PollersOfRoutes
  <1>3. Route(s) \in Dedicated
    BY RouteMatches, NamesOfRoutes
  <1> QED BY <1>1, <1>2, <1>3, FixedClean DEF Program, Dedicated

-----------------------------------------------------------------------------
(* The inductive invariant.                                                *)

\* While a route starts, what runs was brought by the calls made so far, and what they check runs.
InBring ==
    phase = "starting" =>
        /\ pc <= Len(Programs[cfg]) + 1
        /\ \A t \in running : \E j \in 1..(pc - 1) : t \in Brings(cfg, Programs[cfg][j])
        /\ \A j \in 1..(pc - 1) :
              Programs[cfg][j].call.op = "start" => Programs[cfg][j].call.arg \in running

\* What the primary program has started stays while the second BMS is started.
InSecond ==
    phase = "secondary" =>
        /\ running \subseteq RouteTasks(cfg) /\ Started(Programs[cfg]) \subseteq running
        /\ pc > 2 => Started(SecondaryPrograms[cfg]) \subseteq running

\* A failure path of a dedicated start stops what runs and leaves no queue.
InFail ==
    phase = "undoing" /\ Route(cfg) # "generic" =>
        running \subseteq toStop /\ (~resets => ctx = EmptyCtx)

\* orchestratorStop stops everything and clears the flag.
InHalt ==
    Stopping =>
        /\ \A t \in running : \E j \in pc..24 : StopScript[j].op = "stop" /\ StopScript[j].arg = t
        /\ pc > 11 => ~active

\* What a start returned, and what it left.
InResult ==
    /\ phase \in {"starting", "secondary"} => result = "none"
    /\ phase \in {"undoing", "aborting"} => result = "failed"
    /\ phase \in {"undoing", "aborting", "idle"} => cfg \in Configs
    /\ phase = "idle" => result \in {"ok", "failed"}
    /\ phase = "idle" /\ result = "failed" /\ running # {} => Route(cfg) = "generic"
    /\ phase = "idle" /\ result = "failed" /\ Route(cfg) # "generic" => ctx = EmptyCtx
    /\ phase = "idle" /\ result = "ok" => CheckedTasks(cfg) \subseteq running
    /\ result # "already_running"

RouteInv == InBring /\ InSecond /\ InFail /\ InHalt /\ InResult

LInv == IInv /\ LeakInv /\ RouteInv

-----------------------------------------------------------------------------
LEMMA StopCoversTasks ==
    \A t \in Tasks : \E i \in 1..24 : StopScript[i].op = "stop" /\ StopScript[i].arg = t
  BY DEF StopScript, Stop, Call, Tasks, QueueTasks, Pollers, Responders, PylonTasks, ForwarderTasks

LEMMA StopDeactivates == \A i \in 1..26 : StopScript[i].op = "deactivate" <=> i = 11
  BY DEF StopScript, Stop, Call

LEMMA BringsIsMay ==
    ASSUME NEW s \in Configs, NEW step
    PROVE  Brings(s, step) \subseteq MayBring(step)
  BY DEF Brings, MayBring, PylonTasksOf, ForwarderTasksOf, PylonWanted, ForwarderWanted

\* What a call of a start may bring belongs to the route.
LEMMA BringsToRoute ==
    ASSUME NEW s \in Configs, NEW j \in DOMAIN Programs[s]
    PROVE  Brings(s, Programs[s][j]) \subseteq RouteTasks(s)
  <1> SUFFICES ASSUME NEW t \in Brings(s, Programs[s][j])
               PROVE  t \in RouteTasks(s)
    OBVIOUS
  <1>1. CASE Programs[s][j].call.op = "start"
    BY <1>1 DEF Brings, RouteTasks, CheckedTasks, Started
  <1>2. CASE Programs[s][j].call.op = "bridge"
    BY <1>2 DEF Brings, RouteTasks, Calls
  <1>3. CASE Programs[s][j].call.op = "forwarder"
    BY <1>3 DEF Brings, RouteTasks, Calls
  <1> QED BY <1>1, <1>2, <1>3 DEF Brings

\* The call of a start, by what its program is like.
LEMMA StartingCall ==
    ASSUME IInv, CallsLeft, phase = "starting"
    PROVE  /\ cfg \in Configs /\ pc \in 1..Len(Programs[cfg]) /\ Tidy(Programs[cfg])
           /\ Programs[cfg] = Program(cfg) /\ DOMAIN Programs[cfg] = 1..Len(Programs[cfg])
           /\ CurrentCall = Programs[cfg][pc].call
  <1>1. TypeOK
    BY DEF IInv
  <1>2. cfg \in Configs /\ pc \in 1..Len(Programs[cfg]) /\ CurrentCall = Programs[cfg][pc].call
    BY <1>1, CallFacts
  <1>3. Programs[cfg] = Program(cfg)
    BY <1>2 DEF Programs
  <1>4. Tidy(Programs[cfg])
    BY <1>3, ProgramTidy
  <1> QED BY <1>2, <1>3, <1>4, ProgramIsSequence

\* The second BMS has one task, if any.
LEMMA SecondaryStarted ==
    ASSUME NEW s \in Configs
    PROVE  /\ SecondaryPrograms[s] = SecondaryProgram(s)
           /\ Started(SecondaryPrograms[s]) = IF s.dual_bms THEN {SecondaryTask(s)} ELSE {}
           /\ Len(SecondaryPrograms[s]) = IF s.dual_bms THEN 2 ELSE 0
           /\ s.dual_bms => SecondaryPrograms[s][2].call.arg = SecondaryTask(s)
  <1>1. SecondaryPrograms[s] = SecondaryProgram(s)
    BY DEF SecondaryPrograms
  <1>2. CASE s.dual_bms
    <2>1. /\ SecondaryProgram(s) = <<Create("sec", Keep), Spawn(SecondaryTask(s), {"sec"}, Keep)>>
          /\ Create("sec", Keep).call.op = "create"
          /\ Spawn(SecondaryTask(s), {"sec"}, Keep).call.op = "start"
          /\ Spawn(SecondaryTask(s), {"sec"}, Keep).call.arg = SecondaryTask(s)
      BY <1>2 DEF SecondaryProgram, Create, Spawn, Call
    <2> QED BY <1>1, <1>2, <2>1 DEF Started
  <1>3. CASE ~s.dual_bms
    BY <1>1, <1>3 DEF SecondaryProgram, Started
  <1> QED BY <1>1, <1>2, <1>3

-----------------------------------------------------------------------------
(* The steps.                                                              *)

\* A call that neither starts nor stops a task.
LEMMA QuietAdvance ==
    ASSUME LInv, CallsLeft, Advance, running' = running,
           CurrentCall.op \notin {"start", "stop", "bridge", "forwarder"},
           Stopping => (active' = active \/ ~active') /\ (pc = 11 => ~active')
    PROVE  RouteInv'
  <1> USE DEF LInv, RouteInv
  <1>1. /\ TypeOK /\ pc \in Nat \ {0}
        /\ phase' = phase /\ pc' = pc + 1 /\ cfg' = cfg /\ result' = result /\ resets' = resets
    BY DEF IInv, TypeOK, ControlType, Advance
  <1>2. phase \in {"starting", "secondary", "stopping", "aborting"}
    BY <1>1, CallFacts
  <1>3. InBring'
    <2> SUFFICES ASSUME phase = "starting"
                 PROVE  InBring'
      BY <1>1 DEF InBring
    <2>1. CurrentCall = Programs[cfg][pc].call /\ pc \in 1..Len(Programs[cfg])
      BY StartingCall
    <2> QED BY <1>1, <2>1 DEF InBring
  <1>4. InSecond'
    <2> SUFFICES ASSUME phase = "secondary"
                 PROVE  InSecond'
      BY <1>1 DEF InSecond
    <2>1. pc = 1
      BY <1>1, CallFacts
    <2> QED BY <1>1, <2>1 DEF InSecond
  <1>5. InHalt'
    <2> SUFFICES ASSUME Stopping
                 PROVE  InHalt'
      BY <1>1 DEF InHalt, Stopping
    <2>1. CurrentCall = StopScript[pc]
      BY <1>1, CallFacts
    <2> QED BY <1>1, <2>1 DEF InHalt, Stopping
  <1>6. InFail' /\ InResult'
    BY <1>1, <1>2 DEF InFail, InResult
  <1> QED BY <1>3, <1>4, <1>5, <1>6

LEMMA QuietSteps ==
    ASSUME LInv, MemsetCtx \/ CanDecoderResetCaches \/ SetActive \/ OrchestratorReset \/ CreateQueue
    PROVE  RouteInv'
  <1>1. TypeOK
    BY DEF LInv, IInv
  <1>2. Stopping /\ CallsLeft => (CurrentCall.op = "deactivate" <=> pc = 11)
    BY <1>1, CallFacts, StopDeactivates
  <1>3. Stopping /\ CallsLeft => CurrentCall.op \in StopOps
    BY <1>1, CallFacts
  <1>4. CASE MemsetCtx
    BY <1>2, <1>4, QuietAdvance DEF MemsetCtx, At
  <1>5. CASE CanDecoderResetCaches
    BY <1>2, <1>5, QuietAdvance DEF CanDecoderResetCaches, At, taskVars
  <1>6. CASE SetActive
    BY <1>2, <1>3, <1>6, QuietAdvance DEF SetActive, At, StopOps
  <1>7. CASE OrchestratorReset
    BY <1>2, <1>7, QuietAdvance DEF OrchestratorReset, At
  <1>8. CASE CreateQueue
    BY <1>2, <1>8, QuietAdvance DEF CreateQueue, At
  <1> QED BY <1>4, <1>5, <1>6, <1>7, <1>8

\* A void start brings tasks none of which runs.
LEMMA VoidIsNew ==
    ASSUME LInv, CallsLeft, CurrentCall.op \in {"bridge", "forwarder"}
    PROVE  /\ phase = "starting"
           /\ MayBring(Programs[cfg][pc]) \cap running = {}
           /\ \A j \in 1..(pc - 1) : Programs[cfg][j].call.op = "start" =>
                 Programs[cfg][j].call.arg \notin MayBring(Programs[cfg][pc])
  <1>1. TypeOK
    BY DEF LInv, IInv
  <1>2. phase = "starting"
    BY <1>1, CallFacts DEF StopOps, Stopping
  <1>3. /\ cfg \in Configs /\ pc \in 1..Len(Programs[cfg]) /\ Tidy(Programs[cfg])
    BY <1>2, StartingCall DEF LInv
  <1>4. \A j \in 1..(pc - 1) : MayBring(Programs[cfg][pc]) \cap MayBring(Programs[cfg][j]) = {}
    BY <1>3 DEF Tidy
  <1>5. \A j \in 1..(pc - 1) : Brings(cfg, Programs[cfg][j]) \subseteq MayBring(Programs[cfg][j])
    BY <1>3, BringsIsMay
  <1>6. MayBring(Programs[cfg][pc]) \cap running = {}
    BY <1>2, <1>4, <1>5 DEF LInv, RouteInv, InBring
  <1>7. \A j \in 1..(pc - 1) : Programs[cfg][j].call.op = "start" =>
            Programs[cfg][j].call.arg \in MayBring(Programs[cfg][j])
    BY DEF MayBring
  <1> QED BY <1>2, <1>4, <1>6, <1>7

LEMMA VoidStep ==
    ASSUME LInv, CallsLeft, Advance, CurrentCall.op \in {"bridge", "forwarder"},
           NEW created \in SUBSET Brings(cfg, Programs[cfg][pc]),
           running' = (running \ MayBring(Programs[cfg][pc])) \cup created
    PROVE  RouteInv' /\ running' = running \cup created
  <1>1. phase = "starting" /\ running' = running \cup created
    BY VoidIsNew
  <1>2. /\ phase' = phase /\ pc' = pc + 1 /\ pc \in Nat \ {0} /\ cfg' = cfg /\ result' = result
    BY DEF Advance, LInv, IInv, TypeOK, ControlType
  <1>3. CurrentCall = Programs[cfg][pc].call /\ pc \in 1..Len(Programs[cfg])
    BY <1>1, StartingCall DEF LInv
  <1>4. InBring'
    BY <1>1, <1>2, <1>3 DEF LInv, RouteInv, InBring
  <1>5. InSecond' /\ InFail' /\ InHalt' /\ InResult'
    BY <1>1, <1>2 DEF LInv, RouteInv, InSecond, InFail, InHalt, InResult, Stopping
  <1> QED BY <1>1, <1>4, <1>5 DEF RouteInv

LEMMA VoidSteps ==
    ASSUME LInv, PylonRs485BridgeEnable \/ CanForwardSnifferStart
    PROVE  RouteInv' /\ phase = "starting"
           /\ \E created \in SUBSET Brings(cfg, Programs[cfg][pc]) : running' = running \cup created
  <1>1. CASE PylonRs485BridgeEnable
    <2>1. /\ CallsLeft /\ CurrentCall.op = "bridge" /\ Advance
          /\ \E created \in SUBSET PylonTasksOf[cfg] : running' = (running \ PylonTasks) \cup created
      BY <1>1 DEF PylonRs485BridgeEnable, At
    <2>2. phase = "starting" /\ CurrentCall = Programs[cfg][pc].call
      BY <2>1, VoidIsNew, StartingCall DEF LInv
    <2>3. MayBring(Programs[cfg][pc]) = PylonTasks /\ Brings(cfg, Programs[cfg][pc]) = PylonTasksOf[cfg]
      BY <2>1, <2>2 DEF MayBring, Brings
    <2> QED BY <2>1, <2>2, <2>3, VoidStep
  <1>2. CASE CanForwardSnifferStart
    <2>1. /\ CallsLeft /\ CurrentCall.op = "forwarder" /\ Advance
          /\ \E created \in SUBSET ForwarderTasksOf[cfg] : running' = (running \ ForwarderTasks) \cup created
      BY <1>2 DEF CanForwardSnifferStart, At
    <2>2. phase = "starting" /\ CurrentCall = Programs[cfg][pc].call
      BY <2>1, VoidIsNew, StartingCall DEF LInv
    <2>3. MayBring(Programs[cfg][pc]) = ForwarderTasks /\ Brings(cfg, Programs[cfg][pc]) = ForwarderTasksOf[cfg]
      BY <2>1, <2>2 DEF MayBring, Brings
    <2> QED BY <2>1, <2>2, <2>3, VoidStep
  <1> QED BY <1>1, <1>2

\* A task that is started belongs to the route.
LEMMA StartStep ==
    ASSUME LInv, TaskStart
    PROVE  RouteInv' /\ phase \in {"starting", "secondary"}
           /\ running \subseteq running' /\ (phase = "secondary" => running' \subseteq RouteTasks(cfg))
  <1> DEFINE t == CurrentCall.arg
  <1>1. /\ CallsLeft /\ CurrentCall.op = "start" /\ running' = running \cup {t}
        /\ phase' = phase /\ pc' = pc + 1 /\ pc \in Nat \ {0} /\ cfg' = cfg /\ result' = result
    BY DEF TaskStart, At, Advance, LInv, IInv, TypeOK, ControlType
  <1>2. TypeOK
    BY DEF LInv, IInv
  <1>3. phase \in {"starting", "secondary"}
    BY <1>1, <1>2, CallFacts DEF StopOps, Stopping
  <1>4. InBring'
    <2> SUFFICES ASSUME phase = "starting"
                 PROVE  InBring'
      BY <1>1 DEF InBring
    <2>1. CurrentCall = Programs[cfg][pc].call /\ pc \in 1..Len(Programs[cfg])
      BY <1>1, StartingCall DEF LInv
    <2>2. t \in Brings(cfg, Programs[cfg][pc])
      BY <1>1, <2>1 DEF Brings
    <2>3. InBring
      BY DEF LInv, RouteInv
    <2>4. pc' <= Len(Programs[cfg]) + 1 /\ (1..(pc' - 1)) = (1..(pc - 1)) \cup {pc}
      BY <1>1, <2>1
    <2>5. \A u \in running' : \E j \in 1..(pc' - 1) : u \in Brings(cfg, Programs[cfg][j])
      BY <1>1, <2>2, <2>3, <2>4 DEF InBring
    <2>6. \A j \in 1..(pc' - 1) :
              Programs[cfg][j].call.op = "start" => Programs[cfg][j].call.arg \in running'
      BY <1>1, <2>1, <2>3, <2>4 DEF InBring
    <2> QED BY <1>1, <2>4, <2>5, <2>6 DEF InBring
  <1>5. phase = "secondary" =>
            /\ pc = 2 /\ t \in RouteTasks(cfg) /\ Started(SecondaryPrograms[cfg]) \subseteq {t}
    <2> SUFFICES ASSUME phase = "secondary"
                 PROVE  /\ pc = 2 /\ t \in RouteTasks(cfg)
                        /\ Started(SecondaryPrograms[cfg]) \subseteq {t}
      OBVIOUS
    <2>0. cfg \in Configs
      BY <1>2 DEF TypeOK, ControlType
    <2>1. pc = 2
      <3>1. CallsLeft /\ CurrentCall.op = "start"
        BY <1>1
      <3>2. pc \in {1, 2} /\ (pc = 1 => CurrentCall.op = "create")
        BY <1>2, <3>1, CallFacts, Zenon
      <3> QED BY <3>1, <3>2
    <2>2. pc <= Len(SecondaryPrograms[cfg]) /\ CurrentCall = SecondaryPrograms[cfg][pc].call
      BY <1>1 DEF CallsLeft, CurrentCall, Starting, StartScript
    <2>3. cfg.dual_bms /\ t = SecondaryTask(cfg) /\ Started(SecondaryPrograms[cfg]) = {t}
      <3>1. cfg.dual_bms
        <4> SUFFICES ASSUME ~cfg.dual_bms
                     PROVE  FALSE
          BY Zenon
        <4>1. Len(SecondaryPrograms[cfg]) = 0
          BY <2>0, SecondaryStarted
        <4> QED BY <2>1, <2>2, <4>1
      <3>2. t = SecondaryTask(cfg)
        BY <2>0, <2>1, <2>2, <3>1, SecondaryStarted
      <3>3. Started(SecondaryPrograms[cfg]) = {t}
        BY <2>0, <3>1, <3>2, SecondaryStarted
      <3> QED BY <3>1, <3>2, <3>3, Zenon
    <2> QED BY <2>1, <2>3 DEF RouteTasks, CheckedTasks
  <1>6. InSecond'
    BY <1>1, <1>5 DEF LInv, RouteInv, InSecond
  <1>7. InFail' /\ InHalt' /\ InResult'
    BY <1>1, <1>3 DEF LInv, RouteInv, InFail, InHalt, InResult, Stopping
  <1>8. phase = "secondary" => running' \subseteq RouteTasks(cfg)
    BY <1>1, <1>5 DEF LInv, RouteInv, InSecond
  <1> QED BY <1>1, <1>3, <1>4, <1>6, <1>7, <1>8 DEF RouteInv

LEMMA StopStep ==
    ASSUME LInv, TaskStop
    PROVE  RouteInv' /\ Stopping /\ running' \subseteq running
  <1> DEFINE t == CurrentCall.arg
  <1>1. /\ CallsLeft /\ CurrentCall.op = "stop" /\ running' = running \ {t} /\ active' = active
        /\ phase' = phase /\ pc' = pc + 1 /\ pc \in Nat \ {0} /\ cfg' = cfg /\ result' = result
    BY DEF TaskStop, At, Advance, LInv, IInv, TypeOK, ControlType
  <1>2. Stopping /\ pc \in 1..26 /\ CurrentCall = StopScript[pc]
    BY <1>1, CallFacts DEF StepOK, StartOps, Stopping, LInv, IInv
  <1>3. pc # 11
    BY <1>1, <1>2, StopDeactivates
  <1>4. InHalt'
    BY <1>1, <1>2, <1>3 DEF LInv, RouteInv, InHalt, Stopping
  <1>5. InBring' /\ InSecond' /\ InFail' /\ InResult'
    BY <1>1, <1>2 DEF LInv, RouteInv, InBring, InSecond, InFail, InResult, Stopping
  <1> QED BY <1>1, <1>2, <1>4, <1>5 DEF RouteInv

\* A call that fails leaves a failure path that stops what runs.
LEMMA FailPrimaryStep ==
    ASSUME LInv, FailPrimary
    PROVE  RouteInv' /\ running' = running
  <1>1. /\ CallsLeft /\ phase = "starting" /\ phase' = "undoing" /\ CurrentCall.op \in {"create", "start"}
        /\ toStop' = Programs[cfg][pc].undo.stop /\ resets' = Programs[cfg][pc].undo.reset
        /\ result' = "failed" /\ UNCHANGED <<pc, cfg, running, ctx>>
    BY DEF FailPrimary, At, StartScript, taskVars
  <1>2. /\ cfg \in Configs /\ pc \in 1..Len(Programs[cfg]) /\ Programs[cfg] = Program(cfg)
        /\ CurrentCall = Programs[cfg][pc].call
    BY <1>1, StartingCall DEF LInv
  <1>3. InFail'
    <2> SUFFICES ASSUME Route(cfg) # "generic"
                 PROVE  /\ running \subseteq Programs[cfg][pc].undo.stop
                        /\ ~Programs[cfg][pc].undo.reset => ctx = EmptyCtx
      BY <1>1 DEF InFail
    <2>1. /\ \A j \in 1..(pc - 1) : MayBring(Programs[cfg][j]) \subseteq Programs[cfg][pc].undo.stop
          /\ Programs[cfg][pc].undo.reset \/ \A j \in 1..(pc - 1) : Programs[cfg][j].call.op # "create"
      BY <1>1, <1>2, ProgramClean DEF Clean
    <2>2. running \subseteq Programs[cfg][pc].undo.stop
      BY <1>1, <1>2, <2>1, BringsIsMay DEF LInv, RouteInv, InBring
    <2>3. ASSUME ~Programs[cfg][pc].undo.reset PROVE ctx = EmptyCtx
      <3>1. \A slot \in Slots : ctx[slot] = NULL
        BY <1>1, <2>1, <2>3 DEF LInv, LeakInv, InCreate, IInv, InStart, Slots, PrimarySlots
      <3>2. ctx = [slot \in Slots |-> ctx[slot]]
        BY DEF LInv, IInv, TypeOK, TaskType
      <3> QED BY <3>1, <3>2 DEF EmptyCtx
    <2> QED BY <2>2, <2>3
  <1>4. InBring' /\ InSecond' /\ InHalt' /\ InResult'
    BY <1>1, <1>2 DEF LInv, RouteInv, InBring, InSecond, InHalt, InResult, Stopping
  <1> QED BY <1>1, <1>3, <1>4 DEF RouteInv

LEMMA HaltFromOne ==
    ASSUME LInv, UNCHANGED <<running, active>>, pc' = 1
    PROVE  InHalt'
  <1>1. \A t \in running : \E j \in 1..24 : StopScript[j].op = "stop" /\ StopScript[j].arg = t
    BY StopCoversTasks DEF LInv, IInv, TypeOK, TaskType
  <1> QED BY <1>1 DEF InHalt

LEMMA FailSecondaryStep ==
    ASSUME LInv, FailSecondary
    PROVE  RouteInv' /\ phase = "secondary" /\ UNCHANGED <<running, cfg>> /\ phase' = "aborting"
  <1>1. /\ phase = "secondary" /\ phase' = "aborting" /\ pc' = 1 /\ result' = "failed"
        /\ UNCHANGED <<cfg, running, active>>
    BY DEF FailSecondary
  <1>2. cfg \in Configs
    BY <1>1 DEF LInv, IInv, TypeOK, ControlType
  <1>3. InHalt'
    BY <1>1, HaltFromOne
  <1>4. InBring' /\ InSecond' /\ InFail' /\ InResult'
    BY <1>1, <1>2 DEF InBring, InSecond, InFail, InResult
  <1> QED BY <1>1, <1>3, <1>4 DEF RouteInv

LEMMA UndoStep ==
    ASSUME LInv, NEW t \in Tasks, UndoStop(t)
    PROVE  RouteInv' /\ phase = "undoing" /\ UNCHANGED <<phase, cfg>> /\ running' \subseteq running
  <1>1. /\ phase = "undoing" /\ toStop' = toStop \ {t} /\ running' = running \ {t}
        /\ UNCHANGED <<phase, pc, cfg, result, resets, ctx>>
    BY DEF UndoStop
  <1>2. InBring' /\ InSecond' /\ InFail' /\ InHalt' /\ InResult'
    BY <1>1 DEF LInv, RouteInv, InBring, InSecond, InFail, InHalt, InResult, Stopping
  <1> QED BY <1>1, <1>2 DEF RouteInv

LEMMA UndoReturnStep ==
    ASSUME LInv, UndoReturn
    PROVE  /\ RouteInv' /\ phase = "undoing" /\ phase' = "idle" /\ UNCHANGED <<running, cfg, result>>
           /\ result = "failed" /\ (running # {} => Route(cfg) = "generic")
  <1>1. /\ phase = "undoing" /\ toStop = {} /\ phase' = "idle"
        /\ ctx' = (IF resets THEN EmptyCtx ELSE ctx)
        /\ UNCHANGED <<running, cfg, result>>
    BY DEF UndoReturn
  <1>2. result = "failed" /\ cfg \in Configs
    BY <1>1 DEF LInv, RouteInv, InResult
  <1>3. Route(cfg) # "generic" => running = {} /\ ctx' = EmptyCtx
    BY <1>1 DEF LInv, RouteInv, InFail
  <1>4. InBring' /\ InSecond' /\ InFail' /\ InHalt'
    BY <1>1 DEF InBring, InSecond, InFail, InHalt, Stopping
  <1>5. InResult'
    BY <1>1, <1>2, <1>3 DEF InResult
  <1> QED BY <1>1, <1>2, <1>3, <1>4, <1>5 DEF RouteInv

LEMMA PrimaryStep ==
    ASSUME LInv, PrimaryStarted
    PROVE  RouteInv' /\ phase = "starting" /\ phase' = "secondary" /\ UNCHANGED <<running, cfg>>
  <1>1. /\ phase = "starting" /\ ~CallsLeft /\ phase' = "secondary" /\ pc' = 1
        /\ UNCHANGED <<cfg, result, running>>
    BY DEF PrimaryStarted, taskVars
  <1>2. /\ cfg \in Configs /\ pc \in Nat \ {0} /\ Programs[cfg] = Program(cfg)
    BY <1>1 DEF LInv, IInv, TypeOK, ControlType, Programs
  <1>3. DOMAIN Programs[cfg] = 1..Len(Programs[cfg]) /\ Len(Programs[cfg]) \in Nat
    BY <1>2, ProgramIsSequence
  <1>4. pc > Len(Programs[cfg])
    BY <1>1, <1>2, <1>3 DEF CallsLeft, Starting, StartScript
  <1>5. Started(Programs[cfg]) \subseteq running
    BY <1>1, <1>2, <1>3, <1>4 DEF Started, LInv, RouteInv, InBring
  <1>6. running \subseteq RouteTasks(cfg)
    <2> SUFFICES ASSUME NEW t \in running
                 PROVE  t \in RouteTasks(cfg)
      OBVIOUS
    <2>1. PICK j \in 1..(pc - 1) : t \in Brings(cfg, Programs[cfg][j])
      BY <1>1 DEF LInv, RouteInv, InBring
    <2>2. j \in DOMAIN Programs[cfg]
      BY <1>1, <1>2, <1>3 DEF LInv, RouteInv, InBring
    <2> QED BY <1>2, <2>1, <2>2, BringsToRoute
  <1>7. InSecond'
    BY <1>1, <1>5, <1>6 DEF InSecond
  <1>8. InBring' /\ InFail' /\ InHalt' /\ InResult'
    BY <1>1 DEF LInv, RouteInv, InBring, InFail, InHalt, InResult, Stopping
  <1> QED BY <1>1, <1>7, <1>8 DEF RouteInv

\* Once orchestratorStop has made all its calls, nothing is left.
LEMMA StoppedOut ==
    ASSUME LInv, Stopping, ~CallsLeft
    PROVE  running = {} /\ ctx = EmptyCtx /\ ~active
  <1>1. pc > 26 /\ pc \in Nat
    BY StopShape DEF CallsLeft, Starting, Stopping, LInv, IInv, TypeOK, ControlType
  <1>2. ctx = EmptyCtx
    BY <1>1 DEF LInv, IInv, InStop
  <1>3. running = {} /\ ~active
    BY <1>1 DEF LInv, RouteInv, InHalt
  <1> QED BY <1>2, <1>3

LEMMA BeginStep ==
    ASSUME LInv, NEW s \in Configs, BeginStart(s)
    PROVE  /\ RouteInv' /\ phase = "stopping" /\ running = {} /\ running' = {}
           /\ phase' = "starting" /\ cfg' = s
  <1>1. /\ phase = "stopping" /\ ~CallsLeft /\ cfg' = s /\ pc' = 1 /\ running' = running
    BY DEF BeginStart, taskVars
  <1>2. running = {} /\ ~active
    BY <1>1, StoppedOut DEF Stopping
  <1>3. phase' = "starting" /\ result' = "none"
    BY <1>2 DEF BeginStart
  <1>4. Programs[s] = Program(s) /\ Len(Programs[s]) \in Nat
    BY ProgramIsSequence DEF Programs
  <1>5. InBring'
    BY <1>1, <1>2, <1>3, <1>4 DEF InBring
  <1>6. InSecond' /\ InFail' /\ InHalt' /\ InResult'
    BY <1>3 DEF InSecond, InFail, InHalt, InResult, Stopping
  <1> QED BY <1>1, <1>2, <1>3, <1>5, <1>6 DEF RouteInv

LEMMA ReturnStep ==
    ASSUME LInv, StartReturns
    PROVE  /\ RouteInv' /\ phase = "secondary" /\ phase' = "idle" /\ result' = "ok"
           /\ CheckedTasks(cfg) \subseteq running /\ UNCHANGED <<running, cfg>>
  <1>1. /\ phase = "secondary" /\ ~CallsLeft /\ phase' = "idle" /\ result' = "ok"
        /\ UNCHANGED <<running, cfg>>
    BY DEF StartReturns, taskVars
  <1>2. cfg \in Configs /\ pc \in Nat \ {0} /\ pc > Len(SecondaryPrograms[cfg])
    <2>1. cfg \in Configs /\ pc \in Nat \ {0}
      BY <1>1 DEF LInv, IInv, TypeOK, ControlType
    <2>2. Len(SecondaryPrograms[cfg]) \in {0, 2}
      BY <2>1, SecondaryStarted
    <2> QED BY <1>1, <2>1, <2>2 DEF CallsLeft, Starting, StartScript
  <1>3. Started(SecondaryPrograms[cfg]) \subseteq running
    <2>1. CASE cfg.dual_bms
      <3>1. pc > 2
        BY <1>2, <2>1, SecondaryStarted
      <3> QED BY <1>1, <3>1 DEF LInv, RouteInv, InSecond
    <2>2. CASE ~cfg.dual_bms
      BY <1>2, <2>2, SecondaryStarted
    <2> QED BY <2>1, <2>2
  <1>4. CheckedTasks(cfg) \subseteq running
    BY <1>1, <1>3 DEF LInv, RouteInv, InSecond, CheckedTasks
  <1>5. InResult'
    <2>1. CheckedTasks(cfg') \subseteq running'
      BY <1>1, <1>4
    <2> QED BY <1>1, <1>2, <2>1 DEF InResult, CheckedTasks, Started
  <1>6. InBring' /\ InSecond' /\ InFail' /\ InHalt'
    BY <1>1 DEF InBring, InSecond, InFail, InHalt, Stopping
  <1> QED BY <1>1, <1>4, <1>5, <1>6 DEF RouteInv

LEMMA AbortStep ==
    ASSUME LInv, AbortReturns
    PROVE  /\ RouteInv' /\ phase = "aborting" /\ phase' = "idle" /\ result = "failed"
           /\ running = {} /\ UNCHANGED <<running, cfg, result>>
  <1>1. /\ phase = "aborting" /\ ~CallsLeft /\ phase' = "idle" /\ UNCHANGED <<running, ctx, cfg, result>>
    BY DEF AbortReturns, taskVars
  <1>2. running = {} /\ ctx = EmptyCtx
    BY <1>1, StoppedOut DEF Stopping
  <1>3. result = "failed" /\ cfg \in Configs
    BY <1>1 DEF LInv, RouteInv, InResult
  <1>4. InResult'
    BY <1>1, <1>2, <1>3 DEF InResult, EmptyCtx
  <1>5. InBring' /\ InSecond' /\ InFail' /\ InHalt'
    BY <1>1 DEF InBring, InSecond, InFail, InHalt, Stopping
  <1> QED BY <1>1, <1>2, <1>3, <1>4, <1>5 DEF RouteInv

LEMMA RequestStep ==
    ASSUME LInv, ApplyRequest
    PROVE  /\ RouteInv' /\ phase = "idle" /\ phase' = "stopping" /\ UNCHANGED <<running, cfg>>
  <1>1. /\ phase = "idle" /\ phase' = "stopping" /\ pc' = 1 /\ UNCHANGED <<running, active, cfg, result>>
    BY DEF ApplyRequest, taskVars
  <1>2. InHalt'
    BY <1>1, HaltFromOne
  <1>3. InBring' /\ InSecond' /\ InFail' /\ InResult'
    BY <1>1 DEF LInv, RouteInv, InBring, InSecond, InFail, InResult
  <1> QED BY <1>1, <1>2, <1>3 DEF RouteInv

\* What the running tasks write is no part of the invariant.
LEMMA WriteStep ==
    ASSUME LInv, \/ \E t \in Tasks : Publish(t) \/ SourceStale(t) \/ CanFrame(t)
                 \/ UNCHANGED vars
    PROVE  RouteInv' /\ UNCHANGED <<phase, cfg, result, running>>
  <1>1. UNCHANGED <<phase, pc, cfg, result, toStop, resets, running, ctx, active>>
    BY DEF Publish, SourceStale, CanFrame, vars, controlVars, taskVars
  <1>2. InBring' /\ InSecond' /\ InHalt'
    BY <1>1 DEF LInv, RouteInv, InBring, InSecond, InHalt, Stopping
  <1>3. InFail' /\ InResult'
    BY <1>1 DEF LInv, RouteInv, InFail, InResult, CheckedTasks, EmptyCtx
  <1> QED BY <1>1, <1>2, <1>3 DEF RouteInv

LEMMA InitRoute == Init => RouteInv
  <1> SUFFICES ASSUME Init
               PROVE  RouteInv
    OBVIOUS
  <1>1. phase = "stopping" /\ running = {} /\ ~active /\ result = "none"
    BY DEF Init
  <1> QED BY <1>1 DEF RouteInv, InBring, InSecond, InFail, InHalt, InResult

LEMMA NextRoute ==
    ASSUME LInv, [Next]_vars
    PROVE  LInv'
  <1> SUFFICES RouteInv'
    <2>1. IInv' /\ LeakInv'
      BY NextIInv, NextLeak, Zenon DEF LInv
    <2> QED BY <2>1, Zenon DEF LInv
  <1>1. CASE MemsetCtx \/ CanDecoderResetCaches \/ SetActive \/ OrchestratorReset \/ CreateQueue
    BY <1>1, QuietSteps
  <1>2. CASE PylonRs485BridgeEnable \/ CanForwardSnifferStart
    BY <1>2, VoidSteps
  <1>3. CASE TaskStart \/ TaskStop
    BY <1>3, StartStep, StopStep
  <1>4. CASE FailPrimary \/ FailSecondary \/ UndoReturn
    BY <1>4, FailPrimaryStep, FailSecondaryStep, UndoReturnStep
  <1>5. CASE \E t \in Tasks : UndoStop(t)
    BY <1>5, UndoStep
  <1>6. CASE PrimaryStarted \/ StartReturns \/ AbortReturns \/ ApplyRequest
    BY <1>6, PrimaryStep, ReturnStep, AbortStep, RequestStep
  <1>7. CASE \E s \in Configs : BeginStart(s)
    BY <1>7, BeginStep
  <1>8. CASE (\E t \in Tasks : Publish(t) \/ SourceStale(t) \/ CanFrame(t)) \/ UNCHANGED vars
    BY <1>8, WriteStep
  <1> QED BY <1>1, <1>2, <1>3, <1>4, <1>5, <1>6, <1>7, <1>8, Zenon DEF Next, Control, Environment

\* The invariant holds in every reachable state.
THEOREM RouteInvariance == Spec => []LInv
  <1>1. Init => LInv
    BY InitIInv, InitLeak, InitRoute, Zenon DEF LInv
  <1>2. LInv /\ [Next]_vars => LInv'
    BY NextRoute, Zenon
  <1> QED BY <1>1, <1>2, PTL DEF Spec

\* Every branch of orchestratorStartFromRuntime but orchestratorStart takes down what it had started
\* when one of its calls fails: no task is left, and no queue.
THEOREM NothingIsLeft == Spec => []FailedStartLeavesNothing
  <1>1. LInv => FailedStartLeavesNothing
    <2> SUFFICES ASSUME LInv, phase = "idle", result = "failed", Route(cfg) # "generic"
                 PROVE  running = {} /\ live = {}
      BY DEF FailedStartLeavesNothing
    <2>1. running = {} /\ ctx = EmptyCtx
      BY DEF LInv, RouteInv, InResult
    <2>2. live = {}
      BY <2>1 DEF LInv, LeakInv, NoQueueLeak, CtxHandles, EmptyCtx
    <2> QED BY <2>1, <2>2
  <1> QED BY <1>1, RouteInvariance, PTL

\* When workingModesApplyRuntimeSettings gets ESP_OK from the start, the tasks whose start functions
\* return an error code are there, those of both BMSs.
THEOREM OkIsWhole == Spec => []OkMeansStarted
  <1>1. LInv => OkMeansStarted
    BY DEF LInv, RouteInv, InResult, OkMeansStarted, CheckedTasks
  <1> QED BY <1>1, RouteInvariance, PTL

-----------------------------------------------------------------------------
(* The refinement.                                                         *)

LEMMA StageIs ==
    /\ phase = "stopping" => Stage = "quiescing"
    /\ phase = "starting" \/ phase = "secondary" => Stage = "raising"
    /\ phase = "undoing" \/ phase = "aborting" => Stage = "lowering"
    /\ phase = "idle" /\ result = "ok" => Stage = "up"
    /\ phase = "idle" /\ result = "failed" /\ running = {} => Stage = "down"
    /\ phase = "idle" /\ result = "failed" /\ running # {} => Stage = "stranded"
  BY Zenon DEF Stage

LEMMA StageBecomes ==
    /\ phase' = "stopping" => Stage' = "quiescing"
    /\ phase' = "starting" \/ phase' = "secondary" => Stage' = "raising"
    /\ phase' = "undoing" \/ phase' = "aborting" => Stage' = "lowering"
    /\ phase' = "idle" /\ result' = "ok" => Stage' = "up"
    /\ phase' = "idle" /\ result' = "failed" /\ running' = {} => Stage' = "down"
    /\ phase' = "idle" /\ result' = "failed" /\ running' # {} => Stage' = "stranded"
  BY Zenon DEF Stage

\* A step that the promise does not see.
Unseen == Stage' = Stage /\ UNCHANGED <<cfg, running>>

LEMMA StageKept ==
    ASSUME UNCHANGED <<phase, result, running>>
    PROVE  Stage' = Stage
  BY DEF Stage

LEMMA HiddenSteps ==
    ASSUME LInv, \/ MemsetCtx \/ CanDecoderResetCaches \/ SetActive \/ OrchestratorReset
                 \/ CreateQueue \/ PrimaryStarted
                 \/ \E t \in Tasks : Publish(t) \/ SourceStale(t) \/ CanFrame(t)
                 \/ UNCHANGED vars
    PROVE  Unseen
  <1>1. CASE MemsetCtx \/ CanDecoderResetCaches \/ SetActive \/ OrchestratorReset \/ CreateQueue
    <2>1. UNCHANGED <<phase, result, running, cfg>>
      BY <1>1 DEF MemsetCtx, CanDecoderResetCaches, SetActive, OrchestratorReset, CreateQueue,
                  Advance, taskVars
    <2> QED BY <2>1, StageKept DEF Unseen
  <1>2. CASE PrimaryStarted
    <2>1. Stage = "raising" /\ Stage' = "raising" /\ UNCHANGED <<cfg, running>>
      BY <1>2, PrimaryStep, StageIs, StageBecomes, Zenon
    <2> QED BY <2>1 DEF Unseen
  <1>3. CASE (\E t \in Tasks : Publish(t) \/ SourceStale(t) \/ CanFrame(t)) \/ UNCHANGED vars
    <2>1. UNCHANGED <<phase, cfg, result, running>>
      BY <1>3, WriteStep
    <2> QED BY <2>1, StageKept DEF Unseen
  <1> QED BY <1>1, <1>2, <1>3

\* While the primary program runs, only tasks of the route do.
LEMMA OfTheRoute ==
    ASSUME LInv, RouteInv', phase = "starting", pc' = pc + 1, UNCHANGED <<phase, cfg>>
    PROVE  running' \subseteq RouteTasks(cfg)
  <1>1. cfg \in Configs /\ pc \in Nat \ {0} /\ Programs[cfg] = Program(cfg)
    BY DEF LInv, IInv, TypeOK, ControlType, Programs
  <1>2. DOMAIN Programs[cfg] = 1..Len(Programs[cfg]) /\ Len(Programs[cfg]) \in Nat
    BY <1>1, ProgramIsSequence
  <1>3. /\ pc' <= Len(Programs[cfg]) + 1
        /\ \A t \in running' : \E j \in 1..pc : t \in Brings(cfg, Programs[cfg][j])
    <2>1. InBring' /\ phase' = "starting" /\ cfg' = cfg /\ pc' = pc + 1
      BY DEF RouteInv
    <2> QED BY <1>1, <2>1 DEF InBring, Brings
  <1> SUFFICES ASSUME NEW t \in running'
               PROVE  t \in RouteTasks(cfg)
    OBVIOUS
  <1>4. PICK j \in 1..pc : t \in Brings(cfg, Programs[cfg][j])
    BY <1>3
  <1>5. j \in DOMAIN Programs[cfg]
    BY <1>1, <1>2, <1>3
  <1> QED BY <1>1, <1>4, <1>5, BringsToRoute

LEMMA RaisingSteps ==
    ASSUME LInv, PylonRs485BridgeEnable \/ CanForwardSnifferStart \/ TaskStart
    PROVE  Lifecycle!Raise
  <1>1. pc' = pc + 1 /\ UNCHANGED <<phase, cfg>>
    BY DEF PylonRs485BridgeEnable, CanForwardSnifferStart, TaskStart, Advance
  <1>2. /\ RouteInv' /\ phase \in {"starting", "secondary"} /\ running \subseteq running'
        /\ phase = "secondary" => running' \subseteq RouteTasks(cfg)
    <2>1. CASE PylonRs485BridgeEnable \/ CanForwardSnifferStart
      BY <2>1, VoidSteps
    <2>2. CASE TaskStart
      BY <2>2, StartStep
    <2> QED BY <2>1, <2>2
  <1>3. running' \subseteq RouteTasks(cfg)
    BY <1>1, <1>2, OfTheRoute
  <1>4. Stage = "raising" /\ Stage' = "raising"
    BY <1>1, <1>2, StageIs, StageBecomes
  <1> QED BY <1>1, <1>2, <1>3, <1>4 DEF Lifecycle!Raise

LEMMA LosingSteps ==
    ASSUME LInv, TaskStop \/ (\E t \in Tasks : UndoStop(t))
    PROVE  Lifecycle!Lose \/ Unseen
  <1>1. /\ phase \in {"stopping", "aborting", "undoing"} /\ UNCHANGED <<phase, cfg>>
        /\ running' \subseteq running
    <2>1. CASE TaskStop
      BY <2>1, StopStep DEF Stopping, TaskStop, Advance
    <2>2. CASE \E t \in Tasks : UndoStop(t)
      BY <2>2, UndoStep
    <2> QED BY <2>1, <2>2
  <1>2. Stage \in {"quiescing", "lowering"} /\ Stage' = Stage
    BY <1>1, StageIs, StageBecomes
  <1> QED BY <1>1, <1>2 DEF Lifecycle!Lose

LEMMA GivingUpSteps ==
    ASSUME LInv, FailPrimary \/ FailSecondary
    PROVE  Lifecycle!GiveUp
  <1>1. /\ phase \in {"starting", "secondary"} /\ phase' \in {"undoing", "aborting"}
        /\ UNCHANGED <<cfg, running>>
    BY FailPrimaryStep, FailSecondaryStep DEF FailPrimary, taskVars
  <1>2. Stage = "raising" /\ Stage' = "lowering"
    BY <1>1, StageIs, StageBecomes
  <1> QED BY <1>1, <1>2 DEF Lifecycle!GiveUp

LEMMA FailingSteps ==
    ASSUME LInv, UndoReturn \/ AbortReturns
    PROVE  Lifecycle!Fail
  <1>1. /\ phase \in {"undoing", "aborting"} /\ phase' = "idle" /\ result = "failed"
        /\ UNCHANGED <<cfg, running, result>> /\ (running # {} => Route(cfg) = "generic")
    BY UndoReturnStep, AbortStep
  <1>2. Stage = "lowering" /\ Stage' = (IF running = {} THEN "down" ELSE "stranded")
    BY <1>1, StageIs, StageBecomes
  <1> QED BY <1>1, <1>2 DEF Lifecycle!Fail

LEMMA TurningSteps ==
    ASSUME LInv
    PROVE  /\ StartReturns => Lifecycle!Succeed
           /\ ApplyRequest => Lifecycle!Quiesce
           /\ \A s \in Configs : BeginStart(s) => Lifecycle!Begin(s)
  <1>1. ASSUME StartReturns PROVE Lifecycle!Succeed
    <2>1. Stage = "raising" /\ Stage' = "up"
      BY <1>1, ReturnStep, StageIs, StageBecomes, Zenon
    <2> QED BY <1>1, <2>1, ReturnStep DEF Lifecycle!Succeed
  <1>2. ASSUME ApplyRequest PROVE Lifecycle!Quiesce
    <2>1. result \in {"ok", "failed"} /\ phase = "idle"
      BY <1>2, RequestStep DEF LInv, RouteInv, InResult
    <2>2. Stage \in {"up", "down", "stranded"}
      BY <2>1, StageIs
    <2>3. Stage' = "quiescing"
      BY <1>2, RequestStep, StageBecomes
    <2> QED BY <1>2, <2>2, <2>3, RequestStep DEF Lifecycle!Quiesce
  <1>3. ASSUME NEW s \in Configs, BeginStart(s) PROVE Lifecycle!Begin(s)
    <2>1. Stage = "quiescing" /\ Stage' = "raising"
      BY <1>3, BeginStep, StageIs, StageBecomes
    <2> QED BY <1>3, <2>1, BeginStep DEF Lifecycle!Begin
  <1> QED BY <1>1, <1>2, <1>3

LEMMA StepRefines ==
    ASSUME LInv, [Next]_vars
    PROVE  [Lifecycle!Next]_(Lifecycle!vars)
  <1>1. ASSUME Unseen PROVE UNCHANGED Lifecycle!vars
    BY <1>1 DEF Unseen, Lifecycle!vars
  <1>2. Lifecycle!Next \/ Unseen
    <2>1. CASE \/ MemsetCtx \/ CanDecoderResetCaches \/ SetActive \/ OrchestratorReset
               \/ CreateQueue \/ PrimaryStarted
               \/ \E t \in Tasks : Publish(t) \/ SourceStale(t) \/ CanFrame(t)
               \/ UNCHANGED vars
      BY <2>1, HiddenSteps
    <2>2. CASE PylonRs485BridgeEnable \/ CanForwardSnifferStart \/ TaskStart
      BY <2>2, RaisingSteps DEF Lifecycle!Next
    <2>3. CASE TaskStop \/ (\E t \in Tasks : UndoStop(t))
      BY <2>3, LosingSteps DEF Lifecycle!Next
    <2>4. CASE FailPrimary \/ FailSecondary
      BY <2>4, GivingUpSteps DEF Lifecycle!Next
    <2>5. CASE UndoReturn \/ AbortReturns
      BY <2>5, FailingSteps DEF Lifecycle!Next
    <2>6. CASE StartReturns \/ ApplyRequest \/ (\E s \in Configs : BeginStart(s))
      BY <2>6, TurningSteps DEF Lifecycle!Next
    <2> QED BY <2>1, <2>2, <2>3, <2>4, <2>5, <2>6, Zenon DEF Next, Control, Environment
  <1> QED BY <1>1, <1>2, Zenon

LEMMA InitRefines == Init => Lifecycle!Init
  <1> SUFFICES ASSUME Init
               PROVE  Lifecycle!Init
    OBVIOUS
  <1>1. phase = "stopping" /\ running = {} /\ cfg = NoConfig
    BY DEF Init
  <1>2. Stage = "quiescing"
    BY <1>1, StageIs
  <1> QED BY <1>1, <1>2, HandlesAssumption DEF Lifecycle!Init

\* The calls of orchestrator.c, with their failure paths, keep the promise of RouteLifecycle: a
\* route's tasks come up only when none of an earlier route is left, and only they do; success means
\* that the required ones are there; a failed start takes all down, or it was orchestratorStart.
THEOREM OrchestratorImplementsLifecycle == Spec => ImplementsLifecycle
  <1>1. Init => Lifecycle!Init
    BY InitRefines
  <1>2. LInv /\ [Next]_vars => [Lifecycle!Next]_(Lifecycle!vars)
    BY StepRefines
  <1> QED BY <1>1, <1>2, RouteInvariance, PTL DEF Spec, ImplementsLifecycle, Lifecycle!Spec

-----------------------------------------------------------------------------
(* What a start finds.                                                     *)

\* A start is given only queues that an earlier call creates.
Supplied(p) ==
    \A i \in 1..Len(p) : p[i].call.op = "start" =>
        \A slot \in p[i].call.slots :
            \E j \in 1..(i - 1) : p[j].call.op = "create" /\ p[j].call.arg = slot

\* Of the two kinds of second BMS, a program starts at most those named.
SecondKinds == {"jkbmsModbus", "dalyRs485"}

Uses(p, named) == \A i \in 1..Len(p) : MayBring(p[i]) \cap SecondKinds \subseteq named

\* The queues created by the calls made so far are there, and the second BMS does not run yet.
InFilled ==
    phase = "starting" =>
        \A j \in 1..(pc - 1) :
            Programs[cfg][j].call.op = "create" => ctx[Programs[cfg][j].call.arg] # NULL

InSpare ==
    phase = "secondary" =>
        /\ pc = 2 => ctx["sec"] # NULL
        /\ cfg.dual_bms /\ pc \in {1, 2} => SecondaryTask(cfg) \notin running

ReadyInv == InFilled /\ InSpare

LEMMA SlotsOfSteps ==
    /\ Memset.call.op = "memset" /\ ResetCaches.call.op = "caches" /\ EnablePylon.call.op = "bridge"
    /\ StartForwarder.call.op = "forwarder" /\ Activate.call.op = "activate"
    /\ \A slot, u : Create(slot, u).call.op = "create" /\ Create(slot, u).call.arg = slot
    /\ \A t, slots, u : Spawn(t, slots, u).call.op = "start" /\ Spawn(t, slots, u).call.slots = slots
  BY DEF Memset, ResetCaches, EnablePylon, StartForwarder, Activate, Create, Spawn, Call

LEMMA FixedSupplied ==
    /\ Supplied(CanToRsGrowattProgram) /\ Supplied(RsPylonToRsGrowattProgram)
    /\ Supplied(RsPylonToCanGrowattProgram) /\ Supplied(CanDalyToCanPylonProgram)
    /\ Supplied(PassthroughProgram) /\ Supplied(PylonBridgeProgram) /\ Supplied(PylonToCanProgram)
  <1>1. Supplied(CanToRsGrowattProgram) /\ Supplied(RsPylonToRsGrowattProgram)
    BY SlotsOfSteps DEF Supplied, CanToRsGrowattProgram, RsPylonToRsGrowattProgram
  <1>2. Supplied(RsPylonToCanGrowattProgram)
    BY SlotsOfSteps DEF Supplied, RsPylonToCanGrowattProgram
  <1>3. Supplied(CanDalyToCanPylonProgram)
    BY SlotsOfSteps DEF Supplied, CanDalyToCanPylonProgram
  <1>4. Supplied(PassthroughProgram) /\ Supplied(PylonBridgeProgram)
    BY SlotsOfSteps DEF Supplied, PassthroughProgram, PylonBridgeProgram
  <1>5. Supplied(PylonToCanProgram)
    BY SlotsOfSteps DEF Supplied, PylonToCanProgram
  <1> QED BY <1>1, <1>2, <1>3, <1>4, <1>5

LEMMA ProgramSupplied ==
    ASSUME NEW s
    PROVE  Supplied(Program(s))
  <1>1. \A t, u : Supplied(ModelResponderProgram(t, u))
    BY SlotsOfSteps DEF Supplied, ModelResponderProgram
  <1>2. \A t : Supplied(RsJkbmsToCanGrowattProgram(t))
    BY SlotsOfSteps DEF Supplied, RsJkbmsToCanGrowattProgram
  <1>3. \A t : Supplied(PylonResponderProgram(t))
    BY SlotsOfSteps DEF Supplied, PylonResponderProgram
  <1>4. \A t, u : Supplied(GenericProgram(t, u))
    BY SlotsOfSteps DEF Supplied, GenericProgram
  <1> QED BY <1>1, <1>2, <1>3, <1>4, FixedSupplied DEF Program

LEMMA SecondKindsApart ==
    /\ PylonTasks \cap SecondKinds = {} /\ ForwarderTasks \cap SecondKinds = {}
    /\ {"canRsGrowatt", "modelRsGrowatt", "growattInv", "pylonInv", "orchestrator", "dalyCan"}
           \cap SecondKinds = {}
  BY DEF PylonTasks, ForwarderTasks, SecondKinds

LEMMA FixedUses ==
    /\ Uses(CanToRsGrowattProgram, {}) /\ Uses(RsPylonToRsGrowattProgram, {})
    /\ Uses(RsPylonToCanGrowattProgram, {}) /\ Uses(CanDalyToCanPylonProgram, {})
    /\ Uses(PassthroughProgram, {}) /\ Uses(PylonBridgeProgram, {}) /\ Uses(PylonToCanProgram, {})
  <1>1. Uses(CanToRsGrowattProgram, {}) /\ Uses(RsPylonToRsGrowattProgram, {})
    BY StepsBring, SecondKindsApart DEF Uses, CanToRsGrowattProgram, RsPylonToRsGrowattProgram
  <1>2. Uses(RsPylonToCanGrowattProgram, {})
    BY StepsBring, SecondKindsApart DEF Uses, RsPylonToCanGrowattProgram
  <1>3. Uses(CanDalyToCanPylonProgram, {})
    BY StepsBring, SecondKindsApart DEF Uses, CanDalyToCanPylonProgram
  <1>4. Uses(PassthroughProgram, {}) /\ Uses(PylonBridgeProgram, {})
    BY StepsBring, SecondKindsApart DEF Uses, PassthroughProgram, PylonBridgeProgram
  <1>5. Uses(PylonToCanProgram, {})
    BY StepsBring, SecondKindsApart DEF Uses, PylonToCanProgram
  <1> QED BY <1>1, <1>2, <1>3, <1>4, <1>5

LEMMA ParametersUse ==
    ASSUME NEW t, NEW u
    PROVE  /\ Uses(ModelResponderProgram(t, u), {t}) /\ Uses(RsJkbmsToCanGrowattProgram(t), {t})
           /\ Uses(PylonResponderProgram(t), {t})
           /\ u \in {"growattInv", "pylonInv"} => Uses(GenericProgram(t, u), {t})
  <1>1. Uses(ModelResponderProgram(t, u), {t})
    BY StepsBring, SecondKindsApart DEF Uses, ModelResponderProgram
  <1>2. Uses(RsJkbmsToCanGrowattProgram(t), {t})
    BY StepsBring, SecondKindsApart DEF Uses, RsJkbmsToCanGrowattProgram
  <1>3. Uses(PylonResponderProgram(t), {t})
    BY StepsBring, SecondKindsApart DEF Uses, PylonResponderProgram
  <1>4. u \in {"growattInv", "pylonInv"} => Uses(GenericProgram(t, u), {t})
    BY StepsBring, SecondKindsApart DEF Uses, GenericProgram
  <1> QED BY <1>1, <1>2, <1>3, <1>4

\* The kinds of second BMS the primary BMS of a configuration is polled as.
PrimaryKinds(s) ==
    {t \in SecondKinds : IF t = "jkbmsModbus" THEN IsRs485JkbmsModbus(s.bms_protocol)
                                              ELSE s.bms_protocol = "RS485_DALY"}

LEMMA DedicatedUses ==
    ASSUME NEW s \in Configs, Route(s) # "generic"
    PROVE  Uses(Program(s), PrimaryKinds(s))
  <1>1. Matches(s)[Route(s)] /\ Route(s) \in Dedicated
    BY RouteMatches, NamesOfRoutes
  <1>2. Route(s) \in {"rsJkbmsToRsGrowatt", "rsJkbmsToCanGrowatt", "rsJkbmsToRsPylon"} =>
            {JkbmsPoller(s.bms_protocol)} \subseteq PrimaryKinds(s) \cup {"jkbmsNative"}
    <2>1. Route(s) \in {"rsJkbmsToRsGrowatt", "rsJkbmsToCanGrowatt", "rsJkbmsToRsPylon"} =>
              s.bms_protocol \in JkbmsProtocols
      BY <1>1 DEF Matches, IsRsToRsGrowattRoute, IsRsToCanGrowattRoute, IsRsToRsPylonRoute
    <2> QED BY <2>1 DEF JkbmsProtocols, IsJkbmsRs485Protocol, JkbmsPoller, PrimaryKinds, SecondKinds
  <1>3. Route(s) = "rsDalyToRsPylon" => {"dalyRs485"} \subseteq PrimaryKinds(s)
    BY <1>1 DEF Matches, IsRsToRsPylonRoute, PrimaryKinds, SecondKinds
  <1>4. \A p, named : Uses(p, named) /\ named \cap SecondKinds \subseteq PrimaryKinds(s) =>
            Uses(p, PrimaryKinds(s))
    BY DEF Uses
  <1>5. ASSUME NEW t, {t} \cap SecondKinds \subseteq PrimaryKinds(s)
        PROVE  /\ \A u : Uses(ModelResponderProgram(t, u), PrimaryKinds(s))
               /\ Uses(RsJkbmsToCanGrowattProgram(t), PrimaryKinds(s))
               /\ Uses(PylonResponderProgram(t), PrimaryKinds(s))
    BY <1>4, <1>5, ParametersUse
  <1>10. \A t \in {"growattBms", "pace", "voltronic", "chinaTower", "wow", "seplos", "dalyCan",
                   "jkbmsNative"} : {t} \cap SecondKinds \subseteq PrimaryKinds(s)
    BY DEF SecondKinds
  <1>6. CASE Route(s) \in {"rsJkbmsToRsGrowatt", "rsJkbmsToCanGrowatt", "rsJkbmsToRsPylon"}
    <2> DEFINE t == JkbmsPoller(s.bms_protocol)
    <2>1. {t} \cap SecondKinds \subseteq PrimaryKinds(s)
      BY <1>2, <1>6, <1>10
    <2> HIDE DEF t
    <2>2. /\ Uses(ModelResponderProgram(t, JkbmsTasks), PrimaryKinds(s))
          /\ Uses(RsJkbmsToCanGrowattProgram(t), PrimaryKinds(s))
          /\ Uses(PylonResponderProgram(t), PrimaryKinds(s))
      BY <1>5, <2>1
    <2> QED BY <1>6, <2>2 DEF Program, t
  <1>7. CASE Route(s) = "rsDalyToRsPylon"
    BY <1>3, <1>5, <1>7 DEF Program
  <1>8. CASE Route(s) \in {"canToRsGrowatt", "rsPylonToRsGrowatt", "rsPylonToCanGrowatt",
                           "canDalyToCanPylon", "canDirectPassthrough", "pylonRs485Route"}
    BY <1>4, <1>8, FixedUses DEF Program
  <1>9. CASE Route(s) \in {"rsWowToRsGrowatt", "rsGrowattToRsGrowatt", "rsGrowattToRsPylon",
                           "rsPaceToRsPylon", "rsVoltronicToRsPylon", "rsChinaTowerToRsPylon",
                           "rsWowToRsPylon", "rsSeplosToRsPylon", "canDalyToRsPylon"}
    <2>1. \A t \in {"growattBms", "pace", "voltronic", "chinaTower", "wow", "seplos", "dalyCan"} :
              /\ \A u : Uses(ModelResponderProgram(t, u), PrimaryKinds(s))
              /\ Uses(PylonResponderProgram(t), PrimaryKinds(s))
      BY <1>5, <1>10
    <2> QED BY <1>9, <2>1 DEF Program
  <1> QED BY <1>1, <1>6, <1>7, <1>8, <1>9 DEF Dedicated

LEMMA GenericUses ==
    ASSUME NEW s \in Configs
    PROVE  Uses(GenericProgram(GenericBmsTask(s), GenericInverterTask(s)), PrimaryKinds(s))
  <1>1. s.bms_line = "CAN" => s.bms_protocol # "RS485_DALY"
    BY ConfigsAssumption DEF ValidSettings, CanBmsProtocols
  <1>2. s \in Settings /\ ValidSettings(s)
    BY ConfigsAssumption
  <1>3. ProtocolIdFromUiProtocol(s.bms_protocol) = "JKBMS" => IsRs485JkbmsModbus(s.bms_protocol)
    BY DEF ProtocolIdFromUiProtocol
  <1>4. ProtocolIdFromUiProtocol(s.bms_protocol) = "DALY" /\ s.bms_line # "CAN" =>
            s.bms_protocol = "RS485_DALY"
    <2>1. s.bms_line # "CAN" => ~IsCanDaly(s.bms_protocol)
      BY <1>2 DEF ValidSettings, RsBmsProtocols, IsCanDaly
    <2> QED BY <2>1 DEF ProtocolIdFromUiProtocol
  <1>5. ProtocolIdFromUiProtocol(s.bms_protocol) \in
            {"GROWATT", "PYLON", "JKBMS", "JKBMS_NATIVE", "PACE", "VOLTRONIC",
             "CHINA_TOWER", "WOW", "SEPLOS", "DALY"}
    BY DEF ProtocolIdFromUiProtocol
  <1>6. {GenericBmsTask(s)} \cap SecondKinds \subseteq PrimaryKinds(s)
    BY <1>3, <1>4, <1>5 DEF GenericBmsTask, PrimaryKinds, SecondKinds
  <1>7. GenericInverterTask(s) \in {"growattInv", "pylonInv"}
    BY DEF GenericInverterTask
  <1> QED BY <1>6, <1>7, ParametersUse DEF Uses

\* validateSettings keeps the second BMS apart from the tasks of the primary route.
LEMMA SecondIsApart ==
    ASSUME NEW s \in Configs, s.dual_bms, NEW i \in 1..Len(Program(s))
    PROVE  SecondaryTask(s) \notin MayBring(Program(s)[i])
  <1>1. Uses(Program(s), PrimaryKinds(s))
    <2>1. CASE Route(s) = "generic"
      BY <2>1, GenericUses DEF Program
    <2>2. CASE Route(s) # "generic"
      BY <2>2, DedicatedUses
    <2> QED BY <2>1, <2>2
  <1>2. DualBmsValid(s)
    BY ConfigsAssumption DEF ValidSettings
  <1>3. SecondaryTask(s) \in SecondKinds /\ SecondaryTask(s) \notin PrimaryKinds(s)
    BY <1>2 DEF DualBmsValid, SecondaryTask, SecondKinds, PrimaryKinds, IsRs485JkbmsModbus
  <1> QED BY <1>1, <1>3 DEF Uses

\* A call that fills no queue field and empties none.
LEMMA ReadyAdvance ==
    ASSUME LInv, ReadyInv, CallsLeft, Advance, ctx' = ctx,
           CurrentCall.op \notin {"create", "memset", "reset"}
    PROVE  ReadyInv'
  <1>1. TypeOK /\ phase' = phase /\ cfg' = cfg /\ pc' = pc + 1 /\ pc \in Nat \ {0}
    BY DEF Advance, LInv, IInv, TypeOK, ControlType
  <1>2. phase = "starting" => CurrentCall = Programs[cfg][pc].call
    BY StartingCall DEF LInv
  <1>3. InFilled'
    BY <1>1, <1>2 DEF ReadyInv, InFilled
  <1>4. phase = "secondary" => pc = 2
    BY <1>1, CallFacts
  <1>5. InSpare'
    BY <1>1, <1>4 DEF InSpare
  <1> QED BY <1>3, <1>5 DEF ReadyInv

LEMMA ReadyElsewhere ==
    ASSUME phase' \notin {"starting", "secondary"}
    PROVE  ReadyInv'
  BY DEF ReadyInv, InFilled, InSpare

LEMMA ReadyCreate ==
    ASSUME LInv, ReadyInv, CreateQueue
    PROVE  ReadyInv'
  <1> DEFINE slot == CurrentCall.arg
  <1>1. PICK h \in Handles \ live : ctx' = [ctx EXCEPT ![slot] = h]
    BY DEF CreateQueue
  <1>2. /\ CallsLeft /\ CurrentCall.op = "create" /\ running' = running
        /\ phase' = phase /\ cfg' = cfg /\ pc' = pc + 1 /\ pc \in Nat \ {0}
    BY DEF CreateQueue, At, Advance, LInv, IInv, TypeOK, ControlType
  <1>3. slot \in Slots /\ ctx \in [Slots -> Handles \cup {NULL}] /\ h # NULL
    BY <1>2, CarefulCall, HandlesAssumption DEF Slots, PrimarySlots, LInv, IInv, TypeOK, TaskType
  <1>4. ctx'[slot] # NULL /\ \A other : ctx[other] # NULL /\ other \in Slots => ctx'[other] # NULL
    BY <1>1, <1>3
  <1>5. CASE phase = "starting"
    <2>1. /\ pc \in 1..Len(Programs[cfg]) /\ CurrentCall = Programs[cfg][pc].call
          /\ \A j \in 1..Len(Programs[cfg]) :
                Programs[cfg][j].call.op = "create" => Programs[cfg][j].call.arg \in Slots
      <3>1. cfg \in Configs /\ pc \in 1..Len(Programs[cfg]) /\ CurrentCall = Programs[cfg][pc].call
            /\ Programs[cfg] = Program(cfg)
        BY <1>2, <1>5, StartingCall DEF LInv
      <3>2. \A j \in 1..Len(Program(cfg)) : StepOK(Program(cfg)[j])
        BY <3>1, ProgramWF DEF WellFormed
      <3> QED BY <3>1, <3>2 DEF StepOK, Slots, PrimarySlots
    <2>2. InFilled'
      BY <1>2, <1>4, <1>5, <2>1 DEF ReadyInv, InFilled
    <2> QED BY <1>2, <1>5, <2>2 DEF ReadyInv, InSpare
  <1>6. CASE phase = "secondary"
    <2>1. pc = 1 /\ slot = "sec"
      BY <1>2, <1>6, CarefulCall DEF LInv, Stopping
    <2>2. InSpare'
      BY <1>2, <1>4, <1>6, <2>1 DEF ReadyInv, InSpare, SecondaryTask
    <2> QED BY <1>2, <1>6, <2>2 DEF ReadyInv, InFilled
  <1> QED BY <1>2, <1>5, <1>6, CarefulCall DEF LInv

LEMMA ReadyMemset ==
    ASSUME LInv, ReadyInv, MemsetCtx
    PROVE  ReadyInv'
  <1>1. CallsLeft /\ CurrentCall.op = "memset" /\ phase' = phase /\ pc' = pc + 1 /\ cfg' = cfg
    BY DEF MemsetCtx, At, Advance
  <1>2. CASE phase = "starting" /\ pc = 1
    <2>1. Programs[cfg][1].call.op = "memset"
      BY <1>1, <1>2, StartingCall DEF LInv
    <2> QED BY <1>1, <1>2, <2>1 DEF ReadyInv, InFilled, InSpare
  <1>3. CASE Stopping
    BY <1>1, <1>3, ReadyElsewhere DEF Stopping
  <1> QED BY <1>1, <1>2, <1>3, CarefulCall DEF LInv

\* The primary program has not started the second BMS's task.
LEMMA ReadyPrimary ==
    ASSUME LInv, PrimaryStarted
    PROVE  ReadyInv'
  <1>1. phase = "starting" /\ phase' = "secondary" /\ pc' = 1 /\ UNCHANGED <<running, cfg>>
    BY DEF PrimaryStarted, taskVars
  <1>2. /\ cfg \in Configs /\ pc \in Nat \ {0} /\ Programs[cfg] = Program(cfg)
        /\ pc <= Len(Programs[cfg]) + 1
    BY <1>1 DEF LInv, IInv, TypeOK, ControlType, Programs, RouteInv, InBring
  <1>3. Len(Programs[cfg]) \in Nat
    BY <1>2, ProgramIsSequence
  <1>4. ASSUME cfg.dual_bms, SecondaryTask(cfg) \in running
        PROVE  FALSE
    <2>1. PICK j \in 1..(pc - 1) : SecondaryTask(cfg) \in Brings(cfg, Programs[cfg][j])
      BY <1>1, <1>4 DEF LInv, RouteInv, InBring
    <2>2. j \in 1..Len(Program(cfg))
      BY <1>2, <1>3
    <2>3. SecondaryTask(cfg) \in MayBring(Program(cfg)[j])
      BY <1>2, <2>1, BringsIsMay
    <2> QED BY <1>2, <1>4, <2>2, <2>3, SecondIsApart
  <1>5. InSpare'
    BY <1>1, <1>4 DEF InSpare, SecondaryTask
  <1> QED BY <1>1, <1>5 DEF ReadyInv, InFilled

LEMMA NextReady ==
    ASSUME LInv, ReadyInv, [Next]_vars
    PROVE  ReadyInv'
  <1>1. CASE CanDecoderResetCaches \/ SetActive \/ TaskStop \/ PylonRs485BridgeEnable
             \/ CanForwardSnifferStart \/ TaskStart
    <2>1. CallsLeft /\ Advance /\ ctx' = ctx /\ CurrentCall.op \notin {"create", "memset", "reset"}
      BY <1>1 DEF CanDecoderResetCaches, SetActive, TaskStop, PylonRs485BridgeEnable,
                  CanForwardSnifferStart, TaskStart, At, taskVars
    <2> QED BY <2>1, ReadyAdvance
  <1>2. CASE OrchestratorReset
    <2>1. phase' = phase /\ Stopping
      BY <1>2, CarefulCall DEF OrchestratorReset, At, Advance, LInv
    <2> QED BY <2>1, ReadyElsewhere DEF Stopping
  <1>3. CASE FailPrimary \/ FailSecondary \/ UndoReturn \/ StartReturns \/ AbortReturns \/ ApplyRequest
    BY <1>3, ReadyElsewhere DEF FailPrimary, FailSecondary, UndoReturn, StartReturns, AbortReturns,
                                ApplyRequest
  <1>4. CASE \E t \in Tasks : UndoStop(t)
    BY <1>4, ReadyElsewhere DEF UndoStop
  <1>5. CASE MemsetCtx \/ CreateQueue \/ PrimaryStarted
    BY <1>5, ReadyMemset, ReadyCreate, ReadyPrimary
  <1>6. CASE \E s \in Configs : BeginStart(s)
    <2>1. phase' # "secondary" /\ pc' = 1
      BY <1>6 DEF BeginStart
    <2> QED BY <2>1 DEF ReadyInv, InFilled, InSpare
  <1>7. CASE (\E t \in Tasks : Publish(t) \/ SourceStale(t) \/ CanFrame(t)) \/ UNCHANGED vars
    <2>1. UNCHANGED <<phase, pc, cfg, running, ctx>>
      BY <1>7 DEF Publish, SourceStale, CanFrame, vars, controlVars, taskVars
    <2> QED BY <2>1 DEF ReadyInv, InFilled, InSpare, SecondaryTask
  <1> QED BY <1>1, <1>2, <1>3, <1>4, <1>5, <1>6, <1>7, Zenon DEF Next, Control, Environment

LEMMA ReadyFinds ==
    ASSUME LInv, ReadyInv
    PROVE  StartFindsTaskStopped
  <1>1. result # "already_running"
    BY DEF LInv, RouteInv, InResult
  <1>2. ASSUME At("start")
        PROVE  /\ CurrentCall.arg \notin running
               /\ \A slot \in CurrentCall.slots : ctx[slot] # NULL
    <2>1. CallsLeft /\ CurrentCall.op = "start" /\ TypeOK
      BY <1>2 DEF At, LInv, IInv
    <2>2. phase \in {"starting", "secondary"}
      BY <2>1, CallFacts DEF StopOps, Stopping
    <2>3. CASE phase = "starting"
      <3>1. /\ cfg \in Configs /\ pc \in 1..Len(Programs[cfg]) /\ Tidy(Programs[cfg])
            /\ Programs[cfg] = Program(cfg) /\ CurrentCall = Programs[cfg][pc].call
        BY <2>1, <2>3, StartingCall DEF LInv
      <3>2. Supplied(Programs[cfg])
        BY <3>1, ProgramSupplied
      <3>3. \A slot \in CurrentCall.slots : ctx[slot] # NULL
        BY <2>1, <2>3, <3>1, <3>2 DEF ReadyInv, InFilled, Supplied
      <3>4. MayBring(Programs[cfg][pc]) = {CurrentCall.arg}
        BY <2>1, <3>1 DEF MayBring
      <3>5. \A j \in 1..(pc - 1) : CurrentCall.arg \notin Brings(cfg, Programs[cfg][j])
        BY <3>1, <3>4, BringsIsMay DEF Tidy
      <3> QED BY <2>3, <3>3, <3>5 DEF LInv, RouteInv, InBring
    <2>4. CASE phase = "secondary"
      <3>1. pc = 2 /\ CurrentCall.slots = {"sec"}
        <4>1. pc \in {1, 2} /\ (pc = 1 => CurrentCall.op = "create")
              /\ (pc = 2 => CurrentCall.slots = {"sec"})
          BY <2>1, <2>4, CallFacts, Zenon
        <4> QED BY <2>1, <4>1
      <3>2. cfg \in Configs
        BY <2>1, <2>4 DEF TypeOK, ControlType
      <3>3. pc <= Len(SecondaryPrograms[cfg]) /\ CurrentCall = SecondaryPrograms[cfg][pc].call
        BY <2>1, <2>4 DEF CallsLeft, CurrentCall, Starting, StartScript
      <3>4. cfg.dual_bms
        <4> SUFFICES ASSUME ~cfg.dual_bms
                     PROVE  FALSE
          BY Zenon
        <4>1. Len(SecondaryPrograms[cfg]) = 0
          BY <3>2, SecondaryStarted
        <4> QED BY <3>1, <3>3, <4>1
      <3>5. CurrentCall.arg = SecondaryTask(cfg)
        BY <3>1, <3>2, <3>3, <3>4, SecondaryStarted
      <3> QED BY <2>4, <3>1, <3>4, <3>5 DEF ReadyInv, InSpare
    <2> QED BY <2>2, <2>3, <2>4
  <1> QED BY <1>1, <1>2 DEF StartFindsTaskStopped

\* Neither ESP_ERR_INVALID_STATE nor ESP_ERR_INVALID_ARG ever comes up: a start function finds its
\* task stopped and its queues created, the poller of the second BMS included.
THEOREM StartIsReady == Spec => []StartFindsTaskStopped
  <1>1. Init => ReadyInv
    BY DEF Init, ReadyInv, InFilled, InSpare
  <1>2. LInv /\ ReadyInv /\ [Next]_vars => ReadyInv'
    BY NextReady, Zenon
  <1>3. LInv /\ ReadyInv => StartFindsTaskStopped
    BY ReadyFinds, Zenon
  <1> QED BY <1>1, <1>2, <1>3, RouteInvariance, PTL DEF Spec

-----------------------------------------------------------------------------
(* The CAN decoder caches.                                                 *)

\* Nothing cached is left when the next route begins.
CacheInv ==
    /\ canCache # "previous"
    /\ Stopping /\ pc > 10 => canCache = "empty"

\* orchestratorStop stops the tasks that feed the decoder before it resets the caches.
LEMMA DecodersFirst ==
    /\ \A j \in 10..24 : StopScript[j].op = "stop" => StopScript[j].arg \notin FrameDecoders
    /\ \A j \in 1..26 : StopScript[j].op = "caches" <=> j = 10
  BY DEF StopScript, Stop, Call, FrameDecoders

\* A step that leaves the caches alone.
LEMMA CacheKept ==
    ASSUME LInv, CacheInv, canCache' = canCache,
           \/ phase' = phase /\ pc' = pc
           \/ CallsLeft /\ Advance /\ CurrentCall.op # "caches"
           \/ pc' = 1
           \/ phase' \notin {"stopping", "aborting"}
    PROVE  CacheInv'
  <1>1. pc \in Nat \ {0} /\ TypeOK
    BY DEF LInv, IInv, TypeOK, ControlType
  <1>2. CASE CallsLeft /\ Advance /\ CurrentCall.op # "caches"
    <2>1. phase' = phase /\ pc' = pc + 1
      BY <1>2 DEF Advance
    <2>2. Stopping => pc # 10
      BY <1>1, <1>2, CallFacts, DecodersFirst
    <2> QED BY <1>1, <2>1, <2>2 DEF CacheInv, Stopping
  <1>3. CASE ~(CallsLeft /\ Advance /\ CurrentCall.op # "caches")
    BY <1>1, <1>3 DEF CacheInv, Stopping
  <1> QED BY <1>2, <1>3

LEMMA NextCache ==
    ASSUME LInv, CacheInv, [Next]_vars
    PROVE  CacheInv'
  <1>1. CASE MemsetCtx \/ SetActive \/ TaskStop \/ PylonRs485BridgeEnable \/ CanForwardSnifferStart
             \/ TaskStart \/ CreateQueue \/ OrchestratorReset
    <2>1. CallsLeft /\ Advance /\ CurrentCall.op # "caches" /\ canCache' = canCache
      BY <1>1 DEF MemsetCtx, SetActive, TaskStop, PylonRs485BridgeEnable, CanForwardSnifferStart,
                  TaskStart, CreateQueue, OrchestratorReset, At, dataVars
    <2> QED BY <2>1, CacheKept
  <1>2. CASE CanDecoderResetCaches
    BY <1>2 DEF CanDecoderResetCaches, CacheInv
  <1>3. CASE FailPrimary \/ UndoReturn \/ StartReturns \/ AbortReturns \/ PrimaryStarted
    BY <1>3, CacheKept DEF FailPrimary, UndoReturn, StartReturns, AbortReturns, PrimaryStarted, dataVars
  <1>4. CASE FailSecondary \/ ApplyRequest
    BY <1>4, CacheKept DEF FailSecondary, ApplyRequest, dataVars
  <1>5. CASE \E t \in Tasks : UndoStop(t)
    BY <1>5, CacheKept DEF UndoStop
  <1>6. CASE \E s \in Configs : BeginStart(s)
    <2>1. /\ phase = "stopping" /\ ~CallsLeft /\ pc' = 1 /\ canCache' = Aged(canCache)
      BY <1>6 DEF BeginStart
    <2>2. pc > 26
      BY <2>1, StopShape DEF CallsLeft, Starting, Stopping, LInv, IInv, TypeOK, ControlType
    <2>3. canCache = "empty"
      BY <2>1, <2>2 DEF CacheInv, Stopping, LInv, IInv, TypeOK, ControlType
    <2> QED BY <2>1, <2>3 DEF CacheInv, Aged
  <1>7. CASE \E t \in Tasks : CanFrame(t)
    <2>1. PICK t \in Tasks : CanFrame(t)
      BY <1>7
    <2>2. t \in running /\ t \in FrameDecoders /\ canCache' = "current" /\ UNCHANGED <<phase, pc>>
      BY <2>1 DEF CanFrame, controlVars
    <2>3. ASSUME Stopping, pc > 10
          PROVE  FALSE
      <3>1. PICK j \in pc..24 : StopScript[j].op = "stop" /\ StopScript[j].arg = t
        BY <2>2, <2>3 DEF LInv, RouteInv, InHalt
      <3>2. j \in 10..24
        BY <2>3 DEF LInv, IInv, TypeOK, ControlType
      <3> QED BY <2>2, <3>1, <3>2, DecodersFirst
    <2> QED BY <2>2, <2>3 DEF CacheInv, Stopping
  <1>8. CASE (\E t \in Tasks : Publish(t) \/ SourceStale(t)) \/ UNCHANGED vars
    BY <1>8, CacheKept DEF Publish, SourceStale, controlVars, vars, dataVars
  <1> QED BY <1>1, <1>2, <1>3, <1>4, <1>5, <1>6, <1>7, <1>8, Zenon DEF Next, Control, Environment

\* canDecoderResetCaches comes when no task feeds the decoder any more: no route sees the frames of
\* an earlier one.
THEOREM CachesAreOwn == Spec => []CacheIsOfThisRoute
  <1>1. Init => CacheInv
    BY DEF Init, CacheInv
  <1>2. LInv /\ CacheInv /\ [Next]_vars => CacheInv'
    BY NextCache, Zenon
  <1>3. CacheInv => CacheIsOfThisRoute
    BY DEF CacheInv, CacheIsOfThisRoute
  <1> QED BY <1>1, <1>2, <1>3, RouteInvariance, PTL DEF Spec

-----------------------------------------------------------------------------
(* The battery model.                                                      *)

\* A poller of the configuration wrote the model since it was started, or nobody did.
OwnModel == model = NoModel \/ (model.age = "current" /\ model.by \in PrimaryPollers(cfg))

\* The primary program has been carried out.
Raised == phase = "secondary" \/ (phase = "idle" /\ result = "ok")

\* Who may publish: a task of the primary program, the poller of the second BMS having to be silent.
InVoice ==
    Raised =>
        \A t \in running : \/ \E j \in 1..Len(Programs[cfg]) : t \in Brings(cfg, Programs[cfg][j])
                           \/ TelemetryOnly(t)

PollerStarted ==
    \E j \in 1..(pc - 1) : Programs[cfg][j].call.op = "start" /\ Programs[cfg][j].call.arg \in Pollers

\* The start of a poller has cleared the model, and only it has published since.
InModel ==
    /\ phase = "starting" /\ PollerStarted => OwnModel
    /\ Raised => OwnModel \/ PrimaryPollers(cfg) = {}

ModelInv == InVoice /\ InModel

\* Beside the pollers a program starts, only the inverter side of the Pylon bridge may publish, and
\* that only when it passes a Pylon source through.
Spoken(s, p) ==
    Started(p) \cap Pollers # {} =>
        \A i \in 1..Len(p) : \A t \in Brings(s, p[i]) \cap Publishers :
            t \in Started(p) \cap Pollers \/ (t = "pylonInvRx" /\ ~PylonPassthroughMode(s))

\* What a program without Pylon bridge and forwarder brings, it starts; of that only pollers publish.
Plain(p) ==
    \A i \in 1..Len(p) :
        p[i].call.op = "start" => p[i].call.arg \in (QueueTasks \cup {"modelRsGrowatt"})

LEMMA StartedPublishers == (QueueTasks \cup {"modelRsGrowatt"}) \cap Publishers \subseteq Pollers
  BY DEF QueueTasks, Publishers, Pollers, FrameDecoders

LEMMA PlainSpoken ==
    ASSUME NEW s, NEW p, Plain(p), DOMAIN p = 1..Len(p),
           \A i \in 1..Len(p) : /\ p[i].call.op # "forwarder"
                                /\ p[i].call.op = "bridge" => ~IsRs485Pylon(s.bms_protocol),
           s \in Configs
    PROVE  Spoken(s, p)
  <1> SUFFICES ASSUME NEW i \in 1..Len(p), NEW t \in Brings(s, p[i]) \cap Publishers
               PROVE  t \in Started(p) \cap Pollers \/ (t = "pylonInvRx" /\ ~PylonPassthroughMode(s))
    BY DEF Spoken
  <1>1. CASE p[i].call.op = "start"
    <2>1. t = p[i].call.arg
      BY <1>1 DEF Brings
    <2>2. t \in Started(p)
      BY <1>1, <2>1 DEF Started
    <2> QED BY <1>1, <2>1, <2>2, StartedPublishers DEF Plain
  <1>2. CASE p[i].call.op = "bridge"
    <2>1. t \in PylonWanted(s) /\ ~IsRs485Pylon(s.bms_protocol)
      BY <1>2 DEF Brings, PylonTasksOf
    <2>2. s.bms_protocol \notin PylonProtocols
      BY <2>1 DEF PylonProtocols
    <2>3. ~PylonPassthroughMode(s) /\ ~PylonToCanMode(s) /\ ~PylonSourceOnlyMode(s)
      BY <2>1, <2>2 DEF PylonPassthroughMode, PylonToCanMode, PylonSourceOnlyMode, IsRsToRsPylonRoute,
                        IsRsPylonToRsGrowattRoute, IsRsToRsGrowattRoute, IsRsToCanGrowattRoute
    <2> QED BY <2>1, <2>3 DEF PylonWanted, PylonTasks, Publishers, Pollers, FrameDecoders
  <1> QED BY <1>1, <1>2 DEF Brings

\* A program that starts no poller.
LEMMA SilentSpoken ==
    ASSUME NEW s, NEW p, DOMAIN p = 1..Len(p),
           \A i \in 1..Len(p) : p[i].call.op = "start" => p[i].call.arg \notin Pollers
    PROVE  Spoken(s, p)
  BY DEF Spoken, Started

LEMMA ArgumentsOfSteps ==
    /\ \A t, slots, u : Spawn(t, slots, u).call.arg = t
    /\ {"canRsGrowatt", "modelRsGrowatt", "growattInv", "pylonInv"} \cap Pollers = {}
    /\ "dalyCan" \in QueueTasks /\ {"growattInv", "pylonInv", "orchestrator"} \subseteq QueueTasks
  BY DEF Spawn, Call, Pollers, QueueTasks

LEMMA FixedSpoken ==
    ASSUME NEW s \in Configs
    PROVE  /\ Spoken(s, CanToRsGrowattProgram) /\ Spoken(s, RsPylonToRsGrowattProgram)
           /\ Spoken(s, RsPylonToCanGrowattProgram) /\ Spoken(s, PassthroughProgram)
           /\ Spoken(s, PylonBridgeProgram) /\ Spoken(s, PylonToCanProgram)
           /\ Spoken(s, CanDalyToCanPylonProgram)
  <1> USE SlotsOfSteps, ArgumentsOfSteps
  <1>1. Spoken(s, CanToRsGrowattProgram)
    BY SilentSpoken DEF CanToRsGrowattProgram
  <1>2. Spoken(s, RsPylonToRsGrowattProgram)
    BY SilentSpoken DEF RsPylonToRsGrowattProgram
  <1>3. Spoken(s, RsPylonToCanGrowattProgram)
    BY SilentSpoken DEF RsPylonToCanGrowattProgram
  <1>4. Spoken(s, PassthroughProgram) /\ Spoken(s, PylonBridgeProgram)
    BY SilentSpoken DEF PassthroughProgram, PylonBridgeProgram
  <1>5. Spoken(s, PylonToCanProgram)
    BY SilentSpoken DEF PylonToCanProgram
  <1>6. Spoken(s, CanDalyToCanPylonProgram)
    <2>1. DOMAIN CanDalyToCanPylonProgram = 1..Len(CanDalyToCanPylonProgram)
      BY DEF CanDalyToCanPylonProgram
    <2>2. Plain(CanDalyToCanPylonProgram)
      BY DEF Plain, CanDalyToCanPylonProgram
    <2>3. \A i \in 1..Len(CanDalyToCanPylonProgram) :
              CanDalyToCanPylonProgram[i].call.op \notin {"bridge", "forwarder"}
      BY DEF CanDalyToCanPylonProgram
    <2> QED BY <2>1, <2>2, <2>3, PlainSpoken
  <1> QED BY <1>1, <1>2, <1>3, <1>4, <1>5, <1>6

LEMMA ParametersSpoken ==
    ASSUME NEW s \in Configs, NEW t \in QueueTasks, NEW u \in QueueTasks
    PROVE  /\ \A tasks : Spoken(s, ModelResponderProgram(t, tasks))
           /\ Spoken(s, RsJkbmsToCanGrowattProgram(t))
           /\ Spoken(s, GenericProgram(t, u))
           /\ ~IsRs485Pylon(s.bms_protocol) => Spoken(s, PylonResponderProgram(t))
  <1> USE SlotsOfSteps, ArgumentsOfSteps
  <1>1. ASSUME NEW tasks PROVE Spoken(s, ModelResponderProgram(t, tasks))
    <2> DEFINE p == ModelResponderProgram(t, tasks)
    <2>1. DOMAIN p = 1..Len(p) /\ Plain(p)
          /\ \A i \in 1..Len(p) : p[i].call.op \notin {"bridge", "forwarder"}
      BY DEF Plain, ModelResponderProgram
    <2> HIDE DEF p
    <2>2. Spoken(s, p)
      BY <2>1, PlainSpoken
    <2> QED BY <2>2 DEF p
  <1>2. Spoken(s, RsJkbmsToCanGrowattProgram(t))
    <2> DEFINE p == RsJkbmsToCanGrowattProgram(t)
    <2>1. DOMAIN p = 1..Len(p) /\ Plain(p)
          /\ \A i \in 1..Len(p) : p[i].call.op \notin {"bridge", "forwarder"}
      BY DEF Plain, RsJkbmsToCanGrowattProgram
    <2> HIDE DEF p
    <2>2. Spoken(s, p)
      BY <2>1, PlainSpoken
    <2> QED BY <2>2 DEF p
  <1>3. Spoken(s, GenericProgram(t, u))
    <2> DEFINE p == GenericProgram(t, u)
    <2>1. DOMAIN p = 1..Len(p) /\ Plain(p)
          /\ \A i \in 1..Len(p) : p[i].call.op \notin {"bridge", "forwarder"}
      BY DEF Plain, GenericProgram
    <2> HIDE DEF p
    <2>2. Spoken(s, p)
      BY <2>1, PlainSpoken
    <2> QED BY <2>2 DEF p
  <1>4. ASSUME ~IsRs485Pylon(s.bms_protocol) PROVE Spoken(s, PylonResponderProgram(t))
    <2> DEFINE p == PylonResponderProgram(t)
    <2>1. DOMAIN p = 1..Len(p) /\ Plain(p)
          /\ \A i \in 1..Len(p) : p[i].call.op # "forwarder"
      BY DEF Plain, PylonResponderProgram
    <2> HIDE DEF p
    <2>2. Spoken(s, p)
      BY <1>4, <2>1, PlainSpoken
    <2> QED BY <2>2 DEF p
  <1> QED BY <1>1, <1>2, <1>3, <1>4

\* The routes that poll a source and answer as a Pylon have no Pylon source.
LEMMA ResponderSource ==
    ASSUME NEW s, Matches(s)[Route(s)],
           Route(s) \in {"rsJkbmsToRsPylon", "rsGrowattToRsPylon", "rsPaceToRsPylon",
                         "rsVoltronicToRsPylon", "rsChinaTowerToRsPylon", "rsWowToRsPylon",
                         "rsSeplosToRsPylon", "rsDalyToRsPylon", "canDalyToRsPylon"}
    PROVE  ~IsRs485Pylon(s.bms_protocol)
  <1>1. CASE Route(s) = "canDalyToRsPylon"
    BY <1>1 DEF Matches, IsCanDalyToRsPylonRoute, IsCanDaly, IsRs485Pylon
  <1>2. CASE Route(s) = "rsJkbmsToRsPylon"
    BY <1>2 DEF Matches, IsRsToRsPylonRoute, JkbmsProtocols, IsJkbmsRs485Protocol, IsRs485JkbmsModbus,
                IsRs485Pylon
  <1>3. CASE Route(s) \notin {"canDalyToRsPylon", "rsJkbmsToRsPylon"}
    BY <1>3 DEF Matches, IsRsToRsPylonRoute, IsRs485Pylon
  <1> QED BY <1>1, <1>2, <1>3

\* In every program, the publishers are the pollers it starts.
LEMMA ProgramSpoken ==
    ASSUME NEW s \in Configs
    PROVE  Spoken(s, Program(s))
  <1>1. CASE Route(s) = "generic"
    <2>1. GenericBmsTask(s) \in QueueTasks /\ GenericInverterTask(s) \in QueueTasks
      BY GenericTasks, KindsApart DEF QueueTasks
    <2> QED BY <1>1, <2>1, ParametersSpoken DEF Program
  <1>2. CASE Route(s) # "generic"
    <2>1. Matches(s)[Route(s)] /\ Route(s) \in Dedicated
      BY <1>2, RouteMatches, NamesOfRoutes
    <2>2. JkbmsPoller(s.bms_protocol) \in QueueTasks
      BY DEF JkbmsPoller, QueueTasks, Pollers
    <2>3. {"growattBms", "pace", "voltronic", "chinaTower", "wow", "seplos", "dalyRs485", "dalyCan"}
              \subseteq QueueTasks
      BY DEF QueueTasks, Pollers
    <2>4. CASE Route(s) \in {"rsJkbmsToRsPylon", "rsGrowattToRsPylon", "rsPaceToRsPylon",
                             "rsVoltronicToRsPylon", "rsChinaTowerToRsPylon", "rsWowToRsPylon",
                             "rsSeplosToRsPylon", "rsDalyToRsPylon", "canDalyToRsPylon"}
      <3>1. \A t \in QueueTasks : Spoken(s, PylonResponderProgram(t))
        BY <2>1, <2>4, ResponderSource, ParametersSpoken
      <3> QED BY <2>2, <2>3, <2>4, <3>1 DEF Program
    <2>5. CASE Route(s) \in {"rsJkbmsToRsGrowatt", "rsWowToRsGrowatt", "rsGrowattToRsGrowatt",
                             "rsJkbmsToCanGrowatt"}
      <3>1. \A t \in QueueTasks : /\ \A tasks : Spoken(s, ModelResponderProgram(t, tasks))
                                  /\ Spoken(s, RsJkbmsToCanGrowattProgram(t))
        BY ParametersSpoken
      <3> QED BY <2>2, <2>3, <2>5, <3>1 DEF Program
    <2>6. CASE Route(s) \in {"canToRsGrowatt", "rsPylonToRsGrowatt", "rsPylonToCanGrowatt",
                             "canDalyToCanPylon", "canDirectPassthrough", "pylonRs485Route"}
      BY <2>6, FixedSpoken DEF Program
    <2> QED BY <2>1, <2>4, <2>5, <2>6 DEF Dedicated
  <1> QED BY <1>1, <1>2

\* Where nothing is said of the model.
LEMMA ModelElsewhere ==
    ASSUME phase' # "starting", phase' # "secondary", phase' = "idle" => result' # "ok"
    PROVE  ModelInv'
  BY DEF ModelInv, InVoice, InModel, Raised

\* A call of the primary program that starts no task leaves the model alone.
LEMMA ModelCall ==
    ASSUME LInv, ModelInv, CallsLeft, Advance, phase = "starting", model' = model,
           CurrentCall.op # "start"
    PROVE  ModelInv'
  <1>1. phase' = phase /\ cfg' = cfg /\ pc' = pc + 1 /\ pc \in Nat \ {0}
    BY DEF Advance, LInv, IInv, TypeOK, ControlType
  <1>2. CurrentCall = Programs[cfg][pc].call
    BY StartingCall DEF LInv
  <1>3. PollerStarted' => PollerStarted
    BY <1>1, <1>2 DEF PollerStarted
  <1>4. OwnModel' <=> OwnModel
    BY <1>1 DEF OwnModel, PrimaryPollers
  <1> QED BY <1>1, <1>3, <1>4 DEF ModelInv, InVoice, InModel, Raised

\* A configuration some poller of which has been started has pollers.
LEMMA StartedPollers ==
    ASSUME LInv, phase = "starting", PollerStarted
    PROVE  PrimaryPollers(cfg) # {}
  <1>1. /\ cfg \in Configs /\ pc \in Nat \ {0} /\ Programs[cfg] = Program(cfg)
        /\ pc <= Len(Programs[cfg]) + 1
    BY DEF LInv, IInv, TypeOK, ControlType, Programs, RouteInv, InBring
  <1>2. DOMAIN Programs[cfg] = 1..Len(Programs[cfg]) /\ Len(Programs[cfg]) \in Nat
    BY <1>1, ProgramIsSequence
  <1>3. PICK j \in 1..(pc - 1) : Programs[cfg][j].call.op = "start" /\ Programs[cfg][j].call.arg \in Pollers
    BY DEF PollerStarted
  <1>4. j \in DOMAIN Programs[cfg]
    BY <1>1, <1>2
  <1> QED BY <1>3, <1>4 DEF PrimaryPollers, Started

\* Who publishes is a poller of the configuration.
LEMMA SpeakerIsOwn ==
    ASSUME LInv, ModelInv, NEW t \in Tasks, Publish(t), phase = "starting" \/ Raised,
           PrimaryPollers(cfg) # {}
    PROVE  t \in PrimaryPollers(cfg)
  <1>1. /\ t \in running /\ t \in Publishers /\ ~TelemetryOnly(t)
        /\ t = "pylonInvRx" => PylonPassthroughMode(cfg)
    BY DEF Publish, Raised
  <1>2. cfg \in Configs
    BY DEF LInv, IInv, TypeOK, ControlType, RouteInv, InResult, Raised
  <1>3. Programs[cfg] = Program(cfg) /\ Spoken(cfg, Programs[cfg])
    BY <1>2, ProgramSpoken DEF Programs
  <1>4. \E j \in 1..Len(Programs[cfg]) : t \in Brings(cfg, Programs[cfg][j])
    <2>1. CASE phase = "starting"
      <3>1. pc <= Len(Programs[cfg]) + 1 /\ pc \in Nat \ {0} /\ Len(Programs[cfg]) \in Nat
        BY <1>3, <2>1, ProgramIsSequence DEF LInv, RouteInv, InBring, IInv, TypeOK, ControlType
      <3>2. PICK j \in 1..(pc - 1) : t \in Brings(cfg, Programs[cfg][j])
        BY <1>1, <2>1 DEF LInv, RouteInv, InBring
      <3> QED BY <3>1, <3>2
    <2>2. CASE Raised
      BY <1>1, <2>2 DEF ModelInv, InVoice
    <2> QED BY <2>1, <2>2
  <1> QED BY <1>1, <1>3, <1>4 DEF Spoken, PrimaryPollers

\* What the running tasks write.
LEMMA ModelWrite ==
    ASSUME LInv, ModelInv, \/ \E t \in Tasks : Publish(t) \/ SourceStale(t) \/ CanFrame(t)
                           \/ UNCHANGED vars
    PROVE  ModelInv'
  <1>1. UNCHANGED <<phase, pc, cfg, result, running, ctx, held>>
    BY DEF Publish, SourceStale, CanFrame, vars, controlVars, taskVars
  <1>2. InVoice'
    BY <1>1 DEF ModelInv, InVoice, Raised, TelemetryOnly
  <1>3. PollerStarted' = PollerStarted /\ Raised' = Raised /\ PrimaryPollers(cfg') = PrimaryPollers(cfg)
    BY <1>1 DEF PollerStarted, Raised
  <1>4. ASSUME \/ phase = "starting" /\ PollerStarted
               \/ Raised /\ PrimaryPollers(cfg) # {}
        PROVE  OwnModel'
    <2>1. PrimaryPollers(cfg) # {} /\ OwnModel
      BY <1>4, StartedPollers DEF ModelInv, InModel
    <2>2. ASSUME NEW t \in Tasks, Publish(t) PROVE OwnModel'
      <3>1. t \in PrimaryPollers(cfg)
        BY <1>4, <2>1, <2>2, SpeakerIsOwn
      <3> QED BY <1>1, <2>2, <3>1 DEF Publish, OwnModel, PrimaryPollers
    <2>3. ASSUME NEW t \in Tasks, SourceStale(t) \/ CanFrame(t) PROVE OwnModel'
      BY <1>1, <2>1, <2>3 DEF SourceStale, CanFrame, OwnModel, PrimaryPollers
    <2>4. CASE UNCHANGED vars
      BY <1>1, <2>1, <2>4 DEF vars, dataVars, OwnModel, PrimaryPollers
    <2> QED BY <2>2, <2>3, <2>4
  <1>5. InModel'
    BY <1>1, <1>3, <1>4 DEF InModel
  <1> QED BY <1>2, <1>5 DEF ModelInv

\* A poller of the primary program starts with an empty model, that of the second BMS in silence.
LEMMA ModelStart ==
    ASSUME LInv, ModelInv, TaskStart
    PROVE  ModelInv'
  <1>0. PICK t : t = CurrentCall.arg
    OBVIOUS
  <1>1. /\ CallsLeft /\ CurrentCall.op = "start" /\ UNCHANGED <<phase, cfg, result, ctx>>
        /\ pc' = pc + 1 /\ pc \in Nat \ {0} /\ TypeOK /\ running' = running \cup {t}
        /\ model' = IF ClearsOnStart(t) THEN NoModel ELSE model
        /\ held' = [u \in QueueTasks |->
                        IF u = t THEN {ctx[slot] : slot \in CurrentCall.slots} ELSE held[u]]
    BY <1>0 DEF TaskStart, At, Advance, LInv, IInv, TypeOK, ControlType
  <1>2. phase \in {"starting", "secondary"}
    BY <1>1, CallFacts DEF StopOps, Stopping
  <1>3. CASE phase = "starting"
    <2>1. CurrentCall = Programs[cfg][pc].call
      BY <1>1, <1>3, StartingCall DEF LInv
    <2>2. CASE t \in Pollers
      BY <1>1, <1>3, <2>2 DEF ClearsOnStart, OwnModel, ModelInv, InVoice, InModel, Raised
    <2>3. CASE t \notin Pollers
      <3>1. PollerStarted' => PollerStarted
        BY <1>0, <1>1, <2>1, <2>3 DEF PollerStarted
      <3>2. OwnModel' <=> OwnModel
        BY <1>1, <2>3 DEF ClearsOnStart, OwnModel, PrimaryPollers
      <3> QED BY <1>1, <1>3, <3>1, <3>2 DEF ModelInv, InVoice, InModel, Raised
    <2> QED BY <2>2, <2>3
  <1>4. CASE phase = "secondary"
    <2>1. CurrentCall.slots = {"sec"} /\ t \in QueueTasks
      <3>1. pc \in {1, 2} /\ (pc = 1 => CurrentCall.op = "create")
            /\ (pc = 2 => CurrentCall.slots = {"sec"} /\ t \in QueueTasks)
        BY <1>0, <1>1, <1>4, CallFacts, Zenon
      <3> QED BY <1>1, <3>1
    <2>2. TelemetryOnly(t)'
      BY <1>1, <2>1 DEF TelemetryOnly
    <2>3. \A u \in running \ {t} : TelemetryOnly(u) => TelemetryOnly(u)'
      BY <1>1 DEF TelemetryOnly
    <2>4. InVoice'
      BY <1>1, <1>4, <2>2, <2>3 DEF ModelInv, InVoice, Raised
    <2>5. model' = model
      BY <1>1, <1>4 DEF ClearsOnStart
    <2>6. OwnModel' <=> OwnModel
      BY <1>1, <2>5 DEF OwnModel, PrimaryPollers
    <2>7. InModel'
      BY <1>1, <1>4, <2>6 DEF ModelInv, InModel, Raised, PrimaryPollers
    <2> QED BY <2>4, <2>7 DEF ModelInv
  <1> QED BY <1>2, <1>3, <1>4

\* While the queue of the second BMS is created, only the primary program's tasks run.
LEMMA ModelCreate ==
    ASSUME LInv, ModelInv, CreateQueue
    PROVE  ModelInv'
  <1>1. /\ CallsLeft /\ CurrentCall.op = "create" /\ Advance /\ UNCHANGED <<running, held, model>>
        /\ phase' = phase /\ cfg' = cfg /\ result' = result /\ pc' = pc + 1
    BY DEF CreateQueue, At, Advance, dataVars
  <1>2. CASE phase = "starting"
    BY <1>1, <1>2, ModelCall
  <1>3. CASE phase = "secondary"
    <2>1. pc = 1
      BY <1>1, <1>3, CarefulCall DEF LInv, Stopping
    <2>2. ctx["sec"] = NULL
      BY <1>3, <2>1 DEF LInv, IInv, InSecondary
    <2>3. \A t \in running : ~TelemetryOnly(t)
      BY <2>2, HandlesAssumption DEF TelemetryOnly, LInv, IInv, TypeOK, TaskType
    <2>4. InVoice'
      BY <1>1, <1>3, <2>3 DEF ModelInv, InVoice, Raised
    <2>5. OwnModel' <=> OwnModel
      BY <1>1 DEF OwnModel, PrimaryPollers
    <2>6. InModel'
      BY <1>1, <1>3, <2>5 DEF ModelInv, InModel, Raised, PrimaryPollers
    <2> QED BY <2>4, <2>6 DEF ModelInv
  <1> QED BY <1>1, <1>2, <1>3, CarefulCall DEF LInv

LEMMA ModelRaised ==
    ASSUME LInv, ModelInv, PrimaryStarted
    PROVE  ModelInv'
  <1>1. /\ phase = "starting" /\ ~CallsLeft /\ phase' = "secondary" /\ pc' = 1
        /\ UNCHANGED <<cfg, running, model>>
    BY DEF PrimaryStarted, taskVars, dataVars
  <1>2. /\ cfg \in Configs /\ pc \in Nat \ {0} /\ Programs[cfg] = Program(cfg)
        /\ pc <= Len(Programs[cfg]) + 1
    BY <1>1 DEF LInv, IInv, TypeOK, ControlType, Programs, RouteInv, InBring
  <1>3. DOMAIN Programs[cfg] = 1..Len(Programs[cfg]) /\ Len(Programs[cfg]) \in Nat
    BY <1>2, ProgramIsSequence
  <1>4. pc = Len(Programs[cfg]) + 1
    BY <1>1, <1>2, <1>3 DEF CallsLeft, Starting, StartScript
  <1>5. InVoice'
    <2>1. \A t \in running : \E j \in 1..Len(Programs[cfg]) : t \in Brings(cfg, Programs[cfg][j])
      BY <1>1, <1>3, <1>4 DEF LInv, RouteInv, InBring
    <2> QED BY <1>1, <2>1 DEF InVoice
  <1>6. PrimaryPollers(cfg) # {} => PollerStarted
    BY <1>3, <1>4 DEF PrimaryPollers, Started, PollerStarted
  <1>7. OwnModel' <=> OwnModel
    BY <1>1 DEF OwnModel, PrimaryPollers
  <1>8. PrimaryPollers(cfg') = PrimaryPollers(cfg)
    BY <1>1
  <1>9. InModel'
    BY <1>1, <1>6, <1>7, <1>8 DEF ModelInv, InModel
  <1> QED BY <1>5, <1>9 DEF ModelInv

LEMMA NextModel ==
    ASSUME LInv, ModelInv, [Next]_vars
    PROVE  ModelInv'
  <1>1. CASE MemsetCtx \/ CanDecoderResetCaches \/ SetActive \/ PylonRs485BridgeEnable
             \/ CanForwardSnifferStart
    <2>1. /\ CallsLeft /\ Advance /\ model' = model /\ phase' = phase
          /\ CurrentCall.op \in {"memset", "caches", "activate", "deactivate", "bridge", "forwarder"}
      BY <1>1 DEF MemsetCtx, CanDecoderResetCaches, SetActive, PylonRs485BridgeEnable,
                  CanForwardSnifferStart, At, Advance, dataVars
    <2>2. CASE phase = "starting"
      BY <2>1, <2>2, ModelCall
    <2>3. CASE phase = "secondary"
      <3>1. CurrentCall.op \in {"create", "start"}
        <4>1. pc \in {1, 2} /\ (pc = 1 => CurrentCall.op = "create")
              /\ (pc = 2 => CurrentCall.op = "start")
          BY <2>1, <2>3, CallFacts, Zenon DEF LInv, IInv
        <4> QED BY <4>1
      <3> QED BY <2>1, <3>1
    <2>4. CASE phase \in {"stopping", "aborting"}
      BY <2>1, <2>4, ModelElsewhere
    <2>5. TypeOK
      BY DEF LInv, IInv
    <2> QED BY <2>1, <2>2, <2>3, <2>4, <2>5, CallFacts
  <1>2. CASE TaskStop \/ OrchestratorReset
    <2>1. phase' = phase /\ CallsLeft /\ TypeOK /\ CurrentCall.op \in {"stop", "reset"}
      BY <1>2 DEF TaskStop, OrchestratorReset, At, Advance, LInv, IInv
    <2>2. phase \notin {"starting", "secondary"}
      <3>1. phase = "starting" => CurrentCall.op \notin {"stop", "reset"}
        BY <2>1, CallFacts DEF StepOK, StartOps
      <3>2. phase = "secondary" => CurrentCall.op \in {"create", "start"}
        <4>1. phase = "secondary" =>
                  /\ pc \in {1, 2} /\ (pc = 1 => CurrentCall.op = "create")
                  /\ (pc = 2 => CurrentCall.op = "start")
          BY <2>1, CallFacts, Zenon
        <4> QED BY <4>1
      <3> QED BY <2>1, <3>1, <3>2
    <2>3. phase # "idle"
      BY <2>1 DEF CallsLeft, Starting, Stopping
    <2> QED BY <2>1, <2>2, <2>3, ModelElsewhere
  <1>3. CASE FailPrimary \/ FailSecondary \/ ApplyRequest \/ (\E t \in Tasks : UndoStop(t))
    BY <1>3, ModelElsewhere DEF FailPrimary, FailSecondary, ApplyRequest, UndoStop
  <1>4. CASE UndoReturn \/ AbortReturns
    <2>1. phase' = "idle" /\ result' = "failed"
      BY <1>4, UndoReturnStep, AbortStep
    <2> QED BY <2>1, ModelElsewhere
  <1>5. CASE \E s \in Configs : BeginStart(s)
    <2>1. PICK s \in Configs : BeginStart(s)
      BY <1>5
    <2>2. phase' = "starting" /\ pc' = 1
      BY <2>1, BeginStep DEF BeginStart
    <2>3. ~PollerStarted'
      BY <2>2 DEF PollerStarted
    <2> QED BY <2>2, <2>3 DEF ModelInv, InVoice, InModel, Raised
  <1>6. CASE StartReturns
    <2>1. phase = "secondary" /\ UNCHANGED <<pc, cfg, running, held, ctx, model>>
      BY <1>6 DEF StartReturns, taskVars, dataVars
    <2>2. phase' = "idle" /\ Raised /\ InVoice' /\ (OwnModel' <=> OwnModel)
      BY <1>6, <2>1 DEF StartReturns, Raised, ModelInv, InVoice, TelemetryOnly, OwnModel, PrimaryPollers
    <2> QED BY <2>1, <2>2 DEF ModelInv, InModel, PrimaryPollers
  <1>7. CASE TaskStart \/ CreateQueue \/ PrimaryStarted
    BY <1>7, ModelStart, ModelCreate, ModelRaised
  <1>8. CASE (\E t \in Tasks : Publish(t) \/ SourceStale(t) \/ CanFrame(t)) \/ UNCHANGED vars
    BY <1>8, ModelWrite
  <1> QED BY <1>1, <1>2, <1>3, <1>4, <1>5, <1>6, <1>7, <1>8, Zenon DEF Next, Control, Environment

\* The pollers clear the model before their task is created and the second BMS's poller does not
\* publish: once a polled route is up, what responders and senders read is that poller's, and of this
\* configuration.
THEOREM ModelIsOfThePoller == Spec => []PollerModelIsOwn
  <1>1. Init => ModelInv
    BY DEF Init, ModelInv, InVoice, InModel, Raised
  <1>2. LInv /\ ModelInv /\ [Next]_vars => ModelInv'
    BY NextModel, Zenon
  <1>3. ModelInv => PollerModelIsOwn
    BY DEF ModelInv, InModel, Raised, OwnModel, PollerModelIsOwn
  <1> QED BY <1>1, <1>2, <1>3, RouteInvariance, PTL DEF Spec
=============================================================================
