---------------------------- MODULE RouteCascade ----------------------------
(***************************************************************************)
(* One settings record on its way from validateSettings through the        *)
(* cascade of orchestratorStartPrimaryFromRuntime to the program that      *)
(* serves it, with the properties the chosen route must have.              *)
(***************************************************************************)
EXTENDS RoutePrograms

CONSTANT Candidates    \* the records that may be posted

ASSUME CandidatesAssumption == Candidates \subseteq Settings

VARIABLES settings, verdict, route

vars == <<settings, verdict, route>>

Init ==
    /\ settings \in Candidates
    /\ verdict = "pending"
    /\ route = "none"

Validate ==
    /\ verdict = "pending"
    /\ verdict' = IF ValidSettings(settings) THEN "accepted" ELSE "rejected"
    /\ UNCHANGED <<settings, route>>

\* Only bridge mode reaches the cascade.
Select ==
    /\ verdict = "accepted"
    /\ settings.mode = "BRIDGE"
    /\ route = "none"
    /\ route' = Route(settings)
    /\ UNCHANGED <<settings, verdict>>

Next == Validate \/ Select

Spec == Init /\ [][Next]_vars

-----------------------------------------------------------------------------

Selected == route # "none"

\* No two rows of the route matrix in README.md:85-106 and no branch before
\* it in the cascade take a configuration away from the row that describes
\* it: the cascade selects the branch the row stands for.
RowsToRs(inverter) ==
    IF inverter = "RS485_GROWATT"
    THEN [rsJkbmsToRsGrowatt |-> JkbmsProtocols, rsWowToRsGrowatt |-> {"RS485_WOW"}]
    ELSE [rsJkbmsToRsPylon      |-> JkbmsProtocols,
          rsGrowattToRsPylon    |-> {"RS485_GROWATT"},
          rsPaceToRsPylon       |-> {"RS485_PACE"},
          rsVoltronicToRsPylon  |-> {"RS485_VOLTRONIC"},
          rsChinaTowerToRsPylon |-> {"RS485_CHINA_TOWER"},
          rsWowToRsPylon        |-> {"RS485_WOW"},
          rsDalyToRsPylon       |-> {"RS485_DALY"},
          pylonRs485Route       |-> PylonProtocols]

RowsToCan(inverter) ==
    IF inverter = "CAN_GROWATT"
    THEN [rsJkbmsToCanGrowatt |-> JkbmsProtocols, rsPylonToCanGrowatt |-> PylonProtocols]
    ELSE [generic         |-> {"RS485_GROWATT", "RS485_DALY"},
          pylonRs485Route |-> PylonProtocols]

RowsFromCan(inverter) ==
    IF inverter = "RS485_GROWATT"
    THEN [canToRsGrowatt |-> {"CAN_GROWATT", "CAN_PYLON", "CAN_GOODWE", "CAN_SOFAR",
                              "CAN_SMA", "CAN_VICTRON"}]
    ELSE [canDalyToRsPylon |-> {"CAN_DALY", "CAN_DALY_500K"},
          pylonRs485Route  |-> {"CAN_PYLON", "CAN_DEYE", "CAN_JKBMS_250K"}]

MatrixRows(s) ==
    CASE OnLines(s, "RS485", "RS485") -> RowsToRs(s.inverter_protocol)
      [] OnLines(s, "CAN", "RS485")   -> RowsFromCan(s.inverter_protocol)
      [] OnLines(s, "RS485", "CAN") /\ s.inverter_protocol \in {"CAN_GROWATT", "CAN_PYLON"}
                                      -> RowsToCan(s.inverter_protocol)
      [] OTHER                        -> <<>>

MatrixRowIsSelected ==
    Selected => \A row \in DOMAIN MatrixRows(settings) :
                    settings.bms_protocol \in MatrixRows(settings)[row] => route = row

\* The tasks of the selected route that talk to the inverter.
CallsBridge(program) == \E i \in DOMAIN program : program[i].call.op = "bridge"

InverterTasks(s) ==
    (Started(Program(s)) \cap {"canRsGrowatt", "modelRsGrowatt", "growattInv", "pylonInv"})
        \cup (IF CallsBridge(Program(s)) THEN PylonWanted(s) \cap {"pylonInvRx"} ELSE {})
        \cup (IF route = "canDirectPassthrough" THEN ForwarderWanted(s) ELSE {})

OnCan == {"growattInv", "pylonInv", "canTaskA", "canTaskB", "canSnapshot"}

\* A dedicated route talks to the inverter, and on the line the settings name.
DedicatedRouteServesInverterLine ==
    Selected /\ route # "generic" =>
        /\ InverterTasks(settings) # {}
        /\ IF settings.inverter_line = "CAN"
           THEN InverterTasks(settings) \cap OnCan # {}
           ELSE InverterTasks(settings) \cap OnCan = {}

\* An RS485 source other than Pylon is polled by the task of its own family,
\* whichever route was selected.
FamilyTask(p) ==
    CASE IsRs485JkbmsModbus(p)     -> "jkbmsModbus"
      [] p = "RS485_JKBMS_NATIVE"  -> "jkbmsNative"
      [] p = "RS485_GROWATT"       -> "growattBms"
      [] p = "RS485_PACE"          -> "pace"
      [] p = "RS485_VOLTRONIC"     -> "voltronic"
      [] p = "RS485_CHINA_TOWER"   -> "chinaTower"
      [] p = "RS485_WOW"           -> "wow"
      [] p = "RS485_DALY"          -> "dalyRs485"
      [] OTHER                     -> "seplos"

RsSourceIsPolled ==
    Selected /\ settings.bms_line = "RS485" /\ ~IsRs485Pylon(settings.bms_protocol)
        => FamilyTask(settings.bms_protocol) \in Started(Program(settings))

\* The second BMS gets a poller no primary route uses: validateSettings and
\* the cascade agree on which task families collide.
SecondBmsHasOwnTask ==
    Selected /\ settings.dual_bms
        => SecondaryTask(settings) \notin Started(Program(settings))

\* docs/dual_bms.md:20-21: "BMS 2 must use a free RS485 port."  No poller of
\* the primary route uses the port of the second BMS.
SecondBmsPortIsFree ==
    Selected /\ settings.dual_bms /\ settings.bms_port = settings.bms2_port
        => Started(Program(settings)) \cap (Pollers \ {"dalyCan"}) = {}
=============================================================================
