--------------------------- MODULE RouteSelection ---------------------------
(***************************************************************************)
(* The pure part of the orchestrator: which runtime settings the firmware  *)
(* accepts (runtime_settings.c, validateSettings) and which bridge route   *)
(* an accepted record selects (orchestrator.c, the is...Route predicates   *)
(* and the if-cascade of orchestratorStartPrimaryFromRuntime).             *)
(*                                                                         *)
(* A protocol identifier is a string named after its macro in config.h; a  *)
(* line is "CAN" or "RS485"; a port is 1 or 2.  The web port and the Wi-Fi *)
(* credentials of the record do not influence routing and are left to the  *)
(* settings module.                                                        *)
(***************************************************************************)
EXTENDS Naturals, FiniteSetsExt

Modes == {"SNIFFER", "FORWARD", "BRIDGE"}
Lines == {"CAN", "RS485"}
Ports == {1, 2}

CanBmsProtocols ==
    {"CAN_GROWATT", "CAN_PYLON", "CAN_DEYE", "CAN_GOODWE", "CAN_SOFAR",
     "CAN_SMA", "CAN_VICTRON", "CAN_JKBMS_250K", "CAN_DALY", "CAN_DALY_500K"}

RsBmsProtocols ==
    {"RS485_GROWATT", "RS485_PYLON", "RS485_PYLON_115200", "RS485_JKBMS",
     "RS485_JKBMS_115200", "RS485_JKBMS_NATIVE", "RS485_PACE",
     "RS485_VOLTRONIC", "RS485_CHINA_TOWER", "RS485_WOW", "RS485_SEPLOS",
     "RS485_SEPLOS_19200", "RS485_DALY"}

CanInverterProtocols ==
    CanBmsProtocols \ {"CAN_JKBMS_250K", "CAN_DALY", "CAN_DALY_500K"}

RsInverterProtocols == {"RS485_GROWATT", "RS485_PYLON", "RS485_PYLON_115200"}

Protocols == CanBmsProtocols \cup RsBmsProtocols

Settings ==
    [mode : Modes, bms_line : Lines, inverter_line : Lines,
     bms_protocol : Protocols, inverter_protocol : Protocols,
     bms_port : Ports, inverter_port : Ports,
     dual_bms : BOOLEAN, bms2_protocol : Protocols, bms2_port : Ports]

IsRs485JkbmsModbus(p) == p \in {"RS485_JKBMS", "RS485_JKBMS_115200"}
IsRs485Pylon(p) == p \in {"RS485_PYLON", "RS485_PYLON_115200"}
IsCanDaly(p) == p \in {"CAN_DALY", "CAN_DALY_500K"}
IsJkbmsRs485Protocol(p) == IsRs485JkbmsModbus(p) \/ p = "RS485_JKBMS_NATIVE"

-----------------------------------------------------------------------------
(* validateSettings                                                        *)

\* Mutant: the two family conjuncts dropped.
DualBmsValidAnyFamily(s) ==
    /\ s.mode = "BRIDGE"
    /\ IsRs485JkbmsModbus(s.bms2_protocol) \/ s.bms2_protocol = "RS485_DALY"
    /\ ~(s.bms_line = "RS485" /\ s.bms_port = s.bms2_port)
    /\ ~(s.inverter_line = "RS485" /\ s.inverter_port = s.bms2_port)

\* The second BMS is telemetry-only: RS485, on a port of its own, and of a
\* poller family the primary does not use.
DualBmsValid(s) ==
    /\ s.mode = "BRIDGE"
    /\ IsRs485JkbmsModbus(s.bms2_protocol) \/ s.bms2_protocol = "RS485_DALY"
    /\ ~(s.bms_line = "RS485" /\ s.bms_port = s.bms2_port)
    /\ ~(s.inverter_line = "RS485" /\ s.inverter_port = s.bms2_port)
    /\ ~(IsRs485JkbmsModbus(s.bms_protocol) /\ IsRs485JkbmsModbus(s.bms2_protocol))
    /\ ~(s.bms_protocol = "RS485_DALY" /\ s.bms2_protocol = "RS485_DALY")

ValidSettings(s) ==
    /\ s.dual_bms => DualBmsValid(s)
    /\ s.bms_protocol \in (IF s.bms_line = "CAN" THEN CanBmsProtocols
                                                 ELSE RsBmsProtocols)
    /\ s.inverter_protocol \in (IF s.inverter_line = "CAN" THEN CanInverterProtocols
                                                          ELSE RsInverterProtocols)

-----------------------------------------------------------------------------
(* The route predicates.                                                   *)

OnLines(s, bms, inverter) == s.bms_line = bms /\ s.inverter_line = inverter

IsCanToRsGrowattRoute(s) ==
    /\ OnLines(s, "CAN", "RS485")
    /\ s.bms_protocol \in {"CAN_GROWATT", "CAN_PYLON", "CAN_JKBMS_250K",
                           "CAN_GOODWE", "CAN_SOFAR", "CAN_SMA", "CAN_VICTRON"}
    /\ s.inverter_protocol = "RS485_GROWATT"

IsRsToRsGrowattRoute(s, sourceProtocols) ==
    /\ OnLines(s, "RS485", "RS485")
    /\ s.bms_protocol \in sourceProtocols
    /\ s.inverter_protocol = "RS485_GROWATT"

IsRsToRsPylonRoute(s, sourceProtocols) ==
    /\ OnLines(s, "RS485", "RS485")
    /\ s.bms_protocol \in sourceProtocols
    /\ IsRs485Pylon(s.inverter_protocol)

JkbmsProtocols == {p \in Protocols : IsJkbmsRs485Protocol(p)}
PylonProtocols == {p \in Protocols : IsRs485Pylon(p)}

IsRsGrowattToRsGrowattRoute(s) ==
    s.mode = "BRIDGE" /\ IsRsToRsGrowattRoute(s, {"RS485_GROWATT"})

IsRsPylonToRsGrowattRoute(s) ==
    s.mode = "BRIDGE" /\ IsRsToRsGrowattRoute(s, PylonProtocols)

IsRsToCanGrowattRoute(s, sourceProtocols) ==
    /\ s.mode = "BRIDGE"
    /\ OnLines(s, "RS485", "CAN")
    /\ s.bms_protocol \in sourceProtocols
    /\ s.inverter_protocol = "CAN_GROWATT"

IsCanDalyToRsPylonRoute(s) ==
    /\ OnLines(s, "CAN", "RS485")
    /\ IsCanDaly(s.bms_protocol)
    /\ IsRs485Pylon(s.inverter_protocol)

IsCanDalyToCanPylonRoute(s) ==
    /\ s.mode = "BRIDGE"
    /\ OnLines(s, "CAN", "CAN")
    /\ s.bms_port # s.inverter_port
    /\ IsCanDaly(s.bms_protocol)
    /\ s.inverter_protocol = "CAN_PYLON"

IsCanDirectPassthroughRoute(s) ==
    /\ s.mode = "BRIDGE"
    /\ OnLines(s, "CAN", "CAN")
    /\ s.bms_port # s.inverter_port
    /\ s.bms_protocol = s.inverter_protocol

\* The modes pylonRs485BridgeEnable distinguishes.
PylonPassthroughMode(s) ==
    s.mode = "BRIDGE" /\ IsRsToRsPylonRoute(s, PylonProtocols)

PylonToCanMode(s) ==
    /\ s.mode = "BRIDGE"
    /\ OnLines(s, "RS485", "CAN")
    /\ IsRs485Pylon(s.bms_protocol)
    /\ s.inverter_protocol = "CAN_PYLON"

PylonSourceOnlyMode(s) ==
    \/ IsRsPylonToRsGrowattRoute(s)
    \/ IsRsToCanGrowattRoute(s, PylonProtocols)

PylonCanToRs485Mode(s) ==
    /\ OnLines(s, "CAN", "RS485")
    /\ s.bms_protocol = "CAN_PYLON"
    /\ IsRs485Pylon(s.inverter_protocol)

PylonCanSyntheticSourceMode(s) ==
    /\ OnLines(s, "CAN", "RS485")
    /\ s.bms_protocol \in CanBmsProtocols \ {"CAN_PYLON"}
    /\ IsRs485Pylon(s.inverter_protocol)

PylonRs485BridgeSupportsRoute(s) ==
    \/ IsRsToRsPylonRoute(s, PylonProtocols)
    \/ PylonSourceOnlyMode(s)
    \/ PylonToCanMode(s)
    \/ PylonCanToRs485Mode(s)
    \/ PylonCanSyntheticSourceMode(s)

-----------------------------------------------------------------------------
(* The cascade: the first predicate that holds, in this order, decides.    *)

\* Mutant: the Pylon bridge tried first.
RouteOrderPylonFirst ==
    <<"pylonRs485Route", "canToRsGrowatt", "rsPylonToRsGrowatt", "rsPylonToCanGrowatt",
      "rsJkbmsToRsGrowatt", "rsWowToRsGrowatt", "rsGrowattToRsGrowatt",
      "rsJkbmsToCanGrowatt", "rsJkbmsToRsPylon", "rsGrowattToRsPylon",
      "rsPaceToRsPylon", "rsVoltronicToRsPylon", "rsChinaTowerToRsPylon",
      "rsWowToRsPylon", "rsSeplosToRsPylon", "rsDalyToRsPylon",
      "canDalyToRsPylon", "canDalyToCanPylon", "canDirectPassthrough">>

RouteOrder ==
    <<"canToRsGrowatt", "rsPylonToRsGrowatt", "rsPylonToCanGrowatt",
      "rsJkbmsToRsGrowatt", "rsWowToRsGrowatt", "rsGrowattToRsGrowatt",
      "rsJkbmsToCanGrowatt", "rsJkbmsToRsPylon", "rsGrowattToRsPylon",
      "rsPaceToRsPylon", "rsVoltronicToRsPylon", "rsChinaTowerToRsPylon",
      "rsWowToRsPylon", "rsSeplosToRsPylon", "rsDalyToRsPylon",
      "canDalyToRsPylon", "canDalyToCanPylon", "canDirectPassthrough",
      "pylonRs485Route">>

Routes == {RouteOrder[i] : i \in DOMAIN RouteOrder} \cup {"generic"}

Matches(s) ==
    [canToRsGrowatt        |-> IsCanToRsGrowattRoute(s),
     rsPylonToRsGrowatt    |-> IsRsPylonToRsGrowattRoute(s),
     rsPylonToCanGrowatt   |-> IsRsToCanGrowattRoute(s, PylonProtocols),
     rsJkbmsToRsGrowatt    |-> IsRsToRsGrowattRoute(s, JkbmsProtocols),
     rsWowToRsGrowatt      |-> IsRsToRsGrowattRoute(s, {"RS485_WOW"}),
     rsGrowattToRsGrowatt  |-> IsRsGrowattToRsGrowattRoute(s),
     rsJkbmsToCanGrowatt   |-> IsRsToCanGrowattRoute(s, JkbmsProtocols),
     rsJkbmsToRsPylon      |-> IsRsToRsPylonRoute(s, JkbmsProtocols),
     rsGrowattToRsPylon    |-> IsRsToRsPylonRoute(s, {"RS485_GROWATT"}),
     rsPaceToRsPylon       |-> IsRsToRsPylonRoute(s, {"RS485_PACE"}),
     rsVoltronicToRsPylon  |-> IsRsToRsPylonRoute(s, {"RS485_VOLTRONIC"}),
     rsChinaTowerToRsPylon |-> IsRsToRsPylonRoute(s, {"RS485_CHINA_TOWER"}),
     rsWowToRsPylon        |-> IsRsToRsPylonRoute(s, {"RS485_WOW"}),
     rsSeplosToRsPylon     |-> IsRsToRsPylonRoute(s, {"RS485_SEPLOS", "RS485_SEPLOS_19200"}),
     rsDalyToRsPylon       |-> IsRsToRsPylonRoute(s, {"RS485_DALY"}),
     canDalyToRsPylon      |-> IsCanDalyToRsPylonRoute(s),
     canDalyToCanPylon     |-> IsCanDalyToCanPylonRoute(s),
     canDirectPassthrough  |-> IsCanDirectPassthroughRoute(s),
     pylonRs485Route       |-> PylonRs485BridgeSupportsRoute(s)]

Route(s) ==
    LET hits == {i \in DOMAIN RouteOrder : Matches(s)[RouteOrder[i]]}
    IN  IF hits = {} THEN "generic" ELSE RouteOrder[Min(hits)]

-----------------------------------------------------------------------------
(* protocolIdFromUiProtocol: the task family a protocol belongs to.  Every *)
(* identifier the switch does not name falls to GROWATT.                   *)

ProtocolIdFromUiProtocol(p) ==
    CASE IsRs485Pylon(p) \/ p = "CAN_PYLON"                  -> "PYLON"
      [] IsRs485JkbmsModbus(p)                               -> "JKBMS"
      [] p = "RS485_JKBMS_NATIVE"                            -> "JKBMS_NATIVE"
      [] p = "RS485_PACE"                                    -> "PACE"
      [] p = "RS485_VOLTRONIC"                               -> "VOLTRONIC"
      [] p = "RS485_CHINA_TOWER"                             -> "CHINA_TOWER"
      [] p = "RS485_WOW"                                     -> "WOW"
      [] p \in {"RS485_SEPLOS", "RS485_SEPLOS_19200"}        -> "SEPLOS"
      [] IsCanDaly(p) \/ p = "RS485_DALY"                    -> "DALY"
      [] OTHER                                               -> "GROWATT"
=============================================================================
