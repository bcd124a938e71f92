--------------------------- MODULE MCRouteCascade ---------------------------
(* Every combination of lines, protocols and ports for one BMS, and with a *)
(* second BMS every port and a protocol of each kind.                      *)
EXTENDS RouteCascade

Record(mode, lines, protocols, ports, dual, bms2, port2) ==
    [mode |-> mode, bms_line |-> lines[1], inverter_line |-> lines[2],
     bms_protocol |-> protocols[1], inverter_protocol |-> protocols[2],
     bms_port |-> ports[1], inverter_port |-> ports[2],
     dual_bms |-> dual, bms2_protocol |-> bms2, bms2_port |-> port2]

LinePairs == Lines \X Lines
PortPairs == Ports \X Ports

\* One inverter protocol no inverter speaks, to be rejected.
InverterCandidates == CanInverterProtocols \cup RsInverterProtocols \cup {"CAN_DALY"}
ProtocolPairs == Protocols \X InverterCandidates

MCCandidates ==
    {Record(m, l, p, q, FALSE, "RS485_JKBMS", 1) :
        m \in {"BRIDGE", "FORWARD"}, l \in LinePairs, p \in ProtocolPairs, q \in PortPairs}
    \cup
    {Record("BRIDGE", l, p, q, TRUE, b, r) :
        l \in LinePairs, p \in ProtocolPairs, q \in PortPairs,
        b \in {"RS485_JKBMS", "RS485_DALY", "RS485_PACE"}, r \in Ports}
=============================================================================
