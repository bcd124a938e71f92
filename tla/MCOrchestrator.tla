--------------------------- MODULE MCOrchestrator ---------------------------
(* Instances of Orchestrator for TLC.                                      *)
EXTENDS Orchestrator

\* A bridge configuration, one BMS.
Single(bmsLine, bms, inverterLine, inverter) ==
    [mode |-> "BRIDGE", bms_line |-> bmsLine, inverter_line |-> inverterLine,
     bms_protocol |-> bms, inverter_protocol |-> inverter,
     bms_port |-> 1, inverter_port |-> 2, dual_bms |-> FALSE,
     bms2_protocol |-> "RS485_JKBMS", bms2_port |-> 1]

Dual(s, bms2, port) ==
    [s EXCEPT !.dual_bms = TRUE, !.bms2_protocol = bms2, !.bms2_port = port]

\* Every candidate the firmware accepts is a configuration of the model.
Accepted(candidates) == {s \in candidates : ValidSettings(s)}

\* Every branch of the cascade, the Pylon bridge with each of its task
\* sets, and the generic route with every kind of source task.
DedicatedConfigs ==
    {Single("CAN", p, "RS485", "RS485_GROWATT") : p \in {"CAN_GROWATT"}}
    \cup {Single("RS485", p, "RS485", "RS485_GROWATT") :
             p \in {"RS485_PYLON", "RS485_JKBMS_NATIVE", "RS485_WOW", "RS485_GROWATT"}}
    \cup {Single("RS485", p, "CAN", "CAN_GROWATT") : p \in {"RS485_PYLON", "RS485_JKBMS"}}
    \cup {Single("RS485", p, "RS485", "RS485_PYLON") :
             p \in {"RS485_JKBMS", "RS485_GROWATT", "RS485_PACE", "RS485_VOLTRONIC",
                    "RS485_CHINA_TOWER", "RS485_WOW", "RS485_SEPLOS", "RS485_DALY",
                    "RS485_PYLON"}}
    \cup {Single("CAN", p, "RS485", "RS485_PYLON") : p \in {"CAN_DALY", "CAN_PYLON"}}
    \cup {Single("CAN", p, "CAN", "CAN_PYLON") : p \in {"CAN_DALY", "CAN_PYLON"}}
    \cup {Single("RS485", "RS485_PYLON", "CAN", "CAN_PYLON")}

GenericConfigs ==
    {Single("RS485", p, "CAN", "CAN_PYLON") : p \in {"RS485_DALY", "RS485_PACE"}}
    \cup {Single("CAN", "CAN_PYLON", "CAN", "CAN_GROWATT"),
          Single("RS485", "RS485_JKBMS_NATIVE", "CAN", "CAN_PYLON")}

\* Dual BMS beside a dedicated and beside a generic route, the colliding
\* families included: validateSettings has to keep them out.
DualConfigs ==
    {Dual(s, bms2, 2) :
        s \in {Single("RS485", "RS485_PYLON", "CAN", "CAN_PYLON"),
               Single("RS485", "RS485_DALY", "CAN", "CAN_PYLON"),
               Single("RS485", "RS485_JKBMS", "CAN", "CAN_GROWATT")},
        bms2 \in {"RS485_DALY", "RS485_JKBMS"}}

MCConfigs == Accepted(DedicatedConfigs \cup GenericConfigs \cup DualConfigs)
=============================================================================
