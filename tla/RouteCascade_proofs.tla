------------------------- MODULE RouteCascade_proofs -------------------------
(***************************************************************************)
(* For every set of candidate settings: the cascade selects the branch of  *)
(* the row of the route matrix, a dedicated branch serves the inverter on  *)
(* its line, an RS485 source is polled by the task of its family, and the  *)
(* second BMS by a task the primary route does not use. The cascade is     *)
(* characterised once, as the first predicate that holds; the rest is what *)
(* each predicate says of lines and protocols and what each program starts.*)
(***************************************************************************)
EXTENDS RouteCascade, WellFoundedInduction, TLAPS

\* The route is selected for accepted settings in bridge mode.
CascadeInv ==
    /\ settings \in Settings
    /\ verdict = "accepted" => ValidSettings(settings)
    /\ Selected => verdict = "accepted" /\ settings.mode = "BRIDGE" /\ route = Route(settings)

-----------------------------------------------------------------------------
(* The cascade.                                                            *)

LEMMA OrderOfRoutes ==
    /\ DOMAIN RouteOrder = 1..19
    /\ RouteOrder[1] = "canToRsGrowatt" /\ RouteOrder[2] = "rsPylonToRsGrowatt"
    /\ RouteOrder[3] = "rsPylonToCanGrowatt" /\ RouteOrder[4] = "rsJkbmsToRsGrowatt"
    /\ RouteOrder[5] = "rsWowToRsGrowatt" /\ RouteOrder[6] = "rsGrowattToRsGrowatt"
    /\ RouteOrder[7] = "rsJkbmsToCanGrowatt" /\ RouteOrder[8] = "rsJkbmsToRsPylon"
    /\ RouteOrder[9] = "rsGrowattToRsPylon" /\ RouteOrder[10] = "rsPaceToRsPylon"
    /\ RouteOrder[11] = "rsVoltronicToRsPylon" /\ RouteOrder[12] = "rsChinaTowerToRsPylon"
    /\ RouteOrder[13] = "rsWowToRsPylon" /\ RouteOrder[14] = "rsSeplosToRsPylon"
    /\ RouteOrder[15] = "rsDalyToRsPylon" /\ RouteOrder[16] = "canDalyToRsPylon"
    /\ RouteOrder[17] = "canDalyToCanPylon" /\ RouteOrder[18] = "canDirectPassthrough"
    /\ RouteOrder[19] = "pylonRs485Route"
  BY DEF RouteOrder

LEMMA PylonIsLast == \A i \in 1..19 : RouteOrder[i] = "pylonRs485Route" => i = 19
  BY DEF RouteOrder

Dedicated ==
    {"canToRsGrowatt", "rsPylonToRsGrowatt", "rsPylonToCanGrowatt", "rsJkbmsToRsGrowatt",
     "rsWowToRsGrowatt", "rsGrowattToRsGrowatt", "rsJkbmsToCanGrowatt", "rsJkbmsToRsPylon",
     "rsGrowattToRsPylon", "rsPaceToRsPylon", "rsVoltronicToRsPylon", "rsChinaTowerToRsPylon",
     "rsWowToRsPylon", "rsSeplosToRsPylon", "rsDalyToRsPylon", "canDalyToRsPylon",
     "canDalyToCanPylon", "canDirectPassthrough", "pylonRs485Route"}

\* A set of positions has a first one, and Min is it.
LEMMA FirstHit ==
    ASSUME NEW hits \in SUBSET (1..19), hits # {}
    PROVE  Min(hits) \in hits /\ \A m \in hits : Min(hits) <= m
  <1>1. \E n \in hits : \A m \in hits : n <= m
    <2>0. hits \subseteq Nat
      OBVIOUS
    <2>1. PICK n \in hits : \A m \in hits : <<m, n>> \notin OpToRel(<, Nat)
      BY <2>0, NatLessThanWellFounded, WFMin
    <2>2. \A m \in hits : <<m, n>> \in Nat \X Nat /\ ~(m < n)
      BY <2>0, <2>1 DEF OpToRel
    <2>3. ASSUME NEW m \in hits PROVE n <= m
      <3>1. n \in Nat /\ m \in Nat /\ ~(m < n)
        BY <2>0, <2>2
      <3> QED BY <3>1
    <2> QED BY <2>3, Zenon
  <1> QED BY <1>1 DEF Min

\* The first predicate that holds decides.
LEMMA CascadeIsFirst ==
    ASSUME NEW s
    PROVE  \/ Route(s) = "generic" /\ \A j \in 1..19 : ~Matches(s)[RouteOrder[j]]
           \/ \E i \in 1..19 : /\ Route(s) = RouteOrder[i] /\ Matches(s)[RouteOrder[i]]
                               /\ \A j \in 1..(i - 1) : ~Matches(s)[RouteOrder[j]]
  <1> DEFINE hits == {i \in DOMAIN RouteOrder : Matches(s)[RouteOrder[i]]}
  <1>1. hits \in SUBSET (1..19) /\ \A i \in 1..19 : i \in hits <=> Matches(s)[RouteOrder[i]]
    BY OrderOfRoutes
  <1>2. Route(s) = IF hits = {} THEN "generic" ELSE RouteOrder[Min(hits)]
    BY DEF Route
  <1> HIDE DEF hits
  <1>3. CASE hits = {}
    BY <1>1, <1>2, <1>3
  <1>4. CASE hits # {}
    <2>1. Min(hits) \in hits /\ \A m \in hits : Min(hits) <= m
      BY <1>1, <1>4, FirstHit
    <2>2. PICK n \in 1..19 : n = Min(hits)
      BY <1>1, <2>1
    <2>3. \A j \in 1..(n - 1) : j \in 1..19 /\ ~(n <= j)
      OBVIOUS
    <2>4. \A j \in 1..(n - 1) : ~Matches(s)[RouteOrder[j]]
      BY <1>1, <2>1, <2>2, <2>3
    <2> QED BY <1>1, <1>2, <1>4, <2>1, <2>2, <2>4
  <1> QED BY <1>3, <1>4

\* A dedicated route matches, and none before it does.
LEMMA SelectedMatches ==
    ASSUME NEW s, Route(s) # "generic"
    PROVE  /\ Route(s) \in Dedicated /\ Matches(s)[Route(s)]
           /\ Route(s) = "pylonRs485Route" => ~Matches(s)["rsPylonToRsGrowatt"]
                                              /\ ~Matches(s)["rsPylonToCanGrowatt"]
  <1>1. PICK i \in 1..19 : /\ Route(s) = RouteOrder[i] /\ Matches(s)[RouteOrder[i]]
                           /\ \A j \in 1..(i - 1) : ~Matches(s)[RouteOrder[j]]
    BY CascadeIsFirst
  <1>2. Route(s) \in Dedicated
    BY <1>1, OrderOfRoutes DEF Dedicated
  <1>3. Route(s) = "pylonRs485Route" => i = 19
    BY <1>1, PylonIsLast
  <1> QED BY <1>1, <1>2, <1>3, OrderOfRoutes

\* A predicate that holds, and no other does but perhaps the last one, is selected.
LEMMA OnlyIsSelected ==
    ASSUME NEW s, NEW r \in Dedicated, Matches(s)[r],
           \A q \in Dedicated \ {r, "pylonRs485Route"} : ~Matches(s)[q]
    PROVE  Route(s) = r
  <1>1. PICK k \in 1..19 : RouteOrder[k] = r
    BY OrderOfRoutes DEF Dedicated
  <1>2. PICK i \in 1..19 : /\ Route(s) = RouteOrder[i] /\ Matches(s)[RouteOrder[i]]
                           /\ \A j \in 1..(i - 1) : ~Matches(s)[RouteOrder[j]]
    BY <1>1, CascadeIsFirst
  <1>3. RouteOrder[i] \in {r, "pylonRs485Route"}
    BY <1>2, OrderOfRoutes DEF Dedicated
  <1>4. CASE RouteOrder[i] = "pylonRs485Route" /\ r # "pylonRs485Route"
    <2>1. i = 19 /\ k \in 1..(i - 1)
      BY <1>1, <1>4, OrderOfRoutes, PylonIsLast
    <2> QED BY <1>1, <1>2, <2>1
  <1> QED BY <1>2, <1>3, <1>4

-----------------------------------------------------------------------------
(* The predicates, in terms of lines and protocols.                        *)

LEMMA ProtocolSets ==
    /\ JkbmsProtocols = {"RS485_JKBMS", "RS485_JKBMS_115200", "RS485_JKBMS_NATIVE"}
    /\ PylonProtocols = {"RS485_PYLON", "RS485_PYLON_115200"}
  BY DEF JkbmsProtocols, PylonProtocols, Protocols, CanBmsProtocols, RsBmsProtocols,
         IsJkbmsRs485Protocol, IsRs485JkbmsModbus, IsRs485Pylon

\* The source protocols of the branches to a Growatt and to a Pylon inverter on RS485, and to a
\* Growatt inverter on CAN.
ToRsGrowatt ==
    [rsPylonToRsGrowatt   |-> PylonProtocols, rsJkbmsToRsGrowatt |-> JkbmsProtocols,
     rsWowToRsGrowatt     |-> {"RS485_WOW"},  rsGrowattToRsGrowatt |-> {"RS485_GROWATT"}]

ToRsPylon ==
    [rsJkbmsToRsPylon      |-> JkbmsProtocols,        rsGrowattToRsPylon    |-> {"RS485_GROWATT"},
     rsPaceToRsPylon       |-> {"RS485_PACE"},        rsVoltronicToRsPylon  |-> {"RS485_VOLTRONIC"},
     rsChinaTowerToRsPylon |-> {"RS485_CHINA_TOWER"}, rsWowToRsPylon        |-> {"RS485_WOW"},
     rsSeplosToRsPylon     |-> {"RS485_SEPLOS", "RS485_SEPLOS_19200"},
     rsDalyToRsPylon       |-> {"RS485_DALY"}]

ToCanGrowatt == [rsPylonToCanGrowatt |-> PylonProtocols, rsJkbmsToCanGrowatt |-> JkbmsProtocols]

LEMMA TablesOfBranches ==
    /\ DOMAIN ToRsGrowatt = {"rsPylonToRsGrowatt", "rsJkbmsToRsGrowatt", "rsWowToRsGrowatt",
                             "rsGrowattToRsGrowatt"}
    /\ DOMAIN ToRsPylon = {"rsJkbmsToRsPylon", "rsGrowattToRsPylon", "rsPaceToRsPylon",
                           "rsVoltronicToRsPylon", "rsChinaTowerToRsPylon", "rsWowToRsPylon",
                           "rsSeplosToRsPylon", "rsDalyToRsPylon"}
    /\ DOMAIN ToCanGrowatt = {"rsPylonToCanGrowatt", "rsJkbmsToCanGrowatt"}
  BY DEF ToRsGrowatt, ToRsPylon, ToCanGrowatt

LEMMA MatchesRs ==
    ASSUME NEW s, s.mode = "BRIDGE"
    PROVE  /\ \A r \in DOMAIN ToRsGrowatt :
                  Matches(s)[r] <=> /\ OnLines(s, "RS485", "RS485")
                                    /\ s.bms_protocol \in ToRsGrowatt[r]
                                    /\ s.inverter_protocol = "RS485_GROWATT"
           /\ \A r \in DOMAIN ToRsPylon :
                  Matches(s)[r] <=> /\ OnLines(s, "RS485", "RS485")
                                    /\ s.bms_protocol \in ToRsPylon[r]
                                    /\ IsRs485Pylon(s.inverter_protocol)
           /\ \A r \in DOMAIN ToCanGrowatt :
                  Matches(s)[r] <=> /\ OnLines(s, "RS485", "CAN")
                                    /\ s.bms_protocol \in ToCanGrowatt[r]
                                    /\ s.inverter_protocol = "CAN_GROWATT"
  <1>1. ASSUME NEW r \in DOMAIN ToRsGrowatt
        PROVE  Matches(s)[r] <=> IsRsToRsGrowattRoute(s, ToRsGrowatt[r])
    <2>1. CASE r = "rsPylonToRsGrowatt"
      BY <2>1 DEF Matches, ToRsGrowatt, IsRsPylonToRsGrowattRoute, IsRsGrowattToRsGrowattRoute
    <2>2. CASE r = "rsJkbmsToRsGrowatt"
      BY <2>2 DEF Matches, ToRsGrowatt, IsRsPylonToRsGrowattRoute, IsRsGrowattToRsGrowattRoute
    <2>3. CASE r = "rsWowToRsGrowatt"
      BY <2>3 DEF Matches, ToRsGrowatt, IsRsPylonToRsGrowattRoute, IsRsGrowattToRsGrowattRoute
    <2>4. CASE r = "rsGrowattToRsGrowatt"
      BY <2>4 DEF Matches, ToRsGrowatt, IsRsPylonToRsGrowattRoute, IsRsGrowattToRsGrowattRoute
    <2> QED BY <2>1, <2>2, <2>3, <2>4, TablesOfBranches
  <1>2. ASSUME NEW r \in DOMAIN ToRsPylon
        PROVE  Matches(s)[r] <=> IsRsToRsPylonRoute(s, ToRsPylon[r])
    <2>1. CASE r = "rsJkbmsToRsPylon"
      BY <2>1 DEF Matches, ToRsPylon
    <2>2. CASE r = "rsGrowattToRsPylon"
      BY <2>2 DEF Matches, ToRsPylon
    <2>3. CASE r = "rsPaceToRsPylon"
      BY <2>3 DEF Matches, ToRsPylon
    <2>4. CASE r = "rsVoltronicToRsPylon"
      BY <2>4 DEF Matches, ToRsPylon
    <2>5. CASE r = "rsChinaTowerToRsPylon"
      BY <2>5 DEF Matches, ToRsPylon
    <2>6. CASE r = "rsWowToRsPylon"
      BY <2>6 DEF Matches, ToRsPylon
    <2>7. CASE r = "rsSeplosToRsPylon"
      BY <2>7 DEF Matches, ToRsPylon
    <2>8. CASE r = "rsDalyToRsPylon"
      BY <2>8 DEF Matches, ToRsPylon
    <2> QED BY <2>1, <2>2, <2>3, <2>4, <2>5, <2>6, <2>7, <2>8, TablesOfBranches
  <1>3. ASSUME NEW r \in DOMAIN ToCanGrowatt
        PROVE  Matches(s)[r] <=> IsRsToCanGrowattRoute(s, ToCanGrowatt[r])
    BY TablesOfBranches DEF Matches, ToCanGrowatt
  <1> QED BY <1>1, <1>2, <1>3 DEF IsRsToRsGrowattRoute, IsRsToRsPylonRoute, IsRsToCanGrowattRoute

LEMMA MatchesCan ==
    ASSUME NEW s
    PROVE  /\ Matches(s)["canToRsGrowatt"] <=>
                  /\ OnLines(s, "CAN", "RS485") /\ s.inverter_protocol = "RS485_GROWATT"
                  /\ s.bms_protocol \in {"CAN_GROWATT", "CAN_PYLON", "CAN_JKBMS_250K",
                                         "CAN_GOODWE", "CAN_SOFAR", "CAN_SMA", "CAN_VICTRON"}
           /\ Matches(s)["canDalyToRsPylon"] <=>
                  /\ OnLines(s, "CAN", "RS485") /\ IsRs485Pylon(s.inverter_protocol)
                  /\ IsCanDaly(s.bms_protocol)
           /\ Matches(s)["canDalyToCanPylon"] => OnLines(s, "CAN", "CAN")
           /\ Matches(s)["canDirectPassthrough"] => OnLines(s, "CAN", "CAN")
           /\ Matches(s)["pylonRs485Route"] <=> PylonRs485BridgeSupportsRoute(s)
  BY DEF Matches, IsCanToRsGrowattRoute, IsCanDalyToRsPylonRoute, IsCanDalyToCanPylonRoute,
         IsCanDirectPassthroughRoute

LEMMA LinesDiffer ==
    ASSUME NEW s, NEW a, NEW b, NEW c, NEW d, OnLines(s, a, b), a # c \/ b # d
    PROVE  ~OnLines(s, c, d)
  BY DEF OnLines

\* No source has two branches to the same inverter.
LEMMA BranchesDiffer ==
    /\ \A q, r \in DOMAIN ToRsGrowatt : q # r => ToRsGrowatt[q] \cap ToRsGrowatt[r] = {}
    /\ \A q, r \in DOMAIN ToRsPylon : q # r => ToRsPylon[q] \cap ToRsPylon[r] = {}
    /\ \A q, r \in DOMAIN ToCanGrowatt : q # r => ToCanGrowatt[q] \cap ToCanGrowatt[r] = {}
    /\ \A r \in DOMAIN ToRsPylon : ToRsPylon[r] \cap PylonProtocols = {}
  <1>1. \A q, r \in DOMAIN ToRsGrowatt : q # r => ToRsGrowatt[q] \cap ToRsGrowatt[r] = {}
    BY TablesOfBranches, ProtocolSets DEF ToRsGrowatt
  <1>2. \A q, r \in DOMAIN ToRsPylon : q # r => ToRsPylon[q] \cap ToRsPylon[r] = {}
    BY TablesOfBranches, ProtocolSets DEF ToRsPylon
  <1>3. \A q, r \in DOMAIN ToCanGrowatt : q # r => ToCanGrowatt[q] \cap ToCanGrowatt[r] = {}
    BY TablesOfBranches, ProtocolSets DEF ToCanGrowatt
  <1>4. \A r \in DOMAIN ToRsPylon : ToRsPylon[r] \cap PylonProtocols = {}
    BY TablesOfBranches, ProtocolSets DEF ToRsPylon
  <1> QED BY <1>1, <1>2, <1>3, <1>4

LEMMA KindsOfBranches ==
    Dedicated = DOMAIN ToRsGrowatt \cup DOMAIN ToRsPylon \cup DOMAIN ToCanGrowatt
                    \cup {"canToRsGrowatt", "canDalyToRsPylon", "canDalyToCanPylon",
                          "canDirectPassthrough", "pylonRs485Route"}
  BY TablesOfBranches DEF Dedicated

LEMMA SelectsToRsGrowatt ==
    ASSUME NEW s, s.mode = "BRIDGE", OnLines(s, "RS485", "RS485"), NEW r \in DOMAIN ToRsGrowatt,
           s.bms_protocol \in ToRsGrowatt[r], s.inverter_protocol = "RS485_GROWATT"
    PROVE  Route(s) = r
  <1>1. Matches(s)[r]
    BY MatchesRs
  <1>2. ~OnLines(s, "RS485", "CAN") /\ ~OnLines(s, "CAN", "RS485") /\ ~OnLines(s, "CAN", "CAN")
    BY LinesDiffer
  <1>3. ~IsRs485Pylon(s.inverter_protocol)
    BY DEF IsRs485Pylon
  <1>4. \A q \in DOMAIN ToRsGrowatt \ {r} : ~Matches(s)[q]
    BY MatchesRs, BranchesDiffer
  <1>5. \A q \in DOMAIN ToRsPylon \cup DOMAIN ToCanGrowatt : ~Matches(s)[q]
    BY <1>2, <1>3, MatchesRs
  <1>6. \A q \in {"canToRsGrowatt", "canDalyToRsPylon", "canDalyToCanPylon", "canDirectPassthrough"} :
            ~Matches(s)[q]
    BY <1>2, MatchesCan
  <1> QED BY <1>1, <1>4, <1>5, <1>6, KindsOfBranches, OnlyIsSelected

LEMMA SelectsToRsPylon ==
    ASSUME NEW s, s.mode = "BRIDGE", OnLines(s, "RS485", "RS485"), NEW r \in DOMAIN ToRsPylon,
           s.bms_protocol \in ToRsPylon[r], IsRs485Pylon(s.inverter_protocol)
    PROVE  Route(s) = r
  <1>1. Matches(s)[r]
    BY MatchesRs
  <1>2. ~OnLines(s, "RS485", "CAN") /\ ~OnLines(s, "CAN", "RS485") /\ ~OnLines(s, "CAN", "CAN")
    BY LinesDiffer
  <1>3. s.inverter_protocol # "RS485_GROWATT"
    BY DEF IsRs485Pylon
  <1>4. \A q \in DOMAIN ToRsPylon \ {r} : ~Matches(s)[q]
    BY MatchesRs, BranchesDiffer
  <1>5. \A q \in DOMAIN ToRsGrowatt \cup DOMAIN ToCanGrowatt : ~Matches(s)[q]
    BY <1>2, <1>3, MatchesRs
  <1>6. \A q \in {"canToRsGrowatt", "canDalyToRsPylon", "canDalyToCanPylon", "canDirectPassthrough"} :
            ~Matches(s)[q]
    BY <1>2, MatchesCan
  <1> QED BY <1>1, <1>4, <1>5, <1>6, KindsOfBranches, OnlyIsSelected

LEMMA SelectsToCanGrowatt ==
    ASSUME NEW s, s.mode = "BRIDGE", OnLines(s, "RS485", "CAN"), NEW r \in DOMAIN ToCanGrowatt,
           s.bms_protocol \in ToCanGrowatt[r], s.inverter_protocol = "CAN_GROWATT"
    PROVE  Route(s) = r
  <1>1. Matches(s)[r]
    BY MatchesRs
  <1>2. ~OnLines(s, "RS485", "RS485") /\ ~OnLines(s, "CAN", "RS485") /\ ~OnLines(s, "CAN", "CAN")
    BY LinesDiffer
  <1>4. \A q \in DOMAIN ToCanGrowatt \ {r} : ~Matches(s)[q]
    BY MatchesRs, BranchesDiffer
  <1>5. \A q \in DOMAIN ToRsGrowatt \cup DOMAIN ToRsPylon : ~Matches(s)[q]
    BY <1>2, MatchesRs
  <1>6. \A q \in {"canToRsGrowatt", "canDalyToRsPylon", "canDalyToCanPylon", "canDirectPassthrough"} :
            ~Matches(s)[q]
    BY <1>2, MatchesCan
  <1> QED BY <1>1, <1>4, <1>5, <1>6, KindsOfBranches, OnlyIsSelected

\* The rows of the Pylon bridge with a source on RS485.
LEMMA SelectsPylonBridge ==
    ASSUME NEW s, s.mode = "BRIDGE", s.bms_protocol \in PylonProtocols,
           \/ OnLines(s, "RS485", "RS485") /\ IsRs485Pylon(s.inverter_protocol)
           \/ OnLines(s, "RS485", "CAN") /\ s.inverter_protocol = "CAN_PYLON"
    PROVE  Route(s) = "pylonRs485Route"
  <1>1. Matches(s)["pylonRs485Route"]
    BY MatchesCan DEF PylonRs485BridgeSupportsRoute, IsRsToRsPylonRoute, PylonToCanMode, PylonProtocols
  <1>2. ~OnLines(s, "CAN", "RS485") /\ ~OnLines(s, "CAN", "CAN")
    BY DEF OnLines
  <1>3. s.inverter_protocol \notin {"RS485_GROWATT", "CAN_GROWATT"}
    BY DEF IsRs485Pylon
  <1>4. \A q \in DOMAIN ToRsGrowatt \cup DOMAIN ToCanGrowatt \cup DOMAIN ToRsPylon : ~Matches(s)[q]
    BY <1>3, MatchesRs, BranchesDiffer
  <1>5. \A q \in {"canToRsGrowatt", "canDalyToRsPylon", "canDalyToCanPylon", "canDirectPassthrough"} :
            ~Matches(s)[q]
    BY <1>2, MatchesCan
  <1>6. "pylonRs485Route" \in Dedicated
    BY DEF Dedicated
  <1> QED BY <1>1, <1>4, <1>5, <1>6, KindsOfBranches, OnlyIsSelected

\* The rows with a source on CAN.
LEMMA SelectsFromCan ==
    ASSUME NEW s, s.mode = "BRIDGE", OnLines(s, "CAN", "RS485")
    PROVE  /\ /\ s.inverter_protocol = "RS485_GROWATT"
              /\ s.bms_protocol \in {"CAN_GROWATT", "CAN_PYLON", "CAN_GOODWE", "CAN_SOFAR",
                                     "CAN_SMA", "CAN_VICTRON"}
              => Route(s) = "canToRsGrowatt"
           /\ IsRs485Pylon(s.inverter_protocol) /\ IsCanDaly(s.bms_protocol)
              => Route(s) = "canDalyToRsPylon"
           /\ /\ IsRs485Pylon(s.inverter_protocol)
              /\ s.bms_protocol \in {"CAN_PYLON", "CAN_DEYE", "CAN_JKBMS_250K"}
              => Route(s) = "pylonRs485Route"
  <1>1. ~OnLines(s, "RS485", "RS485") /\ ~OnLines(s, "RS485", "CAN") /\ ~OnLines(s, "CAN", "CAN")
    BY LinesDiffer
  <1>2. \A q \in DOMAIN ToRsGrowatt \cup DOMAIN ToCanGrowatt \cup DOMAIN ToRsPylon : ~Matches(s)[q]
    BY <1>1, MatchesRs
  <1>3. \A q \in {"canDalyToCanPylon", "canDirectPassthrough"} : ~Matches(s)[q]
    BY <1>1, MatchesCan
  <1>4. /\ IsRs485Pylon(s.inverter_protocol) => ~Matches(s)["canToRsGrowatt"]
        /\ s.inverter_protocol = "RS485_GROWATT" => ~Matches(s)["canDalyToRsPylon"]
        /\ s.bms_protocol \in {"CAN_PYLON", "CAN_DEYE", "CAN_JKBMS_250K"} => ~Matches(s)["canDalyToRsPylon"]
    BY MatchesCan DEF IsRs485Pylon, IsCanDaly
  <1>5. ASSUME s.inverter_protocol = "RS485_GROWATT",
               s.bms_protocol \in {"CAN_GROWATT", "CAN_PYLON", "CAN_GOODWE", "CAN_SOFAR",
                                   "CAN_SMA", "CAN_VICTRON"}
        PROVE  Route(s) = "canToRsGrowatt"
    <2>1. Matches(s)["canToRsGrowatt"] /\ "canToRsGrowatt" \in Dedicated
      BY <1>5, MatchesCan DEF Dedicated
    <2> QED BY <1>2, <1>3, <1>4, <1>5, <2>1, KindsOfBranches, OnlyIsSelected
  <1>6. ASSUME IsRs485Pylon(s.inverter_protocol), IsCanDaly(s.bms_protocol)
        PROVE  Route(s) = "canDalyToRsPylon"
    <2>1. Matches(s)["canDalyToRsPylon"] /\ "canDalyToRsPylon" \in Dedicated
      BY <1>6, MatchesCan DEF Dedicated
    <2> QED BY <1>2, <1>3, <1>4, <1>6, <2>1, KindsOfBranches, OnlyIsSelected
  <1>7. ASSUME IsRs485Pylon(s.inverter_protocol),
               s.bms_protocol \in {"CAN_PYLON", "CAN_DEYE", "CAN_JKBMS_250K"}
        PROVE  Route(s) = "pylonRs485Route"
    <2>1. Matches(s)["pylonRs485Route"] /\ "pylonRs485Route" \in Dedicated
      BY <1>7, MatchesCan DEF Dedicated, PylonRs485BridgeSupportsRoute, PylonCanToRs485Mode,
                              PylonCanSyntheticSourceMode, CanBmsProtocols
    <2> QED BY <1>2, <1>3, <1>4, <1>7, <2>1, KindsOfBranches, OnlyIsSelected
  <1> QED BY <1>5, <1>6, <1>7

\* The generic row.
LEMMA SelectsGeneric ==
    ASSUME NEW s, s.mode = "BRIDGE", OnLines(s, "RS485", "CAN"), s.inverter_protocol = "CAN_PYLON",
           s.bms_protocol \in {"RS485_GROWATT", "RS485_DALY"}
    PROVE  Route(s) = "generic"
  <1>1. ~OnLines(s, "RS485", "RS485") /\ ~OnLines(s, "CAN", "RS485") /\ ~OnLines(s, "CAN", "CAN")
    BY LinesDiffer
  <1>2. \A q \in DOMAIN ToRsGrowatt \cup DOMAIN ToCanGrowatt \cup DOMAIN ToRsPylon : ~Matches(s)[q]
    BY <1>1, MatchesRs
  <1>3. \A q \in {"canToRsGrowatt", "canDalyToRsPylon", "canDalyToCanPylon", "canDirectPassthrough"} :
            ~Matches(s)[q]
    BY <1>1, MatchesCan
  <1>4. ~PylonRs485BridgeSupportsRoute(s)
    BY <1>1, ProtocolSets DEF PylonRs485BridgeSupportsRoute, IsRsToRsPylonRoute, PylonSourceOnlyMode,
       IsRsPylonToRsGrowattRoute, IsRsToRsGrowattRoute, IsRsToCanGrowattRoute, PylonToCanMode, IsRs485Pylon,
       PylonCanToRs485Mode, PylonCanSyntheticSourceMode
  <1>5. \A q \in Dedicated : ~Matches(s)[q]
    BY <1>2, <1>3, <1>4, KindsOfBranches, MatchesCan
  <1> QED BY <1>5, SelectedMatches

\* The row of the matrix is the branch of the cascade.
LEMMA RowIsSelected ==
    ASSUME NEW s \in Settings, ValidSettings(s), s.mode = "BRIDGE",
           NEW row \in DOMAIN MatrixRows(s), s.bms_protocol \in MatrixRows(s)[row]
    PROVE  Route(s) = row
  <1>1. CASE OnLines(s, "RS485", "RS485") /\ s.inverter_protocol = "RS485_GROWATT"
    <2>1. MatrixRows(s) = RowsToRs("RS485_GROWATT")
      BY <1>1 DEF MatrixRows, OnLines
    <2>2. /\ row \in {"rsJkbmsToRsGrowatt", "rsWowToRsGrowatt"}
          /\ s.bms_protocol \in ToRsGrowatt[row]
      BY <2>1 DEF RowsToRs, ToRsGrowatt
    <2> QED BY <1>1, <2>2, TablesOfBranches, SelectsToRsGrowatt
  <1>2. CASE OnLines(s, "RS485", "RS485") /\ s.inverter_protocol # "RS485_GROWATT"
    <2>1. IsRs485Pylon(s.inverter_protocol)
      BY <1>2 DEF ValidSettings, RsInverterProtocols, OnLines, IsRs485Pylon
    <2>2. MatrixRows(s) = RowsToRs(s.inverter_protocol)
      BY <1>2 DEF MatrixRows, OnLines
    <2>3. CASE row = "pylonRs485Route"
      <3>1. s.bms_protocol \in PylonProtocols
        BY <1>2, <2>2, <2>3 DEF RowsToRs
      <3> QED BY <1>2, <2>1, <2>3, <3>1, SelectsPylonBridge
    <2>4. CASE row # "pylonRs485Route"
      <3>1. /\ row \in {"rsJkbmsToRsPylon", "rsGrowattToRsPylon", "rsPaceToRsPylon",
                        "rsVoltronicToRsPylon", "rsChinaTowerToRsPylon", "rsWowToRsPylon",
                        "rsDalyToRsPylon"}
            /\ s.bms_protocol \in ToRsPylon[row]
        BY <1>2, <2>2, <2>4 DEF RowsToRs, ToRsPylon
      <3> QED BY <1>2, <2>1, <3>1, TablesOfBranches, SelectsToRsPylon
    <2> QED BY <2>3, <2>4
  <1>3. CASE OnLines(s, "CAN", "RS485")
    <2>1. MatrixRows(s) = RowsFromCan(s.inverter_protocol)
      BY <1>3 DEF MatrixRows, OnLines
    <2>2. s.inverter_protocol # "RS485_GROWATT" => IsRs485Pylon(s.inverter_protocol)
      BY <1>3 DEF ValidSettings, RsInverterProtocols, OnLines, IsRs485Pylon
    <2>3. CASE s.inverter_protocol = "RS485_GROWATT"
      BY <1>3, <2>1, <2>3, SelectsFromCan DEF RowsFromCan
    <2>4. CASE s.inverter_protocol # "RS485_GROWATT"
      BY <1>3, <2>1, <2>2, <2>4, SelectsFromCan DEF RowsFromCan, IsCanDaly
    <2> QED BY <2>3, <2>4
  <1>4. CASE OnLines(s, "RS485", "CAN") /\ s.inverter_protocol \in {"CAN_GROWATT", "CAN_PYLON"}
    <2>1. MatrixRows(s) = RowsToCan(s.inverter_protocol)
      BY <1>4 DEF MatrixRows, OnLines
    <2>2. CASE s.inverter_protocol = "CAN_GROWATT"
      <3>1. row \in DOMAIN ToCanGrowatt /\ s.bms_protocol \in ToCanGrowatt[row]
        BY <2>1, <2>2, TablesOfBranches DEF RowsToCan, ToCanGrowatt
      <3> QED BY <1>4, <2>2, <3>1, SelectsToCanGrowatt
    <2>3. CASE s.inverter_protocol = "CAN_PYLON"
      BY <1>4, <2>1, <2>3, SelectsGeneric, SelectsPylonBridge DEF RowsToCan
    <2> QED BY <1>4, <2>2, <2>3
  <1>5. CASE /\ ~OnLines(s, "RS485", "RS485") /\ ~OnLines(s, "CAN", "RS485")
             /\ ~(OnLines(s, "RS485", "CAN") /\ s.inverter_protocol \in {"CAN_GROWATT", "CAN_PYLON"})
    BY <1>5 DEF MatrixRows
  <1> QED BY <1>1, <1>2, <1>3, <1>4, <1>5

-----------------------------------------------------------------------------
(* The programs.                                                           *)

LEMMA StepsStart ==
    /\ Memset.call.op = "memset" /\ ResetCaches.call.op = "caches" /\ EnablePylon.call.op = "bridge"
    /\ StartForwarder.call.op = "forwarder" /\ Activate.call.op = "activate"
    /\ \A slot, u : Create(slot, u).call.op = "create"
    /\ \A t, slots, u : Spawn(t, slots, u).call.op = "start" /\ Spawn(t, slots, u).call.arg = t
  BY DEF Memset, ResetCaches, EnablePylon, StartForwarder, Activate, Create, Spawn, Call

LEMMA StartedByFixed ==
    /\ Started(CanToRsGrowattProgram) = {"canRsGrowatt"} /\ ~CallsBridge(CanToRsGrowattProgram)
    /\ Started(RsPylonToRsGrowattProgram) = {"modelRsGrowatt"}
    /\ Started(RsPylonToCanGrowattProgram) = {"growattInv"}
    /\ Started(CanDalyToCanPylonProgram) = {"dalyCan", "pylonInv", "orchestrator"}
    /\ ~CallsBridge(CanDalyToCanPylonProgram)
    /\ Started(PassthroughProgram) = {} /\ ~CallsBridge(PassthroughProgram)
    /\ Started(PylonBridgeProgram) = {} /\ CallsBridge(PylonBridgeProgram)
    /\ Started(PylonToCanProgram) = {"pylonInv"}
  <1> USE StepsStart DEF Started, CallsBridge
  <1>1. Started(CanToRsGrowattProgram) = {"canRsGrowatt"} /\ ~CallsBridge(CanToRsGrowattProgram)
    BY DEF CanToRsGrowattProgram
  <1>2. Started(RsPylonToRsGrowattProgram) = {"modelRsGrowatt"}
    BY DEF RsPylonToRsGrowattProgram
  <1>3. Started(RsPylonToCanGrowattProgram) = {"growattInv"}
    BY DEF RsPylonToCanGrowattProgram
  <1>4. Started(CanDalyToCanPylonProgram) = {"dalyCan", "pylonInv", "orchestrator"}
        /\ ~CallsBridge(CanDalyToCanPylonProgram)
    BY DEF CanDalyToCanPylonProgram
  <1>5. Started(PassthroughProgram) = {} /\ ~CallsBridge(PassthroughProgram)
    BY DEF PassthroughProgram
  <1>6. Started(PylonBridgeProgram) = {} /\ CallsBridge(PylonBridgeProgram)
    BY DEF PylonBridgeProgram
  <1>7. Started(PylonToCanProgram) = {"pylonInv"}
    BY DEF PylonToCanProgram
  <1> QED BY <1>1, <1>2, <1>3, <1>4, <1>5, <1>6, <1>7

LEMMA StartedByParameters ==
    ASSUME NEW t, NEW u
    PROVE  /\ Started(ModelResponderProgram(t, u)) = {t, "modelRsGrowatt"}
           /\ ~CallsBridge(ModelResponderProgram(t, u))
           /\ Started(RsJkbmsToCanGrowattProgram(t)) = {t, "growattInv"}
           /\ ~CallsBridge(RsJkbmsToCanGrowattProgram(t))
           /\ Started(PylonResponderProgram(t)) = {t} /\ CallsBridge(PylonResponderProgram(t))
           /\ Started(GenericProgram(t, u)) = {t, u, "orchestrator"}
  <1> USE StepsStart DEF Started, CallsBridge
  <1>1. Started(ModelResponderProgram(t, u)) = {t, "modelRsGrowatt"}
        /\ ~CallsBridge(ModelResponderProgram(t, u))
    BY DEF ModelResponderProgram
  <1>2. Started(RsJkbmsToCanGrowattProgram(t)) = {t, "growattInv"}
        /\ ~CallsBridge(RsJkbmsToCanGrowattProgram(t))
    BY DEF RsJkbmsToCanGrowattProgram
  <1>3. Started(PylonResponderProgram(t)) = {t} /\ CallsBridge(PylonResponderProgram(t))
    BY DEF PylonResponderProgram
  <1>4. Started(GenericProgram(t, u)) = {t, u, "orchestrator"}
    BY DEF GenericProgram
  <1> QED BY <1>1, <1>2, <1>3, <1>4

\* The poller of a branch.
BranchPoller(s, r) ==
    CASE r \in {"rsJkbmsToRsGrowatt", "rsJkbmsToCanGrowatt", "rsJkbmsToRsPylon"}
                                                          -> JkbmsPoller(s.bms_protocol)
      [] r \in {"rsGrowattToRsGrowatt", "rsGrowattToRsPylon"} -> "growattBms"
      [] r \in {"rsWowToRsGrowatt", "rsWowToRsPylon"}     -> "wow"
      [] r = "rsPaceToRsPylon"                            -> "pace"
      [] r = "rsVoltronicToRsPylon"                       -> "voltronic"
      [] r = "rsChinaTowerToRsPylon"                      -> "chinaTower"
      [] r = "rsSeplosToRsPylon"                          -> "seplos"
      [] r = "rsDalyToRsPylon"                            -> "dalyRs485"
      [] r = "canDalyToRsPylon"                           -> "dalyCan"

ResponderBranches == {"rsJkbmsToRsGrowatt", "rsWowToRsGrowatt", "rsGrowattToRsGrowatt"}

\* What a branch starts, by the inverter it serves.
LEMMA BranchPrograms ==
    ASSUME NEW s
    PROVE  /\ Route(s) \in ResponderBranches =>
                  \E u : Program(s) = ModelResponderProgram(BranchPoller(s, Route(s)), u)
           /\ Route(s) \in DOMAIN ToRsPylon \cup {"canDalyToRsPylon"} =>
                  Program(s) = PylonResponderProgram(BranchPoller(s, Route(s)))
           /\ Route(s) = "rsJkbmsToCanGrowatt" =>
                  Program(s) = RsJkbmsToCanGrowattProgram(BranchPoller(s, Route(s)))
  <1>1. Route(s) = "rsJkbmsToCanGrowatt" =>
            Program(s) = RsJkbmsToCanGrowattProgram(BranchPoller(s, Route(s)))
    BY DEF Program, BranchPoller
  <1>2. Route(s) \in ResponderBranches =>
            \E u : Program(s) = ModelResponderProgram(BranchPoller(s, Route(s)), u)
    <2>1. CASE Route(s) = "rsJkbmsToRsGrowatt"
      BY <2>1 DEF Program, BranchPoller
    <2>2. CASE Route(s) = "rsWowToRsGrowatt"
      BY <2>2 DEF Program, BranchPoller
    <2>3. CASE Route(s) = "rsGrowattToRsGrowatt"
      BY <2>3 DEF Program, BranchPoller
    <2> QED BY <2>1, <2>2, <2>3 DEF ResponderBranches
  <1>3. Route(s) \in DOMAIN ToRsPylon \cup {"canDalyToRsPylon"} =>
            Program(s) = PylonResponderProgram(BranchPoller(s, Route(s)))
    BY TablesOfBranches DEF Program, BranchPoller
  <1> QED BY <1>1, <1>2, <1>3

\* The poller of a branch with a source on RS485 is that of the source's family.
LEMMA BranchPollsItsFamily ==
    ASSUME NEW s, NEW r, s.bms_line = "RS485", s.bms_protocol \notin PylonProtocols,
           \/ r \in DOMAIN ToRsGrowatt /\ s.bms_protocol \in ToRsGrowatt[r]
           \/ r \in DOMAIN ToRsPylon /\ s.bms_protocol \in ToRsPylon[r]
           \/ r \in DOMAIN ToCanGrowatt /\ s.bms_protocol \in ToCanGrowatt[r]
    PROVE  /\ BranchPoller(s, r) = FamilyTask(s.bms_protocol)
           /\ r \in ResponderBranches \cup DOMAIN ToRsPylon \cup {"rsJkbmsToCanGrowatt"}
  <1>1. CASE r \in DOMAIN ToRsGrowatt /\ s.bms_protocol \in ToRsGrowatt[r]
    BY <1>1, TablesOfBranches, ProtocolSets
       DEF ToRsGrowatt, BranchPoller, FamilyTask, JkbmsPoller, IsRs485JkbmsModbus, ResponderBranches
  <1>2. CASE r \in DOMAIN ToCanGrowatt /\ s.bms_protocol \in ToCanGrowatt[r]
    BY <1>2, TablesOfBranches, ProtocolSets
       DEF ToCanGrowatt, BranchPoller, FamilyTask, JkbmsPoller, IsRs485JkbmsModbus
  <1>3. CASE r \in DOMAIN ToRsPylon /\ s.bms_protocol \in ToRsPylon[r]
    BY <1>3, TablesOfBranches, ProtocolSets
       DEF ToRsPylon, BranchPoller, FamilyTask, JkbmsPoller, IsRs485JkbmsModbus
  <1> QED BY <1>1, <1>2, <1>3

\* The generic route polls a source on RS485 by the task of its family too.
LEMMA GenericPollsItsFamily ==
    ASSUME NEW s, s.bms_line = "RS485", s.bms_protocol \in RsBmsProtocols \ PylonProtocols
    PROVE  GenericBmsTask(s) = FamilyTask(s.bms_protocol)
  <1>1. ASSUME NEW p \in RsBmsProtocols \ PylonProtocols, p = s.bms_protocol
        PROVE  GenericBmsTask(s) = FamilyTask(p)
    BY <1>1, ProtocolSets DEF RsBmsProtocols, GenericBmsTask, ProtocolIdFromUiProtocol, FamilyTask,
       IsRs485JkbmsModbus, IsRs485Pylon, IsCanDaly
  <1> QED BY <1>1

\* Of the dedicated routes that poll no RS485 source, each has a CAN or a Pylon source.
LEMMA OtherSources ==
    ASSUME NEW s, Matches(s)[Route(s)],
           Route(s) \in {"canToRsGrowatt", "canDalyToRsPylon", "canDalyToCanPylon",
                         "canDirectPassthrough", "pylonRs485Route"}
    PROVE  s.bms_line = "CAN" \/ s.bms_protocol \in PylonProtocols
  <1>1. CASE Route(s) = "pylonRs485Route"
    BY <1>1, ProtocolSets, MatchesCan DEF PylonRs485BridgeSupportsRoute, IsRsToRsPylonRoute, PylonSourceOnlyMode,
       IsRsPylonToRsGrowattRoute, IsRsToRsGrowattRoute, IsRsToCanGrowattRoute, PylonToCanMode, IsRs485Pylon,
       PylonCanToRs485Mode, PylonCanSyntheticSourceMode, OnLines
  <1>2. CASE Route(s) # "pylonRs485Route"
    BY <1>2, MatchesCan DEF OnLines
  <1> QED BY <1>1, <1>2

LEMMA SourceIsPolled ==
    ASSUME NEW s \in Settings, ValidSettings(s), s.mode = "BRIDGE", s.bms_line = "RS485",
           ~IsRs485Pylon(s.bms_protocol)
    PROVE  FamilyTask(s.bms_protocol) \in Started(Program(s))
  <1>1. s.bms_protocol \in RsBmsProtocols \ PylonProtocols
    BY DEF ValidSettings, PylonProtocols
  <1>2. CASE Route(s) = "generic"
    BY <1>1, <1>2, GenericPollsItsFamily, StartedByParameters DEF Program
  <1>3. CASE Route(s) # "generic"
    <2>1. Route(s) \in Dedicated /\ Matches(s)[Route(s)]
      BY <1>3, SelectedMatches
    <2>2. \/ Route(s) \in DOMAIN ToRsGrowatt /\ s.bms_protocol \in ToRsGrowatt[Route(s)]
          \/ Route(s) \in DOMAIN ToRsPylon /\ s.bms_protocol \in ToRsPylon[Route(s)]
          \/ Route(s) \in DOMAIN ToCanGrowatt /\ s.bms_protocol \in ToCanGrowatt[Route(s)]
      BY <1>1, <2>1, KindsOfBranches, MatchesRs, OtherSources
    <2>3. /\ BranchPoller(s, Route(s)) = FamilyTask(s.bms_protocol)
          /\ Route(s) \in ResponderBranches \cup DOMAIN ToRsPylon \cup {"rsJkbmsToCanGrowatt"}
      BY <1>1, <2>2, BranchPollsItsFamily
    <2> QED BY <2>3, BranchPrograms, StartedByParameters
  <1> QED BY <1>2, <1>3

-----------------------------------------------------------------------------
(* The inverter side.                                                      *)

LEMMA BranchesPoll ==
    ASSUME NEW s,
           NEW r \in ResponderBranches \cup DOMAIN ToRsPylon \cup {"rsJkbmsToCanGrowatt", "canDalyToRsPylon"}
    PROVE  BranchPoller(s, r) \in Pollers
  BY TablesOfBranches DEF BranchPoller, ResponderBranches, Pollers, JkbmsPoller

LEMMA PollersDoNotServe ==
    Pollers \cap {"canRsGrowatt", "modelRsGrowatt", "growattInv", "pylonInv"} = {}
  BY DEF Pollers

\* The Pylon responder is among the tasks of the bridge, unless the bridge is only a source.
LEMMA PylonResponds ==
    ASSUME NEW s
    PROVE  PylonWanted(s) \cap {"pylonInvRx"} =
               IF s.inverter_line = "RS485" /\ ~PylonSourceOnlyMode(s) THEN {"pylonInvRx"} ELSE {}
  BY DEF PylonWanted, PylonTasks

\* The line each dedicated route serves, from its predicate.
LEMMA LineOfRoute ==
    ASSUME NEW s, s.mode = "BRIDGE", Route(s) # "generic"
    PROVE  /\ Route(s) \in {"canToRsGrowatt", "rsPylonToRsGrowatt", "canDalyToRsPylon"}
                  \cup ResponderBranches \cup DOMAIN ToRsPylon => s.inverter_line = "RS485"
           /\ Route(s) \in {"rsPylonToCanGrowatt", "rsJkbmsToCanGrowatt", "canDalyToCanPylon",
                            "canDirectPassthrough"} => s.inverter_line = "CAN"
           /\ Route(s) \in DOMAIN ToRsPylon \cup {"canDalyToRsPylon"} => ~PylonSourceOnlyMode(s)
           /\ Route(s) = "rsPylonToRsGrowatt" => PylonSourceOnlyMode(s)
           /\ Route(s) = "pylonRs485Route" =>
                  /\ ~PylonSourceOnlyMode(s)
                  /\ s.inverter_line = "RS485" \/ (s.inverter_line = "CAN" /\ s.inverter_protocol = "CAN_PYLON")
  <1>1. /\ Matches(s)[Route(s)]
        /\ Route(s) = "pylonRs485Route" => ~Matches(s)["rsPylonToRsGrowatt"]
                                           /\ ~Matches(s)["rsPylonToCanGrowatt"]
    BY SelectedMatches
  <1>2. Route(s) \in {"canToRsGrowatt", "rsPylonToRsGrowatt", "canDalyToRsPylon"}
            \cup ResponderBranches \cup DOMAIN ToRsPylon => s.inverter_line = "RS485"
    BY <1>1, MatchesRs, MatchesCan, TablesOfBranches DEF OnLines, ResponderBranches
  <1>3. Route(s) \in {"rsPylonToCanGrowatt", "rsJkbmsToCanGrowatt", "canDalyToCanPylon",
                      "canDirectPassthrough"} => s.inverter_line = "CAN"
    BY <1>1, MatchesRs, MatchesCan, TablesOfBranches DEF OnLines
  <1>4. IsRs485Pylon(s.inverter_protocol) => ~PylonSourceOnlyMode(s)
    BY DEF PylonSourceOnlyMode, IsRsPylonToRsGrowattRoute, IsRsToRsGrowattRoute, IsRsToCanGrowattRoute,
           IsRs485Pylon
  <1>5. Route(s) \in DOMAIN ToRsPylon \cup {"canDalyToRsPylon"} => IsRs485Pylon(s.inverter_protocol)
    BY <1>1, MatchesRs, MatchesCan
  <1>6. /\ Matches(s)["rsPylonToRsGrowatt"] <=> IsRsPylonToRsGrowattRoute(s)
        /\ Matches(s)["rsPylonToCanGrowatt"] <=> IsRsToCanGrowattRoute(s, PylonProtocols)
    BY DEF Matches
  <1>7. Route(s) = "pylonRs485Route" =>
            /\ ~PylonSourceOnlyMode(s)
            /\ s.inverter_line = "RS485" \/ (s.inverter_line = "CAN" /\ s.inverter_protocol = "CAN_PYLON")
    <2> HAVE Route(s) = "pylonRs485Route"
    <2>1. PylonRs485BridgeSupportsRoute(s)
      BY <1>1, MatchesCan
    <2>2. ~PylonSourceOnlyMode(s)
      BY <1>1, <1>6 DEF PylonSourceOnlyMode
    <2>3. \/ s.inverter_line = "RS485"
          \/ (s.inverter_line = "CAN" /\ s.inverter_protocol = "CAN_PYLON")
      BY <2>1, <2>2 DEF PylonRs485BridgeSupportsRoute, IsRsToRsPylonRoute, PylonToCanMode,
                        PylonCanToRs485Mode, PylonCanSyntheticSourceMode, OnLines
    <2> QED BY <2>2, <2>3
  <1>8. Route(s) = "rsPylonToRsGrowatt" => PylonSourceOnlyMode(s)
    BY <1>1, <1>6 DEF PylonSourceOnlyMode
  <1> QED BY <1>2, <1>3, <1>4, <1>5, <1>7, <1>8

LEMMA InverterIsServed ==
    ASSUME NEW s, s.mode = "BRIDGE", Route(s) # "generic", route = Route(s)
    PROVE  /\ InverterTasks(s) # {}
           /\ IF s.inverter_line = "CAN" THEN InverterTasks(s) \cap OnCan # {}
                                         ELSE InverterTasks(s) \cap OnCan = {}
  <1> DEFINE bridge == IF CallsBridge(Program(s)) THEN PylonWanted(s) \cap {"pylonInvRx"} ELSE {}
             serving == {"canRsGrowatt", "modelRsGrowatt", "growattInv", "pylonInv"}
  <1>1. route # "canDirectPassthrough" =>
            InverterTasks(s) = (Started(Program(s)) \cap serving) \cup bridge
    BY DEF InverterTasks
  <1>2. bridge \in {{}, {"pylonInvRx"}} /\ (s.inverter_line = "CAN" => bridge = {})
    BY PylonResponds
  <1>3. PylonSourceOnlyMode(s) => bridge = {}
    BY PylonResponds
  <1>4. CallsBridge(Program(s)) /\ s.inverter_line = "RS485" /\ ~PylonSourceOnlyMode(s)
            => bridge = {"pylonInvRx"}
    BY PylonResponds
  <1>5. CASE Route(s) \in ResponderBranches
    <2>1. PICK u : Program(s) = ModelResponderProgram(BranchPoller(s, Route(s)), u)
      BY <1>5, BranchPrograms
    <2>2. BranchPoller(s, Route(s)) \notin serving
      BY <1>5, BranchesPoll, PollersDoNotServe
    <2>3. InverterTasks(s) = {"modelRsGrowatt"}
      BY <1>1, <1>5, <2>1, <2>2, StartedByParameters DEF ResponderBranches
    <2> QED BY <1>5, <2>3, LineOfRoute DEF OnCan
  <1>6. CASE Route(s) \in DOMAIN ToRsPylon \cup {"canDalyToRsPylon"}
    <2>1. BranchPoller(s, Route(s)) \notin serving
      BY <1>6, BranchesPoll, PollersDoNotServe
    <2>2. Program(s) = PylonResponderProgram(BranchPoller(s, Route(s)))
      BY <1>6, BranchPrograms
    <2>3. s.inverter_line = "RS485" /\ ~PylonSourceOnlyMode(s)
      BY <1>6, LineOfRoute
    <2>4. bridge = {"pylonInvRx"}
      BY <1>4, <2>2, <2>3, StartedByParameters
    <2>5. InverterTasks(s) = {"pylonInvRx"}
      <3>1. Started(Program(s)) \cap serving = {}
        <4>1. Started(Program(s)) = {BranchPoller(s, Route(s))}
          BY <2>2, StartedByParameters
        <4> QED BY <2>1, <4>1
      <3>2. route # "canDirectPassthrough"
        BY <1>6, TablesOfBranches
      <3> QED BY <1>1, <2>4, <3>1, <3>2
    <2> QED BY <2>3, <2>5 DEF OnCan
  <1>7. CASE Route(s) = "rsJkbmsToCanGrowatt"
    <2>1. Program(s) = RsJkbmsToCanGrowattProgram(BranchPoller(s, Route(s)))
      BY <1>7, BranchPrograms
    <2>3. "growattInv" \in Started(Program(s))
      BY <2>1, StartedByParameters
    <2>2. "growattInv" \in InverterTasks(s)
      BY <2>3 DEF InverterTasks
    <2> QED BY <1>7, <2>2, LineOfRoute DEF OnCan
  <1>8. CASE Route(s) = "rsPylonToCanGrowatt"
    <2>1. Program(s) = RsPylonToCanGrowattProgram
      BY <1>8 DEF Program
    <2>2. "growattInv" \in InverterTasks(s)
      BY <2>1, StartedByFixed DEF InverterTasks
    <2> QED BY <1>8, <2>2, LineOfRoute DEF OnCan
  <1>9. CASE Route(s) = "rsPylonToRsGrowatt"
    <2>1. Program(s) = RsPylonToRsGrowattProgram
      BY <1>9 DEF Program
    <2>2. InverterTasks(s) = {"modelRsGrowatt"}
      BY <1>1, <1>3, <1>9, <2>1, LineOfRoute, StartedByFixed
    <2> QED BY <1>9, <2>2, LineOfRoute DEF OnCan
  <1>10. CASE Route(s) = "canToRsGrowatt"
    <2>1. Program(s) = CanToRsGrowattProgram
      BY <1>10 DEF Program
    <2>2. InverterTasks(s) = {"canRsGrowatt"}
      BY <1>1, <1>10, <2>1, StartedByFixed
    <2> QED BY <1>10, <2>2, LineOfRoute DEF OnCan
  <1>11. CASE Route(s) = "canDalyToCanPylon"
    <2>1. Program(s) = CanDalyToCanPylonProgram
      BY <1>11 DEF Program
    <2>2. "pylonInv" \in InverterTasks(s)
      BY <2>1, StartedByFixed DEF InverterTasks
    <2> QED BY <1>11, <2>2, LineOfRoute DEF OnCan
  <1>12. CASE Route(s) = "canDirectPassthrough"
    <2>1. s.inverter_line = "CAN"
      BY <1>12, LineOfRoute
    <2>2. "canTaskB" \in ForwarderWanted(s)
      BY <2>1 DEF ForwarderWanted, ForwarderTasks
    <2>3. "canTaskB" \in InverterTasks(s)
      BY <1>12, <2>2 DEF InverterTasks
    <2> QED BY <2>1, <2>3 DEF OnCan
  <1>13. CASE Route(s) = "pylonRs485Route"
    <2>1. /\ ~PylonSourceOnlyMode(s)
          /\ s.inverter_line = "RS485" \/ (s.inverter_line = "CAN" /\ s.inverter_protocol = "CAN_PYLON")
      BY <1>13, LineOfRoute
    <2>2. CASE s.inverter_line = "RS485"
      <3>1. Program(s) = PylonBridgeProgram
        BY <1>13, <2>2 DEF Program
      <3>2. InverterTasks(s) = {"pylonInvRx"}
        BY <1>1, <1>4, <1>13, <2>1, <2>2, <3>1, StartedByFixed
      <3> QED BY <2>2, <3>2 DEF OnCan
    <2>3. CASE s.inverter_line = "CAN" /\ s.inverter_protocol = "CAN_PYLON"
      <3>1. Program(s) = PylonToCanProgram
        BY <1>13, <2>3 DEF Program
      <3>2. "pylonInv" \in InverterTasks(s)
        BY <3>1, StartedByFixed DEF InverterTasks
      <3> QED BY <2>3, <3>2 DEF OnCan
    <2> QED BY <2>1, <2>2, <2>3
  <1>14. Route(s) \in Dedicated
    BY SelectedMatches
  <1> QED BY <1>5, <1>6, <1>7, <1>8, <1>9, <1>10, <1>11, <1>12, <1>13, <1>14, KindsOfBranches,
             TablesOfBranches DEF ResponderBranches

-----------------------------------------------------------------------------
(* The second BMS.                                                         *)

\* A branch polls with one of the two tasks of a second BMS only a source of its family.
LEMMA BranchPollerOfFamily ==
    ASSUME NEW s, Route(s) # "generic", s.mode = "BRIDGE",
           Route(s) \in ResponderBranches \cup DOMAIN ToRsPylon \cup {"rsJkbmsToCanGrowatt", "canDalyToRsPylon"}
    PROVE  /\ BranchPoller(s, Route(s)) = "jkbmsModbus" => IsRs485JkbmsModbus(s.bms_protocol)
           /\ BranchPoller(s, Route(s)) = "dalyRs485" => s.bms_protocol = "RS485_DALY"
  <1>1. Matches(s)[Route(s)]
    BY SelectedMatches
  <1>2. CASE Route(s) \in {"rsJkbmsToRsGrowatt", "rsJkbmsToCanGrowatt", "rsJkbmsToRsPylon"}
    <2>1. BranchPoller(s, Route(s)) = JkbmsPoller(s.bms_protocol)
      BY <1>2 DEF BranchPoller
    <2>2. s.bms_protocol \in JkbmsProtocols
      BY <1>1, <1>2, MatchesRs, TablesOfBranches DEF ToRsGrowatt, ToRsPylon, ToCanGrowatt
    <2> QED BY <2>1, <2>2, ProtocolSets DEF JkbmsPoller, IsRs485JkbmsModbus
  <1>3. CASE Route(s) = "rsDalyToRsPylon"
    <2>1. s.bms_protocol = "RS485_DALY"
      BY <1>1, <1>3, MatchesRs, TablesOfBranches DEF ToRsPylon
    <2>2. BranchPoller(s, Route(s)) = "dalyRs485"
      BY <1>3 DEF BranchPoller
    <2> QED BY <2>1, <2>2
  <1>4. CASE Route(s) \in {"rsWowToRsGrowatt", "rsGrowattToRsGrowatt", "rsGrowattToRsPylon",
                           "rsPaceToRsPylon", "rsVoltronicToRsPylon", "rsChinaTowerToRsPylon",
                           "rsWowToRsPylon", "rsSeplosToRsPylon", "canDalyToRsPylon"}
    BY <1>4 DEF BranchPoller
  <1> QED BY <1>2, <1>3, <1>4, TablesOfBranches DEF ResponderBranches

LEMMA GenericPollerOfFamily ==
    ASSUME NEW s \in Settings, ValidSettings(s)
    PROVE  /\ GenericBmsTask(s) = "jkbmsModbus" => IsRs485JkbmsModbus(s.bms_protocol)
           /\ GenericBmsTask(s) = "dalyRs485" => s.bms_protocol = "RS485_DALY"
           /\ GenericInverterTask(s) \in {"pylonInv", "growattInv"}
  <1>1. s.bms_line \in {"CAN", "RS485"} /\ s.bms_protocol \in CanBmsProtocols \cup RsBmsProtocols
    BY DEF Settings, Lines, Protocols
  <1>2. s.bms_line # "CAN" => s.bms_protocol \in RsBmsProtocols
    BY DEF ValidSettings
  <1>3. GenericInverterTask(s) \in {"pylonInv", "growattInv"}
    BY DEF GenericInverterTask
  <1>4. ASSUME NEW p \in CanBmsProtocols \cup RsBmsProtocols, p = s.bms_protocol
        PROVE  /\ GenericBmsTask(s) = "jkbmsModbus" => IsRs485JkbmsModbus(p)
               /\ GenericBmsTask(s) = "dalyRs485" => p = "RS485_DALY"
    BY <1>2, <1>4 DEF CanBmsProtocols, RsBmsProtocols, GenericBmsTask, ProtocolIdFromUiProtocol,
       IsRs485JkbmsModbus, IsRs485Pylon, IsCanDaly
  <1> QED BY <1>1, <1>3, <1>4

LEMMA TasksOfTheSecondBms ==
    ASSUME NEW s \in Settings, ValidSettings(s), s.mode = "BRIDGE"
    PROVE  /\ "jkbmsModbus" \in Started(Program(s)) => IsRs485JkbmsModbus(s.bms_protocol)
           /\ "dalyRs485" \in Started(Program(s)) => s.bms_protocol = "RS485_DALY"
  <1>1. CASE Route(s) = "generic"
    <2>1. Started(Program(s)) = {GenericBmsTask(s), GenericInverterTask(s), "orchestrator"}
      BY <1>1, StartedByParameters DEF Program
    <2> QED BY <2>1, GenericPollerOfFamily
  <1>2. CASE Route(s) \in ResponderBranches \cup DOMAIN ToRsPylon
                              \cup {"rsJkbmsToCanGrowatt", "canDalyToRsPylon"}
    <2>1. Route(s) # "generic"
      BY <1>2, TablesOfBranches DEF ResponderBranches
    <2>2. Started(Program(s)) \subseteq {BranchPoller(s, Route(s)), "modelRsGrowatt", "growattInv"}
      BY <1>2, BranchPrograms, StartedByParameters
    <2> QED BY <1>2, <2>1, <2>2, BranchPollerOfFamily
  <1>3. CASE Route(s) \in {"canToRsGrowatt", "rsPylonToRsGrowatt", "rsPylonToCanGrowatt",
                           "canDalyToCanPylon", "canDirectPassthrough", "pylonRs485Route"}
    <2>1. Program(s) \in {CanToRsGrowattProgram, RsPylonToRsGrowattProgram, RsPylonToCanGrowattProgram,
                          CanDalyToCanPylonProgram, PassthroughProgram, PylonBridgeProgram,
                          PylonToCanProgram}
      BY <1>3 DEF Program
    <2> QED BY <2>1, StartedByFixed
  <1> QED BY <1>1, <1>2, <1>3, SelectedMatches, KindsOfBranches, TablesOfBranches DEF ResponderBranches

LEMMA SecondTaskIsFree ==
    ASSUME NEW s \in Settings, ValidSettings(s), s.mode = "BRIDGE", s.dual_bms
    PROVE  SecondaryTask(s) \notin Started(Program(s))
  <1>1. DualBmsValid(s)
    BY DEF ValidSettings
  <1>2. CASE IsRs485JkbmsModbus(s.bms2_protocol)
    <2>1. SecondaryTask(s) = "jkbmsModbus" /\ ~IsRs485JkbmsModbus(s.bms_protocol)
      BY <1>1, <1>2 DEF SecondaryTask, DualBmsValid
    <2> QED BY <2>1, TasksOfTheSecondBms
  <1>3. CASE ~IsRs485JkbmsModbus(s.bms2_protocol)
    <2>1. SecondaryTask(s) = "dalyRs485" /\ s.bms_protocol # "RS485_DALY"
      BY <1>1, <1>3 DEF SecondaryTask, DualBmsValid
    <2> QED BY <2>1, TasksOfTheSecondBms
  <1> QED BY <1>2, <1>3

-----------------------------------------------------------------------------
(* The record on its way.                                                  *)

LEMMA CascadeStarts == Init => CascadeInv
  BY CandidatesAssumption DEF Init, CascadeInv, Selected

LEMMA CascadeStep == CascadeInv /\ [Next]_vars => CascadeInv'
  <1> SUFFICES ASSUME CascadeInv, [Next]_vars PROVE CascadeInv'
    OBVIOUS
  <1>1. CASE Validate
    <2>1. verdict' = "accepted" => ValidSettings(settings)
      BY <1>1 DEF Validate
    <2>2. ~Selected
      BY <1>1 DEF Validate, CascadeInv
    <2> QED BY <1>1, <2>1, <2>2 DEF Validate, CascadeInv, Selected
  <1>2. CASE Select
    BY <1>2 DEF Select, CascadeInv, Selected
  <1>3. CASE UNCHANGED vars
    BY <1>3 DEF vars, CascadeInv, Selected
  <1> QED BY <1>1, <1>2, <1>3 DEF Next

LEMMA CascadeIsInv == Spec => []CascadeInv
  BY CascadeStarts, CascadeStep, PTL DEF Spec

\* A configuration the route matrix of the README describes is served by the branch of its row,
\* whatever stands before that branch in orchestratorStartPrimaryFromRuntime.
THEOREM MatrixRowIsSelectedAlways == Spec => []MatrixRowIsSelected
  <1>1. CascadeInv => MatrixRowIsSelected
    <2> SUFFICES ASSUME CascadeInv, Selected, NEW row \in DOMAIN MatrixRows(settings),
                        settings.bms_protocol \in MatrixRows(settings)[row]
                 PROVE  route = row
      BY DEF MatrixRowIsSelected
    <2>1. /\ settings \in Settings /\ ValidSettings(settings) /\ settings.mode = "BRIDGE"
          /\ route = Route(settings)
      BY DEF CascadeInv
    <2> QED BY <2>1, RowIsSelected
  <1> QED BY <1>1, CascadeIsInv, PTL

\* Every dedicated branch starts a task that talks to the inverter, on the line of the settings.
THEOREM DedicatedRouteServesInverterLineAlways == Spec => []DedicatedRouteServesInverterLine
  <1>1. CascadeInv => DedicatedRouteServesInverterLine
    BY InverterIsServed DEF CascadeInv, DedicatedRouteServesInverterLine
  <1> QED BY <1>1, CascadeIsInv, PTL

\* Whichever branch was selected, the source on RS485 is polled by the task of its own family.
THEOREM RsSourceIsPolledAlways == Spec => []RsSourceIsPolled
  <1>1. CascadeInv => RsSourceIsPolled
    BY SourceIsPolled DEF CascadeInv, RsSourceIsPolled
  <1> QED BY <1>1, CascadeIsInv, PTL

\* The families validateSettings keeps apart are those whose tasks the branches share.
THEOREM SecondBmsHasOwnTaskAlways == Spec => []SecondBmsHasOwnTask
  <1>1. CascadeInv => SecondBmsHasOwnTask
    BY SecondTaskIsFree DEF CascadeInv, SecondBmsHasOwnTask
  <1> QED BY <1>1, CascadeIsInv, PTL
=============================================================================
