--------------------------- MODULE Forwarding_proofs ---------------------------
(***************************************************************************)
(* Proofs about Forwarding.  First the types; then, each on top of the     *)
(* types, three invariants: how old the copies of a measurement are, how   *)
(* long fake data outlive the override, and where the last published       *)
(* values are.                                                             *)
(***************************************************************************)
EXTENDS Forwarding, TLAPS

-----------------------------------------------------------------------------
(* The operators the steps are built from.                                 *)

\* The constants are numbers, and zero is an age.
LEMMA Constants ==
    /\ SourceStale \in Nat /\ SenderStale \in Nat /\ BridgeStale \in Nat
    /\ ForcePeriod \in Nat /\ RoundTicks \in Nat /\ AnswerTicks \in Nat
    /\ MaxAge \in Nat /\ MaxStamp \in Nat
    /\ MaxAge \in Ages /\ MaxStamp \in Stamps /\ 0 \in Ages /\ 0 \in Stamps
    /\ ~(MaxAge <= SourceStale)
  BY TimeAssumption DEF Ages, Stamps

\* The fields of a datum.
LEMMA DatumFields ==
    ASSUME NEW d \in Datum
    PROVE  /\ d # NoData
           /\ d.built \in BOOLEAN
           /\ d.src \in {"real", "fake"}
           /\ d.val \in Vals
           /\ d.age \in Ages
           /\ d.stamp \in Stamps
  BY NoDataAssumption DEF Datum

\* What a poller makes of a measurement.
LEMMA RealDatum ==
    ASSUME NEW v \in Vals, NEW a \in Ages, NEW t \in Stamps,
           NEW d, d = [built |-> FALSE, src |-> "real", val |-> v, age |-> a, stamp |-> t]
    PROVE  /\ d \in Datum
           /\ ~d.built
           /\ d.src = "real" /\ d.val = v /\ d.age = a /\ d.stamp = t
  BY DEF Datum

\* buildPacketFromBatteryModel keeps everything but the time stamp.
LEMMA BuiltFacts ==
    ASSUME NEW m \in Datum
    PROVE  /\ Built(m) \in Datum
           /\ Built(m).built
           /\ Built(m).src = m.src
           /\ Built(m).val = m.val
           /\ Built(m).age = m.age
           /\ Built(m).stamp = 0
  <1>1. 0 \in Stamps  BY TimeAssumption DEF Stamps
  <1>2. QED  BY <1>1 DEF Built, Datum

\* A tick increases an age unless it is at its bound.
LEMMA IncFacts ==
    ASSUME NEW bound \in Nat, NEW a \in 0..bound
    PROVE  /\ Inc(a, bound) \in 0..bound
           /\ Inc(a, bound) <= a + 1
           /\ Inc(a, bound) < bound => Inc(a, bound) = a + 1
           /\ \A b \in 0..bound : a <= b => Inc(a, bound) <= Inc(b, bound)
  BY DEF Inc

\* A tick changes the two ages of a datum and nothing else.
LEMMA OlderFacts ==
    ASSUME NEW d \in MaybeDatum
    PROVE  /\ Older(d) \in MaybeDatum
           /\ (Older(d) = NoData) = (d = NoData)
           /\ d # NoData => /\ Older(d).built = d.built
                            /\ Older(d).src = d.src
                            /\ Older(d).val = d.val
                            /\ Older(d).age = Inc(d.age, MaxAge)
                            /\ Older(d).stamp = Inc(d.stamp, MaxStamp)
  <1>1. CASE d = NoData
    BY <1>1 DEF Older, MaybeDatum
  <1>2. CASE d # NoData
    <2>1. d \in Datum  BY <1>2 DEF MaybeDatum
    <2>2. /\ d.age \in 0..MaxAge
          /\ d.stamp \in 0..MaxStamp
      BY <2>1, DatumFields DEF Ages, Stamps
    <2>3. /\ Inc(d.age, MaxAge) \in Ages
          /\ Inc(d.stamp, MaxStamp) \in Stamps
      BY <2>2, IncFacts, TimeAssumption DEF Ages, Stamps
    <2>4. Older(d) = [d EXCEPT !.age = Inc(d.age, MaxAge), !.stamp = Inc(d.stamp, MaxStamp)]
      BY <1>2 DEF Older
    <2>5. Older(d) \in Datum
      BY <2>1, <2>3, <2>4 DEF Datum
    <2>6. Older(d) # NoData
      BY <2>5, NoDataAssumption
    <2>7. /\ Older(d).built = d.built /\ Older(d).src = d.src /\ Older(d).val = d.val
          /\ Older(d).age = Inc(d.age, MaxAge) /\ Older(d).stamp = Inc(d.stamp, MaxStamp)
      BY <2>1, <2>4 DEF Datum
    <2>8. QED  BY <1>2, <2>5, <2>6, <2>7 DEF MaybeDatum
  <1>3. QED  BY <1>1, <1>2

\* A read of the battery model returns the override, or the model while it
\* is fresh, or nothing.
LEMMA GetFacts ==
    ASSUME TypeOK, NEW stale \in Nat
    PROVE  LET m == BatteryModelGet(stale)
           IN  /\ m \in MaybeDatum
               /\ enabled => /\ m # NoData /\ m.src = "fake" /\ ~m.built
                             /\ m.stamp = 0
               /\ ~enabled /\ m # NoData => m = model /\ m.stamp <= stale
  <1>1. CASE enabled
    <2> DEFINE m == BatteryModelGet(stale)
    <2>1. m = [built |-> FALSE, src |-> "fake", val |-> fake, age |-> 0, stamp |-> 0]
      BY <1>1 DEF BatteryModelGet
    <2>2. fake \in Vals  BY <1>1 DEF TypeOK, WebType
    <2>3. 0 \in Ages /\ 0 \in Stamps  BY TimeAssumption DEF Ages, Stamps
    <2>4. m \in Datum /\ m.built = FALSE /\ m.src = "fake" /\ m.stamp = 0
      BY <2>1, <2>2, <2>3 DEF Datum
    <2>5. m # NoData  BY <2>4, NoDataAssumption
    <2>6. QED  BY <1>1, <2>4, <2>5 DEF MaybeDatum
  <1>2. CASE ~enabled
    <2>1. model \in MaybeDatum  BY DEF TypeOK
    <2>2. QED  BY <1>2, <2>1 DEF BatteryModelGet, MaybeDatum
  <1>3. QED  BY <1>1, <1>2

-----------------------------------------------------------------------------
(* Types.                                                                  *)

\* The initial state is typed.
LEMMA InitType ==
    ASSUME Init
    PROVE  TypeOK
  <1>1. PollType
    <2>1. due \in 0..RoundTicks  BY Constants DEF Init
    <2>2. sourceAge \in Ages /\ ~(sourceAge <= SourceStale)  BY Constants DEF Init
    <2>3. QED  BY <2>1, <2>2 DEF Init, PollType
  <1>2. OrchType
    BY Constants DEF Init, OrchType, MaybeDatum
  <1>3. SendType
    BY DEF Init, SendType, MaybeDatum
  <1>4. WebType
    BY Constants DEF Init, WebType
  <1>5. QED
    BY <1>1, <1>2, <1>3, <1>4 DEF Init, TypeOK, MaybeDatum

\* A frame of the battery changes the poller's cache and its round.
LEMMA ReceiveType ==
    ASSUME TypeOK, NEW v \in Vals, Receive(v)
    PROVE  TypeOK'
  <1>1. PollType'
    BY TimeAssumption DEF TypeOK, PollType, Receive, Ages
  <1>2. QED
    BY <1>1 DEF TypeOK, OrchType, SendType, WebType, Receive, orchVars, sendVars, webVars

\* The end of a round publishes a datum or clears the model.
LEMMA EndRoundType ==
    ASSUME TypeOK, EndRound
    PROVE  TypeOK'
  <1>1. PollType'
    <2>1. /\ due' \in 0..RoundTicks
          /\ answered' \in BOOLEAN
      <3>1. due' = RoundTicks /\ answered' = FALSE
        BY DEF EndRound
      <3>2. RoundTicks \in 0..RoundTicks
        BY Constants
      <3>3. QED  BY <3>1, <3>2
    <2>2. /\ UNCHANGED <<sourceVal, sourceAge>>
          /\ pollPc' = pollPc \/ (pollPc' = "queue" /\ SourceIsFresh)
      BY DEF EndRound
    <2>3. QED  BY <2>1, <2>2 DEF TypeOK, PollType, SourceIsFresh
  <1>2. model' \in MaybeDatum
    <2>1. CASE ~SourceIsFresh
      BY <2>1 DEF EndRound, MaybeDatum
    <2>2. CASE SourceIsFresh
      <3>1. 0 \in Stamps  BY TimeAssumption DEF Stamps
      <3>2. sourceVal \in Vals /\ sourceAge \in Ages
        BY <2>2 DEF TypeOK, PollType, SourceIsFresh
      <3>3. model' = [built |-> FALSE, src |-> "real", val |-> sourceVal,
                      age |-> sourceAge, stamp |-> 0]
        BY <2>2 DEF EndRound
      <3>4. QED  BY <3>1, <3>2, <3>3, RealDatum DEF MaybeDatum
    <2>3. QED  BY <2>1, <2>2
  <1>3. QED
    BY <1>1, <1>2 DEF TypeOK, OrchType, SendType, WebType, EndRound, orchVars, sendVars, webVars

\* The packet a poller queues, with its fields.
LEMMA QueuePacketFacts ==
    ASSUME TypeOK, QueuePacket
    PROVE  /\ bmsQueue' \in Datum
           /\ ~bmsQueue'.built
           /\ bmsQueue'.src = "real"
           /\ bmsQueue'.val = sourceVal
           /\ bmsQueue'.age = sourceAge
           /\ bmsQueue'.stamp \in {0, Capped(sourceAge)}
  <1> DEFINE t == IF PacketStamp = "source" THEN Capped(sourceAge) ELSE 0
  <1>1. sourceVal \in Vals /\ sourceAge \in Ages
    BY DEF TypeOK, PollType, QueuePacket
  <1>2. t \in Stamps
    BY <1>1, TimeAssumption DEF Capped, Stamps, Ages
  <1>3. bmsQueue' = [built |-> FALSE, src |-> "real", val |-> sourceVal,
                     age |-> sourceAge, stamp |-> t]
    BY DEF QueuePacket
  <1>4. t \in {0, Capped(sourceAge)}
    OBVIOUS
  <1> HIDE DEF t
  <1>5. QED  BY <1>1, <1>2, <1>3, <1>4, RealDatum

\* Queuing the packet keeps the types.
LEMMA QueuePacketType ==
    ASSUME TypeOK, QueuePacket
    PROVE  TypeOK'
  BY QueuePacketFacts
     DEF TypeOK, PollType, OrchType, SendType, WebType, QueuePacket, MaybeDatum,
         orchVars, sendVars, webVars

\* orchestratorTask keeps the types.
LEMMA OrchReceiveType ==
    ASSUME TypeOK, OrchReceive
    PROVE  TypeOK'
  BY DEF TypeOK, PollType, OrchType, SendType, WebType, OrchReceive, MaybeDatum,
         pollVars, sendVars, webVars

\* Its packet after the override has been looked up.
LEMMA OrchBuildFacts ==
    ASSUME TypeOK, OrchBuild
    PROVE  /\ packet \in Datum
           /\ packet' \in Datum
           /\ \/ packet' = packet
              \/ /\ BatteryModelGet(BridgeStale) \in Datum
                 /\ packet' = Built(BatteryModelGet(BridgeStale))
  <1>1. packet \in Datum
    BY DEF TypeOK, OrchType, OrchBuild, MaybeDatum
  <1>2. BatteryModelGet(BridgeStale) \in MaybeDatum
    BY GetFacts, TimeAssumption
  <1>3. CASE BatteryModelGet(BridgeStale) = NoData
    BY <1>1, <1>3 DEF OrchBuild
  <1>4. CASE BatteryModelGet(BridgeStale) # NoData
    <2>1. BatteryModelGet(BridgeStale) \in Datum
      BY <1>2, <1>4 DEF MaybeDatum
    <2>2. packet' = Built(BatteryModelGet(BridgeStale))
      BY <1>4 DEF OrchBuild
    <2>3. QED  BY <1>1, <2>1, <2>2, BuiltFacts
  <1>5. QED  BY <1>3, <1>4

\* Building a packet keeps the types.
LEMMA OrchBuildType ==
    ASSUME TypeOK, OrchBuild
    PROVE  TypeOK'
  <1>1. packet' \in Datum /\ packet' # NoData
    BY OrchBuildFacts, NoDataAssumption
  <1>2. QED
    BY <1>1 DEF TypeOK, PollType, OrchType, SendType, WebType, OrchBuild, MaybeDatum,
                pollVars, sendVars, webVars

\* Forwarding, or not, keeps the types.
LEMMA OrchForwardType ==
    ASSUME TypeOK, OrchForward
    PROVE  TypeOK'
  <1>1. packet \in Datum /\ packet.built \in BOOLEAN /\ packet.val \in Vals
    <2>1. packet \in Datum  BY DEF TypeOK, OrchType, OrchForward, MaybeDatum
    <2>2. QED  BY <2>1, DatumFields
  <1>2. [built |-> packet.built, val |-> packet.val] \in Content
    BY <1>1 DEF Content
  <1>3. OrchType'
    <2>1. packet' = NoData /\ orchPc' = "wait"
      BY DEF OrchForward
    <2>2. \/ UNCHANGED <<lastForwarded, forwardAge>>
          \/ /\ lastForwarded' = [built |-> packet.built, val |-> packet.val]
             /\ forwardAge' = 0
      BY DEF OrchForward
    <2>3. lastForwarded' \in Content \cup {NoData}
      BY <1>2, <2>2 DEF TypeOK, OrchType
    <2>4. forwardAge' \in Stamps
      BY <2>2, TimeAssumption DEF TypeOK, OrchType, Stamps
    <2>5. QED  BY <2>1, <2>3, <2>4 DEF OrchType, MaybeDatum
  <1>4. inverterQueue' \in MaybeDatum
    BY <1>1 DEF TypeOK, OrchForward, MaybeDatum
  <1>5. QED
    BY <1>3, <1>4 DEF TypeOK, PollType, SendType, WebType, OrchForward,
                      pollVars, sendVars, webVars

\* Receiving, or timing out, keeps the types.
LEMMA SendReceiveType ==
    ASSUME TypeOK, SendReceive
    PROVE  TypeOK'
  <1>1. /\ latest' \in MaybeDatum
        /\ latestFromDebugOverride' \in BOOLEAN
        /\ latestFromDebugOverride' => latest' # NoData
    <2>1. CASE inverterQueue # NoData
      BY <2>1 DEF TypeOK, SendReceive
    <2>2. CASE inverterQueue = NoData
      BY <2>2 DEF TypeOK, SendType, SendReceive
    <2>3. QED  BY <2>1, <2>2
  <1>2. /\ sendPc' \in {"wait", "read"}
        /\ chosen' = NoData
        /\ cycle' = cycle
    BY DEF TypeOK, SendType, SendReceive
  <1>3. SendType'
    BY <1>1, <1>2 DEF TypeOK, SendType, MaybeDatum
  <1>4. QED
    BY <1>3 DEF TypeOK, PollType, OrchType, WebType, SendReceive, MaybeDatum,
                pollVars, orchVars, webVars

\* What the sender chooses: the fresh packet, the override or the fresh model.
LEMMA SelectedFacts ==
    ASSUME TypeOK
    PROVE  /\ Selected \in MaybeDatum
           /\ Selected # NoData =>
                 \/ Selected = latest /\ latest.stamp <= SenderStale /\ ~enabled
                 \/ Selected = BatteryModelGet(SenderStale)
           /\ enabled => Selected = BatteryModelGet(SenderStale) /\ Selected # NoData
  <1>1. /\ BatteryModelGet(SenderStale) \in MaybeDatum
        /\ enabled => BatteryModelGet(SenderStale) # NoData
    BY GetFacts, Constants
  <1>2. latest \in MaybeDatum
    BY DEF TypeOK, SendType
  <1>3. QED
    BY <1>1, <1>2 DEF Selected, PacketIsFresh

\* What becomes of the packet and its flag when they are dropped or kept.
LEMMA PacketKept ==
    ASSUME TypeOK,
           ForgetPacket \/ UNCHANGED <<latest, latestFromDebugOverride>>
    PROVE  /\ latest' \in MaybeDatum
           /\ latestFromDebugOverride' \in BOOLEAN
           /\ latestFromDebugOverride' => latest' # NoData
           /\ latest' \in {latest, NoData}
  <1>1. CASE ForgetPacket
    BY <1>1 DEF ForgetPacket, MaybeDatum
  <1>2. CASE UNCHANGED <<latest, latestFromDebugOverride>>
    BY <1>2 DEF TypeOK, SendType
  <1>3. QED  BY <1>1, <1>2

\* Reading the model keeps the types.
LEMMA SendReadType ==
    ASSUME TypeOK, SendRead
    PROVE  TypeOK'
  <1>1. ForgetPacket \/ UNCHANGED <<latest, latestFromDebugOverride>>
    BY DEF SendRead
  <1>2. /\ chosen' = Selected
        /\ \/ Selected # NoData /\ sendPc' = "send" /\ cycle' = cycle
           \/ Selected = NoData /\ sendPc' = "wait" /\ cycle' = "idle"
           \/ Selected = NoData /\ sendPc' = "override" /\ cycle' = cycle
    BY DEF SendRead
  <1>3. chosen' \in MaybeDatum
    BY <1>2, SelectedFacts
  <1>4. /\ sendPc' \in {"wait", "override", "send"}
        /\ sendPc' = "send" <=> chosen' # NoData
        /\ cycle' \in {"none", "idle", "sent"}
    BY <1>2 DEF TypeOK, SendType
  <1>5. SendType'
    BY <1>1, <1>3, <1>4, PacketKept DEF SendType
  <1>6. QED
    BY <1>5 DEF TypeOK, PollType, OrchType, WebType, SendRead, pollVars, orchVars, webVars

\* Looking for the override keeps the types.
LEMMA SendOverrideType ==
    ASSUME TypeOK, SendOverride
    PROVE  TypeOK'
  <1>1. ForgetPacket \/ UNCHANGED <<latest, latestFromDebugOverride>>
    BY DEF SendOverride
  <1>2. /\ chosen' = NoData
        /\ sendPc' \in {"build", "wait"}
        /\ cycle' \in {"none", "idle", "sent"}
    BY DEF TypeOK, SendType, SendOverride, EndCycle
  <1>3. SendType'
    BY <1>1, <1>2, PacketKept DEF SendType, MaybeDatum
  <1>4. QED
    BY <1>3 DEF TypeOK, PollType, OrchType, WebType, SendOverride, pollVars, orchVars, webVars

\* What building a packet from the model leaves to send.
LEMMA SendBuildFacts ==
    ASSUME TypeOK, SendBuild
    PROVE  LET m == BatteryModelGet(BridgeStale)
           IN  \/ /\ m \in Datum /\ Built(m) \in Datum /\ Built(m) # NoData
                  /\ sendPc' = "send" /\ cycle' = cycle
                  /\ chosen' = Built(m) /\ latest' = Built(m)
                  /\ latestFromDebugOverride' = TRUE
               \/ /\ sendPc' = "wait" /\ cycle' = "idle" /\ chosen' = NoData
                  /\ UNCHANGED <<latest, latestFromDebugOverride>>
  <1> DEFINE m == BatteryModelGet(BridgeStale)
  <1>1. m \in MaybeDatum
    BY GetFacts, Constants
  <1>2. CASE m # NoData
    <2>1. m \in Datum  BY <1>1, <1>2 DEF MaybeDatum
    <2>2. Built(m) \in Datum  BY <2>1, BuiltFacts
    <2>3. Built(m) # NoData  BY <2>2, NoDataAssumption
    <2>4. QED  BY <1>2, <2>1, <2>2, <2>3 DEF SendBuild
  <1>3. CASE m = NoData
    BY <1>3 DEF SendBuild, EndCycle
  <1>4. QED  BY <1>2, <1>3

\* Building that packet keeps the types.
LEMMA SendBuildType ==
    ASSUME TypeOK, SendBuild
    PROVE  TypeOK'
  <1> DEFINE m == BatteryModelGet(BridgeStale)
  <1>1. SendType'
    <2>1. CASE /\ Built(m) \in Datum /\ Built(m) # NoData
               /\ sendPc' = "send" /\ cycle' = cycle
               /\ chosen' = Built(m) /\ latest' = Built(m)
               /\ latestFromDebugOverride' = TRUE
      BY <2>1 DEF TypeOK, SendType, MaybeDatum
    <2>2. CASE /\ sendPc' = "wait" /\ cycle' = "idle" /\ chosen' = NoData
               /\ UNCHANGED <<latest, latestFromDebugOverride>>
      BY <2>2 DEF TypeOK, SendType, MaybeDatum
    <2>3. QED  BY <2>1, <2>2, SendBuildFacts
  <1>2. QED
    BY <1>1 DEF TypeOK, PollType, OrchType, WebType, SendBuild,
                pollVars, orchVars, webVars

\* Sending the set, and its last frame, keep the types.
LEMMA SendFramesType ==
    ASSUME TypeOK, Send \/ Send322
    PROVE  TypeOK'
  <1>1. /\ chosen' = NoData
        /\ sendPc' \in {"wait", "read322"}
        /\ cycle' \in {"none", "idle", "sent"}
        /\ UNCHANGED <<latest, latestFromDebugOverride>>
    BY DEF TypeOK, SendType, Send, Send322, EndCycle
  <1>2. SendType'
    BY <1>1 DEF TypeOK, SendType, MaybeDatum
  <1>3. QED
    BY <1>2 DEF TypeOK, PollType, OrchType, WebType, Send, Send322,
                pollVars, orchVars, webVars

\* What the second look at the model leaves to send.
LEMMA Read322Facts ==
    ASSUME TypeOK, Read322
    PROVE  LET m == BatteryModelGet(BridgeStale)
           IN  \/ /\ m \in Datum /\ Built(m) \in Datum /\ Built(m) # NoData
                  /\ sendPc' = "send322" /\ cycle' = cycle /\ chosen' = Built(m)
               \/ sendPc' = "wait" /\ cycle' = "sent" /\ chosen' = NoData
  <1> DEFINE m == BatteryModelGet(BridgeStale)
  <1>1. m \in MaybeDatum
    BY GetFacts, Constants
  <1>2. CASE m # NoData
    <2>1. m \in Datum  BY <1>1, <1>2 DEF MaybeDatum
    <2>2. Built(m) \in Datum  BY <2>1, BuiltFacts
    <2>3. Built(m) # NoData  BY <2>2, NoDataAssumption
    <2>4. QED  BY <1>2, <2>1, <2>2, <2>3 DEF Read322
  <1>3. CASE m = NoData
    BY <1>3 DEF Read322, EndCycle
  <1>4. QED  BY <1>2, <1>3

\* The second look keeps the types.
LEMMA Read322Type ==
    ASSUME TypeOK, Read322
    PROVE  TypeOK'
  <1> DEFINE m == BatteryModelGet(BridgeStale)
  <1>1. UNCHANGED <<latest, latestFromDebugOverride>>
    BY DEF Read322
  <1>2. SendType'
    <2>1. CASE /\ Built(m) \in Datum /\ Built(m) # NoData
               /\ sendPc' = "send322" /\ cycle' = cycle /\ chosen' = Built(m)
      BY <1>1, <2>1 DEF TypeOK, SendType, MaybeDatum
    <2>2. CASE sendPc' = "wait" /\ cycle' = "sent" /\ chosen' = NoData
      BY <1>1, <2>2 DEF TypeOK, SendType, MaybeDatum
    <2>3. QED  BY <2>1, <2>2, Read322Facts
  <1>3. QED
    BY <1>2 DEF TypeOK, PollType, OrchType, WebType, Read322, pollVars, orchVars, webVars

\* The two halves of a POST keep the types.
LEMMA PostType ==
    ASSUME TypeOK,
           (\E v \in Vals : SetDebugOverride(v)) \/ SetDebugOverrideEnabled
    PROVE  TypeOK'
  <1>1. WebType'
    <2>1. CASE \E v \in Vals : SetDebugOverride(v)
      BY <2>1 DEF TypeOK, WebType, SetDebugOverride
    <2>2. CASE SetDebugOverrideEnabled
      <3>1. enabled' = (postPc = "enable") /\ postPc' = "idle" /\ fake' = fake
        BY <2>2 DEF SetDebugOverrideEnabled
      <3>2. fake \in Vals
        BY <2>2 DEF TypeOK, WebType, SetDebugOverrideEnabled
      <3>3. toggleAge' \in Stamps
        BY <2>2, Constants DEF TypeOK, WebType, SetDebugOverrideEnabled
      <3>4. enabled' \in BOOLEAN
        BY <3>1
      <3>5. QED  BY <3>1, <3>2, <3>3, <3>4 DEF WebType
    <2>3. QED  BY <2>1, <2>2
  <1>2. QED
    BY <1>1 DEF TypeOK, PollType, OrchType, SendType, SetDebugOverride, SetDebugOverrideEnabled,
                pollVars, orchVars, sendVars

\* What a tick makes of the ages.
LEMMA TickFacts ==
    ASSUME TypeOK, Tick
    PROVE  /\ sourceAge' \in Ages /\ sourceAge' = Inc(sourceAge, MaxAge)
           /\ sourceAge <= sourceAge'
           /\ model' \in MaybeDatum /\ model' = Older(model)
           /\ latest' \in MaybeDatum /\ latest' = Older(latest)
           /\ forwardAge' \in Stamps
           /\ toggleAge' \in Stamps /\ toggleAge' = Inc(toggleAge, MaxStamp)
           /\ due' \in 0..RoundTicks
  <1>1. /\ sourceAge \in 0..MaxAge /\ forwardAge \in 0..MaxStamp /\ toggleAge \in 0..MaxStamp
        /\ model \in MaybeDatum /\ latest \in MaybeDatum
        /\ due \in 0..RoundTicks
    BY DEF TypeOK, PollType, OrchType, SendType, WebType, Ages, Stamps
  <1>2. /\ sourceAge' = Inc(sourceAge, MaxAge)
        /\ forwardAge' = Inc(forwardAge, MaxStamp)
        /\ toggleAge' = Inc(toggleAge, MaxStamp)
        /\ model' = Older(model) /\ latest' = Older(latest)
        /\ due > 0 /\ due' = due - 1
    BY DEF Tick
  <1>3. sourceAge <= sourceAge'
    BY <1>1, <1>2, Constants DEF Inc
  <1>4. QED
    BY <1>1, <1>2, <1>3, IncFacts, OlderFacts, Constants DEF Ages, Stamps

\* A tick keeps the types.
LEMMA TickType ==
    ASSUME TypeOK, Tick
    PROVE  TypeOK'
  <1>1. PollType'
    <2>1. /\ UNCHANGED <<sourceVal, answered, pollPc>>
          /\ sourceAge' <= SourceStale => sourceAge <= SourceStale
      <3>1. sourceAge \in Nat /\ sourceAge' \in Nat
        BY TickFacts, Constants DEF TypeOK, PollType, Ages
      <3>2. QED  BY <3>1, TickFacts, Constants DEF Tick
    <2>2. QED  BY <2>1, TickFacts DEF TypeOK, PollType
  <1>2. OrchType'
    BY TickFacts DEF TypeOK, OrchType, Tick
  <1>3. SendType'
    <2>1. latest' # NoData <=> latest # NoData
      BY TickFacts, OlderFacts DEF TypeOK, SendType
    <2>2. /\ UNCHANGED <<sendPc, chosen, latestFromDebugOverride>>
          /\ cycle' = "none"
      BY DEF Tick
    <2>3. QED  BY <2>1, <2>2, TickFacts DEF TypeOK, SendType
  <1>4. WebType'
    BY TickFacts DEF TypeOK, WebType, Tick
  <1>5. QED
    BY <1>1, <1>2, <1>3, <1>4, TickFacts DEF TypeOK, Tick

\* Every step keeps the types.
LEMMA NextType ==
    ASSUME TypeOK, [Next]_vars
    PROVE  TypeOK'
  <1>1. CASE \E v \in Vals : Receive(v)
    BY <1>1, ReceiveType
  <1>2. CASE \E v \in Vals : SetDebugOverride(v)
    BY <1>2, PostType
  <1>3. CASE Poller
    BY <1>3, EndRoundType, QueuePacketType DEF Poller
  <1>4. CASE OrchestratorTask
    BY <1>4, OrchReceiveType, OrchBuildType, OrchForwardType DEF OrchestratorTask
  <1>5. CASE SenderTask
    BY <1>5, SendReceiveType, SendReadType, SendOverrideType, SendBuildType, SendFramesType,
       Read322Type DEF SenderTask
  <1>6. CASE SetDebugOverrideEnabled
    BY <1>6, PostType
  <1>7. CASE Tick
    BY <1>7, TickType
  <1>8. CASE UNCHANGED vars
    BY <1>8 DEF TypeOK, PollType, OrchType, SendType, WebType, vars,
                pollVars, orchVars, sendVars, webVars
  <1>9. QED
    BY <1>1, <1>2, <1>3, <1>4, <1>5, <1>6, <1>7, <1>8 DEF Next

\* Every variable keeps its type, in particular the sender has something to
\* send exactly when it is about to send.
THEOREM ForwardingType == Spec => []TypeOK
  <1>1. Init => TypeOK  BY InitType
  <1>2. TypeOK /\ [Next]_vars => TypeOK'  BY NextType
  <1>3. QED  BY <1>1, <1>2, PTL DEF Spec

-----------------------------------------------------------------------------
(* The invariants.                                                         *)

\* The age of real data exceeds that of their time stamp by the poller's
\* window at most, plus BridgeStale for a packet built from the model.
AgeOK(d) ==
    d # NoData /\ d.src = "real" /\ d.stamp < MaxStamp
        => d.age <= SourceStale + d.stamp + (IF d.built THEN BridgeStale ELSE 0)

AgeInv ==
    /\ model # NoData => ~model.built /\ model.src = "real"
    /\ pollPc = "queue" => sourceAge <= SourceStale
    /\ AgeOK(model) /\ AgeOK(bmsQueue) /\ AgeOK(packet)
    /\ AgeOK(inverterQueue) /\ AgeOK(latest) /\ AgeOK(chosen)
    /\ chosen # NoData => chosen.stamp <= SenderStale

\* Once the override is off, fake data were stamped before it was switched off.
FakeOK(d) == d # NoData /\ d.src = "fake" => enabled \/ toggleAge <= d.stamp

FakeInv ==
    /\ bmsQueue # NoData => bmsQueue.src = "real"
    /\ FakeOK(packet) /\ FakeOK(inverterQueue) /\ FakeOK(latest) /\ FakeOK(chosen)

\* Where the values last published are, from the queue to the sender.
SameContent(p) == lastForwarded # NoData /\ lastForwarded.built = p.built /\ lastForwarded.val = p.val

Published == pollPc = "poll" /\ model # NoData

ChangeInv ==
    /\ pollPc = "queue" => model # NoData /\ model.val = sourceVal
    /\ Published /\ bmsQueue # NoData => bmsQueue.val = model.val
    /\ Published /\ bmsQueue = NoData /\ orchPc # "wait"
           => packet.built \/ packet.val = model.val
    /\ Published /\ bmsQueue = NoData /\ orchPc = "wait"
           => lastForwarded # NoData /\ (lastForwarded.built \/ lastForwarded.val = model.val)
    /\ inverterQueue # NoData => SameContent(inverterQueue)
    /\ inverterQueue = NoData /\ latest # NoData /\ ~latest.built => SameContent(latest)

-----------------------------------------------------------------------------
(* How old what is sent may be.                                            *)

\* No datum is no problem.
LEMMA AgeOfNothing == AgeOK(NoData)
  BY DEF AgeOK

\* A packet built from what a read within BridgeStale returned.
LEMMA AgeOfBuilt ==
    ASSUME TypeOK, AgeInv, BatteryModelGet(BridgeStale) \in Datum
    PROVE  AgeOK(Built(BatteryModelGet(BridgeStale)))
  <1> DEFINE m == BatteryModelGet(BridgeStale)
  <1>1. /\ Built(m).built /\ Built(m).src = m.src
        /\ Built(m).age = m.age /\ Built(m).stamp = 0
    BY BuiltFacts
  <1>2. m # NoData
    BY NoDataAssumption
  <1>3. CASE enabled
    BY <1>1, <1>3, GetFacts, Constants DEF AgeOK
  <1>4. CASE ~enabled
    <2>1. m = model /\ m.stamp <= BridgeStale
      BY <1>2, <1>4, GetFacts, Constants
    <2>2. ~m.built /\ AgeOK(m)
      BY <1>2, <2>1 DEF AgeInv
    <2>3. m.age \in Nat /\ m.stamp \in Nat
      BY DatumFields, Constants DEF Ages, Stamps
    <2>4. m.stamp < MaxStamp
      BY <2>1, <2>3, TimeAssumption
    <2>5. m.src = "real" => m.age <= SourceStale + m.stamp
      BY <1>2, <2>2, <2>3, <2>4, Constants DEF AgeOK
    <2>6. m.src = "real" => m.age <= SourceStale + 0 + BridgeStale
      BY <2>1, <2>3, <2>5, Constants
    <2>7. QED  BY <1>1, <2>6 DEF AgeOK
  <1>5. QED  BY <1>3, <1>4

\* What the sender chooses is within its window.
LEMMA AgeOfSelected ==
    ASSUME TypeOK, AgeInv
    PROVE  /\ AgeOK(Selected)
           /\ Selected # NoData => Selected.stamp <= SenderStale
  <1>1. CASE Selected = NoData
    BY <1>1, AgeOfNothing
  <1>2. CASE Selected # NoData /\ Selected = latest /\ latest.stamp <= SenderStale
    BY <1>2 DEF AgeInv
  <1>3. CASE Selected # NoData /\ Selected = BatteryModelGet(SenderStale)
    <2>1. CASE enabled
      BY <1>3, <2>1, GetFacts, Constants DEF AgeOK
    <2>2. CASE ~enabled
      <3>1. Selected = model /\ Selected.stamp <= SenderStale
        BY <1>3, <2>2, GetFacts, Constants
      <3>2. QED  BY <3>1 DEF AgeInv
    <2>3. QED  BY <2>1, <2>2
  <1>4. QED  BY <1>1, <1>2, <1>3, SelectedFacts

\* A tick ages the data no more than their time stamp.
LEMMA AgeOfOlder ==
    ASSUME NEW d \in MaybeDatum, AgeOK(d)
    PROVE  AgeOK(Older(d))
  <1>1. CASE d = NoData
    BY <1>1, OlderFacts DEF AgeOK
  <1>2. CASE d # NoData
    <2>1. d \in Datum  BY <1>2 DEF MaybeDatum
    <2>2. d.age \in 0..MaxAge /\ d.stamp \in 0..MaxStamp
      BY <2>1, DatumFields DEF Ages, Stamps
    <2>3. /\ Older(d).built = d.built /\ Older(d).src = d.src
          /\ Older(d).age = Inc(d.age, MaxAge)
          /\ Older(d).stamp = Inc(d.stamp, MaxStamp)
      BY <1>2, OlderFacts
    <2>4. /\ Inc(d.age, MaxAge) \in Nat
          /\ Inc(d.age, MaxAge) <= d.age + 1
          /\ Inc(d.stamp, MaxStamp) < MaxStamp =>
                /\ Inc(d.stamp, MaxStamp) = d.stamp + 1
                /\ d.stamp < MaxStamp
      BY <2>2, Constants DEF Inc
    <2>5. ASSUME d.src = "real", Inc(d.stamp, MaxStamp) < MaxStamp,
                 NEW b \in Nat, d.age <= SourceStale + d.stamp + b
          PROVE  Inc(d.age, MaxAge) <= SourceStale + Inc(d.stamp, MaxStamp) + b
      BY <2>2, <2>4, <2>5, Constants
    <2>6. (IF d.built THEN BridgeStale ELSE 0) \in Nat
      BY Constants
    <2>7. SUFFICES ASSUME d.src = "real", Inc(d.stamp, MaxStamp) < MaxStamp
                   PROVE  Inc(d.age, MaxAge) <= SourceStale + Inc(d.stamp, MaxStamp)
                                                  + (IF d.built THEN BridgeStale ELSE 0)
      BY <2>3 DEF AgeOK
    <2>8. d.age <= SourceStale + d.stamp + (IF d.built THEN BridgeStale ELSE 0)
      BY <1>2, <2>4, <2>7 DEF AgeOK
    <2>9. QED  BY <2>5, <2>6, <2>7, <2>8
  <1>3. QED  BY <1>1, <1>2

\* The initial copies are empty.
LEMMA InitAge ==
    ASSUME Init
    PROVE  AgeInv
  BY AgeOfNothing DEF Init, AgeInv

\* The poller publishes only what is within its window.
LEMMA PollerAge ==
    ASSUME TypeOK, AgeInv, Poller \/ (\E v \in Vals : Receive(v))
    PROVE  AgeInv'
  <1>1. CASE \E v \in Vals : Receive(v)
    BY <1>1 DEF AgeInv, AgeOK, Receive, orchVars, sendVars
  <1>2. CASE EndRound
    <2>1. /\ UNCHANGED <<sourceAge, bmsQueue, packet, inverterQueue, latest, chosen>>
          /\ pollPc = "poll"
      BY <1>2 DEF EndRound, orchVars, sendVars
    <2>2. CASE ~SourceIsFresh
      <3>1. model' = NoData /\ pollPc' = "poll"
        BY <1>2, <2>2 DEF EndRound
      <3>2. QED  BY <2>1, <3>1 DEF AgeInv, AgeOK
    <2>3. CASE SourceIsFresh
      <3>1. model' = [built |-> FALSE, src |-> "real", val |-> sourceVal,
                      age |-> sourceAge, stamp |-> 0]
        BY <1>2, <2>3 DEF EndRound
      <3>2. sourceVal \in Vals /\ sourceAge \in Ages /\ sourceAge <= SourceStale
        BY <2>3 DEF TypeOK, PollType, SourceIsFresh
      <3>3. /\ ~model'.built /\ model'.src = "real"
            /\ model'.age = sourceAge /\ model'.stamp = 0
        BY <3>1, <3>2, Constants, RealDatum
      <3>4. AgeOK(model)'
        BY <3>2, <3>3, Constants DEF AgeOK, Ages
      <3>5. QED  BY <2>1, <3>2, <3>3, <3>4 DEF AgeInv, AgeOK
    <2>4. QED  BY <2>2, <2>3
  <1>3. CASE QueuePacket
    <2>1. /\ UNCHANGED <<model, sourceAge, packet, inverterQueue, latest, chosen>>
          /\ pollPc = "queue" /\ pollPc' = "poll"
      BY <1>3 DEF QueuePacket, orchVars, sendVars
    <2>2. /\ sourceAge <= SourceStale /\ sourceAge \in Nat
      BY <2>1, Constants DEF AgeInv, TypeOK, PollType, Ages
    <2>3. /\ bmsQueue'.age = sourceAge /\ ~bmsQueue'.built /\ bmsQueue'.stamp \in Nat
      BY <1>3, QueuePacketFacts, DatumFields, Constants DEF Stamps
    <2>4. AgeOK(bmsQueue)'
      BY <2>2, <2>3, Constants DEF AgeOK
    <2>5. QED  BY <2>1, <2>4 DEF AgeInv, AgeOK
  <1>4. QED  BY <1>1, <1>2, <1>3 DEF Poller

\* Forwarding copies a packet or builds one.
LEMMA OrchestratorAge ==
    ASSUME TypeOK, AgeInv, OrchestratorTask
    PROVE  AgeInv'
  <1>1. UNCHANGED <<model, pollPc, sourceAge, latest, chosen>>
    BY DEF OrchestratorTask, OrchReceive, OrchBuild, OrchForward, pollVars, sendVars
  <1>2. CASE OrchReceive
    <2>1. packet' = bmsQueue /\ bmsQueue' = NoData /\ inverterQueue' = inverterQueue
      BY <1>2 DEF OrchReceive
    <2>2. QED  BY <1>1, <2>1 DEF AgeInv, AgeOK
  <1>3. CASE OrchBuild
    <2>1. UNCHANGED <<bmsQueue, inverterQueue>>
      BY <1>3 DEF OrchBuild
    <2>2. AgeOK(packet)'
      <3>1. CASE packet' = packet
        BY <3>1 DEF AgeInv, AgeOK
      <3>2. CASE /\ BatteryModelGet(BridgeStale) \in Datum
                 /\ packet' = Built(BatteryModelGet(BridgeStale))
        <4>1. AgeOK(Built(BatteryModelGet(BridgeStale)))
          BY <3>2, AgeOfBuilt
        <4>2. QED  BY <3>2, <4>1 DEF AgeOK
      <3>3. QED  BY <1>3, <3>1, <3>2, OrchBuildFacts
    <2>3. QED  BY <1>1, <2>1, <2>2 DEF AgeInv, AgeOK
  <1>4. CASE OrchForward
    <2>1. packet' = NoData /\ inverterQueue' \in {packet, inverterQueue} /\ bmsQueue' = bmsQueue
      BY <1>4 DEF OrchForward
    <2>2. QED  BY <1>1, <2>1 DEF AgeInv, AgeOK
  <1>5. QED  BY <1>2, <1>3, <1>4 DEF OrchestratorTask

\* The sender takes what is in its window.
LEMMA SenderAge ==
    ASSUME TypeOK, AgeInv, SenderTask
    PROVE  AgeInv'
  <1>1. UNCHANGED <<model, pollPc, sourceAge, bmsQueue, packet>>
    BY DEF SenderTask, SendReceive, SendRead, SendOverride, SendBuild, Send, Read322,
           Send322, pollVars, orchVars
  <1>2. CASE SendReceive
    <2>1. latest' \in {latest, inverterQueue} /\ inverterQueue' = NoData /\ chosen' = chosen
      BY <1>2 DEF SendReceive
    <2>2. QED  BY <1>1, <2>1 DEF AgeInv, AgeOK
  <1>3. CASE SendRead
    <2>1. chosen' = Selected /\ latest' \in {latest, NoData} /\ inverterQueue' = inverterQueue
      BY <1>3 DEF SendRead, ForgetPacket
    <2>2. AgeOK(chosen)' /\ (chosen' # NoData => chosen'.stamp <= SenderStale)
      BY <2>1, AgeOfSelected DEF AgeOK
    <2>3. QED  BY <1>1, <2>1, <2>2 DEF AgeInv, AgeOK
  <1>4. CASE SendOverride
    <2>1. chosen' \in {chosen, NoData} /\ latest' \in {latest, NoData}
          /\ inverterQueue' = inverterQueue
      BY <1>4 DEF SendOverride, EndCycle, ForgetPacket
    <2>2. QED  BY <1>1, <2>1 DEF AgeInv, AgeOK
  <1>5. CASE SendBuild \/ Read322
    <2> DEFINE m == BatteryModelGet(BridgeStale)
    <2>1. inverterQueue' = inverterQueue
      BY <1>5 DEF SendBuild, Read322
    <2>2. \/ /\ m \in Datum
             /\ chosen' = Built(m) /\ latest' \in {latest, Built(m)}
          \/ chosen' = NoData /\ latest' = latest
      <3>1. CASE SendBuild
        BY <3>1, SendBuildFacts
      <3>2. CASE Read322
        <4>1. latest' = latest  BY <3>2 DEF Read322
        <4>2. QED  BY <3>2, <4>1, Read322Facts
      <3>3. QED  BY <1>5, <3>1, <3>2
    <2>3. CASE chosen' = NoData /\ latest' = latest
      BY <1>1, <2>1, <2>3 DEF AgeInv, AgeOK
    <2>4. CASE m \in Datum /\ chosen' = Built(m) /\ latest' \in {latest, Built(m)}
      <3>1. AgeOK(Built(m)) /\ Built(m).stamp = 0
        BY <2>4, AgeOfBuilt, BuiltFacts
      <3>2. AgeOK(chosen)' /\ AgeOK(latest)' /\ chosen'.stamp <= SenderStale
        BY <2>4, <3>1, Constants DEF AgeInv, AgeOK
      <3>3. QED  BY <1>1, <2>1, <3>2 DEF AgeInv, AgeOK
    <2>5. QED  BY <2>2, <2>3, <2>4
  <1>6. CASE Send \/ Send322
    <2>1. chosen' = NoData /\ latest' = latest /\ inverterQueue' = inverterQueue
      BY <1>6 DEF Send, Send322, EndCycle
    <2>2. QED  BY <1>1, <2>1 DEF AgeInv, AgeOK
  <1>7. QED  BY <1>2, <1>3, <1>4, <1>5, <1>6 DEF SenderTask

\* Time passes for data and time stamps alike.
LEMMA TickAge ==
    ASSUME TypeOK, AgeInv, Tick
    PROVE  AgeInv'
  <1>1. UNCHANGED <<pollPc, bmsQueue, packet, inverterQueue, chosen>> /\ pollPc = "poll"
    BY DEF Tick, Settled
  <1>2. model' = Older(model) /\ latest' = Older(latest)
    BY TickFacts
  <1>3. model \in MaybeDatum /\ latest \in MaybeDatum
    BY DEF TypeOK, SendType
  <1>4. AgeOK(Older(model)) /\ AgeOK(Older(latest))
    BY <1>3, AgeOfOlder DEF AgeInv
  <1>5. AgeOK(model)' /\ AgeOK(latest)'
    BY <1>2, <1>4 DEF AgeOK
  <1>6. model' # NoData => ~model'.built /\ model'.src = "real"
    BY <1>2, <1>3, OlderFacts DEF AgeInv
  <1>7. QED  BY <1>1, <1>5, <1>6 DEF AgeInv, AgeOK

\* Every step keeps the ages within their bounds.
LEMMA NextAge ==
    ASSUME TypeOK, AgeInv, [Next]_vars
    PROVE  AgeInv'
  <1>1. CASE Poller \/ (\E v \in Vals : Receive(v))
    BY <1>1, PollerAge
  <1>2. CASE OrchestratorTask
    BY <1>2, OrchestratorAge
  <1>3. CASE SenderTask
    BY <1>3, SenderAge
  <1>4. CASE Tick
    BY <1>4, TickAge
  <1>5. CASE (\E v \in Vals : SetDebugOverride(v)) \/ SetDebugOverrideEnabled \/ UNCHANGED vars
    <2>1. UNCHANGED <<model, pollPc, sourceAge, bmsQueue, packet, inverterQueue, latest, chosen>>
      BY <1>5 DEF SetDebugOverride, SetDebugOverrideEnabled, vars, pollVars, orchVars, sendVars
    <2>2. QED  BY <2>1 DEF AgeInv, AgeOK
  <1>6. QED
    BY <1>1, <1>2, <1>3, <1>4, <1>5 DEF Next

\* What is sent is no older than the poller's and the sender's window, and
\* BridgeStale for a packet built from the model.
THEOREM SentAge == Spec => []SentAgeBounded
  <1>1. Init => TypeOK /\ AgeInv
    BY InitType, InitAge
  <1>2. TypeOK /\ AgeInv /\ [Next]_vars => (TypeOK /\ AgeInv)'
    BY NextType, NextAge
  <1>3. TypeOK /\ AgeInv => SentAgeBounded
    <2> SUFFICES ASSUME TypeOK, AgeInv, Sending, chosen.src = "real"
                 PROVE  chosen.age <= SourceStale + SenderStale
                                        + (IF chosen.built THEN BridgeStale ELSE 0)
      BY DEF SentAgeBounded
    <2>1. chosen # NoData /\ chosen \in Datum
      BY DEF TypeOK, SendType, Sending, MaybeDatum
    <2>2. chosen.stamp <= SenderStale /\ chosen.stamp \in Nat /\ chosen.age \in Nat
      BY <2>1, DatumFields, Constants DEF AgeInv, Ages, Stamps
    <2>3. chosen.age <= SourceStale + chosen.stamp + (IF chosen.built THEN BridgeStale ELSE 0)
      BY <2>1, <2>2, TimeAssumption, Constants DEF AgeInv, AgeOK
    <2>4. (IF chosen.built THEN BridgeStale ELSE 0) \in Nat
      BY Constants
    <2>5. ASSUME NEW b \in Nat, chosen.age <= SourceStale + chosen.stamp + b
          PROVE  chosen.age <= SourceStale + SenderStale + b
      BY <2>2, <2>5, Constants
    <2>6. QED  BY <2>3, <2>4, <2>5
  <1>4. QED  BY <1>1, <1>2, <1>3, PTL DEF Spec

-----------------------------------------------------------------------------
(* How long fake data outlive the override.                                *)

\* A packet built from fake data is built while the override is on.
LEMMA FakeOfBuilt ==
    ASSUME TypeOK, AgeInv, BatteryModelGet(BridgeStale) \in Datum
    PROVE  FakeOK(Built(BatteryModelGet(BridgeStale)))
  <1> DEFINE m == BatteryModelGet(BridgeStale)
  <1>1. m # NoData
    BY NoDataAssumption
  <1>2. CASE enabled
    BY <1>2 DEF FakeOK
  <1>3. CASE ~enabled
    <2>1. m = model /\ m # NoData
      BY <1>1, <1>3, GetFacts, Constants
    <2>2. m.src = "real"
      BY <2>1 DEF AgeInv
    <2>3. QED  BY <2>2, BuiltFacts DEF FakeOK
  <1>4. QED  BY <1>2, <1>3

\* So is what the sender chooses, unless it is the packet.
LEMMA FakeOfSelected ==
    ASSUME TypeOK, AgeInv, FakeInv
    PROVE  FakeOK(Selected)
  <1>1. CASE enabled \/ Selected = NoData \/ Selected = latest
    BY <1>1 DEF FakeOK, FakeInv
  <1>2. CASE ~enabled /\ Selected # NoData /\ Selected = BatteryModelGet(SenderStale)
    <2>1. Selected = model
      BY <1>2, GetFacts, Constants
    <2>2. QED  BY <1>2, <2>1 DEF AgeInv, FakeOK
  <1>3. QED  BY <1>1, <1>2, SelectedFacts

\* The initial copies are empty.
LEMMA InitFake ==
    ASSUME Init
    PROVE  FakeInv
  BY DEF Init, FakeInv, FakeOK

\* The poller knows no fake data.
LEMMA PollerFake ==
    ASSUME TypeOK, FakeInv, Poller \/ (\E v \in Vals : Receive(v))
    PROVE  FakeInv'
  <1>1. UNCHANGED <<enabled, toggleAge, packet, inverterQueue, latest, chosen>>
    BY DEF Poller, Receive, EndRound, QueuePacket, orchVars, sendVars, webVars
  <1>2. bmsQueue' = bmsQueue \/ bmsQueue'.src = "real"
    <2>1. CASE QueuePacket
      BY <2>1, QueuePacketFacts
    <2>2. CASE ~QueuePacket
      BY <2>2 DEF Poller, Receive, EndRound
    <2>3. QED  BY <2>1, <2>2
  <1>3. QED  BY <1>1, <1>2 DEF FakeInv, FakeOK

\* Forwarding copies a packet or builds one.
LEMMA OrchestratorFake ==
    ASSUME TypeOK, AgeInv, FakeInv, OrchestratorTask
    PROVE  FakeInv'
  <1>1. UNCHANGED <<enabled, toggleAge, latest, chosen>>
    BY DEF OrchestratorTask, OrchReceive, OrchBuild, OrchForward, sendVars, webVars
  <1>2. CASE OrchReceive
    <2>1. packet' = bmsQueue /\ bmsQueue' = NoData /\ inverterQueue' = inverterQueue
          /\ bmsQueue # NoData
      BY <1>2 DEF OrchReceive
    <2>2. QED  BY <1>1, <2>1 DEF FakeInv, FakeOK
  <1>3. CASE OrchBuild
    <2>1. UNCHANGED <<bmsQueue, inverterQueue>>
      BY <1>3 DEF OrchBuild
    <2>2. FakeOK(packet)'
      <3>1. CASE packet' = packet
        BY <1>1, <3>1 DEF FakeInv, FakeOK
      <3>2. CASE /\ BatteryModelGet(BridgeStale) \in Datum
                 /\ packet' = Built(BatteryModelGet(BridgeStale))
        <4>1. FakeOK(Built(BatteryModelGet(BridgeStale)))
          BY <3>2, FakeOfBuilt
        <4>2. QED  BY <1>1, <3>2, <4>1 DEF FakeOK
      <3>3. QED  BY <1>3, <3>1, <3>2, OrchBuildFacts
    <2>3. QED  BY <1>1, <2>1, <2>2 DEF FakeInv, FakeOK
  <1>4. CASE OrchForward
    <2>1. packet' = NoData /\ inverterQueue' \in {packet, inverterQueue} /\ bmsQueue' = bmsQueue
      BY <1>4 DEF OrchForward
    <2>2. QED  BY <1>1, <2>1 DEF FakeInv, FakeOK
  <1>5. QED  BY <1>2, <1>3, <1>4 DEF OrchestratorTask

\* The sender copies, builds or forgets.
LEMMA SenderFake ==
    ASSUME TypeOK, AgeInv, FakeInv, SenderTask
    PROVE  FakeInv'
  <1>1. UNCHANGED <<enabled, toggleAge, bmsQueue, packet>>
    BY DEF SenderTask, SendReceive, SendRead, SendOverride, SendBuild, Send, Read322,
           Send322, orchVars, webVars
  <1>2. CASE SendReceive
    <2>1. latest' \in {latest, inverterQueue} /\ inverterQueue' = NoData /\ chosen' = chosen
      BY <1>2 DEF SendReceive
    <2>2. QED  BY <1>1, <2>1 DEF FakeInv, FakeOK
  <1>3. CASE SendRead
    <2>1. chosen' = Selected /\ latest' \in {latest, NoData} /\ inverterQueue' = inverterQueue
      BY <1>3 DEF SendRead, ForgetPacket
    <2>2. FakeOK(chosen)'
      BY <1>1, <2>1, FakeOfSelected DEF FakeOK
    <2>3. QED  BY <1>1, <2>1, <2>2 DEF FakeInv, FakeOK
  <1>4. CASE SendOverride
    <2>1. chosen' \in {chosen, NoData} /\ latest' \in {latest, NoData}
          /\ inverterQueue' = inverterQueue
      BY <1>4 DEF SendOverride, EndCycle, ForgetPacket
    <2>2. QED  BY <1>1, <2>1 DEF FakeInv, FakeOK
  <1>5. CASE SendBuild \/ Read322
    <2> DEFINE m == BatteryModelGet(BridgeStale)
    <2>1. inverterQueue' = inverterQueue
      BY <1>5 DEF SendBuild, Read322
    <2>2. \/ /\ m \in Datum
             /\ chosen' = Built(m) /\ latest' \in {latest, Built(m)}
          \/ chosen' = NoData /\ latest' = latest
      <3>1. CASE SendBuild
        BY <3>1, SendBuildFacts
      <3>2. CASE Read322
        <4>1. latest' = latest  BY <3>2 DEF Read322
        <4>2. QED  BY <3>2, <4>1, Read322Facts
      <3>3. QED  BY <1>5, <3>1, <3>2
    <2>3. CASE chosen' = NoData /\ latest' = latest
      BY <1>1, <2>1, <2>3 DEF FakeInv, FakeOK
    <2>4. CASE m \in Datum /\ chosen' = Built(m) /\ latest' \in {latest, Built(m)}
      <3>1. FakeOK(Built(m))
        BY <2>4, FakeOfBuilt
      <3>2. FakeOK(chosen)' /\ FakeOK(latest)'
        BY <1>1, <2>4, <3>1 DEF FakeInv, FakeOK
      <3>3. QED  BY <1>1, <2>1, <3>2 DEF FakeInv, FakeOK
    <2>5. QED  BY <2>2, <2>3, <2>4
  <1>6. CASE Send \/ Send322
    <2>1. chosen' = NoData /\ latest' = latest /\ inverterQueue' = inverterQueue
      BY <1>6 DEF Send, Send322, EndCycle
    <2>2. QED  BY <1>1, <2>1 DEF FakeInv, FakeOK
  <1>7. QED  BY <1>2, <1>3, <1>4, <1>5, <1>6 DEF SenderTask

\* The clock of the override starts again when it is switched off.
LEMMA PostFake ==
    ASSUME TypeOK, FakeInv,
           (\E v \in Vals : SetDebugOverride(v)) \/ SetDebugOverrideEnabled
    PROVE  FakeInv'
  <1>1. UNCHANGED <<bmsQueue, packet, inverterQueue, latest, chosen>>
    BY DEF SetDebugOverride, SetDebugOverrideEnabled, orchVars, sendVars
  <1>2. \/ UNCHANGED <<enabled, toggleAge>>
        \/ toggleAge' = 0
    BY DEF SetDebugOverride, SetDebugOverrideEnabled
  <1>3. CASE UNCHANGED <<enabled, toggleAge>>
    BY <1>1, <1>3 DEF FakeInv, FakeOK
  <1>4. CASE toggleAge' = 0
    <2>1. \A d \in MaybeDatum : d # NoData => 0 <= d.stamp
      <3>1. \A d \in Datum : d.stamp \in Nat
        BY DatumFields, Constants DEF Stamps
      <3>2. QED  BY <3>1 DEF MaybeDatum
    <2>2. /\ packet \in MaybeDatum /\ inverterQueue \in MaybeDatum
          /\ latest \in MaybeDatum /\ chosen \in MaybeDatum
      BY DEF TypeOK, OrchType, SendType
    <2>3. QED  BY <1>1, <1>4, <2>1, <2>2 DEF FakeInv, FakeOK
  <1>5. QED  BY <1>2, <1>3, <1>4

\* The clock of the override and the time stamps tick together.
LEMMA TickFake ==
    ASSUME TypeOK, FakeInv, Tick
    PROVE  FakeInv'
  <1>1. /\ bmsQueue' = NoData /\ packet' = packet /\ inverterQueue' = NoData
        /\ chosen' = NoData /\ enabled' = enabled
    BY DEF Tick, Settled, TypeOK, SendType
  <1>2. latest' = Older(latest) /\ toggleAge' = Inc(toggleAge, MaxStamp)
    BY TickFacts
  <1>3. latest \in MaybeDatum /\ toggleAge \in 0..MaxStamp
    BY DEF TypeOK, SendType, WebType, Stamps
  <1>4. FakeOK(latest)'
    <2> SUFFICES ASSUME latest # NoData, latest.src = "fake", ~enabled
                 PROVE  Inc(toggleAge, MaxStamp) <= Older(latest).stamp
      BY <1>1, <1>2, <1>3, OlderFacts DEF FakeOK
    <2>1. latest.stamp \in 0..MaxStamp
      BY <1>3, DatumFields DEF MaybeDatum, Stamps
    <2>2. toggleAge <= latest.stamp
      BY DEF FakeInv, FakeOK
    <2>3. Older(latest).stamp = Inc(latest.stamp, MaxStamp)
      BY <1>3, OlderFacts
    <2>4. QED  BY <1>3, <2>1, <2>2, <2>3, IncFacts, Constants
  <1>5. packet = NoData
    BY DEF Tick, Settled, TypeOK, OrchType
  <1>6. QED  BY <1>1, <1>4, <1>5 DEF FakeInv, FakeOK

\* Every step keeps fake data within their bound.
LEMMA NextFake ==
    ASSUME TypeOK, AgeInv, FakeInv, [Next]_vars
    PROVE  FakeInv'
  <1>1. CASE Poller \/ (\E v \in Vals : Receive(v))
    BY <1>1, PollerFake
  <1>2. CASE OrchestratorTask
    BY <1>2, OrchestratorFake
  <1>3. CASE SenderTask
    BY <1>3, SenderFake
  <1>4. CASE (\E v \in Vals : SetDebugOverride(v)) \/ SetDebugOverrideEnabled
    BY <1>4, PostFake
  <1>5. CASE Tick
    BY <1>5, TickFake
  <1>6. CASE UNCHANGED vars
    BY <1>6 DEF FakeInv, FakeOK, vars, orchVars, sendVars, webVars
  <1>7. QED
    BY <1>1, <1>2, <1>3, <1>4, <1>5, <1>6 DEF Next

\* Fake data are sent for one sender window at most after the override is
\* switched off, wherever a copy of them was.
THEOREM FakeData == Spec => []FakeStops
  <1>1. Init => TypeOK /\ AgeInv /\ FakeInv
    BY InitType, InitAge, InitFake
  <1>2. TypeOK /\ AgeInv /\ FakeInv /\ [Next]_vars => (TypeOK /\ AgeInv /\ FakeInv)'
    BY NextType, NextAge, NextFake
  <1>3. TypeOK /\ AgeInv /\ FakeInv => FakeStops
    <2> SUFFICES ASSUME TypeOK, AgeInv, FakeInv, Sending, chosen.src = "fake", ~enabled
                 PROVE  toggleAge <= SenderStale
      BY DEF FakeStops
    <2>1. chosen # NoData /\ chosen \in Datum
      BY DEF TypeOK, SendType, Sending, MaybeDatum
    <2>2. toggleAge <= chosen.stamp
      BY <2>1 DEF FakeInv, FakeOK
    <2>3. chosen.stamp <= SenderStale
      BY <2>1 DEF AgeInv
    <2>4. toggleAge \in Nat /\ chosen.stamp \in Nat
      BY <2>1, DatumFields, Constants DEF TypeOK, WebType, Stamps
    <2>5. QED  BY <2>2, <2>3, <2>4, Constants
  <1>4. QED  BY <1>1, <1>2, <1>3, PTL DEF Spec

-----------------------------------------------------------------------------
(* The override hides real data.                                           *)

\* What is about to be sent is fake from the first tick of the override on.
OverrideInv == enabled /\ toggleAge > 0 /\ chosen # NoData => chosen.src = "fake"

\* Every read of the model while the override is on returns fake data, and
\* no task is between a read and its use when a tick passes.
LEMMA NextOverride ==
    ASSUME TypeOK, OverrideInv, [Next]_vars
    PROVE  OverrideInv'
  <1>1. CASE Poller \/ OrchestratorTask \/ (\E v \in Vals : Receive(v)) \/ UNCHANGED vars
    <2>1. UNCHANGED <<enabled, toggleAge, chosen>>
      BY <1>1 DEF Poller, Receive, EndRound, QueuePacket, OrchestratorTask, OrchReceive,
                  OrchBuild, OrchForward, vars, sendVars, webVars
    <2>2. QED  BY <2>1 DEF OverrideInv
  <1>2. CASE SenderTask
    <2>1. UNCHANGED <<enabled, toggleAge>>
      BY <1>2 DEF SenderTask, SendReceive, SendRead, SendOverride, SendBuild, Send, Read322,
                  Send322, webVars
    <2>2. enabled => chosen' \in {chosen, NoData} \/ chosen'.src = "fake"
      <3>1. CASE SendReceive \/ SendOverride \/ Send \/ Send322
        BY <3>1 DEF SendReceive, SendOverride, Send, Send322, EndCycle
      <3>2. CASE SendRead
        <4>1. chosen' = Selected  BY <3>2 DEF SendRead
        <4>2. enabled => Selected.src = "fake"
          BY SelectedFacts, GetFacts, Constants
        <4>3. QED  BY <4>1, <4>2
      <3>3. CASE SendBuild \/ Read322
        <4> DEFINE m == BatteryModelGet(BridgeStale)
        <4>1. \/ m \in Datum /\ chosen' = Built(m)
              \/ chosen' = NoData
          BY <3>3, SendBuildFacts, Read322Facts
        <4>2. enabled => m.src = "fake"
          BY GetFacts, Constants
        <4>3. m \in Datum => Built(m).src = m.src
          BY BuiltFacts
        <4>4. QED  BY <4>1, <4>2, <4>3
      <3>4. QED  BY <1>2, <3>1, <3>2, <3>3 DEF SenderTask
    <2>3. QED  BY <2>1, <2>2 DEF OverrideInv
  <1>3. CASE (\E v \in Vals : SetDebugOverride(v)) \/ SetDebugOverrideEnabled
    <2>1. chosen' = chosen
      BY <1>3 DEF SetDebugOverride, SetDebugOverrideEnabled, sendVars
    <2>2. UNCHANGED <<enabled, toggleAge>> \/ toggleAge' = 0
      BY <1>3 DEF SetDebugOverride, SetDebugOverrideEnabled
    <2>3. CASE UNCHANGED <<enabled, toggleAge>>
      BY <2>1, <2>3 DEF OverrideInv
    <2>4. CASE toggleAge' = 0
      <3>1. ~(toggleAge' > 0)  BY <2>4
      <3>2. QED  BY <3>1 DEF OverrideInv
    <2>5. QED  BY <2>2, <2>3, <2>4
  <1>4. CASE Tick
    <2>1. chosen' = NoData
      BY <1>4 DEF Tick, Settled, TypeOK, SendType
    <2>2. QED  BY <2>1 DEF OverrideInv
  <1>5. QED  BY <1>1, <1>2, <1>3, <1>4 DEF Next

\* One tick after the override is switched on nothing real is sent.
THEOREM OverrideHides == Spec => []OverrideWins
  <1>1. Init => TypeOK /\ OverrideInv
    BY InitType DEF Init, OverrideInv
  <1>2. TypeOK /\ OverrideInv /\ [Next]_vars => (TypeOK /\ OverrideInv)'
    BY NextType, NextOverride
  <1>3. TypeOK /\ OverrideInv => OverrideWins
    BY DEF TypeOK, SendType, OverrideInv, OverrideWins, Sending
  <1>4. QED  BY <1>1, <1>2, <1>3, PTL DEF Spec

-----------------------------------------------------------------------------
(* The last published values reach the sender.                             *)

\* Nothing was published yet.
LEMMA InitChange == Init => ChangeInv
  BY DEF Init, ChangeInv, Published

\* A measurement replaces the cache, not what was published.
LEMMA ReceiveChange ==
    ASSUME ChangeInv, NEW v \in Vals, Receive(v)
    PROVE  ChangeInv'
  <1>1. pollPc = "poll" /\ UNCHANGED <<pollPc, model, bmsQueue, orchPc, packet, lastForwarded,
                                       inverterQueue, latest>>
    BY DEF Receive, orchVars, sendVars
  <1>2. QED  BY <1>1 DEF ChangeInv, Published, SameContent

\* The model and the BMS queue take the values of one round.
LEMMA PollerChange ==
    ASSUME TypeOK, ChangeInv, Poller
    PROVE  ChangeInv'
  <1>1. UNCHANGED <<orchPc, packet, lastForwarded, inverterQueue, latest>>
    BY DEF Poller, EndRound, QueuePacket, orchVars, sendVars
  <1>2. CASE EndRound
    <2>1. \/ model' = NoData /\ pollPc' = "poll"
          \/ /\ model' = [built |-> FALSE, src |-> "real", val |-> sourceVal,
                          age |-> sourceAge, stamp |-> 0]
             /\ sourceVal \in Vals /\ sourceAge \in Ages
             /\ sourceVal' = sourceVal /\ pollPc' = "queue"
      BY <1>2 DEF EndRound, SourceIsFresh, TypeOK, PollType
    <2>2. \/ model' = NoData /\ pollPc' = "poll"
          \/ model' # NoData /\ model'.val = sourceVal' /\ pollPc' = "queue"
      <3>1. CASE model' = NoData /\ pollPc' = "poll"
        BY <3>1
      <3>2. CASE /\ model' = [built |-> FALSE, src |-> "real", val |-> sourceVal,
                              age |-> sourceAge, stamp |-> 0]
                 /\ sourceVal \in Vals /\ sourceAge \in Ages
                 /\ sourceVal' = sourceVal /\ pollPc' = "queue"
        <4>1. 0 \in Stamps  BY Constants
        <4>2. model' \in Datum /\ model'.val = sourceVal
          BY <3>2, <4>1, RealDatum
        <4>3. QED  BY <3>2, <4>2, NoDataAssumption
      <3>3. QED  BY <2>1, <3>1, <3>2
    <2>3. QED  BY <1>1, <2>2 DEF ChangeInv, Published, SameContent
  <1>3. CASE QueuePacket
    <2>1. /\ pollPc = "queue" /\ pollPc' = "poll" /\ model' = model
          /\ bmsQueue' # NoData /\ bmsQueue'.val = sourceVal
      BY <1>3, QueuePacketFacts, NoDataAssumption DEF QueuePacket
    <2>2. QED  BY <1>1, <2>1 DEF ChangeInv, Published, SameContent
  <1>4. QED  BY <1>2, <1>3 DEF Poller

\* The packet carries the values on; what is not forwarded is not new.
LEMMA OrchestratorChange ==
    ASSUME TypeOK, ChangeInv, OrchestratorTask
    PROVE  ChangeInv'
  <1>1. UNCHANGED <<pollPc, sourceVal, model, latest>>
    BY DEF OrchestratorTask, OrchReceive, OrchBuild, OrchForward, pollVars, sendVars
  <1>2. CASE OrchReceive
    <2>1. /\ packet' = bmsQueue /\ bmsQueue # NoData /\ bmsQueue' = NoData /\ orchPc' # "wait"
          /\ UNCHANGED <<lastForwarded, inverterQueue>>
      BY <1>2 DEF OrchReceive
    <2>2. QED  BY <1>1, <2>1 DEF ChangeInv, Published, SameContent
  <1>3. CASE OrchBuild
    <2>1. /\ orchPc # "wait" /\ orchPc' # "wait"
          /\ UNCHANGED <<bmsQueue, lastForwarded, inverterQueue>>
      BY <1>3 DEF OrchBuild
    <2>2. packet' = packet \/ packet'.built
      BY <1>3, OrchBuildFacts, BuiltFacts
    <2>3. QED  BY <1>1, <2>1, <2>2 DEF ChangeInv, Published, SameContent
  <1>4. CASE OrchForward
    <2>1. packet # NoData /\ orchPc # "wait" /\ orchPc' = "wait" /\ bmsQueue' = bmsQueue
      BY <1>4 DEF OrchForward, TypeOK, OrchType
    <2>2. CASE inverterQueue' = packet
               /\ lastForwarded' = [built |-> packet.built, val |-> packet.val]
      <3>1. /\ lastForwarded' # NoData
            /\ lastForwarded'.built = packet.built /\ lastForwarded'.val = packet.val
        <4>1. packet \in Datum
          BY <2>1 DEF TypeOK, OrchType, MaybeDatum
        <4>2. lastForwarded' \in Content
          BY <2>2, <4>1, DatumFields DEF Content
        <4>3. lastForwarded' # NoData
          BY <4>2, NoDataAssumption
        <4>4. QED  BY <2>2, <4>3
      <3>2. QED  BY <1>1, <2>1, <2>2, <3>1 DEF ChangeInv, Published, SameContent
    <2>3. CASE /\ UNCHANGED <<inverterQueue, lastForwarded>>
               /\ lastForwarded # NoData /\ PacketEquivalent(lastForwarded, packet)
      BY <1>1, <2>1, <2>3 DEF ChangeInv, Published, SameContent, PacketEquivalent
    <2>4. QED  BY <1>4, <2>2, <2>3 DEF OrchForward
  <1>5. QED  BY <1>2, <1>3, <1>4 DEF OrchestratorTask

\* The sender takes the packet over, builds one of its own or forgets it.
LEMMA SenderChange ==
    ASSUME TypeOK, ChangeInv, SenderTask
    PROVE  ChangeInv'
  <1>1. UNCHANGED <<pollPc, sourceVal, model, bmsQueue, orchPc, packet, lastForwarded>>
    BY DEF SenderTask, SendReceive, SendRead, SendOverride, SendBuild, Send, Read322,
           Send322, pollVars, orchVars
  <1>2. CASE SendReceive
    <2>1. /\ inverterQueue' = NoData
          /\ latest' = IF inverterQueue # NoData THEN inverterQueue ELSE latest
      BY <1>2 DEF SendReceive
    <2>2. QED  BY <1>1, <2>1 DEF ChangeInv, Published, SameContent
  <1>3. CASE ~SendReceive
    <2>1. inverterQueue' = inverterQueue
      BY <1>3 DEF SenderTask, SendRead, SendOverride, SendBuild, Send, Read322, Send322
    <2>2. latest' \in {latest, NoData} \/ latest'.built
      <3>1. CASE SendBuild
        BY <3>1, SendBuildFacts, BuiltFacts DEF SendBuild
      <3>2. CASE SendRead \/ SendOverride \/ Send \/ Read322 \/ Send322
        BY <3>2 DEF SendRead, SendOverride, Send, Read322, Send322, ForgetPacket
      <3>3. QED  BY <1>3, <3>1, <3>2 DEF SenderTask
    <2>3. QED  BY <1>1, <2>1, <2>2 DEF ChangeInv, Published, SameContent
  <1>4. QED  BY <1>2, <1>3

\* Time and the override do not move values.
LEMMA TickChange ==
    ASSUME TypeOK, ChangeInv, Tick
    PROVE  ChangeInv'
  <1>1. UNCHANGED <<pollPc, sourceVal, bmsQueue, orchPc, packet, lastForwarded, inverterQueue>>
    BY DEF Tick
  <1>2. /\ model' # NoData => model # NoData /\ model'.val = model.val
        /\ latest' # NoData => /\ latest # NoData /\ latest'.val = latest.val
                               /\ latest'.built = latest.built
        /\ model' = NoData => model = NoData
    BY TickFacts, OlderFacts DEF TypeOK, SendType
  <1>3. QED  BY <1>1, <1>2 DEF ChangeInv, Published, SameContent

\* Every step keeps the invariant.
LEMMA NextChange ==
    ASSUME TypeOK, ChangeInv, [Next]_vars
    PROVE  ChangeInv'
  <1>1. CASE \E v \in Vals : Receive(v)
    BY <1>1, ReceiveChange
  <1>2. CASE Poller \/ OrchestratorTask \/ SenderTask
    BY <1>2, PollerChange, OrchestratorChange, SenderChange
  <1>3. CASE Tick
    BY <1>3, TickChange
  <1>4. CASE (\E v \in Vals : SetDebugOverride(v)) \/ SetDebugOverrideEnabled \/ UNCHANGED vars
    <2>1. UNCHANGED <<pollPc, sourceVal, model, bmsQueue, orchPc, packet, lastForwarded,
                      inverterQueue, latest>>
      BY <1>4 DEF SetDebugOverride, SetDebugOverrideEnabled, vars, pollVars, orchVars, sendVars
    <2>2. QED  BY <2>1 DEF ChangeInv, Published, SameContent
  <1>5. QED  BY <1>1, <1>2, <1>3, <1>4 DEF Next

\* When all tasks wait, the packet the sender falls back to shows the values
\* last published.
THEOREM ChangesArrive == Spec => []NoChangeIsLost
  <1>1. Init => TypeOK /\ ChangeInv
    BY InitType, InitChange
  <1>2. TypeOK /\ ChangeInv /\ [Next]_vars => (TypeOK /\ ChangeInv)'
    BY NextType, NextChange
  <1>3. ChangeInv => NoChangeIsLost
    BY DEF ChangeInv, Published, SameContent, NoChangeIsLost, Settled
  <1>4. QED  BY <1>1, <1>2, <1>3, PTL DEF Spec
=============================================================================
