------------------------- MODULE WorkingModes_proofs -------------------------
(***************************************************************************)
(* For every set of frames and any number of posts: a mode that reports    *)
(* that it has started has the tasks it needs, at most one edited frame is *)
(* late, and the sniffer logs what was on its line.                        *)
(***************************************************************************)
EXTENDS MCWorkingModes, SequenceTheorems, TLAPS

\* The names of the tasks.
Tasks == {"fw_can1_to_2", "fw_rs1_to_2", "fw_can_snap", "fw_rs_snap", "snif_can1", "snif_can2",
          "snif_rs1", "snif_rs2", "snif_can_snap", "snif_can1_stat", "snif_can2_stat",
          "snif_rs1_snap", "snif_rs2_snap"}

\* Every task that must run does, or is still to be created.
ToBeWhole ==
    /\ mode \in {"forward", "sniffer"} /\ todo \in Seq(Tasks)
    /\ start = "running" => Range(Must(mode)) \subseteq tasks \cup Range(todo)
    /\ StartedIsWhole

\* The forwarder holds one frame, and an edited one only while none is late.
InHand ==
    /\ \A f, g \in hand : f = g
    /\ \A f \in hand : "told" \in DOMAIN f
    /\ late \in Nat
    /\ ~enabled /\ (\E f \in hand : f.stage = "edited" /\ f.told > 0) => late = 0
    /\ OneFrameIsLate

IInv == ToBeWhole /\ InHand

-----------------------------------------------------------------------------
LEMMA RangeOfHeadAndTail ==
    ASSUME NEW s \in Seq(Tasks), s # <<>>
    PROVE  Range(s) \subseteq {Head(s)} \cup Range(Tail(s)) /\ Tail(s) \in Seq(Tasks)
  <1>1. SUFFICES ASSUME NEW i \in 1..Len(s)
                 PROVE  s[i] = Head(s) \/ s[i] \in Range(Tail(s))
    BY DEF Range
  <1>2. CASE i = 1
    BY <1>2
  <1>3. CASE i > 1
    <2>1. i - 1 \in DOMAIN Tail(s) /\ Tail(s)[i - 1] = s[i]
      BY <1>3
    <2> QED BY <2>1 DEF Range
  <1> QED BY <1>2, <1>3

LEMMA RangeOfBoth ==
    ASSUME NEW s \in Seq(Tasks), NEW t \in Seq(Tasks)
    PROVE  Range(s) \subseteq Range(s \o t)
  <1>1. SUFFICES ASSUME NEW i \in 1..Len(s)
                 PROVE  s[i] \in Range(s \o t)
    BY DEF Range
  <1>2. i \in DOMAIN (s \o t) /\ (s \o t)[i] = s[i]
    OBVIOUS
  <1> QED BY <1>2 DEF Range

LEMMA SequencesOfTasks ==
    ASSUME NEW S, NEW a \in S, NEW b \in S, NEW c \in S, NEW d \in S, NEW e \in S
    PROVE  <<a, b>> \in Seq(S) /\ <<a, b, c, d>> \in Seq(S) /\ <<a, b, c, d, e>> \in Seq(S)
  OBVIOUS

LEMMA TasksAreNamed ==
    ASSUME NEW m
    PROVE  Must(m) \in Seq(Tasks) /\ May(m) \in Seq(Tasks)
  <1>1. /\ {"fw_can1_to_2", "fw_rs1_to_2", "fw_can_snap", "fw_rs_snap"} \subseteq Tasks
        /\ {"snif_can1", "snif_can2", "snif_rs1", "snif_rs2"} \subseteq Tasks
        /\ {"snif_can_snap", "snif_can1_stat", "snif_can2_stat", "snif_rs1_snap", "snif_rs2_snap"} \subseteq Tasks
    BY DEF Tasks
  <1>2. CASE m = "forward"
    BY <1>1, <1>2, SequencesOfTasks DEF Must, May
  <1>3. CASE m # "forward"
    BY <1>1, <1>3, SequencesOfTasks DEF Must, May
  <1> QED BY <1>2, <1>3

-----------------------------------------------------------------------------
LEMMA InitInv == Init => IInv
  <1> SUFFICES ASSUME Init
               PROVE  IInv
    OBVIOUS
  <1>1. todo = Must(mode) \o May(mode) /\ todo \in Seq(Tasks) /\ Range(Must(mode)) \subseteq Range(todo)
    BY TasksAreNamed, RangeOfBoth, ConcatProperties DEF Init
  <1>2. ToBeWhole
    BY <1>1, ModesAssumption DEF Init, ToBeWhole, StartedIsWhole
  <1>3. InHand
    BY DEF Init, InHand, OneFrameIsLate
  <1> QED BY <1>2, <1>3 DEF IInv

LEMMA BootInv ==
    ASSUME ToBeWhole, Created \/ NotCreated \/ Started
    PROVE  ToBeWhole'
  <1>1. CASE Created
    <2>1. Range(todo) \subseteq {Head(todo)} \cup Range(todo') /\ todo' \in Seq(Tasks)
      BY <1>1, RangeOfHeadAndTail DEF Created, ToBeWhole
    <2> QED BY <1>1, <2>1 DEF Created, ToBeWhole, StartedIsWhole
  <1>2. CASE NotCreated
    <2>1. Range(todo) \subseteq {Head(todo)} \cup Range(todo') /\ todo' \in Seq(Tasks)
      BY <1>2, RangeOfHeadAndTail DEF NotCreated, ToBeWhole
    <2> QED BY <1>2, <2>1 DEF NotCreated, ToBeWhole, StartedIsWhole
  <1>3. CASE Started
    <2>1. Range(todo) = {}
      BY <1>3 DEF Started, Range
    <2> QED BY <1>3, <2>1 DEF Started, ToBeWhole, StartedIsWhole
  <1> QED BY <1>1, <1>2, <1>3

LEMMA BootKeeps ==
    ASSUME ToBeWhole, UNCHANGED boot
    PROVE  ToBeWhole'
  BY DEF boot, ToBeWhole, StartedIsWhole

LEMMA ReceiveInv ==
    ASSUME InHand, NEW i \in Ids, Receive(i)
    PROVE  InHand'
  <1>1. \A f \in hand' : f = [id |-> i, stage |-> "received", told |-> 0]
    BY DEF Receive
  <1>2. UNCHANGED <<enabled, late>> /\ "received" # "edited"
    BY DEF Receive, web
  <1>3. \A f \in hand' : f.stage = "received" /\ "told" \in DOMAIN f
    BY <1>1
  <1> QED BY <1>1, <1>2, <1>3 DEF InHand, OneFrameIsLate

\* With the switch off a frame is edited into itself: what is late does not grow.
LEMMA OverrideInv ==
    ASSUME InHand, Override
    PROVE  InHand'
  <1>1. PICK f \in hand : f.stage = "received" /\ hand' = {[f EXCEPT !.stage = "edited", !.told = Edit(f.id)]}
    BY DEF Override
  <1>2. UNCHANGED <<enabled, late>>
    BY DEF Override, web
  <1>3. ~enabled => Edit(f.id) = 0
    BY DEF Edit
  <1>4. CASE enabled
    BY <1>1, <1>2, <1>4 DEF InHand, OneFrameIsLate
  <1>5. CASE ~enabled
    <2>1. \A g \in hand' : g.told = 0 /\ "told" \in DOMAIN g
      BY <1>1, <1>3, <1>5 DEF InHand
    <2> QED BY <1>1, <1>2, <1>5, <2>1 DEF InHand, OneFrameIsLate
  <1> QED BY <1>4, <1>5

LEMMA TransmitInv ==
    ASSUME InHand, Transmit
    PROVE  InHand'
  <1>1. PICK f \in hand :
            /\ f.stage = "edited" /\ hand' = {}
            /\ late' = IF f.told > 0 /\ ~enabled /\ late < MaxPosts * 2 THEN late + 1 ELSE late
    BY DEF Transmit
  <1>2. UNCHANGED enabled
    BY DEF Transmit, web
  <1>3. CASE f.told > 0 /\ ~enabled
    <2>1. late = 0
      BY <1>1, <1>3 DEF InHand
    <2> QED BY <1>1, <2>1 DEF InHand, OneFrameIsLate
  <1>4. CASE ~(f.told > 0 /\ ~enabled)
    BY <1>1, <1>4 DEF InHand, OneFrameIsLate
  <1> QED BY <1>3, <1>4

LEMMA NextInv ==
    ASSUME IInv, [Next]_vars
    PROVE  IInv'
  <1> USE DEF IInv
  <1>1. CASE Created \/ NotCreated \/ Started
    <2>1. UNCHANGED <<enabled, hand, late, model>>
      BY <1>1 DEF Created, NotCreated, Started, web
    <2> QED BY <1>1, <2>1, BootInv DEF InHand, OneFrameIsLate
  <1>2. ASSUME NEW i \in Ids, Receive(i) PROVE IInv'
    BY <1>2, ReceiveInv, BootKeeps DEF Receive
  <1>3. CASE Override
    BY <1>3, OverrideInv, BootKeeps DEF Override
  <1>4. CASE Transmit
    BY <1>4, TransmitInv, BootKeeps DEF Transmit
  <1>5. CASE TransmitFails
    BY <1>5, BootKeeps DEF TransmitFails, InHand, OneFrameIsLate, web
  <1>6. CASE Sniff
    BY <1>6, BootKeeps DEF Sniff, InHand, OneFrameIsLate, web
  <1>7. ASSUME NEW on \in BOOLEAN, NEW limits \in BOOLEAN, SetDebugOverride(on, limits) PROVE IInv'
    BY <1>7, BootKeeps DEF SetDebugOverride, InHand, OneFrameIsLate
  <1>8. CASE SetDebugOverrideEnabled
    BY <1>8, BootKeeps DEF SetDebugOverrideEnabled, InHand, OneFrameIsLate
  <1>9. CASE UNCHANGED vars
    BY <1>9, BootKeeps DEF vars, web, InHand, OneFrameIsLate
  <1> QED BY <1>1, <1>2, <1>3, <1>4, <1>5, <1>6, <1>7, <1>8, <1>9 DEF Next

LEMMA Invariance == Spec => []IInv
  <1>1. Init => IInv
    BY InitInv
  <1>2. IInv /\ [Next]_vars => IInv'
    BY NextInv
  <1> QED BY <1>1, <1>2, PTL DEF Spec

\* workingModesStart: whichever tasks cannot be created, a start that is reported as done has all
\* that the mode cannot do without.
THEOREM StartIsWhole == Spec => []StartedIsWhole
  <1>1. IInv => StartedIsWhole
    BY DEF IInv, ToBeWhole
  <1> QED BY <1>1, Invariance, PTL

\* maybeApplyPylonFakeOverride: once the switch is off, the one frame that the forwarder may hold
\* is the last that is sent edited.
THEOREM LateIsOne == Spec => []OneFrameIsLate
  <1>1. IInv => OneFrameIsLate
    BY DEF IInv, InHand
  <1> QED BY <1>1, Invariance, PTL

-----------------------------------------------------------------------------
(* The line of the RS485 sniffer. The task's clock runs beside the line's  *)
(* own: once the bytes that came are read, the age of the last reading is  *)
(* the silence of the line but for a tick. From this follows where a frame *)
(* is divided, and what may wait in the receive buffer when it is.         *)

\* What was read and what was not, and the room for it.
Room ==
    /\ uart \in Seq(Nat) /\ frame \in Seq(Nat) /\ logs \in Seq(Seq(Nat))
    /\ Range(uart) \cup Range(frame) \subseteq 1..count
    /\ \A k \in 1..Len(logs) : logs[k] # <<>> /\ Range(logs[k]) \subseteq 1..count
    /\ Len(uart) <= here + PerTick /\ (turned => Len(uart) <= here)
    /\ Len(frame) <= FrameMax

Scalars ==
    /\ count \in 0..Bytes /\ here \in 0..PerTick /\ quiet \in 0..Sniffer!Long /\ age \in 0..Sniffer!Long
    /\ first \subseteq 1..count /\ joined \subseteq 1..count

Flags == haveLastByte \in BOOLEAN /\ turned \in BOOLEAN

\* The clock of the task beside that of the line.
Clocks ==
    /\ haveLastByte <=> frame # <<>>
    /\ uart # <<>> => quiet <= 1 /\ (turned => quiet = 0)
    /\ frame # <<>> => quiet <= age + 1
    /\ frame # <<>> /\ uart = <<>> => age <= quiet
    /\ frame # <<>> /\ turned => age <= Gap

\* What comes after a silence is the first of its reading, and finds a frame that has ended.
FirstIsFirst ==
    /\ Sniffer!SilenceDivides
    /\ \A i \in 2..Len(frame) : frame[i] \notin first
    /\ \A i \in 2..Len(uart) : uart[i] \notin first
    /\ uart # <<>> /\ frame # <<>> /\ uart[1] \in first => age > Gap

\* What comes within the gap finds a frame that has not, unless there was no room in it.
Divided(f, next) == next \in joined => Len(f) + 2 * PerTick > FrameMax

JoinedIsJoined ==
    /\ Sniffer!OnlySilenceDivides
    /\ logs # <<>> /\ frame # <<>> => Divided(logs[Len(logs)], frame[1])
    /\ logs # <<>> /\ frame = <<>> /\ uart = <<>> => quiet > Gap
    /\ uart # <<>> /\ uart[1] \in joined =>
           /\ frame = <<>> => logs = <<>>
           /\ frame # <<>> => age <= Gap /\ (turned => age < Gap)

LineInv == Scalars /\ Flags /\ Room /\ Clocks /\ Sniffer!NothingIsLost /\ FirstIsFirst /\ JoinedIsJoined

Messages == Sniffer!NothingIsLost /\ Sniffer!SilenceDivides /\ Sniffer!OnlySilenceDivides /\ Sniffer!QuietIsLogged

-----------------------------------------------------------------------------
(* A turn of the task: the bytes join the frame or divide it, the frame is *)
(* closed, or nothing is to be done.                                       *)

Join ==
    /\ uart # <<>> /\ Len(frame) + Len(uart) <= FrameMax /\ (frame # <<>> => age <= Gap)
    /\ frame' = frame \o uart /\ logs' = logs /\ age' = 0 /\ haveLastByte' = TRUE

Split ==
    /\ uart # <<>> /\ frame # <<>> /\ (age > Gap \/ Len(frame) + Len(uart) > FrameMax)
    /\ frame' = uart /\ logs' = Append(logs, frame) /\ age' = 0 /\ haveLastByte' = TRUE

Close ==
    /\ uart = <<>> /\ frame # <<>> /\ age > Gap
    /\ frame' = <<>> /\ logs' = Append(logs, frame) /\ age' = age /\ haveLastByte' = FALSE

Idle ==
    /\ uart = <<>> /\ (frame # <<>> => age <= Gap)
    /\ frame' = frame /\ logs' = logs /\ age' = age /\ haveLastByte' = haveLastByte

\* Two ticks of bytes fit into a frame.
LEMMA UartFits ==
    ASSUME Sniffer!SnifferAssumption, Scalars, Room
    PROVE  Len(uart) \in Nat /\ Len(uart) <= 2 * PerTick /\ Len(uart) <= FrameMax
  <1>1. /\ Len(uart) \in Nat /\ here \in Nat /\ here <= PerTick /\ PerTick \in Nat /\ FrameMax \in Nat
        /\ 2 * PerTick <= FrameMax
    BY DEF Sniffer!SnifferAssumption, Scalars, Room
  <1>2. Len(uart) <= here + PerTick
    BY DEF Room
  <1> QED BY <1>1, <1>2

LEMMA Turns ==
    ASSUME Sniffer!SnifferAssumption, Scalars, Flags, Room, Clocks, Sniffer!Turn
    PROVE  /\ turned' = TRUE /\ uart' = <<>> /\ UNCHANGED Sniffer!line
           /\ Join \/ Split \/ Close \/ Idle
  <1>1. turned' = TRUE /\ uart' = <<>> /\ UNCHANGED Sniffer!line
    BY DEF Sniffer!Turn
  <1>2. /\ uart \in Seq(Nat) /\ frame \in Seq(Nat) /\ Len(frame) <= FrameMax
        /\ Len(uart) <= FrameMax /\ (haveLastByte <=> frame # <<>>)
        /\ haveLastByte \in BOOLEAN /\ age \in Nat /\ Gap \in Nat /\ FrameMax \in Nat
    BY UartFits DEF Sniffer!SnifferAssumption, Scalars, Flags, Room, Clocks, Sniffer!Long
  <1>3. CASE uart # <<>> /\ Sniffer!Ended
    <2>1. Sniffer!Gather(<<>>, Sniffer!Logged(frame, logs), uart) = [frame |-> uart, logs |-> Append(logs, frame)]
      BY <1>2, <1>3 DEF Sniffer!Gather, Sniffer!Logged, Sniffer!Ended
    <2> QED BY <1>2, <1>3, <2>1 DEF Sniffer!Turn, Split, Sniffer!Ended
  <1>4. CASE uart # <<>> /\ ~Sniffer!Ended
    <2>1. frame # <<>> => age <= Gap
      BY <1>2, <1>4 DEF Sniffer!Ended
    <2>2. CASE Len(frame) + Len(uart) > FrameMax
      <3>1. frame # <<>>
        BY <1>2, <2>2
      <3>2. Sniffer!Gather(frame, logs, uart) = [frame |-> uart, logs |-> Append(logs, frame)]
        BY <2>2, <3>1 DEF Sniffer!Gather, Sniffer!Logged
      <3> QED BY <1>4, <2>2, <3>1, <3>2 DEF Sniffer!Turn, Split
    <2>3. CASE Len(frame) + Len(uart) <= FrameMax
      <3>1. Sniffer!Gather(frame, logs, uart) = [frame |-> frame \o uart, logs |-> logs]
        BY <1>2, <2>3 DEF Sniffer!Gather
      <3> QED BY <1>4, <2>1, <2>3, <3>1 DEF Sniffer!Turn, Join
    <2> QED BY <1>1, <1>2, <2>2, <2>3
  <1>5. CASE uart = <<>> /\ Sniffer!Ended
    BY <1>2, <1>5 DEF Sniffer!Turn, Close, Sniffer!Ended, Sniffer!Logged
  <1>6. CASE uart = <<>> /\ ~Sniffer!Ended
    BY <1>2, <1>6 DEF Sniffer!Turn, Idle, Sniffer!Ended
  <1> QED BY <1>1, <1>3, <1>4, <1>5, <1>6

-----------------------------------------------------------------------------
(* What each step leaves of the invariant.                                 *)

LEMMA StartInv == Sniffer!SnifferAssumption /\ Sniffer!Init => LineInv
  <1> SUFFICES ASSUME Sniffer!SnifferAssumption, Sniffer!Init PROVE LineInv
    OBVIOUS
  <1> USE DEF Sniffer!Init
  <1>1. Scalars
    BY DEF Sniffer!SnifferAssumption, Scalars, Sniffer!Long
  <1>5. Flags
    BY DEF Flags
  <1>6. Room
    <2>1. Range(<<>>) = {}
      BY DEF Range
    <2> QED BY <2>1 DEF Room, Sniffer!SnifferAssumption
  <1>2. Clocks
    BY DEF Clocks
  <1>3. Sniffer!NothingIsLost
    BY DEF Sniffer!NothingIsLost, Sniffer!Before, Sniffer!Follows
  <1>4. FirstIsFirst /\ JoinedIsJoined
    BY DEF FirstIsFirst, JoinedIsJoined, Sniffer!SilenceDivides, Sniffer!OnlySilenceDivides
  <1> QED BY <1>1, <1>2, <1>3, <1>4, <1>5, <1>6 DEF LineInv

LEMMA ScalarsKept ==
    ASSUME Sniffer!SnifferAssumption, LineInv, Sniffer!Next
    PROVE  Scalars' /\ Flags'
  <1> USE DEF Sniffer!SnifferAssumption, Scalars, Sniffer!Long
  <1>0. Scalars /\ Flags
    BY DEF LineInv
  <1>1. CASE Sniffer!Come
    <2>1. /\ count' = count + 1 /\ count < Bytes /\ here' = here + 1 /\ here < PerTick /\ quiet' = 0 /\ age' = age
          /\ first' \subseteq first \cup {count + 1} /\ joined' \subseteq joined \cup {count + 1}
      BY <1>1 DEF Sniffer!Come
    <2>2. Scalars'
      BY <1>0, <2>1
    <2> QED BY <1>0, <1>1, <2>2 DEF Sniffer!Come, Flags
  <1>2. CASE Sniffer!Turn
    <2>1. turned' = TRUE /\ UNCHANGED Sniffer!line /\ age' \in {0, age} /\ haveLastByte' \in {TRUE, FALSE, haveLastByte}
      BY <1>2, Turns DEF LineInv, Join, Split, Close, Idle
    <2>2. Flags'
      BY <1>0, <2>1 DEF Flags
    <2> QED BY <1>0, <2>1, <2>2 DEF Sniffer!line
  <1>3. CASE Sniffer!Tick
    <2>1. /\ here' = 0 /\ UNCHANGED <<count, first, joined>>
          /\ quiet' = (IF quiet < Sniffer!Long THEN quiet + 1 ELSE quiet) /\ age' = (IF age < Sniffer!Long THEN age + 1 ELSE age)
      BY <1>3 DEF Sniffer!Tick
    <2>2. Scalars'
      BY <1>0, <2>1
    <2> QED BY <1>0, <1>3, <2>2 DEF Sniffer!Tick, Flags
  <1> QED BY <1>1, <1>2, <1>3 DEF Sniffer!Next

\* Appending to a sequence, and what its range becomes.
LEMMA Appended ==
    ASSUME NEW S, NEW s \in Seq(S), NEW e \in S
    PROVE  /\ Append(s, e) \in Seq(S) /\ Len(Append(s, e)) = Len(s) + 1 /\ Append(s, e) # <<>>
           /\ \A i \in 1..Len(s) : Append(s, e)[i] = s[i]
           /\ Append(s, e)[Len(s) + 1] = e
           /\ Range(Append(s, e)) = Range(s) \cup {e}
  <1>1. /\ Append(s, e) \in Seq(S) /\ Len(Append(s, e)) = Len(s) + 1 /\ Append(s, e) # <<>>
        /\ \A i \in 1..Len(s) : Append(s, e)[i] = s[i]
        /\ Append(s, e)[Len(s) + 1] = e
    OBVIOUS
  <1>2. /\ DOMAIN s = 1..Len(s) /\ DOMAIN Append(s, e) = 1..(Len(s) + 1) /\ Len(s) \in Nat
    BY <1>1
  <1> QED BY <1>1, <1>2 DEF Range

LEMMA Joined ==
    ASSUME NEW S, NEW s \in Seq(S), NEW t \in Seq(S)
    PROVE  /\ s \o t \in Seq(S) /\ Len(s \o t) = Len(s) + Len(t)
           /\ \A i \in 1..Len(s) : (s \o t)[i] = s[i]
           /\ \A i \in 1..Len(t) : (s \o t)[Len(s) + i] = t[i]
           /\ Range(s \o t) = Range(s) \cup Range(t)
  <1>1. /\ s \o t \in Seq(S) /\ Len(s \o t) = Len(s) + Len(t)
        /\ \A i \in 1..Len(s) : (s \o t)[i] = s[i]
        /\ \A i \in 1..Len(t) : (s \o t)[Len(s) + i] = t[i]
    OBVIOUS
  <1>2. DOMAIN s = 1..Len(s) /\ DOMAIN t = 1..Len(t) /\ DOMAIN (s \o t) = 1..(Len(s) + Len(t))
        /\ Len(s) \in Nat /\ Len(t) \in Nat
    BY <1>1
  <1>3. ASSUME NEW i \in 1..(Len(s) + Len(t)) PROVE (s \o t)[i] \in Range(s) \cup Range(t)
    <2>1. CASE i <= Len(s)
      BY <1>1, <1>2, <2>1 DEF Range
    <2>2. CASE i > Len(s)
      <3>1. i - Len(s) \in 1..Len(t) /\ (s \o t)[i] = t[i - Len(s)]
        BY <1>2, <2>2
      <3> QED BY <1>2, <3>1 DEF Range
    <2> QED BY <1>2, <2>1, <2>2
  <1>4. Range(s) \cup Range(t) \subseteq Range(s \o t)
    <2>1. \A i \in 1..Len(s) : i \in DOMAIN (s \o t)
      BY <1>2
    <2>2. \A i \in 1..Len(t) : Len(s) + i \in DOMAIN (s \o t)
      BY <1>2
    <2> QED BY <1>1, <1>2, <2>1, <2>2 DEF Range
  <1> QED BY <1>1, <1>2, <1>3, <1>4 DEF Range

LEMMA RangeOfNone == Range(<<>>) = {}
  BY DEF Range

\* A turn leaves the logs, or adds the frame to them.
LEMMA LogsGrow ==
    ASSUME Room, Join \/ Split \/ Close \/ Idle
    PROVE  \/ logs' = logs /\ (Join \/ Idle)
           \/ /\ frame # <<>> /\ (Split \/ Close)
              /\ logs' \in Seq(Seq(Nat)) /\ Len(logs') = Len(logs) + 1 /\ Len(logs) \in Nat
              /\ \A k \in 1..Len(logs) : logs'[k] = logs[k]
              /\ logs'[Len(logs) + 1] = frame
  <1>1. CASE logs' = Append(logs, frame) /\ frame # <<>> /\ (Split \/ Close)
    <2>1. logs \in Seq(Seq(Nat)) /\ frame \in Seq(Nat)
      BY DEF Room
    <2> QED BY <1>1, <2>1, Appended
  <1> QED BY <1>1 DEF Join, Split, Close, Idle

LEMMA RoomKept ==
    ASSUME Sniffer!SnifferAssumption, LineInv, Sniffer!Next
    PROVE  Room'
  <1>0. /\ Scalars /\ Flags /\ Room /\ Clocks
        /\ count \in Nat /\ here \in Nat /\ here <= PerTick /\ PerTick \in Nat /\ FrameMax \in Nat
        /\ uart \in Seq(Nat) /\ frame \in Seq(Nat) /\ Len(uart) \in Nat /\ Len(frame) \in Nat
    BY DEF LineInv, Scalars, Room, Sniffer!SnifferAssumption
  <1>1. CASE Sniffer!Come
    <2>1. /\ uart' = Append(uart, count + 1) /\ count' = count + 1 /\ here' = here + 1
          /\ UNCHANGED <<frame, logs, turned>>
      BY <1>1 DEF Sniffer!Come
    <2>2. /\ uart' \in Seq(Nat) /\ Len(uart') = Len(uart) + 1 /\ Range(uart') = Range(uart) \cup {count + 1}
      BY <1>0, <2>1, Appended
    <2>3. 1..count \subseteq 1..(count + 1)
      BY <1>0
    <2>4. Range(uart') \cup Range(frame') \subseteq 1..count'
      BY <1>0, <2>1, <2>2, <2>3 DEF Room
    <2>5. \A k \in 1..Len(logs') : logs'[k] # <<>> /\ Range(logs'[k]) \subseteq 1..count'
      BY <1>0, <2>1, <2>3 DEF Room
    <2>6. Len(uart') <= here' + PerTick /\ (turned' => Len(uart') <= here')
      BY <1>0, <2>1, <2>2 DEF Room
    <2> QED BY <1>0, <2>1, <2>2, <2>4, <2>5, <2>6 DEF Room
  <1>2. CASE Sniffer!Turn
    <2>1. uart' = <<>> /\ count' = count /\ here' = here /\ (Join \/ Split \/ Close \/ Idle)
      BY <1>0, <1>2, Turns DEF Sniffer!line
    <2>2. frame' \in Seq(Nat) /\ Len(frame') <= FrameMax /\ Range(frame') \subseteq 1..count
      <3>1. CASE Join
        BY <1>0, <3>1, Joined DEF Join, Room
      <3>2. CASE Split
        BY <1>0, <3>2, UartFits DEF Split, Room
      <3>3. CASE Close
        BY <1>0, <3>3, RangeOfNone DEF Close
      <3>4. CASE Idle
        BY <1>0, <3>4 DEF Idle, Room
      <3> QED BY <2>1, <3>1, <3>2, <3>3, <3>4
    <2>3. /\ logs' \in Seq(Seq(Nat))
          /\ \A k \in 1..Len(logs') : logs'[k] # <<>> /\ Range(logs'[k]) \subseteq 1..count
      <3>1. CASE logs' = logs
        BY <1>0, <3>1 DEF Room
      <3>2. CASE logs' # logs
        <4>1. /\ frame # <<>> /\ logs' \in Seq(Seq(Nat)) /\ Len(logs') = Len(logs) + 1 /\ Len(logs) \in Nat
              /\ \A k \in 1..Len(logs) : logs'[k] = logs[k]
              /\ logs'[Len(logs) + 1] = frame
          BY <1>0, <2>1, <3>2, LogsGrow
        <4>2. \A k \in 1..Len(logs') : k \in 1..Len(logs) \/ k = Len(logs) + 1
          BY <4>1
        <4> QED BY <1>0, <4>1, <4>2 DEF Room
      <3> QED BY <3>1, <3>2
    <2>4. uart' \in Seq(Nat) /\ Range(uart') = {} /\ Len(uart') = 0
      BY <2>1, RangeOfNone
    <2> QED BY <1>0, <2>1, <2>2, <2>3, <2>4 DEF Room
  <1>3. CASE Sniffer!Tick
    <2>1. UNCHANGED <<uart, count, frame, logs>> /\ here' = 0 /\ turned /\ ~turned'
      BY <1>3 DEF Sniffer!Tick
    <2>2. Len(uart) <= PerTick
      BY <1>0, <2>1 DEF Room
    <2> QED BY <1>0, <2>1, <2>2 DEF Room
  <1> QED BY <1>1, <1>2, <1>3 DEF Sniffer!Next

LEMMA ClocksKept ==
    ASSUME Sniffer!SnifferAssumption, LineInv, Sniffer!Next
    PROVE  Clocks'
  <1>0. /\ Scalars /\ Flags /\ Room /\ Clocks /\ Gap \in Nat /\ Gap > 0 /\ Sniffer!Long = Gap + 3
        /\ quiet \in 0..Sniffer!Long /\ age \in 0..Sniffer!Long /\ uart \in Seq(Nat) /\ frame \in Seq(Nat)
    <2>1. Scalars /\ Flags /\ Room /\ Clocks
      BY DEF LineInv
    <2>2. Gap \in Nat /\ Gap > 0 /\ Sniffer!Long = Gap + 3
      BY DEF Sniffer!SnifferAssumption, Sniffer!Long
    <2>3. quiet \in 0..Sniffer!Long /\ age \in 0..Sniffer!Long /\ uart \in Seq(Nat) /\ frame \in Seq(Nat)
      BY <2>1 DEF Scalars, Room
    <2> QED BY <2>1, <2>2, <2>3
  <1>1. CASE Sniffer!Come
    <2>1. uart' # <<>> /\ quiet' = 0 /\ UNCHANGED <<frame, age, haveLastByte, turned>>
      BY <1>0, <1>1, Appended DEF Sniffer!Come
    <2> QED BY <1>0, <2>1 DEF Clocks
  <1>2. CASE Sniffer!Turn
    <2>1. uart' = <<>> /\ quiet' = quiet /\ turned' = TRUE /\ (Join \/ Split \/ Close \/ Idle)
      BY <1>0, <1>2, Turns DEF Sniffer!line
    <2>2. CASE uart # <<>>
      <3>1. frame' # <<>> /\ age' = 0 /\ haveLastByte' = TRUE
        BY <1>0, <2>1, <2>2 DEF Join, Split, Close, Idle
      <3>2. quiet <= 1
        BY <1>0, <2>2 DEF Clocks
      <3> QED BY <1>0, <2>1, <3>1, <3>2 DEF Clocks
    <2>3. CASE Close
      BY <2>1, <2>3 DEF Clocks, Close
    <2>4. CASE Idle
      BY <1>0, <2>1, <2>4 DEF Clocks, Idle
    <2> QED BY <2>1, <2>2, <2>3, <2>4 DEF Join, Split
  <1>3. CASE Sniffer!Tick
    <2>1. /\ UNCHANGED <<uart, frame, haveLastByte>> /\ turned /\ ~turned'
          /\ quiet' = (IF quiet < Sniffer!Long THEN quiet + 1 ELSE quiet) /\ age' = (IF age < Sniffer!Long THEN age + 1 ELSE age)
      BY <1>3 DEF Sniffer!Tick
    <2>2. uart' # <<>> => quiet' <= 1
      BY <1>0, <2>1 DEF Clocks
    <2>3. frame' # <<>> => quiet' <= age' + 1
      BY <1>0, <2>1 DEF Clocks
    <2>4. frame' # <<>> /\ uart' = <<>> => age' <= quiet'
      BY <1>0, <2>1 DEF Clocks
    <2> QED BY <1>0, <2>1, <2>2, <2>3, <2>4 DEF Clocks
  <1> QED BY <1>1, <1>2, <1>3 DEF Sniffer!Next

LEMMA FollowsBoth ==
    ASSUME NEW s \in Seq(Nat), NEW t \in Seq(Nat), NEW n \in Nat
    PROVE  Sniffer!Follows(s \o t, n) <=> Sniffer!Follows(s, n) /\ Sniffer!Follows(t, n + Len(s))
  <1>1. /\ DOMAIN s = 1..Len(s) /\ DOMAIN t = 1..Len(t) /\ DOMAIN (s \o t) = 1..(Len(s) + Len(t))
        /\ Len(s) \in Nat /\ Len(t) \in Nat
        /\ \A i \in 1..Len(s) : (s \o t)[i] = s[i]
        /\ \A i \in 1..Len(t) : (s \o t)[Len(s) + i] = t[i]
    BY Joined
  <1>2. ASSUME Sniffer!Follows(s \o t, n) PROVE Sniffer!Follows(s, n) /\ Sniffer!Follows(t, n + Len(s))
    <2>1. ASSUME NEW i \in 1..Len(s) PROVE s[i] = n + i
      <3>1. i \in DOMAIN (s \o t)
        BY <1>1
      <3> QED BY <1>1, <1>2, <3>1 DEF Sniffer!Follows
    <2>2. ASSUME NEW i \in 1..Len(t) PROVE t[i] = n + Len(s) + i
      <3>1. Len(s) + i \in DOMAIN (s \o t)
        BY <1>1
      <3>2. (s \o t)[Len(s) + i] = n + (Len(s) + i)
        BY <1>2, <3>1 DEF Sniffer!Follows
      <3> QED BY <1>1, <3>2
    <2> QED BY <1>1, <2>1, <2>2 DEF Sniffer!Follows
  <1>3. ASSUME Sniffer!Follows(s, n), Sniffer!Follows(t, n + Len(s)) PROVE Sniffer!Follows(s \o t, n)
    <2>1. ASSUME NEW i \in 1..(Len(s) + Len(t)) PROVE (s \o t)[i] = n + i
      <3>1. CASE i <= Len(s)
        <4>1. i \in 1..Len(s)
          BY <1>1, <3>1
        <4> QED BY <1>1, <1>3, <4>1 DEF Sniffer!Follows
      <3>2. CASE i > Len(s)
        <4>1. i - Len(s) \in 1..Len(t) /\ Len(s) + (i - Len(s)) = i
          BY <1>1, <3>2
        <4>2. t[i - Len(s)] = n + Len(s) + (i - Len(s))
          BY <1>1, <1>3, <4>1 DEF Sniffer!Follows
        <4> QED BY <1>1, <4>1, <4>2
      <3> QED BY <1>1, <3>1, <3>2
    <2> QED BY <1>1, <2>1 DEF Sniffer!Follows
  <1> QED BY <1>2, <1>3

\* What has been logged, and that the rest begins there.
InOrder ==
    /\ Len(logs) \in Nat /\ DOMAIN logs = 1..Len(logs) /\ Sniffer!Before(Len(logs) + 1) \in Nat
    /\ Sniffer!NothingIsLost <=>
          /\ \A k \in 1..Len(logs) : Sniffer!Follows(logs[k], Sniffer!Before(k))
          /\ Sniffer!Follows(frame, Sniffer!Before(Len(logs) + 1))
          /\ Sniffer!Follows(uart, Sniffer!Before(Len(logs) + 1) + Len(frame))
          /\ Sniffer!Before(Len(logs) + 1) + Len(frame) + Len(uart) = count

LEMMA LoggedSoFar == Room => InOrder
  <1> SUFFICES ASSUME Room PROVE InOrder
    OBVIOUS
  <1>0. /\ logs \in Seq(Seq(Nat)) /\ uart \in Seq(Nat) /\ frame \in Seq(Nat)
        /\ \A k \in 1..Len(logs) : logs[k] # <<>>
    BY DEF Room
  <1>1. Len(logs) \in Nat /\ DOMAIN logs = 1..Len(logs)
    BY <1>0, LenProperties
  <1>2. Sniffer!Before(Len(logs) + 1) \in Nat
    <2>1. CASE Len(logs) = 0
      BY <2>1 DEF Sniffer!Before
    <2>2. CASE Len(logs) > 0
      <3>1. logs[Len(logs)] \in Seq(Nat) /\ logs[Len(logs)] # <<>>
        BY <1>0, <1>1, <2>2, ElementOfSeq
      <3>2. Sniffer!Last(logs[Len(logs)]) \in Nat
        BY <3>1 DEF Sniffer!Last
      <3> QED BY <1>1, <2>2, <3>2 DEF Sniffer!Before
    <2> QED BY <1>1, <2>1, <2>2
  <1>3. Len(frame \o uart) = Len(frame) + Len(uart) /\ Len(frame) \in Nat /\ Len(uart) \in Nat
    BY <1>0
  <1> DEFINE n == Sniffer!Before(Len(logs) + 1)
  <1>4. Sniffer!Follows(frame \o uart, n) <=> Sniffer!Follows(frame, n) /\ Sniffer!Follows(uart, n + Len(frame))
    BY <1>0, <1>2, FollowsBoth
  <1>5. n + Len(frame \o uart) = n + Len(frame) + Len(uart)
    BY <1>2, <1>3
  <1>6. Sniffer!NothingIsLost <=> /\ \A k \in 1..Len(logs) : Sniffer!Follows(logs[k], Sniffer!Before(k))
                          /\ Sniffer!Follows(frame \o uart, n) /\ n + Len(frame \o uart) = count
    BY <1>0, <1>1, Zenon DEF Sniffer!NothingIsLost
  <1> HIDE DEF n
  <1> QED BY <1>1, <1>2, <1>4, <1>5, <1>6 DEF n, InOrder

LEMMA NothingLostKept ==
    ASSUME Sniffer!SnifferAssumption, LineInv, Sniffer!Next, Room'
    PROVE  Sniffer!NothingIsLost'
  <1> DEFINE n == Sniffer!Before(Len(logs) + 1)
  <1>0. /\ Scalars /\ Flags /\ Room /\ Clocks /\ count \in Nat
        /\ uart \in Seq(Nat) /\ frame \in Seq(Nat) /\ Len(uart) \in Nat /\ Len(frame) \in Nat
    BY DEF LineInv, Scalars, Room
  <1>1. /\ Len(logs) \in Nat /\ n \in Nat
        /\ \A k \in 1..Len(logs) : Sniffer!Follows(logs[k], Sniffer!Before(k))
        /\ Sniffer!Follows(frame, n) /\ Sniffer!Follows(uart, n + Len(frame)) /\ n + Len(frame) + Len(uart) = count
    BY <1>0, LoggedSoFar DEF LineInv, InOrder
  <1>2. /\ Len(logs') \in Nat /\ DOMAIN logs' = 1..Len(logs')
        /\ Sniffer!NothingIsLost' <=>
                 /\ \A k \in 1..Len(logs') : Sniffer!Follows(logs'[k], Sniffer!Before(k)')
                 /\ Sniffer!Follows(frame', Sniffer!Before(Len(logs) + 1)')
                 /\ Sniffer!Follows(uart', Sniffer!Before(Len(logs) + 1)' + Len(frame'))
                 /\ Sniffer!Before(Len(logs) + 1)' + Len(frame') + Len(uart') = count'
    <2>1. (Room => InOrder)'
      BY LoggedSoFar, PTL
    <2> QED BY <2>1 DEF InOrder
  <1>3. logs' = logs => Sniffer!Before(Len(logs) + 1)' = n /\ \A k \in 1..Len(logs) : Sniffer!Before(k)' = Sniffer!Before(k)
    BY DEF Sniffer!Before
  <1>4. CASE Sniffer!Come
    <2>1. uart' = Append(uart, count + 1) /\ count' = count + 1 /\ UNCHANGED <<frame, logs>>
      BY <1>4 DEF Sniffer!Come
    <2>2. /\ Len(uart') = Len(uart) + 1 /\ uart' \in Seq(Nat) /\ uart'[Len(uart) + 1] = count + 1
          /\ \A i \in 1..Len(uart) : uart'[i] = uart[i]
      BY <1>0, <2>1, Appended
    <2>3. \A i \in 1..Len(uart') : uart'[i] = n + Len(frame) + i
      <3>1. \A i \in 1..Len(uart) : uart[i] = n + Len(frame) + i
        BY <1>0, <1>1 DEF Sniffer!Follows
      <3>2. count + 1 = n + Len(frame) + (Len(uart) + 1)
        BY <1>0, <1>1
      <3> QED BY <1>0, <2>2, <3>1, <3>2
    <2>4. Sniffer!Follows(uart', n + Len(frame))
      BY <2>2, <2>3 DEF Sniffer!Follows
    <2>5. n + Len(frame) + Len(uart') = count'
      BY <1>0, <1>1, <2>1, <2>2
    <2> QED BY <1>1, <1>2, <1>3, <2>1, <2>4, <2>5
  <1>5. CASE Sniffer!Turn
    <2>1. uart' = <<>> /\ count' = count /\ (Join \/ Split \/ Close \/ Idle)
      BY <1>0, <1>5, Turns DEF Sniffer!line
    <2>2. \A m : Sniffer!Follows(uart', m)
      BY <2>1 DEF Sniffer!Follows
    <2>3. Len(uart') = 0
      BY <2>1
    <2>4. CASE Join
      <3>1. frame' = frame \o uart /\ logs' = logs
        BY <2>4 DEF Join
      <3>2. Sniffer!Follows(frame', n) /\ Len(frame') = Len(frame) + Len(uart)
        BY <1>0, <1>1, <3>1, FollowsBoth
      <3> QED BY <1>0, <1>1, <1>2, <1>3, <2>1, <2>2, <2>3, <3>1, <3>2
    <2>5. CASE Idle
      <3>1. frame' = frame /\ logs' = logs /\ Len(uart) = 0
        BY <2>5 DEF Idle
      <3> QED BY <1>0, <1>1, <1>2, <1>3, <2>1, <2>2, <2>3, <3>1
    <2>6. CASE Split \/ Close
      <3>1. /\ frame # <<>> /\ Len(logs') = Len(logs) + 1
            /\ \A k \in 1..Len(logs) : logs'[k] = logs[k]
            /\ logs'[Len(logs) + 1] = frame /\ frame' = uart
        <4>1. frame' = uart /\ logs' = Append(logs, frame) /\ frame # <<>>
          BY <2>6 DEF Split, Close
        <4>2. logs \in Seq(Seq(Nat))
          BY <1>0 DEF Room
        <4> QED BY <1>0, <4>1, <4>2, Appended
      <3>2. \A k \in 1..(Len(logs) + 1) : Sniffer!Before(k)' = Sniffer!Before(k)
        <4>1. \A k \in 1..(Len(logs) + 1) : k = 1 \/ k - 1 \in 1..Len(logs)
          BY <1>1
        <4> QED BY <3>1, <4>1 DEF Sniffer!Before
      <3>3. Sniffer!Before(Len(logs) + 1)' = n + Len(frame)
        <4>1. Len(frame) > 0 /\ frame[Len(frame)] = n + Len(frame)
          BY <1>0, <1>1, <3>1 DEF Sniffer!Follows
        <4>2. Len(logs') + 1 # 1 /\ (Len(logs') + 1) - 1 = Len(logs) + 1
          BY <1>1, <3>1
        <4> QED BY <3>1, <4>1, <4>2 DEF Sniffer!Before, Sniffer!Last
      <3>4. ASSUME NEW k \in 1..Len(logs') PROVE Sniffer!Follows(logs'[k], Sniffer!Before(k)')
        <4>1. k \in 1..Len(logs) \/ k = Len(logs) + 1
          BY <1>1, <3>1
        <4> QED BY <1>1, <3>1, <3>2, <4>1
      <3> QED BY <1>0, <1>1, <1>2, <2>1, <2>2, <2>3, <3>1, <3>3, <3>4
    <2> QED BY <2>1, <2>4, <2>5, <2>6
  <1>6. CASE Sniffer!Tick
    <2>1. UNCHANGED <<uart, count, frame, logs>>
      BY <1>6 DEF Sniffer!Tick
    <2> QED BY <1>1, <1>2, <1>3, <2>1
  <1> QED BY <1>4, <1>5, <1>6 DEF Sniffer!Next

\* The byte that comes is none of those that have.
LEMMA ComesNew ==
    ASSUME Scalars, Room
    PROVE  /\ count \in Nat /\ count + 1 \notin 1..count
           /\ \A i \in 1..Len(uart) : uart[i] \in 1..count
           /\ \A i \in 1..Len(frame) : frame[i] \in 1..count
           /\ \A k \in 1..Len(logs) : /\ logs[k] \in Seq(Nat) /\ logs[k] # <<>>
                                        /\ \A i \in 1..Len(logs[k]) : logs[k][i] \in 1..count
  <1>1. count \in Nat /\ count + 1 \notin 1..count
    BY DEF Scalars
  <1>2. ASSUME NEW s \in Seq(Nat), Range(s) \subseteq 1..count, NEW i \in 1..Len(s)
        PROVE  s[i] \in 1..count
    BY <1>2 DEF Range
  <1>3. /\ uart \in Seq(Nat) /\ frame \in Seq(Nat) /\ logs \in Seq(Seq(Nat))
        /\ Range(uart) \subseteq 1..count /\ Range(frame) \subseteq 1..count
    BY DEF Room
  <1>4. \A k \in 1..Len(logs) : /\ logs[k] \in Seq(Nat) /\ logs[k] # <<>>
                                 /\ Range(logs[k]) \subseteq 1..count
    BY <1>3 DEF Room
  <1> QED BY <1>1, <1>2, <1>3, <1>4

LEMMA FirstKept ==
    ASSUME Sniffer!SnifferAssumption, LineInv, Sniffer!Next
    PROVE  FirstIsFirst'
  <1>0. /\ Scalars /\ Flags /\ Room /\ Clocks /\ FirstIsFirst /\ Gap \in Nat /\ Gap > 0
        /\ uart \in Seq(Nat) /\ frame \in Seq(Nat) /\ logs \in Seq(Seq(Nat))
        /\ quiet \in Nat /\ age \in Nat
    BY DEF LineInv, Scalars, Room, Sniffer!SnifferAssumption, Sniffer!Long
  <1>1. CASE Sniffer!Come
    <2>1. /\ uart' = Append(uart, count + 1) /\ UNCHANGED <<frame, logs, age>>
          /\ first' = IF quiet > Gap + 1 THEN first \cup {count + 1} ELSE first
      BY <1>1 DEF Sniffer!Come
    <2>2. /\ Len(uart') = Len(uart) + 1 /\ uart'[Len(uart) + 1] = count + 1 /\ Len(uart) \in Nat
          /\ \A i \in 1..Len(uart) : uart'[i] = uart[i]
      BY <1>0, <2>1, ComesNew, Appended
    <2>3. uart # <<>> => first' = first
      BY <1>0, <2>1 DEF Clocks
    <2>4. \A x \in 1..count : x \in first' => x \in first
      BY <1>0, <2>1, ComesNew
    <2>5. Sniffer!SilenceDivides'
      <3>1. ASSUME NEW k \in DOMAIN logs, NEW i \in 2..Len(logs[k]) PROVE logs[k][i] \notin first'
        <4>1. k \in 1..Len(logs) /\ Len(logs[k]) \in Nat
          BY <1>0, <3>1, ComesNew
        <4>2. logs[k][i] \in 1..count
          BY <1>0, <4>1, ComesNew
        <4> QED BY <1>0, <2>4, <4>2 DEF FirstIsFirst, Sniffer!SilenceDivides
      <3> QED BY <2>1, <3>1 DEF Sniffer!SilenceDivides
    <2>6. \A i \in 2..Len(frame') : frame'[i] \notin first'
      <3>1. \A i \in 2..Len(frame) : i \in 1..Len(frame)
        BY <1>0
      <3> QED BY <1>0, <2>1, <2>4, <3>1, ComesNew DEF FirstIsFirst
    <2>7. ASSUME NEW i \in 2..Len(uart') PROVE uart'[i] \notin first'
      <3>1. Len(uart) > 0 /\ uart # <<>>
        BY <2>2
      <3>2. count + 1 \notin first
        BY <1>0 DEF Scalars
      <3>3. i \in 2..Len(uart) \/ i = Len(uart) + 1
        BY <2>2
      <3>4. i \in 2..Len(uart) => i \in 1..Len(uart)
        OBVIOUS
      <3> QED BY <1>0, <2>2, <2>3, <3>1, <3>2, <3>3, <3>4 DEF FirstIsFirst
    <2>8. ASSUME frame' # <<>>, uart'[1] \in first' PROVE age' > Gap
      <3>1. CASE uart # <<>>
        <4>1. uart'[1] = uart[1]
          BY <1>0, <2>2, <3>1
        <4> QED BY <1>0, <2>1, <2>3, <2>8, <3>1, <4>1 DEF FirstIsFirst
      <3>2. CASE uart = <<>>
        <4>1. uart'[1] = count + 1 /\ count + 1 \notin first
          BY <1>0, <2>2, <3>2 DEF Scalars
        <4>2. quiet > Gap + 1
          BY <2>1, <2>8, <4>1
        <4> QED BY <1>0, <2>1, <2>8, <4>2 DEF Clocks
      <3> QED BY <3>1, <3>2
    <2> QED BY <2>5, <2>6, <2>7, <2>8 DEF FirstIsFirst
  <1>2. CASE Sniffer!Turn
    <2>1. uart' = <<>> /\ first' = first /\ (Join \/ Split \/ Close \/ Idle)
      BY <1>0, <1>2, Turns DEF Sniffer!line
    <2>2. \A i \in 2..Len(frame') : frame'[i] \notin first
      <3>1. CASE Join /\ frame # <<>>
        <4>1. /\ Len(frame') = Len(frame) + Len(uart) /\ Len(frame) \in Nat /\ Len(uart) \in Nat
              /\ \A i \in 1..Len(frame) : frame'[i] = frame[i]
              /\ \A i \in 1..Len(uart) : frame'[Len(frame) + i] = uart[i]
          BY <1>0, <3>1, Joined DEF Join
        <4>2. uart[1] \notin first
          BY <1>0, <3>1 DEF FirstIsFirst, Join
        <4>3. ASSUME NEW i \in 2..Len(frame') PROVE frame'[i] \notin first
          <5>1. CASE i <= Len(frame)
            <6>1. i \in 1..Len(frame) /\ i \in 2..Len(frame)
              BY <4>1, <5>1
            <6> QED BY <1>0, <4>1, <6>1 DEF FirstIsFirst
          <5>2. CASE i > Len(frame)
            <6>1. PICK j \in 1..Len(uart) : i = Len(frame) + j
              <7>1. i - Len(frame) \in 1..Len(uart) /\ i = Len(frame) + (i - Len(frame))
                BY <4>1, <5>2
              <7> QED BY <7>1
            <6>2. j = 1 \/ j \in 2..Len(uart)
              BY <4>1
            <6> QED BY <1>0, <4>1, <4>2, <6>1, <6>2 DEF FirstIsFirst
          <5> QED BY <4>1, <5>1, <5>2
        <4> QED BY <4>3
      <3>2. CASE Join /\ frame = <<>>
        <4>1. frame' = uart
          BY <1>0, <3>2, ConcatEmptySeq DEF Join
        <4> QED BY <1>0, <4>1 DEF FirstIsFirst
      <3>3. CASE Split
        BY <1>0, <3>3 DEF Split, FirstIsFirst
      <3>4. CASE Close
        BY <3>4 DEF Close
      <3>5. CASE Idle
        BY <1>0, <3>5 DEF Idle, FirstIsFirst
      <3> QED BY <2>1, <3>1, <3>2, <3>3, <3>4, <3>5
    <2>3. Sniffer!SilenceDivides'
      <3>1. CASE logs' = logs
        BY <1>0, <2>1, <3>1 DEF FirstIsFirst, Sniffer!SilenceDivides
      <3>2. CASE logs' # logs
        <4>1. /\ logs' \in Seq(Seq(Nat)) /\ Len(logs') = Len(logs) + 1 /\ Len(logs) \in Nat
              /\ \A k \in 1..Len(logs) : logs'[k] = logs[k]
              /\ logs'[Len(logs) + 1] = frame
          BY <1>0, <2>1, <3>2, LogsGrow
        <4>2. ASSUME NEW k \in DOMAIN logs', NEW i \in 2..Len(logs'[k]) PROVE logs'[k][i] \notin first
          <5>1. k \in 1..Len(logs) \/ k = Len(logs) + 1
            BY <4>1
          <5>2. k \in 1..Len(logs) => k \in DOMAIN logs
            BY <1>0
          <5> QED BY <1>0, <4>1, <4>2, <5>1, <5>2 DEF FirstIsFirst, Sniffer!SilenceDivides
        <4> QED BY <2>1, <4>2 DEF Sniffer!SilenceDivides
      <3> QED BY <3>1, <3>2
    <2>4. Len(uart') = 0
      BY <2>1
    <2> QED BY <2>1, <2>2, <2>3, <2>4 DEF FirstIsFirst
  <1>3. CASE Sniffer!Tick
    <2>1. /\ UNCHANGED <<uart, first, frame, logs>> /\ age' >= age /\ age' \in Nat
      BY <1>0, <1>3 DEF Sniffer!Tick
    <2>2. Sniffer!SilenceDivides' <=> Sniffer!SilenceDivides
      BY <2>1 DEF Sniffer!SilenceDivides
    <2> QED BY <1>0, <2>1, <2>2 DEF FirstIsFirst
  <1> QED BY <1>1, <1>2, <1>3 DEF Sniffer!Next

LEMMA JoinedKept ==
    ASSUME Sniffer!SnifferAssumption, LineInv, Sniffer!Next
    PROVE  JoinedIsJoined'
  <1>0. /\ Scalars /\ Flags /\ Room /\ Clocks /\ JoinedIsJoined /\ Gap \in Nat /\ Gap > 0 /\ Sniffer!Long = Gap + 3
        /\ uart \in Seq(Nat) /\ frame \in Seq(Nat) /\ logs \in Seq(Seq(Nat))
        /\ Len(uart) \in Nat /\ Len(frame) \in Nat /\ Len(logs) \in Nat
        /\ quiet \in Nat /\ age \in Nat /\ PerTick \in Nat /\ FrameMax \in Nat
    BY DEF LineInv, Scalars, Room, Sniffer!SnifferAssumption, Sniffer!Long
  <1>1. CASE Sniffer!Come
    <2>1. /\ uart' = Append(uart, count + 1) /\ UNCHANGED <<frame, logs, age, turned>>
          /\ joined' = IF quiet < Gap THEN joined \cup {count + 1} ELSE joined
      BY <1>1 DEF Sniffer!Come
    <2>2. /\ Len(uart') = Len(uart) + 1 /\ uart' # <<>> /\ uart'[Len(uart) + 1] = count + 1
          /\ \A i \in 1..Len(uart) : uart'[i] = uart[i]
      BY <1>0, <2>1, ComesNew, Appended
    <2>3. \A x \in 1..count : x \in joined' => x \in joined
      BY <1>0, <2>1, ComesNew
    <2>4. Sniffer!OnlySilenceDivides'
      <3>1. ASSUME NEW k \in 2..Len(logs) PROVE logs[k][1] \in 1..count
        <4>1. k \in 1..Len(logs) /\ 1 \in 1..Len(logs[k])
          BY <1>0, ComesNew
        <4> QED BY <1>0, <4>1, ComesNew
      <3> QED BY <1>0, <2>1, <2>3, <3>1 DEF JoinedIsJoined, Sniffer!OnlySilenceDivides
    <2>5. ASSUME logs' # <<>>, frame' # <<>> PROVE Divided(logs[Len(logs)], frame[1])'
      <3>1. 1 \in 1..Len(frame)
        BY <1>0, <2>1, <2>5
      <3>2. frame[1] \in 1..count
        BY <1>0, <3>1, ComesNew
      <3> QED BY <1>0, <2>1, <2>3, <2>5, <3>2 DEF JoinedIsJoined, Divided
    <2>6. ASSUME uart'[1] \in joined'
          PROVE  /\ frame = <<>> => logs = <<>>
                 /\ frame # <<>> => age <= Gap /\ (turned => age < Gap)
      <3>1. CASE uart # <<>>
        <4>1. 1 \in 1..Len(uart)
          BY <1>0, <3>1
        <4>2. uart[1] \in joined
          BY <1>0, <2>2, <2>3, <2>6, <4>1, ComesNew
        <4> QED BY <1>0, <3>1, <4>2 DEF JoinedIsJoined
      <3>2. CASE uart = <<>>
        <4>1. uart'[1] = count + 1 /\ count + 1 \notin joined
          BY <1>0, <2>2, <3>2 DEF Scalars
        <4>2. quiet < Gap
          BY <2>1, <2>6, <4>1
        <4>3. frame = <<>> => logs = <<>>
          BY <1>0, <3>2, <4>2 DEF JoinedIsJoined
        <4>4. frame # <<>> => age < Gap
          BY <1>0, <3>2, <4>2 DEF Clocks
        <4> QED BY <1>0, <4>3, <4>4
      <3> QED BY <3>1, <3>2
    <2> QED BY <1>0, <2>1, <2>2, <2>4, <2>5, <2>6 DEF JoinedIsJoined
  <1>2. CASE Sniffer!Turn
    <2>1. uart' = <<>> /\ joined' = joined /\ quiet' = quiet /\ (Join \/ Split \/ Close \/ Idle)
      BY <1>0, <1>2, Turns DEF Sniffer!line
    <2>2. uart # <<>> => frame' # <<>>
      BY <1>0, <2>1 DEF Join, Split, Close, Idle
    <2>3. ASSUME logs' # <<>>, frame' # <<>> PROVE Divided(logs[Len(logs)], frame[1])'
      <3>1. CASE Join
        <4>1. logs' = logs /\ frame' = frame \o uart /\ uart # <<>>
          BY <3>1 DEF Join
        <4>2. CASE frame # <<>>
          <5>1. frame'[1] = frame[1]
            BY <1>0, <4>1, <4>2
          <5> QED BY <1>0, <2>1, <2>3, <4>1, <4>2, <5>1 DEF JoinedIsJoined, Divided
        <4>3. CASE frame = <<>>
          <5>1. frame'[1] = uart[1]
            BY <1>0, <4>1, <4>3, ConcatEmptySeq
          <5>2. uart[1] \notin joined
            BY <1>0, <2>3, <4>1, <4>3 DEF JoinedIsJoined
          <5> QED BY <2>1, <5>1, <5>2 DEF Divided
        <4> QED BY <4>2, <4>3
      <3>2. CASE Split
        <4>1. /\ logs'[Len(logs) + 1] = frame /\ Len(logs') = Len(logs) + 1 /\ frame' = uart
          BY <1>0, <3>2, Appended DEF Split
        <4>2. CASE age > Gap
          <5>1. uart[1] \notin joined
            BY <1>0, <3>2, <4>2 DEF JoinedIsJoined, Split
          <5> QED BY <2>1, <4>1, <5>1 DEF Divided
        <4>3. CASE Len(frame) + Len(uart) > FrameMax
          <5>1. Len(uart) <= 2 * PerTick
            BY <1>0, UartFits
          <5>2. Len(frame) + 2 * PerTick > FrameMax
            BY <1>0, <4>3, <5>1
          <5> QED BY <4>1, <5>2 DEF Divided
        <4> QED BY <3>2, <4>2, <4>3 DEF Split
      <3>3. CASE Close
        BY <2>3, <3>3 DEF Close
      <3>4. CASE Idle
        BY <1>0, <2>1, <2>3, <3>4 DEF Idle, JoinedIsJoined, Divided
      <3> QED BY <2>1, <3>1, <3>2, <3>3, <3>4
    <2>4. Sniffer!OnlySilenceDivides'
      <3>1. CASE logs' = logs
        BY <1>0, <2>1, <3>1 DEF JoinedIsJoined, Sniffer!OnlySilenceDivides
      <3>2. CASE logs' # logs
        <4>1. /\ frame # <<>> /\ Len(logs') = Len(logs) + 1 /\ logs'[Len(logs) + 1] = frame
              /\ \A k \in 1..Len(logs) : logs'[k] = logs[k]
          BY <1>0, <2>1, <3>2, LogsGrow
        <4>2. ASSUME NEW k \in 2..Len(logs'), logs'[k][1] \in joined
              PROVE  Len(logs'[k - 1]) + 2 * PerTick > FrameMax
          <5>0. k \in Nat /\ 2 <= k /\ k <= Len(logs) + 1
            BY <4>1
          <5>4. k - 1 \in 1..Len(logs)
            BY <1>0, <5>0
          <5>1. k - 1 \in 1..Len(logs) /\ logs'[k - 1] = logs[k - 1]
            BY <4>1, <5>4
          <5>2. CASE k \in 2..Len(logs)
            <6>1. logs'[k] = logs[k]
              BY <1>0, <4>1, <5>2
            <6> QED BY <1>0, <4>2, <5>1, <5>2, <6>1 DEF JoinedIsJoined, Sniffer!OnlySilenceDivides
          <5>3. CASE k = Len(logs) + 1
            <6>1. logs # <<>> /\ k - 1 = Len(logs)
              BY <1>0, <5>1, <5>3
            <6> QED BY <1>0, <4>1, <4>2, <5>1, <5>3, <6>1 DEF JoinedIsJoined, Divided
          <5>5. k \in 2..Len(logs) \/ k = Len(logs) + 1
            BY <1>0, <5>0
          <5> QED BY <5>2, <5>3, <5>5
        <4> QED BY <2>1, <4>2 DEF Sniffer!OnlySilenceDivides
      <3> QED BY <3>1, <3>2
    <2>5. ASSUME logs' # <<>>, frame' = <<>> PROVE quiet > Gap
      <3>1. CASE Close
        <4>1. age <= quiet /\ age > Gap
          BY <1>0, <3>1 DEF Close, Clocks
        <4> QED BY <1>0, <4>1
      <3>2. CASE Idle
        BY <1>0, <2>5, <3>2 DEF Idle, JoinedIsJoined
      <3> QED BY <2>1, <2>2, <2>5, <3>1, <3>2 DEF Join, Split
    <2> QED BY <2>1, <2>3, <2>4, <2>5 DEF JoinedIsJoined
  <1>3. CASE Sniffer!Tick
    <2>1. /\ UNCHANGED <<uart, joined, frame, logs>> /\ turned /\ ~turned'
          /\ quiet' = (IF quiet < Sniffer!Long THEN quiet + 1 ELSE quiet) /\ age' = (IF age < Sniffer!Long THEN age + 1 ELSE age)
      BY <1>3 DEF Sniffer!Tick
    <2>2. Sniffer!OnlySilenceDivides' /\ (logs # <<>> /\ frame # <<>> => Divided(logs[Len(logs)], frame[1])')
      BY <1>0, <2>1 DEF JoinedIsJoined, Sniffer!OnlySilenceDivides, Divided
    <2>3. logs # <<>> /\ frame = <<>> /\ uart = <<>> => quiet' > Gap
      BY <1>0, <2>1 DEF JoinedIsJoined
    <2>4. uart # <<>> /\ uart[1] \in joined /\ frame # <<>> => age' <= Gap
      BY <1>0, <2>1 DEF JoinedIsJoined
    <2>5. uart # <<>> /\ uart[1] \in joined /\ frame = <<>> => logs = <<>>
      BY <1>0 DEF JoinedIsJoined
    <2> QED BY <2>1, <2>2, <2>3, <2>4, <2>5 DEF JoinedIsJoined
  <1> QED BY <1>1, <1>2, <1>3 DEF Sniffer!Next

-----------------------------------------------------------------------------
LEMMA LineInvKept == Sniffer!SnifferAssumption /\ LineInv /\ [Sniffer!Next]_Sniffer!vars => LineInv'
  <1> SUFFICES ASSUME Sniffer!SnifferAssumption, LineInv, [Sniffer!Next]_Sniffer!vars PROVE LineInv'
    OBVIOUS
  <1>1. CASE Sniffer!Next
    <2>1. Room'
      BY <1>1, RoomKept
    <2> QED BY <1>1, <2>1, ScalarsKept, ClocksKept, NothingLostKept, FirstKept, JoinedKept DEF LineInv
  <1>2. CASE UNCHANGED Sniffer!vars
    BY <1>2 DEF Sniffer!vars, LineInv, Scalars, Flags, Room, Sniffer!Long, Clocks, Sniffer!NothingIsLost, Sniffer!Before, Sniffer!Follows, FirstIsFirst,
                Sniffer!SilenceDivides, JoinedIsJoined, Sniffer!OnlySilenceDivides, Divided
  <1> QED BY <1>1, <1>2

LEMMA LineInvShows == Sniffer!SnifferAssumption /\ LineInv => Sniffer!TypeOK /\ Messages
  <1> SUFFICES ASSUME Sniffer!SnifferAssumption, LineInv PROVE Sniffer!TypeOK /\ Messages
    OBVIOUS
  <1>1. Sniffer!QuietIsLogged
    BY DEF LineInv, Clocks, Scalars, Sniffer!SnifferAssumption, Sniffer!Long, Sniffer!QuietIsLogged
  <1>2. first \cup joined \subseteq 1..count /\ Sniffer!TypeOK
    BY DEF LineInv, Scalars, Flags, Room, Sniffer!TypeOK, Sniffer!Range, Range
  <1> QED BY <1>1, <1>2 DEF LineInv, Messages, FirstIsFirst, JoinedIsJoined

\* Every byte of the line is logged once and in its place, divided where the line was silent and
\* nowhere else but where a frame is full, as soon as the line is silent (rs485SnifferTask).
THEOREM MessagesAreLogged == ASSUME Sniffer!SnifferAssumption PROVE Sniffer!Spec => []Messages
  <1>1. Sniffer!Init => LineInv
    BY StartInv
  <1>2. LineInv /\ [Sniffer!Next]_Sniffer!vars => LineInv'
    BY LineInvKept
  <1>3. LineInv => Messages
    BY LineInvShows
  <1> QED BY <1>1, <1>2, <1>3, PTL DEF Sniffer!Spec

-----------------------------------------------------------------------------
(* The line beside the modes.                                              *)

SnifferInv == part = "line" => LineInv

LEMMA LineStarts == McInit => SnifferInv
  BY SnifferIsAssumed, StartInv DEF McInit, SnifferInv

LEMMA LineStays == SnifferInv /\ [McNext]_<<part, vars, snifferVars>> => SnifferInv'
  <1> SUFFICES ASSUME SnifferInv, [McNext]_<<part, vars, snifferVars>>, part' = "line" PROVE LineInv'
    BY DEF SnifferInv
  <1>1. part = "line" /\ LineInv
    BY DEF SnifferInv, McNext, ModeStep, LineStep
  <1>2. Sniffer!Next \/ UNCHANGED Sniffer!vars
    BY <1>1 DEF McNext, ModeStep, LineStep, snifferVars, Sniffer!vars
  <1> QED BY <1>1, <1>2, SnifferIsAssumed, LineInvKept

LEMMA LineShows == SnifferInv => FramesAreTheMessages
  BY SnifferIsAssumed, LineInvShows DEF SnifferInv, FramesAreTheMessages, Messages

\* The log of the RS485 sniffer shows the messages that were on the line (rs485SnifferTask),
\* however many bytes come in a tick, and however long a frame and the gap are.
THEOREM FramesAreTheMessagesAlways == McSpec => []FramesAreTheMessages
  BY LineStarts, LineStays, LineShows, PTL DEF McSpec
=============================================================================
