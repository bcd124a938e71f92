----------------------------- MODULE WorkingModes -----------------------------
(***************************************************************************)
(* Forward and sniffer mode: the tasks a mode is started with, any of      *)
(* which may fail to be created, and the CAN forwarder, which edits the    *)
(* frames to the inverter while the override set by the web interface is   *)
(* on. What a frame tells is 0 when the battery's own, or the number of    *)
(* the POST that set the override it was edited with.                      *)
(***************************************************************************)
EXTENDS Naturals, Sequences, SequencesExt

CONSTANTS
    ModesToStart,  \* "forward", "sniffer"
    Ids,           \* frames the battery sends
    Short,         \* those of them with fewer than eight bytes
    Limits,        \* may an override tell limits above zero: a set of booleans
    MaxPosts       \* bound: POSTs of the override

Edited     == {"f351", "f355", "f356", "f35C", "f373"}
MaxHandles == 8

ASSUME ModesAssumption ==
    /\ ModesToStart \subseteq {"forward", "sniffer"} /\ Short \subseteq Ids
    /\ Limits \subseteq BOOLEAN /\ MaxPosts \in Nat

VARIABLES
    mode,
    todo,      \* the tasks still to be created
    tasks,     \* the tasks that run
    handles,   \* s_modeTaskHandles
    start,     \* "running", "started" or "failed"
    hand,      \* of the forwarder: the frame received, then edited
    model,     \* what the decoder took from frames
    inverter,  \* what was sent to the inverter, by identifier
    fake,      \* g_debugBatteryModel
    enabled,   \* g_debugBatteryModelEnabled
    post,      \* the POST between its two calls
    late       \* edited frames sent since the answer to such a POST

boot  == <<mode, todo, tasks, handles, start>>
web   == <<fake, enabled, post>>
vars  == <<boot, web, hand, model, inverter, late>>

Told == 0..MaxPosts
Frames == [id : Ids, stage : {"received", "edited"}, told : Told]

TypeOK ==
    /\ mode \in ModesToStart /\ start \in {"running", "started", "failed"}
    /\ Len(handles) <= MaxHandles /\ Range(handles) \subseteq tasks
    /\ hand \subseteq Frames /\ model \subseteq Told
    /\ DOMAIN inverter \subseteq Ids /\ Range(inverter) \subseteq Told
    /\ fake \in [n : Told, limits : BOOLEAN] /\ enabled \in BOOLEAN /\ post \subseteq BOOLEAN
    /\ late \in 0..MaxPosts * 2

Must(m) == IF m = "forward" THEN <<"fw_can1_to_2", "fw_rs1_to_2">>
           ELSE <<"snif_can1", "snif_can2", "snif_rs1", "snif_rs2">>
May(m)  == IF m = "forward" THEN <<"fw_can_snap", "fw_rs_snap">>
           ELSE <<"snif_can_snap", "snif_can1_stat", "snif_can2_stat", "snif_rs1_snap", "snif_rs2_snap">>

Init ==
    /\ mode \in ModesToStart /\ todo = Must(mode) \o May(mode)
    /\ tasks = {} /\ handles = <<>> /\ start = "running"
    /\ hand = {} /\ model = {} /\ inverter = [i \in {} |-> 0]
    /\ fake = [n |-> 0, limits |-> FALSE] /\ enabled = FALSE /\ post = {} /\ late = 0

-----------------------------------------------------------------------------
(* workingModesStart, startForwardMode, startSnifferMode.                  *)

\* pushTaskHandle: what does not fit is dropped.
Push(h) == handles' = IF Len(handles) < MaxHandles THEN Append(handles, h) ELSE handles

Created ==
    /\ start = "running" /\ todo # <<>> /\ tasks' = tasks \cup {Head(todo)} /\ Push(Head(todo))
    /\ todo' = Tail(todo) /\ UNCHANGED <<mode, start, web, hand, model, inverter, late>>

\* Mutant: a task that must run may be missing.
NotCreatedIgnored ==
    /\ start = "running" /\ todo # <<>> /\ todo' = Tail(todo)
    /\ UNCHANGED <<mode, tasks, handles, start, web, hand, model, inverter, late>>

\* A task that may be missing is not missed; for one that must run the start fails, and the tasks
\* before it go on.
NotCreated ==
    /\ start = "running" /\ todo # <<>> /\ todo' = Tail(todo)
    /\ start' = IF Head(todo) \in Range(Must(mode)) THEN "failed" ELSE start
    /\ UNCHANGED <<mode, tasks, handles, web, hand, model, inverter, late>>

Started ==
    /\ start = "running" /\ todo = <<>> /\ start' = "started"
    /\ UNCHANGED <<mode, todo, tasks, handles, web, hand, model, inverter, late>>

-----------------------------------------------------------------------------
(* canForwardTask.                                                         *)

Runs == "fw_can1_to_2" \in tasks

\* Mutant: the status is not edited.
EditWithoutStatus(i) ==
    IF enabled /\ fake.n > 0 /\ i \in (Edited \ {"f35C"}) \ Short /\ (i = "f351" => fake.limits) THEN fake.n ELSE 0

\* Mutant: the switch is not looked at.
EditAlways(i) ==
    IF fake.n > 0 /\ i \in Edited \ Short /\ (i = "f351" => fake.limits) THEN fake.n ELSE 0

\* maybeApplyPylonFakeOverride: frames of eight bytes; limits only when above zero.
Edit(i) ==
    IF enabled /\ fake.n > 0 /\ i \in Edited \ Short /\ (i = "f351" => fake.limits) THEN fake.n ELSE 0

\* A frame is decoded as it was received.
Receive(i) ==
    /\ Runs /\ hand = {} /\ i \in Ids /\ hand' = {[id |-> i, stage |-> "received", told |-> 0]}
    /\ model' = model \cup {0}
    /\ UNCHANGED <<boot, web, inverter, late>>

Override ==
    \E f \in hand :
        /\ f.stage = "received" /\ hand' = {[f EXCEPT !.stage = "edited", !.told = Edit(f.id)]}
        /\ UNCHANGED <<boot, web, model, inverter, late>>

\* twai_transmit_v2 waits for room in its queue for 50 ms.
Transmit ==
    \E f \in hand :
        /\ f.stage = "edited" /\ hand' = {}
        /\ inverter' = [i \in DOMAIN inverter \cup {f.id} |-> IF i = f.id THEN f.told ELSE inverter[i]]
        /\ late' = IF f.told > 0 /\ ~enabled /\ late < MaxPosts * 2 THEN late + 1 ELSE late
        /\ UNCHANGED <<boot, web, model>>

TransmitFails ==
    \E f \in hand : f.stage = "edited" /\ hand' = {} /\ UNCHANGED <<boot, web, model, inverter, late>>

\* canSnifferTask decodes and sends nothing.
Sniff ==
    /\ {"snif_can1", "snif_can2"} \cap tasks # {} /\ model' = model \cup {0}
    /\ UNCHANGED <<boot, web, hand, inverter, late>>

-----------------------------------------------------------------------------
(* fakeBmsPostHandler: two calls, each under the lock. The web interface   *)
(* is started when the mode is, or when that has failed.                   *)

SetDebugOverride(on, limits) ==
    /\ start # "running" /\ post = {} /\ fake.n < MaxPosts /\ limits \in Limits
    /\ fake' = [n |-> fake.n + 1, limits |-> limits] /\ post' = {on}
    /\ UNCHANGED <<boot, enabled, hand, model, inverter, late>>

SetDebugOverrideEnabled ==
    \E on \in post :
        /\ enabled' = on /\ post' = {} /\ late' = 0
        /\ UNCHANGED <<boot, fake, hand, model, inverter>>

Next ==
    \/ Created \/ NotCreated \/ Started
    \/ \E i \in Ids : Receive(i)
    \/ Override \/ Transmit \/ TransmitFails \/ Sniff
    \/ \E on \in BOOLEAN, limits \in BOOLEAN : SetDebugOverride(on, limits)
    \/ SetDebugOverrideEnabled

\* The battery sends every frame again and again, and its frames are not lost forever.
SendAndReach(i) == Transmit /\ \E f \in hand : f.id = i

Fairness == /\ WF_vars(Override) /\ WF_vars(SetDebugOverrideEnabled)
            /\ \A i \in Ids : SF_vars(Receive(i)) /\ SF_vars(SendAndReach(i))

Spec == Init /\ [][Next]_vars /\ Fairness

-----------------------------------------------------------------------------
\* A mode that is reported as started has every task it cannot do without.
StartedIsWhole == start = "started" => Range(Must(mode)) \subseteq tasks

\* After a POST has switched the override off, at most the frame in the forwarder's hand is still
\* sent edited.
OneFrameIsLate == late <= 1

\* A frame that has room for what the last POST set.
HoldsOverride(i) == i \in Edited \ Short /\ (i = "f351" => fake.limits)

\* When no more POSTs come, the inverter is in the end told what the last one set: its values, in
\* the frames that hold them, or the battery's own.
InverterFollowsOverride ==
    <>[](fake.n = MaxPosts) =>
        <>[](\A i \in DOMAIN inverter : inverter[i] = IF enabled /\ HoldsOverride(i) THEN fake.n ELSE 0)
=============================================================================
