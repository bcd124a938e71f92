--------------------------- MODULE PylonPassthrough ---------------------------
(***************************************************************************)
(* The Pylon RS485 bridge between a Pylon battery and a Pylon inverter,    *)
(* both on RS485: one task per side forwards what it receives, notes the   *)
(* inverter's requests, decodes the answers it takes for theirs, raises    *)
(* the SOC of answers that report too little, and answers the inverter     *)
(* itself while the override is on.  The tasks share everything, with no   *)
(* lock.                                                                   *)
(***************************************************************************)
EXTENDS PylonCache, Sequences

CONSTANTS
    Adrs,         \* addresses of the battery packs
    PairWindow,   \* one second: an answer is taken for that to a noted request
    Stale,        \* PYLON_RS485_SOURCE_STALE_MS
    MaxDelay,     \* the longest the battery takes for an answer
    Patience,     \* the shortest the inverter waits before it asks again
    MaxToggles    \* bound: how often the override is switched

PassAssumption ==
    {PairWindow, Stale, MaxDelay, Patience, MaxToggles} \subseteq Nat

\* The battery answers while its answer is still paired with the request, and the inverter
\* waits for longer than that.
LineAssumption == MaxDelay <= PairWindow /\ PairWindow < Patience

\* Requests: the four decoded commands and 0x92, which stands for all others.
Requests == [cid : Kinds, adr : Adrs, at : 1..MaxTime]

NoRequest == [cid |-> "none", adr |-> 0, at |-> 0]

Answers == [adr : Adrs, p : Payloads]

NoAnswer == [adr |-> 0, p |-> None]

VARIABLES
    now,
    asked,               \* the inverter's newest request, or NoRequest
    toBridge, toBattery, toBridgeBack,   \* what is on the wires
    override, toggles,   \* the debug override
    pend,                \* s_forwardPending
    store,               \* s_pylonCache, s_pylonSummary, g_batteryModel, telemetry
    lastBms,             \* s_lastPylonBmsTrafficUs
    inv, bms,            \* the two tasks: place in processPylonBridgeFrame and frame
    heard,               \* what the inverter heard last
    passed               \* per command, the last answer that was passed on

lineVars == <<asked, toBridge, toBattery, toBridgeBack>>
vars == <<now, lineVars, override, toggles, pend, store, lastBms, inv, bms, heard, passed>>

InvIdle == [pc |-> "read", req |-> NoRequest, fake |-> FALSE, steady |-> TRUE]
BmsIdle == [pc |-> "read", ans |-> NoAnswer, fake |-> FALSE]

Heard == [ans : Answers \cup {NoAnswer}, req : Requests \cup {NoRequest},
          by : {"none", "battery", "bridge"}, steady : BOOLEAN]

TypeOK ==
    /\ now \in 1..MaxTime
    /\ asked \in Requests \cup {NoRequest}
    /\ toBridge \in Seq(Requests) /\ toBattery \in Seq(Requests)
    /\ toBridgeBack \in Seq(Answers)
    /\ override \in BOOLEAN /\ toggles \in 0..MaxToggles
    /\ pend \in [valid : BOOLEAN, cid : Cids \cup {"none"}, adr : Adrs \cup {0}, at : 0..MaxTime]
    /\ store \in Stores
    /\ lastBms \in 0..MaxTime
    /\ inv \in [pc : {"read", "note", "act", "check", "61", "42", "63", "pick"},
                req : Requests \cup {NoRequest}, fake : BOOLEAN, steady : BOOLEAN]
    /\ bms \in [pc : {"read", "decode", "out"}, fake : BOOLEAN,
                ans : Answers \cup {NoAnswer}]
    /\ heard \in Heard
    /\ passed \in [Kinds -> Slot]

Init ==
    /\ now = 1
    /\ asked = NoRequest /\ toBridge = <<>> /\ toBattery = <<>> /\ toBridgeBack = <<>>
    /\ override = FALSE /\ toggles = 0
    /\ pend = [valid |-> FALSE, cid |-> "none", adr |-> 0, at |-> 0]
    /\ store = EmptyStore
    /\ lastBms = 0
    /\ inv = InvIdle /\ bms = BmsIdle
    /\ heard = [ans |-> NoAnswer, req |-> NoRequest, by |-> "none", steady |-> TRUE]
    /\ passed = [c \in Kinds |-> None]

-----------------------------------------------------------------------------
(* The task of the inverter's side.                                        *)

\* The commands whose answers are decoded.
Noted(cid) == cid \in Cids

\* A request is read; of the pending request the valid flag is written first.
TakeRequest ==
    /\ inv.pc = "read" /\ toBridge # <<>>
    /\ toBridge' = Tail(toBridge)
    /\ LET req == Head(toBridge)
       IN  /\ inv' = [inv EXCEPT !.pc = IF Noted(req.cid) THEN "note" ELSE "act",
                                 !.req = req, !.fake = override, !.steady = TRUE]
           /\ pend' = IF Noted(req.cid) THEN [pend EXCEPT !.valid = TRUE] ELSE pend
    /\ UNCHANGED <<now, asked, toBattery, toBridgeBack, override, toggles, store, lastBms, bms,
                   heard, passed>>

NoteRequest ==
    /\ inv.pc = "note"
    /\ pend' = [pend EXCEPT !.cid = inv.req.cid, !.adr = inv.req.adr, !.at = now]
    /\ inv' = [inv EXCEPT !.pc = "act"]
    /\ UNCHANGED <<now, lineVars, override, toggles, store, lastBms, bms, heard, passed>>

ForwardRequest ==
    /\ inv.pc = "act" /\ ~inv.fake
    /\ toBattery' = Append(toBattery, inv.req)
    /\ inv' = [inv EXCEPT !.pc = "read"]
    /\ UNCHANGED <<now, asked, toBridge, toBridgeBack, override, toggles, pend, store, lastBms,
                   bms, heard, passed>>

\* pylonBmsSourceFresh, on a route of two native sides.
SourceFresh == override \/ (lastBms # 0 /\ now - lastBms <= Stale)

\* buildCachedResponse: nothing is answered from a source that is not fresh.
CheckSource ==
    /\ inv.pc = "act" /\ inv.fake
    /\ inv' = [inv EXCEPT !.pc = IF SourceFresh THEN "check" ELSE "read"]
    /\ UNCHANGED <<now, lineVars, override, toggles, pend, store, lastBms, bms, heard, passed>>

\* maybeRefreshSyntheticCacheFromUniversal does nothing once the override is off.
BeginRefresh ==
    /\ inv.pc = "check"
    /\ inv' = [inv EXCEPT !.pc = IF override THEN "61" ELSE "pick"]
    /\ UNCHANGED <<now, lineVars, override, toggles, pend, store, lastBms, bms, heard, passed>>

\* What pylonGetBatteryModelForSettings reads: the override, or a fresh model.
ModelReads == override \/ (store.model.valid /\ now - store.model.stamp <= Stale)

ValueRead  == IF override THEN Fake ELSE store.model.pack.val

Refreshed61(st) ==
    IF ~ModelReads THEN st
    ELSE LET p == Build61(ValueRead)
         IN  Published([st EXCEPT !.info["61"] = p,
                                  !.summary = [Summarised(@, "61", p) EXCEPT !.cells = None]], now)

\* Neither the override nor a model from the summary has a list of cells.
Refreshed42(st) == [st EXCEPT !.info["62"] = Zero62, !.info["42"] = None, !.summary.cells = None]

Refreshed63(st) ==
    IF ~ModelReads THEN st
    ELSE LET p == Build63(ValueRead)
         IN  Published([st EXCEPT !.info["63"] = p, !.summary = Summarised(@, "63", p)], now)

RefreshStep(here, next, refreshed) ==
    /\ inv.pc = here
    /\ store' = refreshed
    /\ inv' = [inv EXCEPT !.pc = next]
    /\ UNCHANGED <<now, lineVars, override, toggles, pend, lastBms, bms, heard, passed>>

Refresh61 == RefreshStep("61", "42", Refreshed61(store))
Refresh42 == RefreshStep("42", "63", Refreshed42(store))
Refresh63 == RefreshStep("63", "pick", Refreshed63(store))

\* The rest of buildPylonCachedResponseFrame, and forwardFrame to the inverter.
AnswerInverter ==
    /\ inv.pc = "pick"
    /\ LET c == inv.req.cid
           p == IF c \in Cids THEN store.info[c] ELSE Built(c, ValueRead, 9)
       IN  heard' = IF p = None THEN heard
                    ELSE [ans |-> [adr |-> inv.req.adr, p |-> p], req |-> inv.req,
                          by |-> "bridge", steady |-> inv.steady]
    /\ inv' = [inv EXCEPT !.pc = "read"]
    /\ UNCHANGED <<now, lineVars, override, toggles, pend, store, lastBms, bms, passed>>

-----------------------------------------------------------------------------
(* The task of the battery's side.                                         *)

\* maybeClearNativePylonCacheIfStale, in every round of the task.
SourceGone ==
    /\ ~override /\ HasData(store)
    /\ ~(lastBms # 0 /\ now - lastBms <= Stale)

DropStale ==
    /\ bms.pc = "read" /\ SourceGone
    /\ store' = EmptyStore
    /\ UNCHANGED <<now, lineVars, override, toggles, pend, lastBms, inv, bms, heard, passed>>

InWindow == now - pend.at <= PairWindow

\* Mutant: only answers of the length of an 0x61 are raised.
FloorAppliesBySize(p) == p.low /\ p.size = 49

\* maybeApplyPylonSocFloor looks at the length and at the pending request; the
\* answer itself does not say what it answers.
FloorApplies(p) ==
    /\ p.low /\ p.size >= 5
    /\ p.size = 49 \/ (pend.valid /\ pend.cid = "61" /\ InWindow)

\* The byte is raised and the checksum computed anew.
Floored(a) ==
    IF FloorApplies(a.p) THEN [a EXCEPT !.p.low = FALSE, !.p.how = "raised"] ELSE a

TakeAnswer ==
    /\ bms.pc = "read" /\ toBridgeBack # <<>> /\ ~SourceGone
    /\ toBridgeBack' = Tail(toBridgeBack)
    /\ lastBms' = now
    /\ bms' = [bms EXCEPT !.pc = "decode", !.ans = Floored(Head(toBridgeBack)), !.fake = override]
    /\ UNCHANGED <<now, asked, toBridge, toBattery, override, toggles, pend, store, inv, heard,
                   passed>>

Pairs(a) == pend.valid /\ a.adr = pend.adr /\ InWindow

\* maybeHandlePassivePylonDecode.
Decode ==
    /\ bms.pc = "decode"
    /\ store' = IF Pairs(bms.ans) /\ pend.cid \in Cids
                THEN Cached(store, pend.cid, bms.ans.p, now) ELSE store
    /\ pend' = IF Pairs(bms.ans) THEN [pend EXCEPT !.valid = FALSE] ELSE pend
    /\ bms' = [bms EXCEPT !.pc = "out"]
    /\ UNCHANGED <<now, lineVars, override, toggles, lastBms, inv, heard, passed>>

\* The answer goes to the inverter unless the override was on when it came.
PassOn ==
    /\ bms.pc = "out"
    /\ IF bms.fake THEN UNCHANGED <<heard, passed>>
       ELSE /\ heard' = [ans |-> bms.ans, req |-> asked, by |-> "battery", steady |-> TRUE]
            /\ passed' = [passed EXCEPT ![bms.ans.p.of] = bms.ans.p]
    /\ bms' = [bms EXCEPT !.pc = "read"]
    /\ UNCHANGED <<now, lineVars, override, toggles, pend, store, lastBms, inv>>

-----------------------------------------------------------------------------
(* The inverter, the battery, the web server and the clock.                *)

\* The inverter asks when it was answered, or has waited long enough.
Ask(c, adr) ==
    /\ now - asked.at >= Patience
    /\ asked' = [cid |-> c, adr |-> adr, at |-> now]
    /\ toBridge' = Append(toBridge, asked')
    /\ UNCHANGED <<now, toBattery, toBridgeBack, override, toggles, pend, store, lastBms, inv, bms,
                   heard, passed>>

\* The battery answers the oldest request.
Answer(size, low) ==
    /\ toBattery # <<>>
    /\ size \in Sizes[Head(toBattery).cid]
    /\ LET r == Head(toBattery)
       IN  toBridgeBack' =
             Append(toBridgeBack, [adr |-> r.adr,
                 p |-> [of |-> r.cid, val |-> now, size |-> size, low |-> low, how |-> "came"]])
    /\ toBattery' = Tail(toBattery)
    /\ UNCHANGED <<now, asked, toBridge, override, toggles, pend, store, lastBms, inv, bms, heard,
                   passed>>

NoReply ==
    /\ toBattery # <<>>
    /\ toBattery' = Tail(toBattery)
    /\ UNCHANGED <<now, asked, toBridge, toBridgeBack, override, toggles, pend, store, lastBms,
                   inv, bms, heard, passed>>

\* fakeBmsPostHandler switches the override.
Toggle ==
    /\ toggles < MaxToggles
    /\ toggles' = toggles + 1 /\ override' = ~override
    /\ inv' = [inv EXCEPT !.steady = FALSE]
    /\ UNCHANGED <<now, lineVars, pend, store, lastBms, bms, heard, passed>>

\* A tick is far longer than the handling of a frame and than a round of a task.
Tick ==
    /\ now < MaxTime
    /\ inv.pc = "read" /\ bms.pc = "read"
    /\ toBridge = <<>> /\ toBridgeBack = <<>>
    /\ ~SourceGone
    /\ \A i \in DOMAIN toBattery : now - toBattery[i].at < MaxDelay
    /\ now' = now + 1
    /\ UNCHANGED <<lineVars, override, toggles, pend, store, lastBms, inv, bms, heard, passed>>

Next ==
    \/ TakeRequest \/ NoteRequest \/ ForwardRequest
    \/ CheckSource \/ BeginRefresh \/ Refresh61 \/ Refresh42 \/ Refresh63 \/ AnswerInverter
    \/ DropStale \/ TakeAnswer \/ Decode \/ PassOn
    \/ \E c \in Kinds, adr \in Adrs : Ask(c, adr)
    \/ \E size \in UNION {Sizes[c] : c \in Kinds}, low \in BOOLEAN : Answer(size, low)
    \/ NoReply \/ Toggle \/ Tick

Spec == Init /\ [][Next]_vars

-----------------------------------------------------------------------------
(* Properties.                                                             *)

\* What the inverter gets as the SOC is not below the floor, whatever the length
\* of the battery's answer: the pending request is still known when it comes
\* (pylon_rs485_bridge.c, maybeApplyPylonSocFloor, s_forwardPending).
FloorHolds ==
    (heard.by = "battery" /\ heard.ans.p.of = "61" /\ heard.ans.p.size >= 5)
        => ~heard.ans.p.low

\* An answer is cached and decoded as what it is, although it does not say so
\* (maybeHandlePassivePylonDecode), if the inverter lets the battery answer.
AttributedRight ==
    /\ \A c \in Cids : store.info[c] # None => store.info[c].of = c
    /\ store.summary.pack # None => store.summary.pack.of = "61"
    /\ store.summary.status # None => store.summary.status.of = "63"

\* Web and model tell the SOC the inverter was told: of one measurement the
\* cache never holds another form than the one that was passed on.
CacheIsWhatWasPassed ==
    \A c \in Cids :
        (store.info[c].of = c /\ store.info[c].how # "built" /\ store.info[c].val = passed[c].val)
            => store.info[c] = passed[c]

\* An answer the bridge gives under an override that stayed on is fake, also
\* when answers of the battery come in at the same time.
OverrideAnswersAreFake ==
    (heard.by = "bridge" /\ heard.steady) => heard.ans.p.val = Fake

\* Of a step: when the battery falls silent, web and model are emptied, also when no
\* frame comes any more (CHANGELOG.md:96).
SilentIsHidden ==
    (now' > now /\ ~override /\ now - lastBms > Stale) => ~store.shown.valid /\ ~store.model.valid
=============================================================================
