------------------------- MODULE InverterLines_proofs -------------------------
(***************************************************************************)
(* For every size of an answer, window, delay and set of requests: what    *)
(* the Pylon bridge tells an inverter is right and not old, and so is what *)
(* the Growatt responder tells. Of the bridge, the argument is that one    *)
(* request is on its way at a time, and that what is kept of an earlier    *)
(* one is too old to be taken for it.  Of the responder, that its stream   *)
(* of requests may be cut anywhere, and that what it knows of a battery    *)
(* ages with the silence of the battery.                                   *)
(***************************************************************************)
EXTENDS MCInverterLines, SequenceTheorems, FiniteSetTheorems, TLAPS

-----------------------------------------------------------------------------
(* The Pylon bridge: one request at a time, on the wires or in a task.     *)

\* Where the request is that the inverter waits for.
Coming   == toBridge # <<>>
InTask   == inv.pc # "read"
Out      == toBattery # <<>>
Back     == toBridgeBack # <<>>
InAnswer == bms.pc # "read"

AtBattery == Out \/ Back \/ bms.pc = "decode"

\* It is in one place, and there is no other.
OneAtATime ==
    /\ Coming => ~InTask /\ ~Out /\ ~Back /\ ~InAnswer
    /\ InTask => ~Out /\ ~Back /\ ~InAnswer
    /\ Out => ~Back /\ ~InAnswer
    /\ Back => ~InAnswer

\* It is the newest, and an answer to it is of this tick.
ItIsTheNewest ==
    /\ Coming => toBridge = <<asked>>
    /\ InTask => inv.req = asked
    /\ Out => toBattery = <<asked>>
    /\ Back => \E a \in Pylon!Answers :
                   toBridgeBack = <<a>> /\ a.adr = asked.adr /\ a.p.of = asked.cid /\ a.p.val = now
    /\ InAnswer => bms.ans \in Pylon!Answers /\ bms.ans.adr = asked.adr
                   /\ bms.ans.p.of = asked.cid /\ bms.ans.p.val = now

InTime ==
    /\ asked.at <= now
    /\ Coming \/ InTask => asked # Pylon!NoRequest /\ now = asked.at
    /\ Out \/ Back \/ InAnswer => asked # Pylon!NoRequest /\ now <= asked.at + MaxDelay

-----------------------------------------------------------------------------
(* The request that is noted.                                              *)

IsNoted == pend.cid = asked.cid /\ pend.adr = asked.adr /\ pend.at = asked.at

\* What is noted of an earlier request is too old to be paired.
NotedOrOld == pend.valid /\ inv.pc # "note" => IsNoted \/ pend.at + Patience <= asked.at

\* The answer of the battery finds its request.
NotedInTime ==
    /\ inv.pc = "note" => asked.cid \in Pylon!Cids /\ pend.valid
    /\ inv.pc = "act" \/ AtBattery => (asked.cid \in Pylon!Cids => pend.valid /\ IsNoted)

NoteInv == NotedOrOld /\ NotedInTime /\ pend.at <= asked.at

-----------------------------------------------------------------------------
(* What the answers tell.                                                  *)

Measured(p) == p.how # "built"

\* What is cached and what was passed on are from before the request that is not answered.
ValuesAreOld ==
    /\ \A c \in Pylon!Kinds : passed[c].val <= now /\ passed[c].val <= asked.at + MaxDelay
    /\ \A c \in Pylon!Cids : Measured(store.info[c]) =>
           store.info[c].val <= now /\ store.info[c].val <= asked.at + MaxDelay
    /\ Coming \/ InTask \/ AtBattery =>
           \A c \in Pylon!Cids : Measured(store.info[c]) => store.info[c].val < asked.at
    /\ Coming \/ InTask \/ Out \/ Back \/ InAnswer =>
           \A c \in Pylon!Kinds : passed[c].val < asked.at
    /\ bms.pc = "out" =>
           \A c \in Pylon!Cids : Measured(store.info[c]) =>
               store.info[c] = bms.ans.p \/ store.info[c].val < asked.at

FloorInv ==
    /\ Pylon!FloorHolds
    /\ InAnswer /\ bms.ans.p.of = "61" /\ bms.ans.p.size >= 5 => ~bms.ans.p.low

\* Under an override that stays on, what the cache holds becomes fake before it is told.
RefreshInv ==
    /\ inv.pc \in {"check", "61", "42", "63", "pick"} => inv.fake
    /\ InTask /\ inv.steady /\ inv.fake => override
    /\ inv.steady =>
           /\ inv.pc \in {"42", "63", "pick"} => store.info["61"].val = Pylon!Fake
           /\ inv.pc \in {"63", "pick"} => store.info["42"].val = Pylon!Fake /\ store.info["62"].val = Pylon!Fake
           /\ inv.pc = "pick" => store.info["63"].val = Pylon!Fake

\* What is shown comes from the summary.
SummaryIsShown == store.shown.valid \/ store.model.valid => store.summary.valid

Place == OneAtATime /\ ItIsTheNewest /\ InTime

PylonInv ==
    /\ Pylon!TypeOK /\ Place /\ NoteInv
    /\ ValuesAreOld /\ FloorInv /\ Pylon!AttributedRight /\ Pylon!CacheIsWhatWasPassed
    /\ RefreshInv /\ Pylon!OverrideAnswersAreFake /\ SummaryIsShown

PylonIsRight == line = "pylon" => PylonInv

-----------------------------------------------------------------------------
(* Types.                                                                  *)

LEMMA PylonConstants ==
    /\ MaxTime \in Nat \ {0} /\ Sizes \in [Pylon!Kinds -> SUBSET Nat]
    /\ PairWindow \in Nat /\ PylonStale \in Nat /\ MaxDelay \in Nat /\ Patience \in Nat /\ MaxToggles \in Nat
    /\ MaxDelay <= PairWindow /\ PairWindow < Patience
  BY LinesAssumption DEF Pylon!SizesAssumption, Pylon!TimeAssumption, Pylon!PassAssumption, Pylon!LineAssumption

LEMMA SlotsAre ==
    /\ Pylon!None \in Pylon!Slot /\ Pylon!Zero62 \in Pylon!Payloads /\ Pylon!Payloads \subseteq Pylon!Slot
    /\ \A p \in Pylon!Slot : p.val \in 0..MaxTime
    /\ \A c \in Pylon!Kinds, v \in 0..MaxTime, n \in {8, 9, 49} : Pylon!Built(c, v, n) \in Pylon!Payloads
    /\ Pylon!Cids \subseteq Pylon!Kinds
  BY PylonConstants DEF Pylon!None, Pylon!Slot, Pylon!Zero62, Pylon!Payloads, Pylon!Built, Pylon!Kinds, Pylon!Cids, Pylon!Fake

LEMMA SummarisedType ==
    ASSUME NEW sum \in [valid : BOOLEAN, pack : Pylon!Slot, cells : Pylon!Slot, status : Pylon!Slot],
           NEW c \in Pylon!Kinds, NEW p \in Pylon!Slot
    PROVE  Pylon!Summarised(sum, c, p) \in [valid : BOOLEAN, pack : Pylon!Slot, cells : Pylon!Slot, status : Pylon!Slot]
  BY SlotsAre DEF Pylon!Summarised

LEMMA PublishedType ==
    ASSUME NEW st \in Pylon!Stores, NEW t \in 0..MaxTime
    PROVE  Pylon!Published(st, t) \in Pylon!Stores
  <1>1. Pylon!NoModel \in Pylon!Models
    BY SlotsAre, PylonConstants DEF Pylon!Models, Pylon!NoModel
  <1>2. Pylon!ModelFromSummary(st.summary, t) \in Pylon!Models
    BY DEF Pylon!Stores, Pylon!Models, Pylon!ModelFromSummary
  <1>3. \A m \in Pylon!Models, n \in Pylon!Models : [st EXCEPT !.model = m, !.shown = n] \in Pylon!Stores
    BY DEF Pylon!Stores
  <1>4. \A m \in Pylon!Models : [st EXCEPT !.shown = m] \in Pylon!Stores
    BY DEF Pylon!Stores
  <1> QED BY <1>1, <1>2, <1>3, <1>4 DEF Pylon!Published

LEMMA CachedType ==
    ASSUME NEW st \in Pylon!Stores, NEW t \in 0..MaxTime, NEW c \in Pylon!Cids, NEW p \in Pylon!Slot
    PROVE  Pylon!Cached(st, c, p, t) \in Pylon!Stores
  <1> DEFINE kept == [st EXCEPT !.info[c] = p, !.summary = Pylon!Summarised(st.summary, c, p)]
  <1>1. Pylon!Summarised(st.summary, c, p) \in [valid : BOOLEAN, pack : Pylon!Slot, cells : Pylon!Slot, status : Pylon!Slot]
    BY SlotsAre, SummarisedType DEF Pylon!Stores
  <1>2. kept \in Pylon!Stores
    BY <1>1 DEF Pylon!Stores
  <1>3. Pylon!Published(kept, t) \in Pylon!Stores
    BY <1>2, PublishedType
  <1> QED BY <1>2, <1>3 DEF Pylon!Cached

LEMMA EmptyType == Pylon!EmptyStore \in Pylon!Stores
  BY SlotsAre, PylonConstants DEF Pylon!EmptyStore, Pylon!EmptyInfo, Pylon!NoModel, Pylon!NoSummary, Pylon!Stores, Pylon!Models

LEMMA ReadType ==
    ASSUME Pylon!TypeOK
    PROVE  Pylon!ValueRead \in 0..MaxTime
  BY SlotsAre, PylonConstants DEF Pylon!TypeOK, Pylon!ValueRead, Pylon!Fake, Pylon!Stores, Pylon!Models

LEMMA RefreshedType ==
    ASSUME Pylon!TypeOK
    PROVE  /\ Pylon!Refreshed61(store) \in Pylon!Stores /\ Pylon!Refreshed42(store) \in Pylon!Stores
           /\ Pylon!Refreshed63(store) \in Pylon!Stores
  <1>1. store \in Pylon!Stores /\ now \in 0..MaxTime
    BY PylonConstants DEF Pylon!TypeOK
  <1>2. Pylon!Build61(Pylon!ValueRead) \in Pylon!Slot /\ Pylon!Build63(Pylon!ValueRead) \in Pylon!Slot
    BY ReadType, SlotsAre DEF Pylon!Build61, Pylon!Build63, Pylon!Kinds, Pylon!Cids
  <1>3. ASSUME NEW c \in {"61", "63"}, NEW p \in Pylon!Slot
        PROVE  Pylon!Summarised(store.summary, c, p) \in [valid : BOOLEAN, pack : Pylon!Slot, cells : Pylon!Slot, status : Pylon!Slot]
    BY <1>1, SlotsAre, SummarisedType DEF Pylon!Stores, Pylon!Cids
  <1>4. ASSUME NEW p \in Pylon!Slot, NEW sum \in [valid : BOOLEAN, pack : Pylon!Slot, cells : Pylon!Slot, status : Pylon!Slot]
        PROVE  /\ [store EXCEPT !.info["61"] = p, !.summary = [sum EXCEPT !.cells = Pylon!None]] \in Pylon!Stores
               /\ [store EXCEPT !.info["63"] = p, !.summary = sum] \in Pylon!Stores
    BY <1>1, SlotsAre DEF Pylon!Stores, Pylon!Cids
  <1>5. Pylon!Refreshed61(store) \in Pylon!Stores
    BY <1>1, <1>2, <1>3, <1>4, PublishedType DEF Pylon!Refreshed61
  <1>6. Pylon!Refreshed63(store) \in Pylon!Stores
    BY <1>1, <1>2, <1>3, <1>4, PublishedType DEF Pylon!Refreshed63
  <1>7. Pylon!Refreshed42(store) \in Pylon!Stores
    BY <1>1, SlotsAre DEF Pylon!Refreshed42, Pylon!Stores, Pylon!Cids
  <1> QED BY <1>5, <1>6, <1>7

PylonTypes ==
    /\ now \in 1..MaxTime /\ asked \in Pylon!Requests \cup {Pylon!NoRequest}
    /\ toBridge \in Seq(Pylon!Requests) /\ toBattery \in Seq(Pylon!Requests) /\ toBridgeBack \in Seq(Pylon!Answers)
    /\ toggles \in 0..MaxToggles /\ lastBms \in 0..MaxTime /\ override \in BOOLEAN

PendType == pend \in [valid : BOOLEAN, cid : Pylon!Cids \cup {"none"}, adr : Adrs \cup {0}, at : 0..MaxTime]

InvType ==
    inv \in [pc : {"read", "note", "act", "check", "61", "42", "63", "pick"},
             req : Pylon!Requests \cup {Pylon!NoRequest}, fake : BOOLEAN, steady : BOOLEAN]

BmsType ==
    bms \in [pc : {"read", "decode", "out"}, fake : BOOLEAN, ans : Pylon!Answers \cup {Pylon!NoAnswer}]

ToldType == heard \in Pylon!Heard /\ passed \in [Pylon!Kinds -> Pylon!Slot]

LEMMA TypeParts ==
    /\ Pylon!TypeOK <=> PylonTypes /\ PendType /\ InvType /\ BmsType /\ ToldType /\ store \in Pylon!Stores
    /\ Pylon!TypeOK' <=> PylonTypes' /\ PendType' /\ InvType' /\ BmsType' /\ ToldType' /\ (store \in Pylon!Stores)'
  BY DEF Pylon!TypeOK, PylonTypes, PendType, InvType, BmsType, ToldType

LEMMA FlooredType ==
    ASSUME NEW a \in Pylon!Answers
    PROVE  /\ Pylon!Floored(a) \in Pylon!Answers
           /\ Pylon!Floored(a).adr = a.adr /\ Pylon!Floored(a).p.of = a.p.of /\ Pylon!Floored(a).p.val = a.p.val
           /\ Pylon!Floored(a).p.size = a.p.size
           /\ Pylon!FloorApplies(a.p) => ~Pylon!Floored(a).p.low
           /\ ~Pylon!FloorApplies(a.p) => Pylon!Floored(a) = a
  BY DEF Pylon!Floored, Pylon!Answers, Pylon!Payloads

LEMMA InverterTaskType ==
    ASSUME PylonInv,
           \/ Pylon!TakeRequest \/ Pylon!NoteRequest \/ Pylon!ForwardRequest \/ Pylon!CheckSource \/ Pylon!BeginRefresh
           \/ Pylon!Refresh61 \/ Pylon!Refresh42 \/ Pylon!Refresh63 \/ Pylon!AnswerInverter
    PROVE  Pylon!TypeOK'
  <1> USE TypeParts DEF Pylon!lineVars, PylonInv
  <1>1. CASE Pylon!TakeRequest
    <2>1. Head(toBridge) \in Pylon!Requests /\ Tail(toBridge) \in Seq(Pylon!Requests)
      BY <1>1 DEF Pylon!TakeRequest, PylonTypes
    <2>2. PylonTypes'
      BY <1>1, <2>1 DEF Pylon!TakeRequest, PylonTypes
    <2>3. PendType'
      BY <1>1 DEF Pylon!TakeRequest, PendType
    <2>4. InvType'
      BY <1>1, <2>1 DEF Pylon!TakeRequest, InvType, PylonTypes
    <2> QED BY <1>1, <2>2, <2>3, <2>4 DEF Pylon!TakeRequest, BmsType, ToldType
  <1>2. CASE Pylon!NoteRequest
    <2>1. inv.req \in Pylon!Requests /\ inv.req.cid \in Pylon!Cids
      BY <1>2 DEF Pylon!NoteRequest, InTask, Place, ItIsTheNewest, InTime, NoteInv, NotedInTime, PylonTypes
    <2>2. PendType'
      <3>1. inv.req.cid \in Pylon!Cids \cup {"none"} /\ inv.req.adr \in Adrs \cup {0} /\ now \in 0..MaxTime
        BY <2>1, PylonConstants DEF PylonTypes, Pylon!Requests
      <3>2. pend' = [pend EXCEPT !.cid = inv.req.cid, !.adr = inv.req.adr, !.at = now]
        BY <1>2 DEF Pylon!NoteRequest
      <3> QED BY <3>1, <3>2 DEF PendType
    <2>3. InvType'
      BY <1>2 DEF Pylon!NoteRequest, InvType
    <2> QED BY <1>2, <2>2, <2>3 DEF Pylon!NoteRequest, PylonTypes, BmsType, ToldType
  <1>3. CASE Pylon!ForwardRequest
    <2>1. inv.req \in Pylon!Requests
      BY <1>3 DEF Pylon!ForwardRequest, InTask, Place, ItIsTheNewest, InTime, PylonTypes
    <2>2. PylonTypes'
      BY <1>3, <2>1 DEF Pylon!ForwardRequest, PylonTypes
    <2>3. InvType'
      BY <1>3 DEF Pylon!ForwardRequest, InvType
    <2> QED BY <1>3, <2>2, <2>3 DEF Pylon!ForwardRequest, PendType, BmsType, ToldType
  <1>4. CASE Pylon!CheckSource \/ Pylon!BeginRefresh
    <2>1. InvType'
      BY <1>4 DEF Pylon!CheckSource, Pylon!BeginRefresh, InvType
    <2> QED BY <1>4, <2>1 DEF Pylon!CheckSource, Pylon!BeginRefresh, PylonTypes, PendType, BmsType, ToldType
  <1>5. CASE Pylon!Refresh61 \/ Pylon!Refresh42 \/ Pylon!Refresh63
    <2>1. InvType'
      BY <1>5 DEF Pylon!Refresh61, Pylon!Refresh42, Pylon!Refresh63, Pylon!RefreshStep, InvType
    <2>2. store' \in Pylon!Stores
      BY <1>5, RefreshedType DEF Pylon!Refresh61, Pylon!Refresh42, Pylon!Refresh63, Pylon!RefreshStep
    <2> QED BY <1>5, <2>1, <2>2 DEF Pylon!Refresh61, Pylon!Refresh42, Pylon!Refresh63, Pylon!RefreshStep, PylonTypes, PendType, BmsType, ToldType
  <1>6. CASE Pylon!AnswerInverter
    <2>1. inv.req \in Pylon!Requests
      BY <1>6 DEF Pylon!AnswerInverter, InTask, Place, ItIsTheNewest, InTime, PylonTypes
    <2>2. InvType'
      BY <1>6 DEF Pylon!AnswerInverter, InvType
    <2>3. inv.steady \in BOOLEAN
      BY DEF InvType
    <2>4. heard' \in Pylon!Heard
      <3> DEFINE c == inv.req.cid
                 p == IF c \in Pylon!Cids THEN store.info[c] ELSE Pylon!Built(c, Pylon!ValueRead, 9)
      <3>1. c \in Pylon!Kinds /\ inv.req.adr \in Adrs
        BY <2>1 DEF Pylon!Requests
      <3>2. p \in Pylon!Slot
        BY <3>1, ReadType, SlotsAre DEF Pylon!Stores
      <3>3. p = Pylon!None \/ p \in Pylon!Payloads
        BY <3>2 DEF Pylon!Slot
      <3>4. p \in Pylon!Payloads => [adr |-> inv.req.adr, p |-> p] \in Pylon!Answers
        BY <3>1 DEF Pylon!Answers
      <3>5. heard' = IF p = Pylon!None THEN heard
                     ELSE [ans |-> [adr |-> inv.req.adr, p |-> p], req |-> inv.req, by |-> "bridge", steady |-> inv.steady]
        BY <1>6 DEF Pylon!AnswerInverter
      <3> HIDE DEF p
      <3> QED BY <2>1, <2>3, <3>3, <3>4, <3>5 DEF ToldType, Pylon!Heard
    <2> QED BY <1>6, <2>2, <2>4 DEF Pylon!AnswerInverter, PylonTypes, PendType, BmsType, ToldType
  <1> QED BY <1>1, <1>2, <1>3, <1>4, <1>5, <1>6

LEMMA BatteryTaskType ==
    ASSUME PylonInv, Pylon!DropStale \/ Pylon!TakeAnswer \/ Pylon!Decode \/ Pylon!PassOn
    PROVE  Pylon!TypeOK'
  <1> USE TypeParts DEF Pylon!lineVars, PylonInv
  <1>1. CASE Pylon!DropStale
    BY <1>1, EmptyType DEF Pylon!DropStale, PylonTypes, PendType, InvType, BmsType, ToldType
  <1>2. CASE Pylon!TakeAnswer
    <2>1. Head(toBridgeBack) \in Pylon!Answers /\ Tail(toBridgeBack) \in Seq(Pylon!Answers)
      BY <1>2 DEF Pylon!TakeAnswer, PylonTypes
    <2>2. PylonTypes'
      BY <1>2, <2>1, PylonConstants DEF Pylon!TakeAnswer, PylonTypes
    <2>3. BmsType'
      BY <1>2, <2>1, FlooredType DEF Pylon!TakeAnswer, BmsType, PylonTypes
    <2> QED BY <1>2, <2>2, <2>3 DEF Pylon!TakeAnswer, PendType, InvType, ToldType
  <1>3. CASE Pylon!Decode
    <2>1. bms.ans \in Pylon!Answers
      BY <1>3 DEF Pylon!Decode, Place, ItIsTheNewest, InAnswer
    <2>2. store' \in Pylon!Stores
      <3>1. bms.ans.p \in Pylon!Slot /\ now \in 0..MaxTime
        BY <2>1, SlotsAre, PylonConstants DEF Pylon!Answers, PylonTypes
      <3> QED BY <1>3, <3>1, CachedType DEF Pylon!Decode
    <2>3. PendType'
      BY <1>3 DEF Pylon!Decode, PendType
    <2>4. BmsType'
      BY <1>3 DEF Pylon!Decode, BmsType
    <2> QED BY <1>3, <2>2, <2>3, <2>4 DEF Pylon!Decode, PylonTypes, InvType, ToldType
  <1>4. CASE Pylon!PassOn
    <2>1. bms.ans \in Pylon!Answers
      BY <1>4 DEF Pylon!PassOn, Place, ItIsTheNewest, InAnswer
    <2>2. ToldType'
      <3>1. passed' \in [Pylon!Kinds -> Pylon!Slot]
        BY <1>4, <2>1, SlotsAre DEF Pylon!PassOn, ToldType, Pylon!Answers
      <3>2. heard' \in Pylon!Heard
        <4>1. CASE bms.fake
          BY <1>4, <4>1 DEF Pylon!PassOn, ToldType
        <4>2. CASE ~bms.fake
          <5>1. heard' = [ans |-> bms.ans, req |-> asked, by |-> "battery", steady |-> TRUE]
            BY <1>4, <4>2 DEF Pylon!PassOn
          <5> QED BY <2>1, <5>1 DEF Pylon!Heard, PylonTypes
        <4> QED BY <4>1, <4>2
      <3> QED BY <3>1, <3>2 DEF ToldType
    <2>3. BmsType'
      BY <1>4 DEF Pylon!PassOn, BmsType
    <2> QED BY <1>4, <2>2, <2>3 DEF Pylon!PassOn, PylonTypes, PendType, InvType
  <1> QED BY <1>1, <1>2, <1>3, <1>4

LEMMA OutsideType ==
    ASSUME PylonInv,
           \/ \E c \in Pylon!Kinds, adr \in Adrs : Pylon!Ask(c, adr)
           \/ \E size \in UNION {Sizes[c] : c \in Pylon!Kinds}, low \in BOOLEAN : Pylon!Answer(size, low)
           \/ Pylon!NoReply \/ Pylon!Toggle \/ Pylon!Tick \/ UNCHANGED Pylon!vars
    PROVE  Pylon!TypeOK'
  <1> USE TypeParts DEF Pylon!lineVars, PylonInv
  <1>1. ASSUME NEW c \in Pylon!Kinds, NEW adr \in Adrs, Pylon!Ask(c, adr) PROVE Pylon!TypeOK'
    <2>1. asked' \in Pylon!Requests
      BY <1>1 DEF Pylon!Ask, Pylon!Requests, PylonTypes
    <2>2. PylonTypes'
      BY <1>1, <2>1 DEF Pylon!Ask, PylonTypes
    <2> QED BY <1>1, <2>2 DEF Pylon!Ask, PendType, InvType, BmsType, ToldType
  <1>2. ASSUME NEW size \in UNION {Sizes[c] : c \in Pylon!Kinds}, NEW low \in BOOLEAN, Pylon!Answer(size, low)
        PROVE  Pylon!TypeOK'
    <2>1. Head(toBattery) \in Pylon!Requests /\ Tail(toBattery) \in Seq(Pylon!Requests)
      BY <1>2 DEF Pylon!Answer, PylonTypes
    <2> DEFINE a == [adr |-> Head(toBattery).adr,
                     p |-> [of |-> Head(toBattery).cid, val |-> now, size |-> size, low |-> low, how |-> "came"]]
    <2>2. a \in Pylon!Answers
      BY <2>1, PylonConstants DEF Pylon!Answers, Pylon!Payloads, Pylon!Requests, PylonTypes
    <2>3. toBridgeBack' = Append(toBridgeBack, a)
      BY <1>2 DEF Pylon!Answer
    <2> HIDE DEF a
    <2>4. PylonTypes'
      BY <1>2, <2>1, <2>2, <2>3 DEF Pylon!Answer, PylonTypes
    <2> QED BY <1>2, <2>4 DEF Pylon!Answer, PendType, InvType, BmsType, ToldType
  <1>3. CASE Pylon!NoReply
    <2>1. Tail(toBattery) \in Seq(Pylon!Requests)
      BY <1>3 DEF Pylon!NoReply, PylonTypes
    <2> QED BY <1>3, <2>1 DEF Pylon!NoReply, PylonTypes, PendType, InvType, BmsType, ToldType
  <1>4. CASE Pylon!Toggle
    <2>1. PylonTypes'
      BY <1>4, PylonConstants DEF Pylon!Toggle, PylonTypes
    <2>2. InvType'
      BY <1>4 DEF Pylon!Toggle, InvType
    <2> QED BY <1>4, <2>1, <2>2 DEF Pylon!Toggle, PendType, BmsType, ToldType
  <1>5. CASE Pylon!Tick
    <2>1. PylonTypes'
      BY <1>5, PylonConstants DEF Pylon!Tick, PylonTypes
    <2> QED BY <1>5, <2>1 DEF Pylon!Tick, PendType, InvType, BmsType, ToldType
  <1>6. CASE UNCHANGED Pylon!vars
    BY <1>6 DEF Pylon!vars, PylonTypes, PendType, InvType, BmsType, ToldType
  <1> QED BY <1>1, <1>2, <1>3, <1>4, <1>5, <1>6

-----------------------------------------------------------------------------
(* One request at a time.                                                  *)

LEMMA SingleFacts ==
    ASSUME NEW x
    PROVE  Head(<<x>>) = x /\ Tail(<<x>>) = <<>> /\ Append(<<>>, x) = <<x>> /\ <<x>> # <<>> /\ DOMAIN <<x>> = {1} /\ <<x>>[1] = x
  OBVIOUS

\* What is compared are numbers.
LEMMA PylonNumbers ==
    ASSUME Pylon!TypeOK
    PROVE  now \in Nat /\ now >= 1 /\ asked.at \in Nat /\ pend.at \in Nat /\ lastBms \in Nat
  BY PylonConstants DEF Pylon!TypeOK, Pylon!Requests, Pylon!NoRequest

LEMMA InverterTaskPlace ==
    ASSUME PylonInv,
           \/ Pylon!TakeRequest \/ Pylon!NoteRequest \/ Pylon!ForwardRequest \/ Pylon!CheckSource \/ Pylon!BeginRefresh
           \/ Pylon!Refresh61 \/ Pylon!Refresh42 \/ Pylon!Refresh63 \/ Pylon!AnswerInverter
    PROVE  Place'
  <1> USE DEF Place, OneAtATime, ItIsTheNewest, InTime, Coming, InTask, Out, Back, InAnswer, Pylon!lineVars
  <1>0. Pylon!TypeOK /\ Place
    BY DEF PylonInv
  <1>1. InvType
    BY <1>0, TypeParts
  <1>2. CASE Pylon!TakeRequest
    <2>1. toBridge = <<asked>> /\ inv.pc = "read"
      BY <1>0, <1>2 DEF Pylon!TakeRequest
    <2>2. toBridge' = <<>> /\ inv'.req = asked
      BY <1>1, <1>2, <2>1, SingleFacts DEF Pylon!TakeRequest, InvType
    <2> QED BY <1>0, <1>2, <2>1, <2>2 DEF Pylon!TakeRequest
  <1>3. CASE Pylon!NoteRequest \/ Pylon!CheckSource \/ Pylon!BeginRefresh
    <2>1. inv.pc # "read" /\ inv'.req = inv.req
      BY <1>1, <1>3 DEF Pylon!NoteRequest, Pylon!CheckSource, Pylon!BeginRefresh, InvType
    <2> QED BY <1>0, <1>3, <2>1 DEF Pylon!NoteRequest, Pylon!CheckSource, Pylon!BeginRefresh
  <1>4. CASE Pylon!ForwardRequest
    <2>1. inv.pc # "read" /\ inv'.pc = "read" /\ inv.req = asked
      BY <1>0, <1>1, <1>4 DEF Pylon!ForwardRequest, InvType
    <2>2. toBattery' = <<asked>>
      BY <1>0, <1>4, <2>1, SingleFacts DEF Pylon!ForwardRequest
    <2>3. now <= asked.at + MaxDelay
      BY <1>0, <2>1, PylonNumbers, PylonConstants
    <2> QED BY <1>0, <1>4, <2>1, <2>2, <2>3 DEF Pylon!ForwardRequest
  <1>5. CASE Pylon!Refresh61 \/ Pylon!Refresh42 \/ Pylon!Refresh63
    <2>1. inv.pc # "read" /\ inv'.pc # "read" /\ inv'.req = inv.req
      BY <1>1, <1>5 DEF Pylon!Refresh61, Pylon!Refresh42, Pylon!Refresh63, Pylon!RefreshStep, InvType
    <2> QED BY <1>0, <1>5, <2>1 DEF Pylon!Refresh61, Pylon!Refresh42, Pylon!Refresh63, Pylon!RefreshStep
  <1>6. CASE Pylon!AnswerInverter
    <2>1. inv.pc # "read" /\ inv'.pc = "read"
      BY <1>1, <1>6 DEF Pylon!AnswerInverter, InvType
    <2> QED BY <1>0, <1>6, <2>1 DEF Pylon!AnswerInverter
  <1> QED BY <1>2, <1>3, <1>4, <1>5, <1>6

LEMMA BatteryTaskPlace ==
    ASSUME PylonInv, Pylon!DropStale \/ Pylon!TakeAnswer \/ Pylon!Decode \/ Pylon!PassOn
    PROVE  Place'
  <1> USE DEF Place, OneAtATime, ItIsTheNewest, InTime, Coming, InTask, Out, Back, InAnswer, Pylon!lineVars
  <1>0. Pylon!TypeOK /\ Place
    BY DEF PylonInv
  <1>1. BmsType
    BY <1>0, TypeParts
  <1>2. CASE Pylon!DropStale
    BY <1>0, <1>2 DEF Pylon!DropStale
  <1>3. CASE Pylon!TakeAnswer
    <2>1. PICK a \in Pylon!Answers :
              toBridgeBack = <<a>> /\ a.adr = asked.adr /\ a.p.of = asked.cid /\ a.p.val = now
      BY <1>0, <1>3 DEF Pylon!TakeAnswer
    <2>2. toBridgeBack' = <<>> /\ bms'.ans = Pylon!Floored(a)
      BY <1>1, <1>3, <2>1, SingleFacts DEF Pylon!TakeAnswer, BmsType
    <2> QED BY <1>0, <1>3, <2>1, <2>2, FlooredType DEF Pylon!TakeAnswer
  <1>4. CASE Pylon!Decode
    <2>1. bms.pc # "read" /\ bms'.pc # "read" /\ bms'.ans = bms.ans
      BY <1>1, <1>4 DEF Pylon!Decode, BmsType
    <2> QED BY <1>0, <1>4, <2>1 DEF Pylon!Decode
  <1>5. CASE Pylon!PassOn
    <2>1. bms.pc # "read" /\ bms'.pc = "read"
      BY <1>1, <1>5 DEF Pylon!PassOn, BmsType
    <2> QED BY <1>0, <1>5, <2>1 DEF Pylon!PassOn
  <1> QED BY <1>2, <1>3, <1>4, <1>5

\* The inverter asks when nothing is on its way.
LEMMA AskedAlone ==
    ASSUME PylonInv, NEW c \in Pylon!Kinds, NEW adr \in Adrs, Pylon!Ask(c, adr)
    PROVE  ~Coming /\ ~InTask /\ ~Out /\ ~Back /\ ~InAnswer
  <1>1. now >= asked.at + Patience
    BY PylonNumbers, PylonConstants DEF PylonInv, Pylon!Ask
  <1> QED BY <1>1, PylonNumbers, PylonConstants DEF PylonInv, Place, InTime

LEMMA OutsidePlace ==
    ASSUME PylonInv,
           \/ \E c \in Pylon!Kinds, adr \in Adrs : Pylon!Ask(c, adr)
           \/ \E size \in UNION {Sizes[c] : c \in Pylon!Kinds}, low \in BOOLEAN : Pylon!Answer(size, low)
           \/ Pylon!NoReply \/ Pylon!Toggle \/ Pylon!Tick \/ UNCHANGED Pylon!vars
    PROVE  Place'
  <1> USE DEF Place, OneAtATime, ItIsTheNewest, InTime, Coming, InTask, Out, Back, InAnswer, Pylon!lineVars
  <1>0. Pylon!TypeOK /\ Place
    BY DEF PylonInv
  <1>1. ASSUME NEW c \in Pylon!Kinds, NEW adr \in Adrs, Pylon!Ask(c, adr) PROVE Place'
    <2>1. ~Coming /\ ~InTask /\ ~Out /\ ~Back /\ ~InAnswer
      BY <1>1, AskedAlone
    <2>2. toBridge' = <<asked'>>
      BY <1>1, <2>1, SingleFacts DEF Pylon!Ask
    <2>3. asked'.at = now /\ asked' # Pylon!NoRequest
      BY <1>0, <1>1, PylonNumbers DEF Pylon!Ask, Pylon!NoRequest
    <2> QED BY <1>0, <1>1, <2>1, <2>2, <2>3, PylonNumbers DEF Pylon!Ask
  <1>2. ASSUME NEW size \in UNION {Sizes[c] : c \in Pylon!Kinds}, NEW low \in BOOLEAN, Pylon!Answer(size, low)
        PROVE  Place'
    <2> DEFINE a == [adr |-> asked.adr, p |-> [of |-> asked.cid, val |-> now, size |-> size, low |-> low, how |-> "came"]]
    <2>1. toBattery = <<asked>> /\ toBridgeBack = <<>>
      BY <1>0, <1>2 DEF Pylon!Answer
    <2>2. toBattery' = <<>> /\ toBridgeBack' = <<a>>
      BY <1>2, <2>1, SingleFacts DEF Pylon!Answer
    <2>3. a \in Pylon!Answers
      BY <1>0, <2>1, PylonConstants DEF Pylon!Answers, Pylon!Payloads, Pylon!Requests, Pylon!TypeOK
    <2>4. a.adr = asked.adr /\ a.p.of = asked.cid /\ a.p.val = now
      OBVIOUS
    <2> HIDE DEF a
    <2> QED BY <1>0, <1>2, <2>1, <2>2, <2>3, <2>4 DEF Pylon!Answer
  <1>3. CASE Pylon!NoReply
    <2>1. toBattery = <<asked>> /\ toBattery' = <<>>
      BY <1>0, <1>3, SingleFacts DEF Pylon!NoReply
    <2> QED BY <1>0, <1>3, <2>1 DEF Pylon!NoReply
  <1>4. CASE Pylon!Toggle
    <2>1. inv'.pc = inv.pc /\ inv'.req = inv.req
      BY <1>0, <1>4, TypeParts DEF Pylon!Toggle, InvType
    <2> QED BY <1>0, <1>4, <2>1 DEF Pylon!Toggle
  <1>5. CASE Pylon!Tick
    <2>1. ~Coming /\ ~InTask /\ ~Back /\ ~InAnswer
      BY <1>5 DEF Pylon!Tick
    <2>2. Out => now' <= asked.at + MaxDelay
      BY <1>0, <1>5, SingleFacts, PylonNumbers, PylonConstants DEF Pylon!Tick
    <2> QED BY <1>0, <1>5, <2>1, <2>2, PylonNumbers DEF Pylon!Tick
  <1>6. CASE UNCHANGED Pylon!vars
    BY <1>0, <1>6 DEF Pylon!vars
  <1> QED BY <1>1, <1>2, <1>3, <1>4, <1>5, <1>6

-----------------------------------------------------------------------------
(* The request that is noted.                                              *)

\* An answer of the battery is paired with the request it answers, and with no other.
LEMMA PairedRight ==
    ASSUME PylonInv, bms.pc = "decode"
    PROVE  /\ asked.cid \in Pylon!Cids => pend.valid /\ IsNoted /\ Pylon!Pairs(bms.ans)
           /\ asked.cid \notin Pylon!Cids => ~Pylon!Pairs(bms.ans)
  <1>1. Pylon!TypeOK /\ bms.ans.adr = asked.adr /\ now <= asked.at + MaxDelay /\ asked.at <= now /\ inv.pc = "read"
    BY DEF PylonInv, Place, OneAtATime, ItIsTheNewest, InTime, InAnswer, InTask
  <1>2. CASE asked.cid \in Pylon!Cids
    <2>1. pend.valid /\ IsNoted
      BY <1>2 DEF PylonInv, NoteInv, NotedInTime, AtBattery
    <2>2. now - pend.at <= PairWindow
      BY <1>1, <2>1, PylonNumbers, PylonConstants DEF IsNoted
    <2> QED BY <1>1, <1>2, <2>1, <2>2 DEF Pylon!Pairs, Pylon!InWindow, IsNoted
  <1>3. CASE asked.cid \notin Pylon!Cids
    <2> SUFFICES ASSUME pend.valid, now - pend.at <= PairWindow PROVE FALSE
      BY <1>3 DEF Pylon!Pairs, Pylon!InWindow
    <2>1. asked \in Pylon!Requests /\ pend.cid \in Pylon!Cids \cup {"none"}
      BY <1>1, TypeParts DEF PylonTypes, PendType, PylonInv, Place, InTime, InAnswer
    <2>2. ~IsNoted
      BY <1>3, <2>1 DEF IsNoted, Pylon!Requests, Pylon!Kinds, Pylon!Cids
    <2>3. pend.at + Patience <= asked.at
      BY <1>1, <2>2 DEF PylonInv, NoteInv, NotedOrOld
    <2> QED BY <1>1, <2>3, PylonNumbers, PylonConstants
  <1> QED BY <1>2, <1>3

LEMMA InverterTaskNote ==
    ASSUME PylonInv,
           \/ Pylon!TakeRequest \/ Pylon!NoteRequest \/ Pylon!ForwardRequest \/ Pylon!CheckSource \/ Pylon!BeginRefresh
           \/ Pylon!Refresh61 \/ Pylon!Refresh42 \/ Pylon!Refresh63 \/ Pylon!AnswerInverter
    PROVE  NoteInv'
  <1> USE DEF NoteInv, NotedOrOld, NotedInTime, IsNoted, AtBattery, Out, Back, Pylon!lineVars
  <1>0. Pylon!TypeOK /\ Place /\ NoteInv
    BY DEF PylonInv
  <1>1. InvType /\ PendType
    BY <1>0, TypeParts
  <1>2. CASE Pylon!TakeRequest
    <2>1. toBridge = <<asked>> /\ Head(toBridge) = asked
      BY <1>0, <1>2, SingleFacts DEF Pylon!TakeRequest, Place, ItIsTheNewest, Coming
    <2>2. ~Out /\ ~Back /\ bms.pc = "read" /\ inv.pc = "read"
      BY <1>0, <1>2 DEF Pylon!TakeRequest, Place, OneAtATime, Coming, InAnswer, InTask
    <2>3. UNCHANGED <<asked, toBattery, toBridgeBack, bms>>
      BY <1>2 DEF Pylon!TakeRequest
    <2>4. CASE asked.cid \in Pylon!Cids
      <3>1. inv'.pc = "note" /\ pend' = [pend EXCEPT !.valid = TRUE]
        BY <1>1, <1>2, <2>1, <2>4 DEF Pylon!TakeRequest, Pylon!Noted, InvType
      <3>2. pend'.at = pend.at /\ pend'.valid = TRUE
        BY <1>1, <3>1 DEF PendType
      <3> QED BY <1>0, <2>2, <2>3, <2>4, <3>1, <3>2
    <2>5. CASE asked.cid \notin Pylon!Cids
      <3>1. inv'.pc = "act" /\ pend' = pend
        BY <1>1, <1>2, <2>1, <2>5 DEF Pylon!TakeRequest, Pylon!Noted, InvType
      <3> QED BY <1>0, <2>2, <2>3, <2>5, <3>1
    <2> QED BY <2>4, <2>5
  <1>3. CASE Pylon!NoteRequest
    <2>1. inv.req = asked /\ now = asked.at /\ ~Out /\ ~Back /\ bms.pc = "read"
      BY <1>0, <1>3 DEF Pylon!NoteRequest, Place, OneAtATime, ItIsTheNewest, InTime, InTask, InAnswer
    <2>2. inv'.pc = "act" /\ pend'.cid = asked.cid /\ pend'.adr = asked.adr /\ pend'.at = asked.at
      BY <1>1, <1>3, <2>1 DEF Pylon!NoteRequest, InvType, PendType
    <2>3. pend'.valid = pend.valid
      BY <1>1, <1>3 DEF Pylon!NoteRequest, PendType
    <2> QED BY <1>0, <1>3, <2>1, <2>2, <2>3, PylonNumbers DEF Pylon!NoteRequest
  <1>4. CASE Pylon!ForwardRequest
    <2>1. inv.pc = "act" /\ inv'.pc = "read"
      BY <1>1, <1>4 DEF Pylon!ForwardRequest, InvType
    <2> QED BY <1>0, <1>4, <2>1 DEF Pylon!ForwardRequest
  <1>5. CASE Pylon!CheckSource \/ Pylon!BeginRefresh \/ Pylon!Refresh61 \/ Pylon!Refresh42 \/ Pylon!Refresh63 \/ Pylon!AnswerInverter
    <2>1. inv.pc # "note" /\ inv'.pc \notin {"note", "act"}
      BY <1>1, <1>5 DEF Pylon!CheckSource, Pylon!BeginRefresh, Pylon!Refresh61, Pylon!Refresh42, Pylon!Refresh63, Pylon!RefreshStep,
         Pylon!AnswerInverter, InvType
    <2>2. UNCHANGED <<asked, toBattery, toBridgeBack, bms, pend>>
      BY <1>5 DEF Pylon!CheckSource, Pylon!BeginRefresh, Pylon!Refresh61, Pylon!Refresh42, Pylon!Refresh63, Pylon!RefreshStep,
         Pylon!AnswerInverter
    <2> QED BY <1>0, <2>1, <2>2
  <1> QED BY <1>2, <1>3, <1>4, <1>5

LEMMA BatteryTaskNote ==
    ASSUME PylonInv, Pylon!DropStale \/ Pylon!TakeAnswer \/ Pylon!Decode \/ Pylon!PassOn
    PROVE  NoteInv'
  <1> USE DEF NoteInv, NotedOrOld, NotedInTime, IsNoted, AtBattery, Out, Back, Pylon!lineVars
  <1>0. Pylon!TypeOK /\ Place /\ NoteInv
    BY DEF PylonInv
  <1>1. BmsType /\ PendType
    BY <1>0, TypeParts
  <1>2. CASE Pylon!DropStale
    BY <1>0, <1>2 DEF Pylon!DropStale
  <1>3. CASE Pylon!TakeAnswer
    BY <1>0, <1>3 DEF Pylon!TakeAnswer
  <1>4. CASE Pylon!Decode
    <2>1. bms'.pc = "out" /\ ~Out /\ ~Back /\ inv.pc = "read"
      BY <1>0, <1>1, <1>4 DEF Pylon!Decode, BmsType, Place, OneAtATime, InAnswer, InTask
    <2>2. pend' = pend \/ pend' = [pend EXCEPT !.valid = FALSE]
      BY <1>4 DEF Pylon!Decode
    <2>3. pend'.at = pend.at /\ pend'.cid = pend.cid /\ pend'.adr = pend.adr
      BY <1>1, <2>2 DEF PendType
    <2>4. pend'.valid => pend.valid
      BY <1>1, <2>2 DEF PendType
    <2>5. UNCHANGED <<asked, toBattery, toBridgeBack, inv>>
      BY <1>4 DEF Pylon!Decode
    <2> QED BY <1>0, <2>1, <2>3, <2>4, <2>5
  <1>5. CASE Pylon!PassOn
    <2>1. bms'.pc = "read"
      BY <1>1, <1>5 DEF Pylon!PassOn, BmsType
    <2> QED BY <1>0, <1>5, <2>1 DEF Pylon!PassOn
  <1> QED BY <1>2, <1>3, <1>4, <1>5

LEMMA OutsideNote ==
    ASSUME PylonInv,
           \/ \E c \in Pylon!Kinds, adr \in Adrs : Pylon!Ask(c, adr)
           \/ \E size \in UNION {Sizes[c] : c \in Pylon!Kinds}, low \in BOOLEAN : Pylon!Answer(size, low)
           \/ Pylon!NoReply \/ Pylon!Toggle \/ Pylon!Tick \/ UNCHANGED Pylon!vars
    PROVE  NoteInv'
  <1> USE DEF NoteInv, NotedOrOld, NotedInTime, IsNoted, AtBattery, Out, Back, Pylon!lineVars
  <1>0. Pylon!TypeOK /\ Place /\ NoteInv
    BY DEF PylonInv
  <1>1. ASSUME NEW c \in Pylon!Kinds, NEW adr \in Adrs, Pylon!Ask(c, adr) PROVE NoteInv'
    <2>1. ~InTask /\ ~Out /\ ~Back /\ ~InAnswer
      BY <1>1, AskedAlone
    <2>2. asked'.at = now /\ now - asked.at >= Patience
      BY <1>1 DEF Pylon!Ask
    <2>3. pend.at + Patience <= asked'.at /\ pend.at <= asked'.at
      BY <1>0, <2>2, PylonNumbers, PylonConstants
    <2> QED BY <1>1, <2>1, <2>3 DEF Pylon!Ask, InTask, InAnswer
  <1>2. ASSUME NEW size \in UNION {Sizes[c] : c \in Pylon!Kinds}, NEW low \in BOOLEAN, Pylon!Answer(size, low)
        PROVE  NoteInv'
    BY <1>0, <1>2 DEF Pylon!Answer
  <1>3. CASE Pylon!NoReply
    <2>1. Out /\ UNCHANGED <<asked, toBridgeBack, inv, bms, pend>>
      BY <1>3 DEF Pylon!NoReply
    <2> QED BY <1>0, <2>1
  <1>4. CASE Pylon!Toggle
    <2>1. inv'.pc = inv.pc
      BY <1>0, <1>4, TypeParts DEF Pylon!Toggle, InvType
    <2> QED BY <1>0, <1>4, <2>1 DEF Pylon!Toggle
  <1>5. CASE Pylon!Tick
    BY <1>0, <1>5 DEF Pylon!Tick
  <1>6. CASE UNCHANGED Pylon!vars
    BY <1>0, <1>6 DEF Pylon!vars
  <1> QED BY <1>1, <1>2, <1>3, <1>4, <1>5, <1>6

-----------------------------------------------------------------------------
(* What a step does to the store.                                          *)

Shows(st) == st.shown.valid \/ st.model.valid => st.summary.valid

Parts(sum) ==
    /\ sum.pack # Pylon!None => sum.pack.of = "61"
    /\ sum.status # Pylon!None => sum.status.of = "63"

LEMMA PublishedFacts ==
    ASSUME NEW st \in Pylon!Stores, NEW t \in 0..MaxTime, st.model.valid => st.summary.valid
    PROVE  /\ Pylon!Published(st, t).info = st.info /\ Pylon!Published(st, t).summary = st.summary
           /\ Shows(Pylon!Published(st, t))
  <1>1. CASE ~st.summary.valid
    <2>1. Pylon!Published(st, t) = [st EXCEPT !.shown = Pylon!NoModel]
      BY <1>1 DEF Pylon!Published
    <2> QED BY <1>1, <2>1 DEF Shows, Pylon!Stores, Pylon!NoModel
  <1>2. CASE st.summary.valid
    <2> DEFINE m == Pylon!ModelFromSummary(st.summary, t)
    <2>1. Pylon!Published(st, t) = [st EXCEPT !.model = m, !.shown = m]
      BY <1>2 DEF Pylon!Published
    <2> HIDE DEF m
    <2> QED BY <1>2, <2>1 DEF Shows, Pylon!Stores
  <1> QED BY <1>1, <1>2

LEMMA SummarisedFacts ==
    ASSUME NEW sum \in [valid : BOOLEAN, pack : Pylon!Slot, cells : Pylon!Slot, status : Pylon!Slot],
           NEW c \in Pylon!Cids, NEW p \in Pylon!Slot
    PROVE  /\ sum.valid => Pylon!Summarised(sum, c, p).valid
           /\ Parts(sum) /\ p.of = c => Parts(Pylon!Summarised(sum, c, p))
  BY DEF Pylon!Summarised, Parts

LEMMA CachedFacts ==
    ASSUME NEW st \in Pylon!Stores, NEW t \in 0..MaxTime, NEW c \in Pylon!Cids, NEW p \in Pylon!Slot, Shows(st)
    PROVE  /\ \A d \in Pylon!Cids : \/ Pylon!Cached(st, c, p, t).info[d] = st.info[d]
                                   \/ (d = c /\ Pylon!Cached(st, c, p, t).info[d] = p)
           /\ Parts(st.summary) /\ p.of = c => Parts(Pylon!Cached(st, c, p, t).summary)
           /\ Shows(Pylon!Cached(st, c, p, t))
  <1> DEFINE sum == Pylon!Summarised(st.summary, c, p)
             kept == [st EXCEPT !.info[c] = p, !.summary = sum]
  <1>1. sum \in [valid : BOOLEAN, pack : Pylon!Slot, cells : Pylon!Slot, status : Pylon!Slot]
    BY SlotsAre, SummarisedType DEF Pylon!Stores
  <1>2. /\ st.summary.valid => sum.valid
        /\ Parts(st.summary) /\ p.of = c => Parts(sum)
    BY SummarisedFacts DEF Pylon!Stores
  <1>3. Pylon!Cached(st, c, p, t) \in {st, kept, Pylon!Published(kept, t)}
    BY DEF Pylon!Cached
  <1> HIDE DEF sum
  <1>4. /\ kept \in Pylon!Stores /\ kept.summary = sum /\ kept.shown = st.shown /\ kept.model = st.model
        /\ \A d \in Pylon!Cids : kept.info[d] = st.info[d] \/ (d = c /\ kept.info[d] = p)
    BY <1>1 DEF Pylon!Stores
  <1>5. Shows(kept)
    BY <1>2, <1>4 DEF Shows
  <1> HIDE DEF kept
  <1>6. /\ Pylon!Published(kept, t).info = kept.info /\ Pylon!Published(kept, t).summary = kept.summary
        /\ Shows(Pylon!Published(kept, t))
    BY <1>4, <1>5, PublishedFacts DEF Shows
  <1> QED BY <1>2, <1>3, <1>4, <1>5, <1>6

\* A step of the refresh builds what it caches, or drops it.
LEMMA RefreshedFacts ==
    ASSUME PylonInv,
           NEW st, st \in {Pylon!Refreshed61(store), Pylon!Refreshed42(store), Pylon!Refreshed63(store)}
    PROVE  /\ \A c \in Pylon!Cids : \/ st.info[c] = store.info[c] \/ st.info[c] = Pylon!None
                                   \/ (st.info[c].of = c /\ ~Measured(st.info[c]))
           /\ Parts(st.summary) /\ Shows(st)
  <1>1. /\ store \in Pylon!Stores /\ now \in 0..MaxTime /\ Shows(store) /\ Parts(store.summary)
        /\ Pylon!TypeOK
    BY PylonConstants DEF PylonInv, Pylon!TypeOK, SummaryIsShown, Shows, Pylon!AttributedRight, Parts
  <1>2. CASE st = Pylon!Refreshed42(store)
    BY <1>1, <1>2 DEF Pylon!Refreshed42, Pylon!Stores, Shows, Parts, Measured, Pylon!Zero62, Pylon!Cids
  <1>3. ASSUME NEW c \in {"61", "63"}, NEW p \in Pylon!Slot, NEW cells \in Pylon!Slot, p.of = c, ~Measured(p),
               NEW sum, sum \in {Pylon!Summarised(store.summary, c, p), [Pylon!Summarised(store.summary, c, p) EXCEPT !.cells = cells]},
               st = Pylon!Published([store EXCEPT !.info[c] = p, !.summary = sum], now)
        PROVE  /\ \A d \in Pylon!Cids : \/ st.info[d] = store.info[d] \/ (st.info[d].of = d /\ ~Measured(st.info[d]))
               /\ Parts(st.summary) /\ Shows(st)
    <2> DEFINE full == Pylon!Summarised(store.summary, c, p)
               kept == [store EXCEPT !.info[c] = p, !.summary = sum]
    <2>0. c \in Pylon!Cids /\ c \in Pylon!Kinds
      BY DEF Pylon!Cids, Pylon!Kinds
    <2>1. full \in [valid : BOOLEAN, pack : Pylon!Slot, cells : Pylon!Slot, status : Pylon!Slot]
      BY <1>1, <2>0, SummarisedType DEF Pylon!Stores
    <2>2. (store.summary.valid => full.valid) /\ Parts(full)
      BY <1>1, <1>3, <2>0, SummarisedFacts DEF Pylon!Stores
    <2> HIDE DEF full
    <2>3. sum \in {full, [full EXCEPT !.cells = cells]}
      BY <1>3 DEF full
    <2>4. /\ sum \in [valid : BOOLEAN, pack : Pylon!Slot, cells : Pylon!Slot, status : Pylon!Slot]
          /\ sum.valid = full.valid /\ sum.pack = full.pack /\ sum.status = full.status
      BY <2>1, <2>3
    <2>5. /\ kept \in Pylon!Stores /\ kept.summary = sum /\ kept.model = store.model
          /\ \A d \in Pylon!Cids : kept.info[d] = store.info[d] \/ (d = c /\ kept.info[d] = p)
      BY <1>1, <2>0, <2>4 DEF Pylon!Stores
    <2>6. st = Pylon!Published(kept, now)
      BY <1>3
    <2> HIDE DEF kept
    <2>7. kept.model.valid => kept.summary.valid
      BY <1>1, <2>2, <2>4, <2>5 DEF Shows
    <2>8. st.info = kept.info /\ st.summary = kept.summary /\ Shows(st)
      BY <1>1, <2>5, <2>6, <2>7, PublishedFacts
    <2>9. Parts(st.summary)
      BY <2>2, <2>4, <2>5, <2>8 DEF Parts
    <2> QED BY <1>3, <2>5, <2>8, <2>9
  <1>4. /\ Pylon!Build61(Pylon!ValueRead) \in Pylon!Slot /\ Pylon!Build61(Pylon!ValueRead).of = "61" /\ ~Measured(Pylon!Build61(Pylon!ValueRead))
        /\ Pylon!Build63(Pylon!ValueRead) \in Pylon!Slot /\ Pylon!Build63(Pylon!ValueRead).of = "63" /\ ~Measured(Pylon!Build63(Pylon!ValueRead))
    <2>1. "61" \in Pylon!Kinds /\ "63" \in Pylon!Kinds
      BY DEF Pylon!Kinds, Pylon!Cids
    <2> QED BY <1>1, <2>1, ReadType, SlotsAre DEF Pylon!Build61, Pylon!Build63, Pylon!Built, Measured
  <1>5. CASE st = Pylon!Refreshed61(store)
    BY <1>1, <1>3, <1>4, <1>5, SlotsAre DEF Pylon!Refreshed61
  <1>6. CASE st = Pylon!Refreshed63(store)
    BY <1>1, <1>3, <1>4, <1>6, SlotsAre DEF Pylon!Refreshed63
  <1> QED BY <1>2, <1>5, <1>6

-----------------------------------------------------------------------------
(* What is cached and told.                                                *)

StoreInv == ValuesAreOld /\ Pylon!AttributedRight /\ Pylon!CacheIsWhatWasPassed /\ SummaryIsShown

LEMMA StoreParts ==
    /\ Pylon!AttributedRight <=>
           (\A c \in Pylon!Cids : store.info[c] # Pylon!None => store.info[c].of = c) /\ Parts(store.summary)
    /\ SummaryIsShown <=> Shows(store)
    /\ Pylon!AttributedRight' <=>
           (\A c \in Pylon!Cids : store'.info[c] # Pylon!None => store'.info[c].of = c) /\ Parts(store'.summary)
    /\ SummaryIsShown' <=> Shows(store')
  BY DEF Pylon!AttributedRight, Parts, SummaryIsShown, Shows

LEMMA NoneFacts == Pylon!None.val = 0 /\ Pylon!None.of \notin Pylon!Kinds /\ Pylon!None.of \notin Pylon!Cids /\ Measured(Pylon!None)
  BY DEF Pylon!None, Pylon!Kinds, Pylon!Cids, Measured

\* A step that builds or drops keeps what is said of the values.
LEMMA StoreKept ==
    ASSUME PylonInv, Pylon!TypeOK', UNCHANGED <<asked, passed, bms>>, now' >= now,
           \A c \in Pylon!Cids : \/ store'.info[c] = store.info[c] \/ store'.info[c] = Pylon!None
                                \/ (store'.info[c].of = c /\ ~Measured(store'.info[c])),
           Parts(store'.summary), Shows(store'),
           Coming' \/ InTask' \/ Out' \/ Back' => Coming \/ InTask \/ Out \/ Back
    PROVE  StoreInv'
  <1>0. Pylon!TypeOK /\ StoreInv /\ Place
    BY DEF PylonInv, StoreInv
  <1>1. now \in Nat /\ now' \in Nat /\ asked.at \in Nat /\ MaxDelay \in Nat
    BY <1>0, PylonNumbers, PylonConstants DEF Pylon!TypeOK
  <1>2. \A c \in Pylon!Kinds : passed[c].val \in Nat
    BY <1>0, SlotsAre, PylonConstants DEF Pylon!TypeOK
  <1>3. \A c \in Pylon!Cids : store.info[c].val \in Nat /\ store'.info[c].val \in Nat
    BY <1>0, SlotsAre, PylonConstants DEF Pylon!TypeOK, Pylon!Stores
  <1>4. Coming' \/ InTask' \/ AtBattery' => Coming \/ InTask \/ AtBattery
    BY DEF AtBattery
  <1>5. (Coming \/ InTask \/ AtBattery => asked.at > 0) /\ (bms.pc = "out" => asked.at > 0)
    BY <1>0, <1>1, TypeParts DEF Place, InTime, InAnswer, AtBattery, PylonTypes, Pylon!Requests
  <1>6. ValuesAreOld'
    <2>1. \A c \in Pylon!Kinds : passed'[c].val <= now' /\ passed'[c].val <= asked'.at + MaxDelay
      BY <1>0, <1>1, <1>2 DEF StoreInv, ValuesAreOld
    <2>2. \A c \in Pylon!Cids : Measured(store'.info[c]) => store'.info[c] = store.info[c] \/ store'.info[c].val = 0
      BY NoneFacts
    <2>3. \A c \in Pylon!Cids : Measured(store'.info[c]) =>
              store'.info[c].val <= now' /\ store'.info[c].val <= asked'.at + MaxDelay
      BY <1>0, <1>1, <1>3, <2>2 DEF StoreInv, ValuesAreOld
    <2>4. Coming' \/ InTask' \/ AtBattery' =>
              \A c \in Pylon!Cids : Measured(store'.info[c]) => store'.info[c].val < asked'.at
      BY <1>0, <1>1, <1>3, <1>4, <1>5, <2>2 DEF StoreInv, ValuesAreOld
    <2>5. Coming' \/ InTask' \/ Out' \/ Back' \/ InAnswer' => \A c \in Pylon!Kinds : passed'[c].val < asked'.at
      BY <1>0 DEF StoreInv, ValuesAreOld, InAnswer
    <2>6. bms'.pc = "out" =>
              \A c \in Pylon!Cids : Measured(store'.info[c]) =>
                  store'.info[c] = bms'.ans.p \/ store'.info[c].val < asked'.at
      BY <1>0, <1>5, <2>2 DEF StoreInv, ValuesAreOld
    <2> QED BY <2>1, <2>3, <2>4, <2>5, <2>6 DEF ValuesAreOld
  <1>7. Pylon!CacheIsWhatWasPassed'
    BY <1>0, NoneFacts DEF StoreInv, Pylon!CacheIsWhatWasPassed, Measured
  <1>8. Pylon!AttributedRight' /\ SummaryIsShown'
    BY <1>0, StoreParts DEF StoreInv
  <1> QED BY <1>6, <1>7, <1>8 DEF StoreInv

LEMMA InverterTaskStore ==
    ASSUME PylonInv,
           \/ Pylon!TakeRequest \/ Pylon!NoteRequest \/ Pylon!ForwardRequest \/ Pylon!CheckSource \/ Pylon!BeginRefresh
           \/ Pylon!Refresh61 \/ Pylon!Refresh42 \/ Pylon!Refresh63 \/ Pylon!AnswerInverter
    PROVE  StoreInv'
  <1>1. UNCHANGED <<asked, passed, bms, now>> /\ (Coming \/ InTask)
    BY DEF Pylon!TakeRequest, Pylon!NoteRequest, Pylon!ForwardRequest, Pylon!CheckSource, Pylon!BeginRefresh,
       Pylon!Refresh61, Pylon!Refresh42, Pylon!Refresh63, Pylon!RefreshStep, Pylon!AnswerInverter, Pylon!lineVars, Coming, InTask
  <1>2. store' \in {store, Pylon!Refreshed61(store), Pylon!Refreshed42(store), Pylon!Refreshed63(store)}
    BY DEF Pylon!TakeRequest, Pylon!NoteRequest, Pylon!ForwardRequest, Pylon!CheckSource, Pylon!BeginRefresh,
       Pylon!Refresh61, Pylon!Refresh42, Pylon!Refresh63, Pylon!RefreshStep, Pylon!AnswerInverter
  <1>3. Parts(store.summary) /\ Shows(store)
    BY StoreParts DEF PylonInv
  <1>4. now' >= now
    BY <1>1, PylonNumbers DEF PylonInv
  <1> QED BY <1>1, <1>2, <1>3, <1>4, InverterTaskType, RefreshedFacts, StoreKept

LEMMA BatteryTaskStore ==
    ASSUME PylonInv, Pylon!DropStale \/ Pylon!TakeAnswer \/ Pylon!Decode \/ Pylon!PassOn
    PROVE  StoreInv'
  <1>0. Pylon!TypeOK /\ StoreInv /\ Place /\ Pylon!TypeOK'
    BY BatteryTaskType DEF PylonInv, StoreInv
  <1>1. now \in Nat /\ asked.at \in Nat /\ MaxDelay \in Nat /\ now' >= now /\ asked' = asked /\ now' = now
    BY <1>0, PylonNumbers, PylonConstants DEF Pylon!DropStale, Pylon!TakeAnswer, Pylon!Decode, Pylon!PassOn, Pylon!lineVars
  <1>2. CASE Pylon!DropStale
    <2>1. store' = Pylon!EmptyStore /\ UNCHANGED <<passed, bms, toBridge, inv, toBattery, toBridgeBack>>
      BY <1>2 DEF Pylon!DropStale, Pylon!lineVars
    <2>2. \A c \in Pylon!Cids : store'.info[c] = Pylon!None \/ (store'.info[c].of = c /\ ~Measured(store'.info[c]))
      BY <2>1 DEF Pylon!EmptyStore, Pylon!EmptyInfo, Pylon!Zero62, Measured
    <2>3. Parts(store'.summary) /\ Shows(store')
      BY <2>1 DEF Pylon!EmptyStore, Pylon!NoSummary, Pylon!NoModel, Parts, Shows
    <2> QED BY <1>0, <1>1, <2>1, <2>2, <2>3, StoreKept DEF Coming, InTask, Out, Back
  <1>3. CASE Pylon!TakeAnswer
    <2>1. Back /\ bms.pc = "read" /\ bms'.pc = "decode" /\ UNCHANGED <<store, passed>>
      BY <1>0, <1>3, TypeParts DEF Pylon!TakeAnswer, BmsType, Back
    <2>2. ValuesAreOld'
      BY <1>0, <1>1, <2>1 DEF StoreInv, ValuesAreOld, AtBattery
    <2> QED BY <1>0, <2>1, <2>2 DEF StoreInv, Pylon!AttributedRight, Pylon!CacheIsWhatWasPassed, SummaryIsShown
  <1>4. CASE Pylon!Decode
    <2>1. /\ bms.pc = "decode" /\ bms'.pc = "out" /\ bms'.ans = bms.ans
          /\ UNCHANGED <<passed, toBridge, inv, toBattery, toBridgeBack>>
      BY <1>0, <1>4, TypeParts DEF Pylon!Decode, BmsType, Pylon!lineVars
    <2>2. ~Coming /\ ~InTask /\ ~Out /\ ~Back
      BY <1>0, <2>1 DEF Place, OneAtATime, InAnswer
    <2>3. /\ bms.ans \in Pylon!Answers /\ bms.ans.p.of = asked.cid /\ bms.ans.p.val = now
          /\ asked.at <= now /\ now <= asked.at + MaxDelay
      BY <1>0, <2>1 DEF Place, ItIsTheNewest, InTime, InAnswer
    <2>4. /\ bms.ans.p \in Pylon!Slot /\ now \in 0..MaxTime /\ store \in Pylon!Stores
          /\ Shows(store) /\ Parts(store.summary)
      BY <1>0, <2>3, PylonConstants, SlotsAre, StoreParts DEF Pylon!Answers, StoreInv, Pylon!TypeOK
    <2>5. \/ store' = store
          \/ asked.cid \in Pylon!Cids /\ store' = Pylon!Cached(store, asked.cid, bms.ans.p, now)
      BY <1>4, <2>1, PairedRight DEF Pylon!Decode, IsNoted
    <2>6. /\ \A c \in Pylon!Cids : store'.info[c] = store.info[c] \/ (c = asked.cid /\ store'.info[c] = bms.ans.p)
          /\ Parts(store'.summary) /\ Shows(store')
      BY <2>3, <2>4, <2>5, CachedFacts
    <2>7. \A c \in Pylon!Kinds : passed[c].val \in Nat /\ passed[c].val < asked.at
      BY <1>0, <2>1, SlotsAre, PylonConstants DEF StoreInv, ValuesAreOld, InAnswer, Pylon!TypeOK
    <2>8. \A c \in Pylon!Cids : Measured(store.info[c]) => store.info[c].val \in Nat /\ store.info[c].val < asked.at
      <3>1. \A c \in Pylon!Cids : store.info[c].val \in Nat
        BY <2>4, SlotsAre, PylonConstants DEF Pylon!Stores
      <3> QED BY <1>0, <2>1, <3>1 DEF StoreInv, ValuesAreOld, AtBattery
    <2>9. ValuesAreOld'
      BY <1>0, <1>1, <2>1, <2>2, <2>3, <2>6, <2>7, <2>8 DEF StoreInv, ValuesAreOld, Coming, InTask, AtBattery, Out, Back, InAnswer
    <2>10. Pylon!CacheIsWhatWasPassed'
      <3> SUFFICES ASSUME NEW c \in Pylon!Cids,
                          store'.info[c].of = c, store'.info[c].how # "built", store'.info[c].val = passed[c].val
                   PROVE  store'.info[c] = passed[c]
        BY <2>1 DEF Pylon!CacheIsWhatWasPassed
      <3>1. store'.info[c].val # now
        BY <1>1, <2>3, <2>7, SlotsAre
      <3> QED BY <1>0, <2>3, <2>6, <3>1 DEF StoreInv, Pylon!CacheIsWhatWasPassed
    <2>11. Pylon!AttributedRight' /\ SummaryIsShown'
      BY <1>0, <2>3, <2>6, StoreParts DEF StoreInv
    <2> QED BY <2>9, <2>10, <2>11 DEF StoreInv
  <1>5. CASE Pylon!PassOn
    <2>1. /\ bms.pc = "out" /\ bms'.pc = "read" /\ UNCHANGED <<store, toBridge, inv, toBattery, toBridgeBack>>
      BY <1>0, <1>5, TypeParts DEF Pylon!PassOn, BmsType, Pylon!lineVars
    <2>2. ~Coming /\ ~InTask /\ ~Out /\ ~Back
      BY <1>0, <2>1 DEF Place, OneAtATime, InAnswer
    <2>3. /\ bms.ans \in Pylon!Answers /\ bms.ans.p.val = now /\ asked.at <= now /\ now <= asked.at + MaxDelay
      BY <1>0, <2>1 DEF Place, ItIsTheNewest, InTime, InAnswer
    <2>4. passed' = passed \/ passed' = [passed EXCEPT ![bms.ans.p.of] = bms.ans.p]
      BY <1>5 DEF Pylon!PassOn
    <2>5. \A c \in Pylon!Kinds : passed'[c] = passed[c] \/ passed'[c] = bms.ans.p
      BY <1>0, <2>4 DEF Pylon!TypeOK
    <2>6. ValuesAreOld'
      BY <1>0, <1>1, <2>1, <2>2, <2>3, <2>5 DEF StoreInv, ValuesAreOld, Coming, InTask, AtBattery, Out, Back, InAnswer
    <2>7. Pylon!CacheIsWhatWasPassed'
      <3> SUFFICES ASSUME NEW c \in Pylon!Cids,
                          store.info[c].of = c, store.info[c].how # "built", store.info[c].val = passed'[c].val
                   PROVE  store.info[c] = passed'[c]
        BY <2>1 DEF Pylon!CacheIsWhatWasPassed
      <3>1. CASE passed'[c] = passed[c]
        BY <1>0, <3>1 DEF StoreInv, Pylon!CacheIsWhatWasPassed
      <3>2. CASE passed'[c] = bms.ans.p
        <4>1. store.info[c].val = now
          BY <2>3, <3>2
        <4>2. store.info[c] = bms.ans.p \/ store.info[c].val < asked.at
          BY <1>0, <2>1 DEF StoreInv, ValuesAreOld, Measured
        <4> QED BY <1>1, <2>3, <3>2, <4>1, <4>2
      <3> QED BY <2>5, <3>1, <3>2, SlotsAre
    <2> QED BY <1>0, <2>1, <2>6, <2>7 DEF StoreInv, Pylon!AttributedRight, SummaryIsShown
  <1> QED BY <1>2, <1>3, <1>4, <1>5

LEMMA OutsideStore ==
    ASSUME PylonInv,
           \/ \E c \in Pylon!Kinds, adr \in Adrs : Pylon!Ask(c, adr)
           \/ \E size \in UNION {Sizes[c] : c \in Pylon!Kinds}, low \in BOOLEAN : Pylon!Answer(size, low)
           \/ Pylon!NoReply \/ Pylon!Toggle \/ Pylon!Tick \/ UNCHANGED Pylon!vars
    PROVE  StoreInv'
  <1>0. Pylon!TypeOK /\ StoreInv /\ Place /\ Pylon!TypeOK'
    BY OutsideType DEF PylonInv, StoreInv
  <1>1. UNCHANGED <<store, passed, bms>>
    BY DEF Pylon!Ask, Pylon!Answer, Pylon!NoReply, Pylon!Toggle, Pylon!Tick, Pylon!vars
  <1>2. Parts(store'.summary) /\ Shows(store')
    BY <1>0, <1>1, StoreParts DEF StoreInv
  <1>3. CASE \E c \in Pylon!Kinds, adr \in Adrs : Pylon!Ask(c, adr)
    <2>1. PICK c \in Pylon!Kinds, adr \in Adrs : Pylon!Ask(c, adr)
      BY <1>3
    <2>2. ~InAnswer
      BY <2>1, AskedAlone
    <2>3. asked'.at = now /\ now' = now /\ now - asked.at >= Patience
      BY <2>1 DEF Pylon!Ask
    <2>4. asked.at + MaxDelay < now /\ now <= asked'.at + MaxDelay
      BY <1>0, <2>3, PylonNumbers, PylonConstants
    <2>5. /\ \A k \in Pylon!Kinds : passed[k].val \in Nat
          /\ \A k \in Pylon!Cids : store.info[k].val \in Nat
      BY <1>0, SlotsAre, PylonConstants DEF Pylon!TypeOK, Pylon!Stores
    <2>6. /\ \A k \in Pylon!Kinds : passed[k].val < now /\ passed[k].val <= now + MaxDelay
          /\ \A k \in Pylon!Cids : Measured(store.info[k]) => store.info[k].val < now /\ store.info[k].val <= now + MaxDelay
      BY <1>0, <2>4, <2>5, PylonNumbers, PylonConstants DEF StoreInv, ValuesAreOld
    <2>7. ValuesAreOld'
      BY <1>1, <2>2, <2>3, <2>5, <2>6, <1>0, PylonNumbers DEF ValuesAreOld, InAnswer
    <2> QED BY <1>0, <1>1, <1>2, <2>7, StoreParts DEF StoreInv, Pylon!CacheIsWhatWasPassed
  <1>4. CASE \/ \E size \in UNION {Sizes[c] : c \in Pylon!Kinds}, low \in BOOLEAN : Pylon!Answer(size, low)
             \/ Pylon!NoReply \/ Pylon!Toggle \/ Pylon!Tick \/ UNCHANGED Pylon!vars
    <2>1. asked' = asked
      BY <1>4 DEF Pylon!Answer, Pylon!NoReply, Pylon!Toggle, Pylon!Tick, Pylon!vars, Pylon!lineVars
    <2>2. now' >= now
      <3>1. now' = now \/ now' = now + 1
        BY <1>4 DEF Pylon!Answer, Pylon!NoReply, Pylon!Toggle, Pylon!Tick, Pylon!vars
      <3> QED BY <1>0, <3>1, PylonNumbers
    <2>3. inv'.pc = inv.pc /\ toBridge' = toBridge
      BY <1>0, <1>4, TypeParts DEF Pylon!Answer, Pylon!NoReply, Pylon!Toggle, Pylon!Tick, Pylon!vars, Pylon!lineVars, InvType
    <2>4. Out' \/ Back' => Out \/ Back
      BY <1>4 DEF Pylon!Answer, Pylon!NoReply, Pylon!Toggle, Pylon!Tick, Pylon!vars, Pylon!lineVars, Out, Back
    <2> QED BY <1>0, <1>1, <1>2, <2>1, <2>2, <2>3, <2>4, StoreKept DEF Coming, InTask
  <1> QED BY <1>3, <1>4

-----------------------------------------------------------------------------
(* What the inverter hears: the floor of the SOC, and the override.        *)

HeardInv == FloorInv /\ RefreshInv /\ Pylon!OverrideAnswersAreFake

\* Under the override a step of the refresh caches what is fake.
LEMMA RefreshedFake ==
    ASSUME PylonInv, override
    PROVE  /\ Pylon!Refreshed61(store).info["61"].val = Pylon!Fake
           /\ Pylon!Refreshed42(store).info = [store.info EXCEPT !["62"] = Pylon!Zero62, !["42"] = Pylon!None]
           /\ Pylon!Refreshed63(store).info["63"].val = Pylon!Fake
           /\ \A c \in {"61", "42", "62"} : Pylon!Refreshed63(store).info[c] = store.info[c]
  <1>1. /\ store \in Pylon!Stores /\ now \in 0..MaxTime /\ Shows(store) /\ Pylon!TypeOK
        /\ Pylon!ModelReads /\ Pylon!ValueRead = Pylon!Fake
    BY PylonConstants, StoreParts DEF PylonInv, Pylon!TypeOK, Pylon!ModelReads, Pylon!ValueRead
  <1>2. Pylon!Refreshed42(store).info = [store.info EXCEPT !["62"] = Pylon!Zero62, !["42"] = Pylon!None]
    BY <1>1 DEF Pylon!Refreshed42, Pylon!Stores
  <1>3. ASSUME NEW c \in {"61", "63"}, NEW p \in Pylon!Slot, NEW cells \in Pylon!Slot, NEW sum,
               sum \in {Pylon!Summarised(store.summary, c, p), [Pylon!Summarised(store.summary, c, p) EXCEPT !.cells = cells]}
        PROVE  Pylon!Published([store EXCEPT !.info[c] = p, !.summary = sum], now).info = [store.info EXCEPT ![c] = p]
    <2> DEFINE kept == [store EXCEPT !.info[c] = p, !.summary = sum]
    <2>0. c \in Pylon!Cids /\ c \in Pylon!Kinds
      BY DEF Pylon!Cids, Pylon!Kinds
    <2>1. /\ Pylon!Summarised(store.summary, c, p) \in [valid : BOOLEAN, pack : Pylon!Slot, cells : Pylon!Slot, status : Pylon!Slot]
          /\ store.summary.valid => Pylon!Summarised(store.summary, c, p).valid
      BY <1>1, <2>0, SummarisedType, SummarisedFacts DEF Pylon!Stores
    <2>2. sum \in [valid : BOOLEAN, pack : Pylon!Slot, cells : Pylon!Slot, status : Pylon!Slot] /\ (store.summary.valid => sum.valid)
      BY <1>3, <2>1
    <2>3. /\ kept \in Pylon!Stores /\ kept.summary = sum /\ kept.model = store.model
          /\ kept.info = [store.info EXCEPT ![c] = p]
      BY <1>1, <2>0, <2>2 DEF Pylon!Stores
    <2> HIDE DEF kept
    <2>4. Pylon!Published(kept, now).info = kept.info
      BY <1>1, <2>2, <2>3, PublishedFacts DEF Shows
    <2> QED BY <2>3, <2>4 DEF kept
  <1>4. /\ Pylon!Build61(Pylon!ValueRead) \in Pylon!Slot /\ Pylon!Build61(Pylon!ValueRead).val = Pylon!Fake
        /\ Pylon!Build63(Pylon!ValueRead) \in Pylon!Slot /\ Pylon!Build63(Pylon!ValueRead).val = Pylon!Fake
    <2>1. "61" \in Pylon!Kinds /\ "63" \in Pylon!Kinds
      BY DEF Pylon!Kinds, Pylon!Cids
    <2> QED BY <1>1, <2>1, ReadType, SlotsAre DEF Pylon!Build61, Pylon!Build63, Pylon!Built
  <1>5. Pylon!Refreshed61(store).info = [store.info EXCEPT !["61"] = Pylon!Build61(Pylon!ValueRead)]
    BY <1>1, <1>3, <1>4, SlotsAre DEF Pylon!Refreshed61
  <1>6. Pylon!Refreshed63(store).info = [store.info EXCEPT !["63"] = Pylon!Build63(Pylon!ValueRead)]
    BY <1>1, <1>3, <1>4, SlotsAre DEF Pylon!Refreshed63
  <1> QED BY <1>1, <1>2, <1>4, <1>5, <1>6 DEF Pylon!Stores, Pylon!Cids

LEMMA InverterTaskHeard ==
    ASSUME PylonInv,
           \/ Pylon!TakeRequest \/ Pylon!NoteRequest \/ Pylon!ForwardRequest \/ Pylon!CheckSource \/ Pylon!BeginRefresh
           \/ Pylon!Refresh61 \/ Pylon!Refresh42 \/ Pylon!Refresh63 \/ Pylon!AnswerInverter
    PROVE  HeardInv'
  <1>0. Pylon!TypeOK /\ InvType /\ HeardInv /\ bms' = bms /\ override' = override
    BY TypeParts DEF PylonInv, HeardInv, Pylon!TakeRequest, Pylon!NoteRequest, Pylon!ForwardRequest, Pylon!CheckSource, Pylon!BeginRefresh,
       Pylon!Refresh61, Pylon!Refresh42, Pylon!Refresh63, Pylon!RefreshStep, Pylon!AnswerInverter
  <1>1. CASE Pylon!AnswerInverter
    <2> DEFINE c == inv.req.cid
               p == IF c \in Pylon!Cids THEN store.info[c] ELSE Pylon!Built(c, Pylon!ValueRead, 9)
    <2>1. inv.pc = "pick" /\ inv'.pc = "read" /\ inv.fake
      BY <1>0, <1>1 DEF Pylon!AnswerInverter, InvType, HeardInv, RefreshInv
    <2>2. RefreshInv'
      BY <2>1 DEF RefreshInv, InTask
    <2>3. inv.steady => p.val = Pylon!Fake
      <3> SUFFICES ASSUME inv.steady PROVE p.val = Pylon!Fake
        OBVIOUS
      <3>1. override
        BY <1>0, <2>1 DEF HeardInv, RefreshInv, InTask
      <3>2. \A d \in Pylon!Cids : store.info[d].val = Pylon!Fake
        BY <1>0, <2>1 DEF HeardInv, RefreshInv, Pylon!Cids
      <3> QED BY <3>1, <3>2 DEF Pylon!Built, Pylon!ValueRead
    <2>4. \/ heard' = heard
          \/ heard' = [ans |-> [adr |-> inv.req.adr, p |-> p], req |-> inv.req, by |-> "bridge", steady |-> inv.steady]
      BY <1>1 DEF Pylon!AnswerInverter
    <2> HIDE DEF p
    <2>5. Pylon!FloorHolds' /\ Pylon!OverrideAnswersAreFake'
      BY <1>0, <2>3, <2>4 DEF HeardInv, FloorInv, Pylon!FloorHolds, Pylon!OverrideAnswersAreFake
    <2> QED BY <1>0, <2>2, <2>5 DEF HeardInv, FloorInv, InAnswer
  <1>2. CASE Pylon!TakeRequest \/ Pylon!NoteRequest \/ Pylon!ForwardRequest \/ Pylon!CheckSource \/ Pylon!BeginRefresh
             \/ Pylon!Refresh61 \/ Pylon!Refresh42 \/ Pylon!Refresh63
    <2>1. heard' = heard
      BY <1>2 DEF Pylon!TakeRequest, Pylon!NoteRequest, Pylon!ForwardRequest, Pylon!CheckSource, Pylon!BeginRefresh,
         Pylon!Refresh61, Pylon!Refresh42, Pylon!Refresh63, Pylon!RefreshStep
    <2>2. ASSUME Pylon!TakeRequest PROVE RefreshInv'
      <3>1. inv'.pc \in {"note", "act"} /\ inv'.fake = override
        BY <1>0, <2>2 DEF Pylon!TakeRequest, InvType
      <3> QED BY <1>0, <3>1 DEF RefreshInv
    <2>3. ASSUME Pylon!NoteRequest \/ Pylon!ForwardRequest PROVE RefreshInv'
      <3>1. inv.pc \in {"note", "act"} /\ inv'.pc \in {"act", "read"} /\ inv'.fake = inv.fake /\ inv'.steady = inv.steady
        BY <1>0, <2>3 DEF Pylon!NoteRequest, Pylon!ForwardRequest, InvType
      <3> QED BY <1>0, <3>1 DEF HeardInv, RefreshInv, InTask
    <2>4. ASSUME Pylon!CheckSource \/ Pylon!BeginRefresh PROVE RefreshInv'
      <3>1. /\ inv.pc \in {"act", "check"} /\ inv'.pc \in {"read", "check", "61", "pick"}
            /\ inv.fake /\ inv'.fake = inv.fake /\ inv'.steady = inv.steady
            /\ inv'.pc = "pick" => ~override
        BY <1>0, <2>4 DEF Pylon!CheckSource, Pylon!BeginRefresh, InvType, HeardInv, RefreshInv
      <3> QED BY <1>0, <3>1 DEF HeardInv, RefreshInv, InTask
    <2>5. ASSUME Pylon!Refresh61 PROVE RefreshInv'
      <3>1. /\ inv.pc = "61" /\ inv'.pc = "42" /\ inv.fake /\ inv'.fake = inv.fake /\ inv'.steady = inv.steady
            /\ store' = Pylon!Refreshed61(store)
        BY <1>0, <2>5 DEF Pylon!Refresh61, Pylon!RefreshStep, InvType, HeardInv, RefreshInv
      <3> QED BY <1>0, <3>1, RefreshedFake DEF HeardInv, RefreshInv, InTask
    <2>6. ASSUME Pylon!Refresh42 PROVE RefreshInv'
      <3>1. /\ inv.pc = "42" /\ inv'.pc = "63" /\ inv.fake /\ inv'.fake = inv.fake /\ inv'.steady = inv.steady
            /\ store' = Pylon!Refreshed42(store)
        BY <1>0, <2>6 DEF Pylon!Refresh42, Pylon!RefreshStep, InvType, HeardInv, RefreshInv
      <3>2. override => store'.info["61"] = store.info["61"] /\ store'.info["42"].val = Pylon!Fake /\ store'.info["62"].val = Pylon!Fake
        BY <1>0, <3>1, RefreshedFake DEF Pylon!TypeOK, Pylon!Stores, Pylon!Zero62, Pylon!None, Pylon!Cids, Pylon!Fake
      <3> QED BY <1>0, <3>1, <3>2 DEF HeardInv, RefreshInv, InTask
    <2>7. ASSUME Pylon!Refresh63 PROVE RefreshInv'
      <3>1. /\ inv.pc = "63" /\ inv'.pc = "pick" /\ inv.fake /\ inv'.fake = inv.fake /\ inv'.steady = inv.steady
            /\ store' = Pylon!Refreshed63(store)
        BY <1>0, <2>7 DEF Pylon!Refresh63, Pylon!RefreshStep, InvType, HeardInv, RefreshInv
      <3> QED BY <1>0, <3>1, RefreshedFake DEF HeardInv, RefreshInv, InTask
    <2>8. RefreshInv'
      BY <1>2, <2>2, <2>3, <2>4, <2>5, <2>6, <2>7
    <2> QED BY <1>0, <2>1, <2>8 DEF HeardInv, FloorInv, InAnswer, Pylon!FloorHolds, Pylon!OverrideAnswersAreFake
  <1> QED BY <1>1, <1>2

LEMMA BatteryTaskHeard ==
    ASSUME PylonInv, Pylon!DropStale \/ Pylon!TakeAnswer \/ Pylon!Decode \/ Pylon!PassOn
    PROVE  HeardInv'
  <1>0. Pylon!TypeOK /\ BmsType /\ HeardInv /\ Place /\ UNCHANGED <<inv, override>>
    BY TypeParts DEF PylonInv, HeardInv, Pylon!DropStale, Pylon!TakeAnswer, Pylon!Decode, Pylon!PassOn
  <1>1. CASE Pylon!DropStale
    <2>1. ~override /\ UNCHANGED <<heard, bms>>
      BY <1>1 DEF Pylon!DropStale, Pylon!SourceGone
    <2>2. ~(InTask /\ inv.steady /\ inv.fake)
      BY <1>0, <2>1 DEF HeardInv, RefreshInv
    <2>3. RefreshInv'
      BY <1>0, <2>1, <2>2 DEF HeardInv, RefreshInv, InTask
    <2> QED BY <1>0, <2>1, <2>3 DEF HeardInv, FloorInv, InAnswer, Pylon!FloorHolds, Pylon!OverrideAnswersAreFake
  <1>2. CASE Pylon!TakeAnswer
    <2>1. PICK a \in Pylon!Answers :
              toBridgeBack = <<a>> /\ a.adr = asked.adr /\ a.p.of = asked.cid /\ a.p.val = now
      BY <1>0, <1>2 DEF Pylon!TakeAnswer, Place, ItIsTheNewest, Back
    <2>2. bms'.ans = Pylon!Floored(a) /\ UNCHANGED <<heard, store>>
      BY <1>0, <1>2, <2>1, SingleFacts DEF Pylon!TakeAnswer, BmsType
    <2>3. a.p.of = "61" /\ a.p.size >= 5 /\ a.p.low => Pylon!FloorApplies(a.p)
      <3> SUFFICES ASSUME a.p.of = "61" PROVE pend.valid /\ pend.cid = "61" /\ now - pend.at <= PairWindow
        BY DEF Pylon!FloorApplies, Pylon!InWindow
      <3>1. pend.valid /\ IsNoted
        BY <2>1 DEF PylonInv, NoteInv, NotedInTime, AtBattery, Back, Pylon!Cids
      <3>2. now <= asked.at + MaxDelay /\ pend.cid = "61"
        BY <1>0, <2>1, <3>1 DEF Place, InTime, Back, IsNoted
      <3> QED BY <1>0, <3>1, <3>2, PylonNumbers, PylonConstants DEF IsNoted
    <2>4. bms'.ans.p.of = "61" /\ bms'.ans.p.size >= 5 => ~bms'.ans.p.low
      BY <2>2, <2>3, FlooredType
    <2> QED BY <1>0, <2>2, <2>4 DEF HeardInv, FloorInv, RefreshInv, InTask, Pylon!FloorHolds, Pylon!OverrideAnswersAreFake
  <1>3. CASE Pylon!Decode
    <2>1. bms.pc = "decode" /\ bms'.ans = bms.ans /\ heard' = heard
      BY <1>0, <1>3 DEF Pylon!Decode, BmsType
    <2>2. inv.pc = "read"
      BY <1>0, <2>1 DEF Place, OneAtATime, InTask, InAnswer
    <2> QED BY <1>0, <2>1, <2>2 DEF HeardInv, FloorInv, InAnswer, RefreshInv, InTask, Pylon!FloorHolds, Pylon!OverrideAnswersAreFake
  <1>4. CASE Pylon!PassOn
    <2>1. bms.pc = "out" /\ bms'.pc = "read" /\ store' = store
      BY <1>0, <1>4 DEF Pylon!PassOn, BmsType
    <2>2. heard' = heard \/ heard' = [ans |-> bms.ans, req |-> asked, by |-> "battery", steady |-> TRUE]
      BY <1>4 DEF Pylon!PassOn
    <2>3. Pylon!FloorHolds' /\ Pylon!OverrideAnswersAreFake'
      BY <1>0, <2>1, <2>2 DEF HeardInv, FloorInv, InAnswer, Pylon!FloorHolds, Pylon!OverrideAnswersAreFake
    <2> QED BY <1>0, <2>1, <2>3 DEF HeardInv, FloorInv, InAnswer, RefreshInv, InTask
  <1> QED BY <1>1, <1>2, <1>3, <1>4

LEMMA OutsideHeard ==
    ASSUME PylonInv,
           \/ \E c \in Pylon!Kinds, adr \in Adrs : Pylon!Ask(c, adr)
           \/ \E size \in UNION {Sizes[c] : c \in Pylon!Kinds}, low \in BOOLEAN : Pylon!Answer(size, low)
           \/ Pylon!NoReply \/ Pylon!Toggle \/ Pylon!Tick \/ UNCHANGED Pylon!vars
    PROVE  HeardInv'
  <1>0. Pylon!TypeOK /\ InvType /\ HeardInv /\ UNCHANGED <<heard, store, bms>>
    BY TypeParts DEF PylonInv, HeardInv, Pylon!Ask, Pylon!Answer, Pylon!NoReply, Pylon!Toggle, Pylon!Tick, Pylon!vars
  <1>1. FloorInv' /\ Pylon!OverrideAnswersAreFake'
    BY <1>0 DEF HeardInv, FloorInv, InAnswer, Pylon!FloorHolds, Pylon!OverrideAnswersAreFake
  <1>2. RefreshInv'
    <2>1. CASE Pylon!Toggle
      <3>1. inv'.steady = FALSE /\ inv'.pc = inv.pc /\ inv'.fake = inv.fake
        BY <1>0, <2>1 DEF Pylon!Toggle, InvType
      <3> QED BY <1>0, <3>1 DEF HeardInv, RefreshInv
    <2>2. CASE UNCHANGED <<inv, override>>
      BY <1>0, <2>2 DEF HeardInv, RefreshInv, InTask
    <2> QED BY <2>1, <2>2 DEF Pylon!Ask, Pylon!Answer, Pylon!NoReply, Pylon!Tick, Pylon!vars
  <1> QED BY <1>1, <1>2 DEF HeardInv

-----------------------------------------------------------------------------
LEMMA PylonStarts == Pylon!Init => PylonInv
  <1> SUFFICES ASSUME Pylon!Init PROVE PylonInv
    OBVIOUS
  <1> USE DEF Pylon!Init
  <1>1. Pylon!TypeOK
    <2>1. PylonTypes /\ PendType
      <3>1. PylonTypes
        <4>1. now \in 1..MaxTime /\ toggles \in 0..MaxToggles /\ lastBms \in 0..MaxTime
          BY PylonConstants
        <4>2. asked \in Pylon!Requests \cup {Pylon!NoRequest} /\ override \in BOOLEAN
          OBVIOUS
        <4>3. toBridge \in Seq(Pylon!Requests) /\ toBattery \in Seq(Pylon!Requests) /\ toBridgeBack \in Seq(Pylon!Answers)
          OBVIOUS
        <4> QED BY <4>1, <4>2, <4>3 DEF PylonTypes
      <3>2. [valid |-> FALSE, cid |-> "none", adr |-> 0, at |-> 0]
                \in [valid : BOOLEAN, cid : Pylon!Cids \cup {"none"}, adr : Adrs \cup {0}, at : 0..MaxTime]
        BY PylonConstants
      <3> QED BY <3>1, <3>2 DEF PendType
    <2>2. InvType /\ BmsType
      BY DEF InvType, BmsType, Pylon!InvIdle, Pylon!BmsIdle
    <2>3. ToldType
      BY SlotsAre DEF ToldType, Pylon!Heard
    <2> QED BY <2>1, <2>2, <2>3, EmptyType, TypeParts
  <1>2. /\ ~Coming /\ ~InTask /\ ~Out /\ ~Back /\ ~InAnswer /\ inv.pc = "read" /\ bms.pc = "read"
        /\ asked.at = 0 /\ asked.cid = "none"
    BY DEF Coming, InTask, Out, Back, InAnswer, Pylon!InvIdle, Pylon!BmsIdle, Pylon!NoRequest
  <1>3. Place
    BY <1>2 DEF Place, OneAtATime, ItIsTheNewest, InTime
  <1>4. NoteInv
    BY <1>2 DEF NoteInv, NotedOrOld, NotedInTime, AtBattery
  <1>5. ValuesAreOld
    BY <1>2, PylonConstants, NoneFacts DEF ValuesAreOld, AtBattery, Pylon!EmptyStore, Pylon!EmptyInfo, Pylon!Zero62, Pylon!Fake
  <1>6. Pylon!AttributedRight /\ Pylon!CacheIsWhatWasPassed /\ SummaryIsShown
    BY DEF Pylon!AttributedRight, Pylon!CacheIsWhatWasPassed, SummaryIsShown, Pylon!EmptyStore, Pylon!EmptyInfo, Pylon!Zero62,
       Pylon!None, Pylon!NoSummary, Pylon!NoModel, Pylon!Cids
  <1>7. FloorInv /\ RefreshInv /\ Pylon!OverrideAnswersAreFake
    BY <1>2 DEF FloorInv, RefreshInv, Pylon!FloorHolds, Pylon!OverrideAnswersAreFake
  <1> QED BY <1>1, <1>3, <1>4, <1>5, <1>6, <1>7 DEF PylonInv

LEMMA PylonKept == PylonInv /\ (Pylon!Next \/ UNCHANGED Pylon!vars) => PylonInv'
  <1> SUFFICES ASSUME PylonInv, Pylon!Next \/ UNCHANGED Pylon!vars PROVE PylonInv'
    OBVIOUS
  <1>1. CASE \/ Pylon!TakeRequest \/ Pylon!NoteRequest \/ Pylon!ForwardRequest \/ Pylon!CheckSource \/ Pylon!BeginRefresh
             \/ Pylon!Refresh61 \/ Pylon!Refresh42 \/ Pylon!Refresh63 \/ Pylon!AnswerInverter
    BY <1>1, InverterTaskType, InverterTaskPlace, InverterTaskNote, InverterTaskStore, InverterTaskHeard DEF PylonInv, StoreInv, HeardInv
  <1>2. CASE Pylon!DropStale \/ Pylon!TakeAnswer \/ Pylon!Decode \/ Pylon!PassOn
    BY <1>2, BatteryTaskType, BatteryTaskPlace, BatteryTaskNote, BatteryTaskStore, BatteryTaskHeard DEF PylonInv, StoreInv, HeardInv
  <1>3. CASE \/ \E c \in Pylon!Kinds, adr \in Adrs : Pylon!Ask(c, adr)
             \/ \E size \in UNION {Sizes[c] : c \in Pylon!Kinds}, low \in BOOLEAN : Pylon!Answer(size, low)
             \/ Pylon!NoReply \/ Pylon!Toggle \/ Pylon!Tick \/ UNCHANGED Pylon!vars
    BY <1>3, OutsideType, OutsidePlace, OutsideNote, OutsideStore, OutsideHeard DEF PylonInv, StoreInv, HeardInv
  <1> QED BY <1>1, <1>2, <1>3 DEF Pylon!Next

\* A silent battery is hidden before time goes on.
LEMMA SilentHidden == PylonInv /\ (Pylon!Next \/ UNCHANGED Pylon!vars) => Pylon!SilentIsHidden
  <1> SUFFICES ASSUME PylonInv, Pylon!Next \/ UNCHANGED Pylon!vars, now' > now, ~override, now - lastBms > PylonStale
               PROVE  ~store.shown.valid /\ ~store.model.valid
    BY DEF Pylon!SilentIsHidden
  <1>1. Pylon!TypeOK /\ now \in Nat /\ lastBms \in Nat /\ PylonStale \in Nat
    BY PylonNumbers, PylonConstants DEF PylonInv
  <1>2. now' # now
    BY <1>1
  <1>3. Pylon!Tick
    BY <1>2 DEF Pylon!Next, Pylon!TakeRequest, Pylon!NoteRequest, Pylon!ForwardRequest, Pylon!CheckSource, Pylon!BeginRefresh,
       Pylon!Refresh61, Pylon!Refresh42, Pylon!Refresh63, Pylon!RefreshStep, Pylon!AnswerInverter,
       Pylon!DropStale, Pylon!TakeAnswer, Pylon!Decode, Pylon!PassOn, Pylon!Ask, Pylon!Answer, Pylon!NoReply, Pylon!Toggle, Pylon!vars
  <1>4. ~(now - lastBms <= PylonStale)
    BY <1>1
  <1>5. ~Pylon!HasData(store)
    BY <1>3, <1>4 DEF Pylon!Tick, Pylon!SourceGone
  <1> QED BY <1>5 DEF Pylon!HasData, PylonInv, SummaryIsShown

-----------------------------------------------------------------------------
(* The stream of the Growatt responder: what is found of it in pieces is   *)
(* what is in the whole of it.                                             *)

Halves == [req : Nat, part : {1, 2}]

\* The instance counts as this module does.
LEMMA CountedAlike == \A S : Growatt!Cardinality(S) = Cardinality(S)
  BY DEF Growatt!Cardinality, Cardinality

\* Where a position comes among the others.
Ranked(S, i) == Cardinality({j \in S : j <= i})

LEMMA RankedFacts ==
    ASSUME NEW n \in Nat, NEW S \in SUBSET (1..n)
    PROVE  /\ IsFiniteSet(S) /\ Cardinality(S) \in Nat
           /\ \A i \in S : Ranked(S, i) \in 1..Cardinality(S) /\ Growatt!Nth(S, Ranked(S, i)) = i
           /\ \A k \in 1..Cardinality(S) : Growatt!Nth(S, k) \in S /\ Ranked(S, Growatt!Nth(S, k)) = k
  <1> DEFINE Upto(i) == {j \in S : j <= i}
  <1>0. S \subseteq Nat /\ \A i \in S : i \in Nat
    OBVIOUS
  <1>1. IsFiniteSet(S) /\ Cardinality(S) \in Nat
    <2>1. IsFiniteSet(1..n)
      BY FS_Interval
    <2> QED BY <2>1, FS_Subset, FS_CardinalityType
  <1>2. \A i : IsFiniteSet(Upto(i)) /\ Ranked(S, i) \in Nat /\ Ranked(S, i) <= Cardinality(S)
    BY <1>1, FS_Subset, FS_CardinalityType DEF Ranked
  <1>3. \A i \in S : Ranked(S, i) >= 1
    <2> SUFFICES ASSUME NEW i \in S, Ranked(S, i) = 0 PROVE FALSE
      <3>1. \A i \in S : Ranked(S, i) \in Nat
        BY <1>2
      <3> QED BY <3>1
    <2>1. Upto(i) = {}
      BY <1>2, FS_EmptySet DEF Ranked
    <2>2. i \in Upto(i)
      OBVIOUS
    <2> QED BY <2>1, <2>2
  <1>4. \A i, j \in S : i < j => Ranked(S, i) < Ranked(S, j)
    <2> SUFFICES ASSUME NEW i \in S, NEW j \in S, i < j PROVE Ranked(S, i) < Ranked(S, j)
      OBVIOUS
    <2>0. i \in Nat /\ j \in Nat /\ ~(j <= i) /\ j <= j
      BY <1>0
    <2>1. Upto(i) \subseteq Upto(j) /\ j \in Upto(j) /\ j \notin Upto(i)
      <3>1. \A x \in S : x <= i => x <= j
        BY <1>0, <2>0
      <3> QED BY <2>0, <3>1
    <2>2. Cardinality(Upto(i)) <= Cardinality(Upto(j)) /\ Cardinality(Upto(i)) # Cardinality(Upto(j))
      BY <1>2, <2>1, FS_Subset
    <2> QED BY <1>2, <2>2 DEF Ranked
  <1>5. \A i, j \in S : Ranked(S, i) = Ranked(S, j) => i = j
    <2> SUFFICES ASSUME NEW i \in S, NEW j \in S, i # j PROVE Ranked(S, i) # Ranked(S, j)
      OBVIOUS
    <2>1. i < j \/ j < i
      BY <1>0
    <2>2. Ranked(S, i) < Ranked(S, j) \/ Ranked(S, j) < Ranked(S, i)
      BY <1>4, <2>1
    <2>3. Ranked(S, i) \in Nat /\ Ranked(S, j) \in Nat
      BY <1>2
    <2> QED BY <2>2, <2>3
  <1>6. \A i \in S : Ranked(S, i) \in 1..Cardinality(S)
    <2> SUFFICES ASSUME NEW i \in S PROVE Ranked(S, i) \in 1..Cardinality(S)
      OBVIOUS
    <2>1. Ranked(S, i) \in Nat /\ Ranked(S, i) <= Cardinality(S) /\ Ranked(S, i) >= 1
      BY <1>2, <1>3
    <2> QED BY <1>1, <2>1
  <1>7. \A k \in 1..Cardinality(S) : \E i \in S : Ranked(S, i) = k
    <2> DEFINE f == [i \in S |-> Ranked(S, i)]
               T == 1..Cardinality(S)
    <2>1. f \in [S -> T]
      BY <1>6
    <2>2. f \in Injection(S, T)
      BY <1>5, <2>1 DEF Injection, IsInjective
    <2>3. IsFiniteSet(T) /\ Cardinality(T) = Cardinality(S)
      BY <1>1, FS_Interval
    <2> HIDE DEF f, T
    <2>4. f \in Surjection(S, T)
      BY <2>2, <2>3, FS_Injection
    <2> QED BY <2>4 DEF Surjection, f, T
  <1>8. \A k \in 1..Cardinality(S) : Growatt!Nth(S, k) \in S /\ Ranked(S, Growatt!Nth(S, k)) = k
    <2> SUFFICES ASSUME NEW k \in 1..Cardinality(S)
                 PROVE  Growatt!Nth(S, k) \in S /\ Ranked(S, Growatt!Nth(S, k)) = k
      OBVIOUS
    <2>1. \E i \in S : Growatt!Cardinality({j \in S : j <= i}) = k
      BY <1>7, CountedAlike DEF Ranked
    <2>2. /\ Growatt!Nth(S, k) \in S
          /\ Growatt!Cardinality({j \in S : j <= Growatt!Nth(S, k)}) = k
      BY <2>1 DEF Growatt!Nth
    <2> QED BY <2>2, CountedAlike DEF Ranked
  <1> QED BY <1>1, <1>5, <1>8, <1>6

LEMMA AtFacts ==
    ASSUME NEW s \in Seq(Halves)
    PROVE  /\ Growatt!At(s) \in SUBSET (1..Len(s)) /\ Len(s) \in Nat
           /\ Cardinality(Growatt!At(s)) \in Nat
           /\ Growatt!Requests(s) \in Seq(Nat) /\ Len(Growatt!Requests(s)) = Cardinality(Growatt!At(s))
           /\ \A i \in Growatt!At(s) : Growatt!Requests(s)[Ranked(Growatt!At(s), i)] = s[i].req
  <1> DEFINE A == Growatt!At(s)
  <1>1. A \in SUBSET (1..Len(s)) /\ Len(s) \in Nat
    BY DEF Growatt!At
  <1> HIDE DEF A
  <1>2. /\ Cardinality(A) \in Nat
        /\ \A i \in A : Ranked(A, i) \in 1..Cardinality(A) /\ Growatt!Nth(A, Ranked(A, i)) = i
        /\ \A k \in 1..Cardinality(A) : Growatt!Nth(A, k) \in A
    BY <1>1, RankedFacts
  <1>3. Growatt!Requests(s) = [k \in 1..Cardinality(A) |-> s[Growatt!Nth(A, k)].req]
    BY CountedAlike DEF Growatt!Requests, A
  <1>4. \A k \in 1..Cardinality(A) : s[Growatt!Nth(A, k)].req \in Nat
    <2> SUFFICES ASSUME NEW k \in 1..Cardinality(A) PROVE s[Growatt!Nth(A, k)].req \in Nat
      OBVIOUS
    <2>1. s[Growatt!Nth(A, k)] \in Halves
      BY <1>1, <1>2, ElementOfSeq
    <2> QED BY <2>1 DEF Halves
  <1> DEFINE m == Cardinality(A)
             what(k) == s[Growatt!Nth(A, k)].req
             found == [k \in 1..m |-> what(k)]
  <1>5. m \in Nat /\ \A k \in 1..m : what(k) \in Nat
    BY <1>2, <1>4
  <1>6. \A i \in A : Ranked(A, i) \in 1..m /\ what(Ranked(A, i)) = s[i].req
    BY <1>2
  <1> HIDE DEF m, what
  <1>7. found \in Seq(Nat) /\ Len(found) = m
    BY <1>5
  <1>8. \A i \in A : found[Ranked(A, i)] = s[i].req
    BY <1>6
  <1>9. Growatt!Requests(s) = found
    BY <1>3 DEF m, what
  <1> HIDE DEF found
  <1> QED BY <1>1, <1>2, <1>7, <1>8, <1>9 DEF A, m

\* What is kept of a stream: nothing, or its last half.
LEMMA RestFacts ==
    ASSUME NEW u \in Seq(Halves)
    PROVE  /\ Growatt!Rest(u) \in Seq(Halves)
           /\ \/ Growatt!Rest(u) = <<>> /\ u = <<>>
              \/ Growatt!Rest(u) = <<>> /\ Len(u) > 1 /\ Growatt!IsRequest(u, Len(u) - 1)
              \/ /\ Growatt!Rest(u) = <<u[Len(u)]>> /\ Len(u) >= 1
                 /\ ~(Len(u) > 1 /\ Growatt!IsRequest(u, Len(u) - 1))
  <1>1. CASE u = <<>>
    BY <1>1 DEF Growatt!Rest
  <1>2. CASE u # <<>>
    <2>1. Len(u) \in Nat /\ Len(u) >= 1 /\ u[Len(u)] \in Halves
      BY <1>2, EmptySeq, ElementOfSeq
    <2>2. <<u[Len(u)]>> \in Seq(Halves)
      BY <2>1
    <2> QED BY <1>2, <2>1, <2>2 DEF Growatt!Rest
  <1> QED BY <1>1, <1>2

LEMMA Joined ==
    ASSUME NEW S, NEW u \in Seq(S), NEW v \in Seq(S)
    PROVE  /\ u \o v \in Seq(S) /\ Len(u \o v) = Len(u) + Len(v) /\ Len(u) \in Nat /\ Len(v) \in Nat
           /\ \A i \in 1..Len(u) : (u \o v)[i] = u[i]
           /\ \A i \in 1..Len(v) : (u \o v)[Len(u) + i] = v[i]
  <1>1. Len(u) \in Nat /\ Len(v) \in Nat
    BY LenProperties
  <1>2. /\ u \o v \in Seq(S) /\ Len(u \o v) = Len(u) + Len(v)
        /\ \A i \in 1..(Len(u) + Len(v)) : (u \o v)[i] = IF i <= Len(u) THEN u[i] ELSE v[i - Len(u)]
    BY ConcatProperties
  <1>3. ASSUME NEW i \in 1..Len(u) PROVE (u \o v)[i] = u[i]
    <2>1. i \in 1..(Len(u) + Len(v)) /\ i <= Len(u)
      BY <1>1
    <2> QED BY <1>2, <2>1
  <1>4. ASSUME NEW i \in 1..Len(v) PROVE (u \o v)[Len(u) + i] = v[i]
    <2>1. Len(u) + i \in 1..(Len(u) + Len(v)) /\ ~(Len(u) + i <= Len(u)) /\ (Len(u) + i) - Len(u) = i
      BY <1>1
    <2> QED BY <1>2, <2>1
  <1> QED BY <1>1, <1>2, <1>3, <1>4

\* What is kept is the end of the stream, and no request lies in it.
LEMMA KeptFacts ==
    ASSUME NEW u \in Seq(Halves)
    PROVE  LET r == Growatt!Rest(u)
               d == Len(u) - Len(r)
           IN  /\ r \in Seq(Halves) /\ Len(r) \in Nat /\ Len(u) \in Nat /\ Len(r) <= Len(u)
               /\ d = Len(u) \/ d = Len(u) - 1
               /\ \A i \in 1..Len(r) : r[i] = u[i + d]
               /\ (d = Len(u) /\ u # <<>>) => u[Len(u)].part = 2
               /\ \A i \in Growatt!At(u) : i < d
  <1> DEFINE r == Growatt!Rest(u)
             d == Len(u) - Len(r)
  <1>0. Len(u) \in Nat /\ DOMAIN u = 1..Len(u) /\ r \in Seq(Halves) /\ Len(r) \in Nat /\ Len(<<>>) = 0
    BY RestFacts, LenProperties
  <1>1. \A i \in Growatt!At(u) : i \in 1..Len(u) /\ i + 1 \in 1..Len(u)
    BY <1>0 DEF Growatt!At, Growatt!IsRequest
  <1>2. CASE r = <<>>
    <2>1. Len(r) = 0 /\ d = Len(u)
      BY <1>0, <1>2
    <2>2. u # <<>> => u[Len(u)].part = 2
      <3> SUFFICES ASSUME u # <<>> PROVE u[Len(u)].part = 2
        OBVIOUS
      <3>1. r # <<u[Len(u)]>>
        BY <1>2
      <3>2. Len(u) > 1 /\ Growatt!IsRequest(u, Len(u) - 1)
        BY <3>1, RestFacts
      <3> QED BY <1>0, <3>2 DEF Growatt!IsRequest
    <2> HIDE DEF r, d
    <2>3. \A i \in Growatt!At(u) : i < d
      BY <1>0, <1>1, <2>1
    <2>4. \A i \in 1..Len(r) : r[i] = u[i + d]
      BY <2>1
    <2>5. Len(r) <= Len(u) /\ (d = Len(u) \/ d = Len(u) - 1)
      BY <1>0, <2>1
    <2> QED BY <1>0, <2>2, <2>3, <2>4, <2>5 DEF r, d
  <1>3. CASE r # <<>>
    <2>1. r = <<u[Len(u)]>> /\ Len(u) >= 1 /\ ~(Len(u) > 1 /\ Growatt!IsRequest(u, Len(u) - 1))
      BY <1>3, RestFacts
    <2>2. Len(r) = 1 /\ r[1] = u[Len(u)]
      BY <2>1
    <2>3. d = Len(u) - 1
      BY <2>2
    <2>4. \A i \in Growatt!At(u) : i # Len(u) - 1
      BY <1>0, <1>1, <2>1 DEF Growatt!At
    <2> HIDE DEF r, d
    <2>5. \A i \in Growatt!At(u) : i < d
      BY <1>0, <1>1, <2>3, <2>4
    <2>6. \A i \in 1..Len(r) : r[i] = u[i + d]
      BY <1>0, <2>1, <2>2, <2>3
    <2>7. Len(r) <= Len(u) /\ d # Len(u)
      <3>1. Len(u) \in Nat /\ Len(u) >= 1 /\ Len(r) = 1 /\ d = Len(u) - 1
        BY <1>0, <2>1, <2>2, <2>3
      <3> QED BY <3>1
    <2> QED BY <1>0, <2>3, <2>5, <2>6, <2>7 DEF r, d
  <1> QED BY <1>2, <1>3

\* The stream and what comes, seen from what was kept.
LEMMA WindowFacts ==
    ASSUME NEW u \in Seq(Halves), NEW v \in Seq(Halves)
    PROVE  LET w == Growatt!Rest(u) \o v
               d == Len(u) - Len(Growatt!Rest(u))
           IN  /\ d \in 0..Len(u) /\ w \in Seq(Halves) /\ Len(w) = Len(u) + Len(v) - d
               /\ \A i \in 1..Len(w) : w[i] = (u \o v)[i + d]
               /\ (d = Len(u) /\ u # <<>>) => u[Len(u)].part = 2
               /\ d = Len(u) \/ d = Len(u) - 1
               /\ \A i \in Growatt!At(u) : i < d
  <1> DEFINE r == Growatt!Rest(u)
             t == u \o v
             w == r \o v
             d == Len(u) - Len(r)
  <1>1. /\ r \in Seq(Halves) /\ Len(r) \in Nat /\ Len(u) \in Nat /\ Len(r) <= Len(u)
        /\ d = Len(u) \/ d = Len(u) - 1
        /\ \A i \in 1..Len(r) : r[i] = u[i + d]
        /\ (d = Len(u) /\ u # <<>>) => u[Len(u)].part = 2
        /\ \A i \in Growatt!At(u) : i < d
    BY KeptFacts
  <1> HIDE DEF r
  <1>2. /\ w \in Seq(Halves) /\ Len(w) = Len(r) + Len(v) /\ Len(v) \in Nat
        /\ \A i \in 1..Len(r) : w[i] = r[i]
        /\ \A i \in 1..Len(v) : w[Len(r) + i] = v[i]
    BY <1>1, Joined
  <1>3. /\ \A i \in 1..Len(u) : t[i] = u[i]
        /\ \A i \in 1..Len(v) : t[Len(u) + i] = v[i]
    BY Joined
  <1> HIDE DEF t, w
  <1>4. d \in 0..Len(u) /\ Len(w) = Len(u) + Len(v) - d
    BY <1>1, <1>2
  <1>5. ASSUME NEW i \in 1..Len(w) PROVE w[i] = t[i + d]
    <2>1. CASE i <= Len(r)
      <3>1. i \in 1..Len(r) /\ i + d \in 1..Len(u)
        BY <1>1, <1>2, <2>1
      <3> QED BY <1>1, <1>2, <1>3, <3>1
    <2>2. CASE i > Len(r)
      <3>1. i - Len(r) \in 1..Len(v) /\ Len(r) + (i - Len(r)) = i /\ Len(u) + (i - Len(r)) = i + d
        BY <1>1, <1>2, <2>2
      <3> QED BY <1>2, <1>3, <3>1
    <2> QED BY <1>1, <1>2, <2>1, <2>2
  <1> HIDE DEF d
  <1> QED BY <1>1, <1>2, <1>4, <1>5 DEF r, t, w, d

\* What is found of a stream and of what comes after it, from what was kept.
LEMMA RequestsJoin ==
    ASSUME NEW u \in Seq(Halves), NEW v \in Seq(Halves)
    PROVE  Growatt!Requests(u \o v) = Growatt!Requests(u) \o Growatt!Requests(Growatt!Rest(u) \o v)
  <1> DEFINE t == u \o v
             w == Growatt!Rest(u) \o v
             d == Len(u) - Len(Growatt!Rest(u))
             S == Growatt!At(t)
             A == Growatt!At(u)
             B == Growatt!At(w)
             Shifted(X) == {b + d : b \in X}
  <1>0. /\ Len(u) \in Nat /\ Len(v) \in Nat
        /\ t \in Seq(Halves) /\ Len(t) = Len(u) + Len(v) /\ \A i \in 1..Len(u) : t[i] = u[i]
    BY ConcatProperties
  <1>1. /\ d \in 0..Len(u) /\ w \in Seq(Halves) /\ Len(w) = Len(t) - d
        /\ \A i \in 1..Len(w) : w[i] = t[i + d]
        /\ (d = Len(u) /\ u # <<>>) => u[Len(u)].part = 2
        /\ d = Len(u) \/ d = Len(u) - 1
        /\ \A i \in A : i < d
    BY <1>0, WindowFacts
  <1> HIDE DEF t, w, d
  <1>2. /\ DOMAIN t = 1..Len(t) /\ DOMAIN u = 1..Len(u) /\ DOMAIN w = 1..Len(w)
        /\ A \subseteq 1..Len(u) /\ B \subseteq 1..Len(w) /\ S \subseteq 1..Len(t)
        /\ Len(w) \in Nat /\ Len(t) \in Nat
    BY <1>0, <1>1 DEF Growatt!At
  <1>3. A \subseteq S
    <2> SUFFICES ASSUME NEW i \in A PROVE i \in S
      OBVIOUS
    <2>1. i \in 1..Len(u) /\ i + 1 \in 1..Len(u) /\ t[i] = u[i] /\ t[i + 1] = u[i + 1]
      BY <1>0, <1>2 DEF Growatt!At, Growatt!IsRequest
    <2> QED BY <1>0, <1>2, <2>1 DEF Growatt!At, Growatt!IsRequest
  <1>4. Shifted(B) \subseteq S
    <2> SUFFICES ASSUME NEW b \in B PROVE b + d \in S
      OBVIOUS
    <2>1. b \in 1..Len(w) /\ b + 1 \in 1..Len(w) /\ w[b] = t[b + d] /\ w[b + 1] = t[b + 1 + d]
      BY <1>1, <1>2 DEF Growatt!At, Growatt!IsRequest
    <2>2. b + d \in 1..Len(t) /\ b + d + 1 \in 1..Len(t) /\ w[b + 1] = t[b + d + 1]
      <3>1. b + 1 + d = b + d + 1
        BY <1>0, <1>1, <2>1
      <3> QED BY <1>0, <1>1, <2>1, <3>1
    <2> QED BY <1>2, <2>1, <2>2 DEF Growatt!At, Growatt!IsRequest
  <1>5. S \subseteq A \cup Shifted(B)
    <2> SUFFICES ASSUME NEW i \in S PROVE i \in A \/ i \in Shifted(B)
      OBVIOUS
    <2>1. i \in 1..Len(t) /\ i + 1 \in 1..Len(t) /\ t[i].part = 1 /\ t[i + 1] = [req |-> t[i].req, part |-> 2]
      BY <1>2 DEF Growatt!At, Growatt!IsRequest
    <2>2. CASE i > d
      <3>1. i - d \in 1..Len(w) /\ (i - d) + 1 \in 1..Len(w) /\ w[i - d] = t[i] /\ w[(i - d) + 1] = t[i + 1]
        <4>1. i - d \in 1..Len(w) /\ (i - d) + 1 \in 1..Len(w) /\ (i - d) + d = i /\ ((i - d) + 1) + d = i + 1
          BY <1>0, <1>1, <2>1, <2>2
        <4> QED BY <1>1, <4>1
      <3>2. i - d \in B
        BY <1>2, <2>1, <3>1 DEF Growatt!At, Growatt!IsRequest
      <3>3. i = (i - d) + d
        BY <1>0, <1>1, <2>1
      <3> QED BY <3>2, <3>3
    <2>3. CASE i <= d
      <3>1. i \in 1..Len(u) /\ t[i] = u[i]
        BY <1>0, <1>1, <2>1, <2>3
      <3>2. i # Len(u) \/ d # Len(u)
        <4> SUFFICES ASSUME i = Len(u), d = Len(u) PROVE FALSE
          OBVIOUS
        <4>1. u # <<>>
          BY <1>0, <3>1
        <4> QED BY <1>1, <2>1, <3>1, <4>1
      <3>3. i + 1 \in 1..Len(u) /\ t[i + 1] = u[i + 1]
        BY <1>0, <1>1, <2>1, <2>3, <3>1, <3>2
      <3> QED BY <1>2, <2>1, <3>1, <3>3 DEF Growatt!At, Growatt!IsRequest
    <2> QED BY <1>0, <1>1, <2>1, <2>2, <2>3
  <1>6. /\ A \in SUBSET (1..Len(u)) /\ B \in SUBSET (1..Len(w)) /\ S \in SUBSET (1..Len(t))
        /\ Len(u) \in Nat /\ Len(w) \in Nat /\ Len(t) \in Nat
    BY <1>0, <1>2
  <1> HIDE DEF S, A, B
  <1>7. \A X \in SUBSET B : IsFiniteSet(Shifted(X)) /\ Cardinality(Shifted(X)) = Cardinality(X) /\ IsFiniteSet(X)
    <2> SUFFICES ASSUME NEW X \in SUBSET B
                 PROVE  IsFiniteSet(Shifted(X)) /\ Cardinality(Shifted(X)) = Cardinality(X) /\ IsFiniteSet(X)
      OBVIOUS
    <2>1. IsFiniteSet(X)
      BY <1>6, RankedFacts, FS_Subset
    <2> DEFINE f == [b \in X |-> b + d]
    <2>2. f \in Bijection(X, Shifted(X))
      BY <1>1, <1>6 DEF Bijection, Injection, Surjection, IsInjective
    <2>3. ExistsBijection(X, Shifted(X))
      BY <2>2 DEF ExistsBijection
    <2> HIDE DEF f, Shifted
    <2> QED BY <2>1, <2>3, FS_Bijection
  <1>8. \A i \in A : \A b \in B : i < b + d
    BY <1>1, <1>6
  <1>9. IsFiniteSet(A) /\ IsFiniteSet(B) /\ Cardinality(A) \in Nat /\ Cardinality(B) \in Nat
    BY <1>6, RankedFacts
  <1>10. \A X \in SUBSET B : Cardinality(A \cup Shifted(X)) = Cardinality(A) + Cardinality(X)
    <2> SUFFICES ASSUME NEW X \in SUBSET B PROVE Cardinality(A \cup Shifted(X)) = Cardinality(A) + Cardinality(X)
      OBVIOUS
    <2>1. A \cap Shifted(X) = {}
      BY <1>1, <1>6, <1>8
    <2>2. IsFiniteSet(Shifted(X)) /\ Cardinality(Shifted(X)) = Cardinality(X) /\ Cardinality(X) \in Nat
      BY <1>7, FS_CardinalityType
    <2> HIDE DEF Shifted
    <2>3. Cardinality(A \cup Shifted(X)) = Cardinality(A) + Cardinality(Shifted(X)) - Cardinality(A \cap Shifted(X))
      BY <1>9, <2>2, FS_Union
    <2>4. Cardinality(A \cap Shifted(X)) = 0
      BY <2>1, FS_EmptySet
    <2> QED BY <1>9, <2>2, <2>3, <2>4
  <1>11. Cardinality(S) = Cardinality(A) + Cardinality(B)
    <2>1. S = A \cup Shifted(B)
      BY <1>3, <1>4, <1>5 DEF S, A, B
    <2> QED BY <1>10, <2>1
  <1>12. \A i \in A : i \in S /\ Ranked(S, i) = Ranked(A, i)
    <2> SUFFICES ASSUME NEW i \in A PROVE i \in S /\ Ranked(S, i) = Ranked(A, i)
      OBVIOUS
    <2>1. {j \in S : j <= i} = {j \in A : j <= i}
      <3>1. \A j \in S : j <= i => j \in A
        BY <1>1, <1>5, <1>6, <1>8 DEF S, A, B
      <3> QED BY <1>3, <3>1 DEF S, A
    <2> QED BY <1>3, <2>1 DEF Ranked, S, A
  <1>13. \A b \in B : b + d \in S /\ Ranked(S, b + d) = Cardinality(A) + Ranked(B, b)
    <2> SUFFICES ASSUME NEW b \in B PROVE b + d \in S /\ Ranked(S, b + d) = Cardinality(A) + Ranked(B, b)
      OBVIOUS
    <2> DEFINE X == {c \in B : c <= b}
    <2>1. {j \in S : j <= b + d} = A \cup Shifted(X)
      <3>1. \A j \in S : j <= b + d => j \in A \cup Shifted(X)
        <4> SUFFICES ASSUME NEW j \in S, j <= b + d, j \notin A PROVE j \in Shifted(X)
          OBVIOUS
        <4>1. PICK c \in B : j = c + d
          BY <1>5 DEF S, A, B
        <4>2. c <= b
          BY <1>1, <1>6, <4>1
        <4> QED BY <4>1, <4>2
      <3>2. A \subseteq S /\ Shifted(X) \subseteq S
        BY <1>3, <1>4 DEF S, A, B
      <3>3. \A j \in A : j <= b + d
        BY <1>1, <1>6, <1>8
      <3>4. \A j \in Shifted(X) : j <= b + d
        BY <1>1, <1>6
      <3> QED BY <3>1, <3>2, <3>3, <3>4
    <2>2. b + d \in S
      BY <1>4 DEF S, B
    <2> QED BY <1>10, <2>1, <2>2 DEF Ranked
  <1> DEFINE left == Growatt!Requests(t)
             right == Growatt!Requests(u) \o Growatt!Requests(w)
  <1>14. /\ left \in Seq(Nat) /\ Len(left) = Cardinality(S)
         /\ Growatt!Requests(u) \in Seq(Nat) /\ Len(Growatt!Requests(u)) = Cardinality(A)
         /\ Growatt!Requests(w) \in Seq(Nat) /\ Len(Growatt!Requests(w)) = Cardinality(B)
         /\ \A i \in S : left[Ranked(S, i)] = t[i].req
         /\ \A i \in A : Growatt!Requests(u)[Ranked(A, i)] = u[i].req
         /\ \A i \in B : Growatt!Requests(w)[Ranked(B, i)] = w[i].req
    BY <1>0, <1>1, AtFacts DEF S, A, B
  <1>15. /\ right \in Seq(Nat) /\ Len(right) = Cardinality(A) + Cardinality(B)
         /\ \A k \in 1..Cardinality(A) : right[k] = Growatt!Requests(u)[k]
         /\ \A k \in 1..Cardinality(B) : right[Cardinality(A) + k] = Growatt!Requests(w)[k]
    <2> DEFINE q1 == Growatt!Requests(u)
               q2 == Growatt!Requests(w)
               Numbers == Nat
    <2>1. Len(q1) = Cardinality(A) /\ Len(q2) = Cardinality(B)
      BY <1>14
    <2>2. q1 \in Seq(Numbers) /\ q2 \in Seq(Numbers)
      BY <1>14
    <2> HIDE DEF q1, q2, Numbers
    <2>3. /\ q1 \o q2 \in Seq(Numbers) /\ Len(q1 \o q2) = Len(q1) + Len(q2)
          /\ \A k \in 1..Len(q1) : (q1 \o q2)[k] = q1[k]
          /\ \A k \in 1..Len(q2) : (q1 \o q2)[Len(q1) + k] = q2[k]
      BY <2>2, Joined
    <2>4. /\ q1 \o q2 \in Seq(Numbers) /\ Len(q1 \o q2) = Cardinality(A) + Cardinality(B)
          /\ \A k \in 1..Cardinality(A) : (q1 \o q2)[k] = q1[k]
          /\ \A k \in 1..Cardinality(B) : (q1 \o q2)[Cardinality(A) + k] = q2[k]
      BY <2>1, <2>3, Zenon
    <2> QED BY <2>4 DEF q1, q2, Numbers
  <1>16. \A k \in 1..Cardinality(A) : left[k] = right[k]
    <2> SUFFICES ASSUME NEW k \in 1..Cardinality(A) PROVE left[k] = right[k]
      OBVIOUS
    <2>1. PICK i \in A : Ranked(A, i) = k
      BY <1>6, RankedFacts
    <2>2. left[k] = t[i].req /\ Growatt!Requests(u)[k] = u[i].req
      BY <1>12, <1>14, <2>1
    <2> QED BY <1>0, <1>6, <1>15, <2>2
  <1>17. \A k \in 1..Cardinality(B) : left[Cardinality(A) + k] = right[Cardinality(A) + k]
    <2> SUFFICES ASSUME NEW k \in 1..Cardinality(B) PROVE left[Cardinality(A) + k] = right[Cardinality(A) + k]
      OBVIOUS
    <2>1. PICK b \in B : Ranked(B, b) = k
      BY <1>6, RankedFacts
    <2>2. left[Cardinality(A) + k] = t[b + d].req /\ Growatt!Requests(w)[k] = w[b].req
      BY <1>13, <1>14, <2>1
    <2> QED BY <1>1, <1>6, <1>15, <2>2
  <1> HIDE DEF left, right
  <1>18. \A k \in 1..Len(left) : left[k] = right[k]
    <2> SUFFICES ASSUME NEW k \in 1..(Cardinality(A) + Cardinality(B)), ~(k \in 1..Cardinality(A))
                 PROVE  left[k] = right[k]
      BY <1>11, <1>14, <1>16
    <2>1. k - Cardinality(A) \in 1..Cardinality(B) /\ Cardinality(A) + (k - Cardinality(A)) = k
      BY <1>9
    <2> QED BY <1>17, <2>1
  <1>19. left = right
    BY <1>11, <1>14, <1>15, <1>18, SeqEqual
  <1> QED BY <1>19 DEF left, right, t, w

\* What is kept does not depend on where the stream was cut.
LEMMA RestJoin ==
    ASSUME NEW u \in Seq(Halves), NEW v \in Seq(Halves)
    PROVE  Growatt!Rest(u \o v) = Growatt!Rest(Growatt!Rest(u) \o v)
  <1> DEFINE t == u \o v
             r == Growatt!Rest(u)
             w == r \o v
             d == Len(u) - Len(r)
  <1>0. Len(u) \in Nat /\ Len(v) \in Nat /\ t \in Seq(Halves) /\ Len(t) = Len(u) + Len(v) /\ r \in Seq(Halves)
    BY ConcatProperties, RestFacts
  <1>1. /\ d \in 0..Len(u) /\ w \in Seq(Halves) /\ Len(w) = Len(t) - d
        /\ \A i \in 1..Len(w) : w[i] = t[i + d]
        /\ (d = Len(u) /\ u # <<>>) => u[Len(u)].part = 2
        /\ d = Len(u) \/ d = Len(u) - 1
    BY <1>0, WindowFacts
  <1>2. CASE Len(w) > 1
    <2>1. w[Len(w)] = t[Len(t)] /\ w[Len(w) - 1] = t[Len(t) - 1] /\ Len(t) > 1
      <3>1. Len(w) \in 1..Len(w) /\ Len(w) - 1 \in 1..Len(w) /\ Len(w) + d = Len(t) /\ (Len(w) - 1) + d = Len(t) - 1
        BY <1>0, <1>1, <1>2
      <3> QED BY <1>0, <1>1, <1>2, <3>1
    <2>2. w # <<>> /\ t # <<>>
      BY <1>0, <1>2, <2>1
    <2> HIDE DEF t, w, d
    <2>3. /\ DOMAIN w = 1..Len(w) /\ DOMAIN t = 1..Len(t) /\ Len(w) \in Nat /\ Len(t) \in Nat
          /\ (Len(w) - 1) + 1 = Len(w) /\ (Len(t) - 1) + 1 = Len(t)
          /\ Len(w) \in 1..Len(w) /\ Len(t) \in 1..Len(t)
      <3>1. Len(w) \in Nat /\ Len(t) \in Nat /\ DOMAIN w = 1..Len(w) /\ DOMAIN t = 1..Len(t)
        BY <1>0, <1>1, LenProperties
      <3> QED BY <1>2, <2>1, <3>1
    <2>4. Growatt!IsRequest(w, Len(w) - 1) <=>
             w[Len(w) - 1].part = 1 /\ w[Len(w)] = [req |-> w[Len(w) - 1].req, part |-> 2]
      BY <2>3 DEF Growatt!IsRequest
    <2>5. Growatt!IsRequest(t, Len(t) - 1) <=>
             t[Len(t) - 1].part = 1 /\ t[Len(t)] = [req |-> t[Len(t) - 1].req, part |-> 2]
      BY <2>3 DEF Growatt!IsRequest
    <2>6. Growatt!IsRequest(w, Len(w) - 1) <=> Growatt!IsRequest(t, Len(t) - 1)
      BY <2>1, <2>4, <2>5
    <2>7. Growatt!Rest(t) = Growatt!Rest(w)
      BY <1>2, <2>1, <2>6, <2>2 DEF Growatt!Rest
    <2> QED BY <2>7 DEF t, w, r
  <1>3. CASE v = <<>>
    <2>1. t = u /\ w = r
      BY <1>0, <1>3, ConcatEmptySeq
    <2>2. Growatt!Rest(r) = r
      <3>1. CASE r = <<>>
        BY <3>1 DEF Growatt!Rest
      <3>2. CASE r = <<u[Len(u)]>>
        <4>1. Len(r) = 1 /\ r[Len(r)] = u[Len(u)] /\ r # <<>>
          BY <3>2
        <4> HIDE DEF r
        <4> QED BY <3>2, <4>1 DEF Growatt!Rest
      <3> QED BY <3>1, <3>2, RestFacts
    <2> QED BY <2>1, <2>2
  <1>4. CASE Len(w) <= 1 /\ v # <<>>
    <2>1. r = <<>> /\ w = v /\ Len(v) = 1 /\ d = Len(u)
      <3>1. Len(v) >= 1 /\ Len(r) \in Nat /\ Len(w) = Len(r) + Len(v)
        BY <1>0, <1>4, ConcatProperties, EmptySeq
      <3>2. Len(r) = 0 /\ Len(v) = 1
        <4>1. Len(r) + Len(v) <= 1 /\ Len(v) >= 1 /\ Len(v) \in Nat /\ Len(r) \in Nat
          BY <1>0, <1>4, <3>1
        <4>2. \A a, b \in Nat : a + b <= 1 /\ b >= 1 => a = 0 /\ b = 1
          OBVIOUS
        <4> QED BY <4>1, <4>2, Zenon
      <3>3. r = <<>>
        BY <1>0, <3>2, EmptySeq
      <3> QED BY <1>0, <3>2, <3>3, ConcatEmptySeq
    <2>2. t[Len(t)] = v[1] /\ Len(t) >= 1 /\ (u # <<>> => Len(t) > 1 /\ t[Len(t) - 1].part = 2)
      <3>1. \A i \in 1..Len(u) : t[i] = u[i]
        BY ConcatProperties
      <3>2. t[Len(u) + 1] = v[1]
        BY <1>0, <2>1, ConcatProperties
      <3> HIDE DEF t
      <3>4. Len(t) = Len(u) + 1 /\ Len(u) \in Nat
        BY <1>0, <2>1
      <3>5. Len(t) >= 1 /\ t[Len(t)] = v[1]
        BY <3>2, <3>4
      <3>3. ASSUME u # <<>> PROVE Len(t) > 1 /\ t[Len(t) - 1].part = 2
        <4>1. Len(u) >= 1 /\ u[Len(u)].part = 2
          <5>1. Len(u) >= 1
            BY <3>3, EmptySeq
          <5> QED BY <1>1, <2>1, <3>3, <5>1
        <4>2. Len(u) \in 1..Len(u) /\ Len(t) - 1 = Len(u) /\ Len(t) > 1
          BY <3>4, <4>1
        <4> QED BY <3>1, <4>1, <4>2
      <3> QED BY <3>3, <3>5
    <2>3. ~(Len(t) > 1 /\ Growatt!IsRequest(t, Len(t) - 1))
      <3> SUFFICES ASSUME Len(t) > 1, Growatt!IsRequest(t, Len(t) - 1) PROVE FALSE
        OBVIOUS
      <3>1. u # <<>>
        BY <1>0, <2>1
      <3> QED BY <2>2, <3>1 DEF Growatt!IsRequest
    <2>4. Growatt!Rest(t) = <<v[1]>>
      <3>1. t # <<>>
        BY <1>0, <2>2
      <3> HIDE DEF t
      <3> QED BY <2>2, <2>3, <3>1 DEF Growatt!Rest
    <2>5. Growatt!Rest(v) = <<v[1]>>
      BY <1>4, <2>1 DEF Growatt!Rest
    <2> QED BY <2>1, <2>4, <2>5
  <1>5. Len(w) > 1 \/ v = <<>> \/ (Len(w) <= 1 /\ v # <<>>)
    BY <1>0, <1>1
  <1> QED BY <1>2, <1>3, <1>4, <1>5

\* What came since the task was started is what was read and what waits; of what was
\* read the task has found every request, and keeps what it would keep of it all.
StreamInv ==
    /\ log \in Seq(Halves) /\ rx \in Seq(Halves)
    /\ \E read \in Seq(Halves) :
          log = read \o rx /\ stream = Growatt!Rest(read) /\ judged = Growatt!Requests(read)

LEMMA NothingFound ==
    /\ <<>> \in Seq(Halves) /\ <<>> \o <<>> = <<>>
    /\ Growatt!Rest(<<>>) = <<>> /\ Growatt!Requests(<<>>) = <<>>
  <1>1. <<>> \in Seq(Halves) /\ <<>> \o <<>> = <<>>
    BY EmptySeq, ConcatEmptySeq
  <1>2. Growatt!At(<<>>) = {}
    BY DEF Growatt!At
  <1>3. Growatt!Requests(<<>>) \in Seq(Nat) /\ Len(Growatt!Requests(<<>>)) = 0
    BY <1>1, <1>2, AtFacts, FS_EmptySet
  <1>4. Growatt!Requests(<<>>) = <<>>
    BY <1>3, EmptySeq
  <1> QED BY <1>1, <1>4 DEF Growatt!Rest

LEMMA StreamStarts == ASSUME log = <<>>, rx = <<>>, stream = <<>>, judged = <<>> PROVE StreamInv
  BY NothingFound DEF StreamInv

LEMMA StreamRead ==
    ASSUME StreamInv, NEW e, NEW answers, NEW ok, Growatt!Turn(e, answers, ok), log' = log
    PROVE  StreamInv'
  <1> DEFINE n == IF Len(rx) < Chunk THEN Len(rx) ELSE Chunk
             v == SubSeq(rx, 1, n)
             left == SubSeq(rx, n + 1, Len(rx))
  <1>1. rx' = left /\ stream' = Growatt!Rest(stream \o v) /\ judged' = judged \o Growatt!Requests(stream \o v)
    BY DEF Growatt!Turn
  <1>2. rx \in Seq(Halves) /\ Len(rx) \in Nat /\ \A i \in 1..Len(rx) : rx[i] \in Halves
    BY LenProperties, ElementOfSeq DEF StreamInv
  <1>3. n \in 0..Len(rx) /\ n \in Int
    BY <1>2, LinesAssumption DEF Growatt!ResponderAssumption
  <1> HIDE DEF n
  <1>4. v \in Seq(Halves) /\ left \in Seq(Halves)
    <2>1. \A i \in 1..n : rx[i] \in Halves
      BY <1>2, <1>3
    <2>2. \A i \in (n + 1)..Len(rx) : rx[i] \in Halves
      BY <1>2, <1>3
    <2>3. n + 1 \in Int /\ Len(rx) \in Int /\ 1 \in Int
      BY <1>2, <1>3
    <2> QED BY <1>3, <2>1, <2>2, <2>3, SubSeqProperties
  <1>5. v \o left = rx
    <2>1. 1 \in 1..(Len(rx) + 1) /\ n \in (1 - 1)..Len(rx) /\ Len(rx) \in n..Len(rx)
      BY <1>2, <1>3
    <2>2. SubSeq(rx, 1, n) \o SubSeq(rx, n + 1, Len(rx)) = SubSeq(rx, 1, Len(rx))
      BY <1>2, <2>1, ConcatAdjacentSubSeq
    <2> QED BY <1>2, <2>2, SubSeqFull
  <1> HIDE DEF v, left
  <1>6. PICK read \in Seq(Halves) : log = read \o rx /\ stream = Growatt!Rest(read) /\ judged = Growatt!Requests(read)
    BY DEF StreamInv
  <1>7. read \o v \in Seq(Halves)
    BY <1>4, Joined
  <1>8. log' = (read \o v) \o rx'
    <2>1. (read \o v) \o left = read \o (v \o left)
      BY <1>4, ConcatAssociative
    <2>2. log' = read \o (v \o left)
      BY <1>5, <1>6
    <2> QED BY <1>1, <2>1, <2>2
  <1>9. stream' = Growatt!Rest(read \o v)
    BY <1>1, <1>4, <1>6, RestJoin
  <1>10. judged' = Growatt!Requests(read \o v)
    BY <1>1, <1>4, <1>6, RequestsJoin
  <1>11. log' \in Seq(Halves) /\ rx' \in Seq(Halves)
    BY <1>1, <1>4 DEF StreamInv
  <1> QED BY <1>7, <1>8, <1>9, <1>10, <1>11 DEF StreamInv

\* What comes is read after all else.
LEMMA StreamSent ==
    ASSUME StreamInv, UNCHANGED <<stream, judged>>,
           \/ UNCHANGED <<rx, log>>
           \/ \E h \in Halves : rx' = Append(rx, h) /\ log' = Append(log, h)
    PROVE  StreamInv'
  <1>1. PICK read \in Seq(Halves) : log = read \o rx /\ stream = Growatt!Rest(read) /\ judged = Growatt!Requests(read)
    BY DEF StreamInv
  <1>2. CASE UNCHANGED <<rx, log>>
    BY <1>2 DEF StreamInv
  <1>3. ASSUME NEW h \in Halves, rx' = Append(rx, h), log' = Append(log, h) PROVE StreamInv'
    <2>1. rx \in Seq(Halves) /\ log \in Seq(Halves) /\ <<h>> \in Seq(Halves)
      BY DEF StreamInv
    <2>2. rx' = rx \o <<h>> /\ log' = log \o <<h>> /\ rx' \in Seq(Halves) /\ log' \in Seq(Halves)
      BY <1>3, <2>1, AppendIsConcat, AppendProperties
    <2>3. log' = read \o rx'
      BY <1>1, <2>1, <2>2, ConcatAssociative
    <2> QED BY <1>1, <2>2, <2>3 DEF StreamInv
  <1> QED BY <1>2, <1>3

LEMMA HalvesFacts ==
    ASSUME Growatt!TypeOK, Growatt!AskBegins \/ Growatt!AskEnds
    PROVE  \/ UNCHANGED <<rx, log>>
           \/ \E h \in Halves : rx' = Append(rx, h) /\ log' = Append(log, h)
  <1>1. asked \in Nat /\ asked + 1 \in Nat
    BY LinesAssumption DEF Growatt!ResponderAssumption, Growatt!TypeOK
  <1>2. \A r \in Nat : [req |-> r, part |-> 1] \in Halves /\ [req |-> r, part |-> 2] \in Halves
    BY DEF Halves
  <1>3. ASSUME NEW r \in Nat, NEW p \in {1, 2}, Growatt!Half(r, p)
        PROVE  \/ UNCHANGED <<rx, log>>
               \/ \E h \in Halves : rx' = Append(rx, h) /\ log' = Append(log, h)
    <2>1. [req |-> r, part |-> p] \in Halves /\ [req |-> 0, part |-> 1] \in Halves
      BY <1>2
    <2> QED BY <1>3, <2>1 DEF Growatt!Half
  <1> QED BY <1>1, <1>3 DEF Growatt!AskBegins, Growatt!AskEnds

LEMMA StreamKept ==
    ASSUME StreamInv, Growatt!TypeOK, Growatt!Next \/ UNCHANGED Growatt!vars
    PROVE  StreamInv'
  <1> USE DEF Growatt!lineVars
  <1>1. CASE Growatt!CanTask
    BY <1>1, StreamRead DEF Growatt!CanTask
  <1>2. CASE Growatt!ModelTask
    BY <1>2, StreamRead DEF Growatt!ModelTask
  <1>3. CASE Growatt!Restart
    <2>1. log' = <<>> /\ rx' = <<>> /\ stream' = <<>> /\ judged' = <<>>
      BY <1>3 DEF Growatt!Restart
    <2> QED BY <2>1, NothingFound DEF StreamInv
  <1>4. CASE Growatt!AskBegins \/ Growatt!AskEnds
    <2>1. UNCHANGED <<stream, judged>>
      BY <1>4 DEF Growatt!AskBegins, Growatt!AskEnds
    <2> QED BY <1>4, <2>1, HalvesFacts, StreamSent
  <1>5. CASE Growatt!Send \/ Growatt!Foreign \/ Growatt!SetModel \/ Growatt!Tick \/ UNCHANGED Growatt!vars
    <2>1. UNCHANGED <<stream, judged, rx, log>>
      BY <1>5 DEF Growatt!Send, Growatt!Foreign, Growatt!SetModel, Growatt!Tick, Growatt!vars
    <2> QED BY <2>1, StreamSent
  <1> QED BY <1>1, <1>2, <1>3, <1>4, <1>5 DEF Growatt!Next, Growatt!Task

LEMMA StreamIsFound == StreamInv => Growatt!EveryRequestIsFound
  <1> SUFFICES ASSUME StreamInv, rx = <<>> PROVE judged = Growatt!Requests(log)
    BY DEF Growatt!EveryRequestIsFound
  <1>1. PICK read \in Seq(Halves) : log = read \o rx /\ judged = Growatt!Requests(read)
    BY DEF StreamInv
  <1> QED BY <1>1, ConcatEmptySeq

-----------------------------------------------------------------------------
(* The Growatt responder: what waits to be decoded was heard in this tick, *)
(* and the age of what is known runs beside the silence of the battery.    *)

FieldIds == DOMAIN Growatt!Fields

\* What waits and is of a battery.
Known == {f \in Growatt!Range(canq) : f.id \in FieldIds}

GrowattKinds ==
    /\ canq \in Seq([id : FieldIds \cup {"other"}, cells : BOOLEAN])
    /\ battery \in Batteries /\ told \subseteq battery.frames
    /\ route \in {"can", "model"} /\ (route = "model" => canq = <<>> /\ told = {})

Silence ==
    /\ Known # {} => heard = 0
    /\ heard <= age
    /\ told # {} /\ Known = {} => age <= heard

ModelIsHeard == model => heard = 0 /\ route = "model"

\* What a battery has told is known, or waits.
ToldIsKnown ==
    /\ \A id \in told : Growatt!Taken(Growatt!Frame(id)) \subseteq cache \/ Growatt!Frame(id) \in Growatt!Range(canq)
    /\ "pack" \in cache => "cells" \in cache

ShownInTime == shown.have => shown.age \in 0..Growatt!MaxAge /\ heard <= Stale + shown.age

\* The frames of a battery hold all that is needed for an answer.
Complete(b) ==
    Growatt!Needed \subseteq
        Growatt!Estimated(UNION {Growatt!Taken([id |-> id, cells |-> b.cells]) : id \in b.frames})

AllComplete == \A b \in Batteries : Complete(b)

GrowattInv ==
    /\ Growatt!TypeOK /\ GrowattKinds /\ Silence /\ ModelIsHeard /\ ToldIsKnown /\ ShownInTime
    /\ Growatt!SilentIsNotAnswered
    /\ AllComplete => Growatt!HeardIsAnswered

GrowattIsRight == line = "growatt" => GrowattInv /\ StreamInv

LEMMA GrowattConstants ==
    /\ Stale \in Nat /\ MaxRequests \in Nat /\ MaxFaults \in Nat /\ QueueMax \in Nat
    /\ Routes \subseteq {"can", "model"}
    /\ Batteries \subseteq [frames : SUBSET FieldIds, cells : BOOLEAN]
    /\ Growatt!MaxAge \in Nat /\ Growatt!MaxAge = 3 * Stale + 2
  BY LinesAssumption DEF Growatt!ResponderAssumption, FieldIds, Growatt!MaxAge

LEMMA FieldFacts ==
    ASSUME NEW f, f.id \in FieldIds
    PROVE  Growatt!Taken(f) \subseteq Growatt!Needed \cup {"limit"}
  BY DEF FieldIds, Growatt!Fields, Growatt!Taken, Growatt!Needed

\* Estimates are of what is known, and more knowledge brings no fewer.
LEMMA EstimatedFacts ==
    ASSUME NEW c
    PROVE  /\ c \subseteq Growatt!Estimated(c) /\ Growatt!Estimated(c) \subseteq c \cup {"cells"}
           /\ "pack" \in Growatt!Estimated(c) => "cells" \in Growatt!Estimated(c)
           /\ \A d : c \subseteq d /\ ("pack" \in d => "cells" \in d) => Growatt!Estimated(c) \subseteq d
  BY DEF Growatt!Estimated

LEMMA DrainedFacts ==
    ASSUME GrowattInv
    PROVE  /\ Growatt!Drained.cache \subseteq Growatt!Needed \cup {"limit"} /\ Growatt!Drained.age \in 0..Growatt!MaxAge
           /\ cache \subseteq Growatt!Drained.cache
           /\ "pack" \in Growatt!Drained.cache => "cells" \in Growatt!Drained.cache
           /\ \A f \in Known : Growatt!Taken(f) \subseteq Growatt!Drained.cache
           /\ heard <= Growatt!Drained.age
           /\ told # {} => Growatt!Drained.age <= heard
  <1>0. /\ cache \subseteq Growatt!Needed \cup {"limit"} /\ age \in 0..Growatt!MaxAge /\ heard \in 0..Growatt!MaxAge
        /\ ("pack" \in cache => "cells" \in cache) /\ Silence
    BY DEF GrowattInv, Growatt!TypeOK, ToldIsKnown
  <1>1. CASE Known = {}
    <2>1. Growatt!Drained = [cache |-> cache, age |-> age]
      BY <1>1 DEF Growatt!Drained, Growatt!Cached, Known, FieldIds
    <2> QED BY <1>0, <1>1, <2>1 DEF Silence
  <1>2. CASE Known # {}
    <2> DEFINE tells == UNION {Growatt!Taken(f) : f \in Known}
    <2>1. Growatt!Drained = [cache |-> Growatt!Estimated(cache \cup tells), age |-> 0]
      BY <1>2 DEF Growatt!Drained, Growatt!Cached, Known, FieldIds
    <2>2. tells \subseteq Growatt!Needed \cup {"limit"} /\ \A f \in Known : Growatt!Taken(f) \subseteq tells
      BY FieldFacts DEF Known
    <2> HIDE DEF tells
    <2>3. Growatt!Estimated(cache \cup tells) \subseteq Growatt!Needed \cup {"limit"}
      <3>1. "cells" \in Growatt!Needed
        BY DEF Growatt!Needed
      <3>2. Growatt!Estimated(cache \cup tells) \subseteq (cache \cup tells) \cup {"cells"}
        BY EstimatedFacts, Zenon
      <3> QED BY <1>0, <2>2, <3>1, <3>2
    <2>4. heard = 0 /\ 0 \in 0..Growatt!MaxAge
      BY <1>0, <1>2, GrowattConstants DEF Silence
    <2> QED BY <2>1, <2>2, <2>3, <2>4, EstimatedFacts
  <1> QED BY <1>1, <1>2

\* A turn ends with at most half a request, and with a verdict or none.
LEMMA TurnFacts ==
    ASSUME NEW e, NEW answers, NEW ok \in BOOLEAN, Growatt!Turn(e, answers, ok)
    PROVE  /\ cache' = e.cache /\ age' = e.age /\ Len(stream') <= 1
           /\ \/ verdict' = verdict /\ shown' = shown
              \/ /\ (verdict'.sent <=> ok /\ answers) /\ (verdict'.ok <=> ok) /\ verdict'.heard = heard /\ verdict'.told = told
                 /\ shown' = IF ok /\ answers THEN [have |-> TRUE, age |-> 0] ELSE shown
  <1>1. cache' = e.cache /\ age' = e.age
    BY DEF Growatt!Turn
  <1>2. \E s : stream' = Growatt!Rest(s)
    BY DEF Growatt!Turn
  <1>3. \A x : Len(<<x>>) = 1 /\ Len(<<>>) = 0
    OBVIOUS
  <1>4. Len(stream') <= 1
    BY <1>2, <1>3 DEF Growatt!Rest
  <1>5. \/ verdict' = verdict /\ shown' = shown
        \/ /\ \E r : verdict' = [req |-> r, sent |-> ok /\ answers, ok |-> ok, heard |-> heard, told |-> told]
           /\ shown' = IF ok /\ answers THEN [have |-> TRUE, age |-> 0] ELSE shown
    BY DEF Growatt!Turn
  <1>6. ASSUME NEW r, verdict' = [req |-> r, sent |-> ok /\ answers, ok |-> ok, heard |-> heard, told |-> told]
        PROVE  /\ (verdict'.sent <=> ok /\ answers) /\ (verdict'.ok <=> ok)
               /\ verdict'.heard = heard /\ verdict'.told = told
    <2>1. verdict'.sent = (ok /\ answers) /\ verdict'.ok = ok
      BY <1>6
    <2> QED BY <1>6, <2>1
  <1> QED BY <1>1, <1>4, <1>5, <1>6

LEMMA GrownFacts ==
    ASSUME NEW a \in 0..Growatt!MaxAge
    PROVE  /\ Growatt!Grown(a) \in 0..Growatt!MaxAge
           /\ \A b \in 0..Growatt!MaxAge : b <= a => Growatt!Grown(b) <= Growatt!Grown(a)
           /\ \A b \in 0..Growatt!MaxAge : b <= Stale + a => Growatt!Grown(b) <= Stale + Growatt!Grown(a)
  BY GrowattConstants DEF Growatt!Grown

LEMMA GrowattStarts == Growatt!Init => GrowattInv
  <1> SUFFICES ASSUME Growatt!Init PROVE GrowattInv
    OBVIOUS
  <1> USE GrowattConstants DEF Growatt!Init
  <1>1. canq = <<>> /\ Known = {}
    BY DEF Known, Growatt!Range
  <1>2. Growatt!TypeOK
    <2>1. Len(canq) <= QueueMax /\ Len(stream) <= 1
      BY <1>1
    <2>2. {age, heard} \subseteq 0..Growatt!MaxAge /\ asked \in 0..MaxRequests /\ faults \in 0..MaxFaults
      OBVIOUS
    <2> QED BY <2>1, <2>2 DEF Growatt!TypeOK
  <1>3. GrowattKinds
    BY DEF GrowattKinds
  <1>4. Silence /\ ModelIsHeard /\ ToldIsKnown
    BY <1>1 DEF Silence, ModelIsHeard, ToldIsKnown
  <1>5. ShownInTime
    BY DEF ShownInTime, Growatt!NotShown
  <1>6. Growatt!SilentIsNotAnswered /\ Growatt!HeardIsAnswered
    BY DEF Growatt!SilentIsNotAnswered, Growatt!HeardIsAnswered, Growatt!Judged
  <1> QED BY <1>2, <1>3, <1>4, <1>5, <1>6 DEF GrowattInv

\* A battery that is complete, has told all and is heard is known to be ready.
LEMMA ToldIsReady ==
    ASSUME GrowattInv, AllComplete, told = battery.frames, heard <= Stale
    PROVE  Growatt!AnswersCan(Growatt!Drained)
  <1>1. battery \in Batteries /\ Complete(battery)
    BY DEF GrowattInv, GrowattKinds, AllComplete
  <1> DEFINE tells == UNION {Growatt!Taken([id |-> id, cells |-> battery.cells]) : id \in battery.frames}
  <1>2. tells \subseteq Growatt!Drained.cache
    <2> SUFFICES ASSUME NEW id \in told PROVE Growatt!Taken(Growatt!Frame(id)) \subseteq Growatt!Drained.cache
      BY DEF Growatt!Frame
    <2>1. Growatt!Frame(id).id \in FieldIds
      BY <1>1, GrowattConstants DEF Growatt!Frame
    <2>2. Growatt!Frame(id) \in Growatt!Range(canq) => Growatt!Frame(id) \in Known
      BY <2>1 DEF Known
    <2> QED BY <2>2, DrainedFacts DEF GrowattInv, ToldIsKnown
  <1>3. Growatt!Needed \subseteq Growatt!Estimated(tells)
    BY <1>1 DEF Complete
  <1>4. told # {}
    <2> SUFFICES ASSUME told = {} PROVE FALSE
      OBVIOUS
    <2>1. tells = {}
      OBVIOUS
    <2> HIDE DEF tells
    <2>2. "soc" \in Growatt!Estimated(tells)
      BY <1>3 DEF Growatt!Needed
    <2> QED BY <2>1, <2>2 DEF Growatt!Estimated
  <1> HIDE DEF tells
  <1>5. Growatt!Estimated(tells) \subseteq Growatt!Drained.cache
    BY <1>2, DrainedFacts, EstimatedFacts
  <1>6. Growatt!Drained.age <= Stale
    <2>1. Growatt!Drained.age \in Nat /\ heard \in Nat /\ Growatt!Drained.age <= heard
      BY <1>4, DrainedFacts, GrowattConstants DEF GrowattInv, Growatt!TypeOK
    <2> QED BY <2>1, GrowattConstants
  <1> QED BY <1>3, <1>5, <1>6 DEF Growatt!AnswersCan, Growatt!Ready, Growatt!Fresh

LEMMA CanTaskKept == ASSUME GrowattInv, Growatt!CanTask PROVE GrowattInv'
  <1> USE DEF Growatt!envVars
  <1>0. /\ Growatt!TypeOK /\ GrowattKinds /\ ShownInTime /\ Growatt!SilentIsNotAnswered
        /\ (AllComplete => Growatt!HeardIsAnswered) /\ ModelIsHeard
    BY DEF GrowattInv
  <1>1. PICK ok \in BOOLEAN :
            /\ Growatt!Turn(Growatt!Drained, Growatt!AnswersCan(Growatt!Drained), ok)
            /\ Growatt!Writes(ok) /\ faults' = IF ok THEN faults ELSE faults + 1
    BY DEF Growatt!CanTask
  <1>2. canq' = <<>> /\ UNCHANGED <<route, model, asked, log, battery, heard, told>> /\ route = "can"
    BY DEF Growatt!CanTask
  <1>3. /\ cache' = Growatt!Drained.cache /\ age' = Growatt!Drained.age /\ Len(stream') <= 1
        /\ \/ verdict' = verdict /\ shown' = shown
           \/ /\ (verdict'.sent <=> ok /\ Growatt!AnswersCan(Growatt!Drained)) /\ (verdict'.ok <=> ok)
              /\ verdict'.heard = heard /\ verdict'.told = told
              /\ shown' = IF ok /\ Growatt!AnswersCan(Growatt!Drained) THEN [have |-> TRUE, age |-> 0] ELSE shown
    BY <1>1, TurnFacts
  <1>4. Known' = {}
    BY <1>2 DEF Known, Growatt!Range
  <1>5. Growatt!AnswersCan(Growatt!Drained) => heard <= Stale
    <2>1. Growatt!Drained.age \in Nat /\ heard \in Nat /\ heard <= Growatt!Drained.age
      BY <1>0, DrainedFacts, GrowattConstants DEF Growatt!TypeOK
    <2> QED BY <2>1, GrowattConstants DEF Growatt!AnswersCan, Growatt!Fresh
  <1>6. Growatt!TypeOK'
    <2>1. faults' \in 0..MaxFaults
      BY <1>0, <1>1, GrowattConstants DEF Growatt!TypeOK, Growatt!Writes
    <2>2. Len(canq') <= QueueMax
      BY <1>2, GrowattConstants
    <2> QED BY <1>0, <1>2, <1>3, <2>1, <2>2, DrainedFacts DEF Growatt!TypeOK
  <1>7. GrowattKinds'
    BY <1>0, <1>2 DEF GrowattKinds
  <1>8. Silence'
    BY <1>2, <1>3, <1>4, DrainedFacts DEF Silence
  <1>9. ToldIsKnown'
    <2> SUFFICES ASSUME NEW id \in told PROVE Growatt!Taken(Growatt!Frame(id)) \subseteq Growatt!Drained.cache
      BY <1>2, <1>3, DrainedFacts DEF ToldIsKnown, Growatt!Frame
    <2>1. Growatt!Frame(id).id \in FieldIds
      BY <1>0, GrowattConstants DEF Growatt!Frame, GrowattKinds
    <2>2. Growatt!Frame(id) \in Growatt!Range(canq) => Growatt!Frame(id) \in Known
      BY <2>1 DEF Known
    <2> QED BY <2>2, DrainedFacts DEF GrowattInv, ToldIsKnown
  <1>10. ShownInTime'
    <2>1. CASE shown' = shown
      BY <1>0, <1>2, <2>1 DEF ShownInTime
    <2>2. CASE shown' = [have |-> TRUE, age |-> 0] /\ Growatt!AnswersCan(Growatt!Drained)
      BY <1>2, <1>5, <2>2, GrowattConstants DEF ShownInTime
    <2> QED BY <1>3, <2>1, <2>2
  <1>11. Growatt!SilentIsNotAnswered'
    BY <1>0, <1>3, <1>5 DEF Growatt!SilentIsNotAnswered, Growatt!Judged
  <1>12. AllComplete => Growatt!HeardIsAnswered'
    <2> SUFFICES ASSUME AllComplete PROVE Growatt!HeardIsAnswered'
      OBVIOUS
    <2>1. CASE verdict' = verdict
      BY <1>0, <1>2, <2>1 DEF Growatt!HeardIsAnswered, Growatt!Judged
    <2>2. CASE /\ (verdict'.sent <=> ok /\ Growatt!AnswersCan(Growatt!Drained)) /\ (verdict'.ok <=> ok)
               /\ verdict'.heard = heard /\ verdict'.told = told
      <3>1. ok /\ ~Growatt!AnswersCan(Growatt!Drained) => ~(told = battery.frames /\ heard <= Stale)
        BY ToldIsReady
      <3>2. heard \in Nat /\ Stale \in Nat
        BY <1>0, GrowattConstants DEF Growatt!TypeOK
      <3> QED BY <1>2, <2>2, <3>1, <3>2 DEF Growatt!HeardIsAnswered
    <2> QED BY <1>3, <2>1, <2>2
  <1>13. ModelIsHeard' /\ (AllComplete' <=> AllComplete)
    BY <1>0, <1>2 DEF ModelIsHeard, AllComplete, Complete
  <1> QED BY <1>6, <1>7, <1>8, <1>9, <1>10, <1>11, <1>12, <1>13 DEF GrowattInv

LEMMA ModelTaskKept == ASSUME GrowattInv, Growatt!ModelTask PROVE GrowattInv'
  <1> USE DEF Growatt!envVars
  <1>0. /\ Growatt!TypeOK /\ GrowattKinds /\ Silence /\ ToldIsKnown /\ ShownInTime /\ Growatt!SilentIsNotAnswered
        /\ (AllComplete => Growatt!HeardIsAnswered) /\ ModelIsHeard
    BY DEF GrowattInv
  <1>1. PICK ok \in BOOLEAN :
            /\ Growatt!Turn([cache |-> cache, age |-> age], model, ok)
            /\ Growatt!Writes(ok) /\ faults' = IF ok THEN faults ELSE faults + 1
    BY DEF Growatt!ModelTask
  <1>2. UNCHANGED <<route, canq, model, asked, log, battery, heard, told>> /\ route = "model"
    BY DEF Growatt!ModelTask
  <1>3. /\ cache' = cache /\ age' = age /\ Len(stream') <= 1
        /\ \/ verdict' = verdict /\ shown' = shown
           \/ /\ (verdict'.sent <=> ok /\ model) /\ verdict'.heard = heard
              /\ shown' = IF ok /\ model THEN [have |-> TRUE, age |-> 0] ELSE shown
    BY <1>1, TurnFacts
  <1>4. model => heard = 0
    BY <1>0 DEF ModelIsHeard
  <1>5. Growatt!TypeOK'
    <2>1. faults' \in 0..MaxFaults
      BY <1>0, <1>1, GrowattConstants DEF Growatt!TypeOK, Growatt!Writes
    <2> QED BY <1>0, <1>2, <1>3, <2>1 DEF Growatt!TypeOK
  <1>6. GrowattKinds' /\ Silence' /\ ToldIsKnown' /\ ModelIsHeard'
    BY <1>0, <1>2, <1>3 DEF GrowattKinds, Silence, Known, ToldIsKnown, ModelIsHeard, Growatt!Range, Growatt!Frame
  <1>7. ShownInTime'
    <2>1. CASE shown' = shown
      BY <1>0, <1>2, <2>1 DEF ShownInTime
    <2>2. CASE shown' = [have |-> TRUE, age |-> 0] /\ model
      BY <1>2, <1>4, <2>2, GrowattConstants DEF ShownInTime
    <2> QED BY <1>3, <2>1, <2>2
  <1>8. Growatt!SilentIsNotAnswered'
    BY <1>0, <1>3, <1>4, GrowattConstants DEF Growatt!SilentIsNotAnswered, Growatt!Judged
  <1>9. Growatt!HeardIsAnswered'
    BY <1>2 DEF Growatt!HeardIsAnswered
  <1> QED BY <1>5, <1>6, <1>7, <1>8, <1>9 DEF GrowattInv

LEMMA RestartKept == ASSUME GrowattInv, Growatt!Restart PROVE GrowattInv'
  <1> USE DEF Growatt!Restart
  <1>0. Growatt!TypeOK /\ GrowattKinds
    BY DEF GrowattInv
  <1>1. Known' = {}
    BY DEF Known, Growatt!Range
  <1>2. Growatt!TypeOK'
    <2>1. faults' \in 0..MaxFaults
      BY <1>0, GrowattConstants DEF Growatt!TypeOK
    <2>2. Len(canq') <= QueueMax /\ Len(stream') <= 1
      BY GrowattConstants
    <2>3. {age', heard'} \subseteq 0..Growatt!MaxAge
      BY <1>0, GrowattConstants DEF Growatt!TypeOK
    <2> QED BY <1>0, <2>1, <2>2, <2>3 DEF Growatt!TypeOK
  <1>3. GrowattKinds' /\ ToldIsKnown' /\ ModelIsHeard' /\ ShownInTime'
    BY <1>0, GrowattConstants DEF GrowattKinds, ToldIsKnown, ModelIsHeard, ShownInTime, Growatt!NotShown
  <1>4. Silence'
    <2>1. heard' <= age'
      BY <1>0, GrowattConstants DEF Growatt!TypeOK
    <2> QED BY <1>1, <2>1 DEF Silence
  <1>5. Growatt!SilentIsNotAnswered' /\ Growatt!HeardIsAnswered'
    BY DEF Growatt!SilentIsNotAnswered, Growatt!HeardIsAnswered, Growatt!Judged
  <1> QED BY <1>2, <1>3, <1>4, <1>5 DEF GrowattInv

\* What the last frame that came adds to what waits.
LEMMA RangeFacts ==
    ASSUME GrowattKinds, NEW f, canq' = Append(canq, f)
    PROVE  Growatt!Range(canq') = Growatt!Range(canq) \cup {f} /\ Len(canq') = Len(canq) + 1
  BY DEF GrowattKinds, Growatt!Range

LEMMA SendKept == ASSUME GrowattInv, Growatt!Send PROVE GrowattInv'
  <1> USE DEF Growatt!canVars, Growatt!lineVars
  <1>0. /\ Growatt!TypeOK /\ GrowattKinds /\ Silence /\ ToldIsKnown /\ ShownInTime /\ Growatt!SilentIsNotAnswered
        /\ (AllComplete => Growatt!HeardIsAnswered) /\ ModelIsHeard
    BY DEF GrowattInv
  <1>1. PICK id \in battery.frames : /\ canq' = Append(canq, Growatt!Frame(id)) /\ told' = told \cup {id} /\ heard' = 0
    BY DEF Growatt!Send
  <1>2. /\ UNCHANGED <<route, cache, age, model, stream, asked, verdict, shown, battery, faults>>
        /\ route = "can" /\ Len(canq) < QueueMax
    BY DEF Growatt!Send
  <1>3. battery \in [frames : SUBSET FieldIds, cells : BOOLEAN] /\ id \in FieldIds
    BY <1>0, <1>1, GrowattConstants DEF GrowattKinds
  <1>4. /\ Growatt!Range(canq') = Growatt!Range(canq) \cup {Growatt!Frame(id)} /\ Len(canq') = Len(canq) + 1
        /\ Growatt!Frame(id) \in [id : FieldIds \cup {"other"}, cells : BOOLEAN]
    BY <1>0, <1>1, <1>3, RangeFacts DEF Growatt!Frame
  <1>5. Growatt!Frame(id) \in Known'
    BY <1>3, <1>4 DEF Known, Growatt!Frame
  <1>6. Growatt!TypeOK'
    <2>1. Len(canq') <= QueueMax /\ heard' \in 0..Growatt!MaxAge
      BY <1>0, <1>1, <1>2, <1>4, GrowattConstants DEF GrowattKinds
    <2> QED BY <1>0, <1>2, <2>1 DEF Growatt!TypeOK
  <1>7. GrowattKinds'
    BY <1>0, <1>1, <1>2, <1>4 DEF GrowattKinds
  <1>8. Silence'
    <2>1. heard' <= age'
      BY <1>0, <1>1, <1>2, GrowattConstants DEF Growatt!TypeOK
    <2> QED BY <1>1, <1>5, <2>1 DEF Silence
  <1>9. ModelIsHeard'
    BY <1>0, <1>1, <1>2 DEF ModelIsHeard
  <1>10. ToldIsKnown'
    BY <1>0, <1>1, <1>2, <1>4 DEF ToldIsKnown, Growatt!Frame
  <1>11. ShownInTime'
    BY <1>0, <1>1, <1>2, GrowattConstants DEF ShownInTime
  <1>12. Growatt!SilentIsNotAnswered' /\ (AllComplete => Growatt!HeardIsAnswered')
    BY <1>0, <1>2 DEF Growatt!SilentIsNotAnswered, Growatt!HeardIsAnswered, Growatt!Judged
  <1>13. AllComplete' <=> AllComplete
    BY DEF AllComplete, Complete
  <1> QED BY <1>6, <1>7, <1>8, <1>9, <1>10, <1>11, <1>12, <1>13 DEF GrowattInv

LEMMA ForeignKept == ASSUME GrowattInv, Growatt!Foreign PROVE GrowattInv'
  <1> USE DEF Growatt!canVars, Growatt!lineVars, Growatt!envVars
  <1>0. /\ Growatt!TypeOK /\ GrowattKinds /\ Silence /\ ToldIsKnown /\ ShownInTime /\ Growatt!SilentIsNotAnswered
        /\ (AllComplete => Growatt!HeardIsAnswered) /\ ModelIsHeard
    BY DEF GrowattInv
  <1> DEFINE f == [Growatt!Frame("f314") EXCEPT !.id = "other"]
  <1>1. canq' = Append(canq, f) /\ faults' = faults + 1 /\ faults < MaxFaults /\ Len(canq) < QueueMax
    BY DEF Growatt!Foreign
  <1>2. UNCHANGED <<route, cache, age, model, stream, asked, verdict, shown, battery, heard, told>> /\ route = "can"
    BY DEF Growatt!Foreign
  <1>3. f.id = "other" /\ f \in [id : FieldIds \cup {"other"}, cells : BOOLEAN]
    BY <1>0, GrowattConstants DEF Growatt!Frame, GrowattKinds
  <1> HIDE DEF f
  <1>4. "other" \notin FieldIds
    BY DEF FieldIds, Growatt!Fields
  <1>5. Growatt!Range(canq') = Growatt!Range(canq) \cup {f} /\ Len(canq') = Len(canq) + 1
    BY <1>0, <1>1, RangeFacts
  <1>6. Known' = Known
    BY <1>3, <1>4, <1>5 DEF Known
  <1>7. Growatt!TypeOK'
    <2>1. Len(canq') <= QueueMax /\ faults' \in 0..MaxFaults
      BY <1>0, <1>1, <1>5, GrowattConstants DEF GrowattKinds, Growatt!TypeOK
    <2> QED BY <1>0, <1>2, <2>1 DEF Growatt!TypeOK
  <1>8. GrowattKinds'
    BY <1>0, <1>1, <1>2, <1>3 DEF GrowattKinds
  <1>9. Silence' /\ ModelIsHeard' /\ ShownInTime'
    BY <1>0, <1>2, <1>6 DEF Silence, ModelIsHeard, ShownInTime
  <1>10. ToldIsKnown'
    BY <1>0, <1>2, <1>5 DEF ToldIsKnown, Growatt!Frame
  <1>11. Growatt!SilentIsNotAnswered' /\ (AllComplete => Growatt!HeardIsAnswered')
    BY <1>0, <1>2 DEF Growatt!SilentIsNotAnswered, Growatt!HeardIsAnswered, Growatt!Judged
  <1>12. AllComplete' <=> AllComplete
    BY DEF AllComplete, Complete
  <1> QED BY <1>7, <1>8, <1>9, <1>10, <1>11, <1>12 DEF GrowattInv

LEMMA SetModelKept == ASSUME GrowattInv, Growatt!SetModel PROVE GrowattInv'
  <1> USE DEF Growatt!canVars, Growatt!lineVars
  <1>0. /\ Growatt!TypeOK /\ GrowattKinds /\ Silence /\ ToldIsKnown /\ ShownInTime /\ Growatt!SilentIsNotAnswered
        /\ ModelIsHeard
    BY DEF GrowattInv
  <1>1. /\ UNCHANGED <<route, cache, age, canq, stream, asked, verdict, shown, battery, told, faults>>
        /\ route = "model" /\ model' \in BOOLEAN /\ heard' = IF model' THEN 0 ELSE heard
    BY DEF Growatt!SetModel
  <1>2. heard' \in 0..Growatt!MaxAge /\ heard' <= heard /\ (model' => heard' = 0)
    <2>1. heard \in 0..Growatt!MaxAge /\ 0 \in 0..Growatt!MaxAge
      BY <1>0, GrowattConstants DEF Growatt!TypeOK
    <2> QED BY <1>1, <2>1
  <1>3. Growatt!TypeOK'
    BY <1>0, <1>1, <1>2 DEF Growatt!TypeOK
  <1>4. GrowattKinds' /\ ToldIsKnown' /\ canq = <<>> /\ told = {}
    BY <1>0, <1>1 DEF GrowattKinds, ToldIsKnown, Growatt!Range, Growatt!Frame
  <1>5. ModelIsHeard'
    BY <1>1, <1>2 DEF ModelIsHeard
  <1>6. Silence'
    <2>1. Known' = {} /\ told' = {}
      BY <1>1, <1>4 DEF Known, Growatt!Range
    <2>2. heard' <= age'
      BY <1>0, <1>1, <1>2, GrowattConstants DEF Silence, Growatt!TypeOK
    <2> QED BY <2>1, <2>2 DEF Silence
  <1>7. ShownInTime'
    BY <1>0, <1>1, <1>2, GrowattConstants DEF ShownInTime, Growatt!TypeOK
  <1>8. Growatt!SilentIsNotAnswered' /\ Growatt!HeardIsAnswered'
    BY <1>0, <1>1 DEF Growatt!SilentIsNotAnswered, Growatt!HeardIsAnswered, Growatt!Judged
  <1> QED BY <1>3, <1>4, <1>5, <1>6, <1>7, <1>8 DEF GrowattInv

\* What the inverter sends, in halves.
LEMMA AskKept ==
    ASSUME GrowattInv, Growatt!AskBegins \/ Growatt!AskEnds
    PROVE  GrowattInv'
  <1> USE DEF Growatt!canVars, Growatt!envVars
  <1>0. /\ Growatt!TypeOK /\ GrowattKinds /\ Silence /\ ToldIsKnown /\ ShownInTime /\ Growatt!SilentIsNotAnswered
        /\ (AllComplete => Growatt!HeardIsAnswered) /\ ModelIsHeard
    BY DEF GrowattInv
  <1>1. UNCHANGED <<route, cache, age, canq, model, stream, verdict, shown, battery, heard, told>>
    BY DEF Growatt!AskBegins, Growatt!AskEnds
  <1>2. asked' \in 0..MaxRequests
    BY <1>0, GrowattConstants DEF Growatt!AskBegins, Growatt!AskEnds, Growatt!TypeOK
  <1>3. faults' = faults \/ (faults < MaxFaults /\ faults' = faults + 1)
    BY DEF Growatt!AskBegins, Growatt!AskEnds, Growatt!Half
  <1>4. faults' \in 0..MaxFaults
    BY <1>0, <1>3, GrowattConstants DEF Growatt!TypeOK
  <1>5. Growatt!TypeOK'
    BY <1>0, <1>1, <1>2, <1>4 DEF Growatt!TypeOK
  <1>6. GrowattKinds' /\ Silence' /\ ModelIsHeard' /\ ShownInTime'
    BY <1>0, <1>1 DEF GrowattKinds, Silence, Known, ModelIsHeard, ShownInTime, Growatt!Range
  <1>7. ToldIsKnown'
    BY <1>0, <1>1 DEF ToldIsKnown, Growatt!Range, Growatt!Frame
  <1>8. Growatt!SilentIsNotAnswered' /\ (AllComplete => Growatt!HeardIsAnswered')
    BY <1>0, <1>1 DEF Growatt!SilentIsNotAnswered, Growatt!HeardIsAnswered, Growatt!Judged
  <1>9. AllComplete' <=> AllComplete
    BY DEF AllComplete, Complete
  <1> QED BY <1>5, <1>6, <1>7, <1>8, <1>9 DEF GrowattInv

\* No frame waits when time goes on, and both ages grow.
LEMMA TickKept == ASSUME GrowattInv, Growatt!Tick PROVE GrowattInv'
  <1> USE DEF Growatt!lineVars
  <1>0. /\ Growatt!TypeOK /\ GrowattKinds /\ Silence /\ ToldIsKnown /\ ShownInTime /\ Growatt!SilentIsNotAnswered
        /\ (AllComplete => Growatt!HeardIsAnswered) /\ ModelIsHeard
    BY DEF GrowattInv
  <1>1. /\ UNCHANGED <<route, cache, canq, model, stream, asked, verdict, battery, told, faults>>
        /\ age' = Growatt!Grown(age) /\ heard' = IF model THEN 0 ELSE Growatt!Grown(heard)
        /\ shown' = IF shown.have THEN [shown EXCEPT !.age = Growatt!Grown(@)] ELSE shown
    BY DEF Growatt!Tick
  <1>2. canq = <<>> /\ Known = {} /\ Known' = {}
    BY <1>0, <1>1 DEF Growatt!Tick, GrowattKinds, Known, Growatt!Range
  <1>3. age \in 0..Growatt!MaxAge /\ heard \in 0..Growatt!MaxAge /\ heard <= age
    BY <1>0 DEF Growatt!TypeOK, Silence
  <1>4. /\ age' \in 0..Growatt!MaxAge /\ heard' \in 0..Growatt!MaxAge /\ heard' <= age'
        /\ ~model /\ age <= heard => age' <= heard'
    BY <1>1, <1>3, GrownFacts, GrowattConstants
  <1>5. Growatt!TypeOK'
    BY <1>0, <1>1, <1>4 DEF Growatt!TypeOK
  <1>6. GrowattKinds' /\ ModelIsHeard'
    BY <1>0, <1>1 DEF GrowattKinds, ModelIsHeard
  <1>7. Silence'
    BY <1>0, <1>1, <1>2, <1>4 DEF Silence, ModelIsHeard, GrowattKinds
  <1>8. ToldIsKnown'
    BY <1>0, <1>1 DEF ToldIsKnown, Growatt!Range, Growatt!Frame
  <1>9. ShownInTime'
    <2> SUFFICES ASSUME shown'.have PROVE shown'.age \in 0..Growatt!MaxAge /\ heard' <= Stale + shown'.age
      BY DEF ShownInTime
    <2>1. CASE ~shown.have
      BY <1>1, <2>1
    <2>2. CASE shown.have
      <3>1. shown.age \in 0..Growatt!MaxAge /\ heard <= Stale + shown.age
        BY <1>0, <2>2 DEF ShownInTime
      <3>2. shown'.age = Growatt!Grown(shown.age) \/ shown' = shown
        BY <1>1, <2>2
      <3> QED BY <1>1, <1>3, <3>1, <3>2, GrownFacts, GrowattConstants
    <2> QED BY <2>1, <2>2
  <1>10. Growatt!SilentIsNotAnswered' /\ (AllComplete => Growatt!HeardIsAnswered')
    BY <1>0, <1>1 DEF Growatt!SilentIsNotAnswered, Growatt!HeardIsAnswered, Growatt!Judged
  <1>11. AllComplete' <=> AllComplete
    BY DEF AllComplete, Complete
  <1> QED BY <1>5, <1>6, <1>7, <1>8, <1>9, <1>10, <1>11 DEF GrowattInv

LEMMA GrowattKept == GrowattInv /\ (Growatt!Next \/ UNCHANGED Growatt!vars) => GrowattInv'
  <1> SUFFICES ASSUME GrowattInv, Growatt!Next \/ UNCHANGED Growatt!vars PROVE GrowattInv'
    OBVIOUS
  <1>1. CASE UNCHANGED Growatt!vars
    <2>1. /\ UNCHANGED <<route, cache, age, canq, model, rx, stream, shown, verdict, battery, heard, told, asked, faults>>
      BY <1>1 DEF Growatt!vars, Growatt!canVars, Growatt!lineVars, Growatt!envVars
    <2>2. /\ Growatt!TypeOK /\ GrowattKinds /\ Silence /\ ToldIsKnown /\ ShownInTime /\ Growatt!SilentIsNotAnswered
          /\ (AllComplete => Growatt!HeardIsAnswered) /\ ModelIsHeard
      BY DEF GrowattInv
    <2>3. Growatt!TypeOK' /\ GrowattKinds' /\ ModelIsHeard' /\ ShownInTime'
      BY <2>1, <2>2 DEF Growatt!TypeOK, GrowattKinds, ModelIsHeard, ShownInTime
    <2>4. Silence' /\ ToldIsKnown'
      BY <2>1, <2>2 DEF Silence, Known, ToldIsKnown, Growatt!Range, Growatt!Frame
    <2>5. Growatt!SilentIsNotAnswered' /\ (AllComplete => Growatt!HeardIsAnswered')
      BY <2>1, <2>2 DEF Growatt!SilentIsNotAnswered, Growatt!HeardIsAnswered, Growatt!Judged
    <2>6. AllComplete' <=> AllComplete
      BY DEF AllComplete, Complete
    <2> QED BY <2>3, <2>4, <2>5, <2>6 DEF GrowattInv
  <1>2. CASE Growatt!Next
    BY <1>2, CanTaskKept, ModelTaskKept, RestartKept, SendKept, ForeignKept, SetModelKept, AskKept, TickKept
       DEF Growatt!Next, Growatt!Task
  <1> QED BY <1>1, <1>2

LEMMA ShownFacts == GrowattInv => Growatt!ShownIsRecent
  <1> SUFFICES ASSUME GrowattInv, shown.have, shown.age <= Stale PROVE heard <= 2 * Stale
    BY DEF Growatt!ShownIsRecent, Growatt!Latest
  <1>1. shown.age \in 0..Growatt!MaxAge /\ heard <= Stale + shown.age /\ heard \in 0..Growatt!MaxAge
    BY DEF GrowattInv, ShownInTime, Growatt!TypeOK
  <1> QED BY <1>1, GrowattConstants

\* Each of the dialects that the decoder knows tells all that an answer needs.
LEMMA DialectsAreComplete == Batteries \subseteq Dialects => AllComplete
  <1>1. Complete(Sends({"f313", "f314", "f319"}, TRUE))
    BY DEF Complete, Sends, Growatt!Taken, Growatt!Fields, Growatt!Estimated, Growatt!Needed
  <1>2. Complete(Sends({"f313", "f322"}, TRUE))
    BY DEF Complete, Sends, Growatt!Taken, Growatt!Fields, Growatt!Estimated, Growatt!Needed
  <1>3. Complete(Sends({"batt", "volt", "temp"}, FALSE))
    BY DEF Complete, Sends, Growatt!Taken, Growatt!Fields, Growatt!Estimated, Growatt!Needed
  <1>4. Complete(Sends({"f456", "f457", "f458"}, TRUE))
    BY DEF Complete, Sends, Growatt!Taken, Growatt!Fields, Growatt!Estimated, Growatt!Needed
  <1>5. Complete(Sends({"f351", "f355", "f356"}, TRUE))
    BY DEF Complete, Sends, Growatt!Taken, Growatt!Fields, Growatt!Estimated, Growatt!Needed
  <1>6. Complete(Sends({"f351", "f355", "f356", "f373"}, TRUE))
    BY DEF Complete, Sends, Growatt!Taken, Growatt!Fields, Growatt!Estimated, Growatt!Needed
  <1> QED BY <1>1, <1>2, <1>3, <1>4, <1>5, <1>6 DEF AllComplete, Dialects

-----------------------------------------------------------------------------
(* Both lines.                                                             *)

LEMMA BothStart == Init => PylonIsRight /\ GrowattIsRight
  <1>1. Growatt!Init => StreamInv
    BY StreamStarts DEF Growatt!Init
  <1> QED BY <1>1, PylonStarts, GrowattStarts DEF Init, InitPylon, InitGrowatt, PylonIsRight, GrowattIsRight

LEMMA StepIsOfOneLine ==
    ASSUME [Next]_vars
    PROVE  /\ line' = line
           /\ line = "pylon" => Pylon!Next \/ UNCHANGED Pylon!vars
           /\ line = "growatt" => Growatt!Next \/ UNCHANGED Growatt!vars
  BY DEF Next, PylonStep, GrowattStep, vars, pylonVars, growattVars, Pylon!vars, Pylon!lineVars,
     Growatt!vars, Growatt!canVars, Growatt!lineVars, Growatt!envVars

LEMMA BothKept == PylonIsRight /\ GrowattIsRight /\ [Next]_vars => PylonIsRight' /\ GrowattIsRight'
  <1>1. ASSUME GrowattInv, StreamInv, Growatt!Next \/ UNCHANGED Growatt!vars PROVE GrowattInv' /\ StreamInv'
    BY <1>1, GrowattKept, StreamKept DEF GrowattInv
  <1> QED BY <1>1, StepIsOfOneLine, PylonKept DEF PylonIsRight, GrowattIsRight

LEMMA BothAreRight == Spec => [](PylonIsRight /\ GrowattIsRight)
  BY BothStart, BothKept, PTL DEF Spec

\* Each task keeps to its kinds: the bridge's notes, caches and messages on their way,
\* the responder's queue of frames and the half of a request that it may keep.
THEOREM TypesAreRight == Spec => []TypeOK
  <1>1. PylonIsRight /\ GrowattIsRight => TypeOK
    BY DEF PylonIsRight, GrowattIsRight, PylonInv, GrowattInv, TypeOK
  <1> QED BY <1>1, BothAreRight, PTL

\* An inverter behind the Pylon bridge is told what it asked for, not below the SOC
\* floor, and the board shows what the inverter was told, for all sizes of answers and
\* any timing in which the battery answers within the pair window
\* (pylonRs485BridgeInverterTask, pylonRs485BridgeBmsTask).  However the requests of a
\* Growatt inverter are cut into readings, and whatever is lost or between them, each
\* whole one is found, once and in its turn (canRs485GrowattTask, jkbmsRs485GrowattTask).
THEOREM ToldIsRightAlways == Spec => []ToldIsRight
  <1>1. PylonIsRight /\ GrowattIsRight => ToldIsRight
    BY StreamIsFound DEF PylonIsRight, PylonInv, StoreInv, HeardInv, FloorInv, GrowattIsRight, ToldIsRight
  <1> QED BY <1>1, BothAreRight, PTL

\* A battery on CAN that speaks one of the dialects of cacheFromCanFrame, has sent each
\* of its frames and is still heard is answered for, whatever else is on its bus and
\* however long the windows and the queue are (canRs485GrowattTask).
THEOREM HeardIsAnsweredAlways ==
    ASSUME Batteries \subseteq Dialects
    PROVE  Spec => []HeardIsAnswered
  <1>1. GrowattIsRight => HeardIsAnswered
    BY DialectsAreComplete DEF GrowattIsRight, GrowattInv, HeardIsAnswered
  <1> QED BY <1>1, BothAreRight, PTL

\* A battery that has been silent for the window is neither answered for nor shown: the
\* Pylon bridge drops its cache before time goes on, and the responder's age of what it
\* knows is never less than the silence (pylonRs485BridgeBmsTask, canRs485GrowattTask,
\* canRs485GrowattBridgeGetLatestSnapshot).
THEOREM SilentIsNotToldAlways == Spec => SilentIsNotTold
  <1> DEFINE Answered == line = "growatt" => Growatt!SilentIsNotAnswered /\ Growatt!ShownIsRecent
  <1>1. GrowattIsRight => Answered
    BY ShownFacts DEF GrowattIsRight, GrowattInv
  <1>2. PylonIsRight /\ [Next]_vars => (line = "pylon" => Pylon!SilentIsHidden)
    BY StepIsOfOneLine, SilentHidden DEF PylonIsRight
  <1>3. PylonIsRight /\ Answered' /\ [Next]_vars =>
            [/\ line = "pylon" => Pylon!SilentIsHidden
             /\ line = "growatt" => Growatt!SilentIsNotAnswered' /\ Growatt!ShownIsRecent']_vars
    BY <1>2, StepIsOfOneLine
  <1> HIDE DEF Answered
  <1> QED BY <1>1, <1>3, BothAreRight, PTL DEF Spec, SilentIsNotTold
=============================================================================
