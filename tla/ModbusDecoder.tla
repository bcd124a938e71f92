----------------------------- MODULE ModbusDecoder -----------------------------
(***************************************************************************)
(* The decoder of Modbus RTU all register pollers share: it collects what  *)
(* comes from the line, finds the frames in it, gives an answer to the     *)
(* request it belongs to - an answer does not say which registers it       *)
(* holds - and caches the registers.  A byte is a pair of the frame it     *)
(* belongs to and its place in it; a checksum is right for whole frames    *)
(* only.  Ages count from the time of the call.                            *)
(***************************************************************************)
EXTENDS Naturals, Integers, Sequences, FiniteSets, SequencesExt

CONSTANTS
    ReqSize, ExcSize, HeadSize,  \* bytes of a request, an exception, an answer without registers
    BufMax, Threshold,           \* 256, and 192 where a full buffer is decoded
    QueueLen, CacheMax,          \* MODBUS_DECODER_REQ_QUEUE_LEN, _CACHE_MAX_REGS
    ReqMaxAge, LastReqMaxAge,    \* 1 s and 0.5 s
    DupAge,                      \* 50 ms
    Gap,                         \* gapUs
    StatusStart                  \* VOLTRONIC_MB_REG_STATUS_START

SizeAssumption ==
    /\ {ReqSize, ExcSize, HeadSize, QueueLen, CacheMax, BufMax} \subseteq Nat \ {0}
    /\ {Threshold, ReqMaxAge, LastReqMaxAge, DupAge, Gap, StatusStart} \subseteq Nat

\* What is on the wire.  kind "wide" and "word" have a length of two bytes,
\* in bytes or registers; first says whether the device or the function is the
\* first byte; ok that the checksum is right; status that the registers look
\* like the status block of a Voltronic.  start is only on the wire in a request;
\* of an answer it is what the device read, and val what it put there.
Size(f) ==
    CASE f.kind = "req"  -> ReqSize
      [] f.kind = "exc"  -> ExcSize
      [] f.kind = "resp" -> HeadSize + f.count
      [] f.kind \in {"wide", "word"} -> HeadSize + 1 + f.count
      [] OTHER -> 1

Bytes(f) == [i \in 1..Size(f) |-> <<f, i>>]

IsAnswer(f) == f.kind \in {"resp", "wide", "word"}

NoReq == [dev |-> 0, start |-> 0, count |-> 0, age |-> 0]

Decoder0 == [buf |-> <<>>, have |-> FALSE, age |-> 0, reqs |-> <<>>, last |-> NoReq, cache |-> <<>>]

-----------------------------------------------------------------------------
(* The queue of requests, the newest last.                                 *)

\* The age of request r at the time the last byte came, from loops ago.
Prune(reqs, from) ==
    LET upTo[i \in 0..Len(reqs)] ==
            IF i = 0 THEN <<>>
            ELSE IF reqs[i].age - from <= ReqMaxAge THEN Append(upTo[i - 1], reqs[i]) ELSE upTo[i - 1]
    IN upTo[Len(reqs)]

SameReq(r, q) == r.dev = q.dev /\ r.start = q.start /\ r.count = q.count

Push(reqs, r, from) ==
    LET open == Prune(reqs, from)
        room == IF Len(open) >= QueueLen THEN Tail(open) ELSE open
        dup  == /\ open # <<>> /\ SameReq(Last(open), r)
                /\ Last(open).age - r.age \in (1 - DupAge)..(DupAge - 1)
    IN IF dup THEN open ELSE Append(room, r)

\* The places of the requests that may have been answered by device dev from
\* loops ago; none of them is younger than the answer.
Open(reqs, dev, from) == {i \in DOMAIN reqs : reqs[i].dev = dev /\ reqs[i].age >= from}

OpenFor(reqs, dev, count, from) == {i \in Open(reqs, dev, from) : reqs[i].count = count}

Newest(places) == CHOOSE i \in places : \A j \in places : j <= i
Oldest(places) == CHOOSE i \in places : \A j \in places : i <= j

Record(d, r, from) == [d EXCEPT !.last = r, !.reqs = Push(@, r, from)]

\* modbusDecoderRecordRequest, called by the poller at the time of the request.
RecordRequest(d, dev, start, count) ==
    IF count = 0 THEN d
    ELSE Record(d, [dev |-> dev, start |-> start, count |-> count, age |-> 0], 0)

\* printReq03: a request seen on the line is recorded at the time of its bytes.
SeeRequest(d, f) ==
    LET r == [dev |-> f.dev, start |-> f.start, count |-> f.count, age |-> d.age]
    IN IF f.count = 0 THEN [d EXCEPT !.last = r] ELSE Record(d, r, d.age)

-----------------------------------------------------------------------------
(* The cache: a sequence of registers with the age of their values.        *)

Place(cache, reg) == {i \in DOMAIN cache : cache[i].reg = reg}

Eldest(cache) ==
    CHOOSE i \in DOMAIN cache :
        \A j \in DOMAIN cache : cache[j].age < cache[i].age \/ (cache[j].age = cache[i].age /\ i <= j)

\* Mutant: a register that is there is added again.
CacheAppends(cache, e) ==
    IF Len(cache) < CacheMax THEN Append(cache, e) ELSE [cache EXCEPT ![Eldest(cache)] = e]

CacheStore(cache, e) ==
    LET p == Place(cache, e.reg) IN
    IF p # {} THEN [cache EXCEPT ![CHOOSE i \in p : TRUE] = e]
    ELSE IF Len(cache) < CacheMax THEN Append(cache, e)
    ELSE [cache EXCEPT ![Eldest(cache)] = e]

StoreAll(d, f, start) ==
    LET register(i) == [reg |-> start + i - 1, from |-> f.start + i - 1, val |-> f.val, ok |-> f.ok,
                        age |-> d.age]
        upTo[i \in 0..f.count] == IF i = 0 THEN d.cache ELSE CacheStore(upTo[i - 1], register(i))
    IN [d EXCEPT !.cache = upTo[f.count]]

\* modbusDecoderGetNewestCacheTsUs, as an age; none for an empty cache.
NewestAge(d, none) ==
    IF d.cache = <<>> THEN none
    ELSE CHOOSE a \in {d.cache[i].age : i \in DOMAIN d.cache} :
            \A i \in DOMAIN d.cache : a <= d.cache[i].age

-----------------------------------------------------------------------------
(* Frames.                                                                 *)

\* Mutant: the answer is given to the oldest request.
RespondOldest(d, f) ==
    LET reqs == Prune(d.reqs, d.age)
        open == OpenFor(reqs, f.dev, f.count, d.age)
    IN IF open = {} THEN [d EXCEPT !.reqs = reqs]
       ELSE StoreAll([d EXCEPT !.reqs = RemoveAt(reqs, Oldest(open))], f, reqs[Oldest(open)].start)

\* printResp03: the answer belongs to the newest open request for as many
\* registers, or to the last one if none is open; else it is not cached.
Respond(d, f) ==
    LET reqs  == Prune(d.reqs, d.age)
        open  == OpenFor(reqs, f.dev, f.count, d.age)
        since == d.last.age - d.age
    IN CASE f.status -> StoreAll([d EXCEPT !.reqs = <<>>], f, StatusStart)
         [] ~f.status /\ open # {} ->
              StoreAll([d EXCEPT !.reqs = RemoveAt(reqs, Newest(open))], f, reqs[Newest(open)].start)
         [] ~f.status /\ open = {} /\ reqs = <<>> /\ d.last.dev = f.dev /\ d.last.count = f.count
              /\ since \in 0..(LastReqMaxAge - 1) -> StoreAll([d EXCEPT !.reqs = reqs], f, d.last.start)
         [] OTHER -> [d EXCEPT !.reqs = reqs]

\* printExceptionResp: the oldest request of the device is taken as refused.
Except(d, f) ==
    LET reqs == Prune(d.reqs, d.age)
        open == Open(reqs, f.dev, d.age)
    IN [d EXCEPT !.reqs = IF open = {} THEN reqs ELSE RemoveAt(reqs, Oldest(open))]

\* A frame with a right checksum that decodeFrame knows: an exception must have
\* the device first.
Known(f) ==
    /\ f.ok
    /\ f.kind = "req" \/ IsAnswer(f) \/ (f.kind = "exc" /\ f.first = "device")

Handle(d, f) ==
    IF f.kind = "req" THEN SeeRequest(d, f)
    ELSE IF f.kind = "exc" THEN Except(d, f) ELSE Respond(d, f)

\* All of a frame is in the buffer, from place p on.
Whole(buf, p) ==
    LET f == buf[p][1] IN
    /\ buf[p][2] = 1
    /\ p + Size(f) - 1 <= Len(buf)
    /\ SubSeq(buf, p, p + Size(f) - 1) = Bytes(f)

\* decodeFrame: from the left, what is no frame is skipped byte by byte.  next
\* is how far the last frame reached.
ScanAt(buf, s, p) ==
    IF p > s.next /\ Whole(buf, p) /\ Known(buf[p][1])
    THEN [dec |-> Handle(s.dec, buf[p][1]), next |-> p + Size(buf[p][1]) - 1]
    ELSE s

Scan(d) ==
    LET upTo[p \in 0..Len(d.buf)] ==
            IF p = 0 THEN [dec |-> d, next |-> 0] ELSE ScanAt(d.buf, upTo[p - 1], p)
    IN upTo[Len(d.buf)]

\* What decodeFrame does with a buffer it found nothing in: if it looks like a
\* request or an answer with the device first, the checksum does not matter.
Fallback(d) ==
    LET f == d.buf[1][1] IN
    IF d.buf[1][2] # 1 \/ f.first # "device" THEN d
    ELSE IF f.kind = "req" /\ Len(d.buf) = ReqSize THEN SeeRequest(d, f)
    ELSE IF f.kind = "resp" /\ Size(f) <= Len(d.buf) THEN Respond(d, f)
    ELSE d

\* finalizeIfAny.
Finalize(d) ==
    IF d.buf = <<>> THEN d
    ELSE LET s == Scan(d)
         IN [(IF s.next > 0 THEN s.dec ELSE Fallback(d)) EXCEPT !.buf = <<>>]

\* A byte for which there is no room drops what is in the buffer, after what can
\* be decoded was.
AddByte(d, b) ==
    IF Len(d.buf) < BufMax THEN [d EXCEPT !.buf = Append(@, b)]
    ELSE [Scan(d).dec EXCEPT !.buf = <<b>>]

Drain(d) ==
    IF Len(d.buf) <= Threshold THEN d
    ELSE LET s == Scan(d) IN [s.dec EXCEPT !.buf = SubSeq(@, s.next + 1, Len(@))]

\* modbusDecoderFeed and modbusDecoderFlush.
Feed(d, data) ==
    LET ready == IF d.have /\ d.age > Gap THEN Finalize(d) ELSE d
        upTo[i \in 0..Len(data)] ==
            IF i = 0 THEN [ready EXCEPT !.age = 0, !.have = TRUE] ELSE AddByte(upTo[i - 1], data[i])
    IN Drain(upTo[Len(data)])

Flush(d) == [Finalize(d) EXCEPT !.have = FALSE]
=============================================================================
