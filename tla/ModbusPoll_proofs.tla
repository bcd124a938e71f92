-------------------------- MODULE ModbusPoll_proofs --------------------------
(***************************************************************************)
(* For every list of blocks, period, delay, gap and size of the decoder's  *)
(* stores: a source that reads registers over Modbus keeps its types, does *)
(* not give a register the value of another one, and shows no BMS that is  *)
(* silent. An answer does not say which registers it holds: that it is     *)
(* taken for the right ones rests on the time, every answer and the gap    *)
(* after it being over before the next request. Then the source that reads *)
(* JK's own protocol: what is shown of it is one answer.                   *)
(***************************************************************************)
EXTENDS ModbusPoll, FiniteSetTheorems, WellFoundedInduction, TLAPS

-----------------------------------------------------------------------------
(* Induction over numbers.                                                 *)

Less == OpToRel(<, Nat)

LEMMA LeastNumber ==
    ASSUME NEW T \in SUBSET Nat, T # {}
    PROVE  \E m \in T : \A n \in T : m <= n
  <1>1. IsWellFoundedOn(Less, Nat)
    BY NatLessThanWellFounded DEF Less
  <1>2. PICK m \in T : \A n \in T : ~(<<n, m>> \in Less)
    BY <1>1, WFMin
  <1>3. \A n \in T : ~(n < m)
    BY <1>2 DEF Less, OpToRel
  <1> QED BY <1>3

LEMMA Climb ==
    ASSUME NEW N \in Nat, NEW T, 0 \in T, \A i \in 1..N : i - 1 \in T => i \in T
    PROVE  \A i \in 0..N : i \in T
  <1> SUFFICES ASSUME NEW k \in 0..N, k \notin T PROVE FALSE
    OBVIOUS
  <1> DEFINE Bad == {i \in 0..N : i \notin T}
  <1>1. PICK m \in Bad : \A n \in Bad : m <= n
    <2>1. Bad \in SUBSET Nat /\ Bad # {}
      OBVIOUS
    <2> HIDE DEF Bad
    <2> QED BY <2>1, LeastNumber
  <1>2. m \in 1..N /\ m - 1 \notin Bad
    BY <1>1
  <1> QED BY <1>1, <1>2

Moves(S, N) == [1..N -> [S -> S]]
IsRun(g, S, N, b, F) == g \in [0..N -> S] /\ g[0] = b /\ \A i \in 1..N : g[i] = F[i][g[i - 1]]

LEMMA IterExists ==
    ASSUME NEW S, NEW N \in Nat, NEW b \in S, NEW F \in Moves(S, N)
    PROVE  \E g : IsRun(g, S, N, b, F)
  <1> USE DEF Moves
  <1> DEFINE Upto(n, g) == g[0] = b /\ \A i \in 1..n : g[i] = F[i][g[i - 1]]
             T == {n \in 0..N : \E g \in [0..n -> S] : Upto(n, g)}
  <1>1. 0 \in T
    <2> DEFINE h == [i \in 0..0 |-> b]
    <2>1. h \in [0..0 -> S] /\ Upto(0, h)
      OBVIOUS
    <2> HIDE DEF h, Upto
    <2> QED BY <2>1
  <1>2. ASSUME NEW n \in 1..N, n - 1 \in T PROVE n \in T
    <2>1. PICK g \in [0..(n - 1) -> S] : Upto(n - 1, g)
      BY <1>2
    <2> DEFINE h == [i \in 0..n |-> IF i = n THEN F[n][g[n - 1]] ELSE g[i]]
    <2>2. F[n][g[n - 1]] \in S
      OBVIOUS
    <2>3. h \in [0..n -> S] /\ h[0] = b
      BY <2>1, <2>2
    <2>4. ASSUME NEW i \in 1..n PROVE h[i] = F[i][h[i - 1]]
      <3>1. h[i - 1] = g[i - 1]
        OBVIOUS
      <3>2. CASE i = n
        BY <3>1, <3>2
      <3>3. CASE i # n
        <4>1. i \in 1..(n - 1)
          BY <3>3
        <4> QED BY <2>1, <3>1, <3>3, <4>1
      <3> QED BY <3>2, <3>3
    <2>5. Upto(n, h)
      BY <2>3, <2>4
    <2> HIDE DEF h, Upto
    <2> QED BY <2>3, <2>5
  <1>3. N \in T
    <2>1. \A i \in 1..N : i - 1 \in T => i \in T
      BY <1>2
    <2> HIDE DEF T
    <2>2. \A i \in 0..N : i \in T
      BY <1>1, <2>1, Climb
    <2> QED BY <2>2
  <1>4. \E g \in [0..N -> S] : Upto(N, g)
    BY <1>3
  <1> QED BY <1>4 DEF IsRun

-----------------------------------------------------------------------------
(* What is assumed.                                                        *)

PollAssumed == SizeAssumption /\ PollAssumption

MbBlocks == [start : Nat, count : Nat \ {0}, kind : {"resp", "wide", "word"}, first : {"device", "function"}]

\* The assumptions, as they are used.
MbSizes ==
    /\ ReqSize \in Nat \ {0} /\ ExcSize \in Nat \ {0} /\ HeadSize \in Nat \ {0}
    /\ QueueLen \in Nat \ {0} /\ CacheMax \in Nat \ {0} /\ BufMax \in Nat \ {0}
    /\ Threshold \in Nat /\ ReqMaxAge \in Nat /\ LastReqMaxAge \in Nat /\ DupAge \in Nat
    /\ Gap \in Nat /\ StatusStart \in Nat
    /\ Len(Blocks) \in Nat \ {0} /\ DOMAIN Blocks = 1..Len(Blocks) /\ \A i \in 1..Len(Blocks) : Blocks[i] \in MbBlocks
    /\ Period \in Nat \ {0} /\ Device \in Nat \ {0} /\ PublishPeriod \in Nat \ {0, 1}
    /\ Delays \subseteq Nat /\ Delays # {} /\ MaxDelay \in Nat /\ (\A n \in Delays : n <= MaxDelay)
    /\ Stale \in Nat /\ MaxFaults \in Nat /\ MaxCuts \in Nat
    /\ Echo \in BOOLEAN /\ ClearsPacket \in BOOLEAN

LEMMA MostOf ==
    ASSUME NEW S \in SUBSET Nat, NEW f \in Seq(S), \A n \in S : \E i \in 1..Len(f) : f[i] = n, S # {}
    PROVE  \E m \in S : \A n \in S : n <= m
  <1>1. PICK N \in Nat : N = Len(f)
    OBVIOUS
  <1>2. f \in [1..N -> S] /\ \A n \in S : \E i \in 1..N : f[i] = n
    BY <1>1
  <1> DEFINE T == {i \in 0..N : \E m \in Nat : \A j \in 1..i : f[j] <= m}
  <1>3. 0 \in T
    OBVIOUS
  <1>4. ASSUME NEW i \in 1..N, i - 1 \in T PROVE i \in T
    <2>1. PICK m \in Nat : \A j \in 1..(i - 1) : f[j] <= m
      BY <1>4
    <2>2. f[i] \in Nat
      BY <1>2
    <2>3. PICK k \in Nat : k = m + f[i]
      BY <2>2
    <2>4. \A j \in 1..i : f[j] <= k
      <3>1. \A j \in 1..i : j = i \/ j \in 1..(i - 1)
        OBVIOUS
      <3>2. ASSUME NEW j \in 1..i PROVE f[j] \in Nat
        <4>1. j \in 1..N
          OBVIOUS
        <4> QED BY <1>2, <4>1
      <3> QED BY <2>1, <2>2, <2>3, <3>1, <3>2
    <2> QED BY <2>4
  <1>5. \A i \in 1..N : i - 1 \in T => i \in T
    BY <1>4
  <1> HIDE DEF T
  <1>6. N \in T
    <2>1. \A i \in 0..N : i \in T
      BY <1>3, <1>5, Climb
    <2> QED BY <2>1
  <1>7. PICK m \in Nat : \A j \in 1..N : f[j] <= m
    BY <1>6 DEF T
  <1>8. \A n \in S : n <= m
    BY <1>2, <1>7
  <1> DEFINE R == {m - n : n \in S}
  <1>9. R \in SUBSET Nat /\ R # {}
    <2>1. \A n \in S : m - n \in Nat
      BY <1>8
    <2>2. \E n \in S : TRUE
      OBVIOUS
    <2> QED BY <2>1, <2>2
  <1> HIDE DEF R
  <1>10. PICK l \in R : \A n \in R : l <= n
    BY <1>9, LeastNumber
  <1>11. PICK k \in S : l = m - k
    BY <1>10 DEF R
  <1>12. ASSUME NEW n \in S PROVE n <= k
    <2>1. l <= m - n
      BY <1>10 DEF R
    <2> QED BY <1>11, <2>1
  <1> QED BY <1>12

LEMMA MbDelayIs ==
    ASSUME PollAssumed
    PROVE  MaxDelay \in Nat /\ \A n \in Delays : n <= MaxDelay
  <1>1. Delays \in SUBSET Nat /\ IsFiniteSet(Delays) /\ Delays # {}
    BY DEF PollAssumed, PollAssumption
  <1>1a. PICK f \in Seq(Delays) : \A n \in Delays : \E i \in 1..Len(f) : f[i] = n
    BY <1>1 DEF IsFiniteSet
  <1>2. \E m \in Delays : \A n \in Delays : n <= m
    BY <1>1, <1>1a, MostOf
  <1> QED BY <1>1, <1>2 DEF MaxDelay

LEMMA MbSizesAre == PollAssumed => MbSizes
  <1> SUFFICES ASSUME PollAssumed PROVE MbSizes
    OBVIOUS
  <1>1. Blocks \in Seq(MbBlocks) /\ Blocks # <<>>
    BY DEF PollAssumed, PollAssumption, MbBlocks
  <1>2. Len(Blocks) \in Nat \ {0} /\ DOMAIN Blocks = 1..Len(Blocks) /\ \A i \in 1..Len(Blocks) : Blocks[i] \in MbBlocks
    BY <1>1
  <1>3. MaxDelay \in Nat /\ \A n \in Delays : n <= MaxDelay
    BY MbDelayIs
  <1> QED BY <1>2, <1>3 DEF PollAssumed, PollAssumption, SizeAssumption, MbSizes

MbOld == MaxAge

LEMMA MbOldIs ==
    ASSUME MbSizes
    PROVE  /\ MbOld \in Nat /\ Ages = 0..MbOld
           /\ MbOld >= Stale + PublishPeriod + Gap + 2 /\ MbOld >= ReqMaxAge + PublishPeriod + Gap + 2
  BY DEF MbSizes, MbOld, MaxAge, Ages

-----------------------------------------------------------------------------
(* What the decoder holds.                                                 *)

MbFrames ==
    [kind : {"req", "exc", "resp", "wide", "word", "noise"}, dev : Nat, start : Nat, count : Nat \ {0}, val : Nat,
     ok : BOOLEAN, first : {"device", "function"}, status : BOOLEAN]

MbBytes  == MbFrames \X (Nat \ {0})
MbReqs   == [dev : Nat, start : Nat, count : Nat, age : Ages]
MbValues == [reg : Nat, from : Nat, val : Nat, ok : BOOLEAN, age : Ages]

Single(c) == \A i, j \in 1..Len(c) : c[i].reg = c[j].reg => i = j

MbBufs   == {b \in Seq(MbBytes) : Len(b) <= BufMax}
MbQueues == {r \in Seq(MbReqs) : Len(r) <= QueueLen}
MbCaches == {c \in Seq(MbValues) : Len(c) <= CacheMax /\ Single(c)}

Decs == [buf : MbBufs, have : BOOLEAN, age : Ages, reqs : MbQueues, last : MbReqs, cache : MbCaches]

LEMMA DecPuts ==
    ASSUME NEW x \in Decs
    PROVE  /\ \A b \in MbBufs : [x EXCEPT !.buf = b] \in Decs
           /\ \A r \in MbQueues : [x EXCEPT !.reqs = r] \in Decs
           /\ \A c \in MbCaches : [x EXCEPT !.cache = c] \in Decs
           /\ \A l \in MbReqs : [x EXCEPT !.last = l] \in Decs
           /\ \A h \in BOOLEAN : [x EXCEPT !.have = h] \in Decs
           /\ \A a \in Ages : [x EXCEPT !.age = a] \in Decs
  BY DEF Decs

LEMMA MbSizeIs ==
    ASSUME MbSizes, NEW f \in MbFrames
    PROVE  Size(f) \in Nat \ {0}
  <1>1. f.kind \in {"req", "exc", "resp", "wide", "word", "noise"} /\ f.count \in Nat \ {0}
    BY DEF MbFrames
  <1>2. CASE f.kind = "req"
    BY <1>2 DEF MbSizes, Size
  <1>3. CASE f.kind = "exc"
    BY <1>3 DEF MbSizes, Size
  <1>4. CASE f.kind = "resp"
    <2>1. Size(f) = HeadSize + f.count
      BY <1>4 DEF Size
    <2> QED BY <1>1, <2>1 DEF MbSizes
  <1>5. CASE f.kind \in {"wide", "word"}
    <2>1. Size(f) = HeadSize + 1 + f.count
      BY <1>5 DEF Size
    <2> QED BY <1>1, <2>1 DEF MbSizes
  <1>6. CASE f.kind = "noise"
    BY <1>6 DEF Size
  <1> QED BY <1>1, <1>2, <1>3, <1>4, <1>5, <1>6

-----------------------------------------------------------------------------
(* The queue of requests.                                                  *)

\* The oldest first; and none younger than a.
OldFirst(r) == \A i, j \in 1..Len(r) : i < j => r[i].age >= r[j].age
NotYounger(r, a) == \A i \in 1..Len(r) : r[i].age >= a

\* What pruning leaves.
Pruned(r, from, q) ==
    /\ q \in Seq(MbReqs) /\ Len(q) <= Len(r)
    /\ \A j \in 1..Len(q) : \E i \in 1..Len(r) : q[j] = r[i] /\ r[i].age - from <= ReqMaxAge
    /\ OldFirst(r) => OldFirst(q)
    /\ Len(r) > 0 /\ r[Len(r)].age - from <= ReqMaxAge => Len(q) > 0 /\ q[Len(q)] = r[Len(r)]

PruneTo(r, from, n, q) ==
    /\ q \in Seq(MbReqs) /\ Len(q) <= n
    /\ \A j \in 1..Len(q) : \E i \in 1..n : q[j] = r[i] /\ r[i].age - from <= ReqMaxAge
    /\ OldFirst(r) => OldFirst(q)
    /\ n > 0 /\ r[n].age - from <= ReqMaxAge => Len(q) > 0 /\ q[Len(q)] = r[n]

PruneNext(r, from, n, q) == IF r[n].age - from <= ReqMaxAge THEN Append(q, r[n]) ELSE q

LEMMA PruneGoes ==
    ASSUME MbSizes, NEW r \in Seq(MbReqs), NEW from \in Int, NEW n \in 1..Len(r), NEW q, PruneTo(r, from, n - 1, q)
    PROVE  PruneTo(r, from, n, PruneNext(r, from, n, q))
  <1> DEFINE p == PruneNext(r, from, n, q)
  <1>1. q \in Seq(MbReqs) /\ Len(q) \in Nat /\ Len(q) <= n - 1 /\ r[n] \in MbReqs /\ Len(r) \in Nat
    BY DEF PruneTo
  <1>2. CASE ~(r[n].age - from <= ReqMaxAge)
    <2>1. p = q
      BY <1>2 DEF PruneNext
    <2>2. \A j \in 1..Len(q) : \E i \in 1..n : q[j] = r[i] /\ r[i].age - from <= ReqMaxAge
      BY DEF PruneTo
    <2> QED BY <1>1, <1>2, <2>1, <2>2 DEF PruneTo
  <1>3. CASE r[n].age - from <= ReqMaxAge
    <2>1. p = Append(q, r[n])
      BY <1>3 DEF PruneNext
    <2>2. /\ p \in Seq(MbReqs) /\ Len(p) = Len(q) + 1 /\ p[Len(p)] = r[n]
          /\ \A j \in 1..Len(q) : p[j] = q[j]
      BY <1>1, <2>1
    <2> HIDE DEF p
    <2>3. ASSUME NEW j \in 1..Len(p) PROVE \E i \in 1..n : p[j] = r[i] /\ r[i].age - from <= ReqMaxAge
      <3>1. CASE j = Len(p)
        BY <1>3, <2>2, <3>1
      <3>2. CASE j # Len(p)
        <4>1. j \in 1..Len(q) /\ p[j] = q[j]
          BY <1>1, <2>2, <3>2
        <4> QED BY <4>1 DEF PruneTo
      <3> QED BY <3>1, <3>2
    <2>4. ASSUME OldFirst(r), NEW i \in 1..Len(p), NEW j \in 1..Len(p), i < j PROVE p[i].age >= p[j].age
      <3>1. i \in 1..Len(q) /\ p[i] = q[i]
        BY <1>1, <2>2, <2>4
      <3>2. PICK k \in 1..(n - 1) : q[i] = r[k]
        BY <3>1 DEF PruneTo
      <3>3. CASE j = Len(p)
        BY <2>2, <2>4, <3>1, <3>2, <3>3 DEF OldFirst
      <3>4. CASE j # Len(p)
        <4>1. j \in 1..Len(q) /\ p[j] = q[j] /\ OldFirst(q)
          BY <1>1, <2>2, <2>4, <3>4 DEF PruneTo
        <4> QED BY <2>4, <3>1, <4>1 DEF OldFirst
      <3> QED BY <3>3, <3>4
    <2>5. OldFirst(r) => OldFirst(p)
      BY <2>4 DEF OldFirst
    <2> QED BY <1>1, <2>2, <2>3, <2>5 DEF PruneTo, p
  <1> QED BY <1>2, <1>3

LEMMA PruneIs ==
    ASSUME MbSizes, NEW r \in Seq(MbReqs), NEW from \in Int
    PROVE  Pruned(r, from, Prune(r, from))
  <1> DEFINE N     == Len(r)
             S     == Seq(MbReqs)
             F     == [n \in 1..N |-> [x \in S |-> PruneNext(r, from, n, x)]]
             Eq(g) == g = [n \in 0..N |-> IF n = 0 THEN <<>> ELSE IF r[n].age - from <= ReqMaxAge
                                          THEN Append(g[n - 1], r[n]) ELSE g[n - 1]]
             f     == CHOOSE g : Eq(g)
  <1>0. N \in Nat /\ <<>> \in S
    OBVIOUS
  <1>1. F \in Moves(S, N)
    <2>1. ASSUME NEW n \in 1..N, NEW x \in S PROVE PruneNext(r, from, n, x) \in S
      BY DEF PruneNext
    <2> HIDE DEF S
    <2> QED BY <2>1 DEF Moves
  <1>2. \A n \in 1..N : \A x \in S : F[n][x] = PruneNext(r, from, n, x)
    OBVIOUS
  <1> HIDE DEF F, S
  <1>3. PICK g : IsRun(g, S, N, <<>>, F)
    BY <1>0, <1>1, IterExists
  <1>4. Eq(g)
    <2>1. \A n \in 0..N : g[n] = IF n = 0 THEN <<>> ELSE PruneNext(r, from, n, g[n - 1])
      BY <1>2, <1>3 DEF IsRun
    <2> QED BY <2>1, <1>3 DEF IsRun, PruneNext
  <1>5. Eq(f)
    <2> HIDE DEF Eq
    <2> QED BY <1>4
  <1>6. Prune(r, from) = f[N]
    BY DEF Prune
  <1> HIDE DEF f
  <1>7. f[0] = <<>> /\ \A n \in 1..N : f[n] = PruneNext(r, from, n, f[n - 1])
    <2>1. \A n \in 0..N : f[n] = IF n = 0 THEN <<>> ELSE PruneNext(r, from, n, f[n - 1])
      BY <1>5 DEF PruneNext
    <2> HIDE DEF Eq
    <2>2. 0 \in 0..N /\ \A n \in 1..N : n \in 0..N /\ n # 0
      BY <1>0
    <2> QED BY <2>1, <2>2
  <1> DEFINE T == {n \in 0..N : PruneTo(r, from, n, f[n])}
  <1>8. 0 \in T
    <2>1. <<>> \in Seq(MbReqs) /\ Len(<<>>) = 0 /\ OldFirst(<<>>) /\ 0 \in 0..N
      BY <1>0 DEF OldFirst
    <2>2. PruneTo(r, from, 0, <<>>)
      BY <2>1 DEF PruneTo
    <2> QED BY <1>7, <2>1, <2>2
  <1>9. ASSUME NEW i \in 1..N, i - 1 \in T PROVE i \in T
    <2>1. PruneTo(r, from, i - 1, f[i - 1])
      BY <1>9
    <2>2. PruneTo(r, from, i, PruneNext(r, from, i, f[i - 1]))
      BY <2>1, PruneGoes
    <2> QED BY <2>2, <1>7, <1>0
  <1>9a. \A i \in 1..N : i - 1 \in T => i \in T
    BY <1>9
  <1> HIDE DEF T, N
  <1>10. N \in T
    <2>1. \A i \in 0..N : i \in T
      BY <1>0, <1>8, <1>9a, Climb
    <2> QED BY <1>0, <2>1
  <1>11. PruneTo(r, from, N, f[N])
    BY <1>10 DEF T
  <1> QED BY <1>6, <1>11 DEF PruneTo, Pruned, N

\* If the last one is too old, all are.
LEMMA PrunedAll ==
    ASSUME MbSizes, NEW r \in Seq(MbReqs), NEW from \in Int, NEW q, Pruned(r, from, q), OldFirst(r), Len(r) > 0,
           ~(r[Len(r)].age - from <= ReqMaxAge)
    PROVE  q = <<>>
  <1>1. q \in Seq(MbReqs) /\ Len(q) \in Nat /\ Len(r) \in Nat
    BY DEF Pruned
  <1>2. ASSUME Len(q) > 0 PROVE FALSE
    <2>1. 1 \in 1..Len(q)
      BY <1>1, <1>2
    <2>2. PICK i \in 1..Len(r) : r[i].age - from <= ReqMaxAge
      BY <2>1 DEF Pruned
    <2>3. r[i] \in MbReqs /\ r[Len(r)] \in MbReqs /\ r[i].age \in Int /\ r[Len(r)].age \in Int
      <3>1. r[i] \in MbReqs /\ r[Len(r)] \in MbReqs
        BY <1>1
      <3>2. \A x \in Ages : x \in Int
        BY MbOldIs
      <3> QED BY <3>1, <3>2 DEF MbReqs
    <2>4. r[i].age >= r[Len(r)].age
      <3>1. CASE i = Len(r)
        BY <2>3, <3>1
      <3>2. CASE i # Len(r)
        BY <1>1, <3>2 DEF OldFirst
      <3> QED BY <3>1, <3>2
    <2> QED BY <2>2, <2>3, <2>4 DEF MbSizes
  <1> QED BY <1>1, <1>2

LEMMA PrunedYounger ==
    ASSUME MbSizes, NEW r \in Seq(MbReqs), NEW from, NEW q, Pruned(r, from, q), NEW a, NotYounger(r, a)
    PROVE  NotYounger(q, a)
  BY DEF Pruned, NotYounger


LEMMA TailKeeps ==
    ASSUME NEW s \in Seq(MbReqs), Len(s) > 0
    PROVE  /\ Tail(s) \in Seq(MbReqs) /\ Len(Tail(s)) = Len(s) - 1
           /\ OldFirst(s) => OldFirst(Tail(s))
           /\ \A a : NotYounger(s, a) => NotYounger(Tail(s), a)
  <1>1. /\ Len(s) \in Nat /\ Tail(s) \in Seq(MbReqs) /\ Len(Tail(s)) = Len(s) - 1
        /\ \A i \in 1..(Len(s) - 1) : Tail(s)[i] = s[i + 1]
    BY SMT
  <1>2. OldFirst(s) => OldFirst(Tail(s))
    BY <1>1 DEF OldFirst
  <1>3. \A a : NotYounger(s, a) => NotYounger(Tail(s), a)
    BY <1>1 DEF NotYounger
  <1> QED BY <1>1, <1>2, <1>3

LEMMA RequestAdded ==
    ASSUME NEW s \in Seq(MbReqs), NEW r \in MbReqs
    PROVE  /\ Append(s, r) \in Seq(MbReqs) /\ Len(Append(s, r)) = Len(s) + 1
           /\ Append(s, r)[Len(s) + 1] = r
           /\ OldFirst(s) /\ NotYounger(s, r.age) => OldFirst(Append(s, r))
           /\ \A a : NotYounger(s, a) /\ r.age >= a => NotYounger(Append(s, r), a)
  <1> DEFINE p == Append(s, r)
  <1>1. /\ Len(s) \in Nat /\ p \in Seq(MbReqs) /\ Len(p) = Len(s) + 1 /\ p[Len(s) + 1] = r
        /\ \A i \in 1..Len(s) : p[i] = s[i]
    OBVIOUS
  <1> HIDE DEF p
  <1>2. ASSUME OldFirst(s), NotYounger(s, r.age) PROVE OldFirst(p)
    <2>1. ASSUME NEW i \in 1..Len(p), NEW j \in 1..Len(p), i < j PROVE p[i].age >= p[j].age
      <3>1. i \in 1..Len(s) /\ p[i] = s[i]
        BY <1>1, <2>1
      <3>2. CASE j = Len(s) + 1
        BY <1>1, <1>2, <3>1, <3>2 DEF NotYounger
      <3>3. CASE j # Len(s) + 1
        <4>1. j \in 1..Len(s) /\ p[j] = s[j]
          BY <1>1, <3>3
        <4> QED BY <1>2, <2>1, <3>1, <4>1 DEF OldFirst
      <3> QED BY <3>2, <3>3
    <2> QED BY <2>1 DEF OldFirst
  <1>3. ASSUME NEW a, NotYounger(s, a), r.age >= a PROVE NotYounger(p, a)
    <2>1. ASSUME NEW i \in 1..Len(p) PROVE p[i].age >= a
      <3>1. CASE i = Len(s) + 1
        BY <1>1, <1>3, <3>1
      <3>2. CASE i # Len(s) + 1
        <4>1. i \in 1..Len(s) /\ p[i] = s[i]
          BY <1>1, <3>2
        <4> QED BY <1>3, <4>1 DEF NotYounger
      <3> QED BY <3>1, <3>2
    <2> QED BY <2>1 DEF NotYounger
  <1> QED BY <1>1, <1>2, <1>3 DEF p

\* What the queue is after a request.
Pushed(reqs, r, q) ==
    /\ q \in MbQueues /\ Len(q) > 0 /\ SameReq(q[Len(q)], r)
    /\ OldFirst(reqs) /\ NotYounger(reqs, r.age) => OldFirst(q)
    /\ \A a : NotYounger(reqs, a) /\ r.age >= a => NotYounger(q, a)

LEMMA PushIs ==
    ASSUME MbSizes, NEW reqs \in MbQueues, NEW r \in MbReqs, NEW from \in Int
    PROVE  Pushed(reqs, r, Push(reqs, r, from))
  <1>1. PICK open : open = Prune(reqs, from)
    OBVIOUS
  <1>2. Pruned(reqs, from, open) /\ reqs \in Seq(MbReqs) /\ Len(reqs) <= QueueLen
    BY <1>1, PruneIs DEF MbQueues
  <1>3. open \in Seq(MbReqs) /\ Len(open) <= QueueLen /\ Len(open) \in Nat /\ QueueLen \in Nat \ {0} /\ Len(reqs) \in Nat
    BY <1>2 DEF Pruned, MbSizes
  <1>4. (OldFirst(reqs) => OldFirst(open)) /\ \A a : NotYounger(reqs, a) => NotYounger(open, a)
    BY <1>2, PrunedYounger DEF Pruned
  <1>5. PICK room : room = IF Len(open) >= QueueLen THEN Tail(open) ELSE open
    OBVIOUS
  <1>6. PICK q : q = Push(reqs, r, from)
    OBVIOUS
  <1>7. \/ open # <<>> /\ SameReq(open[Len(open)], r) /\ q = open
        \/ q = Append(room, r)
    BY <1>1, <1>5, <1>6 DEF Push, Last
  <1>8. /\ room \in Seq(MbReqs) /\ Len(room) \in Nat /\ Len(room) + 1 <= QueueLen
        /\ OldFirst(open) => OldFirst(room)
        /\ \A a : NotYounger(open, a) => NotYounger(room, a)
    <2>1. CASE Len(open) >= QueueLen
      <3>1. room = Tail(open) /\ Len(open) > 0
        BY <1>3, <1>5, <2>1
      <3>2. /\ Tail(open) \in Seq(MbReqs) /\ Len(Tail(open)) = Len(open) - 1
            /\ OldFirst(open) => OldFirst(Tail(open))
            /\ \A a : NotYounger(open, a) => NotYounger(Tail(open), a)
        BY <1>3, <3>1, TailKeeps
      <3> QED BY <1>3, <3>1, <3>2
    <2>2. CASE ~(Len(open) >= QueueLen)
      BY <1>3, <1>5, <2>2
    <2> QED BY <2>1, <2>2
  <1>9. CASE open # <<>> /\ SameReq(open[Len(open)], r) /\ q = open
    <2>1. Len(open) > 0
      BY <1>3, <1>9
    <2> QED BY <1>3, <1>4, <1>6, <1>9, <2>1 DEF Pushed, MbQueues
  <1>10. CASE q = Append(room, r)
    <2>1. /\ q \in Seq(MbReqs) /\ Len(q) = Len(room) + 1 /\ q[Len(room) + 1] = r
          /\ OldFirst(room) /\ NotYounger(room, r.age) => OldFirst(q)
          /\ \A a : NotYounger(room, a) /\ r.age >= a => NotYounger(q, a)
      BY <1>8, <1>10, RequestAdded
    <2>2. SameReq(q[Len(q)], r)
      BY <2>1 DEF SameReq
    <2>3. OldFirst(reqs) /\ NotYounger(reqs, r.age) => OldFirst(q)
      BY <1>4, <1>8, <2>1
    <2>4. \A a : NotYounger(reqs, a) /\ r.age >= a => NotYounger(q, a)
      BY <1>4, <1>8, <2>1
    <2>5. q \in MbQueues /\ Len(q) > 0
      BY <1>3, <1>8, <2>1 DEF MbQueues
    <2> QED BY <1>6, <2>2, <2>3, <2>4, <2>5 DEF Pushed
  <1> QED BY <1>7, <1>9, <1>10

\* A request that was answered is taken out.
LEMMA RequestTaken ==
    ASSUME MbSizes, NEW s \in MbQueues, NEW k \in 1..Len(s)
    PROVE  /\ RemoveAt(s, k) \in MbQueues
           /\ OldFirst(s) => OldFirst(RemoveAt(s, k))
           /\ \A a : NotYounger(s, a) => NotYounger(RemoveAt(s, k), a)
  <1>1. PICK p : p = RemoveAt(s, k)
    OBVIOUS
  <1>2. s \in Seq(MbReqs) /\ Len(s) \in Nat /\ Len(s) <= QueueLen
    BY DEF MbQueues
  <1>3. PICK u : u = SubSeq(s, 1, k - 1)
    OBVIOUS
  <1>4. PICK v : v = SubSeq(s, k + 1, Len(s))
    OBVIOUS
  <1>3a. u \in Seq(MbReqs) /\ Len(u) = k - 1 /\ \A i \in 1..(k - 1) : u[i] = s[i]
    BY <1>2, <1>3
  <1>4a. v \in Seq(MbReqs) /\ Len(v) = Len(s) - k /\ \A i \in 1..(Len(s) - k) : v[i] = s[k + i]
    BY <1>2, <1>4
  <1>5. p = u \o v
    BY <1>1, <1>3, <1>4 DEF RemoveAt
  <1>6. p \in Seq(MbReqs) /\ Len(p) = Len(s) - 1
    BY <1>2, <1>3a, <1>4a, <1>5
  <1>7. \A i \in 1..(Len(s) - 1) : p[i] = IF i < k THEN s[i] ELSE s[i + 1]
    <2> SUFFICES ASSUME NEW i \in 1..(Len(s) - 1) PROVE p[i] = IF i < k THEN s[i] ELSE s[i + 1]
      OBVIOUS
    <2>1. CASE i < k
      <3>1. i \in 1..(k - 1) /\ p[i] = u[i]
        BY <1>2, <1>3a, <1>4a, <1>5, <2>1
      <3> QED BY <1>3a, <2>1, <3>1
    <2>2. CASE ~(i < k)
      <3>1. i - (k - 1) \in 1..(Len(s) - k) /\ k + (i - (k - 1)) = i + 1
        BY <1>2, <2>2
      <3>2. p[i] = v[i - (k - 1)]
        BY <1>2, <1>3a, <1>4a, <1>5, <2>2
      <3>3. v[i - (k - 1)] = s[i + 1]
        BY <1>4a, <3>1
      <3> QED BY <2>2, <3>2, <3>3
    <2> QED BY <2>1, <2>2
  <1>8. p \in MbQueues
    <2>1. Len(s) - 1 <= QueueLen
      BY <1>2 DEF MbSizes
    <2> QED BY <1>6, <2>1 DEF MbQueues
  <1>9. OldFirst(s) => OldFirst(p)
    BY <1>2, <1>6, <1>7 DEF OldFirst
  <1>10. \A a : NotYounger(s, a) => NotYounger(p, a)
    BY <1>2, <1>6, <1>7 DEF NotYounger
  <1> QED BY <1>1, <1>8, <1>9, <1>10

-----------------------------------------------------------------------------
(* The cache.                                                              *)

\* Every value is of the register it is kept for; none is younger than a.
OfItself(c) == \A i \in 1..Len(c) : c[i].from = c[i].reg
Past(c, a)  == \A i \in 1..Len(c) : c[i].age >= a

LEMMA EldestIs ==
    ASSUME MbSizes, NEW c \in Seq(MbValues), Len(c) > 0
    PROVE  Eldest(c) \in 1..Len(c)
  <1>1. Len(c) \in Nat /\ DOMAIN c = 1..Len(c) /\ \A i \in 1..Len(c) : c[i].age \in 0..MbOld
    <2>1. \A i \in 1..Len(c) : c[i] \in MbValues
      OBVIOUS
    <2>2. \A i \in 1..Len(c) : c[i].age \in Ages
      BY <2>1 DEF MbValues
    <2> QED BY <2>2, MbOldIs
  <1>2. MbOld \in Nat
    BY MbOldIs
  <1> DEFINE A == {MbOld - c[i].age : i \in 1..Len(c)}
  <1>3. A \in SUBSET Nat /\ A # {}
    BY <1>1, <1>2
  <1> HIDE DEF A
  <1>4. PICK m \in A : \A n \in A : m <= n
    BY <1>3, LeastNumber
  <1> DEFINE B == {i \in 1..Len(c) : MbOld - c[i].age = m}
  <1>5. B \in SUBSET Nat /\ B # {}
    BY <1>4 DEF A
  <1> HIDE DEF B
  <1>6. PICK k \in B : \A n \in B : k <= n
    BY <1>5, LeastNumber
  <1>7. k \in 1..Len(c) /\ MbOld - c[k].age = m
    BY <1>6 DEF B
  <1>8. ASSUME NEW j \in 1..Len(c) PROVE c[j].age < c[k].age \/ (c[j].age = c[k].age /\ k <= j)
    <2>1. m <= MbOld - c[j].age
      BY <1>4 DEF A
    <2>2. c[j].age = c[k].age => j \in B
      BY <1>7 DEF B
    <2>3. c[j].age = c[k].age => k <= j
      BY <1>6, <2>2
    <2> QED BY <1>1, <1>2, <1>7, <2>1, <2>3
  <1> DEFINE P(i) == \A j \in DOMAIN c : c[j].age < c[i].age \/ (c[j].age = c[i].age /\ i <= j)
  <1>9. k \in DOMAIN c /\ P(k)
    BY <1>1, <1>7, <1>8
  <1>10. Eldest(c) = CHOOSE i \in DOMAIN c : P(i)
    BY DEF Eldest
  <1> HIDE DEF P
  <1> QED BY <1>1, <1>9, <1>10

\* What the cache is when a value is stored.
Stored(c, e, y) ==
    /\ y \in MbCaches
    /\ OfItself(c) /\ e.from = e.reg => OfItself(y)
    /\ \A a : Past(c, a) /\ e.age >= a => Past(y, a)

LEMMA PutAt ==
    ASSUME MbSizes, NEW c \in MbCaches, NEW e \in MbValues, NEW k \in 1..Len(c),
           \A i \in 1..Len(c) : c[i].reg = e.reg => i = k
    PROVE  Stored(c, e, [c EXCEPT ![k] = e])
  <1> DEFINE y == [c EXCEPT ![k] = e]
  <1>1. c \in Seq(MbValues) /\ Len(c) \in Nat /\ Len(c) <= CacheMax /\ Single(c)
    BY DEF MbCaches
  <1>2. y \in Seq(MbValues) /\ Len(y) = Len(c) /\ \A i \in 1..Len(c) : y[i] = IF i = k THEN e ELSE c[i]
    BY <1>1
  <1> HIDE DEF y
  <1>3. Single(y)
    <2> SUFFICES ASSUME NEW i \in 1..Len(c), NEW j \in 1..Len(c), y[i].reg = y[j].reg PROVE i = j
      BY <1>2 DEF Single
    <2>1. CASE i = k
      BY <1>2, <2>1
    <2>2. CASE j = k
      BY <1>2, <2>2
    <2>3. CASE i # k /\ j # k
      BY <1>1, <1>2, <2>3 DEF Single
    <2> QED BY <2>1, <2>2, <2>3
  <1>4. OfItself(c) /\ e.from = e.reg => OfItself(y)
    BY <1>2 DEF OfItself
  <1>5. \A a : Past(c, a) /\ e.age >= a => Past(y, a)
    BY <1>2 DEF Past
  <1>6. y \in MbCaches
    BY <1>1, <1>2, <1>3 DEF MbCaches
  <1> QED BY <1>4, <1>5, <1>6 DEF Stored, y

LEMMA PutNew ==
    ASSUME MbSizes, NEW c \in MbCaches, NEW e \in MbValues, Len(c) < CacheMax, \A i \in 1..Len(c) : c[i].reg # e.reg
    PROVE  Stored(c, e, Append(c, e))
  <1> DEFINE y == Append(c, e)
  <1>1. c \in Seq(MbValues) /\ Len(c) \in Nat /\ Single(c) /\ CacheMax \in Nat
    BY DEF MbCaches, MbSizes
  <1>2. /\ y \in Seq(MbValues) /\ Len(y) = Len(c) + 1 /\ y[Len(c) + 1] = e
        /\ \A i \in 1..Len(c) : y[i] = c[i]
    BY <1>1
  <1> HIDE DEF y
  <1>2a. \A i \in 1..Len(y) : i = Len(c) + 1 \/ i \in 1..Len(c)
    BY <1>1, <1>2
  <1>3. Single(y)
    <2> SUFFICES ASSUME NEW i \in 1..Len(y), NEW j \in 1..Len(y), y[i].reg = y[j].reg PROVE i = j
      BY DEF Single
    <2>1. CASE i = Len(c) + 1 \/ j = Len(c) + 1
      BY <1>2, <1>2a, <2>1
    <2>2. CASE i \in 1..Len(c) /\ j \in 1..Len(c)
      BY <1>1, <1>2, <2>2 DEF Single
    <2> QED BY <1>2a, <2>1, <2>2
  <1>4. OfItself(c) /\ e.from = e.reg => OfItself(y)
    BY <1>2, <1>2a DEF OfItself
  <1>5. \A a : Past(c, a) /\ e.age >= a => Past(y, a)
    BY <1>2, <1>2a DEF Past
  <1>6. y \in MbCaches
    BY <1>1, <1>2, <1>3 DEF MbCaches
  <1> QED BY <1>4, <1>5, <1>6 DEF Stored, y

LEMMA StoreIs ==
    ASSUME MbSizes, NEW c \in MbCaches, NEW e \in MbValues
    PROVE  Stored(c, e, CacheStore(c, e))
  <1>1. c \in Seq(MbValues) /\ Len(c) \in Nat /\ DOMAIN c = 1..Len(c) /\ Single(c) /\ Len(c) <= CacheMax
    BY DEF MbCaches
  <1>2. PICK p : p = Place(c, e.reg)
    OBVIOUS
  <1>3. p = {i \in 1..Len(c) : c[i].reg = e.reg}
    BY <1>1, <1>2 DEF Place
  <1>4. CASE p # {}
    <2>1. PICK k : k = CHOOSE i \in p : TRUE
      OBVIOUS
    <2>2. k \in p
      BY <1>4, <2>1
    <2>3. k \in 1..Len(c) /\ \A i \in 1..Len(c) : c[i].reg = e.reg => i = k
      BY <1>1, <1>3, <2>2 DEF Single
    <2>4. CacheStore(c, e) = [c EXCEPT ![k] = e]
      BY <1>2, <1>4, <2>1 DEF CacheStore
    <2> QED BY <2>3, <2>4, PutAt
  <1>5. CASE p = {} /\ Len(c) < CacheMax
    <2>1. CacheStore(c, e) = Append(c, e)
      BY <1>2, <1>5 DEF CacheStore
    <2>2. \A i \in 1..Len(c) : c[i].reg # e.reg
      BY <1>3, <1>5
    <2> QED BY <1>5, <2>1, <2>2, PutNew
  <1>6. CASE p = {} /\ ~(Len(c) < CacheMax)
    <2>1. PICK k : k = Eldest(c)
      OBVIOUS
    <2>2. CacheStore(c, e) = [c EXCEPT ![k] = e]
      BY <1>2, <1>6, <2>1 DEF CacheStore
    <2>3. Len(c) > 0
      BY <1>1, <1>6 DEF MbSizes
    <2>4. k \in 1..Len(c)
      BY <1>1, <2>1, <2>3, EldestIs
    <2>5. \A i \in 1..Len(c) : c[i].reg = e.reg => i = k
      BY <1>3, <1>6
    <2> QED BY <2>2, <2>4, <2>5, PutAt
  <1> QED BY <1>4, <1>5, <1>6


-----------------------------------------------------------------------------
(* What a frame makes of the decoder.                                      *)

\* What the cache is when the registers of an answer are stored.
AllStored(x, f, start, c) ==
    /\ c \in MbCaches
    /\ OfItself(x.cache) /\ start = f.start => OfItself(c)
    /\ \A a : Past(x.cache, a) /\ x.age >= a => Past(c, a)

Register(x, f, start, i) ==
    [reg |-> start + i - 1, from |-> f.start + i - 1, val |-> f.val, ok |-> f.ok, age |-> x.age]

LEMMA RegisterIs ==
    ASSUME NEW x \in Decs, NEW f \in MbFrames, NEW start \in Nat, NEW i \in Nat, i >= 1
    PROVE  /\ Register(x, f, start, i) \in MbValues /\ Register(x, f, start, i).age = x.age
           /\ start = f.start => Register(x, f, start, i).from = Register(x, f, start, i).reg
  <1>1. f.start \in Nat /\ f.val \in Nat /\ f.ok \in BOOLEAN /\ x.age \in Ages
    BY DEF MbFrames, Decs
  <1>2. start + i - 1 \in Nat /\ f.start + i - 1 \in Nat
    BY <1>1
  <1> QED BY <1>1, <1>2 DEF Register, MbValues

LEMMA StoreAllIs ==
    ASSUME MbSizes, NEW x \in Decs, NEW f \in MbFrames, NEW start \in Nat
    PROVE  \E c : AllStored(x, f, start, c) /\ StoreAll(x, f, start) = [x EXCEPT !.cache = c]
  <1> DEFINE N     == f.count
             S     == MbCaches
             b     == x.cache
             F     == [n \in 1..N |-> [c \in S |-> CacheStore(c, Register(x, f, start, n))]]
             Eq(g) == g = [n \in 0..N |-> IF n = 0 THEN b ELSE
                              CacheStore(g[n - 1], [reg |-> start + n - 1, from |-> f.start + n - 1,
                                                           val |-> f.val, ok |-> f.ok, age |-> x.age])]
             h     == CHOOSE g : Eq(g)
  <1>0. N \in Nat /\ b \in S
    BY DEF MbFrames, Decs
  <1>1. F \in Moves(S, N)
    <2>1. ASSUME NEW n \in 1..N, NEW c \in S PROVE CacheStore(c, Register(x, f, start, n)) \in S
      <3>1. n \in Nat /\ n >= 1
        BY <1>0
      <3> QED BY <3>1, StoreIs, RegisterIs DEF Stored
    <2> HIDE DEF S
    <2> QED BY <2>1 DEF Moves
  <1>2. \A n \in 1..N : \A c \in S : F[n][c] = CacheStore(c, Register(x, f, start, n))
    OBVIOUS
  <1> HIDE DEF F, S, b
  <1>3. PICK g : IsRun(g, S, N, b, F)
    BY <1>0, <1>1, IterExists
  <1>4. Eq(g)
    <2>1. ASSUME NEW n \in 1..N PROVE g[n] = CacheStore(g[n - 1], Register(x, f, start, n))
      <3>1. g[n - 1] \in S /\ g[n] = F[n][g[n - 1]]
        BY <1>0, <1>3 DEF IsRun
      <3> QED BY <1>2, <3>1
    <2>2. g \in [0..N -> S] /\ g[0] = b
      BY <1>3 DEF IsRun
    <2>3. \A n \in 0..N : n # 0 => n \in 1..N
      BY <1>0
    <2> QED BY <2>1, <2>2, <2>3 DEF Register
  <1>5. Eq(h)
    <2> HIDE DEF Eq
    <2> QED BY <1>4
  <1>6. StoreAll(x, f, start) = [x EXCEPT !.cache = h[N]]
    BY DEF StoreAll, b
  <1> HIDE DEF h
  <1>7. h[0] = b /\ \A n \in 1..N : h[n] = CacheStore(h[n - 1], Register(x, f, start, n))
    <2>1. \A n \in 0..N : h[n] = IF n = 0 THEN b ELSE CacheStore(h[n - 1], Register(x, f, start, n))
      BY <1>5 DEF Register
    <2> HIDE DEF Eq
    <2>2. 0 \in 0..N /\ \A n \in 1..N : n \in 0..N /\ n # 0
      BY <1>0
    <2> QED BY <2>1, <2>2
  <1> DEFINE T == {n \in 0..N : AllStored(x, f, start, h[n])}
  <1>8. 0 \in T
    BY <1>0, <1>7 DEF AllStored, S, b
  <1>9. ASSUME NEW i \in 1..N, i - 1 \in T PROVE i \in T
    <2>1. AllStored(x, f, start, h[i - 1]) /\ i \in 0..N
      BY <1>0, <1>9
    <2>2. i \in Nat /\ i >= 1
      BY <1>0
    <2>3. PICK e \in MbValues : /\ e = Register(x, f, start, i) /\ e.age = x.age
                                /\ start = f.start => e.from = e.reg
      BY <2>2, RegisterIs
    <2>4. PICK c \in MbCaches : c = h[i - 1]
      BY <2>1 DEF AllStored
    <2>5. Stored(c, e, CacheStore(c, e))
      BY StoreIs
    <2>6. AllStored(x, f, start, CacheStore(c, e))
      BY <2>1, <2>3, <2>4, <2>5 DEF AllStored, Stored
    <2> QED BY <1>7, <2>1, <2>3, <2>4, <2>6
  <1>9a. \A i \in 1..N : i - 1 \in T => i \in T
    BY <1>9
  <1> HIDE DEF T, N
  <1>10. N \in T
    <2>1. \A i \in 0..N : i \in T
      BY <1>0, <1>8, <1>9a, Climb
    <2> QED BY <1>0, <2>1
  <1> QED BY <1>6, <1>10 DEF T

LEMMA NewestIs ==
    ASSUME NEW n \in Nat, NEW s \in SUBSET (1..n), s # {}
    PROVE  Newest(s) \in s /\ \A j \in s : j <= Newest(s)
  <1> DEFINE A == {n - i : i \in s}
  <1>0. \A i \in s : i \in Nat /\ n - i \in Nat
    OBVIOUS
  <1>1. A \in SUBSET Nat /\ A # {}
    BY <1>0
  <1> HIDE DEF A
  <1>2. PICK m \in A : \A k \in A : m <= k
    BY <1>1, LeastNumber
  <1>3. PICK i \in s : m = n - i
    BY <1>2 DEF A
  <1>4. ASSUME NEW j \in s PROVE j <= i
    <2>1. m <= n - j
      BY <1>2 DEF A
    <2> QED BY <1>0, <1>3, <2>1
  <1> QED BY <1>4 DEF Newest

LEMMA OldestIs ==
    ASSUME NEW n \in Nat, NEW s \in SUBSET (1..n), s # {}
    PROVE  Oldest(s) \in s
  <1>1. s \in SUBSET Nat
    OBVIOUS
  <1>2. \E i \in s : \A j \in s : i <= j
    BY <1>1, LeastNumber
  <1> QED BY <1>2 DEF Oldest

\* A frame of the request r; the last request is open; the requests are in order.
Own(f, r)  == f.dev = r.dev /\ f.start = r.start /\ f.count = r.count /\ (f.status => f.start = StatusStart)
Ours(x)    == Len(x.reqs) > 0 /\ SameReq(x.reqs[Len(x.reqs)], x.last)
InOrder(x) == OldFirst(x.reqs) /\ NotYounger(x.reqs, x.age) /\ x.last.age >= x.age

Moved(x, y) ==
    /\ y \in Decs /\ y.buf = x.buf /\ y.have = x.have /\ y.age = x.age
    /\ InOrder(x) => InOrder(y)
    /\ \A a : Past(x.cache, a) /\ x.age >= a => Past(y.cache, a)

LEMMA StoredMoves ==
    ASSUME MbSizes, NEW x \in Decs, NEW f \in MbFrames, NEW start \in Nat, NEW q \in MbQueues,
           InOrder(x) => OldFirst(q) /\ NotYounger(q, x.age)
    PROVE  /\ Moved(x, StoreAll([x EXCEPT !.reqs = q], f, start))
           /\ StoreAll([x EXCEPT !.reqs = q], f, start).last = x.last
           /\ OfItself(x.cache) /\ start = f.start => OfItself(StoreAll([x EXCEPT !.reqs = q], f, start).cache)
  <1>1. PICK z \in Decs : z = [x EXCEPT !.reqs = q]
    BY DecPuts
  <1>2. PICK c : AllStored(z, f, start, c) /\ StoreAll(z, f, start) = [z EXCEPT !.cache = c]
    BY StoreAllIs
  <1>3. PICK y \in Decs : y = [z EXCEPT !.cache = c]
    BY <1>2, DecPuts DEF AllStored
  <1>4. /\ z.buf = x.buf /\ z.have = x.have /\ z.age = x.age /\ z.reqs = q /\ z.last = x.last /\ z.cache = x.cache
        /\ y.buf = z.buf /\ y.have = z.have /\ y.age = z.age /\ y.reqs = q /\ y.last = z.last /\ y.cache = c
    BY <1>1, <1>3 DEF Decs
  <1>5. Moved(x, y)
    <2>1. InOrder(x) => InOrder(y)
      BY <1>4 DEF InOrder
    <2>2. \A a : Past(x.cache, a) /\ x.age >= a => Past(y.cache, a)
      BY <1>2, <1>4 DEF AllStored
    <2> QED BY <1>4, <2>1, <2>2 DEF Moved
  <1>6. OfItself(x.cache) /\ start = f.start => OfItself(y.cache)
    BY <1>2, <1>4 DEF AllStored
  <1> QED BY <1>1, <1>2, <1>3, <1>4, <1>5, <1>6

LEMMA QueueMoves ==
    ASSUME MbSizes, NEW x \in Decs, NEW q \in MbQueues, InOrder(x) => OldFirst(q) /\ NotYounger(q, x.age)
    PROVE  Moved(x, [x EXCEPT !.reqs = q])
  <1>1. PICK y \in Decs : y = [x EXCEPT !.reqs = q]
    BY DecPuts
  <1>2. y.buf = x.buf /\ y.have = x.have /\ y.age = x.age /\ y.reqs = q /\ y.last = x.last /\ y.cache = x.cache
    BY <1>1 DEF Decs
  <1>3. InOrder(x) => InOrder(y)
    BY <1>2 DEF InOrder
  <1> QED BY <1>1, <1>2, <1>3 DEF Moved

\* An answer to the last request is given to it, as long as that is open.
Answered(x, f, y) ==
    /\ Moved(x, y) /\ y.last = x.last
    /\ Own(f, x.last) /\ OfItself(x.cache) /\ InOrder(x) /\ Ours(x) => OfItself(y.cache)

LEMMA RespondIs ==
    ASSUME MbSizes, NEW x \in Decs, NEW f \in MbFrames
    PROVE  Answered(x, f, Respond(x, f))
  <1>1. PICK reqs : reqs = Prune(x.reqs, x.age)
    OBVIOUS
  <1>2. PICK open : open = OpenFor(reqs, f.dev, f.count, x.age)
    OBVIOUS
  <1>3. /\ x.reqs \in Seq(MbReqs) /\ Len(x.reqs) <= QueueLen /\ Len(x.reqs) \in Nat /\ x.age \in Int
        /\ x.last \in MbReqs /\ x.last.start \in Nat
    BY MbOldIs DEF Decs, MbQueues, MbReqs
  <1>4. Pruned(x.reqs, x.age, reqs)
    BY <1>1, <1>3, PruneIs
  <1>5. reqs \in Seq(MbReqs) /\ Len(reqs) \in Nat /\ DOMAIN reqs = 1..Len(reqs) /\ reqs \in MbQueues
    BY <1>3, <1>4 DEF Pruned, MbQueues, MbSizes
  <1>6. InOrder(x) => OldFirst(reqs) /\ NotYounger(reqs, x.age)
    BY <1>3, <1>4, PrunedYounger DEF InOrder, Pruned
  <1>7. open = {i \in 1..Len(reqs) : reqs[i].dev = f.dev /\ reqs[i].age >= x.age /\ reqs[i].count = f.count}
    BY <1>2, <1>5 DEF OpenFor, Open
  <1>8. PICK y : y = Respond(x, f)
    OBVIOUS
  <1>9. CASE f.status
    <2>1. y = StoreAll([x EXCEPT !.reqs = <<>>], f, StatusStart)
      BY <1>8, <1>9 DEF Respond
    <2>2. <<>> \in MbQueues /\ OldFirst(<<>>) /\ NotYounger(<<>>, x.age) /\ StatusStart \in Nat
      BY DEF MbQueues, OldFirst, NotYounger, MbSizes
    <2> QED BY <1>8, <1>9, <2>1, <2>2, StoredMoves DEF Answered, Own
  <1>10. CASE ~f.status /\ open # {}
    <2>1. PICK k : k = Newest(open)
      OBVIOUS
    <2>2. k \in open /\ \A j \in open : j <= k
      BY <1>5, <1>7, <1>10, <2>1, NewestIs
    <2>3. k \in 1..Len(reqs)
      BY <1>7, <2>2
    <2>4. PICK q \in MbQueues : /\ q = RemoveAt(reqs, k)
                                /\ OldFirst(reqs) => OldFirst(q)
                                /\ \A a : NotYounger(reqs, a) => NotYounger(q, a)
      BY <1>5, <2>3, RequestTaken
    <2>5. PICK start : start = reqs[k].start
      OBVIOUS
    <2>6. y = StoreAll([x EXCEPT !.reqs = q], f, start)
      BY <1>1, <1>2, <1>8, <1>10, <2>1, <2>4, <2>5 DEF Respond
    <2>7. start \in Nat
      <3>1. reqs[k] \in MbReqs
        BY <1>5, <2>3
      <3> QED BY <2>5, <3>1 DEF MbReqs
    <2>8. InOrder(x) => OldFirst(q) /\ NotYounger(q, x.age)
      BY <1>6, <2>4
    <2>9. ASSUME Own(f, x.last), InOrder(x), Ours(x) PROVE start = f.start
      <3>1. Len(x.reqs) \in 1..Len(x.reqs) /\ x.reqs[Len(x.reqs)].age >= x.age
        BY <1>3, <2>9 DEF Ours, InOrder, NotYounger
      <3>2. CASE x.reqs[Len(x.reqs)].age - x.age <= ReqMaxAge
        <4>1. Len(reqs) > 0 /\ reqs[Len(reqs)] = x.reqs[Len(x.reqs)]
          BY <1>4, <2>9, <3>2 DEF Pruned, Ours
        <4>2. Len(reqs) \in open
          BY <1>5, <1>7, <2>9, <3>1, <4>1 DEF Ours, Own, SameReq
        <4>3. k = Len(reqs)
          <5>1. Len(reqs) <= k
            BY <2>2, <4>2
          <5>2. Len(reqs) \in Nat
            BY <1>5
          <5> QED BY <2>3, <5>1, <5>2
        <4> QED BY <2>5, <2>9, <4>1, <4>3 DEF Ours, Own, SameReq
      <3>3. CASE ~(x.reqs[Len(x.reqs)].age - x.age <= ReqMaxAge)
        <4>1. reqs = <<>>
          BY <1>3, <1>4, <2>9, <3>3, PrunedAll DEF Ours, InOrder
        <4> QED BY <2>3, <4>1
      <3> QED BY <3>2, <3>3
    <2>10. /\ Moved(x, y) /\ y.last = x.last
           /\ OfItself(x.cache) /\ start = f.start => OfItself(y.cache)
      BY <2>6, <2>7, <2>8, StoredMoves
    <2> QED BY <1>8, <2>9, <2>10 DEF Answered
  <1>11. CASE /\ ~f.status /\ open = {} /\ reqs = <<>> /\ x.last.dev = f.dev /\ x.last.count = f.count
              /\ x.last.age - x.age \in 0..(LastReqMaxAge - 1)
    <2>1. y = StoreAll([x EXCEPT !.reqs = reqs], f, x.last.start)
      BY <1>1, <1>2, <1>8, <1>11 DEF Respond
    <2>2. /\ Moved(x, y) /\ y.last = x.last
          /\ OfItself(x.cache) /\ x.last.start = f.start => OfItself(y.cache)
      BY <1>3, <1>5, <1>6, <2>1, StoredMoves
    <2> QED BY <1>8, <2>2 DEF Answered, Own
  <1>12. CASE /\ ~f.status /\ open = {}
              /\ ~(reqs = <<>> /\ x.last.dev = f.dev /\ x.last.count = f.count
                   /\ x.last.age - x.age \in 0..(LastReqMaxAge - 1))
    <2>1. y = [x EXCEPT !.reqs = reqs]
      BY <1>1, <1>2, <1>8, <1>12 DEF Respond
    <2>2. Moved(x, y)
      BY <1>5, <1>6, <2>1, QueueMoves
    <2>3. y.last = x.last /\ y.cache = x.cache
      BY <2>1 DEF Decs
    <2> QED BY <1>8, <2>2, <2>3 DEF Answered
  <1> QED BY <1>9, <1>10, <1>11, <1>12

LEMMA ExceptIs ==
    ASSUME MbSizes, NEW x \in Decs, NEW f \in MbFrames
    PROVE  /\ Moved(x, Except(x, f)) /\ Except(x, f).last = x.last
           /\ Except(x, f).cache = x.cache
  <1>1. PICK reqs : reqs = Prune(x.reqs, x.age)
    OBVIOUS
  <1>2. PICK open : open = Open(reqs, f.dev, x.age)
    OBVIOUS
  <1>3. x.reqs \in Seq(MbReqs) /\ Len(x.reqs) <= QueueLen /\ Len(x.reqs) \in Nat /\ x.age \in Int
    BY MbOldIs DEF Decs, MbQueues
  <1>4. Pruned(x.reqs, x.age, reqs)
    BY <1>1, <1>3, PruneIs
  <1>5. reqs \in Seq(MbReqs) /\ Len(reqs) \in Nat /\ DOMAIN reqs = 1..Len(reqs) /\ reqs \in MbQueues
    BY <1>3, <1>4 DEF Pruned, MbQueues, MbSizes
  <1>6. InOrder(x) => OldFirst(reqs) /\ NotYounger(reqs, x.age)
    BY <1>3, <1>4, PrunedYounger DEF InOrder, Pruned
  <1>7. open \subseteq 1..Len(reqs)
    BY <1>2, <1>5 DEF Open
  <1>8. PICK q : q = IF open = {} THEN reqs ELSE RemoveAt(reqs, Oldest(open))
    OBVIOUS
  <1>9. q \in MbQueues /\ (InOrder(x) => OldFirst(q) /\ NotYounger(q, x.age))
    <2>1. CASE open = {}
      BY <1>5, <1>6, <1>8, <2>1
    <2>2. CASE open # {}
      <3>1. PICK k \in 1..Len(reqs) : k = Oldest(open)
        BY <1>5, <1>7, <2>2, OldestIs
      <3>2. /\ RemoveAt(reqs, k) \in MbQueues
            /\ OldFirst(reqs) => OldFirst(RemoveAt(reqs, k))
            /\ \A a : NotYounger(reqs, a) => NotYounger(RemoveAt(reqs, k), a)
        BY <1>5, RequestTaken
      <3> QED BY <1>6, <1>8, <2>2, <3>1, <3>2
    <2> QED BY <2>1, <2>2
  <1>10. Except(x, f) = [x EXCEPT !.reqs = q]
    BY <1>1, <1>2, <1>8 DEF Except
  <1>11. [x EXCEPT !.reqs = q].last = x.last /\ [x EXCEPT !.reqs = q].cache = x.cache
    BY DEF Decs
  <1> QED BY <1>9, <1>10, <1>11, QueueMoves

LEMMA SeeRequestIs ==
    ASSUME MbSizes, NEW x \in Decs, NEW f \in MbFrames
    PROVE  /\ Moved(x, SeeRequest(x, f)) /\ SeeRequest(x, f).cache = x.cache
           /\ Ours(SeeRequest(x, f))
           /\ Own(f, x.last) => SameReq(SeeRequest(x, f).last, x.last)
  <1>1. PICK r : r = [dev |-> f.dev, start |-> f.start, count |-> f.count, age |-> x.age]
    OBVIOUS
  <1>2. r \in MbReqs /\ r.age = x.age /\ x.age \in Int /\ f.count # 0 /\ x.reqs \in MbQueues
    BY <1>1, MbOldIs DEF MbReqs, MbFrames, Decs
  <1>3. PICK q : q = Push(x.reqs, r, x.age)
    OBVIOUS
  <1>4. Pushed(x.reqs, r, q)
    BY <1>2, <1>3, PushIs
  <1>5. SeeRequest(x, f) = [x EXCEPT !.last = r, !.reqs = q]
    BY <1>1, <1>2, <1>3 DEF SeeRequest, Record
  <1>6. PICK y : y = [x EXCEPT !.last = r, !.reqs = q]
    OBVIOUS
  <1>7. /\ y \in Decs /\ y.buf = x.buf /\ y.have = x.have /\ y.age = x.age /\ y.last = r /\ y.reqs = q
        /\ y.cache = x.cache
    BY <1>2, <1>4, <1>6 DEF Decs, Pushed
  <1>8. InOrder(x) => InOrder(y)
    BY <1>2, <1>4, <1>7 DEF InOrder, Pushed
  <1>9. Moved(x, y)
    BY <1>7, <1>8 DEF Moved
  <1>10. Ours(y)
    BY <1>4, <1>7 DEF Ours, Pushed
  <1>11. Own(f, x.last) => SameReq(y.last, x.last)
    BY <1>1, <1>7 DEF Own, SameReq
  <1> QED BY <1>5, <1>6, <1>7, <1>9, <1>10, <1>11


LEMMA OwnSame ==
    ASSUME NEW f, NEW r, NEW q, Own(f, r), SameReq(q, r)
    PROVE  Own(f, q)
  BY DEF Own, SameReq

LEMMA SameTwice ==
    ASSUME NEW r, NEW q, NEW s, SameReq(s, q), SameReq(q, r)
    PROVE  SameReq(s, r)
  BY DEF SameReq

LEMMA MovedTwice ==
    ASSUME NEW x \in Decs, NEW y, NEW z, Moved(x, y), Moved(y, z)
    PROVE  Moved(x, z)
  BY DEF Moved

LEMMA MovesNot ==
    ASSUME NEW x \in Decs
    PROVE  Moved(x, x) /\ SameReq(x.last, x.last)
  BY DEF Moved, SameReq

\* What the decoder is after a frame.
Handled(x, f, y) ==
    /\ Moved(x, y)
    /\ Own(f, x.last) => SameReq(y.last, x.last)
    /\ Own(f, x.last) /\ OfItself(x.cache) /\ InOrder(x) /\ (f.kind # "req" => Ours(x)) => OfItself(y.cache)
    /\ f.kind = "req" => Ours(y)

LEMMA HandleIs ==
    ASSUME MbSizes, NEW x \in Decs, NEW f \in MbFrames
    PROVE  Handled(x, f, Handle(x, f))
  <1>1. CASE f.kind = "req"
    <2>1. Handle(x, f) = SeeRequest(x, f)
      BY <1>1 DEF Handle
    <2> QED BY <2>1, SeeRequestIs DEF Handled
  <1>2. CASE f.kind = "exc"
    <2>1. Handle(x, f) = Except(x, f)
      BY <1>2 DEF Handle
    <2>2. SameReq(x.last, x.last)
      BY MovesNot
    <2> QED BY <1>2, <2>1, <2>2, ExceptIs DEF Handled
  <1>3. CASE f.kind # "req" /\ f.kind # "exc"
    <2>1. Handle(x, f) = Respond(x, f)
      BY <1>3 DEF Handle
    <2>2. SameReq(x.last, x.last)
      BY MovesNot
    <2>3. Answered(x, f, Respond(x, f))
      BY RespondIs
    <2> QED BY <1>3, <2>1, <2>2, <2>3 DEF Handled, Answered
  <1> QED BY <1>1, <1>2, <1>3

\* The first byte of what the BMS answers.
Tok(b)    == b[2] = 1 /\ b[1].kind \in {"resp", "wide", "word", "exc"}
NoTok(s)  == \A i \in 1..Len(s) : ~Tok(s[i])
OneTok(s) == \A i, j \in 1..Len(s) : Tok(s[i]) /\ Tok(s[j]) => i = j
OwnBytes(s, r) == \A i \in 1..Len(s) : Own(s[i][1], r)

\* What is in the buffer belongs to the last request, which is open as long as its answer is there.
RightFor(x) ==
    /\ OfItself(x.cache) /\ InOrder(x)
    /\ OwnBytes(x.buf, x.last) /\ OneTok(x.buf) /\ (NoTok(x.buf) \/ Ours(x))

\* No answer is there as a whole.
Short(s) == \A p \in 1..Len(s) : Tok(s[p]) => p + Size(s[p][1]) - 1 > Len(s)

\* How far a search for frames has come.
Scanned(x, s) ==
    /\ s.next \in 0..Len(x.buf) /\ Moved(x, s.dec) /\ (Short(x.buf) => s.dec.cache = x.cache)
    /\ RightFor(x) =>
         /\ OfItself(s.dec.cache) /\ SameReq(s.dec.last, x.last)
         /\ (\E q \in 1..Len(x.buf) : q > s.next /\ Tok(x.buf[q])) => Ours(s.dec)
         /\ NoTok(x.buf) /\ Ours(x) => Ours(s.dec)

MbScans(buf) == [dec : Decs, next : 0..Len(buf)]

\* A frame that is found at place p.
LEMMA FoundIs ==
    ASSUME MbSizes, NEW buf \in MbBufs, NEW p \in 1..Len(buf), Whole(buf, p), Known(buf[p][1])
    PROVE  /\ buf[p] \in MbBytes /\ buf[p][1] \in MbFrames /\ buf[p][2] = 1
           /\ p + Size(buf[p][1]) - 1 \in p..Len(buf)
           /\ buf[p][1].kind # "req" => Tok(buf[p])
  <1>1. buf \in Seq(MbBytes) /\ Len(buf) \in Nat /\ buf[p] \in MbBytes
    BY DEF MbBufs
  <1>2. PICK f \in MbFrames : f = buf[p][1]
    BY <1>1 DEF MbBytes
  <1>3. PICK n \in Nat \ {0} : n = Size(f)
    BY MbSizeIs
  <1>4. buf[p][2] = 1 /\ p + n - 1 <= Len(buf)
    BY <1>2, <1>3 DEF Whole
  <1>5. p + n - 1 \in p..Len(buf)
    BY <1>1, <1>4
  <1>6. f.kind \in {"req", "resp", "wide", "word", "exc"}
    BY <1>2 DEF Known, IsAnswer
  <1> QED BY <1>1, <1>2, <1>3, <1>4, <1>5, <1>6 DEF Tok

LEMMA ScanTyped ==
    ASSUME MbSizes, NEW buf \in MbBufs, NEW s \in MbScans(buf), NEW p \in 1..Len(buf)
    PROVE  ScanAt(buf, s, p) \in MbScans(buf)
  <1>1. CASE p > s.next /\ Whole(buf, p) /\ Known(buf[p][1])
    <2>1. PICK f \in MbFrames : f = buf[p][1]
      BY <1>1, FoundIs
    <2>2. PICK to : to = p + Size(f) - 1
      OBVIOUS
    <2>3. to \in 0..Len(buf)
      <3>1. to \in p..Len(buf)
        BY <1>1, <2>1, <2>2, FoundIs
      <3> QED BY <3>1
    <2>4. s.dec \in Decs
      BY DEF MbScans
    <2>5. Handle(s.dec, f) \in Decs
      BY <2>4, HandleIs DEF Handled, Moved
    <2>6. ScanAt(buf, s, p) = [dec |-> Handle(s.dec, f), next |-> to]
      BY <1>1, <2>1, <2>2 DEF ScanAt
    <2> QED BY <2>3, <2>5, <2>6 DEF MbScans
  <1>2. CASE ~(p > s.next /\ Whole(buf, p) /\ Known(buf[p][1]))
    BY <1>2 DEF ScanAt
  <1> QED BY <1>1, <1>2

LEMMA ScanGoes ==
    ASSUME MbSizes, NEW x \in Decs, NEW s \in MbScans(x.buf), NEW p \in 1..Len(x.buf), Scanned(x, s)
    PROVE  Scanned(x, ScanAt(x.buf, s, p))
  <1>1. PICK buf \in MbBufs : buf = x.buf
    BY DEF Decs
  <1>2. CASE ~(p > s.next /\ Whole(buf, p) /\ Known(buf[p][1]))
    BY <1>1, <1>2 DEF ScanAt
  <1>3. CASE p > s.next /\ Whole(buf, p) /\ Known(buf[p][1])
    <2>1. PICK f \in MbFrames : f = buf[p][1]
      BY <1>1, <1>3, FoundIs
    <2>2. PICK to : to = p + Size(f) - 1
      OBVIOUS
    <2>3. to \in p..Len(buf) /\ (f.kind # "req" => Tok(buf[p])) /\ Len(buf) \in Nat
      <3>1. Len(buf) \in Nat
        BY DEF MbBufs
      <3> QED BY <1>1, <1>3, <2>1, <2>2, <3>1, FoundIs
    <2>4. PICK y : y = Handle(s.dec, f)
      OBVIOUS
    <2>5. s.dec \in Decs /\ Handled(s.dec, f, y)
      BY <2>4, HandleIs DEF MbScans
    <2>6. PICK e : e = ScanAt(buf, s, p)
      OBVIOUS
    <2>7. e.dec = y /\ e.next = to
      BY <1>3, <2>1, <2>2, <2>4, <2>6 DEF ScanAt
    <2>8. to \in 0..Len(buf) /\ Moved(x, y)
      <3>1. Moved(x, s.dec) /\ Moved(s.dec, y)
        BY <2>5 DEF Scanned, Handled
      <3> QED BY <2>3, <2>5, <3>1, MovedTwice
    <2>8a. Short(buf) => y.cache = x.cache
      <3>1. ASSUME Short(buf) PROVE y.cache = x.cache
        <4>1. ~Tok(buf[p])
          <5>1. p + Size(buf[p][1]) - 1 \in p..Len(buf) /\ Len(buf) \in Nat
            BY <1>1, <1>3, <2>3, FoundIs
          <5> QED BY <1>1, <3>1, <5>1 DEF Short
        <4>2. f.kind = "req"
          BY <2>3, <4>1
        <4>3. y = SeeRequest(s.dec, f)
          BY <2>4, <4>2 DEF Handle
        <4>4. y.cache = s.dec.cache
          BY <2>5, <4>3, SeeRequestIs
        <4> QED BY <1>1, <3>1, <4>4 DEF Scanned
      <3> QED BY <3>1
    <2>9. ASSUME RightFor(x)
          PROVE  /\ OfItself(y.cache) /\ SameReq(y.last, x.last)
                 /\ (\E q \in 1..Len(buf) : q > to /\ Tok(buf[q])) => Ours(y)
                 /\ NoTok(buf) /\ Ours(x) => Ours(y)
      <3>1. /\ OfItself(s.dec.cache) /\ SameReq(s.dec.last, x.last) /\ InOrder(s.dec)
            /\ (\E q \in 1..Len(buf) : q > s.next /\ Tok(buf[q])) => Ours(s.dec)
        BY <1>1, <2>9 DEF Scanned, Moved, RightFor
      <3>2. Own(f, s.dec.last)
        <4>1. Own(f, x.last)
          BY <1>1, <2>1, <2>9 DEF RightFor, OwnBytes
        <4> QED BY <3>1, <4>1, OwnSame
      <3>3. f.kind # "req" => Ours(s.dec)
        BY <1>1, <1>3, <2>3, <3>1
      <3>4. OfItself(y.cache) /\ SameReq(y.last, s.dec.last) /\ (f.kind = "req" => Ours(y))
        BY <2>5, <3>1, <3>2, <3>3 DEF Handled
      <3>5. SameReq(y.last, x.last)
        BY <3>1, <3>4, SameTwice
      <3>6. ASSUME NEW q \in 1..Len(buf), q > to, Tok(buf[q]) PROVE f.kind = "req"
        <4>1. q # p
          BY <2>3, <3>6
        <4>2. ~Tok(buf[p])
          BY <1>1, <2>9, <3>6, <4>1 DEF RightFor, OneTok
        <4> QED BY <2>3, <4>2
      <3>7. NoTok(buf) => f.kind = "req"
        BY <1>1, <2>3 DEF NoTok
      <3> QED BY <3>4, <3>5, <3>6, <3>7
    <2> QED BY <1>1, <2>6, <2>7, <2>8, <2>8a, <2>9 DEF Scanned
  <1> QED BY <1>2, <1>3

LEMMA ScanIs ==
    ASSUME MbSizes, NEW x \in Decs
    PROVE  Scanned(x, Scan(x))
  <1> DEFINE buf   == x.buf
             N     == Len(buf)
             S     == MbScans(buf)
             b     == [dec |-> x, next |-> 0]
             F     == [n \in 1..N |-> [s \in S |-> ScanAt(buf, s, n)]]
             Eq(g) == g = [n \in 0..N |-> IF n = 0 THEN b ELSE ScanAt(buf, g[n - 1], n)]
             h     == CHOOSE g : Eq(g)
  <1>0. N \in Nat /\ b \in S /\ buf \in MbBufs
    BY DEF Decs, MbBufs, MbScans
  <1>1. F \in Moves(S, N)
    <2>1. ASSUME NEW n \in 1..N, NEW s \in S PROVE ScanAt(buf, s, n) \in S
      BY <1>0, ScanTyped
    <2> HIDE DEF S
    <2> QED BY <2>1 DEF Moves
  <1>2. \A n \in 1..N : \A s \in S : F[n][s] = ScanAt(buf, s, n)
    OBVIOUS
  <1> HIDE DEF F, S, b
  <1>3. PICK g : IsRun(g, S, N, b, F)
    BY <1>0, <1>1, IterExists
  <1>4. Eq(g)
    <2>1. ASSUME NEW n \in 1..N PROVE g[n] = ScanAt(buf, g[n - 1], n)
      <3>1. g[n - 1] \in S /\ g[n] = F[n][g[n - 1]]
        BY <1>0, <1>3 DEF IsRun
      <3> QED BY <1>2, <3>1
    <2>2. g \in [0..N -> S] /\ g[0] = b
      BY <1>3 DEF IsRun
    <2>3. \A n \in 0..N : n # 0 => n \in 1..N
      BY <1>0
    <2> QED BY <2>1, <2>2, <2>3
  <1>5. Eq(h)
    <2> HIDE DEF Eq
    <2> QED BY <1>4
  <1>6. Scan(x) = h[N]
    BY DEF Scan, b
  <1> HIDE DEF h
  <1>7. h[0] = b /\ \A n \in 1..N : h[n] = ScanAt(buf, h[n - 1], n)
    <2>1. \A n \in 0..N : h[n] = IF n = 0 THEN b ELSE ScanAt(buf, h[n - 1], n)
      BY <1>5
    <2> HIDE DEF Eq
    <2>2. 0 \in 0..N /\ \A n \in 1..N : n \in 0..N /\ n # 0
      BY <1>0
    <2> QED BY <2>1, <2>2
  <1> DEFINE T == {n \in 0..N : h[n] \in S /\ Scanned(x, h[n])}
  <1>8. 0 \in T
    <2>1. b.dec = x /\ b.next = 0 /\ 0 \in 0..N
      BY <1>0 DEF b
    <2>2. Moved(x, x) /\ SameReq(x.last, x.last)
      BY MovesNot
    <2>3. Scanned(x, b)
      BY <2>1, <2>2 DEF Scanned, RightFor, NoTok
    <2> QED BY <1>0, <1>7, <2>1, <2>3
  <1>9. ASSUME NEW i \in 1..N, i - 1 \in T PROVE i \in T
    <2>1. h[i - 1] \in MbScans(x.buf) /\ Scanned(x, h[i - 1]) /\ i \in 0..N
      BY <1>0, <1>9 DEF S
    <2>2. Scanned(x, ScanAt(x.buf, h[i - 1], i))
      BY <2>1, ScanGoes
    <2>3. ScanAt(x.buf, h[i - 1], i) \in S
      BY <1>0, <2>1, ScanTyped DEF S
    <2> QED BY <1>7, <2>1, <2>2, <2>3
  <1>9a. \A i \in 1..N : i - 1 \in T => i \in T
    BY <1>9
  <1> HIDE DEF T, N
  <1>10. N \in T
    <2>1. \A i \in 0..N : i \in T
      BY <1>0, <1>8, <1>9a, Climb
    <2> QED BY <1>0, <2>1
  <1> QED BY <1>6, <1>10 DEF T

\* What is kept is as old as it was, or as the bytes are in which an answer was found.
Lasts(x, y) == \A a : Past(x.cache, a) /\ (Short(x.buf) \/ x.age >= a) => Past(y.cache, a)

\* What the decoder is when its buffer has been decoded or dropped.
Finished(x, y) ==
    /\ y \in Decs /\ y.buf = <<>> /\ y.have = x.have /\ y.age = x.age /\ Lasts(x, y)
    /\ x.buf = <<>> => y = x
    /\ RightFor(x) =>
         /\ OfItself(y.cache) /\ InOrder(y) /\ SameReq(y.last, x.last)
         /\ NoTok(x.buf) /\ Ours(x) => Ours(y)

Fell(x, y) ==
    /\ Moved(x, y) /\ (Short(x.buf) => y.cache = x.cache)
    /\ RightFor(x) =>
         /\ OfItself(y.cache) /\ SameReq(y.last, x.last)
         /\ NoTok(x.buf) /\ Ours(x) => Ours(y)

LEMMA FallbackIs ==
    ASSUME MbSizes, NEW x \in Decs, x.buf # <<>>
    PROVE  Fell(x, Fallback(x))
  <1>1. x.buf \in Seq(MbBytes) /\ Len(x.buf) \in Nat /\ Len(x.buf) > 0
    BY DEF Decs, MbBufs
  <1>2. x.buf[1] \in MbBytes /\ 1 \in 1..Len(x.buf)
    BY <1>1
  <1>3. PICK f \in MbFrames : f = x.buf[1][1]
    BY <1>2 DEF MbBytes
  <1>4. Moved(x, x) /\ SameReq(x.last, x.last)
    BY MovesNot
  <1>5. RightFor(x) => Own(f, x.last)
    BY <1>2, <1>3 DEF RightFor, OwnBytes
  <1>6. CASE Fallback(x) = x
    BY <1>4, <1>6 DEF Fell, RightFor
  <1>7. CASE x.buf[1][2] = 1 /\ f.kind = "req" /\ Fallback(x) = SeeRequest(x, f)
    BY <1>5, <1>7, SeeRequestIs DEF Fell, RightFor
  <1>8. CASE /\ x.buf[1][2] = 1 /\ f.kind = "resp" /\ Size(f) <= Len(x.buf)
             /\ Fallback(x) = Respond(x, f)
    <2>1. Tok(x.buf[1]) /\ ~NoTok(x.buf)
      BY <1>2, <1>3, <1>8 DEF Tok, NoTok
    <2>2. Answered(x, f, Fallback(x))
      BY <1>8, RespondIs
    <2>3. ~Short(x.buf)
      <3>1. Size(f) \in Nat
        BY MbSizeIs
      <3>2. 1 + Size(f) - 1 <= Len(x.buf)
        BY <1>1, <1>8, <3>1
      <3> QED BY <1>1, <1>2, <1>3, <2>1, <3>1, <3>2 DEF Short
    <2> QED BY <1>4, <1>5, <2>1, <2>2, <2>3 DEF Fell, RightFor, Answered
  <1>9. \/ Fallback(x) = x
        \/ x.buf[1][2] = 1 /\ f.kind = "req" /\ Fallback(x) = SeeRequest(x, f)
        \/ /\ x.buf[1][2] = 1 /\ f.kind = "resp" /\ Size(f) <= Len(x.buf)
           /\ Fallback(x) = Respond(x, f)
    BY <1>3 DEF Fallback
  <1> QED BY <1>6, <1>7, <1>8, <1>9

LEMMA FinalizeIs ==
    ASSUME MbSizes, NEW x \in Decs
    PROVE  Finished(x, Finalize(x))
  <1>1. CASE x.buf = <<>>
    <2>1. Finalize(x) = x
      BY <1>1 DEF Finalize
    <2>2. SameReq(x.last, x.last)
      BY MovesNot
    <2> QED BY <1>1, <2>1, <2>2 DEF Finished, Lasts, RightFor
  <1>2. CASE x.buf # <<>>
    <2>1. PICK s : s = Scan(x)
      OBVIOUS
    <2>2. Scanned(x, s)
      BY <2>1, ScanIs
    <2>3. PICK z : z = IF s.next > 0 THEN s.dec ELSE Fallback(x)
      OBVIOUS
    <2>4. Fell(x, z)
      <3>1. CASE s.next > 0
        BY <2>2, <2>3, <3>1 DEF Scanned, Fell
      <3>2. CASE ~(s.next > 0)
        BY <1>2, <2>3, <3>2, FallbackIs
      <3> QED BY <3>1, <3>2
    <2>5. PICK y : y = [z EXCEPT !.buf = <<>>]
      OBVIOUS
    <2>6. Finalize(x) = y
      BY <1>2, <2>1, <2>3, <2>5 DEF Finalize
    <2>7. z \in Decs /\ <<>> \in MbBufs
      BY <2>4 DEF Fell, Moved, MbBufs, MbSizes
    <2>8. /\ y \in Decs /\ y.buf = <<>> /\ y.have = z.have /\ y.age = z.age /\ y.reqs = z.reqs /\ y.last = z.last
          /\ y.cache = z.cache
      BY <2>5, <2>7 DEF Decs
    <2>9. InOrder(z) => InOrder(y)
      BY <2>8 DEF InOrder
    <2>10. Ours(z) => Ours(y)
      BY <2>8 DEF Ours
    <2>11. RightFor(x) =>
              /\ OfItself(y.cache) /\ InOrder(y) /\ SameReq(y.last, x.last)
              /\ NoTok(x.buf) /\ Ours(x) => Ours(y)
      BY <2>4, <2>8, <2>9, <2>10 DEF Fell, Moved, RightFor
    <2>12. Lasts(x, y)
      BY <2>4, <2>8 DEF Fell, Moved, Lasts
    <2> QED BY <1>2, <2>4, <2>6, <2>8, <2>11, <2>12 DEF Fell, Moved, Finished
  <1> QED BY <1>1, <1>2

-----------------------------------------------------------------------------
(* What is read from the line.                                             *)

\* While bytes are added, i of them are; w says that the answer to the last request is still to come.
Live(z, data, i, w, r) ==
    /\ OfItself(z.cache) /\ InOrder(z) /\ SameReq(z.last, r)
    /\ OwnBytes(z.buf, z.last) /\ OneTok(z.buf) /\ OwnBytes(data, z.last) /\ OneTok(data)
    /\ ~NoTok(z.buf) => \A j \in 1..Len(data) : j > i => ~Tok(data[j])
    /\ w => NoTok(z.buf) /\ NoTok(data)
    /\ w \/ ~NoTok(z.buf) \/ (\E j \in 1..Len(data) : j > i /\ Tok(data[j])) => Ours(z)

\* The buffer has the last of the i bytes, and an answer is only kept when it is there.
LastOf(z, data, i, c) ==
    /\ Len(z.buf) <= i /\ (\A j \in 1..Len(z.buf) : z.buf[j] = data[i - Len(z.buf) + j])
    /\ Short(data) => z.cache = c

\* What one more byte, or the rest of a search, leaves of the decoder.
Goes(z, y) == y \in Decs /\ y.have = z.have /\ y.age = z.age

LEMMA OwnAll ==
    ASSUME NEW s, NEW r, NEW q, OwnBytes(s, r), SameReq(q, r)
    PROVE  OwnBytes(s, q)
  BY OwnSame DEF OwnBytes

LEMMA LiveIsRight ==
    ASSUME NEW z, NEW data, NEW i, NEW w, NEW r, Live(z, data, i, w, r)
    PROVE  RightFor(z)
  BY DEF Live, RightFor

\* A byte for which there is room.
LEMMA ByteAppended ==
    ASSUME MbSizes, NEW z \in Decs, NEW data \in Seq(MbBytes), NEW i \in 1..Len(data), Len(z.buf) < BufMax
    PROVE  /\ Goes(z, [z EXCEPT !.buf = Append(@, data[i])])
           /\ \A w \in BOOLEAN : \A r :
                 Live(z, data, i - 1, w, r) => Live([z EXCEPT !.buf = Append(@, data[i])], data, i, w, r)
           /\ \A c : LastOf(z, data, i - 1, c) => LastOf([z EXCEPT !.buf = Append(@, data[i])], data, i, c)
  <1>1. z.buf \in Seq(MbBytes) /\ Len(z.buf) \in Nat /\ BufMax \in Nat /\ data[i] \in MbBytes /\ Len(data) \in Nat
    BY DEF Decs, MbBufs, MbSizes
  <1>2. PICK b : b = Append(z.buf, data[i])
    OBVIOUS
  <1>3. /\ b \in Seq(MbBytes) /\ Len(b) = Len(z.buf) + 1 /\ b[Len(z.buf) + 1] = data[i]
        /\ \A j \in 1..Len(z.buf) : b[j] = z.buf[j]
    BY <1>1, <1>2
  <1>4. PICK y : y = [z EXCEPT !.buf = b]
    OBVIOUS
  <1>5. b \in MbBufs
    BY <1>1, <1>3 DEF MbBufs
  <1>6. /\ y \in Decs /\ y.buf = b /\ y.have = z.have /\ y.age = z.age /\ y.reqs = z.reqs /\ y.last = z.last
        /\ y.cache = z.cache
    BY <1>4, <1>5 DEF Decs
  <1>7. \A j \in 1..Len(b) : j = Len(z.buf) + 1 \/ j \in 1..Len(z.buf)
    BY <1>1, <1>3
  <1>8. ASSUME NEW w \in BOOLEAN, NEW r, Live(z, data, i - 1, w, r) PROVE Live(y, data, i, w, r)
    <2>1. OfItself(y.cache) /\ InOrder(y)
      BY <1>6, <1>8 DEF Live, InOrder
    <2>2. OwnBytes(y.buf, y.last)
      <3>1. Own(data[i][1], z.last)
        BY <1>8 DEF Live, OwnBytes
      <3> QED BY <1>3, <1>6, <1>7, <1>8, <3>1 DEF Live, OwnBytes
    <2>3. Tok(data[i]) => NoTok(z.buf)
      BY <1>1, <1>8 DEF Live
    <2>4. OneTok(y.buf)
      <3>1. ASSUME NEW j \in 1..Len(b), NEW k \in 1..Len(b), Tok(b[j]), Tok(b[k]) PROVE j = k
        <4>1. CASE Tok(data[i])
          <5>1. \A m \in 1..Len(z.buf) : ~Tok(b[m])
            BY <1>3, <2>3, <4>1 DEF NoTok
          <5> QED BY <1>7, <3>1, <5>1
        <4>2. CASE ~Tok(data[i])
          <5>1. j \in 1..Len(z.buf) /\ k \in 1..Len(z.buf)
            BY <1>3, <1>7, <3>1, <4>2
          <5>2. Tok(z.buf[j]) /\ Tok(z.buf[k])
            BY <1>3, <3>1, <5>1
          <5> QED BY <1>8, <5>1, <5>2 DEF Live, OneTok
        <4> QED BY <4>1, <4>2
      <3> QED BY <1>6, <3>1 DEF OneTok
    <2>5. OwnBytes(data, y.last) /\ OneTok(data)
      BY <1>6, <1>8 DEF Live
    <2>6. ~NoTok(b) => Tok(data[i]) \/ ~NoTok(z.buf)
      <3>1. ASSUME ~Tok(data[i]), NoTok(z.buf), NEW j \in 1..Len(b) PROVE ~Tok(b[j])
        BY <1>3, <1>7, <3>1 DEF NoTok
      <3> QED BY <3>1 DEF NoTok
    <2>7. ASSUME ~NoTok(b), NEW j \in 1..Len(data), j > i PROVE ~Tok(data[j])
      <3>1. CASE Tok(data[i])
        BY <1>8, <2>7, <3>1 DEF Live, OneTok
      <3>2. CASE ~NoTok(z.buf)
        <4>1. j > i - 1
          BY <1>1, <2>7
        <4> QED BY <1>8, <3>2, <4>1 DEF Live
      <3> QED BY <2>6, <2>7, <3>1, <3>2
    <2>8. w => NoTok(b) /\ NoTok(data)
      <3>1. NoTok(data) => ~Tok(data[i])
        BY DEF NoTok
      <3> QED BY <1>8, <2>6, <3>1 DEF Live
    <2>9. ASSUME w \/ ~NoTok(b) \/ (\E j \in 1..Len(data) : j > i /\ Tok(data[j])) PROVE Ours(y)
      <3>1. w \/ ~NoTok(z.buf) \/ (\E j \in 1..Len(data) : j > i - 1 /\ Tok(data[j]))
        <4>1. Tok(data[i]) => \E j \in 1..Len(data) : j > i - 1 /\ Tok(data[j])
          BY <1>1
        <4>2. ASSUME NEW j \in 1..Len(data), j > i PROVE j > i - 1
          BY <1>1, <4>2
        <4> QED BY <2>6, <2>9, <4>1, <4>2
      <3>2. Ours(z)
        BY <1>8, <3>1 DEF Live
      <3> QED BY <1>6, <3>2 DEF Ours
    <2>10. SameReq(y.last, r)
      BY <1>6, <1>8 DEF Live
    <2> QED BY <1>6, <2>1, <2>2, <2>4, <2>5, <2>7, <2>8, <2>9, <2>10 DEF Live
  <1>9. ASSUME NEW c, LastOf(z, data, i - 1, c) PROVE LastOf(y, data, i, c)
    <2>1. /\ Len(z.buf) <= i - 1 /\ \A j \in 1..Len(z.buf) : z.buf[j] = data[i - 1 - Len(z.buf) + j]
          /\ Short(data) => z.cache = c
      BY <1>9 DEF LastOf
    <2>2. Len(b) <= i
      BY <1>1, <1>3, <2>1
    <2>3. ASSUME NEW j \in 1..Len(b) PROVE b[j] = data[i - Len(b) + j]
      <3>1. CASE j = Len(z.buf) + 1
        <4>1. Len(b) \in Int /\ i \in Int /\ j = Len(b)
          BY <1>1, <1>3, <3>1
        <4>2. i - Len(b) + j = i
          BY <4>1
        <4> QED BY <1>3, <3>1, <4>2
      <3>2. CASE j \in 1..Len(z.buf)
        <4>1. Len(b) = Len(z.buf) + 1 /\ Len(z.buf) \in Int /\ i \in Int /\ j \in Int
          BY <1>1, <1>3, <3>2
        <4>2. i - Len(b) + j = i - 1 - Len(z.buf) + j
          BY <4>1
        <4> QED BY <1>3, <2>1, <3>2, <4>2
      <3> QED BY <1>7, <3>1, <3>2
    <2> QED BY <1>6, <2>1, <2>2, <2>3 DEF LastOf
  <1> QED BY <1>2, <1>4, <1>6, <1>8, <1>9 DEF Goes

\* What is there of the bytes is no whole answer when there is none in all of them.
LEMMA LastIsShort ==
    ASSUME MbSizes, NEW z \in Decs, NEW data \in Seq(MbBytes), NEW i \in 0..Len(data), NEW c,
           LastOf(z, data, i, c), Short(data)
    PROVE  Short(z.buf)
  <1>1. z.buf \in Seq(MbBytes) /\ Len(z.buf) \in Nat /\ Len(data) \in Nat /\ Len(z.buf) <= i
    BY DEF Decs, MbBufs, LastOf
  <1>1a. i \in Nat /\ i <= Len(data)
    BY <1>1
  <1>1b. PICK l \in Nat : l = Len(z.buf)
    BY <1>1
  <1>1c. PICK m \in Nat : m = Len(data)
    BY <1>1
  <1>1d. i \in Nat /\ l <= i /\ i <= m
    BY <1>1, <1>1a, <1>1b, <1>1c
  <1>2. PICK o \in Nat : o = i - l
    BY <1>1d
  <1>3. ASSUME NEW p \in 1..Len(z.buf), Tok(z.buf[p]) PROVE p + Size(z.buf[p][1]) - 1 > Len(z.buf)
    <2>0. p \in 1..l
      BY <1>1b
    <2>1. PICK q \in 1..m : q = o + p
      BY <1>1d, <1>2, <2>0
    <2>2. z.buf[p] = data[q]
      BY <1>1b, <1>2, <1>3, <2>1 DEF LastOf
    <2>3. q + Size(data[q][1]) - 1 > m
      BY <1>1c, <1>3, <2>1, <2>2 DEF Short
    <2>4. PICK n \in Nat : n = Size(data[q][1])
      <3>1. data[q] \in MbBytes
        BY <1>1c, <2>1
      <3>2. data[q][1] \in MbFrames
        BY <3>1 DEF MbBytes
      <3> QED BY <3>2, MbSizeIs
    <2>5. q + n - 1 > m
      BY <2>3, <2>4
    <2>6. p + n - 1 > l
      BY <1>1d, <1>2, <2>0, <2>1, <2>4, <2>5
    <2> QED BY <1>1b, <2>2, <2>4, <2>6
  <1> QED BY <1>3 DEF Short

\* A byte for which there is none.
LEMMA ByteAfterAll ==
    ASSUME MbSizes, NEW z \in Decs, NEW data \in Seq(MbBytes), NEW i \in 1..Len(data)
    PROVE  /\ Goes(z, [Scan(z).dec EXCEPT !.buf = <<data[i]>>])
           /\ \A w \in BOOLEAN : \A r :
                 Live(z, data, i - 1, w, r) => Live([Scan(z).dec EXCEPT !.buf = <<data[i]>>], data, i, w, r)
           /\ \A c : LastOf(z, data, i - 1, c) => LastOf([Scan(z).dec EXCEPT !.buf = <<data[i]>>], data, i, c)
  <1>1. BufMax \in Nat \ {0} /\ data[i] \in MbBytes /\ Len(data) \in Nat
    BY DEF MbSizes
  <1>2. PICK s : s = Scan(z)
    OBVIOUS
  <1>3. Scanned(z, s) /\ s.dec \in Decs
    BY <1>2, ScanIs DEF Scanned, Moved
  <1>4. PICK b : b = <<data[i]>>
    OBVIOUS
  <1>5. b \in MbBufs /\ Len(b) = 1 /\ b[1] = data[i]
    BY <1>1, <1>4 DEF MbBufs
  <1>6. PICK y : y = [s.dec EXCEPT !.buf = b]
    OBVIOUS
  <1>7. /\ y \in Decs /\ y.buf = b /\ y.have = s.dec.have /\ y.age = s.dec.age /\ y.reqs = s.dec.reqs
        /\ y.last = s.dec.last /\ y.cache = s.dec.cache
    BY <1>3, <1>5, <1>6 DEF Decs
  <1>8. Goes(z, y)
    BY <1>3, <1>7 DEF Goes, Scanned, Moved
  <1>9. ASSUME NEW w \in BOOLEAN, NEW r, Live(z, data, i - 1, w, r) PROVE Live(y, data, i, w, r)
    <2>1. RightFor(z)
      BY <1>9, LiveIsRight
    <2>2. /\ OfItself(s.dec.cache) /\ SameReq(s.dec.last, z.last)
          /\ NoTok(z.buf) /\ Ours(z) => Ours(s.dec)
      BY <1>3, <2>1 DEF Scanned
    <2>3. InOrder(s.dec)
      BY <1>3, <2>1 DEF Scanned, Moved, RightFor
    <2>4. OwnBytes(data, y.last)
      BY <1>7, <1>9, <2>2, OwnAll DEF Live
    <2>5. \A j \in 1..Len(b) : b[j] = data[i] /\ j = 1
      BY <1>5
    <2>6. OwnBytes(b, y.last) /\ OneTok(b)
      BY <2>4, <2>5 DEF OwnBytes, OneTok
    <2>7. ~NoTok(b) => Tok(data[i])
      BY <2>5 DEF NoTok
    <2>8. \A j \in 1..Len(data) : Tok(data[i]) /\ j > i => ~Tok(data[j])
      BY <1>1, <1>9 DEF Live, OneTok
    <2>9. w => NoTok(b) /\ NoTok(data)
      BY <1>9, <2>5 DEF Live, NoTok
    <2>10. ASSUME w \/ ~NoTok(b) \/ (\E j \in 1..Len(data) : j > i /\ Tok(data[j])) PROVE Ours(s.dec)
      <3>1. w \/ \E j \in 1..Len(data) : j > i - 1 /\ Tok(data[j])
        <4>1. i > i - 1 /\ \A j \in 1..Len(data) : j > i => j > i - 1
          BY <1>1
        <4> QED BY <2>7, <2>10, <4>1
      <3>2. NoTok(z.buf) /\ Ours(z)
        BY <1>9, <3>1 DEF Live
      <3> QED BY <2>2, <3>2
    <2>11. InOrder(y) /\ (Ours(s.dec) => Ours(y))
      BY <1>7, <2>3 DEF InOrder, Ours
    <2>12. SameReq(y.last, r)
      BY <1>7, <1>9, <2>2, SameTwice DEF Live
    <2> QED BY <1>7, <1>9, <2>2, <2>4, <2>6, <2>7, <2>8, <2>9, <2>10, <2>11, <2>12 DEF Live
  <1>10. ASSUME NEW c, LastOf(z, data, i - 1, c) PROVE LastOf(y, data, i, c)
    <2>1. i - 1 \in 0..Len(data)
      BY <1>1
    <2>2. Short(data) => y.cache = c
      <3>1. ASSUME Short(data) PROVE y.cache = c
        <4>1. Short(z.buf)
          BY <1>10, <2>1, <3>1, LastIsShort
        <4>2. s.dec.cache = z.cache
          BY <1>3, <4>1 DEF Scanned
        <4>3. z.cache = c
          BY <1>10, <3>1 DEF LastOf
        <4> QED BY <1>7, <4>2, <4>3
      <3> QED BY <3>1
    <2>3. Len(b) <= i /\ \A j \in 1..Len(b) : b[j] = data[i - Len(b) + j]
      <3>1. ASSUME NEW j \in 1..Len(b) PROVE b[j] = data[i - Len(b) + j]
        <4>1. j = 1 /\ i - Len(b) + j = i
          BY <1>1, <1>5
        <4> QED BY <1>5, <4>1
      <3> QED BY <1>1, <1>5, <3>1
    <2> QED BY <1>7, <2>2, <2>3 DEF LastOf
  <1> QED BY <1>2, <1>4, <1>6, <1>8, <1>9, <1>10

\* What y has of z and of the bytes up to i.
Takes(z, data, i, y) ==
    /\ \A w \in BOOLEAN : \A r : Live(z, data, i - 1, w, r) => Live(y, data, i, w, r)
    /\ \A c : LastOf(z, data, i - 1, c) => LastOf(y, data, i, c)

LEMMA AddByteIs ==
    ASSUME MbSizes, NEW z \in Decs, NEW data \in Seq(MbBytes), NEW i \in 1..Len(data)
    PROVE  Goes(z, AddByte(z, data[i])) /\ Takes(z, data, i, AddByte(z, data[i]))
  <1>1. CASE Len(z.buf) < BufMax
    <2>1. AddByte(z, data[i]) = [z EXCEPT !.buf = Append(@, data[i])]
      BY <1>1 DEF AddByte
    <2>2. PICK y : y = [z EXCEPT !.buf = Append(@, data[i])]
      OBVIOUS
    <2>3. Goes(z, y) /\ Takes(z, data, i, y)
      BY <1>1, <2>2, ByteAppended DEF Takes
    <2> QED BY <2>1, <2>2, <2>3
  <1>2. CASE ~(Len(z.buf) < BufMax)
    <2>1. AddByte(z, data[i]) = [Scan(z).dec EXCEPT !.buf = <<data[i]>>]
      BY <1>2 DEF AddByte
    <2>2. PICK y : y = [Scan(z).dec EXCEPT !.buf = <<data[i]>>]
      OBVIOUS
    <2>3. Goes(z, y) /\ Takes(z, data, i, y)
      BY <2>2, ByteAfterAll DEF Takes
    <2> QED BY <2>1, <2>2, <2>3
  <1> QED BY <1>1, <1>2

\* Decoding what has been collected so far.
LEMMA DrainIs ==
    ASSUME MbSizes, NEW z \in Decs, NEW data \in Seq(MbBytes)
    PROVE  /\ Goes(z, Drain(z))
           /\ \A w \in BOOLEAN : \A r : Live(z, data, Len(data), w, r) => Live(Drain(z), data, Len(data), w, r)
           /\ \A c : LastOf(z, data, Len(data), c) => LastOf(Drain(z), data, Len(data), c)
  <1>1. CASE Len(z.buf) <= Threshold
    BY <1>1 DEF Drain, Goes
  <1>2. CASE ~(Len(z.buf) <= Threshold)
    <2>1. PICK s : s = Scan(z)
      OBVIOUS
    <2>2. Scanned(z, s) /\ s.dec \in Decs /\ s.dec.buf = z.buf
      BY <2>1, ScanIs DEF Scanned, Moved
    <2>3. /\ z.buf \in Seq(MbBytes) /\ Len(z.buf) \in Nat /\ Len(z.buf) <= BufMax /\ s.next \in 0..Len(z.buf)
          /\ Len(data) \in Nat /\ BufMax \in Nat
      BY <2>2 DEF Decs, MbBufs, Scanned, MbSizes
    <2>4. PICK b : b = SubSeq(z.buf, s.next + 1, Len(z.buf))
      OBVIOUS
    <2>5. /\ b \in Seq(MbBytes) /\ Len(b) = Len(z.buf) - s.next
          /\ \A j \in 1..(Len(z.buf) - s.next) : b[j] = z.buf[s.next + j]
      BY <2>3, <2>4
    <2>6. \A j \in 1..Len(b) : s.next + j \in 1..Len(z.buf) /\ s.next + j > s.next /\ b[j] = z.buf[s.next + j]
      BY <2>3, <2>5
    <2>7. b \in MbBufs
      BY <2>3, <2>5 DEF MbBufs
    <2>8. PICK y : y = [s.dec EXCEPT !.buf = b]
      OBVIOUS
    <2>9. Drain(z) = y
      BY <1>2, <2>1, <2>2, <2>4, <2>8 DEF Drain
    <2>10. /\ y \in Decs /\ y.buf = b /\ y.have = s.dec.have /\ y.age = s.dec.age /\ y.reqs = s.dec.reqs
           /\ y.last = s.dec.last /\ y.cache = s.dec.cache
      BY <2>2, <2>7, <2>8 DEF Decs
    <2>11. Goes(z, y)
      BY <2>2, <2>10 DEF Goes, Scanned, Moved
    <2>12. ASSUME NEW w \in BOOLEAN, NEW r, Live(z, data, Len(data), w, r) PROVE Live(y, data, Len(data), w, r)
      <3>1. RightFor(z)
        BY <2>12, LiveIsRight
      <3>2. /\ OfItself(s.dec.cache) /\ SameReq(s.dec.last, z.last)
            /\ (\E q \in 1..Len(z.buf) : q > s.next /\ Tok(z.buf[q])) => Ours(s.dec)
            /\ NoTok(z.buf) /\ Ours(z) => Ours(s.dec)
        BY <2>2, <3>1 DEF Scanned
      <3>3. InOrder(s.dec)
        BY <2>2, <3>1 DEF Scanned, Moved, RightFor
      <3>4. OwnBytes(data, y.last) /\ OwnBytes(z.buf, y.last)
        BY <2>10, <2>12, <3>2, OwnAll DEF Live
      <3>5. OwnBytes(b, y.last)
        BY <2>6, <3>4 DEF OwnBytes
      <3>6. OneTok(b)
        <4>1. ASSUME NEW j \in 1..Len(b), NEW k \in 1..Len(b), Tok(b[j]), Tok(b[k]) PROVE j = k
          <5>1. s.next + j = s.next + k
            BY <2>6, <2>12, <4>1 DEF Live, OneTok
          <5>2. Len(b) \in Nat /\ s.next \in Int
            BY <2>3, <2>5
          <5> QED BY <5>1, <5>2
        <4> QED BY <4>1 DEF OneTok
      <3>7. ~NoTok(b) => ~NoTok(z.buf) /\ \E q \in 1..Len(z.buf) : q > s.next /\ Tok(z.buf[q])
        BY <2>6 DEF NoTok
      <3>8. \A j \in 1..Len(data) : ~(j > Len(data))
        BY <2>3
      <3>9. w => NoTok(b) /\ NoTok(data) /\ NoTok(z.buf) /\ Ours(z)
        BY <2>12, <3>7 DEF Live
      <3>10. w \/ ~NoTok(b) => Ours(s.dec)
        BY <3>2, <3>7, <3>9
      <3>11. InOrder(y) /\ (Ours(s.dec) => Ours(y))
        BY <2>10, <3>3 DEF InOrder, Ours
      <3>12. OneTok(data)
        BY <2>12 DEF Live
      <3>13. SameReq(y.last, r)
        BY <2>10, <2>12, <3>2, SameTwice DEF Live
      <3> QED BY <2>10, <3>2, <3>4, <3>5, <3>6, <3>8, <3>9, <3>10, <3>11, <3>12, <3>13 DEF Live
    <2>13. ASSUME NEW c, LastOf(z, data, Len(data), c) PROVE LastOf(y, data, Len(data), c)
      <3>1. Short(data) => y.cache = c
        <4>1. ASSUME Short(data) PROVE y.cache = c
          <5>1. Len(data) \in 0..Len(data)
            BY <2>3
          <5>2. Short(z.buf)
            BY <2>13, <4>1, <5>1, LastIsShort
          <5>3. s.dec.cache = z.cache
            BY <2>2, <5>2 DEF Scanned
          <5> QED BY <2>10, <2>13, <4>1, <5>3 DEF LastOf
        <4> QED BY <4>1
      <3>2. Len(z.buf) <= Len(data) /\ \A j \in 1..Len(z.buf) : z.buf[j] = data[Len(data) - Len(z.buf) + j]
        BY <2>13 DEF LastOf
      <3>3. Len(b) <= Len(data)
        BY <2>3, <2>5, <3>2
      <3>4. ASSUME NEW j \in 1..Len(b) PROVE b[j] = data[Len(data) - Len(b) + j]
        <4>1. PICK k \in 1..Len(z.buf) : k = s.next + j
          BY <2>6
        <4>1a. Len(z.buf) \in Int /\ s.next \in Int /\ Len(data) \in Int /\ j \in Int /\ Len(b) = Len(z.buf) - s.next
          BY <2>3, <2>5
        <4>2. Len(data) - Len(z.buf) + k = Len(data) - Len(b) + j
          BY <4>1, <4>1a
        <4> QED BY <2>6, <3>2, <4>1, <4>2
      <3> QED BY <2>10, <3>1, <3>3, <3>4 DEF LastOf
    <2> QED BY <2>9, <2>11, <2>12, <2>13
  <1> QED BY <1>1, <1>2

\* The same between two loops, where data waits to be read.
Ready(x, data, w, r) ==
    /\ OfItself(x.cache) /\ OldFirst(x.reqs) /\ (x.buf # <<>> => InOrder(x)) /\ SameReq(x.last, r)
    /\ OwnBytes(x.buf, x.last) /\ OneTok(x.buf) /\ OwnBytes(data, x.last) /\ OneTok(data)
    /\ ~NoTok(x.buf) => NoTok(data)
    /\ w => NoTok(x.buf) /\ NoTok(data)
    /\ w \/ ~NoTok(x.buf) \/ ~NoTok(data) => Ours(x)

LEMMA FinalizedReady ==
    ASSUME MbSizes, NEW x \in Decs, NEW data, NEW w \in BOOLEAN, NEW r, Ready(x, data, w, r)
    PROVE  Ready(Finalize(x), data, w, r)
  <1>1. PICK y : y = Finalize(x)
    OBVIOUS
  <1>2. Finished(x, y)
    BY <1>1, FinalizeIs
  <1>3. CASE x.buf = <<>>
    BY <1>1, <1>2, <1>3 DEF Finished
  <1>4. CASE x.buf # <<>>
    <2>1. RightFor(x)
      BY <1>4 DEF Ready, RightFor
    <2>2. /\ OfItself(y.cache) /\ InOrder(y) /\ SameReq(y.last, x.last)
          /\ NoTok(x.buf) /\ Ours(x) => Ours(y)
      BY <1>2, <2>1 DEF Finished
    <2>3. y.buf = <<>> /\ NoTok(y.buf) /\ OwnBytes(y.buf, y.last) /\ OneTok(y.buf)
      BY <1>2 DEF Finished, NoTok, OwnBytes, OneTok
    <2>4. OwnBytes(data, y.last) /\ OneTok(data) /\ (w => NoTok(data))
      BY <2>2, OwnAll DEF Ready
    <2>5. w \/ ~NoTok(data) => Ours(y)
      BY <2>2 DEF Ready
    <2>6. OldFirst(y.reqs)
      BY <2>2 DEF InOrder
    <2>7. SameReq(y.last, r)
      BY <2>2, SameTwice DEF Ready
    <2> QED BY <1>1, <2>2, <2>3, <2>4, <2>5, <2>6, <2>7 DEF Ready
  <1> QED BY <1>3, <1>4

\* The ages of the requests are none below 0.
LEMMA NoneYoungerThanNow ==
    ASSUME MbSizes, NEW x \in Decs
    PROVE  NotYounger(x.reqs, 0) /\ x.last.age >= 0 /\ 0 \in Ages
  <1>1. \A a \in Ages : a >= 0
    BY MbOldIs
  <1>2. x.reqs \in Seq(MbReqs) /\ x.last \in MbReqs
    BY DEF Decs, MbQueues
  <1>3. \A i \in 1..Len(x.reqs) : x.reqs[i] \in MbReqs
    BY <1>2
  <1>4. 0 \in Ages
    BY MbOldIs
  <1> QED BY <1>1, <1>2, <1>3, <1>4 DEF MbReqs, NotYounger

\* What the decoder is when data was read.
Fed(x, data, y) ==
    /\ y \in Decs /\ y.have = TRUE /\ y.age = 0
    /\ \A w \in BOOLEAN : \A r : Ready(x, data, w, r) => Live(y, data, Len(data), w, r)
    /\ (x.buf = <<>> \/ (x.have /\ x.age > Gap)) /\ Short(data) => Short(y.buf) /\ Lasts(x, y)

LEMMA FeedIs ==
    ASSUME MbSizes, NEW x \in Decs, NEW data \in Seq(MbBytes)
    PROVE  Fed(x, data, Feed(x, data))
  <1>1. PICK e : e = IF x.have /\ x.age > Gap THEN Finalize(x) ELSE x
    OBVIOUS
  <1>2. e \in Decs /\ \A w \in BOOLEAN : \A r : Ready(x, data, w, r) => Ready(e, data, w, r)
    <2>1. Finished(x, Finalize(x))
      BY FinalizeIs
    <2> QED BY <1>1, <2>1, FinalizedReady DEF Finished
  <1>2a. x.buf = <<>> \/ (x.have /\ x.age > Gap) => e.buf = <<>> /\ Lasts(x, e)
    <2>1. Finished(x, Finalize(x))
      BY FinalizeIs
    <2>2. x.buf = <<>> => e = x
      BY <1>1, <2>1 DEF Finished
    <2>3. CASE x.buf = <<>>
      BY <2>2, <2>3 DEF Lasts
    <2>4. CASE x.have /\ x.age > Gap
      <3>1. e = Finalize(x)
        BY <1>1, <2>4
      <3> QED BY <2>1, <3>1 DEF Finished
    <2> QED BY <2>3, <2>4
  <1>3. PICK b : b = [e EXCEPT !.age = 0, !.have = TRUE]
    OBVIOUS
  <1>4. /\ b \in Decs /\ b.buf = e.buf /\ b.have = TRUE /\ b.age = 0 /\ b.reqs = e.reqs /\ b.last = e.last
        /\ b.cache = e.cache
    BY <1>2, <1>3, NoneYoungerThanNow DEF Decs
  <1>5. ASSUME NEW w \in BOOLEAN, NEW r, Ready(e, data, w, r) PROVE Live(b, data, 0, w, r)
    <2>1. InOrder(b)
      BY <1>2, <1>4, <1>5, NoneYoungerThanNow DEF Ready, InOrder
    <2>2. \A j \in 1..Len(data) : j > 0
      OBVIOUS
    <2>3. (\E j \in 1..Len(data) : Tok(data[j])) => ~NoTok(data)
      BY DEF NoTok
    <2>4. ~NoTok(b.buf) => \A j \in 1..Len(data) : ~Tok(data[j])
      BY <1>4, <1>5 DEF Ready, NoTok
    <2>5. w \/ ~NoTok(b.buf) \/ (\E j \in 1..Len(data) : Tok(data[j])) => Ours(b)
      BY <1>4, <1>5, <2>3 DEF Ready, Ours
    <2> QED BY <1>4, <1>5, <2>1, <2>2, <2>4, <2>5 DEF Ready, Live
  <1>5a. e.buf = <<>> => LastOf(b, data, 0, e.cache)
    BY <1>4 DEF LastOf
  <1> DEFINE N     == Len(data)
             S     == Decs
             F     == [n \in 1..N |-> [z \in S |-> AddByte(z, data[n])]]
             Eq(g) == g = [n \in 0..N |-> IF n = 0 THEN b ELSE AddByte(g[n - 1], data[n])]
             h     == CHOOSE g : Eq(g)
  <1>6. N \in Nat /\ b \in S
    BY <1>4
  <1>7. F \in Moves(S, N)
    <2>1. ASSUME NEW n \in 1..N, NEW z \in S PROVE AddByte(z, data[n]) \in S
      BY AddByteIs DEF Goes
    <2> HIDE DEF S
    <2> QED BY <2>1 DEF Moves
  <1>8. \A n \in 1..N : \A z \in S : F[n][z] = AddByte(z, data[n])
    OBVIOUS
  <1> HIDE DEF F, S
  <1>9. PICK g : IsRun(g, S, N, b, F)
    BY <1>6, <1>7, IterExists
  <1>10. Eq(g)
    <2>1. ASSUME NEW n \in 1..N PROVE g[n] = AddByte(g[n - 1], data[n])
      <3>1. g[n - 1] \in S /\ g[n] = F[n][g[n - 1]]
        BY <1>6, <1>9 DEF IsRun
      <3> QED BY <1>8, <3>1
    <2>2. g \in [0..N -> S] /\ g[0] = b
      BY <1>9 DEF IsRun
    <2>3. \A n \in 0..N : n # 0 => n \in 1..N
      BY <1>6
    <2> QED BY <2>1, <2>2, <2>3
  <1>11. Eq(h)
    <2> HIDE DEF Eq
    <2> QED BY <1>10
  <1>12. Feed(x, data) = Drain(h[N])
    BY <1>1, <1>3 DEF Feed
  <1> HIDE DEF h
  <1>13. h[0] = b /\ \A n \in 1..N : h[n] = AddByte(h[n - 1], data[n])
    <2>1. \A n \in 0..N : h[n] = IF n = 0 THEN b ELSE AddByte(h[n - 1], data[n])
      BY <1>11
    <2> HIDE DEF Eq
    <2>2. 0 \in 0..N /\ \A n \in 1..N : n \in 0..N /\ n # 0
      BY <1>6
    <2> QED BY <2>1, <2>2
  <1> DEFINE T == {n \in 0..N : /\ h[n] \in Decs /\ h[n].have = TRUE /\ h[n].age = 0
                                /\ \A w \in BOOLEAN : \A r : Ready(e, data, w, r) => Live(h[n], data, n, w, r)
                                /\ e.buf = <<>> => LastOf(h[n], data, n, e.cache)}
  <1>14. 0 \in T
    BY <1>4, <1>5, <1>5a, <1>6, <1>13
  <1>15. ASSUME NEW i \in 1..N, i - 1 \in T PROVE i \in T
    <2>1. i \in 0..N /\ i \in 1..Len(data)
      BY <1>6
    <2>2. PICK z \in Decs : z = h[i - 1]
      BY <1>15
    <2>3. /\ z.have = TRUE /\ z.age = 0 /\ \A w \in BOOLEAN : \A r : Ready(e, data, w, r) => Live(z, data, i - 1, w, r)
          /\ e.buf = <<>> => LastOf(z, data, i - 1, e.cache)
      BY <1>15, <2>2
    <2>4. PICK y : y = AddByte(z, data[i])
      OBVIOUS
    <2>5. /\ Goes(z, y) /\ \A w \in BOOLEAN : \A r : Live(z, data, i - 1, w, r) => Live(y, data, i, w, r)
          /\ \A c : LastOf(z, data, i - 1, c) => LastOf(y, data, i, c)
      BY <2>1, <2>4, AddByteIs DEF Takes
    <2>6. h[i] = y
      BY <1>13, <2>2, <2>4
    <2> QED BY <2>1, <2>3, <2>5, <2>6 DEF Goes
  <1>15a. \A i \in 1..N : i - 1 \in T => i \in T
    BY <1>15
  <1> HIDE DEF T, N
  <1>16. N \in T
    <2>1. \A i \in 0..N : i \in T
      BY <1>6, <1>14, <1>15a, Climb
    <2> QED BY <1>6, <2>1
  <1>17. PICK z \in Decs : z = h[N]
    BY <1>16 DEF T
  <1>18. /\ z.have = TRUE /\ z.age = 0
         /\ \A w \in BOOLEAN : \A r : Ready(e, data, w, r) => Live(z, data, Len(data), w, r)
         /\ e.buf = <<>> => LastOf(z, data, Len(data), e.cache)
    BY <1>16, <1>17 DEF T, N
  <1>19. PICK y : y = Drain(z)
    OBVIOUS
  <1>20. /\ Goes(z, y) /\ \A w \in BOOLEAN : \A r : Live(z, data, Len(data), w, r) => Live(y, data, Len(data), w, r)
         /\ \A c : LastOf(z, data, Len(data), c) => LastOf(y, data, Len(data), c)
    BY <1>19, DrainIs
  <1>20a. ASSUME x.buf = <<>> \/ (x.have /\ x.age > Gap), Short(data) PROVE Short(y.buf) /\ Lasts(x, y)
    <2>1. e.buf = <<>> /\ Lasts(x, e)
      BY <1>2a, <1>20a
    <2>2. LastOf(y, data, Len(data), e.cache)
      BY <1>18, <1>20, <2>1
    <2>3. y \in Decs /\ Len(data) \in 0..Len(data)
      BY <1>20 DEF Goes
    <2>4. Short(y.buf)
      BY <1>20a, <2>2, <2>3, LastIsShort
    <2>5. y.cache = e.cache
      BY <1>20a, <2>2 DEF LastOf
    <2> QED BY <2>1, <2>4, <2>5 DEF Lasts
  <1>21. Fed(x, data, y)
    BY <1>2, <1>18, <1>20, <1>20a DEF Fed, Goes
  <1> QED BY <1>12, <1>17, <1>19, <1>21

Flushed(x, y) ==
    /\ y \in Decs /\ y.buf = <<>> /\ y.have = FALSE /\ y.age = x.age /\ Lasts(x, y)
    /\ \A w \in BOOLEAN : \A r : Ready(x, <<>>, w, r) => Ready(y, <<>>, w, r)

LEMMA FlushIs ==
    ASSUME MbSizes, NEW x \in Decs
    PROVE  Flushed(x, Flush(x))
  <1>1. PICK z : z = Finalize(x)
    OBVIOUS
  <1>2. Finished(x, z)
    BY <1>1, FinalizeIs
  <1>3. PICK y : y = [z EXCEPT !.have = FALSE]
    OBVIOUS
  <1>4. /\ y \in Decs /\ y.buf = z.buf /\ y.have = FALSE /\ y.age = z.age /\ y.reqs = z.reqs /\ y.last = z.last
        /\ y.cache = z.cache
    BY <1>2, <1>3 DEF Decs, Finished
  <1>5. ASSUME NEW w \in BOOLEAN, NEW r, Ready(x, <<>>, w, r) PROVE Ready(y, <<>>, w, r)
    <2>1. Ready(z, <<>>, w, r)
      BY <1>1, <1>5, FinalizedReady
    <2> QED BY <1>4, <2>1 DEF Ready, Ours, InOrder
  <1>5a. Lasts(x, y)
    BY <1>2, <1>4 DEF Lasts, Finished
  <1>6. Flushed(x, y)
    BY <1>2, <1>4, <1>5, <1>5a DEF Flushed, Finished
  <1> QED BY <1>1, <1>3, <1>6 DEF Flush

-----------------------------------------------------------------------------
(* The loop grows older.                                                   *)

LEMMA MbGrownIs ==
    ASSUME MbSizes, NEW a \in Ages
    PROVE  /\ Grown(a) \in Ages /\ Grown(a) >= a
           /\ a < MbOld => Grown(a) = a + 1
           /\ \A b \in Ages : a >= b => Grown(a) >= Grown(b)
  BY MbOldIs DEF Grown, MbOld

LEMMA GrownAfter ==
    ASSUME MbSizes, NEW a \in Ages, NEW h \in Ages, a >= h - 1
    PROVE  Grown(a) >= Grown(h) - 1
  BY MbOldIs DEF Grown, MbOld

LEMMA OlderRequests ==
    ASSUME MbSizes, NEW s \in MbQueues, NEW t, t = [i \in DOMAIN s |-> Older(s[i])]
    PROVE  /\ t \in MbQueues /\ Len(t) = Len(s) /\ \A i \in 1..Len(s) : SameReq(t[i], s[i])
           /\ OldFirst(s) => OldFirst(t)
           /\ \A a \in Ages : NotYounger(s, a) => NotYounger(t, Grown(a))
  <1>1. s \in Seq(MbReqs) /\ Len(s) \in Nat /\ Len(s) <= QueueLen /\ DOMAIN s = 1..Len(s)
    BY DEF MbQueues
  <1>2. ASSUME NEW i \in 1..Len(s)
        PROVE  /\ s[i].age \in Ages /\ t[i] \in MbReqs /\ t[i].age = Grown(s[i].age)
               /\ SameReq(t[i], s[i])
    <2>1. PICK r \in MbReqs : r = s[i]
      BY <1>1
    <2>2. t[i] = Older(r)
      BY <1>1, <2>1
    <2>3. r.age \in Ages /\ Grown(r.age) \in Ages
      BY MbGrownIs DEF MbReqs
    <2>4. PICK e : e = Older(r)
      OBVIOUS
    <2>5. e \in MbReqs /\ e.age = Grown(r.age) /\ e.dev = r.dev /\ e.start = r.start /\ e.count = r.count
      BY <2>3, <2>4 DEF MbReqs, Older
    <2> QED BY <2>1, <2>2, <2>3, <2>4, <2>5 DEF SameReq
  <1>3. t \in Seq(MbReqs) /\ Len(t) = Len(s)
    <2>1. t \in [1..Len(s) -> MbReqs]
      BY <1>1, <1>2
    <2> QED BY <1>1, <2>1
  <1>4. t \in MbQueues
    BY <1>1, <1>3 DEF MbQueues
  <1>5. OldFirst(s) => OldFirst(t)
    <2>1. ASSUME OldFirst(s), NEW i \in 1..Len(s), NEW j \in 1..Len(s), i < j PROVE t[i].age >= t[j].age
      BY <1>2, <2>1, MbGrownIs DEF OldFirst
    <2> QED BY <1>3, <2>1 DEF OldFirst
  <1>6. ASSUME NEW a \in Ages, NotYounger(s, a) PROVE NotYounger(t, Grown(a))
    <2>1. ASSUME NEW i \in 1..Len(s) PROVE t[i].age >= Grown(a)
      BY <1>2, <1>6, MbGrownIs DEF NotYounger
    <2> QED BY <1>3, <2>1 DEF NotYounger
  <1> QED BY <1>2, <1>3, <1>4, <1>5, <1>6

LEMMA OlderValues ==
    ASSUME MbSizes, NEW s \in MbCaches, NEW t, t = [i \in DOMAIN s |-> Older(s[i])]
    PROVE  /\ t \in MbCaches /\ (OfItself(s) => OfItself(t))
           /\ \A h \in Ages : Past(s, h - 1) => Past(t, Grown(h) - 1)
  <1>1. s \in Seq(MbValues) /\ Len(s) \in Nat /\ Len(s) <= CacheMax /\ DOMAIN s = 1..Len(s) /\ Single(s)
    BY DEF MbCaches
  <1>2. ASSUME NEW i \in 1..Len(s)
        PROVE  /\ t[i] \in MbValues /\ t[i].reg = s[i].reg /\ t[i].from = s[i].from
               /\ s[i].age \in Ages /\ t[i].age = Grown(s[i].age)
    <2>1. PICK r \in MbValues : r = s[i]
      BY <1>1
    <2>2. t[i] = Older(r)
      BY <1>1, <2>1
    <2>3. r.age \in Ages /\ Grown(r.age) \in Ages
      BY MbGrownIs DEF MbValues
    <2>4. PICK e : e = Older(r)
      OBVIOUS
    <2>5. e \in MbValues /\ e.reg = r.reg /\ e.from = r.from /\ e.age = Grown(r.age)
      BY <2>3, <2>4 DEF MbValues, Older
    <2> QED BY <2>1, <2>2, <2>3, <2>4, <2>5
  <1>3. t \in Seq(MbValues) /\ Len(t) = Len(s)
    <2>1. t \in [1..Len(s) -> MbValues]
      BY <1>1, <1>2
    <2> QED BY <1>1, <2>1
  <1>4. Single(t)
    BY <1>1, <1>2, <1>3 DEF Single
  <1>5. OfItself(s) => OfItself(t)
    BY <1>2, <1>3 DEF OfItself
  <1>6. ASSUME NEW h \in Ages, Past(s, h - 1) PROVE Past(t, Grown(h) - 1)
    <2>1. ASSUME NEW i \in 1..Len(s) PROVE t[i].age >= Grown(h) - 1
      <3>1. s[i].age >= h - 1
        BY <1>6 DEF Past
      <3> QED BY <1>2, <3>1, GrownAfter
    <2> QED BY <1>3, <2>1 DEF Past
  <1> QED BY <1>1, <1>3, <1>4, <1>5, <1>6 DEF MbCaches

MbOlder(x, y) ==
    /\ y \in Decs /\ y.buf = x.buf /\ y.have = x.have /\ y.age = Grown(x.age)
    /\ \A data : \A w \in BOOLEAN : \A r : Ready(x, data, w, r) => Ready(y, data, w, r)
    /\ \A h \in Ages : Past(x.cache, h - 1) => Past(y.cache, Grown(h) - 1)

LEMMA AgedIs ==
    ASSUME MbSizes, NEW x \in Decs
    PROVE  MbOlder(x, Aged(x))
  <1>0. /\ x.last \in MbReqs /\ x.last.age \in Ages /\ x.age \in Ages /\ x.reqs \in MbQueues
        /\ x.cache \in MbCaches
    BY DEF Decs, MbReqs
  <1>1. PICK q : q = [i \in DOMAIN x.reqs |-> Older(x.reqs[i])]
    OBVIOUS
  <1>2. PICK c : c = [i \in DOMAIN x.cache |-> Older(x.cache[i])]
    OBVIOUS
  <1>3. PICK l : l = Older(x.last)
    OBVIOUS
  <1>4. Aged(x) = [x EXCEPT !.age = Grown(x.age), !.last = l, !.reqs = q, !.cache = c]
    <2>1. PICK z : z = [x EXCEPT !.age = Grown(x.age)]
      OBVIOUS
    <2>2. z.last = x.last /\ z.reqs = x.reqs /\ z.cache = x.cache
      BY <2>1 DEF Decs
    <2>3. Older(x) = z
      BY <2>1 DEF Older
    <2>4. Aged(x) = [z EXCEPT !.last = l, !.reqs = q, !.cache = c]
      BY <1>1, <1>2, <1>3, <2>2, <2>3 DEF Aged
    <2> QED BY <2>1, <2>4
  <1>5. /\ q \in MbQueues /\ Len(q) = Len(x.reqs) /\ \A i \in 1..Len(x.reqs) : SameReq(q[i], x.reqs[i])
        /\ OldFirst(x.reqs) => OldFirst(q)
        /\ \A a \in Ages : NotYounger(x.reqs, a) => NotYounger(q, Grown(a))
    BY <1>0, <1>1, OlderRequests
  <1>6. /\ c \in MbCaches /\ (OfItself(x.cache) => OfItself(c))
        /\ \A h \in Ages : Past(x.cache, h - 1) => Past(c, Grown(h) - 1)
    BY <1>0, <1>2, OlderValues
  <1>7. l \in MbReqs /\ SameReq(l, x.last) /\ l.age = Grown(x.last.age)
    <2>1. Grown(x.last.age) \in Ages
      BY <1>0, MbGrownIs
    <2> QED BY <1>0, <1>3, <2>1 DEF MbReqs, SameReq, Older
  <1>8. PICK y : y = [x EXCEPT !.age = Grown(x.age), !.last = l, !.reqs = q, !.cache = c]
    OBVIOUS
  <1>9. /\ y \in Decs /\ y.buf = x.buf /\ y.have = x.have /\ y.age = Grown(x.age) /\ y.reqs = q /\ y.last = l
        /\ y.cache = c
    <2>1. Grown(x.age) \in Ages
      BY <1>0, MbGrownIs
    <2> QED BY <1>5, <1>6, <1>7, <1>8, <2>1 DEF Decs
  <1>10. InOrder(x) => InOrder(y)
    BY <1>0, <1>5, <1>7, <1>9, MbGrownIs DEF InOrder
  <1>11. Ours(x) => Ours(y)
    <2>1. ASSUME Ours(x) PROVE Ours(y)
      <3>1. Len(x.reqs) \in 1..Len(x.reqs)
        BY <1>0, <2>1 DEF Ours, MbQueues
      <3>2. SameReq(q[Len(q)], x.reqs[Len(x.reqs)])
        BY <1>5, <3>1
      <3> QED BY <1>5, <1>7, <1>9, <2>1, <3>2 DEF Ours, SameReq
    <2> QED BY <2>1
  <1>12. ASSUME NEW data, NEW w \in BOOLEAN, NEW r, Ready(x, data, w, r) PROVE Ready(y, data, w, r)
    <2>1. OwnBytes(x.buf, l) /\ OwnBytes(data, l) /\ SameReq(l, r)
      BY <1>7, <1>12, OwnAll, SameTwice DEF Ready
    <2> QED BY <1>5, <1>6, <1>9, <1>10, <1>11, <1>12, <2>1 DEF Ready
  <1> QED BY <1>4, <1>6, <1>8, <1>9, <1>12 DEF MbOlder

-----------------------------------------------------------------------------
(* The line.                                                               *)

\* A part of frame f, from its byte a on.
LEMMA MbPartIs ==
    ASSUME MbSizes, NEW f \in MbFrames, NEW a \in Nat \ {0}, NEW n \in Nat, n <= Size(f),
           NEW p, p = SubSeq(Bytes(f), a, n)
    PROVE  /\ p \in Seq(MbBytes) /\ OneTok(p) /\ (a > 1 => NoTok(p))
           /\ \A r : Own(f, r) => OwnBytes(p, r)
           /\ f.kind \notin {"resp", "wide", "word", "exc"} => NoTok(p)
  <1>1. PICK m \in Nat \ {0} : m = Size(f)
    BY MbSizeIs
  <1>2. PICK b : b = Bytes(f)
    OBVIOUS
  <1>3. b = [i \in 1..m |-> <<f, i>>]
    BY <1>1, <1>2 DEF Bytes
  <1>4. b \in Seq(MbBytes) /\ Len(b) = m /\ \A i \in 1..m : b[i] = <<f, i>>
    <2>1. \A i \in 1..m : <<f, i>> \in MbBytes
      BY DEF MbBytes
    <2> QED BY <1>3, <2>1
  <1>5. /\ p \in Seq(MbBytes) /\ Len(p) \in Nat
        /\ \A i \in 1..Len(p) : p[i] = b[a + i - 1] /\ a + i - 1 \in 1..m
    BY <1>1, <1>2, <1>4
  <1>6. \A i \in 1..Len(p) : p[i][1] = f /\ p[i][2] = a + i - 1
    BY <1>4, <1>5
  <1>7. \A i \in 1..Len(p) : Tok(p[i]) => a + i - 1 = 1 /\ f.kind \in {"resp", "wide", "word", "exc"}
    BY <1>6 DEF Tok
  <1>8. OneTok(p)
    <2>1. \A i, j \in 1..Len(p) : a + i - 1 = 1 /\ a + j - 1 = 1 => i = j
      BY <1>5
    <2> QED BY <1>7, <2>1 DEF OneTok
  <1>9. a > 1 => NoTok(p)
    <2>1. \A i \in 1..Len(p) : a > 1 => a + i - 1 # 1
      BY <1>5
    <2> QED BY <1>7, <2>1 DEF NoTok
  <1>10. \A r : Own(f, r) => OwnBytes(p, r)
    BY <1>6 DEF OwnBytes
  <1>11. f.kind \notin {"resp", "wide", "word", "exc"} => NoTok(p)
    BY <1>7 DEF NoTok
  <1> QED BY <1>5, <1>8, <1>9, <1>10, <1>11

\* All of it.
LEMMA MbBytesAre ==
    ASSUME MbSizes, NEW f \in MbFrames
    PROVE  Bytes(f) \in Seq(MbBytes) /\ Bytes(f) = SubSeq(Bytes(f), 1, Size(f))
  <1>1. PICK m \in Nat \ {0} : m = Size(f)
    BY MbSizeIs
  <1>2. PICK b : b = Bytes(f)
    OBVIOUS
  <1>3. b = [i \in 1..m |-> <<f, i>>]
    BY <1>1, <1>2 DEF Bytes
  <1>4. b \in Seq(MbBytes) /\ Len(b) = m
    <2>1. \A i \in 1..m : <<f, i>> \in MbBytes
      BY DEF MbBytes
    <2> QED BY <1>3, <2>1
  <1>5. SubSeq(b, 1, m) = b
    <2>1. SubSeq(b, 1, m) \in Seq(MbBytes) /\ Len(SubSeq(b, 1, m)) = m /\ \A i \in 1..m : SubSeq(b, 1, m)[i] = b[i]
      BY <1>4
    <2> QED BY <1>4, <2>1
  <1> QED BY <1>1, <1>2, <1>4, <1>5

\* A part of an answer comes: what was to come is less than before.
LEMMA WireGrows ==
    ASSUME NEW x, NEW data \in Seq(MbBytes), NEW w \in BOOLEAN, NEW r, Ready(x, data, w, r),
           NEW p \in Seq(MbBytes), OneTok(p), OwnBytes(p, x.last), NoTok(p) \/ w,
           NEW v \in BOOLEAN, v => w /\ NoTok(p)
    PROVE  Ready(x, data \o p, v, r)
  <1>1. PICK q : q = data \o p
    OBVIOUS
  <1>2. /\ Len(data) \in Nat /\ Len(p) \in Nat /\ q \in Seq(MbBytes) /\ Len(q) = Len(data) + Len(p)
        /\ \A i \in 1..Len(data) : q[i] = data[i]
        /\ \A i \in 1..Len(p) : q[Len(data) + i] = p[i]
    BY <1>1
  <1>3. \A i \in 1..Len(q) : i \in 1..Len(data) \/ (i - Len(data) \in 1..Len(p) /\ q[i] = p[i - Len(data)])
    <2> SUFFICES ASSUME NEW i \in 1..Len(q), i \notin 1..Len(data)
                 PROVE  i - Len(data) \in 1..Len(p) /\ q[i] = p[i - Len(data)]
      OBVIOUS
    <2>1. i - Len(data) \in 1..Len(p) /\ Len(data) + (i - Len(data)) = i
      BY <1>2
    <2> QED BY <1>2, <2>1
  <1>4. OwnBytes(q, x.last)
    BY <1>2, <1>3 DEF OwnBytes, Ready
  <1>5. NoTok(data) /\ NoTok(p) => NoTok(q)
    BY <1>2, <1>3 DEF NoTok
  <1>6. OneTok(q)
    <2>1. CASE NoTok(p)
      <3>1. \A i \in 1..Len(q) : Tok(q[i]) => i \in 1..Len(data) /\ Tok(data[i])
        BY <1>2, <1>3, <2>1 DEF NoTok
      <3> QED BY <3>1 DEF OneTok, Ready
    <2>2. CASE w
      <3>1. \A i \in 1..Len(q) : Tok(q[i]) => i - Len(data) \in 1..Len(p) /\ Tok(p[i - Len(data)])
        BY <1>2, <1>3, <2>2 DEF NoTok, Ready
      <3>2. \A i, j \in 1..Len(q) : Tok(q[i]) /\ Tok(q[j]) => i - Len(data) = j - Len(data)
        BY <3>1 DEF OneTok
      <3>3. \A i, j \in 1..Len(q) : i - Len(data) = j - Len(data) => i = j
        BY <1>2
      <3> QED BY <3>2, <3>3 DEF OneTok
    <2> QED BY <2>1, <2>2
  <1>7. ~NoTok(x.buf) => NoTok(q)
    BY <1>5 DEF Ready
  <1>8. v => NoTok(x.buf) /\ NoTok(q)
    BY <1>5 DEF Ready
  <1>9. v \/ ~NoTok(x.buf) \/ ~NoTok(q) => Ours(x)
    BY <1>5 DEF Ready
  <1> QED BY <1>1, <1>4, <1>6, <1>7, <1>8, <1>9 DEF Ready

\* Nothing comes any more.
LEMMA NothingComes ==
    ASSUME NEW x, NEW data, NEW w \in BOOLEAN, NEW r, Ready(x, data, w, r)
    PROVE  Ready(x, data, FALSE, r)
  BY DEF Ready

-----------------------------------------------------------------------------
(* What is kept, and its kinds.                                            *)

LEMMA MbNewestAgeIs ==
    ASSUME MbSizes, NEW x \in Decs
    PROVE  /\ NewestAge(x, MbOld) \in Ages
           /\ x.cache = <<>> => NewestAge(x, MbOld) = MbOld
           /\ x.cache # <<>> => \E i \in 1..Len(x.cache) : NewestAge(x, MbOld) = x.cache[i].age
  <1>1. MbOld \in Ages /\ Ages \in SUBSET Nat
    BY MbOldIs
  <1>2. CASE x.cache = <<>>
    BY <1>1, <1>2 DEF NewestAge
  <1>3. CASE x.cache # <<>>
    <2>1. PICK c : c = x.cache
      OBVIOUS
    <2>2. c \in Seq(MbValues) /\ Len(c) \in Nat /\ Len(c) > 0 /\ DOMAIN c = 1..Len(c)
      BY <1>3, <2>1 DEF Decs, MbCaches
    <2>3. PICK A : A = {c[i].age : i \in DOMAIN c}
      OBVIOUS
    <2>4. A \in SUBSET Ages /\ A # {} /\ \A i \in DOMAIN c : c[i].age \in A
      <3>1. \A i \in DOMAIN c : c[i] \in MbValues
        BY <2>2
      <3>2. \A i \in DOMAIN c : c[i].age \in Ages
        BY <3>1 DEF MbValues
      <3>3. 1 \in DOMAIN c
        BY <2>2
      <3> QED BY <2>3, <3>2, <3>3
    <2>5. PICK m \in A : \A n \in A : m <= n
      BY <1>1, <2>4, LeastNumber
    <2>6. NewestAge(x, MbOld) = CHOOSE a \in A : \A i \in DOMAIN c : a <= c[i].age
      BY <1>3, <2>1, <2>3 DEF NewestAge
    <2>7. NewestAge(x, MbOld) \in A
      BY <2>4, <2>5, <2>6
    <2>8. \E i \in 1..Len(c) : NewestAge(x, MbOld) = c[i].age
      BY <2>2, <2>3, <2>7
    <2> QED BY <1>3, <2>1, <2>4, <2>7, <2>8
  <1> QED BY <1>2, <1>3

MbKinds   == {"resp", "wide", "word", "exc"}
MbAnswers == [frame : MbFrames, due : 0..(MaxDelay + 1), from : Nat]

MbHeld ==
    /\ d \in Decs /\ idx \in 1..Len(Blocks) /\ since \in 0..Period /\ faults \in 0..MaxFaults
    /\ wire \in Seq(MbBytes) /\ (answer = NoAnswer \/ answer \in MbAnswers)

MbShown ==
    /\ pubDue \in 0..PublishPeriod
    /\ \A p \in {model, packet} : p.valid \in BOOLEAN /\ p.stamp \in Ages

MbAround ==
    /\ cut \in BOOLEAN /\ gen \in Nat /\ cuts \in 0..MaxCuts /\ gen <= cuts /\ (cut => gen < cuts)
    /\ heard \in Ages

MbTyped == MbHeld /\ MbShown /\ MbAround

\* An answer, in two parts and with the gap after it, is over before the next request.
Settled   == \A n \in Delays : n + Gap + 3 <= Period
OneStatus == StatusBlocks \subseteq {StatusStart}

\* Of the answer that is due: none of it has come; how long the rest may take at least.
Coming(a) == a # NoAnswer /\ a.from = 0
Parts(a)  == IF a.from = 0 THEN 2 ELSE 1

\* What is on the line or in the buffer is over in time.
InTime ==
    /\ answer # NoAnswer => since + answer.due + Gap + Parts(answer) <= Period
    /\ wire # <<>> => since + Gap + 1 <= Period
    /\ d.buf # <<>> => d.have /\ d.age <= Gap /\ since + Gap <= Period + d.age

\* Of the answer to request r.
AnswersTo(a, r) == a # NoAnswer => Own(a.frame, r) /\ (a.from = 0 => a.frame.kind \in MbKinds)

MbRight ==
    /\ InTime /\ AnswersTo(answer, d.last)
    /\ Ready(d, wire, Coming(answer), d.last)

\* What is left to the loop when it has read the line.
MbReceived(y) ==
    /\ y \in Decs
    /\ MbRight => /\ Ready(y, <<>>, Coming(answer), d.last)
                  /\ y.buf # <<>> => y.have /\ y.age <= Gap /\ since + 1 + Gap <= Period + y.age
                  /\ since = Period => y.buf = <<>> /\ answer = NoAnswer

LEMMA LiveIsReady ==
    ASSUME NEW y, NEW data, NEW w \in BOOLEAN, NEW r, Live(y, data, Len(data), w, r)
    PROVE  Ready(y, <<>>, w, r)
  <1>1. NoTok(<<>>) /\ OwnBytes(<<>>, y.last) /\ OneTok(<<>>)
    BY DEF NoTok, OwnBytes, OneTok
  <1> QED BY <1>1 DEF Live, Ready, InOrder

LEMMA ReceivedIs ==
    ASSUME MbSizes, MbTyped
    PROVE  MbReceived(Received(Aged(d)))
  <1>0. /\ d \in Decs /\ d.age \in Ages /\ wire \in Seq(MbBytes) /\ since \in 0..Period
        /\ Period \in Nat /\ Gap \in Nat
    BY DEF MbTyped, MbHeld, Decs, MbSizes
  <1>1. PICK x : x = Aged(d)
    OBVIOUS
  <1>2. MbOlder(d, x)
    BY <1>0, <1>1, AgedIs
  <1>3. PICK w \in BOOLEAN : w = Coming(answer)
    BY DEF Coming
  <1>4. PICK r : r = d.last
    OBVIOUS
  <1>5. MbRight => Ready(x, wire, w, r)
    BY <1>2, <1>3, <1>4 DEF MbOlder, MbRight
  <1>6. PICK y : y = Received(x)
    OBVIOUS
  <1>7. /\ Grown(d.age) \in Int /\ d.age \in Int /\ Grown(d.age) >= d.age
        /\ d.age <= Gap => Grown(d.age) = d.age + 1
    BY <1>0, MbGrownIs, MbOldIs DEF MbSizes
  <1>8. CASE wire # <<>>
    <2>1. y = Feed(x, wire)
      BY <1>6, <1>8 DEF Received
    <2>2. Fed(x, wire, y)
      BY <1>0, <1>2, <2>1, FeedIs DEF MbOlder
    <2>3. ASSUME MbRight PROVE Ready(y, <<>>, w, r)
      <3>1. Live(y, wire, Len(wire), w, r)
        BY <1>5, <2>2, <2>3 DEF Fed
      <3> QED BY <3>1, LiveIsReady
    <2>4. MbRight => since + Gap + 1 <= Period
      BY <1>8 DEF MbRight, InTime
    <2>5. y.have /\ y.age = 0
      BY <2>2 DEF Fed
    <2>6. MbRight => since + 1 + Gap <= Period + y.age /\ y.age <= Gap /\ since # Period
      BY <1>0, <2>4, <2>5
    <2> QED BY <1>1, <1>3, <1>4, <1>6, <2>2, <2>3, <2>5, <2>6 DEF Fed, MbReceived
  <1>9. CASE wire = <<>> /\ x.have /\ x.age > Gap
    <2>1. y = Flush(x)
      BY <1>6, <1>9 DEF Received
    <2>2. Flushed(x, y)
      BY <1>2, <2>1, FlushIs DEF MbOlder
    <2>3. MbRight => Ready(y, <<>>, w, r)
      BY <1>5, <1>9, <2>2 DEF Flushed
    <2>4. y \in Decs /\ y.buf = <<>>
      BY <2>2 DEF Flushed
    <2>5. MbRight /\ since = Period => answer = NoAnswer
      <3>1. ASSUME MbRight, since = Period, answer # NoAnswer PROVE FALSE
        <4>1. answer \in MbAnswers /\ since + answer.due + Gap + Parts(answer) <= Period
          BY <3>1 DEF MbTyped, MbHeld, MbRight, InTime
        <4>2. answer.due \in Nat /\ Parts(answer) \in {1, 2}
          BY <4>1 DEF MbAnswers, Parts
        <4> QED BY <1>0, <3>1, <4>1, <4>2
      <3> QED BY <3>1
    <2> QED BY <1>1, <1>3, <1>4, <1>6, <2>3, <2>4, <2>5 DEF MbReceived
  <1>10. CASE wire = <<>> /\ ~(x.have /\ x.age > Gap)
    <2>1. y = x
      BY <1>6, <1>10 DEF Received
    <2>2. MbRight => Ready(y, <<>>, w, r)
      BY <1>5, <1>10, <2>1
    <2>3. ASSUME MbRight, y.buf # <<>>
          PROVE  y.have /\ y.age <= Gap /\ since + 1 + Gap <= Period + y.age /\ since # Period
      <3>1. d.have /\ d.age <= Gap /\ since + Gap <= Period + d.age
        BY <1>2, <2>1, <2>3 DEF MbOlder, MbRight, InTime
      <3>2. x.have /\ x.age = d.age + 1
        BY <1>2, <1>7, <3>1 DEF MbOlder
      <3>3. x.age <= Gap
        BY <1>0, <1>7, <1>10, <3>2
      <3> QED BY <1>0, <1>7, <2>1, <3>1, <3>2, <3>3
    <2>4. MbRight /\ since = Period => answer = NoAnswer
      <3>1. ASSUME MbRight, since = Period, answer # NoAnswer PROVE FALSE
        <4>1. answer \in MbAnswers /\ since + answer.due + Gap + Parts(answer) <= Period
          BY <3>1 DEF MbTyped, MbHeld, MbRight, InTime
        <4>2. answer.due \in Nat /\ Parts(answer) \in {1, 2}
          BY <4>1 DEF MbAnswers, Parts
        <4> QED BY <1>0, <3>1, <4>1, <4>2
      <3> QED BY <3>1
    <2> QED BY <1>1, <1>2, <1>3, <1>4, <1>6, <2>1, <2>2, <2>3, <2>4 DEF MbReceived, MbOlder
  <1> QED BY <1>8, <1>9, <1>10

-----------------------------------------------------------------------------
(* What the steps keep.                                                    *)

\* A step that concerns the decoder and the line.
MbHolds == Settled /\ OneStatus /\ MbRight => MbRight'

LEMMA NoAnswerIs ==
    /\ \A a \in MbAnswers : a # NoAnswer
    /\ ~Coming(NoAnswer) /\ \A r : AnswersTo(NoAnswer, r)
  <1>1. \A a \in MbAnswers : a.frame.kind # "none"
    BY DEF MbAnswers, MbFrames
  <1>2. NoAnswer.frame.kind = "none"
    BY DEF NoAnswer
  <1> QED BY <1>1, <1>2 DEF Coming, AnswersTo

LEMMA SoonerIs ==
    ASSUME MbSizes, MbTyped, answer # NoAnswer, answer.due > 0, NEW a, a = Sooner
    PROVE  a \in MbAnswers /\ a.due = answer.due - 1 /\ a.from = answer.from /\ a.frame = answer.frame
  <1>1. answer \in MbAnswers
    BY DEF MbTyped, MbHeld
  <1>2. a = [answer EXCEPT !.due = answer.due - 1]
    BY DEF Sooner
  <1>3. answer.due - 1 \in 0..(MaxDelay + 1)
    BY <1>1 DEF MbAnswers, MbSizes
  <1> QED BY <1>1, <1>2, <1>3 DEF MbAnswers

LEMMA MbNotDueHolds ==
    ASSUME MbSizes, MbTyped, NEW y, MbReceived(y), NotDue(y), answer = NoAnswer \/ answer.due > 0
    PROVE  MbHeld' /\ MbHolds
  <1>1. /\ d' = y /\ since' = since + 1 /\ since < Period /\ wire' = <<>> /\ answer' = Sooner
        /\ idx' = idx /\ faults' = faults
    BY DEF NotDue
  <1>2. /\ idx \in 1..Len(Blocks) /\ since \in 0..Period /\ faults \in 0..MaxFaults /\ Period \in Nat
        /\ answer = NoAnswer \/ answer \in MbAnswers
        /\ y \in Decs /\ Gap \in Nat
    BY DEF MbTyped, MbHeld, MbReceived, MbSizes
  <1>3. PICK a : a = answer'
    OBVIOUS
  <1>4. \/ answer = NoAnswer /\ a = NoAnswer
        \/ /\ answer # NoAnswer /\ a \in MbAnswers /\ a.due = answer.due - 1 /\ a.from = answer.from
           /\ a.frame = answer.frame
    <2>1. CASE answer = NoAnswer
      BY <1>1, <1>3, <2>1 DEF Sooner
    <2>2. CASE answer # NoAnswer
      BY <1>1, <1>3, <2>2, SoonerIs
    <2> QED BY <2>1, <2>2
  <1>5. MbHeld'
    <2>1. since' \in 0..Period /\ <<>> \in Seq(MbBytes)
      BY <1>1, <1>2
    <2> QED BY <1>1, <1>2, <1>3, <1>4, <2>1 DEF MbHeld
  <1>6. ASSUME MbRight PROVE MbRight'
    <2>1. PICK r : r = d.last
      OBVIOUS
    <2>2. /\ Ready(y, <<>>, Coming(answer), r)
          /\ y.buf # <<>> => y.have /\ y.age <= Gap /\ since + 1 + Gap <= Period + y.age
      BY <1>6, <2>1 DEF MbReceived
    <2>3. Coming(a) = Coming(answer)
      BY <1>4, NoAnswerIs DEF Coming
    <2>4. AnswersTo(a, y.last)
      <3>1. AnswersTo(answer, r) /\ SameReq(y.last, r)
        BY <1>6, <2>1, <2>2 DEF MbRight, Ready
      <3> QED BY <1>4, <3>1, NoAnswerIs, OwnSame DEF AnswersTo
    <2>5. a # NoAnswer => since + 1 + a.due + Gap + Parts(a) <= Period
      <3>1. CASE a = NoAnswer
        BY <3>1
      <3>2. CASE a # NoAnswer
        <4>1. answer \in MbAnswers /\ a.due = answer.due - 1 /\ Parts(a) = Parts(answer)
          BY <1>2, <1>4, <3>2 DEF Parts
        <4>2. answer.due \in Nat /\ Parts(answer) \in Nat
          BY <4>1 DEF MbAnswers, Parts
        <4>3. since + answer.due + Gap + Parts(answer) <= Period
          BY <1>4, <1>6, <3>2 DEF MbRight, InTime
        <4> QED BY <1>2, <4>1, <4>2, <4>3
      <3> QED BY <3>1, <3>2
    <2>6. Ready(y, <<>>, Coming(a), y.last)
      <3>1. SameReq(y.last, y.last)
        BY DEF SameReq
      <3> QED BY <2>2, <2>3, <3>1 DEF Ready
    <2> QED BY <1>1, <1>2, <1>3, <2>2, <2>4, <2>5, <2>6 DEF MbRight, InTime
  <1> QED BY <1>5, <1>6 DEF MbHolds

LEMMA MbWriteFailsHolds ==
    ASSUME MbSizes, MbTyped, NEW y, MbReceived(y), WriteFails(y), answer = NoAnswer \/ answer.due > 0
    PROVE  MbHeld' /\ MbHolds
  <1>1. /\ d' = y /\ since' = since /\ since = Period /\ wire' = <<>> /\ answer' = Sooner
        /\ idx' = idx /\ faults' = faults + 1 /\ faults < MaxFaults
    BY DEF WriteFails
  <1>2. /\ idx \in 1..Len(Blocks) /\ since \in 0..Period /\ faults \in 0..MaxFaults /\ Period \in Nat
        /\ answer = NoAnswer \/ answer \in MbAnswers
        /\ y \in Decs /\ MaxFaults \in Nat
    BY DEF MbTyped, MbHeld, MbReceived, MbSizes
  <1>3. PICK a : a = answer'
    OBVIOUS
  <1>4. (answer = NoAnswer /\ a = NoAnswer) \/ a \in MbAnswers
    <2>1. CASE answer = NoAnswer
      BY <1>1, <1>3, <2>1 DEF Sooner
    <2>2. CASE answer # NoAnswer
      BY <1>1, <1>3, <2>2, SoonerIs
    <2> QED BY <2>1, <2>2
  <1>5. MbHeld'
    <2>1. since' \in 0..Period /\ <<>> \in Seq(MbBytes) /\ faults' \in 0..MaxFaults
      BY <1>1, <1>2
    <2> QED BY <1>1, <1>2, <1>3, <1>4, <2>1 DEF MbHeld
  <1>6. ASSUME MbRight PROVE MbRight'
    <2>1. Ready(y, <<>>, Coming(answer), d.last) /\ y.buf = <<>> /\ answer = NoAnswer
      BY <1>1, <1>6 DEF MbReceived
    <2>2. a = NoAnswer
      BY <1>1, <1>3, <2>1 DEF Sooner
    <2>3. AnswersTo(a, y.last)
      BY <2>2, NoAnswerIs
    <2>4. Ready(y, <<>>, Coming(a), y.last)
      <3>1. SameReq(y.last, y.last)
        BY DEF SameReq
      <3> QED BY <2>1, <2>2, <3>1 DEF Ready
    <2> QED BY <1>1, <1>3, <2>1, <2>2, <2>3, <2>4 DEF MbRight, InTime
  <1> QED BY <1>5, <1>6 DEF MbHolds

\* What the request for block b is.
MbRequest(b) == [dev |-> Device, start |-> b.start, count |-> b.count, age |-> 0]

LEMMA MbBlockIs ==
    ASSUME MbSizes, NEW b \in MbBlocks, gen \in Nat
    PROVE  /\ Request(b) \in MbFrames /\ AnswerTo(b) \in MbFrames
           /\ Request(b).kind = "req" /\ AnswerTo(b).kind \in MbKinds
           /\ MbRequest(b) \in MbReqs /\ b.count # 0
           /\ \A r : SameReq(r, MbRequest(b)) =>
                  Own(Request(b), r) /\ (OneStatus => Own(AnswerTo(b), r))
  <1>1. /\ b.start \in Nat /\ b.count \in Nat \ {0} /\ b.kind \in {"resp", "wide", "word"}
        /\ b.first \in {"device", "function"} /\ Device \in Nat /\ 0 \in Ages
    BY MbOldIs DEF MbBlocks, MbSizes
  <1>2. Request(b) \in MbFrames /\ Request(b).kind = "req"
    BY <1>1 DEF Request, MbFrames
  <1>3. AnswerTo(b) \in MbFrames /\ AnswerTo(b).kind \in MbKinds
    BY <1>1 DEF AnswerTo, MbFrames, MbKinds
  <1>4. MbRequest(b) \in MbReqs
    BY <1>1 DEF MbRequest, MbReqs
  <1>5. ASSUME NEW r, SameReq(r, MbRequest(b)) PROVE Own(Request(b), r)
    BY <1>5 DEF SameReq, MbRequest, Request, Own
  <1>6. ASSUME NEW r, SameReq(r, MbRequest(b)), OneStatus PROVE Own(AnswerTo(b), r)
    <2>1. b.start \in StatusBlocks => b.start = StatusStart
      BY <1>6 DEF OneStatus
    <2> QED BY <1>6, <2>1 DEF SameReq, MbRequest, AnswerTo, Own
  <1> QED BY <1>1, <1>2, <1>3, <1>4, <1>5, <1>6

\* The decoder after a request.
LEMMA RecordRequestIs ==
    ASSUME MbSizes, NEW x \in Decs, NEW b \in MbBlocks, NEW y, y = RecordRequest(x, Device, b.start, b.count)
    PROVE  /\ y \in Decs /\ y.buf = x.buf /\ Ours(y) /\ y.last = MbRequest(b) /\ y.cache = x.cache
           /\ y.have = x.have /\ y.age = x.age
           /\ OldFirst(x.reqs) => OldFirst(y.reqs)
  <1>1. PICK r \in MbReqs : r = MbRequest(b) /\ r.age = 0
    <2>1. b.start \in Nat /\ b.count \in Nat /\ Device \in Nat /\ 0 \in Ages
      BY MbOldIs DEF MbBlocks, MbSizes
    <2>2. MbRequest(b) \in MbReqs /\ MbRequest(b).age = 0
      BY <2>1 DEF MbRequest, MbReqs
    <2> QED BY <2>2
  <1>2. b.count # 0 /\ x.reqs \in MbQueues
    BY DEF MbBlocks, Decs
  <1>3. PICK q : q = Push(x.reqs, r, 0)
    OBVIOUS
  <1>4. Pushed(x.reqs, r, q)
    BY <1>2, <1>3, PushIs
  <1>5. y = [x EXCEPT !.last = r, !.reqs = q]
    BY <1>1, <1>2, <1>3 DEF RecordRequest, Record, MbRequest
  <1>6. /\ y \in Decs /\ y.buf = x.buf /\ y.last = r /\ y.reqs = q /\ y.cache = x.cache
        /\ y.have = x.have /\ y.age = x.age
    BY <1>4, <1>5 DEF Decs, Pushed
  <1>7. OldFirst(x.reqs) => OldFirst(q)
    BY <1>1, <1>4, NoneYoungerThanNow DEF Pushed
  <1>8. Ours(y)
    BY <1>4, <1>6 DEF Ours, Pushed
  <1> QED BY <1>1, <1>6, <1>7, <1>8

\* What the BMS makes of a request.
LEMMA AskedIs ==
    ASSUME MbSizes, MbTyped, answer = NoAnswer \/ answer.due > 0, NEW b \in MbBlocks, Asked(b)
    PROVE  /\ answer' = NoAnswer \/ answer' \in MbAnswers
           /\ answer = NoAnswer =>
                 \/ answer' = NoAnswer
                 \/ \E n \in Delays : /\ answer'.frame = AnswerTo(b) /\ answer'.due = n /\ answer'.from = 0
                                      /\ answer' # NoAnswer
  <1>1. CASE (cut \/ answer # NoAnswer) /\ answer = NoAnswer
    <2>1. answer' = NoAnswer
      BY <1>1 DEF Asked, Sooner
    <2> QED BY <2>1
  <1>2. CASE answer # NoAnswer
    <2>1. PICK a : a = Sooner
      OBVIOUS
    <2>2. a \in MbAnswers
      BY <1>2, <2>1, SoonerIs
    <2>3. answer' = a
      BY <1>2, <2>1 DEF Asked
    <2> QED BY <1>2, <2>2, <2>3
  <1>3. CASE ~(cut \/ answer # NoAnswer)
    <2>1. PICK n \in Delays : answer' = [frame |-> AnswerTo(b), due |-> n, from |-> 0]
      BY <1>3 DEF Asked
    <2>2. PICK a : a = answer'
      OBVIOUS
    <2>3. a.frame = AnswerTo(b) /\ a.due = n /\ a.from = 0
      BY <2>1, <2>2
    <2>4. a \in MbAnswers
      <3>1. n \in 0..(MaxDelay + 1)
        BY DEF MbSizes
      <3>2. AnswerTo(b) \in MbFrames
        <4>1. gen \in Nat
          BY DEF MbTyped, MbAround
        <4> QED BY <4>1, MbBlockIs
      <3> QED BY <2>1, <2>2, <3>1, <3>2 DEF MbAnswers
    <2> QED BY <2>2, <2>3, <2>4, NoAnswerIs
  <1> QED BY <1>1, <1>2, <1>3

LEMMA MbPollHolds ==
    ASSUME MbSizes, MbTyped, NEW y, MbReceived(y), Poll(y), answer = NoAnswer \/ answer.due > 0
    PROVE  MbHeld' /\ MbHolds
  <1>1. PICK b : b = Blocks[idx]
    OBVIOUS
  <1>2. /\ d' = RecordRequest(y, Device, b.start, b.count)
        /\ since = Period /\ since' = 1 /\ idx' = NextBlock(idx) /\ faults' = faults
        /\ wire' = IF Echo THEN Bytes(Request(b)) ELSE <<>>
        /\ Asked(b)
    BY <1>1 DEF Poll
  <1>3. /\ idx \in 1..Len(Blocks) /\ faults \in 0..MaxFaults /\ Period \in Nat \ {0} /\ Gap \in Nat
        /\ answer = NoAnswer \/ answer \in MbAnswers
        /\ y \in Decs /\ gen \in Nat /\ Len(Blocks) \in Nat \ {0}
    BY DEF MbTyped, MbHeld, MbAround, MbReceived, MbSizes
  <1>4. b \in MbBlocks
    BY <1>1, <1>3 DEF MbSizes
  <1>5. PICK e : e = d'
    OBVIOUS
  <1>6. PICK a : a = answer'
    OBVIOUS
  <1>7. PICK u : u = wire'
    OBVIOUS
  <1>8. PICK r : r = MbRequest(b)
    OBVIOUS
  <1>9. /\ e \in Decs /\ e.buf = y.buf /\ Ours(e) /\ e.last = r /\ e.cache = y.cache
        /\ OldFirst(y.reqs) => OldFirst(e.reqs)
    BY <1>2, <1>3, <1>4, <1>5, <1>8, RecordRequestIs
  <1>10. SameReq(r, r)
    BY DEF SameReq
  <1>11. u \in Seq(MbBytes) /\ OneTok(u) /\ NoTok(u) /\ OwnBytes(u, r)
    <2>1. CASE Echo
      <3>1. PICK f \in MbFrames : f = Request(b)
        BY <1>3, <1>4, MbBlockIs
      <3>2. f.kind = "req" /\ Own(f, r)
        BY <1>3, <1>4, <1>8, <1>10, <3>1, MbBlockIs
      <3>3. u = SubSeq(Bytes(f), 1, Size(f))
        BY <1>2, <1>7, <2>1, <3>1, MbBytesAre
      <3>4. Size(f) \in Nat
        BY MbSizeIs
      <3>5. 1 \in Nat \ {0} /\ Size(f) <= Size(f)
        BY <3>4
      <3> QED BY <3>2, <3>3, <3>4, <3>5, MbPartIs
    <2>2. CASE ~Echo
      <3>1. u = <<>>
        BY <1>2, <1>7, <2>2
      <3> QED BY <3>1 DEF OneTok, NoTok, OwnBytes
    <2> QED BY <2>1, <2>2
  <1>12. a = NoAnswer \/ a \in MbAnswers
    BY <1>2, <1>4, <1>6, AskedIs
  <1>13. MbHeld'
    <2>1. idx' \in 1..Len(Blocks)
      BY <1>2, <1>3 DEF NextBlock
    <2>2. since' \in 0..Period
      BY <1>2, <1>3
    <2> QED BY <1>2, <1>3, <1>5, <1>6, <1>7, <1>9, <1>11, <1>12, <2>1, <2>2 DEF MbHeld
  <1>14. ASSUME Settled, OneStatus, MbRight PROVE MbRight'
    <2>1. Ready(y, <<>>, Coming(answer), d.last) /\ y.buf = <<>> /\ answer = NoAnswer
      BY <1>2, <1>14 DEF MbReceived
    <2>2. \/ a = NoAnswer
          \/ a # NoAnswer /\ \E n \in Delays : a.frame = AnswerTo(b) /\ a.due = n /\ a.from = 0
      BY <1>2, <1>4, <1>6, <2>1, AskedIs
    <2>3. AnswersTo(a, r)
      BY <1>3, <1>4, <1>8, <1>10, <1>14, <2>2, MbBlockIs DEF AnswersTo
    <2>4. a # NoAnswer => 1 + a.due + Gap + Parts(a) <= Period
      BY <1>3, <1>14, <2>2 DEF Settled, Parts, MbSizes
    <2>5. 1 + Gap + 1 <= Period
      <3>1. PICK n \in Delays : TRUE
        BY DEF MbSizes
      <3>2. n \in Nat /\ n + Gap + 3 <= Period
        BY <1>14 DEF Settled, MbSizes
      <3> QED BY <1>3, <3>2
    <2>6. NoTok(e.buf) /\ OneTok(e.buf) /\ OwnBytes(e.buf, e.last) /\ e.buf = <<>>
      BY <1>9, <2>1 DEF NoTok, OneTok, OwnBytes
    <2>7. OfItself(e.cache) /\ OldFirst(e.reqs)
      BY <1>9, <2>1 DEF Ready
    <2>8. Ready(e, u, Coming(a), r)
      BY <1>9, <1>10, <1>11, <2>6, <2>7 DEF Ready
    <2> QED BY <1>2, <1>5, <1>6, <1>7, <1>9, <2>3, <2>4, <2>5, <2>6, <2>8 DEF MbRight, InTime
  <1> QED BY <1>13, <1>14 DEF MbHolds

LEMMA MbShownIs ==
    ASSUME MbSizes, MbTyped, d' \in Decs, MaybePublish(d')
    PROVE  MbShown'
  <1>1. /\ pubDue \in 0..PublishPeriod /\ PublishPeriod \in Nat \ {0, 1}
        /\ \A p \in {model, packet} : p.valid \in BOOLEAN /\ p.stamp \in Ages
    BY DEF MbTyped, MbShown, MbSizes
  <1>2. CASE pubDue > 0
    BY <1>1, <1>2 DEF MaybePublish, MbShown
  <1>3. CASE ~(pubDue > 0)
    <2>1. PICK p : p = Built(d')
      OBVIOUS
    <2>2. PICK q : q = Nothing
      OBVIOUS
    <2>3. p.valid \in BOOLEAN /\ p.stamp \in Ages
      <3>1. NewestAge(d', MbOld) \in Ages
        BY MbNewestAgeIs
      <3> QED BY <2>1, <3>1 DEF Built, MbOld
    <2>4. q.valid \in BOOLEAN /\ q.stamp \in Ages
      BY <2>2, MbOldIs DEF Nothing
    <2>5. pubDue' \in 0..PublishPeriod /\ Publish(d')
      BY <1>1, <1>3 DEF MaybePublish
    <2>6. model' \in {p, q} /\ packet' \in {p, q, packet}
      BY <2>1, <2>2, <2>5 DEF Publish
    <2> QED BY <1>1, <2>3, <2>4, <2>5, <2>6 DEF MbShown
  <1> QED BY <1>2, <1>3

MbKeeps == MbTyped' /\ MbHolds

LEMMA MbLoopKeeps ==
    ASSUME MbSizes, MbTyped, Loop
    PROVE  MbKeeps
  <1>1. PICK y : y = Received(Aged(d))
    OBVIOUS
  <1>2. MbReceived(y)
    BY <1>1, ReceivedIs
  <1>3. /\ answer = NoAnswer \/ answer.due > 0
        /\ NotDue(y) \/ WriteFails(y) \/ Poll(y)
        /\ MaybePublish(d') /\ heard' = Grown(heard)
        /\ cut' = cut /\ gen' = gen /\ cuts' = cuts
    BY <1>1 DEF Loop, envVars
  <1>4. MbHeld' /\ MbHolds
    <2>1. CASE NotDue(y)
      BY <1>2, <1>3, <2>1, MbNotDueHolds
    <2>2. CASE WriteFails(y)
      BY <1>2, <1>3, <2>2, MbWriteFailsHolds
    <2>3. CASE Poll(y)
      BY <1>2, <1>3, <2>3, MbPollHolds
    <2> QED BY <1>3, <2>1, <2>2, <2>3
  <1>5. MbShown'
    <2>1. d' \in Decs
      BY <1>4 DEF MbHeld
    <2> QED BY <1>3, <2>1, MbShownIs
  <1>6. MbAround'
    <2>1. heard' \in Ages
      BY <1>3, MbGrownIs DEF MbTyped, MbAround
    <2> QED BY <1>3, <2>1 DEF MbTyped, MbAround
  <1> QED BY <1>4, <1>5, <1>6 DEF MbKeeps, MbTyped

\* A step of the line: what it must keep.
LEMMA MbLineKeeps ==
    ASSUME MbSizes, MbTyped, devVars' = devVars, MbAround', faults' \in 0..MaxFaults,
           NEW u \in Seq(MbBytes), u = wire', NEW a, a = answer', a = NoAnswer \/ a \in MbAnswers,
           MbRight => /\ a # NoAnswer => since + a.due + Gap + Parts(a) <= Period
                      /\ u # <<>> => since + Gap + 1 <= Period
                      /\ AnswersTo(a, d.last)
                      /\ Ready(d, u, Coming(a), d.last)
    PROVE  MbKeeps
  <1>1. d' = d /\ idx' = idx /\ since' = since /\ pubDue' = pubDue /\ model' = model /\ packet' = packet
    BY DEF devVars
  <1>2. MbTyped'
    BY <1>1 DEF MbTyped, MbHeld, MbShown
  <1>3. MbRight => MbRight'
    BY <1>1 DEF MbRight, InTime
  <1> QED BY <1>2, <1>3 DEF MbKeeps, MbHolds

LEMMA MbAroundSame ==
    ASSUME MbTyped, envVars' = envVars, heard' \in {heard, 0}, MbSizes
    PROVE  MbAround'
  BY MbOldIs DEF MbTyped, MbAround, envVars

\* What is known of an answer that is due.
LEMMA MbDueIs ==
    ASSUME MbSizes, MbTyped, Due
    PROVE  /\ answer \in MbAnswers /\ answer # NoAnswer /\ answer.due = 0 /\ answer.frame \in MbFrames
           /\ answer.from \in Nat /\ Size(answer.frame) \in Nat \ {0}
           /\ wire \in Seq(MbBytes) /\ since \in 0..Period /\ Gap \in Nat /\ Period \in Nat
           /\ MbRight => /\ Own(answer.frame, d.last) /\ since + Gap + Parts(answer) <= Period
                         /\ answer.from = 0 => answer.frame.kind \in MbKinds
                         /\ Ready(d, wire, Coming(answer), d.last)
  <1>1. answer \in MbAnswers /\ answer # NoAnswer /\ answer.due = 0
    BY DEF Due, MbTyped, MbHeld
  <1>2. answer.frame \in MbFrames /\ answer.from \in Nat
    BY <1>1 DEF MbAnswers
  <1>3. Size(answer.frame) \in Nat \ {0}
    BY <1>2, MbSizeIs
  <1>4. wire \in Seq(MbBytes) /\ since \in 0..Period /\ Gap \in Nat /\ Period \in Nat
    BY DEF MbTyped, MbHeld, MbSizes
  <1>5. MbRight => since + 0 + Gap + Parts(answer) <= Period
    BY <1>1 DEF MbRight, InTime
  <1>6. MbRight => since + Gap + Parts(answer) <= Period
    BY <1>4, <1>5
  <1> QED BY <1>1, <1>2, <1>3, <1>4, <1>6 DEF MbRight, AnswersTo

LEMMA MbArriveKeeps ==
    ASSUME MbSizes, MbTyped, Arrive
    PROVE  MbKeeps
  <1>1. /\ Due /\ wire' = wire \o Rest(answer.frame) /\ answer' = NoAnswer /\ heard' = 0
        /\ devVars' = devVars /\ envVars' = envVars /\ faults' = faults
    BY DEF Arrive
  <1>2. PICK f \in MbFrames : f = answer.frame
    BY <1>1, MbDueIs
  <1>3. PICK p : p = SubSeq(Bytes(f), answer.from + 1, Size(f))
    OBVIOUS
  <1>4. /\ answer.from + 1 \in Nat \ {0} /\ Size(f) \in Nat /\ Size(f) <= Size(f)
        /\ answer.from # 0 => answer.from + 1 > 1
    BY <1>1, <1>2, MbDueIs
  <1>5. /\ p \in Seq(MbBytes) /\ OneTok(p) /\ (answer.from # 0 => NoTok(p))
        /\ \A r : Own(f, r) => OwnBytes(p, r)
    BY <1>3, <1>4, MbPartIs
  <1>6. PICK u : u = wire \o p
    OBVIOUS
  <1>7. wire \in Seq(MbBytes) /\ u \in Seq(MbBytes) /\ u = wire'
    <2>1. wire \in Seq(MbBytes) /\ wire' = wire \o p
      BY <1>1, <1>2, <1>3, MbDueIs DEF Rest
    <2> QED BY <1>5, <1>6, <2>1
  <1>8. MbAround' /\ faults' \in 0..MaxFaults
    BY <1>1, MbAroundSame DEF MbTyped, MbHeld
  <1>9. ASSUME MbRight
        PROVE  since + Gap + 1 <= Period /\ Ready(d, u, Coming(NoAnswer), d.last)
    <2>1. PICK w \in BOOLEAN : w = Coming(answer)
      BY DEF Coming
    <2>2. Own(f, d.last) /\ since + Gap + Parts(answer) <= Period /\ Ready(d, wire, w, d.last)
      BY <1>1, <1>2, <1>9, <2>1, MbDueIs
    <2>3. since + Gap + 1 <= Period
      BY <1>1, <2>2, MbDueIs DEF Parts
    <2>4. NoTok(p) \/ w
      BY <1>1, <1>5, <2>1, MbDueIs DEF Coming
    <2>5. Ready(d, wire \o p, FALSE, d.last)
      BY <1>5, <1>7, <2>2, <2>4, WireGrows
    <2>6. Coming(NoAnswer) = FALSE
      BY NoAnswerIs DEF Coming
    <2> QED BY <1>6, <2>3, <2>5, <2>6
  <1>10. PICK a : a = NoAnswer
    OBVIOUS
  <1> QED BY <1>1, <1>7, <1>8, <1>9, <1>10, NoAnswerIs, MbLineKeeps

LEMMA MbSplitKeeps ==
    ASSUME MbSizes, MbTyped, Split
    PROVE  MbKeeps
  <1>1. PICK k \in 1..(Size(answer.frame) - 1) :
            /\ wire' = wire \o SubSeq(Bytes(answer.frame), 1, k)
            /\ answer' = [answer EXCEPT !.due = 1, !.from = k]
    BY DEF Split
  <1>2. /\ Due /\ answer.from = 0 /\ faults < MaxFaults /\ faults' = faults + 1 /\ heard' = heard
        /\ devVars' = devVars /\ envVars' = envVars
    BY DEF Split, Harm
  <1>3. PICK f \in MbFrames : f = answer.frame
    BY <1>2, MbDueIs
  <1>4. PICK p : p = SubSeq(Bytes(f), 1, k)
    OBVIOUS
  <1>5. 1 \in Nat \ {0} /\ k \in Nat \ {0} /\ k <= Size(f)
    BY <1>1, <1>2, <1>3, MbDueIs
  <1>6. p \in Seq(MbBytes) /\ OneTok(p) /\ \A r : Own(f, r) => OwnBytes(p, r)
    BY <1>4, <1>5, MbPartIs
  <1>7. PICK u : u = wire \o p
    OBVIOUS
  <1>8. wire \in Seq(MbBytes) /\ u \in Seq(MbBytes) /\ u = wire'
    <2>1. wire \in Seq(MbBytes) /\ wire' = wire \o p
      BY <1>1, <1>2, <1>3, <1>4, MbDueIs
    <2> QED BY <1>6, <1>7, <2>1
  <1>9. PICK a : a = answer'
    OBVIOUS
  <1>10. a \in MbAnswers /\ a.due = 1 /\ a.from = k /\ a.frame = f
    <2>1. answer \in MbAnswers
      BY <1>2, MbDueIs
    <2>2. 1 \in 0..(MaxDelay + 1)
      BY DEF MbSizes
    <2> QED BY <1>1, <1>3, <1>5, <1>9, <2>1, <2>2 DEF MbAnswers
  <1>11. MbAround' /\ faults' \in 0..MaxFaults
    <2>1. faults \in 0..MaxFaults /\ MaxFaults \in Nat
      BY DEF MbTyped, MbHeld, MbSizes
    <2> QED BY <1>2, <2>1, MbAroundSame
  <1>12. ASSUME MbRight
         PROVE  /\ since + a.due + Gap + Parts(a) <= Period /\ since + Gap + 1 <= Period
                /\ AnswersTo(a, d.last) /\ Ready(d, u, Coming(a), d.last)
    <2>1. PICK w \in BOOLEAN : w = Coming(answer)
      BY DEF Coming
    <2>2. Own(f, d.last) /\ since + Gap + 2 <= Period /\ Ready(d, wire, w, d.last)
      BY <1>2, <1>3, <1>12, <2>1, MbDueIs DEF Parts
    <2>3. since + a.due + Gap + Parts(a) <= Period /\ since + Gap + 1 <= Period
      <3>1. a.due = 1 /\ Parts(a) = 1
        BY <1>5, <1>10 DEF Parts
      <3> QED BY <1>2, <2>2, <3>1, MbDueIs
    <2>4. w
      BY <1>2, <2>1, MbDueIs DEF Coming
    <2>5. Ready(d, wire \o p, FALSE, d.last)
      BY <1>6, <1>8, <2>2, <2>4, WireGrows
    <2>6. Coming(a) = FALSE /\ AnswersTo(a, d.last)
      BY <1>5, <1>10, <2>2 DEF Coming, AnswersTo
    <2> QED BY <1>7, <2>3, <2>5, <2>6
  <1> QED BY <1>2, <1>8, <1>9, <1>10, <1>11, <1>12, MbLineKeeps

\* A frame in the place of the answer, or none.
LEMMA MbSpoiltKeeps ==
    ASSUME MbSizes, MbTyped, Due, faults < MaxFaults, faults' = faults + 1, heard' = heard, wire' = wire,
           devVars' = devVars, envVars' = envVars, answer.from = 0,
           NEW f \in MbFrames, f.kind \in MbKinds \/ f.kind = answer.frame.kind,
           f.dev = answer.frame.dev, f.start = answer.frame.start, f.count = answer.frame.count,
           f.status = answer.frame.status, answer' = [answer EXCEPT !.frame = f]
    PROVE  MbKeeps
  <1>1. PICK a : a = answer'
    OBVIOUS
  <1>2. answer \in MbAnswers
    BY MbDueIs
  <1>3. a \in MbAnswers /\ a.due = 0 /\ a.from = 0 /\ a.frame = f
    BY <1>1, <1>2, MbDueIs DEF MbAnswers
  <1>4. MbAround' /\ faults' \in 0..MaxFaults
    <2>1. faults \in 0..MaxFaults /\ MaxFaults \in Nat
      BY DEF MbTyped, MbHeld, MbSizes
    <2> QED BY <2>1, MbAroundSame
  <1>5. ASSUME MbRight
        PROVE  /\ since + a.due + Gap + Parts(a) <= Period /\ (wire # <<>> => since + Gap + 1 <= Period)
               /\ AnswersTo(a, d.last) /\ Ready(d, wire, Coming(a), d.last)
    <2>1. /\ Own(answer.frame, d.last) /\ answer.frame.kind \in MbKinds /\ since + Gap + 2 <= Period
          /\ Ready(d, wire, Coming(answer), d.last)
      BY <1>5, MbDueIs DEF Parts
    <2>2. AnswersTo(a, d.last)
      BY <1>3, <2>1 DEF AnswersTo, Own
    <2>3. since + a.due + Gap + Parts(a) <= Period /\ since + Gap + 1 <= Period
      <3>1. a.due = 0 /\ Parts(a) = 2
        BY <1>3 DEF Parts
      <3> QED BY <2>1, <3>1, MbDueIs
    <2>4. Coming(a) = Coming(answer)
      BY <1>3, MbDueIs, NoAnswerIs DEF Coming
    <2> QED BY <2>1, <2>2, <2>3, <2>4
  <1>6. PICK u \in Seq(MbBytes) : u = wire
    BY MbDueIs
  <1> QED BY <1>1, <1>3, <1>4, <1>5, <1>6, MbLineKeeps

LEMMA MbDamageKeeps ==
    ASSUME MbSizes, MbTyped, Damage
    PROVE  MbKeeps
  <1>1. /\ Due /\ faults < MaxFaults /\ faults' = faults + 1 /\ heard' = heard /\ wire' = wire
        /\ devVars' = devVars /\ envVars' = envVars /\ answer.from = 0
        /\ answer' = [answer EXCEPT !.frame.ok = FALSE]
    BY DEF Damage, Harm
  <1>2. PICK g \in MbFrames : g = answer.frame
    BY <1>1, MbDueIs
  <1>3. PICK f : f = [g EXCEPT !.ok = FALSE]
    OBVIOUS
  <1>4. /\ f \in MbFrames /\ f.kind = g.kind /\ f.dev = g.dev /\ f.start = g.start /\ f.count = g.count
        /\ f.status = g.status
    BY <1>3 DEF MbFrames
  <1>5. answer' = [answer EXCEPT !.frame = f]
    BY <1>1, <1>2, <1>3
  <1> QED BY <1>1, <1>2, <1>4, <1>5, MbSpoiltKeeps

LEMMA MbRefuseKeeps ==
    ASSUME MbSizes, MbTyped, Refuse
    PROVE  MbKeeps
  <1>1. /\ Due /\ faults < MaxFaults /\ faults' = faults + 1 /\ heard' = heard /\ wire' = wire
        /\ devVars' = devVars /\ envVars' = envVars /\ answer.from = 0
        /\ answer' = [answer EXCEPT !.frame.kind = "exc"]
    BY DEF Refuse, Harm
  <1>2. PICK g \in MbFrames : g = answer.frame
    BY <1>1, MbDueIs
  <1>3. PICK f : f = [g EXCEPT !.kind = "exc"]
    OBVIOUS
  <1>4. /\ f \in MbFrames /\ f.kind \in MbKinds /\ f.dev = g.dev /\ f.start = g.start /\ f.count = g.count
        /\ f.status = g.status
    BY <1>3 DEF MbFrames, MbKinds
  <1>5. answer' = [answer EXCEPT !.frame = f]
    BY <1>1, <1>2, <1>3
  <1> QED BY <1>1, <1>2, <1>4, <1>5, MbSpoiltKeeps

\* Nothing of the answer comes any more.
LEMMA MbEndsKeeps ==
    ASSUME MbSizes, MbTyped, devVars' = devVars, MbAround', faults' \in 0..MaxFaults,
           wire' = wire, answer' = NoAnswer
    PROVE  MbKeeps
  <1>1. PICK a : a = NoAnswer
    OBVIOUS
  <1>2. PICK u \in Seq(MbBytes) : u = wire
    BY DEF MbTyped, MbHeld
  <1>3. ASSUME MbRight PROVE (u # <<>> => since + Gap + 1 <= Period) /\ Ready(d, u, Coming(a), d.last)
    <2>1. PICK w \in BOOLEAN : w = Coming(answer)
      BY DEF Coming
    <2>2. Ready(d, u, FALSE, d.last)
      BY <1>2, <1>3, <2>1, NothingComes DEF MbRight
    <2>3. Coming(a) = FALSE
      BY <1>1, NoAnswerIs DEF Coming
    <2> QED BY <1>2, <1>3, <2>2, <2>3 DEF MbRight, InTime
  <1> QED BY <1>1, <1>2, <1>3, NoAnswerIs, MbLineKeeps

LEMMA MbLoseKeeps ==
    ASSUME MbSizes, MbTyped, Lose
    PROVE  MbKeeps
  <1>1. /\ faults < MaxFaults /\ faults' = faults + 1 /\ heard' = heard /\ wire' = wire
        /\ devVars' = devVars /\ envVars' = envVars /\ answer' = NoAnswer
    BY DEF Lose, Harm
  <1>2. faults \in 0..MaxFaults /\ MaxFaults \in Nat
    BY DEF MbTyped, MbHeld, MbSizes
  <1>3. faults' \in 0..MaxFaults
    BY <1>1, <1>2
  <1> QED BY <1>1, <1>3, MbAroundSame, MbEndsKeeps

LEMMA MbCutKeeps ==
    ASSUME MbSizes, MbTyped, Cut
    PROVE  MbKeeps
  <1>1. /\ ~cut /\ cuts < MaxCuts /\ cut' = TRUE /\ cuts' = cuts + 1 /\ answer' = NoAnswer
        /\ devVars' = devVars /\ wire' = wire /\ gen' = gen /\ heard' = heard /\ faults' = faults
    BY DEF Cut
  <1>2. MbAround' /\ faults' \in 0..MaxFaults
    BY <1>1 DEF MbTyped, MbHeld, MbAround, MbSizes
  <1> QED BY <1>1, <1>2, MbEndsKeeps

LEMMA MbJoinKeeps ==
    ASSUME MbSizes, MbTyped, Join
    PROVE  MbKeeps
  <1>1. /\ cut /\ cut' = FALSE /\ gen' = gen + 1 /\ cuts' = cuts /\ answer' = answer
        /\ devVars' = devVars /\ wire' = wire /\ heard' = heard /\ faults' = faults
    BY DEF Join
  <1>2. MbAround' /\ faults' \in 0..MaxFaults
    <2>1. gen < cuts /\ gen \in Nat /\ cuts \in Nat
      BY <1>1 DEF MbTyped, MbAround, MbSizes
    <2>2. gen' \in Nat /\ gen' <= cuts'
      BY <1>1, <2>1
    <2> QED BY <1>1, <2>2 DEF MbTyped, MbHeld, MbAround
  <1>3. d' = d /\ idx' = idx /\ since' = since /\ pubDue' = pubDue /\ model' = model /\ packet' = packet
    BY <1>1 DEF devVars
  <1>4. MbTyped'
    BY <1>1, <1>2, <1>3 DEF MbTyped, MbHeld, MbShown
  <1>5. MbRight => MbRight'
    BY <1>1, <1>3 DEF MbRight, InTime
  <1> QED BY <1>4, <1>5 DEF MbKeeps, MbHolds

LEMMA MbNoiseKeeps ==
    ASSUME MbSizes, MbTyped, Noise
    PROVE  MbKeeps
  <1>1. /\ Due /\ faults < MaxFaults /\ faults' = faults + 1 /\ heard' = heard /\ answer' = answer
        /\ devVars' = devVars /\ envVars' = envVars
        /\ wire' = Append(wire, <<[answer.frame EXCEPT !.kind = "noise", !.ok = FALSE], 1>>)
    BY DEF Noise, Harm
  <1>2. PICK g \in MbFrames : g = answer.frame
    BY <1>1, MbDueIs
  <1>3. PICK f : f = [g EXCEPT !.kind = "noise", !.ok = FALSE]
    OBVIOUS
  <1>4. /\ f \in MbFrames /\ f.kind = "noise" /\ f.dev = g.dev /\ f.start = g.start /\ f.count = g.count
        /\ f.status = g.status
    BY <1>3 DEF MbFrames
  <1>5. PICK p : p = << <<f, 1>> >>
    OBVIOUS
  <1>6. p \in Seq(MbBytes) /\ Len(p) = 1 /\ p[1] = <<f, 1>>
    <2>1. <<f, 1>> \in MbBytes
      BY <1>4 DEF MbBytes
    <2> QED BY <1>5, <2>1
  <1>7. \A i \in 1..Len(p) : i = 1 /\ p[i][1] = f /\ ~Tok(p[i])
    BY <1>4, <1>6 DEF Tok
  <1>8. NoTok(p) /\ OneTok(p) /\ \A r : Own(g, r) => OwnBytes(p, r)
    <2>1. \A r : Own(g, r) => Own(f, r)
      BY <1>4 DEF Own
    <2> QED BY <1>7, <2>1 DEF NoTok, OneTok, OwnBytes
  <1>9. PICK u : u = wire \o p
    OBVIOUS
  <1>10. wire \in Seq(MbBytes) /\ u \in Seq(MbBytes) /\ u = wire'
    <2>1. wire \in Seq(MbBytes) /\ <<f, 1>> \in MbBytes
      BY <1>1, <1>4, MbDueIs DEF MbBytes
    <2>2. wire' = Append(wire, <<f, 1>>)
      BY <1>1, <1>2, <1>3
    <2>3. Append(wire, <<f, 1>>) = wire \o << <<f, 1>> >>
      BY <2>1
    <2> QED BY <1>5, <1>6, <1>9, <2>1, <2>2, <2>3
  <1>11. MbAround' /\ faults' \in 0..MaxFaults
    <2>1. faults \in 0..MaxFaults /\ MaxFaults \in Nat
      BY DEF MbTyped, MbHeld, MbSizes
    <2> QED BY <1>1, <2>1, MbAroundSame
  <1>12. PICK a \in MbAnswers : a = answer
    BY <1>1, MbDueIs
  <1>13. ASSUME MbRight
         PROVE  /\ since + a.due + Gap + Parts(a) <= Period /\ since + Gap + 1 <= Period
                /\ AnswersTo(a, d.last) /\ Ready(d, u, Coming(a), d.last)
    <2>1. PICK w \in BOOLEAN : w = Coming(a)
      BY DEF Coming
    <2>2. /\ Own(g, d.last) /\ since + Gap + Parts(a) <= Period /\ Ready(d, wire, w, d.last)
          /\ a.due = 0
      BY <1>1, <1>2, <1>12, <1>13, <2>1, MbDueIs
    <2>3. since + a.due + Gap + Parts(a) <= Period /\ since + Gap + 1 <= Period
      BY <1>1, <1>12, <2>2, MbDueIs DEF Parts
    <2>4. Ready(d, wire \o p, w, d.last)
      BY <1>6, <1>8, <1>10, <2>2, WireGrows
    <2>5. AnswersTo(a, d.last)
      BY <1>12, <1>13 DEF MbRight
    <2> QED BY <1>9, <2>1, <2>3, <2>4, <2>5
  <1> QED BY <1>1, <1>10, <1>11, <1>12, <1>13, MbLineKeeps

LEMMA MbStepKeeps ==
    ASSUME MbSizes, MbTyped, [Next]_(vars)
    PROVE  MbKeeps
  <1>1. CASE Loop
    BY <1>1, MbLoopKeeps
  <1>2. CASE Arrive
    BY <1>2, MbArriveKeeps
  <1>3. CASE Harmed
    BY <1>3, MbLoseKeeps, MbSplitKeeps, MbDamageKeeps, MbRefuseKeeps, MbNoiseKeeps DEF Harmed
  <1>4. CASE Cut
    BY <1>4, MbCutKeeps
  <1>5. CASE Join
    BY <1>5, MbJoinKeeps
  <1>6. CASE vars' = vars
    BY <1>6 DEF vars, devVars, envVars, MbKeeps, MbHolds, MbTyped, MbHeld, MbShown, MbAround,
                MbRight, InTime
  <1> QED BY <1>1, <1>2, <1>3, <1>4, <1>5, <1>6 DEF Next

LEMMA MbBegins ==
    ASSUME MbSizes, Init
    PROVE  MbTyped /\ MbRight
  <1>1. PICK r : r = NoReq
    OBVIOUS
  <1>2. PICK x : x = Decoder0
    OBVIOUS
  <1>3. /\ d = x /\ idx = 1 /\ since = Period /\ pubDue = PublishPeriod /\ model = Nothing
        /\ packet = Nothing /\ wire = <<>> /\ answer = NoAnswer /\ cut = FALSE /\ gen = 0
        /\ heard = MbOld /\ faults = 0 /\ cuts = 0
    BY <1>2 DEF Init, MbOld
  <1>4. x.buf = <<>> /\ x.have = FALSE /\ x.age = 0 /\ x.reqs = <<>> /\ x.last = r /\ x.cache = <<>>
    BY <1>1, <1>2 DEF Decoder0
  <1>5. 0 \in Ages /\ MbOld \in Ages
    BY MbOldIs
  <1>6. x \in Decs
    <2>1. r \in MbReqs
      BY <1>1, <1>5 DEF NoReq, MbReqs
    <2>2. <<>> \in MbBufs /\ <<>> \in MbQueues /\ <<>> \in MbCaches
      BY DEF MbBufs, MbQueues, MbCaches, MbSizes, Single
    <2> QED BY <1>1, <1>2, <1>5, <2>1, <2>2 DEF Decoder0, Decs
  <1>7. MbHeld
    BY <1>3, <1>6 DEF MbHeld, MbSizes
  <1>8. MbShown
    <2>1. Nothing.valid \in BOOLEAN /\ Nothing.stamp \in Ages
      BY <1>5 DEF Nothing
    <2> QED BY <1>3, <2>1 DEF MbShown, MbSizes
  <1>9. MbAround
    <2>1. cut \in BOOLEAN /\ ~cut
      BY <1>3
    <2>2. gen \in Nat /\ cuts \in 0..MaxCuts /\ gen <= cuts
      BY <1>3 DEF MbSizes
    <2> QED BY <1>3, <1>5, <2>1, <2>2 DEF MbAround
  <1>10. Ready(x, <<>>, FALSE, r)
    BY <1>4 DEF Ready, OfItself, OldFirst, OwnBytes, OneTok, NoTok, SameReq
  <1>11. Coming(NoAnswer) = FALSE /\ AnswersTo(NoAnswer, r)
    BY NoAnswerIs DEF Coming
  <1> QED BY <1>3, <1>4, <1>7, <1>8, <1>9, <1>10, <1>11 DEF MbTyped, MbRight, InTime

LEMMA MbTypedIsTypeOK ==
    ASSUME MbSizes, MbTyped
    PROVE  TypeOK
  <1>1. /\ d.buf \in MbBufs /\ d.reqs \in MbQueues /\ d.cache \in MbCaches
        /\ d.age \in Ages
    BY DEF MbTyped, MbHeld, Decs
  <1>2. Len(d.buf) <= BufMax /\ Len(d.reqs) <= QueueLen /\ Len(d.cache) <= CacheMax
    BY <1>1 DEF MbBufs, MbQueues, MbCaches
  <1>3. \A i \in DOMAIN d.reqs : d.reqs[i].age \in Ages
    <2>1. d.reqs \in Seq(MbReqs)
      BY <1>1 DEF MbQueues
    <2>2. \A i \in DOMAIN d.reqs : d.reqs[i] \in MbReqs
      BY <2>1
    <2> QED BY <2>2 DEF MbReqs
  <1>4. \A i, j \in DOMAIN d.cache : d.cache[i].reg = d.cache[j].reg => i = j
    <2>1. DOMAIN d.cache = 1..Len(d.cache)
      BY <1>1 DEF MbCaches
    <2> QED BY <1>1, <2>1 DEF MbCaches, Single
  <1>5. answer.due \in 0..(MaxDelay + 1) /\ answer.from \in Nat
    <2>1. CASE answer = NoAnswer
      <3>1. answer.due = 0 /\ answer.from = 0
        BY <2>1 DEF NoAnswer
      <3> QED BY <3>1 DEF MbSizes
    <2>2. CASE answer \in MbAnswers
      BY <2>2 DEF MbAnswers
    <2> QED BY <2>1, <2>2 DEF MbTyped, MbHeld
  <1>6. gen \in 0..MaxCuts
    BY DEF MbTyped, MbAround, MbSizes
  <1>7. idx \in DOMAIN Blocks
    BY DEF MbTyped, MbHeld, MbSizes
  <1> QED BY <1>1, <1>2, <1>3, <1>4, <1>5, <1>6, <1>7 DEF TypeOK, MbTyped, MbHeld, MbShown, MbAround

\* A source on Modbus keeps its buffer, its queue and its cache within their bounds, and no register is in
\* the cache twice, whatever is lost, split, damaged, refused or heard besides the answers.
THEOREM ModbusKeepsTypes == PollAssumed /\ Spec => []TypeOK
  <1> SUFFICES ASSUME PollAssumed PROVE Spec => []TypeOK
    OBVIOUS
  <1>0. MbSizes
    BY MbSizesAre
  <1>1. Init => MbTyped
    BY <1>0, MbBegins
  <1>2. MbTyped /\ [Next]_(vars) => MbTyped'
    BY <1>0, MbStepKeeps DEF MbKeeps
  <1>3. MbTyped => TypeOK
    BY <1>0, MbTypedIsTypeOK
  <1> QED BY <1>1, <1>2, <1>3, PTL DEF Spec

\* No register holds the value of another one, whichever answers are lost, refused or come in two parts,
\* though an answer does not say which registers it holds (printResp03, reqQueuePopForResp): every answer
\* and the gap after it are over before the next request.
THEOREM ModbusAttributesRight == PollAssumed /\ Settled /\ OneStatus /\ Spec => []AttributedRight
  <1> SUFFICES ASSUME PollAssumed, Settled, OneStatus PROVE Spec => []AttributedRight
    OBVIOUS
  <1>0. MbSizes
    BY MbSizesAre
  <1> DEFINE I == MbTyped /\ MbRight
  <1>1. Init => I
    BY <1>0, MbBegins
  <1>2. I /\ [Next]_(vars) => I'
    BY <1>0, MbStepKeeps DEF MbKeeps, MbHolds
  <1>3. I => AttributedRight
    <2> SUFFICES ASSUME MbTyped, MbRight PROVE AttributedRight
      OBVIOUS
    <2>1. DOMAIN d.cache = 1..Len(d.cache)
      BY DEF MbTyped, MbHeld, Decs, MbCaches
    <2>2. OfItself(d.cache)
      BY DEF MbRight, Ready
    <2> QED BY <2>1, <2>2 DEF OfItself, AttributedRight
  <1> HIDE DEF I
  <1> QED BY <1>1, <1>2, <1>3, PTL DEF Spec

-----------------------------------------------------------------------------
(* The silence of the BMS.                                                 *)

\* What is kept came with the last answer, or in the loop after it; so it would what is in the buffer.
Quiet(x, h) ==
    /\ Past(x.cache, h - 1) /\ (Short(x.buf) \/ x.age + 1 >= h)
    /\ x.buf # <<>> => x.have

\* What is shown was built within the window.
Lately ==
    /\ model.valid => heard + pubDue <= Stale + PublishPeriod
    /\ ClearsPacket /\ packet.valid => heard + pubDue <= Stale + PublishPeriod

MbSilent ==
    /\ Quiet(d, heard) /\ Lately
    /\ Short(wire) \/ heard = 0
    /\ Due => NoTok(wire)

LEMMA NoneIsShort ==
    ASSUME NEW s, NoTok(s)
    PROVE  Short(s)
  BY DEF NoTok, Short

LEMMA NoneFromTheFuture ==
    ASSUME MbSizes, NEW x \in Decs
    PROVE  Past(x.cache, 0) /\ Past(x.cache, 0 - 1) /\ x.age >= 0
  <1>1. x.cache \in Seq(MbValues) /\ x.age \in Ages
    BY DEF Decs, MbCaches
  <1>2. \A i \in 1..Len(x.cache) : x.cache[i] \in MbValues
    BY <1>1
  <1>3. \A a \in Ages : a >= 0 /\ a >= 0 - 1
    BY MbOldIs
  <1> QED BY <1>1, <1>2, <1>3 DEF MbValues, Past

LEMMA ReadStaysQuiet ==
    ASSUME MbSizes, MbTyped, Gap = 0, Quiet(d, heard), Short(wire) \/ heard = 0
    PROVE  Quiet(Received(Aged(d)), Grown(heard))
  <1>0. d \in Decs /\ d.age \in Ages /\ wire \in Seq(MbBytes) /\ heard \in Ages
    BY DEF MbTyped, MbHeld, MbAround, Decs
  <1>1. PICK x : x = Aged(d)
    OBVIOUS
  <1>2. MbOlder(d, x)
    BY <1>0, <1>1, AgedIs
  <1>3. PICK y : y = Received(x)
    OBVIOUS
  <1>4. PICK h : h = Grown(heard)
    OBVIOUS
  <1>5. h \in Int /\ (heard = 0 => h = 1) /\ \A a \in Ages : Grown(a) > 0
    BY <1>0, <1>4, MbOldIs DEF Grown, MbOld, MbSizes
  <1>6. x \in Decs /\ Past(x.cache, h - 1) /\ x.age = Grown(d.age) /\ x.age > 0
    BY <1>0, <1>2, <1>4, <1>5 DEF MbOlder, Quiet
  <1>7. Short(x.buf) \/ x.age >= h - 1
    <2>1. CASE Short(d.buf)
      BY <1>2, <2>1 DEF MbOlder
    <2>2. CASE d.age + 1 >= heard
      <3>1. d.age >= heard - 1
        BY <1>0, <2>2, MbOldIs
      <3> QED BY <1>0, <1>4, <1>6, <3>1, GrownAfter
    <2> QED BY <2>1, <2>2 DEF Quiet
  <1>8. x.buf = <<>> \/ (x.have /\ x.age > Gap)
    BY <1>2, <1>6 DEF MbOlder, Quiet
  <1>9. CASE wire # <<>>
    <2>1. y = Feed(x, wire)
      BY <1>3, <1>9 DEF Received
    <2>2. Fed(x, wire, y)
      BY <1>0, <1>6, <2>1, FeedIs
    <2>3. y \in Decs /\ y.have /\ y.age = 0
      BY <2>2 DEF Fed
    <2>4. CASE Short(wire)
      <3>1. Short(y.buf) /\ Lasts(x, y)
        BY <1>8, <2>2, <2>4 DEF Fed
      <3>2. Past(y.cache, h - 1)
        BY <1>6, <1>7, <3>1 DEF Lasts
      <3> QED BY <1>1, <1>3, <1>4, <2>3, <3>1, <3>2 DEF Quiet
    <2>5. CASE heard = 0
      <3>1. h - 1 = 0 /\ y.age + 1 >= h
        BY <1>5, <2>3, <2>5
      <3>2. Past(y.cache, h - 1)
        BY <2>3, <3>1, NoneFromTheFuture
      <3> QED BY <1>1, <1>3, <1>4, <2>3, <3>1, <3>2 DEF Quiet
    <2> QED BY <2>4, <2>5
  <1>10. CASE wire = <<>> /\ x.have /\ x.age > Gap
    <2>1. y = Flush(x)
      BY <1>3, <1>10 DEF Received
    <2>2. y.buf = <<>> /\ Lasts(x, y)
      BY <1>6, <2>1, FlushIs DEF Flushed
    <2>3. Past(y.cache, h - 1)
      BY <1>6, <1>7, <2>2 DEF Lasts
    <2>4. Short(y.buf)
      BY <2>2 DEF Short
    <2> QED BY <1>1, <1>3, <1>4, <2>2, <2>3, <2>4 DEF Quiet
  <1>11. CASE wire = <<>> /\ ~(x.have /\ x.age > Gap)
    <2>1. y = x
      BY <1>3, <1>11 DEF Received
    <2>2. y.buf = <<>> /\ Short(y.buf)
      BY <1>8, <1>11, <2>1 DEF Short
    <2> QED BY <1>1, <1>3, <1>4, <1>6, <2>1, <2>2 DEF Quiet
  <1> QED BY <1>9, <1>10, <1>11

\* What is published while nothing is kept that is younger than the last answer.
LEMMA PublishedLately ==
    ASSUME MbSizes, MbTyped, Lately, heard' = Grown(heard), d' \in Decs,
           Past(d'.cache, heard' - 1), MaybePublish(d')
    PROVE  Lately'
  <1>1. PICK h \in Ages : h = heard'
    BY MbGrownIs DEF MbTyped, MbAround
  <1>2. /\ heard \in Int /\ h \in Int /\ h <= heard + 1 /\ pubDue \in 0..PublishPeriod
        /\ PublishPeriod \in Nat \ {0, 1} /\ Stale \in Nat
    BY <1>1, MbOldIs DEF MbTyped, MbAround, MbShown, MbSizes, Grown, MbOld
  <1>3. CASE pubDue > 0
    <2>1. pubDue' = pubDue - 1 /\ model' = model /\ packet' = packet
      BY <1>3 DEF MaybePublish
    <2>2. heard + pubDue <= Stale + PublishPeriod => h + pubDue' <= Stale + PublishPeriod
      BY <1>2, <2>1
    <2> QED BY <1>1, <2>1, <2>2 DEF Lately
  <1>4. CASE ~(pubDue > 0)
    <2>1. pubDue' = PublishPeriod - 1 /\ Publish(d')
      BY <1>4 DEF MaybePublish
    <2>2. PICK x \in Decs : x = d'
      OBVIOUS
    <2>3. PICK m \in Ages : m = NewestAge(x, MbOld)
      BY MbNewestAgeIs
    <2>4. CASE m > Stale
      <3>1. model' = Nothing /\ (ClearsPacket => packet' = Nothing)
        BY <2>1, <2>2, <2>3, <2>4 DEF Publish, MbOld
      <3>2. Nothing.valid = FALSE
        BY DEF Nothing
      <3> QED BY <3>1, <3>2 DEF Lately
    <2>5. CASE ~(m > Stale)
      <3>1. x.cache # <<>>
        <4>1. x.cache = <<>> => m = MbOld
          BY <2>3, MbNewestAgeIs
        <4>2. MbOld > Stale
          BY <1>2, MbOldIs DEF MbSizes
        <4> QED BY <2>5, <4>1, <4>2
      <3>2. PICK i \in 1..Len(x.cache) : m = x.cache[i].age
        BY <2>3, <3>1, MbNewestAgeIs
      <3>3. m >= h - 1
        BY <1>1, <2>2, <3>2 DEF Past
      <3>4. h + pubDue' <= Stale + PublishPeriod
        BY <1>2, <2>1, <2>5, <3>3, MbOldIs
      <3> QED BY <1>1, <3>4 DEF Lately
    <2> QED BY <2>4, <2>5
  <1> QED BY <1>3, <1>4

LEMMA MbLoopStaysSilent ==
    ASSUME MbSizes, MbTyped, MbTyped', Gap = 0, MbSilent, Loop
    PROVE  MbSilent'
  <1>1. PICK y : y = Received(Aged(d))
    OBVIOUS
  <1>2. PICK h : h = heard'
    OBVIOUS
  <1>3. /\ NotDue(y) \/ WriteFails(y) \/ Poll(y)
        /\ MaybePublish(d') /\ heard' = Grown(heard)
    BY <1>1 DEF Loop
  <1>4. Quiet(y, h) /\ y \in Decs
    <2>1. MbReceived(y)
      BY <1>1, ReceivedIs
    <2> QED BY <1>1, <1>2, <1>3, <2>1, ReadStaysQuiet DEF MbSilent, MbReceived
  <1>5. PICK e : e = d'
    OBVIOUS
  <1>6. PICK u : u = wire'
    OBVIOUS
  <1>7. Quiet(e, h) /\ NoTok(u)
    <2>1. CASE NotDue(y) \/ WriteFails(y)
      <3>1. e = y /\ u = <<>>
        BY <1>5, <1>6, <2>1 DEF NotDue, WriteFails
      <3> QED BY <1>4, <3>1 DEF NoTok
    <2>2. CASE Poll(y)
      <3>1. PICK b : b = Blocks[idx]
        OBVIOUS
      <3>2. b \in MbBlocks /\ gen \in Nat
        BY <3>1 DEF MbTyped, MbHeld, MbAround, MbSizes
      <3>3. /\ e = RecordRequest(y, Device, b.start, b.count)
            /\ u = IF Echo THEN Bytes(Request(b)) ELSE <<>>
        BY <1>5, <1>6, <2>2, <3>1 DEF Poll
      <3>4. e.buf = y.buf /\ e.have = y.have /\ e.age = y.age /\ e.cache = y.cache
        BY <1>4, <3>2, <3>3, RecordRequestIs
      <3>5. CASE Echo
        <4>1. PICK f \in MbFrames : f = Request(b) /\ f.kind = "req"
          BY <3>2, MbBlockIs
        <4>2. u = SubSeq(Bytes(f), 1, Size(f))
          BY <3>3, <3>5, <4>1, MbBytesAre
        <4>3. Size(f) \in Nat
          BY MbSizeIs
        <4>4. 1 \in Nat \ {0} /\ Size(f) <= Size(f)
          BY <4>3
        <4>5. NoTok(u)
          BY <4>1, <4>2, <4>3, <4>4, MbPartIs
        <4> QED BY <1>4, <3>4, <4>5 DEF Quiet
      <3>6. CASE ~Echo
        <4>1. u = <<>>
          BY <3>3, <3>6
        <4> QED BY <1>4, <3>4, <4>1 DEF Quiet, NoTok
      <3> QED BY <3>5, <3>6
    <2> QED BY <1>3, <2>1, <2>2
  <1>8. Lately'
    <2>1. d' \in Decs
      BY DEF MbTyped, MbHeld
    <2>2. Past(d'.cache, heard' - 1)
      BY <1>2, <1>5, <1>7 DEF Quiet
    <2> QED BY <1>3, <2>1, <2>2, PublishedLately DEF MbSilent
  <1>9. Short(u)
    BY <1>7, NoneIsShort
  <1>10. Quiet(d, heard)' /\ NoTok(wire)' /\ Short(wire)'
    BY <1>2, <1>5, <1>6, <1>7, <1>9
  <1> QED BY <1>8, <1>10 DEF MbSilent

\* A step of the line.
LEMMA MbLineStaysSilent ==
    ASSUME MbSizes, MbTyped, MbSilent, devVars' = devVars, heard' \in {heard, 0},
           Short(wire') \/ heard' = 0, (Due => NoTok(wire))'
    PROVE  MbSilent'
  <1>1. d' = d /\ pubDue' = pubDue /\ model' = model /\ packet' = packet
    BY DEF devVars
  <1>2. /\ d \in Decs /\ heard \in Ages /\ pubDue \in 0..PublishPeriod
        /\ PublishPeriod \in Nat /\ Stale \in Nat
    BY DEF MbTyped, MbHeld, MbAround, MbShown, MbSizes
  <1>3. CASE heard' = heard
    BY <1>1, <1>3 DEF MbSilent, Lately, Quiet
  <1>4. CASE heard' = 0
    <2>1. Past(d.cache, 0 - 1) /\ d.age >= 0
      BY <1>2, NoneFromTheFuture
    <2>2. d.age + 1 >= 0
      BY <1>2, <2>1, MbOldIs DEF Decs
    <2>3. Quiet(d, 0)
      BY <2>1, <2>2 DEF Quiet, MbSilent
    <2>4. 0 + pubDue <= Stale + PublishPeriod
      BY <1>2
    <2>5. Lately'
      BY <1>1, <1>4, <2>4 DEF Lately
    <2>6. Quiet(d, heard)'
      BY <1>1, <1>4, <2>3
    <2> QED BY <1>4, <2>5, <2>6 DEF MbSilent
  <1> QED BY <1>3, <1>4

\* A part of an answer is none.
LEMMA MbSplitStaysSilent ==
    ASSUME MbSizes, MbTyped, MbSilent, Split
    PROVE  MbSilent'
  <1>1. PICK k \in 1..(Size(answer.frame) - 1) :
            /\ wire' = wire \o SubSeq(Bytes(answer.frame), 1, k)
            /\ answer' = [answer EXCEPT !.due = 1, !.from = k]
    BY DEF Split
  <1>2. Due /\ heard' = heard /\ devVars' = devVars
    BY DEF Split, Harm
  <1>3. PICK f \in MbFrames : f = answer.frame
    BY <1>2, MbDueIs
  <1>4. PICK m \in Nat \ {0} : m = Size(f)
    BY MbSizeIs
  <1>5. k \in 1..(m - 1) /\ k \in Nat
    BY <1>1, <1>3, <1>4
  <1>6. PICK b : b = Bytes(f)
    OBVIOUS
  <1>7. b \in Seq(MbBytes) /\ Len(b) = m /\ \A i \in 1..m : b[i] = <<f, i>>
    <2>1. b = [i \in 1..m |-> <<f, i>>]
      BY <1>4, <1>6 DEF Bytes
    <2>2. \A i \in 1..m : <<f, i>> \in MbBytes
      BY DEF MbBytes
    <2> QED BY <2>1, <2>2
  <1>8. PICK p : p = SubSeq(b, 1, k)
    OBVIOUS
  <1>9. p \in Seq(MbBytes) /\ Len(p) = k /\ \A i \in 1..k : p[i] = <<f, i>>
    BY <1>5, <1>7, <1>8
  <1>10. PICK u : u = wire \o p
    OBVIOUS
  <1>11. PICK n \in Nat : n = Len(wire)
    BY <1>2, MbDueIs
  <1>12. /\ Len(u) = n + k /\ \A i \in 1..n : u[i] = wire[i]
         /\ \A i \in 1..k : u[n + i] = <<f, i>>
    <2>1. wire \in Seq(MbBytes)
      BY <1>2, MbDueIs
    <2>1a. p \in Seq(MbBytes)
      BY <1>9
    <2>1b. PICK w \in Seq(MbBytes) : w = wire
      BY <2>1
    <2>1c. /\ Len(w \o p) = Len(w) + Len(p) /\ \A i \in 1..Len(w) : (w \o p)[i] = w[i]
           /\ \A i \in 1..Len(p) : (w \o p)[Len(w) + i] = p[i]
      BY <2>1a
    <2>2. /\ Len(u) = Len(wire) + Len(p) /\ \A i \in 1..Len(wire) : u[i] = wire[i]
          /\ \A i \in 1..Len(p) : u[Len(wire) + i] = p[i]
      BY <1>10, <2>1b, <2>1c
    <2> QED BY <1>9, <1>11, <2>2
  <1>13. Short(u)
    <2>1. ASSUME NEW i \in 1..(n + k), Tok(u[i]) PROVE i + Size(u[i][1]) - 1 > n + k
      <3>1. i \notin 1..n
        BY <1>2, <1>11, <1>12, <2>1 DEF MbSilent, NoTok
      <3>2. PICK j \in 1..k : i = n + j
        <4>1. i - n \in 1..k /\ i = n + (i - n)
          BY <1>5, <3>1
        <4> QED BY <4>1
      <3>3. u[i] = <<f, j>>
        BY <1>12, <3>2
      <3>4. j = 1
        BY <2>1, <3>3 DEF Tok
      <3>5. i + m - 1 > n + k
        BY <1>5, <3>2, <3>4
      <3> QED BY <1>4, <3>3, <3>5
    <2> QED BY <1>12, <2>1 DEF Short
  <1>14. u = wire'
    BY <1>1, <1>3, <1>6, <1>8, <1>10
  <1>15. answer'.due # 0
    <2>1. answer \in MbAnswers
      BY <1>2, MbDueIs
    <2> QED BY <1>1, <2>1 DEF MbAnswers
  <1>16. Short(wire')
    BY <1>13, <1>14
  <1> QED BY <1>2, <1>15, <1>16, MbLineStaysSilent DEF Due

LEMMA MbNoiseStaysSilent ==
    ASSUME MbSizes, MbTyped, MbSilent, Noise
    PROVE  MbSilent'
  <1>1. /\ Due /\ heard' = heard /\ answer' = answer /\ devVars' = devVars
        /\ wire' = Append(wire, <<[answer.frame EXCEPT !.kind = "noise", !.ok = FALSE], 1>>)
    BY DEF Noise, Harm
  <1>2. PICK g \in MbFrames : g = answer.frame
    BY <1>1, MbDueIs
  <1>3. PICK f : f = [g EXCEPT !.kind = "noise", !.ok = FALSE]
    OBVIOUS
  <1>4. f \in MbFrames /\ f.kind = "noise"
    BY <1>3 DEF MbFrames
  <1>5. <<f, 1>> \in MbBytes /\ wire \in Seq(MbBytes)
    BY <1>1, <1>4, MbDueIs DEF MbBytes
  <1>6. PICK u : u = Append(wire, <<f, 1>>)
    OBVIOUS
  <1>7. \A i \in 1..Len(u) : (i \in 1..Len(wire) /\ u[i] = wire[i]) \/ u[i] = <<f, 1>>
    BY <1>5, <1>6
  <1>8. ~Tok(<<f, 1>>)
    BY <1>4 DEF Tok
  <1>9. NoTok(u)
    BY <1>1, <1>7, <1>8 DEF MbSilent, NoTok
  <1>10. u = wire'
    BY <1>1, <1>2, <1>3, <1>6
  <1>11. Short(wire') /\ NoTok(wire)'
    BY <1>9, <1>10, NoneIsShort
  <1> QED BY <1>1, <1>11, MbLineStaysSilent

LEMMA MbStepStaysSilent ==
    ASSUME MbSizes, MbTyped, MbTyped', Gap = 0, MbSilent, [Next]_(vars)
    PROVE  MbSilent'
  <1>1. CASE Loop
    BY <1>1, MbLoopStaysSilent
  <1>2. CASE Arrive \/ Lose \/ Cut
    <2>1. /\ devVars' = devVars /\ answer' = NoAnswer
          /\ heard' = 0 \/ (heard' = heard /\ wire' = wire)
      BY <1>2 DEF Arrive, Lose, Cut
    <2>2. Short(wire') \/ heard' = 0
      BY <2>1 DEF MbSilent
    <2> QED BY <2>1, <2>2, MbLineStaysSilent DEF Due
  <1>3. CASE Damage \/ Refuse
    <2>1. devVars' = devVars /\ heard' = heard /\ wire' = wire /\ Due
      BY <1>3 DEF Damage, Refuse, Harm
    <2>2. (Short(wire') \/ heard' = 0) /\ NoTok(wire)'
      BY <2>1 DEF MbSilent
    <2> QED BY <2>1, <2>2, MbLineStaysSilent
  <1>4. CASE Join \/ vars' = vars
    <2>1. devVars' = devVars /\ heard' = heard /\ wire' = wire /\ answer' = answer
      BY <1>4 DEF Join, vars, devVars
    <2>2. (Short(wire') \/ heard' = 0) /\ (Due => NoTok(wire))'
      BY <2>1 DEF MbSilent, Due
    <2> QED BY <2>1, <2>2, MbLineStaysSilent
  <1>5. CASE Split
    BY <1>5, MbSplitStaysSilent
  <1>6. CASE Noise
    BY <1>6, MbNoiseStaysSilent
  <1> QED BY <1>1, <1>2, <1>3, <1>4, <1>5, <1>6 DEF Next, Harmed

LEMMA MbSilentBegins ==
    ASSUME MbSizes, Init
    PROVE  MbSilent
  <1>1. /\ d = Decoder0 /\ model = Nothing /\ packet = Nothing /\ wire = <<>>
        /\ answer = NoAnswer
    BY DEF Init
  <1>2. Decoder0.buf = <<>> /\ Decoder0.cache = <<>> /\ Nothing.valid = FALSE
    BY DEF Decoder0, Nothing
  <1>3. Short(<<>>)
    BY DEF Short
  <1> QED BY <1>1, <1>2, <1>3 DEF MbSilent, Quiet, Lately, Past, Due

\* A BMS that is silent for the window and a publication is shown no more, by no half of a frame either,
\* for the sources whose gap is shorter than a loop (JK, Pace, Voltronic, China Tower and WOW).
THEOREM ModbusClearsTheSilent == PollAssumed /\ Gap = 0 /\ Spec => []SilentIsCleared
  <1> SUFFICES ASSUME PollAssumed, Gap = 0 PROVE Spec => []SilentIsCleared
    OBVIOUS
  <1>0. MbSizes
    BY MbSizesAre
  <1> DEFINE I == MbTyped /\ MbSilent
  <1>1. Init => I
    BY <1>0, MbBegins, MbSilentBegins
  <1>2. I /\ [Next]_(vars) => I'
    BY <1>0, MbStepKeeps, MbStepStaysSilent DEF MbKeeps
  <1>3. I => SilentIsCleared
    <2> SUFFICES ASSUME MbTyped, MbSilent PROVE SilentIsCleared
      OBVIOUS
    <2>1. /\ heard \in Nat /\ pubDue \in Nat /\ Stale \in Nat /\ PublishPeriod \in Nat
          /\ model.valid \in BOOLEAN /\ packet.valid \in BOOLEAN
      BY <1>0, MbOldIs DEF MbTyped, MbAround, MbShown, MbSizes
    <2>2. heard > Stale + PublishPeriod + Gap + 1 => ~(heard + pubDue <= Stale + PublishPeriod)
      BY <2>1
    <2> QED BY <2>2 DEF MbSilent, Lately, SilentIsCleared
  <1> HIDE DEF I
  <1> QED BY <1>1, <1>2, <1>3, PTL DEF Spec

-----------------------------------------------------------------------------
(* The native source of JK.                                                *)

\* Its other constants and variables have the names of those above, of which nothing is assumed.
CONSTANTS
    Fields, Optional, Odd

VARIABLES
    rx, have, frame, torn

Jk == INSTANCE JkNative

Names == Jk!Range(Fields)

JkSizes ==
    /\ Fields \in Seq(STRING) /\ Names \subseteq STRING /\ "none" \notin Names
    /\ \A i \in 1..Len(Fields) : Fields[i] \in Names
    /\ Period \in Nat \ {0} /\ BufMax \in Nat \ {0}
    /\ Stale \in Nat /\ MaxFaults \in Nat /\ MaxCuts \in Nat /\ Delays \subseteq Nat

LEMMA JkSizesAre == Jk!NativeAssumption => JkSizes
  <1> SUFFICES ASSUME Jk!NativeAssumption PROVE JkSizes
    OBVIOUS
  <1>1. Fields \in Seq(STRING) /\ "none" \notin Names
        /\ Period \in Nat \ {0} /\ BufMax \in Nat \ {0}
        /\ Stale \in Nat /\ MaxFaults \in Nat /\ MaxCuts \in Nat /\ Delays \subseteq Nat
    BY DEF Jk!NativeAssumption, Names
  <1>2. Names \subseteq STRING /\ \A i \in 1..Len(Fields) : Fields[i] \in Names
    BY <1>1 DEF Names, Jk!Range
  <1> QED BY <1>1, <1>2 DEF JkSizes

\* The frames a battery may send, with whatever is wrong in them, and their bytes.
JkFrames ==
    {f \in [parts : Seq(Names), val : Nat, bad : Names \cup {"none"}, len : Nat, sent : Nat] : f.sent <= Len(f.parts) + 3}

JkBytes == {b \in JkFrames \X Nat : 1 <= b[2] /\ b[2] <= Len(b[1].parts) + 3}

LEMMA JkByteIs ==
    ASSUME NEW f \in JkFrames, NEW i \in 1..(Len(f.parts) + 3)
    PROVE  <<f, i>> \in JkBytes
  BY DEF JkBytes, JkFrames

LEMMA JkByteHas ==
    ASSUME NEW b \in JkBytes
    PROVE  /\ b[1] \in JkFrames /\ b[2] \in 1..(Len(b[1].parts) + 3) /\ b = <<b[1], b[2]>>
           /\ Len(b[1].parts) \in Nat
  BY DEF JkBytes, JkFrames

LEMMA JkFrameHas ==
    ASSUME NEW f \in JkFrames
    PROVE  /\ f.parts \in Seq(Names) /\ Len(f.parts) \in Nat /\ DOMAIN f.parts = 1..Len(f.parts)
           /\ \A i \in 1..Len(f.parts) : f.parts[i] \in Names
           /\ f.val \in Nat /\ f.len \in Nat /\ f.sent \in 0..(Len(f.parts) + 3)
           /\ f.bad \in Names \cup {"none"}
  BY DEF JkFrames

LEMMA FrameKept ==
    ASSUME NEW f \in JkFrames, NEW n \in Nat
    PROVE  /\ [f EXCEPT !.len = n] \in JkFrames
           /\ n <= f.sent => [f EXCEPT !.sent = n] \in JkFrames
           /\ \A x \in Names : [f EXCEPT !.bad = x] \in JkFrames
  BY DEF JkFrames

-----------------------------------------------------------------------------
(* What may be shown after a turn of the loop.                             *)

Snaps(buf) == UNION {Jk!Decoded(SubSeq(buf, p, q)) : p \in 1..Len(buf), q \in 1..Len(buf)}

Anew(shot) == [model |-> shot, have |-> TRUE, frame |-> 0]

Shows(old, buf) == {old} \cup {Anew(shot) : shot \in Snaps(buf)}

Scans(old, buf) == [rx : {buf}, next : 1..(Len(buf) + 1), wait : BOOLEAN, may : SUBSET Shows(old, buf)]

LEMMA JkFrameAtIs ==
    ASSUME NEW old, NEW buf \in Seq(JkBytes), NEW e \in Scans(old, buf), NEW p \in 1..Len(buf)
    PROVE  Jk!FrameAt(e, p) \in Scans(old, buf)
  <1> DEFINE f == buf[p][1]
             data == SubSeq(buf, p, p + f.len - 1)
             ds == {Jk!Published(m, shot) : m \in e.may, shot \in Jk!Decoded(data)}
  <1>1. Len(buf) \in Nat /\ buf[p] \in JkBytes /\ f \in JkFrames /\ f.len \in Nat
    BY JkByteHas, JkFrameHas
  <1>2. e.rx = buf /\ e.next \in 1..(Len(buf) + 1) /\ e.wait \in BOOLEAN /\ e.may \subseteq Shows(old, buf)
    BY DEF Scans
  <1>3. \/ Jk!FrameAt(e, p) = e
        \/ f.len >= 3 /\ p + f.len - 1 > Len(buf) /\ Jk!FrameAt(e, p) = [e EXCEPT !.wait = TRUE, !.next = p]
        \/ f.len >= 3 /\ p + f.len - 1 <= Len(buf)
           /\ Jk!FrameAt(e, p) = [e EXCEPT !.next = p + f.len, !.may = ds]
    <2> DEFINE late == p + f.len - 1 > Len(buf)
               a == [e EXCEPT !.wait = TRUE, !.next = p]
               b == [e EXCEPT !.next = p + f.len, !.may = ds]
    <2>1. Jk!FrameAt(e, p) = e \/ (~(f.len < 3) /\ Jk!FrameAt(e, p) = IF late THEN a ELSE b)
      <3>1. PICK r : r = e.rx
        OBVIOUS
      <3>2. r = buf
        BY <1>2, <3>1
      <3> QED BY <3>1, <3>2 DEF Jk!FrameAt
    <2> HIDE DEF f, a, b, ds
    <2>2. ~(f.len < 3) => f.len >= 3
      BY <1>1
    <2>3. ~late => p + f.len - 1 <= Len(buf)
      BY <1>1
    <2>4. \/ Jk!FrameAt(e, p) = e
          \/ f.len >= 3 /\ late /\ Jk!FrameAt(e, p) = a
          \/ f.len >= 3 /\ p + f.len - 1 <= Len(buf) /\ Jk!FrameAt(e, p) = b
      BY <2>1, <2>2, <2>3
    <2> QED BY <2>4 DEF a, b
  <1>4. CASE Jk!FrameAt(e, p) = e
    BY <1>4
  <1>5. CASE Jk!FrameAt(e, p) = [e EXCEPT !.wait = TRUE, !.next = p]
    <2>1. p \in 1..(Len(buf) + 1)
      BY <1>1
    <2> QED BY <1>5, <2>1 DEF Scans
  <1>6. CASE f.len >= 3 /\ p + f.len - 1 <= Len(buf)
             /\ Jk!FrameAt(e, p) = [e EXCEPT !.next = p + f.len, !.may = ds]
    <2> HIDE DEF f
    <2>1. p + f.len \in 1..(Len(buf) + 1) /\ p + f.len - 1 \in 1..Len(buf)
      BY <1>1, <1>6
    <2>2. ds \subseteq Shows(old, buf)
      <3>1. ASSUME NEW m \in e.may, NEW shot \in Jk!Decoded(data)
            PROVE  Jk!Published(m, shot) \in Shows(old, buf)
        <4>1. m \in Shows(old, buf)
          BY <1>2
        <4>2. shot \in Snaps(buf)
          BY <2>1 DEF Snaps
        <4> QED BY <4>1, <4>2 DEF Shows, Anew, Jk!Published
      <3> HIDE DEF data
      <3> QED BY <3>1
    <2> HIDE DEF ds
    <2> QED BY <1>6, <2>1, <2>2 DEF Scans
  <1> QED BY <1>3, <1>4, <1>5, <1>6

\* What the scan has come to at each place, and what consumeRx makes of it.
IsScan(g, old, buf, N) ==
    /\ g \in [0..N -> Scans(old, buf)]
    /\ g[0] = [rx |-> buf, next |-> 1, wait |-> FALSE, may |-> {old}]
    /\ \A p \in 1..N : g[p] = Jk!FrameAt(g[p - 1], p)
    /\ Jk!ConsumeRx = [may |-> g[N].may, rx |-> IF g[N].wait THEN Jk!From(buf, g[N].next) ELSE <<>>]

LEMMA JkSearchIs ==
    ASSUME NEW old, old = [model |-> model, have |-> have, frame |-> Jk!Grown(frame)],
           NEW buf \in Seq(JkBytes), buf = Jk!Fill(wire), wire # <<>>, NEW N \in Nat, N = Len(buf)
    PROVE  \E g : IsScan(g, old, buf, N)
  <1> DEFINE S     == Scans(old, buf)
             b     == [rx |-> buf, next |-> 1, wait |-> FALSE, may |-> {old}]
             F     == [p \in 1..N |-> [x \in S |-> Jk!FrameAt(x, p)]]
             Eq(g) == g = [p \in 0..N |-> IF p = 0 THEN b ELSE Jk!FrameAt(g[p - 1], p)]
             f     == CHOOSE g : Eq(g)
  <1>0. b \in S
    BY DEF Scans, Shows
  <1>1. F \in Moves(S, N)
    <2>1. ASSUME NEW p \in 1..N, NEW x \in S PROVE Jk!FrameAt(x, p) \in S
      BY JkFrameAtIs
    <2> HIDE DEF S
    <2> QED BY <2>1 DEF Moves
  <1>2. \A p \in 1..N : \A x \in S : F[p][x] = Jk!FrameAt(x, p)
    OBVIOUS
  <1> HIDE DEF F, S, b
  <1>3. PICK g : IsRun(g, S, N, b, F)
    BY <1>0, <1>1, IterExists
  <1>4. Eq(g)
    <2>1. \A n \in 0..N : g[n] = IF n = 0 THEN b ELSE Jk!FrameAt(g[n - 1], n)
      BY <1>2, <1>3 DEF IsRun
    <2> QED BY <2>1, <1>3 DEF IsRun
  <1>5. Eq(f)
    <2> HIDE DEF Eq
    <2> QED BY <1>4
  <1>6. Jk!ConsumeRx = [may |-> f[N].may, rx |-> IF f[N].wait THEN Jk!From(buf, f[N].next) ELSE <<>>]
    BY DEF Jk!ConsumeRx, b
  <1> HIDE DEF f
  <1>7. f[0] = b /\ \A n \in 1..N : f[n] = Jk!FrameAt(f[n - 1], n)
    <2>1. \A n \in 0..N : f[n] = IF n = 0 THEN b ELSE Jk!FrameAt(f[n - 1], n)
      BY <1>5
    <2> HIDE DEF Eq
    <2>2. 0 \in 0..N /\ \A n \in 1..N : n \in 0..N /\ n # 0
      OBVIOUS
    <2> QED BY <2>1, <2>2
  <1> DEFINE T == {n \in 0..N : f[n] \in S}
  <1>8. 0 \in T
    BY <1>0, <1>7
  <1>9. ASSUME NEW i \in 1..N, i - 1 \in T PROVE i \in T
    BY <1>7, <1>9, JkFrameAtIs DEF S
  <1>9a. \A i \in 1..N : i - 1 \in T => i \in T
    BY <1>9
  <1> HIDE DEF T
  <1>10. \A i \in 0..N : i \in T
    BY <1>8, <1>9a, Climb
  <1>11. f \in [0..N -> S]
    <2>1. DOMAIN f = 0..N /\ f = [n \in 0..N |-> f[n]]
      BY <1>5
    <2>2. \A n \in 0..N : f[n] \in S
      BY <1>10 DEF T
    <2> QED BY <2>1, <2>2
  <1> QED BY <1>6, <1>7, <1>11 DEF S, b, IsScan

\* What can be read of some bytes has a domain of names.
LEMMA JkReadIs ==
    ASSUME NEW data \in Seq(JkBytes)
    PROVE  DOMAIN Jk!Read(data) \subseteq Names
  <1>1. \A i \in Jk!Entries(data) : Jk!Field(data[i]) \in Names
    <2> SUFFICES ASSUME NEW i \in Jk!Entries(data) PROVE Jk!Field(data[i]) \in Names
      OBVIOUS
    <2>1. data[i] \in JkBytes /\ data[i][2] \in 3..(Len(data[i][1].parts) + 2)
      <3>1. i \in 1..Len(data) /\ Jk!IsEntry(data[i])
        BY DEF Jk!Entries
      <3>2. data[i] \in JkBytes
        BY <3>1
      <3> QED BY <3>1, <3>2, JkByteHas DEF Jk!IsEntry, Jk!Size
    <2>2. data[i][1] \in JkFrames
      BY <2>1, JkByteHas
    <2> QED BY <2>1, <2>2, JkFrameHas DEF Jk!Field
  <1>2. DOMAIN Jk!Read(data) = {Jk!Field(data[i]) : i \in Jk!Entries(data)}
    BY DEF Jk!Read
  <1> QED BY <1>1, <1>2

LEMMA JkDecodedIs ==
    ASSUME NEW data \in Seq(JkBytes), NEW shot \in Jk!Decoded(data)
    PROVE  DOMAIN shot \subseteq Names
  <1> DEFINE new == Jk!Read(data)
             without == [f \in DOMAIN new \ {data[1][1].bad} |-> new[f]]
  <1>1. DOMAIN new \subseteq Names
    BY JkReadIs
  <1>2. DOMAIN without \subseteq Names
    BY <1>1
  <1>3. DOMAIN Jk!Nothing \subseteq Names
    BY DEF Jk!Nothing
  <1>4. shot \in {new, without, Jk!Nothing}
    BY DEF Jk!Decoded
  <1> HIDE DEF new, without
  <1> QED BY <1>1, <1>2, <1>3, <1>4

\* Where a scan can be at.
LEMMA JkSuffixIs ==
    ASSUME NEW S, NEW q \in Seq(S), NEW i \in 1..(Len(q) + 1)
    PROVE  /\ Jk!From(q, i) \in Seq(S) /\ Len(Jk!From(q, i)) = Len(q) - i + 1
           /\ \A k \in 1..(Len(q) - i + 1) : Jk!From(q, i)[k] = q[k + i - 1]
  BY DEF Jk!From

LEMMA JkFillIs ==
    ASSUME JkSizes, rx \in Seq(JkBytes), wire \in Seq(JkBytes), Len(rx) <= BufMax
    PROVE  Jk!Fill(wire) \in Seq(JkBytes) /\ Len(Jk!Fill(wire)) <= BufMax
  <1>1. Len(rx) \in Nat /\ Len(wire) \in Nat /\ BufMax \in Nat \ {0}
    BY DEF JkSizes
  <1>2. CASE ~(Len(wire) > BufMax - Len(rx))
    BY <1>1, <1>2 DEF Jk!Fill
  <1>3. CASE Len(wire) > BufMax - Len(rx) /\ Len(wire) > BufMax
    <2>1. Jk!Fill(wire) = Jk!From(wire, Len(wire) - BufMax + 1) /\ Len(wire) - BufMax + 1 \in 1..(Len(wire) + 1)
      BY <1>1, <1>3 DEF Jk!Fill
    <2> QED BY <1>1, <2>1, JkSuffixIs
  <1>4. CASE Len(wire) > BufMax - Len(rx) /\ ~(Len(wire) > BufMax)
    <2>1. Jk!Fill(wire) = Jk!From(wire, 1) /\ 1 \in 1..(Len(wire) + 1)
      BY <1>1, <1>4 DEF Jk!Fill
    <2> QED BY <1>1, <1>4, <2>1, JkSuffixIs
  <1> QED BY <1>2, <1>3, <1>4

\* consumeRx: what may be shown is what was, or something new of some entries.
JkNew(m) == m.have = TRUE /\ m.frame = 0 /\ DOMAIN m.model \subseteq Names

LEMMA JkConsumed ==
    ASSUME JkSizes, rx \in Seq(JkBytes), wire \in Seq(JkBytes), Len(rx) <= BufMax
    PROVE  /\ Jk!ConsumeRx.rx \in Seq(JkBytes) /\ Len(Jk!ConsumeRx.rx) <= BufMax
           /\ \A m \in Jk!ConsumeRx.may :
                \/ m = [model |-> model, have |-> have, frame |-> Jk!Grown(frame)]
                \/ wire # <<>> /\ JkNew(m)
  <1> DEFINE old == [model |-> model, have |-> have, frame |-> Jk!Grown(frame)]
             c   == Jk!ConsumeRx
  <1> HIDE DEF old
  <1>1. CASE wire = <<>>
    <2>1. c = [rx |-> rx, may |-> {old}]
      BY <1>1 DEF Jk!ConsumeRx, old
    <2> QED BY <2>1 DEF old
  <1>2. CASE wire # <<>>
    <2>1. PICK buf \in Seq(JkBytes) : buf = Jk!Fill(wire) /\ Len(buf) <= BufMax /\ Len(buf) \in Nat
      BY JkFillIs
    <2>2. PICK N \in Nat : N = Len(buf)
      BY <2>1
    <2>a. old = [model |-> model, have |-> have, frame |-> Jk!Grown(frame)]
      BY DEF old
    <2>b. PICK g : IsScan(g, old, buf, N)
      BY <1>2, <2>a, <2>1, <2>2, JkSearchIs
    <2>3. /\ g \in [0..N -> Scans(old, buf)]
          /\ c = [may |-> g[N].may, rx |-> IF g[N].wait THEN Jk!From(buf, g[N].next) ELSE <<>>]
      BY <2>b DEF IsScan
    <2> HIDE DEF c
    <2>4. PICK e : e = g[N]
      OBVIOUS
    <2>5. e \in Scans(old, buf)
      BY <2>2, <2>3, <2>4
    <2>6. e.next \in 1..(Len(buf) + 1) /\ e.may \subseteq Shows(old, buf)
      BY <2>5 DEF Scans
    <2>7. c.rx \in Seq(JkBytes) /\ Len(c.rx) <= BufMax
      <3>1. BufMax \in Nat
        BY DEF JkSizes
      <3>2. CASE e.wait
        <4>1. c.rx = Jk!From(buf, e.next)
          BY <2>3, <2>4, <3>2
        <4> QED BY <2>1, <2>6, <3>1, <4>1, JkSuffixIs
      <3>3. CASE ~e.wait
        <4>1. c.rx = <<>>
          BY <2>3, <2>4, <3>3
        <4> QED BY <3>1, <4>1
      <3> QED BY <3>2, <3>3
    <2>8. ASSUME NEW m \in c.may, m # old PROVE JkNew(m)
      <3>1. m \in Shows(old, buf)
        BY <2>3, <2>4, <2>6
      <3>2. PICK shot \in Snaps(buf) : m = Anew(shot)
        BY <2>8, <3>1 DEF Shows
      <3>3. PICK p \in 1..Len(buf), q \in 1..Len(buf) : shot \in Jk!Decoded(SubSeq(buf, p, q))
        BY <3>2 DEF Snaps
      <3>4. SubSeq(buf, p, q) \in Seq(JkBytes)
        OBVIOUS
      <3>5. DOMAIN shot \subseteq Names
        BY <3>3, <3>4, JkDecodedIs
      <3> QED BY <3>2, <3>5 DEF JkNew, Anew
    <2> QED BY <1>2, <2>7, <2>8 DEF old, c
  <1> QED BY <1>1, <1>2

-----------------------------------------------------------------------------
(* What the source and the battery keep.                                   *)

Sent(f, n, k) == [frame |-> f, due |-> n, from |-> k]

Underway(a) == a = Jk!NoAnswer \/ \E f \in JkFrames, n \in Nat : \E k \in 0..f.sent : a = Sent(f, n, k)

SourceOk ==
    /\ since \in 0..Period /\ rx \in Seq(JkBytes) /\ Len(rx) <= BufMax
    /\ have \in BOOLEAN /\ DOMAIN model \subseteq Names /\ (~have => DOMAIN model = {})
    /\ frame \in 0..Jk!MaxAge

TimesOk ==
    /\ heard \in 0..Jk!MaxAge /\ (wire # <<>> => heard = 0)
    /\ have => frame <= Stale /\ heard <= frame + 1

LineOk == wire \in Seq(JkBytes) /\ Underway(answer)

JkAroundOk ==
    /\ cut \in BOOLEAN /\ torn \in BOOLEAN /\ gen \in Nat /\ faults \in 0..MaxFaults /\ cuts \in 0..MaxCuts
    /\ cuts = IF cut THEN gen + 1 ELSE gen

JkInv == JkSizes /\ SourceOk /\ TimesOk /\ LineOk /\ JkAroundOk

LEMMA MaxAgeIs ==
    ASSUME JkSizes
    PROVE  /\ Jk!MaxAge \in Nat /\ Jk!MaxAge >= Stale + 3
           /\ \A a \in 0..Jk!MaxAge : Jk!Grown(a) \in 0..Jk!MaxAge /\ Jk!Grown(a) <= a + 1
                                      /\ (a < Jk!MaxAge => Jk!Grown(a) = a + 1)
  BY DEF JkSizes, Jk!MaxAge, Jk!Grown

LEMMA SizesStay == JkSizes => JkSizes'
  BY DEF JkSizes, Names, Jk!Range

LEMMA SourceStays == SourceOk /\ UNCHANGED <<since, rx, model, have, frame>> => SourceOk'
  BY DEF SourceOk, Jk!MaxAge

LEMMA AllButIs ==
    ASSUME JkSizes, NEW skip
    PROVE  Jk!AllBut(skip) \in Seq(Names) /\ Len(Jk!AllBut(skip)) <= Len(Fields)
  <1> DEFINE N     == Len(Fields)
             S     == Seq(Names)
             b     == <<>>
             G(i, q) == IF Fields[i] \in skip THEN q ELSE Append(q, Fields[i])
             F     == [i \in 1..N |-> [q \in S |-> G(i, q)]]
             Eq(g) == g = [i \in 0..N |-> IF i = 0 THEN b
                                          ELSE IF Fields[i] \in skip THEN g[i - 1]
                                          ELSE Append(g[i - 1], Fields[i])]
             f     == CHOOSE g : Eq(g)
  <1>0. N \in Nat /\ b \in S
    BY DEF JkSizes
  <1>1. \A i \in 1..N : \A q \in S : G(i, q) \in S /\ Len(G(i, q)) <= Len(q) + 1
    BY DEF JkSizes
  <1>2. F \in Moves(S, N)
    <2> HIDE DEF S, G
    <2> QED BY <1>1 DEF Moves
  <1>3. \A i \in 1..N : \A q \in S : F[i][q] = G(i, q)
    OBVIOUS
  <1> HIDE DEF F
  <1>4. PICK g : IsRun(g, S, N, b, F)
    <2> HIDE DEF S, b, N
    <2> QED BY <1>0, <1>2, IterExists
  <1>5. \A n \in 0..N : g[n] = IF n = 0 THEN b ELSE G(n, g[n - 1])
    <2> HIDE DEF G, S, b
    <2> QED BY <1>0, <1>3, <1>4 DEF IsRun
  <1>6. Eq(f)
    <2>1. Eq(g)
      <3>1. g = [n \in 0..N |-> g[n]]
        BY <1>4 DEF IsRun
      <3> QED BY <1>5, <3>1
    <2> HIDE DEF Eq
    <2> QED BY <2>1
  <1>7. Jk!AllBut(skip) = f[N]
    BY DEF Jk!AllBut
  <1> HIDE DEF f
  <1>8. f[0] = b /\ \A n \in 1..N : f[n] = G(n, f[n - 1])
    <2>1. \A n \in 0..N : f[n] = IF n = 0 THEN b ELSE G(n, f[n - 1])
      <3> HIDE DEF N, b
      <3> QED BY <1>6
    <2> HIDE DEF G, Eq, b, S
    <2>2. 0 \in 0..N /\ \A n \in 1..N : n \in 0..N /\ n # 0
      BY <1>0
    <2> QED BY <2>1, <2>2
  <1> HIDE DEF G, Eq, F
  <1> DEFINE T == {n \in 0..N : f[n] \in S /\ Len(f[n]) <= n}
  <1>9. 0 \in T
    <2>1. Len(b) = 0 /\ 0 \in 0..N
      BY <1>0
    <2> HIDE DEF S, b, N
    <2> QED BY <1>0, <1>8, <2>1
  <1>10. \A i \in 1..N : i - 1 \in T => i \in T
    <2> SUFFICES ASSUME NEW i \in 1..N, i - 1 \in T PROVE i \in T
      OBVIOUS
    <2>1. f[i - 1] \in S /\ Len(f[i - 1]) <= i - 1 /\ f[i] = G(i, f[i - 1])
      BY <1>8
    <2>2. f[i] \in S /\ Len(f[i]) <= Len(f[i - 1]) + 1
      <3> HIDE DEF S, N
      <3> QED BY <1>1, <2>1
    <2>3. Len(f[i]) \in Nat /\ Len(f[i - 1]) \in Nat
      BY <2>1, <2>2
    <2> QED BY <2>1, <2>2, <2>3
  <1> HIDE DEF T
  <1>11. \A i \in 0..N : i \in T
    BY <1>0, <1>9, <1>10, Climb
  <1>12. N \in T
    BY <1>0, <1>11
  <1> QED BY <1>7, <1>12 DEF T

LEMMA JkAnswerIs ==
    ASSUME JkSizes, gen \in Nat, NEW skip
    PROVE  LET f == Jk!AnswerOf(Jk!AllBut(skip))
           IN /\ f \in JkFrames /\ f.bad = "none" /\ f.len = Len(f.parts) + 3 /\ f.sent = f.len
              /\ Len(f.parts) <= Len(Fields)
  <1>1. PICK parts : parts = Jk!AllBut(skip) /\ parts \in Seq(Names) /\ Len(parts) <= Len(Fields)
    BY AllButIs
  <1>2. Len(parts) \in Nat
    BY <1>1
  <1> QED BY <1>1, <1>2 DEF Jk!AnswerOf, JkFrames

LEMMA JkSentIs ==
    ASSUME NEW f, NEW n, NEW k
    PROVE  Sent(f, n, k).frame = f /\ Sent(f, n, k).due = n /\ Sent(f, n, k).from = k
  BY DEF Sent

LEMMA JkSoonerIs ==
    ASSUME Underway(answer), answer = Jk!NoAnswer \/ answer.due > 0
    PROVE  Underway(Jk!Sooner)
  <1>1. CASE answer = Jk!NoAnswer
    BY <1>1 DEF Jk!Sooner, Underway
  <1>2. CASE answer # Jk!NoAnswer
    <2>1. PICK f \in JkFrames, n \in Nat : \E k \in 0..f.sent : answer = Sent(f, n, k)
      BY <1>2 DEF Underway
    <2>2. PICK k \in 0..f.sent : answer = Sent(f, n, k)
      BY <2>1
    <2>3. Jk!Sooner = Sent(f, n - 1, k)
      BY <1>2, <2>2 DEF Jk!Sooner, Sent
    <2>4. n - 1 \in Nat
      BY <1>2, <2>2, JkSentIs
    <2> QED BY <2>3, <2>4 DEF Underway
  <1> QED BY <1>1, <1>2

\* What a turn of the loop leaves of the source.
LEMMA LoopShows ==
    ASSUME JkInv, Jk!Loop
    PROVE  /\ rx' = Jk!ConsumeRx.rx /\ rx' \in Seq(JkBytes) /\ Len(rx') <= BufMax
           /\ \/ have' = TRUE /\ frame' = 0 /\ DOMAIN model' \subseteq Names /\ wire # <<>>
              \/ /\ UNCHANGED <<model, have>> /\ frame' = Jk!Grown(frame)
                 /\ have => frame' <= Stale
              \/ model' = Jk!Nothing /\ have' = FALSE /\ frame' = Jk!Grown(frame)
  <1>1. PICK m \in Jk!ConsumeRx.may :
          /\ rx' = Jk!ConsumeRx.rx
          /\ model' = Jk!ClearStale(m).model /\ have' = Jk!ClearStale(m).have /\ frame' = Jk!ClearStale(m).frame
    BY DEF Jk!Loop
  <1>2. /\ rx' \in Seq(JkBytes) /\ Len(rx') <= BufMax
        /\ \/ m = [model |-> model, have |-> have, frame |-> Jk!Grown(frame)]
           \/ wire # <<>> /\ JkNew(m)
    BY <1>1, JkConsumed DEF JkInv, SourceOk, LineOk
  <1>3. CASE m = [model |-> model, have |-> have, frame |-> Jk!Grown(frame)]
    <2>1. Stale \in Nat /\ Jk!Grown(frame) \in Nat
      BY MaxAgeIs DEF JkInv, SourceOk, JkSizes
    <2>2. CASE m.have /\ m.frame > Stale
      BY <1>1, <1>2, <1>3, <2>2 DEF Jk!ClearStale
    <2>3. CASE ~(m.have /\ m.frame > Stale)
      <3>1. Jk!ClearStale(m) = m
        BY <2>3 DEF Jk!ClearStale
      <3> QED BY <1>1, <1>2, <1>3, <2>1, <2>3, <3>1
    <2> QED BY <2>2, <2>3
  <1>4. CASE wire # <<>> /\ JkNew(m)
    <2>1. Jk!ClearStale(m) = m
      BY <1>4 DEF Jk!ClearStale, JkNew, JkInv, JkSizes
    <2> QED BY <1>1, <1>2, <1>4, <2>1 DEF JkNew
  <1> QED BY <1>2, <1>3, <1>4

LEMMA JkLoopStep ==
    ASSUME JkInv, Jk!Loop
    PROVE  JkInv'
  <1>1. /\ answer = Jk!NoAnswer \/ answer.due > 0
        /\ Jk!NotDue \/ Jk!WriteFails \/ Jk!Poll
        /\ wire' = <<>> /\ heard' = Jk!Grown(heard) /\ UNCHANGED <<cut, gen, cuts, torn>>
    BY DEF Jk!Loop, Jk!envVars
  <1>2. /\ rx' \in Seq(JkBytes) /\ Len(rx') <= BufMax
        /\ \/ have' = TRUE /\ frame' = 0 /\ DOMAIN model' \subseteq Names /\ wire # <<>>
           \/ /\ UNCHANGED <<model, have>> /\ frame' = Jk!Grown(frame)
              /\ have => frame' <= Stale
           \/ model' = Jk!Nothing /\ have' = FALSE /\ frame' = Jk!Grown(frame)
    BY LoopShows
  <1>3. /\ Jk!MaxAge \in Nat /\ Jk!MaxAge >= Stale + 3 /\ Stale \in Nat
        /\ \A a \in 0..Jk!MaxAge : Jk!Grown(a) \in 0..Jk!MaxAge /\ Jk!Grown(a) <= a + 1
        /\ \A a \in 0..Jk!MaxAge : a < Jk!MaxAge => Jk!Grown(a) = a + 1
        /\ Jk!MaxAge' = Jk!MaxAge
    <2>1. Jk!MaxAge' = Jk!MaxAge
      BY DEF Jk!MaxAge
    <2> QED BY <2>1, MaxAgeIs DEF JkInv, JkSizes
  <1>4. since' \in 0..Period
    BY <1>1 DEF JkInv, JkSizes, SourceOk, Jk!NotDue, Jk!WriteFails, Jk!Poll
  <1>5. faults' \in 0..MaxFaults
    BY <1>1 DEF JkInv, JkSizes, JkAroundOk, Jk!NotDue, Jk!WriteFails, Jk!Poll
  <1>6. SourceOk'
    <2>1. have' \in BOOLEAN /\ DOMAIN model' \subseteq Names /\ (~have' => DOMAIN model' = {})
      <3>1. DOMAIN Jk!Nothing = {}
        BY DEF Jk!Nothing
      <3>2. CASE UNCHANGED <<model, have>>
        BY <3>2 DEF JkInv, SourceOk
      <3>3. CASE have' = TRUE /\ DOMAIN model' \subseteq Names
        BY <3>3
      <3>4. CASE model' = Jk!Nothing /\ have' = FALSE
        BY <3>1, <3>4
      <3> QED BY <1>2, <3>2, <3>3, <3>4
    <2>2. frame' \in 0..Jk!MaxAge
      <3>1. frame \in 0..Jk!MaxAge
        BY DEF JkInv, SourceOk
      <3>2. frame' = 0 \/ frame' = Jk!Grown(frame)
        BY <1>2
      <3> QED BY <1>3, <3>1, <3>2
    <2>3. Names' = Names
      BY DEF Names, Jk!Range
    <2> QED BY <1>2, <1>3, <1>4, <2>1, <2>2, <2>3 DEF SourceOk
  <1>7. TimesOk'
    <2>1. heard' \in 0..Jk!MaxAge
      BY <1>1, <1>3 DEF JkInv, TimesOk
    <2>2. ASSUME have' PROVE frame' <= Stale /\ heard' <= frame' + 1
      <3>1. CASE frame' = 0 /\ wire # <<>>
        <4>1. heard = 0
          BY <3>1 DEF JkInv, TimesOk
        <4> QED BY <1>1, <1>3, <3>1, <4>1
      <3>2. CASE have /\ frame' = Jk!Grown(frame) /\ frame' <= Stale
        <4>1. heard <= frame + 1 /\ frame <= Stale /\ heard \in 0..Jk!MaxAge /\ frame \in 0..Jk!MaxAge
          BY <3>2 DEF JkInv, TimesOk, SourceOk
        <4>2. frame < Jk!MaxAge /\ frame' = frame + 1
          BY <1>3, <3>2, <4>1
        <4>3. heard' <= heard + 1
          BY <1>1, <1>3, <4>1
        <4> QED BY <2>1, <1>3, <3>2, <4>1, <4>2, <4>3
      <3> QED BY <1>2, <2>2, <3>1, <3>2
    <2> QED BY <1>1, <1>3, <2>1, <2>2 DEF TimesOk
  <1>8. Underway(answer')
    <2>1. CASE answer' = Jk!Sooner
      BY <1>1, <2>1, JkSoonerIs DEF JkInv, LineOk
    <2>2. CASE answer' # Jk!Sooner
      <3>1. PICK n \in Delays, skip \in SUBSET Optional :
              answer' = [frame |-> Jk!AnswerOf(Jk!AllBut(skip)), due |-> n, from |-> 0]
        BY <1>1, <2>2 DEF Jk!NotDue, Jk!WriteFails, Jk!Poll, Jk!Sent
      <3>2. PICK f \in JkFrames : f = Jk!AnswerOf(Jk!AllBut(skip))
        BY JkAnswerIs DEF JkInv, JkAroundOk
      <3>3. n \in Nat /\ 0 \in 0..f.sent
        BY <3>2, JkFrameHas DEF JkInv, JkSizes
      <3> QED BY <3>1, <3>2, <3>3 DEF Underway, Sent
    <2> QED BY <2>1, <2>2
  <1>9. LineOk'
    <2>1. wire' \in Seq(JkBytes)
      BY <1>1
    <2> QED BY <1>8, <2>1 DEF LineOk
  <1> QED BY <1>1, <1>5, <1>6, <1>7, <1>9, SizesStay DEF JkInv, JkAroundOk

LEMMA JkBytesAre ==
    ASSUME NEW f \in JkFrames
    PROVE  /\ Jk!Bytes(f) \in Seq(JkBytes) /\ Len(Jk!Bytes(f)) = f.sent
           /\ \A i \in 1..f.sent : Jk!Bytes(f)[i] = <<f, i>>
  <1>1. f.sent \in 0..(Len(f.parts) + 3) /\ Len(f.parts) \in Nat
    BY JkFrameHas
  <1>2. \A i \in 1..f.sent : <<f, i>> \in JkBytes
    BY <1>1, JkByteIs
  <1> QED BY <1>1, <1>2 DEF Jk!Bytes

\* The answer that is due.
LEMMA JkDueIs ==
    ASSUME JkInv, Jk!Due
    PROVE  \E f \in JkFrames : \E k \in 0..f.sent : answer = Sent(f, 0, k)
  <1>1. PICK f \in JkFrames, n \in Nat : \E k \in 0..f.sent : answer = Sent(f, n, k)
    BY DEF JkInv, LineOk, Underway, Jk!Due
  <1>2. n = 0
    BY <1>1, JkSentIs DEF Jk!Due
  <1> QED BY <1>1, <1>2

\* Steps that leave the source alone, and do nothing else than to change the answer.
LEMMA AnswerChanges ==
    ASSUME JkInv, UNCHANGED <<Jk!srcVars, Jk!envVars, wire, heard>>, Underway(answer'),
           faults' \in 0..MaxFaults
    PROVE  JkInv'
  <1>1. /\ UNCHANGED <<since, rx, model, have, frame>> /\ UNCHANGED <<cut, gen, cuts, torn>>
        /\ UNCHANGED <<wire, heard>>
    BY DEF Jk!srcVars, Jk!envVars
  <1>2. SourceOk' /\ TimesOk' /\ JkAroundOk'
    BY <1>1, SourceStays DEF JkInv, TimesOk, JkAroundOk, Jk!MaxAge
  <1>3. LineOk'
    BY <1>1 DEF JkInv, LineOk
  <1> QED BY <1>2, <1>3, SizesStay DEF JkInv

LEMMA HarmIs ==
    ASSUME JkInv, NEW h, Jk!Harm(h)
    PROVE  /\ faults' \in 0..MaxFaults /\ h \in Harms
           /\ \E f \in JkFrames : answer = Sent(f, 0, 0)
  <1>1. faults' \in 0..MaxFaults
    BY DEF JkInv, JkSizes, JkAroundOk, Jk!Harm
  <1>2. PICK f \in JkFrames : \E k \in 0..f.sent : answer = Sent(f, 0, k)
    BY JkDueIs DEF Jk!Harm
  <1>3. answer = Sent(f, 0, 0)
    BY <1>2, JkSentIs DEF Jk!Harm
  <1> QED BY <1>1, <1>3 DEF Jk!Harm

LEMMA SendChanged ==
    ASSUME NEW f, NEW g
    PROVE  [Sent(f, 0, 0) EXCEPT !.frame = g] = Sent(g, 0, 0)
  BY DEF Sent

LEMMA JkLoseStep == ASSUME JkInv, Jk!Lose PROVE JkInv'
  <1>1. Underway(answer')
    BY DEF Jk!Lose, Underway
  <1>2. faults' \in 0..MaxFaults
    BY HarmIs DEF Jk!Lose
  <1> QED BY <1>1, <1>2, AnswerChanges DEF Jk!Lose

LEMMA JkDamageSteps ==
    ASSUME JkInv, Jk!DamageLength \/ Jk!DamageEntry \/ Jk!Truncate
    PROVE  JkInv'
  <1>1. PICK h : Jk!Harm(h) /\ UNCHANGED <<Jk!srcVars, Jk!envVars, wire, heard>>
    BY DEF Jk!DamageLength, Jk!DamageEntry, Jk!Truncate
  <1>2. PICK f \in JkFrames : answer = Sent(f, 0, 0)
    BY <1>1, HarmIs
  <1>3. answer.frame = f
    BY <1>2, JkSentIs
  <1>4. /\ Len(f.parts) \in Nat /\ f.sent \in Nat /\ f.parts \in Seq(Names)
        /\ BufMax \in Nat
    BY JkFrameHas DEF JkInv, JkSizes
  <1>5. \E g \in JkFrames : answer' = [answer EXCEPT !.frame = g]
    <2>1. CASE Jk!DamageLength
      <3>1. PICK n \in {3, Jk!Size(f) + 2, BufMax, BufMax + 1} : answer' = [answer EXCEPT !.frame.len = n]
        BY <1>3, <2>1 DEF Jk!DamageLength
      <3>2. n \in Nat
        BY <1>4, <3>1 DEF Jk!Size
      <3>3. [f EXCEPT !.len = n] \in JkFrames
        BY <3>2, FrameKept
      <3> QED BY <1>3, <3>1, <3>3
    <2>2. CASE Jk!DamageEntry
      <3>1. PICK x \in Jk!Range(f.parts) : answer' = [answer EXCEPT !.frame.bad = x]
        BY <1>3, <2>2 DEF Jk!DamageEntry
      <3>2. x \in Names
        BY <1>4 DEF Jk!Range
      <3>3. [f EXCEPT !.bad = x] \in JkFrames
        BY <1>4, <3>2, FrameKept
      <3> QED BY <1>3, <3>1, <3>3
    <2>3. CASE Jk!Truncate
      <3>1. PICK k \in 2..(f.sent - 1) : answer' = [answer EXCEPT !.frame.sent = k]
        BY <1>3, <2>3 DEF Jk!Truncate
      <3>2. k \in Nat /\ k <= f.sent
        BY <1>4
      <3>3. [f EXCEPT !.sent = k] \in JkFrames
        BY <3>2, FrameKept
      <3> QED BY <1>3, <3>1, <3>3
    <2> QED BY <2>1, <2>2, <2>3
  <1>6. Underway(answer')
    <2>1. PICK g \in JkFrames : answer' = [answer EXCEPT !.frame = g]
      BY <1>5
    <2>2. answer' = Sent(g, 0, 0)
      BY <1>2, <2>1, SendChanged
    <2>3. 0 \in 0..g.sent
      BY JkFrameHas
    <2> QED BY <2>2, <2>3 DEF Underway
  <1> QED BY <1>1, <1>6, HarmIs, AnswerChanges

\* An answer, or a part of one, on the wire.
LEMMA WireGrown ==
    ASSUME JkInv, UNCHANGED <<Jk!srcVars, Jk!envVars>>, heard' = 0, faults' \in 0..MaxFaults,
           Underway(answer'), NEW q \in Seq(JkBytes), wire' = wire \o q
    PROVE  JkInv'
  <1>1. UNCHANGED <<since, rx, model, have, frame>> /\ UNCHANGED <<cut, gen, cuts, torn>>
    BY DEF Jk!srcVars, Jk!envVars
  <1>2. SourceOk' /\ JkAroundOk'
    BY <1>1, SourceStays DEF JkInv, JkAroundOk
  <1>3. TimesOk'
    <2>1. frame \in 0..Jk!MaxAge /\ Jk!MaxAge \in Nat
      BY MaxAgeIs DEF JkInv, SourceOk
    <2> QED BY <1>1, <2>1 DEF JkInv, TimesOk, Jk!MaxAge
  <1>4. LineOk'
    <2>1. wire' \in Seq(JkBytes)
      BY DEF JkInv, LineOk
    <2> QED BY <2>1 DEF LineOk
  <1> QED BY <1>2, <1>3, <1>4, SizesStay DEF JkInv

LEMMA JkArriveStep == ASSUME JkInv, Jk!Arrive PROVE JkInv'
  <1>1. PICK f \in JkFrames : \E k \in 0..f.sent : answer = Sent(f, 0, k)
    BY JkDueIs DEF Jk!Arrive
  <1>2. PICK k \in 0..f.sent : answer = Sent(f, 0, k)
    BY <1>1
  <1>3. answer.frame = f /\ answer.from = k
    BY <1>2, JkSentIs
  <1>4. PICK q : q = Jk!From(Jk!Bytes(f), k + 1)
    OBVIOUS
  <1>5. q \in Seq(JkBytes)
    <2>1. f.sent \in Nat
      BY JkFrameHas
    <2>2. Jk!Bytes(f) \in Seq(JkBytes) /\ k + 1 \in 1..(Len(Jk!Bytes(f)) + 1)
      BY <2>1, JkBytesAre
    <2> QED BY <1>4, <2>2, JkSuffixIs
  <1>6. wire' = wire \o q
    BY <1>3, <1>4 DEF Jk!Arrive
  <1>7. Underway(answer')
    BY DEF Jk!Arrive, Underway
  <1>8. faults' \in 0..MaxFaults
    BY DEF Jk!Arrive, JkInv, JkAroundOk
  <1> QED BY <1>5, <1>6, <1>7, <1>8, WireGrown DEF Jk!Arrive

LEMMA SplitHas ==
    ASSUME Jk!Split, NEW f, answer.frame = f
    PROVE  \E k \in 1..(f.sent - 1) :
              /\ wire' = wire \o SubSeq(Jk!Bytes(f), 1, k)
              /\ answer' = [answer EXCEPT !.due = 1, !.from = k]
  <1>1. PICK k \in 1..(answer.frame.sent - 1) :
          /\ wire' = wire \o SubSeq(Jk!Bytes(answer.frame), 1, k)
          /\ answer' = [answer EXCEPT !.due = 1, !.from = k]
    BY Zenon DEF Jk!Split
  <1> QED BY <1>1, Zenon

LEMMA JkSplitStep == ASSUME JkInv, Jk!Split PROVE JkInv'
  <1>1. PICK f \in JkFrames : answer = Sent(f, 0, 0)
    BY HarmIs DEF Jk!Split
  <1>2. answer.frame = f /\ f.sent \in Nat
    BY <1>1, JkSentIs, JkFrameHas
  <1>3. PICK k \in 1..(f.sent - 1) :
          /\ wire' = wire \o SubSeq(Jk!Bytes(f), 1, k)
          /\ answer' = [answer EXCEPT !.due = 1, !.from = k]
    BY <1>2, SplitHas, Zenon
  <1>4. SubSeq(Jk!Bytes(f), 1, k) \in Seq(JkBytes)
    <2>1. Jk!Bytes(f) \in Seq(JkBytes) /\ Len(Jk!Bytes(f)) = f.sent
      BY JkBytesAre
    <2> QED BY <1>2, <2>1
  <1>5. Underway(answer')
    <2>1. answer' = Sent(f, 1, k)
      BY <1>1, <1>3 DEF Sent
    <2>2. k \in 0..f.sent
      BY <1>2
    <2> QED BY <2>1, <2>2 DEF Underway
  <1>6. faults' \in 0..MaxFaults
    BY HarmIs DEF Jk!Split
  <1> QED BY <1>3, <1>4, <1>5, <1>6, WireGrown DEF Jk!Split

LEMMA JkCutStep == ASSUME JkInv, Jk!Cut \/ Jk!Join PROVE JkInv'
  <1>1. /\ UNCHANGED <<since, rx, model, have, frame>> /\ UNCHANGED <<wire, heard, faults>>
        /\ Underway(answer')
    BY DEF Jk!Cut, Jk!Join, Jk!srcVars, Underway, JkInv, LineOk
  <1>2. SourceOk' /\ TimesOk'
    BY <1>1, SourceStays DEF JkInv, TimesOk, Jk!MaxAge
  <1>3. LineOk'
    BY <1>1 DEF JkInv, LineOk
  <1>4. JkAroundOk'
    <2>0. /\ torn \in BOOLEAN /\ gen \in Nat /\ faults \in 0..MaxFaults /\ cuts \in 0..MaxCuts /\ MaxCuts \in Nat
          /\ cuts = IF cut THEN gen + 1 ELSE gen
      BY DEF JkInv, JkAroundOk, JkSizes
    <2>1. CASE Jk!Cut
      <3>1. torn' \in BOOLEAN
        BY <2>1 DEF Jk!Cut
      <3> QED BY <1>1, <2>0, <2>1, <3>1 DEF Jk!Cut, JkAroundOk
    <2>2. CASE Jk!Join
      <3>1. cut /\ ~cut' /\ cut' \in BOOLEAN /\ gen' = gen + 1 /\ UNCHANGED <<cuts, torn>>
        BY <2>2 DEF Jk!Join
      <3>2. cuts' = IF cut' THEN gen' + 1 ELSE gen'
        BY <2>0, <3>1
      <3> QED BY <1>1, <2>0, <3>1, <3>2 DEF JkAroundOk
    <2> QED BY <2>1, <2>2
  <1> QED BY <1>2, <1>3, <1>4, SizesStay DEF JkInv

LEMMA JkInits == Jk!NativeAssumption /\ Jk!Init => JkInv
  <1> SUFFICES ASSUME Jk!NativeAssumption, Jk!Init PROVE JkInv
    OBVIOUS
  <1>1. JkSizes
    BY JkSizesAre
  <1>2. Jk!MaxAge \in Nat
    BY <1>1, MaxAgeIs
  <1>a. ~have /\ ~cut /\ have \in BOOLEAN /\ cut \in BOOLEAN /\ torn \in BOOLEAN
    BY DEF Jk!Init
  <1>3. SourceOk
    <2>1. DOMAIN model = {} /\ rx = <<>> /\ Len(<<>>) = 0
      BY DEF Jk!Init, Jk!Nothing
    <2>2. since = Period /\ frame = Jk!MaxAge
      BY DEF Jk!Init
    <2> QED BY <1>a, <1>1, <1>2, <2>1, <2>2 DEF SourceOk, JkSizes
  <1>4. TimesOk
    BY <1>a, <1>2 DEF Jk!Init, TimesOk
  <1>6. JkAroundOk
    <2>1. gen = 0 /\ faults = 0 /\ cuts = 0
      BY DEF Jk!Init
    <2> QED BY <1>a, <1>1, <2>1 DEF JkAroundOk, JkSizes
  <1>5. LineOk
    BY DEF Jk!Init, LineOk, Underway
  <1> QED BY <1>1, <1>3, <1>4, <1>5, <1>6 DEF JkInv

LEMMA JkStep == JkInv /\ [Jk!Next]_(Jk!vars) => JkInv'
  <1> SUFFICES ASSUME JkInv, [Jk!Next]_(Jk!vars) PROVE JkInv'
    OBVIOUS
  <1>1. CASE UNCHANGED Jk!vars
    <2>1. UNCHANGED <<Jk!srcVars, Jk!envVars, wire, heard>> /\ UNCHANGED <<answer, faults>>
      BY <1>1 DEF Jk!vars
    <2>2. Underway(answer') /\ faults' \in 0..MaxFaults
      BY <2>1 DEF JkInv, LineOk, JkAroundOk
    <2> QED BY <2>1, <2>2, AnswerChanges
  <1>2. CASE Jk!Next
    BY <1>2, JkLoopStep, JkArriveStep, JkLoseStep, JkSplitStep, JkDamageSteps, JkCutStep DEF Jk!Next, Jk!Harmed
  <1> QED BY <1>1, <1>2

\* The native source keeps its buffer within BufMax and its ages within their bounds, and shows only
\* entries that an answer has, whatever is lost, split, cut short or wrong in its length or its entries.
THEOREM JkKeepsTypes == Jk!NativeAssumption /\ Jk!Spec => []Jk!TypeOK
  <1>1. JkInv => Jk!TypeOK
    <2> SUFFICES ASSUME JkInv PROVE Jk!TypeOK
      OBVIOUS
    <2>1. gen \in 0..MaxCuts
      BY DEF JkInv, JkAroundOk, JkSizes
    <2> QED BY <2>1 DEF JkInv, SourceOk, TimesOk, JkAroundOk, Jk!TypeOK, Names
  <1> QED BY <1>1, JkInits, JkStep, PTL DEF Jk!Spec

\* Whatever rests of answers are in the buffer, and whatever their lengths say, a battery that has been
\* silent for the window and a turn of the loop is not shown any more (maybeClearStaleSource).
THEOREM JkClearsTheSilent == Jk!NativeAssumption /\ Jk!Spec => []Jk!SilentIsCleared
  <1>1. JkInv => Jk!SilentIsCleared
    <2> SUFFICES ASSUME JkInv, have PROVE ~(heard > Stale + 1)
      BY DEF Jk!SilentIsCleared
    <2>1. heard \in Nat /\ frame \in Nat /\ Stale \in Nat /\ frame <= Stale /\ heard <= frame + 1
      BY MaxAgeIs DEF JkInv, SourceOk, TimesOk, JkSizes
    <2> QED BY <2>1
  <1> QED BY <1>1, JkInits, JkStep, PTL DEF Jk!Spec

-----------------------------------------------------------------------------
(* While nothing is damaged, what is read is of one answer.                *)

\* No byte is wrong, and an answer fits.
JkCalm == Jk!NativeAssumption /\ Harms \subseteq {"lost", "split"} /\ Len(Fields) + 3 <= BufMax

Sounds == {f \in JkFrames : /\ f.bad = "none" /\ f.len = Len(f.parts) + 3 /\ f.sent = f.len
                            /\ f.len <= BufMax}

One(m) == \A x, y \in DOMAIN m : m[x] = m[y]

\* The first k bytes of an answer are in the buffer and on the wire.
Laid(f, k) ==
    /\ Len(rx) + Len(wire) = k
    /\ \A i \in 1..Len(rx) : rx[i] = <<f, i>>
    /\ \A i \in 1..Len(wire) : wire[i] = <<f, Len(rx) + i>>

NothingCame ==
    rx = <<>> /\ wire = <<>> /\ (answer = Jk!NoAnswer \/ \E f \in Sounds, n \in Nat : answer = Sent(f, n, 0))
WholeCame == wire # <<>> /\ answer = Jk!NoAnswer /\ \E f \in Sounds : Laid(f, f.len)
PartCame  == \E f \in Sounds, n \in Nat, k \in Nat : k \in 1..(f.len - 1) /\ answer = Sent(f, n, k) /\ Laid(f, k)

CameWhole == NothingCame \/ WholeCame \/ PartCame

CalmInv == JkInv /\ (~torn => CameWhole /\ One(model))

LEMMA SoundHas ==
    ASSUME NEW f \in Sounds
    PROVE  /\ f \in JkFrames /\ f.bad = "none" /\ f.len = Len(f.parts) + 3 /\ f.sent = f.len /\ f.len <= BufMax
           /\ f.len \in Nat /\ f.len >= 3 /\ Jk!Size(f) = f.len
  <1>1. f \in JkFrames /\ f.bad = "none" /\ f.len = Len(f.parts) + 3 /\ f.sent = f.len /\ f.len <= BufMax
    BY DEF Sounds
  <1> QED BY <1>1, JkFrameHas DEF Jk!Size

LEMMA GreatestNumber ==
    ASSUME NEW N \in Nat, NEW T \in SUBSET (1..N), T # {}
    PROVE  \E m \in T : \A n \in T : n <= m
  <1> DEFINE R == {N - n : n \in T}
  <1>1. R \in SUBSET Nat /\ R # {}
    <2>1. \A n \in T : N - n \in Nat
      OBVIOUS
    <2>2. PICK n \in T : TRUE
      OBVIOUS
    <2>3. N - n \in R
      OBVIOUS
    <2> QED BY <2>1, <2>3
  <1>2. PICK l \in R : \A n \in R : l <= n
    <2> HIDE DEF R
    <2> QED BY <1>1, LeastNumber
  <1>3. PICK m \in T : l = N - m
    BY <1>2
  <1>4. ASSUME NEW n \in T PROVE n <= m
    <2>1. N - n \in R
      OBVIOUS
    <2> HIDE DEF R
    <2> QED BY <1>2, <1>3, <2>1
  <1> QED BY <1>4

\* All that is read of a frame has the value that frame was sent with.
LEMMA OneIsRead ==
    ASSUME JkSizes, NEW f \in Sounds, NEW data \in Seq(JkBytes), data # <<>>,
           \A i \in 1..Len(data) : data[i][1] = f,
           NEW shot \in Jk!Decoded(data)
    PROVE  One(shot)
  <1> DEFINE at(x)   == {i \in Jk!Entries(data) : Jk!Field(data[i]) = x}
             last(x) == CHOOSE i \in at(x) : \A j \in at(x) : j <= i
             new     == Jk!Read(data)
  <1>0. Len(data) \in Nat /\ Len(data) >= 1 /\ f.bad = "none" /\ "none" \notin Names
    BY SoundHas DEF JkSizes
  <1>1. shot = new
    <2>1. data[1][1] = f /\ \A i \in 2..Len(data) : data[i][1] = data[1][1]
      BY <1>0
    <2> HIDE DEF new
    <2>2. Jk!Decoded(data) = {new}
      BY <1>0, <2>1 DEF Jk!Decoded, new
    <2> QED BY <2>2
  <1>2. DOMAIN new \subseteq Names /\ DOMAIN new = {Jk!Field(data[i]) : i \in Jk!Entries(data)}
    <2>1. DOMAIN new \subseteq Names
      BY JkReadIs
    <2> QED BY <2>1 DEF Jk!Read
  <1>3. ASSUME NEW x \in DOMAIN new PROVE new[x] = f.val
    <2>1. at(x) \in SUBSET (1..Len(data)) /\ at(x) # {}
      <3>1. Jk!Entries(data) \subseteq 1..Len(data)
        BY DEF Jk!Entries
      <3> QED BY <1>2, <1>3, <3>1
    <2>2. \E m \in at(x) : \A n \in at(x) : n <= m
      <3> HIDE DEF at
      <3> QED BY <1>0, <2>1, GreatestNumber
    <2>3. last(x) \in 1..Len(data)
      <3> HIDE DEF at
      <3> QED BY <2>1, <2>2
    <2>4. data[last(x)][1] = f
      <3> HIDE DEF last
      <3> QED BY <2>3
    <2>5. new[x] = IF x = data[last(x)][1].bad THEN Odd ELSE data[last(x)][1].val
      BY <1>2, <1>3 DEF Jk!Read
    <2>6. x \in Names
      BY <1>2, <1>3
    <2> HIDE DEF last, new
    <2> QED BY <1>0, <2>4, <2>5, <2>6
  <1> HIDE DEF new
  <1> QED BY <1>1, <1>3 DEF One

\* The scan of the bytes of one answer decides at its head.
Decided(g, old, buf, f, N) ==
    /\ g[N].wait <=> N < f.len
    /\ N < f.len => g[N].next = 1 /\ g[N].may = {old}
    /\ N = f.len => g[N].may = {Jk!Published(old, shot) : shot \in Jk!Decoded(buf)}

LEMMA HeadDecides ==
    ASSUME JkSizes, NEW old, NEW buf \in Seq(JkBytes), NEW N \in Nat, N = Len(buf), N >= 1, NEW g, IsScan(g, old, buf, N),
           NEW f \in Sounds, \A i \in 1..N : buf[i] = <<f, i>>, N <= f.len
    PROVE  Decided(g, old, buf, f, N)
  <1>1. /\ f.len \in Nat /\ f.len >= 3 /\ f.len <= BufMax /\ BufMax \in Nat
    BY SoundHas DEF JkSizes
  <1>2. /\ g \in [0..N -> Scans(old, buf)]
        /\ g[0] = [rx |-> buf, next |-> 1, wait |-> FALSE, may |-> {old}]
        /\ \A p \in 1..N : g[p] = Jk!FrameAt(g[p - 1], p)
    BY DEF IsScan
  <1>3. \A p \in 1..N : g[p].rx = buf /\ g[p - 1].rx = buf
    <2>1. \A p \in 0..N : g[p] \in Scans(old, buf)
      BY <1>2
    <2>2. \A p \in 0..N : g[p].rx = buf
      BY <2>1 DEF Scans
    <2>3. \A p \in 1..N : p \in 0..N /\ p - 1 \in 0..N
      OBVIOUS
    <2> QED BY <2>2, <2>3
  <1>4. ASSUME NEW p \in 2..N PROVE g[p] = g[p - 1]
    <2>1. buf[p][2] = p /\ p \in 1..N
      OBVIOUS
    <2>2. g[p] = Jk!FrameAt(g[p - 1], p) /\ g[p - 1].rx = buf
      BY <1>2, <1>3, <2>1
    <2>3. ~Jk!IsHead(buf[p])
      BY <2>1 DEF Jk!IsHead
    <2> QED BY <2>2, <2>3 DEF Jk!FrameAt
  <1>5. g[N] = g[1]
    <2> DEFINE T == {p \in 0..N : p >= 1 => g[p] = g[1]}
    <2>1. 0 \in T
      OBVIOUS
    <2>2. \A i \in 1..N : i - 1 \in T => i \in T
      <3> SUFFICES ASSUME NEW i \in 1..N, i - 1 \in T PROVE i \in T
        OBVIOUS
      <3>1. CASE i = 1
        BY <3>1
      <3>2. CASE i # 1
        BY <1>4, <3>2
      <3> QED BY <3>1, <3>2
    <2> HIDE DEF T
    <2>3. \A i \in 0..N : i \in T
      BY <2>1, <2>2, Climb
    <2>4. N \in T
      BY <2>3
    <2> QED BY <2>4 DEF T
  <1> DEFINE start == [rx |-> buf, next |-> 1, wait |-> FALSE, may |-> {old}]
             data  == SubSeq(buf, 1, f.len)
             ds     == {Jk!Published(m, shot) : m \in {old}, shot \in Jk!Decoded(data)}
  <1>6. g[1] = Jk!FrameAt(start, 1)
    <2>1. 1 \in 1..N /\ 1 - 1 = 0
      OBVIOUS
    <2>2. g[1] = Jk!FrameAt(g[1 - 1], 1)
      BY <1>2, <2>1
    <2> QED BY <1>2, <2>1, <2>2
  <1>7. /\ start.rx = buf /\ start.next = 1 /\ ~start.wait /\ start.may = {old}
        /\ buf[1] = <<f, 1>> /\ buf[1][1] = f /\ Jk!IsHead(buf[1])
        /\ ~(1 < Len(buf) /\ buf[1 + 1] # <<f, 2>>)
    BY DEF Jk!IsHead
  <1>8. /\ 1 + f.len - 1 = f.len /\ ~(1 < 1)
        /\ ~(f.len < 3 \/ f.len > BufMax)
    BY <1>1
  <1>a. Jk!FrameAt(start, 1) =
          IF f.len > Len(buf) THEN [start EXCEPT !.wait = TRUE, !.next = 1]
          ELSE [start EXCEPT !.next = 1 + f.len, !.may = ds]
    <2> DEFINE c == {Jk!Published(m, shot) : m \in start.may,
                                             shot \in Jk!Decoded(SubSeq(start.rx, 1, 1 + f.len - 1))}
    <2>1. Jk!FrameAt(start, 1) =
            IF 1 + f.len - 1 > Len(start.rx) THEN [start EXCEPT !.wait = TRUE, !.next = 1]
            ELSE [start EXCEPT !.next = 1 + f.len, !.may = c]
      <3> HIDE DEF start
      <3>1. /\ start.rx[1][1] = f /\ ~(1 < start.next) /\ Jk!IsHead(start.rx[1]) /\ ~start.wait
            /\ ~(1 < Len(start.rx) /\ start.rx[1 + 1] # <<f, 2>>)
        BY <1>7, <1>8
      <3> QED BY <1>8, <3>1 DEF Jk!FrameAt
    <2>2. c = ds
      BY <1>8
    <2> HIDE DEF c, ds
    <2> QED BY <1>7, <1>8, <2>1, <2>2
  <1>9. CASE N < f.len
    <2>1. g[1] = [start EXCEPT !.wait = TRUE, !.next = 1]
      <3> HIDE DEF start, ds
      <3> QED BY <1>1, <1>6, <1>a, <1>9
    <2>2. g[1].wait = TRUE /\ g[1].next = 1 /\ g[1].may = {old}
      BY <2>1
    <2> QED BY <1>5, <1>9, <2>2 DEF Decided
  <1>10. CASE N = f.len
    <2>1. g[1] = [start EXCEPT !.next = 1 + f.len, !.may = ds]
      <3> HIDE DEF start, ds
      <3> QED BY <1>1, <1>6, <1>a, <1>10
    <2> HIDE DEF ds
    <2>2. g[1].wait = FALSE /\ g[1].may = ds
      BY <2>1
    <2>3. data = buf
      <3>1. data = SubSeq(buf, 1, Len(buf))
        BY <1>10
      <3>2. \A q \in Seq(JkBytes) : SubSeq(q, 1, Len(q)) = q
        OBVIOUS
      <3> QED BY <3>1, <3>2
    <2>4. ds = {Jk!Published(old, shot) : shot \in Jk!Decoded(buf)}
      <3> HIDE DEF data
      <3> QED BY <2>3 DEF ds
    <2> QED BY <1>1, <1>5, <1>10, <2>2, <2>4 DEF Decided
  <1> QED BY <1>1, <1>9, <1>10

LEMMA SoundStays ==
    ASSUME JkInv, JkCalm, NEW skip
    PROVE  Jk!AnswerOf(Jk!AllBut(skip)) \in Sounds
  <1>1. PICK f : f = Jk!AnswerOf(Jk!AllBut(skip))
    OBVIOUS
  <1>2. f \in JkFrames /\ f.bad = "none" /\ f.len = Len(f.parts) + 3 /\ f.sent = f.len
        /\ Len(f.parts) <= Len(Fields)
    BY <1>1, JkAnswerIs DEF JkInv, JkAroundOk
  <1>3. Len(f.parts) \in Nat /\ Len(Fields) \in Nat /\ BufMax \in Nat
    BY <1>2, JkFrameHas DEF JkInv, JkSizes
  <1> QED BY <1>1, <1>2, <1>3 DEF Sounds, JkCalm

\* What is buffered and what came are the first bytes of the answer.
LEMMA LaidIs ==
    ASSUME JkInv, NEW f \in Sounds, NEW k \in Nat, k <= f.len, Laid(f, k)
    PROVE  /\ Jk!Fill(wire) \in Seq(JkBytes) /\ Len(Jk!Fill(wire)) = k
           /\ \A i \in 1..k : Jk!Fill(wire)[i] = <<f, i>>
  <1>1. /\ rx \in Seq(JkBytes) /\ wire \in Seq(JkBytes) /\ Len(rx) \in Nat /\ Len(wire) \in Nat /\ BufMax \in Nat
        /\ f.len \in Nat /\ f.len <= BufMax
    BY SoundHas DEF JkInv, SourceOk, LineOk, JkSizes
  <1>2. Jk!Fill(wire) = rx \o wire
    <2>1. Len(rx) + Len(wire) = k
      BY DEF Laid
    <2>2. ~(Len(wire) > BufMax - Len(rx))
      BY <1>1, <2>1
    <2> QED BY <2>2 DEF Jk!Fill
  <1>3. ASSUME NEW i \in 1..k PROVE (rx \o wire)[i] = <<f, i>>
    <2>1. CASE i <= Len(rx)
      BY <1>1, <2>1 DEF Laid
    <2>2. CASE ~(i <= Len(rx))
      <3>1. i - Len(rx) \in 1..Len(wire) /\ (rx \o wire)[i] = wire[i - Len(rx)]
        BY <1>1, <2>2 DEF Laid
      <3>2. wire[i - Len(rx)] = <<f, Len(rx) + (i - Len(rx))>> /\ Len(rx) + (i - Len(rx)) = i
        BY <1>1, <3>1 DEF Laid
      <3> QED BY <3>1, <3>2
    <2> QED BY <2>1, <2>2
  <1>4. rx \o wire \in Seq(JkBytes) /\ Len(rx \o wire) = k
    BY <1>1 DEF Laid
  <1> QED BY <1>2, <1>3, <1>4

LEMMA ClearKeepsOne ==
    ASSUME NEW x, NEW h, NEW n, One(x)
    PROVE  One(Jk!ClearStale([model |-> x, have |-> h, frame |-> n]).model)
  <1> DEFINE m == [model |-> x, have |-> h, frame |-> n]
  <1>1. One(Jk!Nothing)
    BY DEF One, Jk!Nothing
  <1>2. Jk!ClearStale(m).model = x \/ Jk!ClearStale(m).model = Jk!Nothing
    BY DEF Jk!ClearStale
  <1> QED BY <1>1, <1>2

\* What consumeRx makes of the bytes of one answer.
LEMMA OneConsumed ==
    ASSUME JkInv, NEW f \in Sounds, NEW k \in Nat, k <= f.len, Laid(f, k), wire # <<>>, One(model)
    PROVE  /\ \A m \in Jk!ConsumeRx.may : One(Jk!ClearStale(m).model)
           /\ k = f.len => Jk!ConsumeRx.rx = <<>>
           /\ k < f.len => /\ Jk!ConsumeRx.rx \in Seq(JkBytes) /\ Len(Jk!ConsumeRx.rx) = k
                           /\ \A i \in 1..k : Jk!ConsumeRx.rx[i] = <<f, i>>
  <1>1. PICK old : old = [model |-> model, have |-> have, frame |-> Jk!Grown(frame)]
    OBVIOUS
  <1>2. PICK buf \in Seq(JkBytes) : buf = Jk!Fill(wire) /\ Len(buf) = k /\ \A i \in 1..k : buf[i] = <<f, i>>
    BY LaidIs
  <1>3. JkSizes /\ k >= 1 /\ f.len \in Nat
    BY SoundHas DEF JkInv, SourceOk, LineOk, Laid
  <1>4. PICK g : IsScan(g, old, buf, k)
    BY <1>1, <1>2, JkSearchIs
  <1>5. /\ g[k].wait <=> k < f.len
        /\ k < f.len => g[k].next = 1 /\ g[k].may = {old}
        /\ k = f.len => g[k].may = {Jk!Published(old, shot) : shot \in Jk!Decoded(buf)}
    <2>1. \A i \in 1..k : buf[i] = <<f, i>>
      BY <1>2
    <2>2. Decided(g, old, buf, f, k)
      BY <1>2, <1>3, <1>4, <2>1, HeadDecides
    <2> QED BY <2>2 DEF Decided
  <1>6. PICK c : c = Jk!ConsumeRx
    OBVIOUS
  <1>7. c = [may |-> g[k].may, rx |-> IF g[k].wait THEN Jk!From(buf, g[k].next) ELSE <<>>]
    BY <1>4, <1>6 DEF IsScan
  <1>8. One(Jk!ClearStale(old).model)
    BY <1>1, ClearKeepsOne
  <1>9. CASE k < f.len
    <2>1. c.may = {old} /\ c.rx = Jk!From(buf, 1)
      BY <1>5, <1>7, <1>9
    <2>2. /\ c.rx \in Seq(JkBytes) /\ Len(c.rx) = k - 1 + 1
          /\ \A i \in 1..(k - 1 + 1) : c.rx[i] = buf[i + 1 - 1]
      <3>1. 1 \in 1..(Len(buf) + 1)
        BY <1>2, <1>3
      <3>2. PICK q \in Seq(JkBytes) : q = buf
        BY <1>2
      <3>3. /\ Jk!From(q, 1) \in Seq(JkBytes) /\ Len(Jk!From(q, 1)) = Len(q) - 1 + 1
            /\ \A i \in 1..(Len(q) - 1 + 1) : Jk!From(q, 1)[i] = q[i + 1 - 1]
        BY <3>1, <3>2, JkSuffixIs
      <3>4. c.rx = Jk!From(q, 1) /\ Len(q) = k
        BY <1>2, <2>1, <3>2
      <3> QED BY <3>2, <3>3, <3>4
    <2> QED BY <1>2, <1>3, <1>6, <1>8, <1>9, <2>1, <2>2
  <1>10. CASE k = f.len
    <2>1. c.may = {Jk!Published(old, shot) : shot \in Jk!Decoded(buf)} /\ c.rx = <<>>
      BY <1>3, <1>5, <1>7, <1>10
    <2>2. ASSUME NEW shot \in Jk!Decoded(buf) PROVE One(Jk!ClearStale(Jk!Published(old, shot)).model)
      <3>1. One(shot)
        <4>1. buf # <<>> /\ \A i \in 1..Len(buf) : buf[i][1] = f
          BY <1>2, <1>3
        <4> QED BY <1>3, <4>1, OneIsRead
      <3>2. Jk!Published(old, shot) = old \/ Jk!Published(old, shot) = Anew(shot)
        BY DEF Jk!Published, Anew
      <3>3. One(Jk!ClearStale(Anew(shot)).model)
        BY <3>1, ClearKeepsOne DEF Anew
      <3> QED BY <1>8, <3>2, <3>3
    <2> QED BY <1>3, <1>6, <1>10, <2>1, <2>2
  <1> QED BY <1>3, <1>9, <1>10

LEMMA CalmLoop ==
    ASSUME JkInv, JkCalm, ~torn, CameWhole, One(model), Jk!Loop
    PROVE  CameWhole' /\ One(model')
  <1>1. PICK m \in Jk!ConsumeRx.may : rx' = Jk!ConsumeRx.rx /\ model' = Jk!ClearStale(m).model
    BY DEF Jk!Loop
  <1>2. /\ wire' = <<>>
        /\ answer = Jk!NoAnswer \/ answer.due > 0
        /\ answer' = Jk!Sooner \/ (Jk!Sent /\ ~cut /\ answer = Jk!NoAnswer)
    BY DEF Jk!Loop, Jk!NotDue, Jk!WriteFails, Jk!Poll, Jk!Sent
  <1>3. ASSUME wire = <<>> PROVE rx' = rx /\ One(model')
    <2>1. Jk!ConsumeRx = [rx |-> rx, may |-> {[model |-> model, have |-> have, frame |-> Jk!Grown(frame)]}]
      BY <1>3 DEF Jk!ConsumeRx
    <2> QED BY <1>1, <2>1, ClearKeepsOne
  <1>4. ASSUME Jk!Sent, ~cut, answer = Jk!NoAnswer
        PROVE  \E f \in Sounds, n \in Nat : answer' = Sent(f, n, 0)
    <2>1. PICK n \in Delays, skip \in SUBSET Optional :
            answer' = [frame |-> Jk!AnswerOf(Jk!AllBut(skip)), due |-> n, from |-> 0]
      BY <1>4 DEF Jk!Sent
    <2>2. PICK f \in Sounds : f = Jk!AnswerOf(Jk!AllBut(skip))
      BY SoundStays
    <2>3. n \in Nat
      BY DEF JkInv, JkSizes
    <2> QED BY <2>1, <2>2, <2>3 DEF Sent
  <1>5. answer = Jk!NoAnswer => Jk!Sooner = Jk!NoAnswer
    BY DEF Jk!Sooner
  <1>6. ASSUME NEW f, NEW n \in Nat, NEW k, answer = Sent(f, n, k), answer # Jk!NoAnswer
        PROVE  answer' = Sent(f, n - 1, k) /\ n - 1 \in Nat
    <2>1. n > 0
      BY <1>2, <1>6, JkSentIs
    <2>2. Jk!Sooner = Sent(f, n - 1, k)
      BY <1>6 DEF Jk!Sooner, Sent
    <2> QED BY <1>2, <1>6, <2>1, <2>2
  <1>7. CASE NothingCame
    <2>1. rx' = <<>> /\ One(model')
      BY <1>3, <1>7 DEF NothingCame
    <2>2. answer' = Jk!NoAnswer \/ \E f \in Sounds, n \in Nat : answer' = Sent(f, n, 0)
      <3>1. CASE answer = Jk!NoAnswer
        BY <1>2, <1>4, <1>5, <3>1
      <3>2. CASE answer # Jk!NoAnswer
        BY <1>6, <1>7, <3>2 DEF NothingCame
      <3> QED BY <3>1, <3>2
    <2>3. NothingCame'
      BY <1>2, <2>1, <2>2 DEF NothingCame
    <2> QED BY <2>1, <2>3 DEF CameWhole
  <1>8. CASE WholeCame
    <2>1. PICK f \in Sounds : Laid(f, f.len) /\ wire # <<>> /\ answer = Jk!NoAnswer
      BY <1>8 DEF WholeCame
    <2>2. f.len \in Nat
      BY SoundHas
    <2>3. rx' = <<>> /\ One(model')
      BY <1>1, <2>1, <2>2, OneConsumed
    <2>4. NothingCame'
      BY <1>2, <1>4, <1>5, <2>1, <2>3 DEF NothingCame
    <2> QED BY <2>3, <2>4 DEF CameWhole
  <1>9. CASE PartCame
    <2>1. PICK f \in Sounds, n \in Nat, k \in Nat : k \in 1..(f.len - 1) /\ answer = Sent(f, n, k) /\ Laid(f, k)
      BY <1>9 DEF PartCame
    <2>2. f.len \in Nat /\ k < f.len
      BY <2>1, SoundHas
    <2>3. answer # Jk!NoAnswer
      <3>1. answer.from = k /\ Jk!NoAnswer.from = 0
        BY <2>1, JkSentIs DEF Jk!NoAnswer
      <3> QED BY <2>1, <3>1
    <2>4. answer' = Sent(f, n - 1, k) /\ n - 1 \in Nat
      BY <1>6, <2>1, <2>3
    <2>5. One(model') /\ Len(rx') = k /\ \A i \in 1..k : rx'[i] = <<f, i>>
      <3>1. CASE wire = <<>>
        <4>1. rx \in Seq(JkBytes) /\ Len(<<>>) = 0
          BY DEF JkInv, SourceOk
        <4>2. Len(rx) = k
          BY <2>1, <3>1, <4>1 DEF Laid
        <4> QED BY <1>3, <2>1, <3>1, <4>2 DEF Laid
      <3>2. CASE wire # <<>>
        BY <1>1, <2>1, <2>2, <3>2, OneConsumed
      <3> QED BY <3>1, <3>2
    <2>6. Laid(f, k)'
      <3>1. Len(wire') = 0
        BY <1>2
      <3> QED BY <1>2, <2>5, <3>1 DEF Laid
    <2>7. PartCame'
      BY <2>1, <2>4, <2>6 DEF PartCame
    <2> QED BY <2>5, <2>7 DEF CameWhole
  <1> QED BY <1>7, <1>8, <1>9 DEF CameWhole

\* An answer in flight of which nothing came yet, or a part.
LEMMA CalmDue ==
    ASSUME JkInv, CameWhole, Jk!Due
    PROVE  \/ /\ rx = <<>> /\ wire = <<>> /\ \E f \in Sounds : answer = Sent(f, 0, 0)
           \/ \E f \in Sounds, k \in Nat : k \in 1..(f.len - 1) /\ answer = Sent(f, 0, k) /\ Laid(f, k)
  <1>1. answer # Jk!NoAnswer /\ answer.due = 0
    BY DEF Jk!Due
  <1>2. CASE NothingCame
    <2>1. PICK f \in Sounds, n \in Nat : answer = Sent(f, n, 0)
      BY <1>1, <1>2 DEF NothingCame
    <2>2. n = 0
      BY <1>1, <2>1, JkSentIs
    <2> QED BY <1>2, <2>1, <2>2 DEF NothingCame
  <1>3. CASE PartCame
    <2>1. PICK f \in Sounds, n \in Nat, k \in Nat : k \in 1..(f.len - 1) /\ answer = Sent(f, n, k) /\ Laid(f, k)
      BY <1>3 DEF PartCame
    <2>2. n = 0
      BY <1>1, <2>1, JkSentIs
    <2> QED BY <2>1, <2>2
  <1> QED BY <1>1, <1>2, <1>3 DEF CameWhole, WholeCame

LEMMA JkJoined ==
    ASSUME NEW S, NEW a \in Seq(S), NEW b \in Seq(S)
    PROVE  /\ a \o b \in Seq(S) /\ Len(a \o b) = Len(a) + Len(b)
           /\ \A i \in 1..Len(a) : (a \o b)[i] = a[i]
           /\ \A i \in (Len(a) + 1)..(Len(a) + Len(b)) : (a \o b)[i] = b[i - Len(a)]
  OBVIOUS

Row(s, f, o, n)      == \A i \in 1..n : s[i] = <<f, o + i>>
Spliced(w, u, q, b, n) == (\A i \in 1..b : w[i] = u[i]) /\ (\A i \in (b + 1)..(b + n) : w[i] = q[i - b])

LEMMA RowSum ==
    ASSUME NEW f, NEW a \in Nat, NEW b \in Nat, NEW k \in Nat, NEW l \in Nat, a + b = k, k < l,
           NEW u, NEW q, NEW w,
           Row(u, f, a, b), Row(q, f, k, l - k), Spliced(w, u, q, b, l - k)
    PROVE  Row(w, f, a, b + (l - k))
  <1> USE DEF Row, Spliced
  <1> SUFFICES ASSUME NEW i \in 1..(b + (l - k)) PROVE w[i] = <<f, a + i>>
    OBVIOUS
  <1>1. CASE i <= b
    BY <1>1
  <1>2. CASE ~(i <= b)
    <2>1. i - b \in 1..(l - k) /\ w[i] = q[i - b]
      BY <1>2
    <2>2. q[i - b] = <<f, k + (i - b)>> /\ k + (i - b) = a + i
      BY <2>1
    <2> QED BY <2>1, <2>2
  <1> QED BY <1>1, <1>2

\* More bytes of the answer come.
LEMMA LaidMore ==
    ASSUME JkInv, NEW f \in Sounds, NEW k \in Nat, NEW l \in Nat, k < l, l <= f.len,
           \/ rx = <<>> /\ wire = <<>> /\ k = 0
           \/ Laid(f, k),
           NEW q \in Seq(JkBytes), Len(q) = l - k, \A i \in 1..(l - k) : q[i] = <<f, k + i>>,
           wire' = wire \o q, rx' = rx
    PROVE  Laid(f, l)' /\ wire' # <<>>
  <1>1. /\ rx \in Seq(JkBytes) /\ wire \in Seq(JkBytes) /\ Len(rx) \in Nat /\ Len(wire) \in Nat
    BY DEF JkInv, SourceOk, LineOk
  <1>2. /\ Len(rx) + Len(wire) = k
        /\ \A i \in 1..Len(rx) : rx[i] = <<f, i>>
        /\ \A i \in 1..Len(wire) : wire[i] = <<f, Len(rx) + i>>
    <2>1. CASE Laid(f, k)
      BY <2>1 DEF Laid
    <2>2. CASE rx = <<>> /\ wire = <<>> /\ k = 0
      BY <2>2
    <2> QED BY <2>1, <2>2
  <1>a. PICK w : w = wire'
    OBVIOUS
  <1>b. /\ w \in Seq(JkBytes) /\ Len(w) = Len(wire) + Len(q)
        /\ \A i \in 1..Len(wire) : w[i] = wire[i]
        /\ \A i \in (Len(wire) + 1)..(Len(wire) + Len(q)) : w[i] = q[i - Len(wire)]
    <2>1. w = wire \o q
      BY <1>a
    <2> QED BY <1>1, <2>1, JkJoined
  <1>3. PICK a \in Nat, b \in Nat : a = Len(rx) /\ b = Len(wire)
    BY <1>1
  <1>4. a + b = k /\ Len(w) = b + (l - k) /\ b + Len(q) = b + (l - k)
    BY <1>2, <1>3, <1>b
  <1>5. \A i \in 1..(b + (l - k)) : w[i] = <<f, a + i>>
    <2>1. Row(wire, f, a, b) /\ Spliced(w, wire, q, b, l - k)
      BY <1>2, <1>3, <1>4, <1>b DEF Row, Spliced
    <2>2. Row(q, f, k, l - k)
      BY DEF Row
    <2>3. Row(w, f, a, b + (l - k))
      BY <1>4, <2>1, <2>2, RowSum
    <2> QED BY <2>3 DEF Row
  <1>6. a + (b + (l - k)) = l /\ b + (l - k) > 0
    BY <1>4
  <1>7. Laid(f, l)'
    BY <1>2, <1>3, <1>4, <1>5, <1>6, <1>a DEF Laid
  <1>8. wire' # <<>>
    BY <1>4, <1>6, <1>a, <1>b
  <1> QED BY <1>7, <1>8

LEMMA CalmArrive ==
    ASSUME JkInv, CameWhole, Jk!Arrive
    PROVE  CameWhole'
  <1>1. PICK f \in Sounds, k \in Nat :
          /\ k < f.len /\ answer = Sent(f, 0, k)
          /\ (rx = <<>> /\ wire = <<>> /\ k = 0) \/ Laid(f, k)
    <2>1. CASE rx = <<>> /\ wire = <<>> /\ \E f \in Sounds : answer = Sent(f, 0, 0)
      <3>1. PICK f \in Sounds : answer = Sent(f, 0, 0)
        BY <2>1
      <3>2. 0 < f.len /\ 0 \in Nat
        BY SoundHas
      <3> QED BY <2>1, <3>1, <3>2
    <2>2. CASE \E f \in Sounds, k \in Nat : k \in 1..(f.len - 1) /\ answer = Sent(f, 0, k) /\ Laid(f, k)
      <3>1. PICK f \in Sounds, k \in Nat : k \in 1..(f.len - 1) /\ answer = Sent(f, 0, k) /\ Laid(f, k)
        BY <2>2
      <3>2. k < f.len
        BY <3>1, SoundHas
      <3> QED BY <3>1, <3>2
    <2> QED BY <2>1, <2>2, CalmDue DEF Jk!Arrive
  <1>2. /\ answer.frame = f /\ answer.from = k /\ f \in JkFrames /\ f.sent = f.len /\ f.len \in Nat
    BY <1>1, JkSentIs, SoundHas
  <1>3. PICK q : q = Jk!From(Jk!Bytes(f), k + 1)
    OBVIOUS
  <1>4. q \in Seq(JkBytes) /\ Len(q) = f.len - k /\ \A i \in 1..(f.len - k) : q[i] = <<f, k + i>>
    <2>1. /\ Jk!Bytes(f) \in Seq(JkBytes) /\ Len(Jk!Bytes(f)) = f.len
          /\ \A i \in 1..f.len : Jk!Bytes(f)[i] = <<f, i>>
      BY <1>2, JkBytesAre
    <2>2. PICK b \in Seq(JkBytes) : b = Jk!Bytes(f) /\ Len(b) = f.len /\ \A i \in 1..f.len : b[i] = <<f, i>>
      BY <2>1
    <2>3. k + 1 \in 1..(Len(b) + 1)
      BY <1>1, <1>2, <2>2
    <2>4. /\ q \in Seq(JkBytes) /\ Len(q) = Len(b) - (k + 1) + 1
          /\ \A i \in 1..(Len(b) - (k + 1) + 1) : q[i] = b[i + (k + 1) - 1]
      BY <1>3, <2>2, <2>3, JkSuffixIs
    <2>5. Len(b) - (k + 1) + 1 = f.len - k
      BY <1>2, <2>2
    <2>6. ASSUME NEW i \in 1..(f.len - k) PROVE q[i] = <<f, k + i>>
      <3>1. i + (k + 1) - 1 = k + i /\ k + i \in 1..f.len
        BY <1>1, <1>2
      <3> QED BY <2>2, <2>4, <2>5, <3>1
    <2> QED BY <2>4, <2>5, <2>6
  <1>5. wire' = wire \o q /\ rx' = rx /\ answer' = Jk!NoAnswer
    BY <1>2, <1>3 DEF Jk!Arrive, Jk!srcVars
  <1>6. Laid(f, f.len)' /\ wire' # <<>>
    <2>1. PICK l \in Nat : l = f.len
      BY <1>2
    <2>2. k < l /\ l <= f.len /\ Len(q) = l - k /\ \A i \in 1..(l - k) : q[i] = <<f, k + i>>
      BY <1>1, <1>2, <1>4, <2>1
    <2>3. Laid(f, l)' /\ wire' # <<>>
      BY <1>1, <1>4, <1>5, <2>2, LaidMore
    <2> QED BY <2>1, <2>3
  <1> QED BY <1>5, <1>6 DEF CameWhole, WholeCame

LEMMA CalmSplit ==
    ASSUME JkInv, CameWhole, Jk!Split
    PROVE  CameWhole'
  <1>1. PICK f \in Sounds : answer = Sent(f, 0, 0) /\ rx = <<>> /\ wire = <<>>
    <2>1. answer.from = 0 /\ Jk!Due
      BY DEF Jk!Split, Jk!Harm
    <2>2. CASE \E f \in Sounds, k \in Nat : k \in 1..(f.len - 1) /\ answer = Sent(f, 0, k) /\ Laid(f, k)
      <3>1. PICK f \in Sounds, k \in Nat : k \in 1..(f.len - 1) /\ answer = Sent(f, 0, k)
        BY <2>2
      <3> QED BY <2>1, <3>1, JkSentIs, SoundHas
    <2> QED BY <2>1, <2>2, CalmDue
  <1>2. answer.frame = f /\ f \in JkFrames /\ f.sent = f.len /\ f.len \in Nat
    BY <1>1, JkSentIs, SoundHas
  <1>3. PICK k \in 1..(f.len - 1) :
          /\ wire' = wire \o SubSeq(Jk!Bytes(f), 1, k)
          /\ answer' = [answer EXCEPT !.due = 1, !.from = k]
    BY <1>2, SplitHas, Zenon
  <1>4. PICK q : q = SubSeq(Jk!Bytes(f), 1, k)
    OBVIOUS
  <1>5. q \in Seq(JkBytes) /\ Len(q) = k - 0 /\ \A i \in 1..(k - 0) : q[i] = <<f, 0 + i>>
    <2>1. /\ Jk!Bytes(f) \in Seq(JkBytes) /\ Len(Jk!Bytes(f)) = f.len
          /\ \A i \in 1..f.len : Jk!Bytes(f)[i] = <<f, i>>
      BY <1>2, JkBytesAre
    <2>2. PICK b \in Seq(JkBytes) : b = Jk!Bytes(f) /\ Len(b) = f.len /\ \A i \in 1..f.len : b[i] = <<f, i>>
      BY <2>1
    <2> QED BY <1>2, <1>4, <2>2
  <1>6. rx' = rx
    BY DEF Jk!Split, Jk!srcVars
  <1>7. k \in Nat /\ 0 < k /\ k <= f.len /\ wire' = wire \o q /\ 0 \in Nat
    BY <1>2, <1>3, <1>4
  <1>8. Laid(f, k)'
    BY <1>1, <1>5, <1>6, <1>7, LaidMore
  <1>9. answer' = Sent(f, 1, k)
    BY <1>1, <1>3 DEF Sent
  <1>10. PartCame'
    BY <1>3, <1>7, <1>8, <1>9 DEF PartCame
  <1> QED BY <1>10 DEF CameWhole

LEMMA CalmLose ==
    ASSUME JkInv, CameWhole, Jk!Lose
    PROVE  CameWhole'
  <1>1. rx = <<>> /\ wire = <<>>
    <2>1. answer.from = 0 /\ Jk!Due
      BY DEF Jk!Lose, Jk!Harm
    <2>2. CASE \E f \in Sounds, k \in Nat : k \in 1..(f.len - 1) /\ answer = Sent(f, 0, k) /\ Laid(f, k)
      <3>1. PICK f \in Sounds, k \in Nat : k \in 1..(f.len - 1) /\ answer = Sent(f, 0, k)
        BY <2>2
      <3> QED BY <2>1, <3>1, JkSentIs, SoundHas
    <2> QED BY <2>1, <2>2, CalmDue
  <1>2. UNCHANGED <<rx, wire>> /\ answer' = Jk!NoAnswer
    BY DEF Jk!Lose, Jk!srcVars
  <1> QED BY <1>1, <1>2 DEF CameWhole, NothingCame

LEMMA JkLineStays ==
    ASSUME CameWhole, UNCHANGED <<rx, wire, answer>>
    PROVE  CameWhole'
  BY DEF CameWhole, NothingCame, WholeCame, PartCame, Laid

LEMMA CalmCut ==
    ASSUME JkInv, CameWhole, Jk!Cut, ~torn'
    PROVE  CameWhole'
  <1>1. ~(answer.from > 0) /\ UNCHANGED <<rx, wire>> /\ answer' = Jk!NoAnswer
    BY DEF Jk!Cut, Jk!srcVars
  <1>2. CASE NothingCame
    BY <1>1, <1>2 DEF NothingCame, CameWhole
  <1>3. CASE WholeCame
    BY <1>1, <1>3, JkLineStays DEF WholeCame
  <1>4. CASE PartCame
    <2>1. PICK f \in Sounds, n \in Nat, k \in Nat : k \in 1..(f.len - 1) /\ answer = Sent(f, n, k)
      BY <1>4 DEF PartCame
    <2> QED BY <1>1, <2>1, JkSentIs, SoundHas
  <1> QED BY <1>2, <1>3, <1>4 DEF CameWhole

LEMMA SplitKeeps == ASSUME Jk!Split PROVE UNCHANGED Jk!srcVars /\ UNCHANGED Jk!envVars
  <1>1. UNCHANGED <<Jk!srcVars, Jk!envVars>>
    BY Zenon DEF Jk!Split
  <1> QED BY <1>1

LEMMA OnlyCutTears == ASSUME [Jk!Next]_(Jk!vars), ~Jk!Cut PROVE torn' = torn
  <1>1. CASE Jk!Loop
    BY <1>1 DEF Jk!Loop, Jk!envVars
  <1>2. CASE Jk!Arrive
    BY <1>2 DEF Jk!Arrive, Jk!envVars
  <1>3. CASE Jk!Lose
    BY <1>3 DEF Jk!Lose, Jk!envVars
  <1>4. CASE Jk!DamageLength \/ Jk!DamageEntry \/ Jk!Truncate
    BY <1>4 DEF Jk!DamageLength, Jk!DamageEntry, Jk!Truncate, Jk!envVars
  <1>5. CASE Jk!Join
    BY <1>5 DEF Jk!Join
  <1>6. CASE Jk!Split
    BY <1>6, SplitKeeps DEF Jk!envVars
  <1>7. CASE UNCHANGED Jk!vars
    BY <1>7 DEF Jk!vars, Jk!envVars
  <1> QED BY <1>1, <1>2, <1>3, <1>4, <1>5, <1>6, <1>7 DEF Jk!Next, Jk!Harmed

LEMMA OnlyLoopShows == ASSUME [Jk!Next]_(Jk!vars), ~Jk!Loop PROVE model' = model
  <1>1. CASE Jk!Arrive
    BY <1>1 DEF Jk!Arrive, Jk!srcVars
  <1>2. CASE Jk!Lose
    BY <1>2 DEF Jk!Lose, Jk!srcVars
  <1>3. CASE Jk!DamageLength \/ Jk!DamageEntry \/ Jk!Truncate
    BY <1>3 DEF Jk!DamageLength, Jk!DamageEntry, Jk!Truncate, Jk!srcVars
  <1>4. CASE Jk!Cut
    BY <1>4 DEF Jk!Cut, Jk!srcVars
  <1>5. CASE Jk!Join
    BY <1>5 DEF Jk!Join, Jk!srcVars
  <1>6. CASE Jk!Split
    BY <1>6, SplitKeeps DEF Jk!srcVars
  <1>7. CASE UNCHANGED Jk!vars
    BY <1>7 DEF Jk!vars, Jk!srcVars
  <1> QED BY <1>1, <1>2, <1>3, <1>4, <1>5, <1>6, <1>7 DEF Jk!Next, Jk!Harmed

LEMMA CalmStep == JkCalm /\ CalmInv /\ [Jk!Next]_(Jk!vars) => CalmInv'
  <1> SUFFICES ASSUME JkCalm, CalmInv, [Jk!Next]_(Jk!vars) PROVE CalmInv'
    OBVIOUS
  <1>1. JkInv /\ JkInv'
    BY JkStep DEF CalmInv
  <1> SUFFICES ASSUME ~torn' PROVE CameWhole' /\ One(model')
    BY <1>1 DEF CalmInv, One
  <1>2. ~torn
    <2>1. torn \in BOOLEAN
      BY <1>1 DEF JkInv, JkAroundOk
    <2>2. CASE Jk!Cut
      BY <2>1, <2>2 DEF Jk!Cut
    <2>3. CASE ~Jk!Cut
      BY <2>3, OnlyCutTears
    <2> QED BY <2>2, <2>3
  <1>3. CameWhole /\ One(model)
    BY <1>2 DEF CalmInv
  <1>4. CASE Jk!Loop
    BY <1>1, <1>2, <1>3, <1>4, CalmLoop
  <1>5. CASE ~Jk!Loop
    <2>1. model' = model
      BY <1>5, OnlyLoopShows
    <2>2. ~Jk!DamageLength /\ ~Jk!DamageEntry /\ ~Jk!Truncate
      BY DEF JkCalm, Jk!DamageLength, Jk!DamageEntry, Jk!Truncate, Jk!Harm
    <2>3. CASE Jk!Join \/ UNCHANGED Jk!vars
      BY <1>3, <2>3, JkLineStays DEF Jk!Join, Jk!vars, Jk!srcVars
    <2>4. CameWhole'
      BY <1>1, <1>3, <1>5, <2>2, <2>3, CalmArrive, CalmSplit, CalmLose, CalmCut DEF Jk!Next, Jk!Harmed
    <2> QED BY <1>3, <2>1, <2>4
  <1> QED BY <1>4, <1>5

\* As long as no byte is wrong, and no battery goes away in the middle of an answer, all that is shown was
\* sent in one answer, however it is split and whichever answers are lost: the decoder, which reads up to
\* the end id without a look at the checksum, never has bytes of two answers in its buffer.
THEOREM JkShowsOneAnswer == JkCalm /\ Jk!Spec => []Jk!SnapshotIsOneAnswer
  <1> SUFFICES ASSUME JkCalm PROVE Jk!Spec => []Jk!SnapshotIsOneAnswer
    OBVIOUS
  <1>1. Jk!Init => CalmInv
    <2> SUFFICES ASSUME Jk!Init PROVE CalmInv
      OBVIOUS
    <2>1. JkInv
      BY JkInits DEF JkCalm
    <2>2. CameWhole
      BY DEF Jk!Init, CameWhole, NothingCame
    <2>3. One(model)
      BY DEF Jk!Init, One, Jk!Nothing
    <2> QED BY <2>1, <2>2, <2>3 DEF CalmInv
  <1>2. CalmInv => Jk!SnapshotIsOneAnswer
    BY DEF CalmInv, One, Jk!SnapshotIsOneAnswer
  <1>3. CalmInv /\ [Jk!Next]_(Jk!vars) => CalmInv'
    BY CalmStep
  <1> QED BY <1>1, <1>2, <1>3, PTL DEF Jk!Spec
=============================================================================
