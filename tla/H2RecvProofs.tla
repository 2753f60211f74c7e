---------------------------- MODULE H2RecvProofs ----------------------------
(***************************************************************************)
(* What H2Recv's run checks on small instances, for every instance: the    *)
(* credit ledgers, the entries of closed streams, and the end that every   *)
(* reader is told.                                                         *)
(***************************************************************************)
EXTENDS H2Recv, FiniteSetTheorems, SequenceTheorems, WellFoundedInduction, TLAPS

-----------------------------------------------------------------------------
(* The invariant.                                                            *)

ItemTypes == [kind : {"chunk", "eof", "stop"}, len : Nat, budgeted : BOOLEAN]

\* The bytes of the first i items.
Before(items, i) == SumTo([j \in DOMAIN items |-> items[j].len], i)

Pushes == [on : Streams, item : Items]
Rds == [pc : {"wait", "charge", "release", "over"}, item : Items, end : {"none", "eof", "stop"},
        got : Nat]

\* The streams that have not ended.
Live(m) == {s \in Streams : m.e[s].stored /\ ~m.e[s].fin}

\* The locked state: types, caps and the count of the streams.
MeTypes ==
    [e : [Streams -> Entries], conn : [win : Nat, avail : Int], budget : 0..BudgetMax,
     empty : 0..MaxEmpty, errors : 0..MaxErrors, store : SUBSET Streams, active : Int,
     init : {RecvInit, StreamWindow}, goaway : 0..N + 1, error : BOOLEAN]
MeOK(m) == m \in MeTypes /\ Cardinality(m.store) <= ResetMax /\ m.active = Cardinality(Live(m))

\* An entry by itself.
EntryOK(x) ==
    /\ ~x.stored => x.unrel = 0 /\ x.charged = 0
    /\ x.recv = "idle" => x = NoEntry
    /\ x.recv # "idle" /\ ~x.stored => x.fin
    /\ x.fin => x.cause # "none"
    /\ x.stored /\ x.fin => x.unrel > 0 \/ x.charged > 0
    /\ x.cause \in {"end", "after"} => x.recv = "ended"
    /\ x.spoiled => x.recv = "ended"
    /\ x.cause = "after" => x.app

\* Nothing held back that unclaimed_capacity would give.
Tight(f) == f.win < f.avail => f.avail - f.win < (IF f.win < 0 THEN 0 ELSE f.win \div 2)

\* The connection's ledgers.
Balanced(m) ==
    /\ m.conn.avail + Owed(m) = ConnWindow
    /\ Owed(m) = 0 => Tight(m.conn)
    /\ m.budget + Spent(m) >= BudgetMax

\* A stream's window: what it had when it was opened, but for what the reader owes, and
\* tight unless our SETTINGS have been taken off it since.
FlowOK(x, init) ==
    /\ x.flow.avail + x.unrel = init
    /\ x.unrel = 0 =>
         \/ Tight(x.flow)
         \/ /\ init = StreamWindow
            /\ Tight([win |-> x.flow.win + (RecvInit - StreamWindow), avail |-> RecvInit])

\* The pump is about to reset the stream.
Doubtful(s) == pump.err \in {"stream", "conn"} /\ pump.on = s

Flows(x) == x.stored /\ x.cause = "none" /\ x.recv \in {"head", "streaming"}

PumpOK ==
    /\ pump.push = <<>> \/ pump.err = "none"
    /\ pump.push = <<>> /\ pump.err \in {"none", "over"} => pump.on = NoStream
    /\ pump.err = "stream" => pump.on \in Streams
    /\ pump.err = "over" => me.error /\ Live(me) = {}
    /\ \/ \A i \in DOMAIN pump.push : pump.push[i].item = Stopped
       \/ Len(pump.push) = 1
       \/ /\ Len(pump.push) = 2 /\ pump.push[1].on = pump.push[2].on
          /\ pump.push[1].item.kind = "chunk" /\ pump.push[2].item = EndOfBody
    /\ \A i \in DOMAIN pump.push :
         pump.push[i].item.kind # "chunk" => pump.push[i].item \in {EndOfBody, Stopped}

\* Ends of the body, in the queue and on their way.
EndIn(s) == \E i \in DOMAIN q[s] : q[s][i].kind # "chunk"
EndComing(s) ==
    \E i \in DOMAIN pump.push : pump.push[i].on = s /\ pump.push[i].item.kind # "chunk"

\* Nobody knows a stream that is idle.
IdleOK(s) ==
    me.e[s].recv = "idle" =>
        /\ q[s] = <<>> /\ rd[s] = Reading
        /\ \A i \in DOMAIN pump.push : pump.push[i].on # s
        /\ pump.err = "stream" => pump.on # s

ReaderOK(s) ==
    /\ \A i \in DOMAIN q[s] : q[s][i].kind # "chunk" => q[s][i].len = 0
    /\ rd[s].pc \in {"charge", "release"} => rd[s].item.kind = "chunk"
    /\ rd[s].pc # "over" => rd[s].end = "none"
    /\ rd[s].end = "eof" => me.e[s].recv = "ended" /\ rd[s].got = me.e[s].total

\* A stream that is closed, or known to be refused, and still active is about to be reset.
DoubtOK(s) ==
    me.e[s].stored /\ ~me.e[s].fin =>
        /\ me.e[s].cause # "none" => me.e[s].spoiled
        /\ me.e[s].spoiled \/ ~me.e[s].app => Doubtful(s)

\* The body of a stream that flows is with the reader, in the queue and on its way.
WholeSoFar(s) ==
    Flows(me.e[s]) /\ pump.err # "conn" =>
        /\ ~EndIn(s) /\ ~EndComing(s)
        /\ rd[s].pc # "over"
        /\ me.e[s].total = rd[s].got + BytesIn(q[s]) + Coming(s)

\* The first end of a queue is an end of body only if all of the body is before it.
EofInQueue(s) ==
    \A i \in DOMAIN q[s] :
        /\ rd[s].pc # "over" /\ q[s][i].kind = "eof"
        /\ \A j \in 1..i - 1 : q[s][j].kind = "chunk"
        => /\ me.e[s].recv = "ended"
           /\ me.e[s].total = rd[s].got + Before(q[s], i - 1)
EofOnItsWay(s) ==
    \A i \in DOMAIN pump.push :
        /\ rd[s].pc # "over" /\ pump.push[i].on = s /\ pump.push[i].item.kind = "eof"
        /\ ~EndIn(s)
        => me.e[s].recv = "ended" /\ me.e[s].total = rd[s].got + BytesIn(q[s]) + Coming(s)

\* The reader of a stream that is over is told.
Told(s) ==
    me.e[s].app /\ ~me.e[s].spoiled /\ (me.e[s].fin \/ me.e[s].recv = "ended") =>
        EndIn(s) \/ EndComing(s) \/ rd[s].pc = "over"
\* ... and was told before a reset of a message that stood.
ToldBefore(s) == me.e[s].cause = "after" => EndIn(s) \/ rd[s].pc = "over"

OwesOK(s) ==
    Running /\ me.e[s].stored =>
        /\ ~me.e[s].reclaimed => me.e[s].unrel = BytesIn(q[s]) + Coming(s) + Held(s)
        /\ Flows(me.e[s]) /\ ~Doubtful(s) => FlowOK(me.e[s], me.init)

RecvTyped ==
    /\ scene \in Scenarios /\ frames \in Nat
    /\ pump \in [push : Seq(Pushes), err : {"none", "stream", "conn", "over"}, on : 0..N]
    /\ q \in [Streams -> Seq(Items)]
    /\ rd \in [Streams -> Rds]

StreamOK(s) ==
    /\ EntryOK(me.e[s]) /\ IdleOK(s) /\ ReaderOK(s) /\ DoubtOK(s) /\ WholeSoFar(s)
    /\ EofInQueue(s) /\ EofOnItsWay(s) /\ Told(s) /\ ToldBefore(s) /\ OwesOK(s)

RecvInv ==
    /\ RecvTyped /\ MeOK(me) /\ PumpOK
    /\ Running => Balanced(me)
    /\ \A s \in Streams : StreamOK(s)

-----------------------------------------------------------------------------
(* Sums.                                                                     *)

\* A non-empty set of naturals has a least element.
LEMMA Least ==
    ASSUME NEW T \in SUBSET Nat, T # {}
    PROVE  \E x \in T : \A y \in T : x <= y
<1>1. PICK x \in T : \A y \in T : ~(<<y, x>> \in OpToRel(<, Nat))
  BY NatLessThanWellFounded, WFMin, Zenon
<1>2. OpToRel(<, Nat) = {ss \in Nat \X Nat : ss[1] < ss[2]}
  BY Zenon DEF OpToRel
<1>3. ASSUME NEW y \in T PROVE x <= y
  <2>1. ~(<<y, x>> \in {ss \in Nat \X Nat : ss[1] < ss[2]})
    BY <1>1, <1>2, Zenon
  <2> QED BY <2>1
<1> QED BY <1>3

\* Induction: a set of naturals with 0 and every successor holds them all.
LEMMA Inductive ==
    ASSUME NEW T, 0 \in T, \A k \in Nat : k \in T => k + 1 \in T
    PROVE  \A k \in Nat : k \in T
<1> DEFINE M == {k \in Nat : k \notin T}
<1>1. SUFFICES ASSUME M # {} PROVE FALSE
  OBVIOUS
<1>2. PICK x \in M : \A y \in M : x <= y
  BY <1>1, Least, M \in SUBSET Nat
<1>3. x \in Nat /\ x # 0
  OBVIOUS
<1>4. x - 1 \in Nat /\ x - 1 \notin M
  BY <1>2, <1>3
<1>5. (x - 1) + 1 \in T
  BY <1>4
<1> QED BY <1>3, <1>5

\* The beginning of the sums of f.
Sums(f, g, k) == g = [j \in 0..k |-> IF j = 0 THEN 0 ELSE g[j - 1] + f[j]]

\* ... one after the other.
LEMMA SumsStep ==
    ASSUME NEW f, NEW g, NEW k \in Nat, Sums(f, g, k)
    PROVE  /\ g[0] = 0
           /\ \A j \in 1..k : g[j] = g[j - 1] + f[j]
<1> DEFINE h == [j \in 0..k |-> IF j = 0 THEN 0 ELSE g[j - 1] + f[j]]
<1>1. h[0] = 0 /\ \A j \in 1..k : h[j] = g[j - 1] + f[j]
  OBVIOUS
<1>2. g = h
  BY Zenon DEF Sums
<1> QED BY <1>1, <1>2, Zenon

\* There is such a beginning of any length.
LEMMA SumsExist ==
    ASSUME NEW f, NEW k \in Nat
    PROVE  \E g : Sums(f, g, k)
<1> DEFINE T == {j \in Nat : \E g : Sums(f, g, j)}
<1>1. 0 \in T
  <2>1. Sums(f, [j \in 0..0 |-> 0], 0)
    BY DEF Sums
  <2> QED BY <2>1
<1>2. ASSUME NEW j \in Nat, j \in T PROVE j + 1 \in T
  <2>1. PICK g : Sums(f, g, j)
    BY <1>2
  <2> DEFINE h == [i \in 0..j + 1 |-> IF i = 0 THEN 0 ELSE g[i - 1] + f[i]]
  <2>2. \A i \in 0..j : h[i] = g[i]
    BY <2>1, SumsStep
  <2>3. ASSUME NEW i \in 0..j + 1, i # 0
        PROVE h[i] = h[i - 1] + f[i]
    <3>1. i - 1 \in 0..j
      BY <2>3
    <3>2. h[i] = g[i - 1] + f[i]
      BY <2>3
    <3>3. h[i - 1] = g[i - 1]
      BY <2>2, <3>1
    <3> QED BY <3>2, <3>3
  <2>4. h[0] = 0
    OBVIOUS
  <2>5. \A i \in 0..j + 1 : h[i] = IF i = 0 THEN 0 ELSE h[i - 1] + f[i]
    BY <2>3, <2>4
  <2>6. h = [i \in 0..j + 1 |-> h[i]]
    OBVIOUS
  <2> HIDE DEF h
  <2>7. Sums(f, h, j + 1)
    BY <2>5, <2>6 DEF Sums
  <2> QED BY <2>7
<1>3. \A j \in Nat : j \in T
  <2> HIDE DEF T
  <2> QED BY <1>1, <1>2, Inductive
<1> QED BY <1>3

\* ... and any two agree as far as both go.
LEMMA SumsAgree ==
    ASSUME NEW f, NEW k \in Nat, NEW l \in Nat, NEW g, NEW h, Sums(f, g, k), Sums(f, h, l)
    PROVE  \A i \in Nat : i <= k /\ i <= l => g[i] = h[i]
<1> DEFINE T == {i \in Nat : i <= k /\ i <= l => g[i] = h[i]}
<1>0. /\ g[0] = 0 /\ \A j \in 1..k : g[j] = g[j - 1] + f[j]
      /\ h[0] = 0 /\ \A j \in 1..l : h[j] = h[j - 1] + f[j]
  BY SumsStep
<1>1. 0 \in T
  BY <1>0
<1>2. ASSUME NEW j \in Nat, j \in T PROVE j + 1 \in T
  BY <1>0, <1>2
<1>3. \A j \in Nat : j \in T
  <2> HIDE DEF T
  <2> QED BY <1>1, <1>2, Inductive
<1> QED BY <1>3

\* SumTo is what it says.
LEMMA SumToDef ==
    ASSUME NEW f
    PROVE  /\ SumTo(f, 0) = 0
           /\ \A k \in Nat : SumTo(f, k + 1) = SumTo(f, k) + f[k + 1]
<1> DEFINE G(k) == CHOOSE g : Sums(f, g, k)
           sum == [k \in Nat |-> G(k)[k]]
           Rec(s) == s = [k \in Nat |-> IF k = 0 THEN 0 ELSE s[k - 1] + f[k]]
<1>1. \A k \in Nat : Sums(f, G(k), k)
  BY SumsExist
<1> HIDE DEF G
<1>2. ASSUME NEW k \in Nat PROVE sum[k] = IF k = 0 THEN 0 ELSE sum[k - 1] + f[k]
  <2>1. CASE k = 0
    BY <1>1, <2>1, SumsStep
  <2>2. CASE k # 0
    <3>1. k - 1 \in Nat /\ k \in 1..k
      BY <2>2
    <3>2. G(k)[k] = G(k)[k - 1] + f[k]
      BY <1>1, <3>1, SumsStep
    <3>3. G(k)[k - 1] = G(k - 1)[k - 1]
      BY <1>1, <3>1, SumsAgree
    <3> QED BY <2>2, <3>1, <3>2, <3>3
  <2> QED BY <2>1, <2>2
<1>3. sum = [k \in Nat |-> sum[k]]
  OBVIOUS
<1> HIDE DEF sum
<1>4. Rec(sum)
  BY <1>2, <1>3
<1>5. Rec(CHOOSE s : Rec(s))
  BY <1>4, Zenon
<1> DEFINE S == CHOOSE s : Rec(s)
<1>6. \A n : SumTo(f, n) = S[n]
  BY Zenon DEF SumTo
<1>7. Rec(S)
  BY <1>5
<1> HIDE DEF S
<1>8. S[0] = 0 /\ \A k \in Nat : S[k + 1] = S[k] + f[k + 1]
  BY <1>7
<1> QED BY <1>6, <1>8
\* Equal summands give equal sums.
LEMMA SumSame ==
    ASSUME NEW f, NEW g, NEW n \in Nat, \A i \in 1..n : f[i] = g[i]
    PROVE  SumTo(f, n) = SumTo(g, n)
<1> DEFINE T == {k \in Nat : k <= n => SumTo(f, k) = SumTo(g, k)}
<1>1. 0 \in T
  BY SumToDef
<1>2. ASSUME NEW k \in Nat, k \in T PROVE k + 1 \in T
  <2>1. SUFFICES ASSUME k + 1 <= n PROVE SumTo(f, k + 1) = SumTo(g, k + 1)
    BY DEF T
  <2>2. SumTo(f, k) = SumTo(g, k) /\ f[k + 1] = g[k + 1]
    BY <1>2, <2>1
  <2> QED BY <2>2, SumToDef, Zenon
<1>3. \A k \in Nat : k \in T
  <2> HIDE DEF T
  <2> QED BY <1>1, <1>2, Inductive
<1> QED BY <1>3

\* A sum of naturals is a natural, and nought only if all of them are.
LEMMA SumNat ==
    ASSUME NEW f, NEW n \in Nat, \A i \in 1..n : f[i] \in Nat
    PROVE  SumTo(f, n) \in Nat
<1> DEFINE T == {k \in Nat : k <= n => SumTo(f, k) \in Nat}
<1>1. 0 \in T
  BY SumToDef
<1>2. ASSUME NEW k \in Nat, k \in T PROVE k + 1 \in T
  <2>1. SUFFICES ASSUME k + 1 <= n PROVE SumTo(f, k + 1) \in Nat
    BY DEF T
  <2>2. SumTo(f, k) \in Nat /\ f[k + 1] \in Nat
    BY <1>2, <2>1
  <2>3. SumTo(f, k + 1) = SumTo(f, k) + f[k + 1]
    BY SumToDef
  <2> HIDE DEF T
  <2> QED BY <2>2, <2>3
<1>3. \A k \in Nat : k \in T
  <2> HIDE DEF T
  <2> QED BY <1>1, <1>2, Inductive
<1> QED BY <1>3

\* The sum of nothing but noughts.
LEMMA SumZero ==
    ASSUME NEW f, NEW n \in Nat, \A i \in 1..n : f[i] = 0
    PROVE  SumTo(f, n) = 0
<1> DEFINE T == {k \in Nat : k <= n => SumTo(f, k) = 0}
<1>1. 0 \in T
  BY SumToDef
<1>2. ASSUME NEW k \in Nat, k \in T PROVE k + 1 \in T
  <2>1. SUFFICES ASSUME k + 1 <= n PROVE SumTo(f, k + 1) = 0
    BY DEF T
  <2>2. SumTo(f, k) = 0 /\ f[k + 1] = 0
    BY <1>2, <2>1
  <2>3. SumTo(f, k + 1) = SumTo(f, k) + f[k + 1]
    BY SumToDef
  <2> HIDE DEF T
  <2> QED BY <2>2, <2>3
<1>3. \A k \in Nat : k \in T
  <2> HIDE DEF T
  <2> QED BY <1>1, <1>2, Inductive
<1> QED BY <1>3

\* One summand changes, and the sum by as much.
LEMMA SumChange ==
    ASSUME NEW f, NEW g, NEW n \in Nat, NEW s \in 1..n,
           \A i \in 1..n : f[i] \in Nat /\ g[i] \in Nat,
           \A i \in 1..n : i # s => f[i] = g[i]
    PROVE  SumTo(g, n) = SumTo(f, n) + g[s] - f[s]
<1> DEFINE T == {k \in Nat : s <= k /\ k <= n => SumTo(g, k) = SumTo(f, k) + g[s] - f[s]}
<1>0. ASSUME NEW k \in Nat, k <= n
      PROVE  SumTo(f, k) \in Nat /\ SumTo(g, k) \in Nat
  BY <1>0, SumNat
<1>1. 0 \in T
  OBVIOUS
<1>2. ASSUME NEW k \in Nat, k \in T PROVE k + 1 \in T
  <2>1. SUFFICES ASSUME s <= k + 1, k + 1 <= n
                 PROVE  SumTo(g, k + 1) = SumTo(f, k + 1) + g[s] - f[s]
    BY DEF T
  <2>2. SumTo(f, k + 1) = SumTo(f, k) + f[k + 1] /\ SumTo(g, k + 1) = SumTo(g, k) + g[k + 1]
    BY SumToDef
  <2>3. SumTo(f, k) \in Nat /\ SumTo(g, k) \in Nat
    BY <1>0, <2>1
  <2>4. f[k + 1] \in Nat /\ g[k + 1] \in Nat /\ f[s] \in Nat /\ g[s] \in Nat
    BY <2>1
  <2>5. CASE s = k + 1
    <3>1. \A i \in 1..k : f[i] = g[i]
      BY <2>1, <2>5
    <3>2. SumTo(f, k) = SumTo(g, k)
      BY <3>1, SumSame
    <3> HIDE DEF T
    <3> QED BY <2>2, <2>3, <2>4, <2>5, <3>2
  <2>6. CASE s # k + 1
    <3>1. SumTo(g, k) = SumTo(f, k) + g[s] - f[s]
      BY <1>2, <2>1, <2>6
    <3>2. f[k + 1] = g[k + 1]
      BY <2>1, <2>6
    <3> HIDE DEF T
    <3> QED BY <2>2, <2>3, <2>4, <3>1, <3>2
  <2> QED BY <2>5, <2>6
<1>3. \A k \in Nat : k \in T
  <2> HIDE DEF T
  <2> QED BY <1>1, <1>2, Inductive
<1> QED BY <1>3

\* Without its first summand.
LEMMA SumShift ==
    ASSUME NEW f, NEW g, NEW n \in Nat,
           \A i \in 1..n + 1 : f[i] \in Nat,
           \A i \in 1..n : g[i] = f[i + 1]
    PROVE  SumTo(f, n + 1) = f[1] + SumTo(g, n)
<1> DEFINE T == {k \in Nat : k <= n => SumTo(f, k + 1) = f[1] + SumTo(g, k)}
<1>0. ASSUME NEW k \in Nat, k <= n
      PROVE  SumTo(f, k) \in Nat /\ SumTo(g, k) \in Nat
  BY <1>0, SumNat
<1>1. 0 \in T
  <2>1. SumTo(f, 0 + 1) = SumTo(f, 0) + f[0 + 1] /\ SumTo(f, 0) = 0 /\ SumTo(g, 0) = 0
    BY SumToDef
  <2>2. f[1] \in Nat
    OBVIOUS
  <2> QED BY <2>1, <2>2
<1>2. ASSUME NEW k \in Nat, k \in T PROVE k + 1 \in T
  <2>1. SUFFICES ASSUME k + 1 <= n
                 PROVE  SumTo(f, k + 1 + 1) = f[1] + SumTo(g, k + 1)
    BY DEF T
  <2>2. SumTo(f, k + 1 + 1) = SumTo(f, k + 1) + f[k + 1 + 1]
    BY SumToDef
  <2>3. SumTo(g, k + 1) = SumTo(g, k) + g[k + 1]
    BY SumToDef
  <2>4. SumTo(g, k) \in Nat
    BY <1>0, <2>1
  <2>5. SumTo(f, k + 1) = f[1] + SumTo(g, k) /\ g[k + 1] = f[k + 1 + 1]
    BY <1>2, <2>1
  <2>6. f[1] \in Nat /\ g[k + 1] \in Nat
    BY <2>1, <2>5
  <2> HIDE DEF T
  <2> QED BY <2>2, <2>3, <2>4, <2>5, <2>6
<1>3. \A k \in Nat : k \in T
  <2> HIDE DEF T
  <2> QED BY <1>1, <1>2, Inductive
<1> QED BY <1>3

-----------------------------------------------------------------------------
(* The queues.                                                               *)

\* Their bytes are a natural.
LEMMA BytesNat ==
    ASSUME NEW items \in Seq(ItemTypes)
    PROVE  /\ BytesIn(items) \in Nat
           /\ \A i \in 0..Len(items) : Before(items, i) \in Nat
           /\ BytesIn(items) = Before(items, Len(items))
<1> DEFINE f == [j \in DOMAIN items |-> items[j].len]
<1>0. \A x \in ItemTypes : x.len \in Nat
  BY DEF ItemTypes
<1>1. \A j \in 1..Len(items) : f[j] \in Nat
  BY <1>0
<1> HIDE DEF f
<1>2. \A i \in 0..Len(items) : SumTo(f, i) \in Nat
  <2> TAKE i \in 0..Len(items)
  <2>1. i \in Nat /\ \A j \in 1..i : f[j] \in Nat
    BY <1>1
  <2> QED BY <2>1, SumNat
<1>3. Len(items) \in 0..Len(items)
  OBVIOUS
<1> QED BY <1>2, <1>3, Zenon DEF BytesIn, Before, f

\* Nothing is in an empty one.
LEMMA BytesNone == BytesIn(<<>>) = 0 /\ Before(<<>>, 0) = 0
BY SumToDef DEF BytesIn, Before

\* What came before is before what is appended.
LEMMA BytesAppend ==
    ASSUME NEW items \in Seq(ItemTypes), NEW x \in ItemTypes
    PROVE  /\ BytesIn(Append(items, x)) = BytesIn(items) + x.len
           /\ \A i \in 0..Len(items) : Before(Append(items, x), i) = Before(items, i)
<1> DEFINE more == Append(items, x)
           f == [j \in DOMAIN items |-> items[j].len]
           g == [j \in DOMAIN more |-> more[j].len]
           n == Len(items)
<1>1. n \in Nat /\ Len(more) = n + 1
  OBVIOUS
<1>2. \A j \in 1..n : f[j] = g[j]
  OBVIOUS
<1>3. g[n + 1] = x.len
  OBVIOUS
<1> HIDE DEF f, g, n
<1>4. \A i \in 0..n : SumTo(g, i) = SumTo(f, i)
  <2> TAKE i \in 0..n
  <2>1. i \in Nat /\ \A j \in 1..i : g[j] = f[j]
    BY <1>1, <1>2
  <2> QED BY <2>1, SumSame
<1>5. SumTo(g, n + 1) = SumTo(f, n) + x.len
  <2>1. n \in 0..n
    BY <1>1
  <2> QED BY <1>1, <1>3, <1>4, <2>1, SumToDef, Zenon
<1> HIDE DEF more
<1>6. BytesIn(more) = SumTo(g, n + 1) /\ BytesIn(items) = SumTo(f, n)
  BY <1>1, Zenon DEF BytesIn, f, g, n
<1>7. \A i \in 0..n : Before(more, i) = Before(items, i)
  BY <1>4, Zenon DEF Before, f, g
<1> QED BY <1>5, <1>6, <1>7, Zenon DEF more, n

\* The first item and what follows it.
LEMMA BytesTail ==
    ASSUME NEW items \in Seq(ItemTypes), items # <<>>
    PROVE  /\ BytesIn(items) = items[1].len + BytesIn(Tail(items))
           /\ \A i \in 1..Len(items) : Before(items, i) = items[1].len + Before(Tail(items), i - 1)
<1> DEFINE rest == Tail(items)
           f == [j \in DOMAIN items |-> items[j].len]
           g == [j \in DOMAIN rest |-> rest[j].len]
           n == Len(rest)
<1>1. n \in Nat /\ Len(items) = n + 1
  OBVIOUS
<1>2. \A j \in 1..n : g[j] = f[j + 1]
  OBVIOUS
<1>0. \A x \in ItemTypes : x.len \in Nat
  BY DEF ItemTypes
<1>3. \A j \in 1..n + 1 : f[j] \in Nat
  BY <1>0, <1>1
<1>4. f[1] = items[1].len
  BY <1>1
<1> HIDE DEF f, g, n
<1>5. \A i \in 1..n + 1 : SumTo(f, i) = f[1] + SumTo(g, i - 1)
  <2> TAKE i \in 1..n + 1
  <2> DEFINE k == i - 1
  <2>1. k \in Nat /\ k <= n /\ i = k + 1
    BY <1>1
  <2> HIDE DEF k
  <2>2. (\A j \in 1..k + 1 : f[j] \in Nat) /\ \A j \in 1..k : g[j] = f[j + 1]
    BY <1>1, <1>2, <1>3, <2>1
  <2>3. SumTo(f, k + 1) = f[1] + SumTo(g, k)
    BY <2>1, <2>2, SumShift
  <2> QED BY <2>1, <2>3 DEF k
<1> HIDE DEF rest
<1>6. BytesIn(items) = SumTo(f, n + 1) /\ BytesIn(rest) = SumTo(g, n)
  BY <1>1, Zenon DEF BytesIn, f, g, n
<1>7. n + 1 \in 1..n + 1 /\ (n + 1) - 1 = n
  BY <1>1
<1>8. BytesIn(items) = items[1].len + BytesIn(rest)
  BY <1>4, <1>5, <1>6, <1>7
<1>9. \A i \in 1..n + 1 : Before(items, i) = items[1].len + Before(rest, i - 1)
  BY <1>4, <1>5, Zenon DEF Before, f, g
<1> QED BY <1>1, <1>8, <1>9, Zenon DEF rest

-----------------------------------------------------------------------------
(* Operators on the locked state.                                            *)

\* What an entry's reader owes.
Owes(x) == IF x.stored THEN x.unrel ELSE 0
Pays(x) == IF x.stored THEN x.charged ELSE 0

\* Only the entry of one stream is another.
EntryOnly(m, n, s) ==
    /\ n \in MeTypes
    /\ n.conn = m.conn /\ n.budget = m.budget /\ n.empty = m.empty /\ n.errors = m.errors
    /\ n.store = m.store /\ n.active = m.active /\ n.init = m.init /\ n.goaway = m.goaway
    /\ n.error = m.error
    /\ \A u \in Streams \ {s} : n.e[u] = m.e[u]

\* What every operator on a stream leaves as it was: the others, the counts ...
Steady(m, n, s) ==
    /\ n \in MeTypes
    /\ n.init = m.init /\ n.goaway = m.goaway /\ (m.error => n.error)
    /\ \A u \in Streams \ {s} : n.e[u] = m.e[u]
    /\ MeOK(m) => MeOK(n)
    /\ Live(n) \subseteq Live(m)

\* ... and the books.
Kept(m, n, s) == Steady(m, n, s) /\ (Balanced(m) => Balanced(n))

\* The fields of the locked state.
LEMMA MeFields ==
    ASSUME NEW m \in MeTypes
    PROVE  /\ m.e \in [Streams -> Entries]
           /\ \A s \in Streams : m.e[s] \in Entries
           /\ m.conn \in [win : Nat, avail : Int] /\ m.conn.win \in Nat /\ m.conn.avail \in Int
           /\ m.budget \in 0..BudgetMax /\ m.empty \in 0..MaxEmpty /\ m.errors \in 0..MaxErrors
           /\ m.store \in SUBSET Streams /\ m.active \in Int
           /\ m.init \in {RecvInit, StreamWindow} /\ m.goaway \in 0..N + 1 /\ m.error \in BOOLEAN
<1>1. m.e \in [Streams -> Entries] /\ m.conn \in [win : Nat, avail : Int]
  BY DEF MeTypes
<1>2. m.conn.win \in Nat /\ m.conn.avail \in Int
  BY <1>1
<1>3. \A s \in Streams : m.e[s] \in Entries
  BY <1>1
<1> QED BY <1>1, <1>2, <1>3 DEF MeTypes

\* The fields of an entry.
LEMMA EntryFields ==
    ASSUME NEW x \in Entries
    PROVE  /\ x.stored \in BOOLEAN /\ x.recv \in {"idle", "head", "streaming", "ended"}
           /\ x.sent \in BOOLEAN
           /\ x.cause \in {"none", "end", "local", "remote", "after", "broken"}
           /\ x.fin \in BOOLEAN /\ x.unrel \in Nat /\ x.charged \in Nat /\ x.reclaimed \in BOOLEAN
           /\ x.flow \in [win : Int, avail : Int] /\ x.flow.win \in Int /\ x.flow.avail \in Int
           /\ x.total \in Nat /\ x.app \in BOOLEAN /\ x.spoiled \in BOOLEAN
<1>1. x.flow \in [win : Int, avail : Int]
  BY DEF Entries
<1>2. x.flow.win \in Int /\ x.flow.avail \in Int
  BY <1>1
<1> QED BY <1>1, <1>2 DEF Entries

\* The constants.
LEMMA Consts ==
    /\ N \in Nat /\ ConnWindow \in Nat /\ ConnWindow > 0 /\ StreamWindow \in Nat /\ StreamWindow > 0
    /\ RecvInit \in Nat /\ StreamWindow <= RecvInit /\ Pads \subseteq Nat
    /\ Threshold \in Nat /\ BudgetMax \in Nat /\ MaxEmpty \in Nat /\ ResetMax \in Nat
    /\ MaxErrors \in Nat /\ Streams = 1..N
BY H2RecvConstants DEF Streams

\* One entry replaced.
LEMMA Put ==
    ASSUME NEW m \in MeTypes, NEW s \in Streams, NEW x \in Entries
    PROVE  EntryOnly(m, [m EXCEPT !.e[s] = x], s) /\ [m EXCEPT !.e[s] = x].e[s] = x
<1>1. m.e \in [Streams -> Entries]
  BY MeFields
<1>2. [m.e EXCEPT ![s] = x] \in [Streams -> Entries]
  BY <1>1
<1>3. [m EXCEPT !.e[s] = x] \in MeTypes
  BY <1>2 DEF MeTypes
<1>4. [m.e EXCEPT ![s] = x][s] = x /\ \A u \in Streams \ {s} : [m.e EXCEPT ![s] = x][u] = m.e[u]
  BY <1>1
<1>5. [m EXCEPT !.e[s] = x].e = [m.e EXCEPT ![s] = x]
  BY DEF MeTypes
<1> QED BY <1>3, <1>4, <1>5 DEF EntryOnly, MeTypes

\* The sums are naturals.
LEMMA OwedNat ==
    ASSUME NEW m \in MeTypes
    PROVE  Owed(m) \in Nat /\ Spent(m) \in Nat
<1> DEFINE f == [u \in Streams |-> IF m.e[u].stored THEN m.e[u].unrel ELSE 0]
           g == [u \in Streams |-> IF m.e[u].stored THEN m.e[u].charged ELSE 0]
<1>1. \A u \in Streams : m.e[u].unrel \in Nat /\ m.e[u].charged \in Nat
  BY MeFields, EntryFields
<1>2. \A u \in 1..N : f[u] \in Nat /\ g[u] \in Nat
  BY <1>1, Consts
<1> HIDE DEF f, g
<1>3. SumTo(f, N) \in Nat /\ SumTo(g, N) \in Nat
  BY <1>2, Consts, SumNat
<1> QED BY <1>3 DEF Owed, Spent, f, g

\* One entry changes, and the sums with it.
LEMMA OwedChange ==
    ASSUME NEW m \in MeTypes, NEW n \in MeTypes, NEW s \in Streams,
           \A u \in Streams \ {s} : n.e[u] = m.e[u]
    PROVE  /\ Owed(n) = Owed(m) + Owes(n.e[s]) - Owes(m.e[s])
           /\ Spent(n) = Spent(m) + Pays(n.e[s]) - Pays(m.e[s])
<1> DEFINE f == [u \in Streams |-> IF m.e[u].stored THEN m.e[u].unrel ELSE 0]
           g == [u \in Streams |-> IF n.e[u].stored THEN n.e[u].unrel ELSE 0]
           h == [u \in Streams |-> IF m.e[u].stored THEN m.e[u].charged ELSE 0]
           k == [u \in Streams |-> IF n.e[u].stored THEN n.e[u].charged ELSE 0]
<1>1. \A u \in Streams : /\ m.e[u].unrel \in Nat /\ m.e[u].charged \in Nat
                         /\ n.e[u].unrel \in Nat /\ n.e[u].charged \in Nat
  BY MeFields, EntryFields
<1>2. \A u \in 1..N : f[u] \in Nat /\ g[u] \in Nat /\ h[u] \in Nat /\ k[u] \in Nat
  BY <1>1, Consts
<1>3. \A u \in 1..N : u # s => f[u] = g[u] /\ h[u] = k[u]
  BY Consts
<1>4. f[s] = Owes(m.e[s]) /\ g[s] = Owes(n.e[s]) /\ h[s] = Pays(m.e[s]) /\ k[s] = Pays(n.e[s])
  BY DEF Owes, Pays
<1>5. s \in 1..N /\ N \in Nat
  BY Consts
<1> HIDE DEF f, g, h, k
<1>6. SumTo(g, N) = SumTo(f, N) + g[s] - f[s]
  BY <1>2, <1>3, <1>5, SumChange
<1>7. SumTo(k, N) = SumTo(h, N) + k[s] - h[s]
  BY <1>2, <1>3, <1>5, SumChange
<1>8. Owed(m) = SumTo(f, N) /\ Owed(n) = SumTo(g, N) /\ Spent(m) = SumTo(h, N) /\ Spent(n) = SumTo(k, N)
  BY Zenon DEF Owed, Spent, f, g, h, k
<1> QED BY <1>4, <1>6, <1>7, <1>8

\* No reader owes more than all of them.
LEMMA OwedAtLeast ==
    ASSUME NEW m \in MeTypes, NEW s \in Streams
    PROVE  Owes(m.e[s]) <= Owed(m) /\ Pays(m.e[s]) <= Spent(m)
<1>1. m.e[s] \in Entries
  BY MeFields
<1> DEFINE x == [m.e[s] EXCEPT !.unrel = 0, !.charged = 0]
           n == [m EXCEPT !.e[s] = x]
<1>2. x \in Entries /\ Owes(x) = 0 /\ Pays(x) = 0
  BY <1>1 DEF Entries, Owes, Pays
<1> HIDE DEF x
<1>3. EntryOnly(m, n, s) /\ n.e[s] = x
  BY <1>2, Put
<1> HIDE DEF n
<1>4. n \in MeTypes /\ \A u \in Streams \ {s} : n.e[u] = m.e[u]
  BY <1>3 DEF EntryOnly
<1>5. /\ Owed(n) = Owed(m) + Owes(n.e[s]) - Owes(m.e[s])
      /\ Spent(n) = Spent(m) + Pays(n.e[s]) - Pays(m.e[s])
  BY <1>4, OwedChange
<1>6. Owed(n) \in Nat /\ Owed(m) \in Nat /\ Spent(n) \in Nat /\ Spent(m) \in Nat
  BY <1>4, OwedNat
<1>7. Owes(m.e[s]) \in Nat /\ Pays(m.e[s]) \in Nat
  BY <1>1, EntryFields DEF Owes, Pays
<1> QED BY <1>2, <1>3, <1>5, <1>6, <1>7

\* The active streams can be counted.
LEMMA LiveFinite == \A m : IsFiniteSet(Live(m)) /\ Cardinality(Live(m)) \in Nat
<1>1. IsFiniteSet(1..N)
  BY Consts, FS_Interval
<1> TAKE m
<1>2. Live(m) \subseteq 1..N
  BY Consts DEF Live
<1> QED BY <1>1, <1>2, FS_Subset, FS_CardinalityType

\* Counts that are kept.
LEMMA SteadyFrom ==
    ASSUME NEW m \in MeTypes, NEW n \in MeTypes, NEW s \in Streams,
           n.init = m.init, n.goaway = m.goaway, m.error => n.error,
           \A u \in Streams \ {s} : n.e[u] = m.e[u],
           Cardinality(m.store) <= ResetMax => Cardinality(n.store) <= ResetMax,
           s \in Live(n) => s \in Live(m),
           n.active = m.active - (IF s \in Live(m) /\ s \notin Live(n) THEN 1 ELSE 0)
    PROVE  Steady(m, n, s)
<1>1. \A u \in Streams \ {s} : u \in Live(n) <=> u \in Live(m)
  BY DEF Live
<1>2. Live(n) \subseteq Live(m) /\ Live(n) \subseteq Streams /\ Live(m) \subseteq Streams
  BY <1>1 DEF Live
<1>3. MeOK(m) => MeOK(n)
  <2>1. SUFFICES ASSUME m.active = Cardinality(Live(m)) PROVE n.active = Cardinality(Live(n))
    BY DEF MeOK
  <2>2. CASE s \in Live(m) /\ s \notin Live(n)
    <3>1. Live(n) = Live(m) \ {s}
      BY <1>1, <1>2, <2>2
    <3>2. Cardinality(Live(n)) = Cardinality(Live(m)) - 1
      BY <2>2, <3>1, LiveFinite, FS_RemoveElement
    <3> QED BY <2>1, <2>2, <3>2
  <2>3. CASE ~(s \in Live(m) /\ s \notin Live(n))
    <3>1. Live(n) = Live(m)
      BY <1>1, <1>2, <2>3
    <3>2. n.active = m.active
      BY <2>3, MeFields
    <3> QED BY <2>1, <3>1, <3>2
  <2> QED BY <2>2, <2>3
<1> QED BY <1>2, <1>3 DEF Steady

\* A balance that is kept: what the readers owe less is available again.
LEMMA KeptFrom ==
    ASSUME NEW m \in MeTypes, NEW n \in MeTypes, NEW s \in Streams,
           Steady(m, n, s),
           n.conn.avail + Owes(n.e[s]) = m.conn.avail + Owes(m.e[s]),
           \/ n.conn = m.conn /\ Owes(n.e[s]) = Owes(m.e[s])
           \/ Tight(n.conn)
           \/ Owes(n.e[s]) > 0,
           n.budget + Pays(n.e[s]) >= m.budget + Pays(m.e[s]) \/ n.budget >= BudgetMax
    PROVE  Kept(m, n, s)
<1>1. \A u \in Streams \ {s} : n.e[u] = m.e[u]
  BY DEF Steady
<1>4. Balanced(m) => Balanced(n)
  <2>1. /\ Owed(n) = Owed(m) + Owes(n.e[s]) - Owes(m.e[s])
        /\ Spent(n) = Spent(m) + Pays(n.e[s]) - Pays(m.e[s])
    BY <1>1, OwedChange
  <2>2. Owed(n) \in Nat /\ Owed(m) \in Nat /\ Spent(n) \in Nat /\ Spent(m) \in Nat
    BY OwedNat
  <2>3. /\ Owes(m.e[s]) \in Nat /\ Pays(m.e[s]) \in Nat
        /\ Owes(n.e[s]) \in Nat /\ Pays(n.e[s]) \in Nat
    BY MeFields, EntryFields DEF Owes, Pays
  <2>4. Owes(n.e[s]) <= Owed(n)
    BY OwedAtLeast
  <2>5. m.conn.avail \in Int /\ n.conn.avail \in Int /\ m.budget \in 0..BudgetMax /\ n.budget \in 0..BudgetMax
    BY MeFields
  <2>6. SUFFICES ASSUME m.conn.avail + Owed(m) = ConnWindow, Owed(m) = 0 => Tight(m.conn),
                        m.budget + Spent(m) >= BudgetMax
                 PROVE  Balanced(n)
    BY DEF Balanced
  <2>a. PICK o1 \in Nat, o2 \in Nat, p1 \in Nat, p2 \in Nat :
          o1 = Owed(m) /\ o2 = Owed(n) /\ p1 = Spent(m) /\ p2 = Spent(n)
    BY <2>2
  <2>b. PICK x1 \in Nat, x2 \in Nat, y1 \in Nat, y2 \in Nat :
          x1 = Owes(m.e[s]) /\ x2 = Owes(n.e[s]) /\ y1 = Pays(m.e[s]) /\ y2 = Pays(n.e[s])
    BY <2>3
  <2>c. PICK a1 \in Int, a2 \in Int, b1 \in Int, b2 \in Int :
          a1 = m.conn.avail /\ a2 = n.conn.avail /\ b1 = m.budget /\ b2 = n.budget
    BY <2>5, Consts
  <2>7. n.conn.avail + Owed(n) = ConnWindow
    <3>1. o2 = o1 + x2 - x1
      BY <2>1, <2>a, <2>b
    <3>2. a2 + x2 = a1 + x1 /\ a1 + o1 = ConnWindow
      BY <2>6, <2>a, <2>b, <2>c
    <3>3. a2 + o2 = ConnWindow
      BY <3>1, <3>2
    <3> QED BY <2>a, <2>c, <3>3
  <2>8. n.budget + Spent(n) >= BudgetMax
    <3>1. p2 = p1 + y2 - y1
      BY <2>1, <2>a, <2>b
    <3>2. (b2 + y2 >= b1 + y1 \/ b2 >= BudgetMax) /\ b1 + p1 >= BudgetMax
      BY <2>6, <2>a, <2>b, <2>c
    <3>3. b2 + p2 >= BudgetMax
      BY <3>1, <3>2, Consts
    <3> QED BY <2>a, <2>c, <3>3
  <2>9. ASSUME Owed(n) = 0 PROVE Tight(n.conn)
    <3>1. CASE Owes(n.e[s]) > 0
      BY <2>2, <2>3, <2>4, <2>9, <3>1
    <3>2. CASE n.conn = m.conn /\ Owes(n.e[s]) = Owes(m.e[s])
      <4>1. Owed(m) = 0
        BY <2>1, <2>2, <2>3, <2>9, <3>2
      <4> QED BY <2>6, <3>2, <4>1
    <3> QED BY <3>1, <3>2
  <2> QED BY <2>7, <2>8, <2>9 DEF Balanced
<1> QED BY <1>4 DEF Kept

\* One operator after the other.
LEMMA KeptTwice ==
    ASSUME NEW m, NEW n, NEW o, NEW s \in Streams, Kept(m, n, s), Kept(n, o, s)
    PROVE  Kept(m, o, s)
BY DEF Kept, Steady

\* Only the entry changes, and what it owes does not.
LEMMA KeptPut ==
    ASSUME NEW m \in MeTypes, NEW s \in Streams, NEW x \in Entries,
           Owes(x) = Owes(m.e[s]), Pays(x) = Pays(m.e[s]),
           x.stored /\ ~x.fin <=> m.e[s].stored /\ ~m.e[s].fin
    PROVE  Kept(m, [m EXCEPT !.e[s] = x], s) /\ [m EXCEPT !.e[s] = x].e[s] = x
<1> DEFINE n == [m EXCEPT !.e[s] = x]
<1>1. EntryOnly(m, n, s) /\ n.e[s] = x
  BY Put
<1> HIDE DEF n
<1>2. s \in Live(n) <=> s \in Live(m)
  BY <1>1 DEF Live
<1>3. m.active \in Int /\ m.conn.avail \in Int /\ m.budget \in Int
  BY MeFields
<1>4. Owes(x) \in Int /\ Pays(x) \in Int
  BY EntryFields DEF Owes, Pays
<1>5. n.active = m.active - (IF s \in Live(m) /\ s \notin Live(n) THEN 1 ELSE 0)
  BY <1>1, <1>2, <1>3 DEF EntryOnly
<1>6. n.budget + Pays(n.e[s]) >= m.budget + Pays(m.e[s])
  BY <1>1, <1>3, <1>4 DEF EntryOnly
<1>8. Steady(m, n, s)
  BY <1>1, <1>2, <1>5, SteadyFrom DEF EntryOnly
<1>7. Kept(m, n, s)
  BY <1>1, <1>6, <1>8, KeptFrom DEF EntryOnly
<1> QED BY <1>1, <1>7 DEF n

\* What unclaimed_capacity leaves.
LEMMA ClaimedFacts ==
    ASSUME NEW f \in [win : Int, avail : Int]
    PROVE  /\ Claimed(f) \in [win : Int, avail : Int] /\ Claimed(f).avail = f.avail
           /\ Claimed(f).win >= f.win /\ Tight(Claimed(f))
           /\ Claimed(f).win = f.win \/ Claimed(f).win = f.avail
<1>1. f.win \in Int /\ f.avail \in Int
  OBVIOUS
<1>2. PICK half \in Int : half = (IF f.win < 0 THEN 0 ELSE f.win \div 2)
  BY <1>1
<1>3. Claimed(f) = IF f.win < f.avail /\ f.avail - f.win >= half THEN [f EXCEPT !.win = f.avail] ELSE f
  BY <1>2, Zenon DEF Claimed
<1>4. CASE f.win < f.avail /\ f.avail - f.win >= half
  <2>1. Claimed(f) = [f EXCEPT !.win = f.avail]
    BY <1>3, <1>4
  <2>2. /\ [f EXCEPT !.win = f.avail] \in [win : Int, avail : Int]
        /\ [f EXCEPT !.win = f.avail].win = f.avail /\ [f EXCEPT !.win = f.avail].avail = f.avail
    BY <1>1
  <2>3. ~(f.avail < f.avail)
    BY <1>1
  <2> QED BY <1>1, <1>4, <2>1, <2>2, <2>3 DEF Tight
<1>5. CASE ~(f.win < f.avail /\ f.avail - f.win >= half)
  <2>1. Claimed(f) = f
    BY <1>3, <1>5
  <2>2. Tight(f)
    BY <1>1, <1>2, <1>5 DEF Tight
  <2> QED BY <1>1, <2>1, <2>2
<1> QED BY <1>4, <1>5

\* The fields that an operator on a stream changes.
Fields(m, n, s, x, c, b) ==
    /\ n \in MeTypes /\ n.conn = c /\ n.budget = b /\ n.e[s] = x
    /\ \A u \in Streams \ {s} : n.e[u] = m.e[u]
    /\ n.store = m.store /\ n.active = m.active /\ n.init = m.init /\ n.goaway = m.goaway
    /\ n.error = m.error /\ n.empty = m.empty /\ n.errors = m.errors
With(m, s, x, c, b) == [m EXCEPT !.conn = c, !.budget = b, !.e = [m.e EXCEPT ![s] = x]]

\* One operator on a stream changes its entry, the connection window and the budget at most.
LEMMA Update ==
    ASSUME NEW m \in MeTypes, NEW s \in Streams, NEW x \in Entries,
           NEW c \in [win : Nat, avail : Int], NEW b \in 0..BudgetMax
    PROVE  Fields(m, With(m, s, x, c, b), s, x, c, b)
<1> DEFINE n == With(m, s, x, c, b)
<1>1. m.e \in [Streams -> Entries]
  BY MeFields
<1>2. [m.e EXCEPT ![s] = x] \in [Streams -> Entries]
  BY <1>1
<1>3. n \in MeTypes
  BY <1>2 DEF MeTypes, With
<1>4. [m.e EXCEPT ![s] = x][s] = x /\ \A u \in Streams \ {s} : [m.e EXCEPT ![s] = x][u] = m.e[u]
  BY <1>1
<1>5. n.e = [m.e EXCEPT ![s] = x]
  BY DEF MeTypes, With
<1>6. /\ n.conn = c /\ n.budget = b /\ n.store = m.store /\ n.active = m.active /\ n.init = m.init
      /\ n.goaway = m.goaway /\ n.error = m.error /\ n.empty = m.empty /\ n.errors = m.errors
  BY DEF MeTypes, With
<1>7. n.e[s] = x /\ \A u \in Streams \ {s} : n.e[u] = m.e[u]
  BY <1>4, <1>5
<1> QED BY <1>3, <1>6, <1>7 DEF Fields

\* maybe_remove_settled.
SettledEntry(x) == IF x.fin /\ x.unrel = 0 /\ x.charged = 0 THEN [x EXCEPT !.stored = FALSE] ELSE x

\* maybe_remove_settled: what the entry owes stays, and so does the active set.
LEMMA SettledFields ==
    ASSUME NEW x \in Entries
    PROVE  /\ SettledEntry(x) \in Entries
           /\ Owes(SettledEntry(x)) = Owes(x) /\ Pays(SettledEntry(x)) = Pays(x)
           /\ SettledEntry(x).stored /\ ~SettledEntry(x).fin <=> x.stored /\ ~x.fin
<1>1. CASE x.fin /\ x.unrel = 0 /\ x.charged = 0
  <2> DEFINE y == [x EXCEPT !.stored = FALSE]
  <2>1. y \in Entries /\ y.stored = FALSE /\ y.unrel = 0 /\ y.charged = 0
    BY <1>1 DEF Entries
  <2>2. SettledEntry(x) = y
    BY <1>1 DEF SettledEntry
  <2> HIDE DEF y
  <2> QED BY <1>1, <2>1, <2>2 DEF Owes, Pays
<1>2. CASE ~(x.fin /\ x.unrel = 0 /\ x.charged = 0)
  BY <1>2 DEF SettledEntry
<1> QED BY <1>1, <1>2

\* ... drops a settled entry.
LEMMA SettleKept ==
    ASSUME NEW m \in MeTypes, NEW s \in Streams
    PROVE  Kept(m, Settle(m, s), s) /\ Settle(m, s).e[s] = SettledEntry(m.e[s])
<1> DEFINE x == SettledEntry(m.e[s])
<1>0. m.e[s] \in Entries
  BY MeFields
<1>1. x \in Entries /\ Owes(x) = Owes(m.e[s]) /\ Pays(x) = Pays(m.e[s])
      /\ (x.stored /\ ~x.fin <=> m.e[s].stored /\ ~m.e[s].fin)
  BY <1>0, SettledFields
<1>2. Settle(m, s) = [m EXCEPT !.e[s] = x]
  <2>1. CASE m.e[s].fin /\ m.e[s].unrel = 0 /\ m.e[s].charged = 0
    BY <2>1 DEF Settle, SettledEntry
  <2>2. CASE ~(m.e[s].fin /\ m.e[s].unrel = 0 /\ m.e[s].charged = 0)
    <3>1. x = m.e[s] /\ Settle(m, s) = m
      BY <2>2 DEF Settle, SettledEntry
    <3>2. m.e = [m.e EXCEPT ![s] = m.e[s]]
      BY MeFields
    <3>3. m = [m EXCEPT !.e = m.e]
      BY DEF MeTypes
    <3>4. m = [m EXCEPT !.e[s] = m.e[s]]
      BY <3>2, <3>3
    <3> QED BY <3>1, <3>4
  <2> QED BY <2>1, <2>2
<1> HIDE DEF x
<1> QED BY <1>1, <1>2, KeptPut DEF x

\* A window with more available, and what unclaimed_capacity leaves of it.
LEMMA ReclaimConnFacts ==
    ASSUME NEW m \in MeTypes, NEW k \in Nat
    PROVE  \E c \in [win : Nat, avail : Int] :
             /\ ReclaimConn(m, k) = [m EXCEPT !.conn = c]
             /\ c.avail = m.conn.avail + k
             /\ c.win >= m.conn.win
             /\ k = 0 => c = m.conn
             /\ k # 0 => Tight(c)
<1>0. m.conn \in [win : Nat, avail : Int] /\ m.conn.win \in Nat /\ m.conn.avail \in Int
  BY MeFields
<1>1. CASE k = 0
  <2>1. m = [m EXCEPT !.conn = m.conn]
    BY DEF MeTypes
  <2> QED BY <1>0, <1>1, <2>1 DEF ReclaimConn
<1>2. CASE k # 0
  <2> DEFINE f == Assign(m.conn, k)
             c == Claimed(f)
  <2>1. f \in [win : Int, avail : Int] /\ f.win = m.conn.win /\ f.avail = m.conn.avail + k
    BY <1>0 DEF Assign
  <2>2. ReclaimConn(m, k) = [m EXCEPT !.conn = c]
    BY <1>2 DEF ReclaimConn
  <2> HIDE DEF f
  <2>3. c \in [win : Int, avail : Int] /\ c.avail = f.avail /\ c.win >= f.win /\ Tight(c)
    BY <2>1, ClaimedFacts
  <2> HIDE DEF c
  <2>4. c.win \in Int /\ c.avail \in Int /\ c = [win |-> c.win, avail |-> c.avail]
    BY <2>3
  <2>5. c.win \in Nat
    BY <1>0, <2>1, <2>3, <2>4
  <2>6. c \in [win : Nat, avail : Int]
    BY <2>4, <2>5
  <2> QED BY <1>2, <2>1, <2>2, <2>3, <2>6
<1> QED BY <1>1, <1>2

\* reclaim_stream_accounting.
ReclaimedEntry(x) ==
    IF ~x.stored THEN x
    ELSE SettledEntry([x EXCEPT !.charged = 0, !.unrel = 0, !.reclaimed = TRUE])

\* reclaim_stream_accounting keeps the books.
LEMMA ReclaimKept ==
    ASSUME NEW m \in MeTypes, NEW s \in Streams
    PROVE  Kept(m, Reclaim(m, s), s) /\ Reclaim(m, s).e[s] = ReclaimedEntry(m.e[s])
<1>1. CASE ~m.e[s].stored
  <2>1. Reclaim(m, s) = m /\ ReclaimedEntry(m.e[s]) = m.e[s]
    BY <1>1 DEF Reclaim, ReclaimedEntry
  <2> QED BY <2>1 DEF Kept, Steady
<1>2. CASE m.e[s].stored
  <2> DEFINE x == m.e[s]
             y == [x EXCEPT !.charged = 0, !.unrel = 0, !.reclaimed = TRUE]
             b == Replenish(m.budget, x.charged)
             m1 == [m EXCEPT !.budget = Replenish(@, m.e[s].charged), !.e[s].charged = 0,
                             !.e[s].unrel = 0, !.e[s].reclaimed = TRUE]
             n == ReclaimConn(m1, x.unrel)
  <2>1. x \in Entries /\ x.unrel \in Nat /\ x.charged \in Nat
    BY MeFields, EntryFields
  <2>2. /\ y \in Entries /\ y.unrel = 0 /\ y.charged = 0 /\ y.stored = x.stored /\ y.fin = x.fin
    BY <2>1 DEF Entries
  <2>3. m.budget \in 0..BudgetMax /\ m.conn \in [win : Nat, avail : Int] /\ m.conn.avail \in Int
        /\ m.active \in Int
    BY MeFields
  <2>4. b \in 0..BudgetMax /\ (b >= m.budget + x.charged \/ b >= BudgetMax)
    BY <2>1, <2>3, Consts DEF Replenish
  <2>5. m1 = [m EXCEPT !.budget = b, !.e = [m.e EXCEPT ![s] = y]]
    <3>1. m.e \in [Streams -> Entries]
      BY MeFields
    <3>2. [[[m.e EXCEPT ![s].charged = 0] EXCEPT ![s].unrel = 0] EXCEPT ![s].reclaimed = TRUE]
            = [m.e EXCEPT ![s] = y]
      BY <3>1
    <3> QED BY <3>2 DEF MeTypes
  <2>6. m1 \in MeTypes /\ m1.conn = m.conn
    <3>1. [m.e EXCEPT ![s] = y] \in [Streams -> Entries]
      BY <2>2, MeFields
    <3> HIDE DEF y, b
    <3> QED BY <2>4, <2>5, <3>1 DEF MeTypes
  <2> HIDE DEF m1
  <2>7. PICK c \in [win : Nat, avail : Int] :
          /\ n = [m1 EXCEPT !.conn = c]
          /\ c.avail = m1.conn.avail + x.unrel
          /\ x.unrel = 0 => c = m1.conn
          /\ x.unrel # 0 => Tight(c)
    BY <2>1, <2>6, ReclaimConnFacts
  <2> HIDE DEF n
  <2>8. n = With(m, s, y, c, b)
    <3> HIDE DEF y, b
    <3> QED BY <2>5, <2>7 DEF MeTypes, With
  <2> HIDE DEF y, b
  <2>9. Fields(m, n, s, y, c, b)
    <3> HIDE DEF x
    <3>1. y \in Entries /\ b \in 0..BudgetMax
      BY <2>2, <2>4
    <3> QED BY <2>8, <3>1, Update
  <2>10. s \in Live(n) <=> s \in Live(m)
    BY <2>2, <2>9 DEF Live, Fields
  <2>11. Owes(y) = 0 /\ Pays(y) = 0 /\ Owes(x) = x.unrel /\ Pays(x) = x.charged
    BY <1>2, <2>2 DEF Owes, Pays
  <2>12. n.conn.avail + Owes(n.e[s]) = m.conn.avail + Owes(m.e[s])
    BY <2>1, <2>3, <2>6, <2>7, <2>9, <2>11 DEF Fields
  <2>13. (n.conn = m.conn /\ Owes(n.e[s]) = Owes(m.e[s])) \/ Tight(n.conn)
    BY <2>6, <2>7, <2>9, <2>11 DEF Fields
  <2>14. n.budget + Pays(n.e[s]) >= m.budget + Pays(m.e[s]) \/ n.budget >= BudgetMax
    BY <2>1, <2>3, <2>4, <2>9, <2>11 DEF Fields
  <2>15. n.active = m.active - (IF s \in Live(m) /\ s \notin Live(n) THEN 1 ELSE 0)
    BY <2>3, <2>9, <2>10 DEF Fields
  <2>20. Steady(m, n, s)
    BY <2>9, <2>10, <2>15, SteadyFrom DEF Fields
  <2>16. Kept(m, n, s)
    BY <2>9, <2>12, <2>13, <2>14, <2>20, KeptFrom DEF Fields
  <2>17. Kept(n, Settle(n, s), s) /\ Settle(n, s).e[s] = SettledEntry(y)
    BY <2>9, SettleKept DEF Fields
  <2>18. Reclaim(m, s) = Settle(n, s)
    BY <1>2 DEF Reclaim, n, m1
  <2>19. ReclaimedEntry(m.e[s]) = SettledEntry(y)
    BY <1>2 DEF ReclaimedEntry, y
  <2> QED BY <2>16, <2>17, <2>18, <2>19, KeptTwice
<1> QED BY <1>1, <1>2


\* maybe_goaway_reply: at most the error slot.
LEMMA GoAwayReplyKept ==
    ASSUME NEW m \in MeTypes, NEW s \in Streams
    PROVE  /\ Kept(m, GoAwayReply(m), s) /\ GoAwayReply(m).e = m.e
           /\ GoAwayReply(m) = m \/ m.goaway # NoGoAway
<1>1. CASE GoAwayReply(m) = m
  BY <1>1 DEF Kept, Steady
<1>2. CASE GoAwayReply(m) # m
  <2> DEFINE n == [m EXCEPT !.error = TRUE]
  <2>1. GoAwayReply(m) = n /\ m.goaway # NoGoAway
    BY <1>2 DEF GoAwayReply
  <2>2. /\ n \in MeTypes /\ n.e = m.e /\ n.init = m.init /\ n.goaway = m.goaway /\ n.error
        /\ n.store = m.store /\ n.active = m.active /\ n.conn = m.conn /\ n.budget = m.budget
    BY DEF MeTypes
  <2> HIDE DEF n
  <2>3. Live(n) = Live(m) /\ Owed(n) = Owed(m) /\ Spent(n) = Spent(m)
    BY <2>2 DEF Live, Owed, Spent
  <2>4. MeOK(m) => MeOK(n)
    BY <2>2, <2>3 DEF MeOK
  <2>5. Balanced(m) => Balanced(n)
    BY <2>2, <2>3 DEF Balanced
  <2> QED BY <2>1, <2>2, <2>3, <2>4, <2>5 DEF Kept, Steady
<1> QED BY <1>1, <1>2

\* close_stream.
ClosedEntry(x) ==
    IF ~x.stored \/ x.cause = "none" \/ x.fin THEN x ELSE SettledEntry([x EXCEPT !.fin = TRUE])

\* close_stream keeps the books.
LEMMA CloseStreamKept ==
    ASSUME NEW m \in MeTypes, NEW s \in Streams
    PROVE  Kept(m, CloseStream(m, s), s) /\ CloseStream(m, s).e[s] = ClosedEntry(m.e[s])
<1> DEFINE x == m.e[s]
<1>0. x \in Entries /\ m.e \in [Streams -> Entries]
  BY MeFields
<1>1. CASE ~x.stored \/ x.cause = "none" \/ x.fin
  <2>1. CloseStream(m, s) = m /\ ClosedEntry(x) = x
    BY <1>1 DEF CloseStream, ClosedEntry, Closed
  <2> QED BY <2>1 DEF Kept, Steady
<1>2. CASE ~(~x.stored \/ x.cause = "none" \/ x.fin)
  <2> DEFINE y == [x EXCEPT !.fin = TRUE]
             n == [m EXCEPT !.e[s].fin = TRUE, !.active = @ - 1]
  <2>1. y \in Entries /\ y.fin /\ y.stored = x.stored /\ y.unrel = x.unrel /\ y.charged = x.charged
    BY <1>0 DEF Entries
  <2>2. n.e = [m.e EXCEPT ![s] = y] /\ [m.e EXCEPT ![s] = y] \in [Streams -> Entries]
    BY <1>0, <2>1 DEF MeTypes
  <2> HIDE DEF y
  <2>3. n.e[s] = y /\ \A u \in Streams \ {s} : n.e[u] = m.e[u]
    BY <1>0, <2>2
  <2>4. m.active \in Int /\ m.conn.avail \in Int /\ m.budget \in Int
    BY MeFields
  <2>5. /\ n \in MeTypes /\ n.conn = m.conn /\ n.budget = m.budget /\ n.init = m.init
        /\ n.goaway = m.goaway /\ n.error = m.error /\ n.store = m.store
        /\ n.active = m.active - 1
    <3> DEFINE f == [m.e EXCEPT ![s] = y]
    <3>1. n = [m EXCEPT !.e = f, !.active = m.active - 1]
      BY <1>0 DEF MeTypes, y
    <3>2. f \in [Streams -> Entries] /\ m.active - 1 \in Int
      BY <2>2, <2>4
    <3> HIDE DEF f, n
    <3> QED BY <3>1, <3>2 DEF MeTypes
  <2> HIDE DEF n
  <2>6. s \in Live(m) /\ s \notin Live(n)
    BY <1>2, <2>1, <2>3 DEF Live
  <2>7. Owes(n.e[s]) = Owes(m.e[s]) /\ Pays(n.e[s]) = Pays(m.e[s])
    BY <2>1, <2>3 DEF Owes, Pays
  <2>8. Pays(m.e[s]) \in Int
    BY <1>0, EntryFields DEF Pays
  <2>16. Steady(m, n, s)
    BY <2>3, <2>5, <2>6, SteadyFrom
  <2>9. Kept(m, n, s)
    BY <2>4, <2>5, <2>7, <2>8, <2>16, KeptFrom
  <2> DEFINE o == Settle(n, s)
  <2>10. Kept(n, o, s) /\ o.e[s] = SettledEntry(y)
    BY <2>3, <2>5, SettleKept
  <2> HIDE DEF o
  <2>11. o \in MeTypes
    BY <2>10 DEF Kept, Steady
  <2>12. Kept(o, GoAwayReply(o), s) /\ GoAwayReply(o).e = o.e
    BY <2>11, GoAwayReplyKept
  <2>13. CloseStream(m, s) = GoAwayReply(o)
    BY <1>2 DEF CloseStream, Closed, o, n
  <2>14. ClosedEntry(x) = SettledEntry(y)
    BY <1>2 DEF ClosedEntry, y
  <2>15. Kept(m, GoAwayReply(o), s)
    BY <2>9, <2>10, <2>12, KeptTwice
  <2> QED BY <2>10, <2>12, <2>13, <2>14, <2>15
<1> QED BY <1>1, <1>2

\* drop_closed_stored.
DroppedEntry(x) == ClosedEntry(ReclaimedEntry(x))

\* drop_closed_stored keeps the books.
LEMMA DropClosedKept ==
    ASSUME NEW m \in MeTypes, NEW s \in Streams
    PROVE  Kept(m, DropClosed(m, s), s) /\ DropClosed(m, s).e[s] = DroppedEntry(m.e[s])
<1> DEFINE n == Reclaim(m, s)
<1>1. Kept(m, n, s) /\ n.e[s] = ReclaimedEntry(m.e[s])
  BY ReclaimKept
<1> HIDE DEF n
<1>2. n \in MeTypes
  BY <1>1 DEF Kept, Steady
<1>3. Kept(n, CloseStream(n, s), s) /\ CloseStream(n, s).e[s] = ClosedEntry(n.e[s])
  BY <1>2, CloseStreamKept
<1>4. DropClosed(m, s) = CloseStream(n, s)
  BY DEF DropClosed, n
<1>5. Kept(m, CloseStream(n, s), s)
  BY <1>1, <1>3, KeptTwice
<1> QED BY <1>1, <1>3, <1>4, <1>5 DEF DroppedEntry

\* enqueue_reset_expiration: the store's cap.
LEMMA RememberKept ==
    ASSUME NEW m \in MeTypes, NEW s \in Streams
    PROVE  Kept(m, Remember(m, s), s) /\ Remember(m, s).e = m.e
<1>1. CASE Remember(m, s) = m
  BY <1>1 DEF Kept, Steady
<1>2. CASE Remember(m, s) # m
  <2> DEFINE n == [m EXCEPT !.store = @ \cup {s}]
  <2>1. Remember(m, s) = n /\ ~(Cardinality(m.store) >= ResetMax)
    BY <1>2 DEF Remember
  <2>2. /\ n \in MeTypes /\ n.e = m.e /\ n.init = m.init /\ n.goaway = m.goaway /\ n.error = m.error
        /\ n.store = m.store \cup {s} /\ n.active = m.active /\ n.conn = m.conn
        /\ n.budget = m.budget
    BY DEF MeTypes
  <2> HIDE DEF n
  <2>3. Live(n) = Live(m) /\ Owed(n) = Owed(m) /\ Spent(n) = Spent(m)
    BY <2>2 DEF Live, Owed, Spent
  <2>4. Cardinality(n.store) <= ResetMax
    <3>1. IsFiniteSet(1..N)
      BY Consts, FS_Interval
    <3>2. m.store \subseteq 1..N
      BY MeFields, Consts
    <3>3. IsFiniteSet(m.store) /\ Cardinality(m.store) \in Nat
      BY <3>1, <3>2, FS_Subset, FS_CardinalityType
    <3>4. Cardinality(m.store \cup {s}) = Cardinality(m.store)
          \/ Cardinality(m.store \cup {s}) = Cardinality(m.store) + 1
      BY <3>3, FS_AddElement
    <3> QED BY <2>1, <2>2, <3>3, <3>4, Consts
  <2>5. MeOK(m) => MeOK(n)
    BY <2>2, <2>3, <2>4 DEF MeOK
  <2>6. Balanced(m) => Balanced(n)
    BY <2>2, <2>3 DEF Balanced
  <2> QED BY <2>1, <2>2, <2>3, <2>5, <2>6 DEF Kept, Steady
<1> QED BY <1>1, <1>2

\* reset_stream.
ResetCause(x) == IF x.cause \in {"none", "end"} THEN [x EXCEPT !.cause = "local"] ELSE x
ResetEntry(x) == IF ~x.stored THEN x ELSE DroppedEntry(ResetCause(x))

\* reset_stream keeps the books.
LEMMA ResetStreamKept ==
    ASSUME NEW m \in MeTypes, NEW s \in Streams
    PROVE  Kept(m, ResetStream(m, s), s) /\ ResetStream(m, s).e[s] = ResetEntry(m.e[s])
<1> DEFINE x == m.e[s]
<1>0. x \in Entries /\ m.e \in [Streams -> Entries]
  BY MeFields
<1>1. CASE ~x.stored
  <2>1. ResetStream(m, s) = m /\ ResetEntry(x) = x
    BY <1>1 DEF ResetStream, ResetEntry
  <2> QED BY <2>1 DEF Kept, Steady
<1>2. CASE x.stored
  <2> DEFINE y == ResetCause(x)
             n == IF m.e[s].cause \in {"none", "end"} THEN [m EXCEPT !.e[s].cause = "local"] ELSE m
  <2>1. y \in Entries /\ Owes(y) = Owes(x) /\ Pays(y) = Pays(x) /\ (y.stored /\ ~y.fin <=> x.stored /\ ~x.fin)
    BY <1>0 DEF Entries, ResetCause, Owes, Pays
  <2>2. n = [m EXCEPT !.e[s] = y]
    <3>1. CASE m.e[s].cause \in {"none", "end"}
      BY <3>1 DEF ResetCause
    <3>2. CASE m.e[s].cause \notin {"none", "end"}
      <4>1. m.e = [m.e EXCEPT ![s] = m.e[s]]
        BY <1>0
      <4>2. m = [m EXCEPT !.e = m.e]
        BY DEF MeTypes
      <4>3. m = [m EXCEPT !.e[s] = m.e[s]]
        BY <4>1, <4>2
      <4> QED BY <3>2, <4>3 DEF ResetCause
    <3> QED BY <3>1, <3>2
  <2> HIDE DEF y, n
  <2>3. Kept(m, n, s) /\ n.e[s] = y
    BY <2>1, <2>2, KeptPut
  <2>4. n \in MeTypes
    BY <2>3 DEF Kept, Steady
  <2> DEFINE c == DropClosed(n, s)
  <2>5. Kept(n, c, s) /\ c.e[s] = DroppedEntry(y)
    BY <2>3, <2>4, DropClosedKept
  <2>6. ResetStream(m, s) = c \/ ResetStream(m, s) = Remember(c, s)
    BY <1>2 DEF ResetStream, n
  <2> HIDE DEF c
  <2>7. c \in MeTypes
    BY <2>5 DEF Kept, Steady
  <2>8. Kept(c, Remember(c, s), s) /\ Remember(c, s).e = c.e
    BY <2>7, RememberKept
  <2>9. Kept(m, c, s)
    BY <2>3, <2>5, KeptTwice
  <2>10. Kept(m, Remember(c, s), s)
    BY <2>8, <2>9, KeptTwice
  <2>11. ResetEntry(x) = DroppedEntry(y)
    BY <1>2 DEF ResetEntry, y
  <2> QED BY <2>5, <2>6, <2>8, <2>9, <2>10, <2>11
<1> QED BY <1>1, <1>2

\* release_capacity_inner.
Ended(x) ==
    \/ x.cause \in {"end", "after"}
    \/ x.cause = "none" /\ x.recv = "ended"
Less(a, k) == IF k > a THEN 0 ELSE a - k
Wider(x, k) == IF Ended(x) THEN Assign(x.flow, k) ELSE Claimed(Assign(x.flow, k))
GivenEntry(x, k) == [x EXCEPT !.unrel = Less(x.unrel, k), !.flow = Wider(x, k)]
ReleasedEntry(x, k) ==
    IF ~x.stored \/ x.reclaimed THEN x ELSE SettledEntry(GivenEntry(x, k))

\* What release_capacity_inner makes of an entry.
LEMMA GivenFields ==
    ASSUME NEW x \in Entries, NEW k \in Nat
    PROVE  /\ GivenEntry(x, k) \in Entries
           /\ GivenEntry(x, k).unrel = Less(x.unrel, k)
           /\ GivenEntry(x, k).flow = Wider(x, k)
           /\ GivenEntry(x, k).flow.avail = x.flow.avail + k
           /\ ~Ended(x) => Tight(GivenEntry(x, k).flow)
           /\ GivenEntry(x, k).stored = x.stored /\ GivenEntry(x, k).fin = x.fin
           /\ GivenEntry(x, k).charged = x.charged
<1>1. x.flow \in [win : Int, avail : Int] /\ x.flow.win \in Int /\ x.flow.avail \in Int
      /\ x.unrel \in Nat
  BY EntryFields
<1>8. Assign(x.flow, k) \in [win : Int, avail : Int] /\ Assign(x.flow, k).avail = x.flow.avail + k
  BY <1>1 DEF Assign
<1>2. PICK f \in [win : Int, avail : Int] : f = Assign(x.flow, k) /\ f.avail = x.flow.avail + k
  BY <1>8
<1>3. /\ Claimed(f) \in [win : Int, avail : Int] /\ Claimed(f).avail = f.avail
      /\ Tight(Claimed(f))
  BY ClaimedFacts
<1>4. PICK w \in [win : Int, avail : Int] :
        w = Wider(x, k) /\ w.avail = x.flow.avail + k /\ (~Ended(x) => Tight(w))
  BY <1>2, <1>3 DEF Wider
<1>5. PICK l \in Nat : l = Less(x.unrel, k)
  BY <1>1 DEF Less
<1>6. GivenEntry(x, k) = [x EXCEPT !.unrel = l, !.flow = w]
  BY <1>4, <1>5 DEF GivenEntry
<1>7. /\ [x EXCEPT !.unrel = l, !.flow = w] \in Entries
      /\ [x EXCEPT !.unrel = l, !.flow = w].unrel = l /\ [x EXCEPT !.unrel = l, !.flow = w].flow = w
      /\ [x EXCEPT !.unrel = l, !.flow = w].stored = x.stored
      /\ [x EXCEPT !.unrel = l, !.flow = w].fin = x.fin
      /\ [x EXCEPT !.unrel = l, !.flow = w].charged = x.charged
  BY DEF Entries
<1> QED BY <1>4, <1>5, <1>6, <1>7

\* ... gives back what the stream owes, and no more.
LEMMA ReleaseCapacityKept ==
    ASSUME NEW m \in MeTypes, NEW s \in Streams, NEW k \in Nat
    PROVE  /\ Steady(m, ReleaseCapacity(m, s, k), s)
           /\ k <= m.e[s].unrel => Kept(m, ReleaseCapacity(m, s, k), s)
           /\ ReleaseCapacity(m, s, k).e[s] = ReleasedEntry(m.e[s], k)
<1> DEFINE x == m.e[s]
<1>0. x \in Entries /\ m.e \in [Streams -> Entries]
  BY MeFields
<1>1. CASE ~x.stored \/ x.reclaimed
  <2>1. ReleaseCapacity(m, s, k) = m /\ ReleasedEntry(x, k) = x
    BY <1>1 DEF ReleaseCapacity, ReleasedEntry
  <2> QED BY <2>1 DEF Kept, Steady
<1>2. CASE ~(~x.stored \/ x.reclaimed)
  <2> DEFINE y == GivenEntry(x, k)
             given == [m EXCEPT !.e[s].unrel = IF k > @ THEN 0 ELSE @ - k,
                                !.e[s].flow = Assign(@, k)]
             adv == IF RecvEnded(m, s) THEN given ELSE [given EXCEPT !.e[s].flow = Claimed(@)]
             n == ReclaimConn(adv, k)
  <2>1. /\ y \in Entries /\ y.unrel = Less(x.unrel, k) /\ y.stored = x.stored /\ y.fin = x.fin
        /\ y.charged = x.charged
    BY <1>0, GivenFields
  <2>2. adv = [m EXCEPT !.e = [m.e EXCEPT ![s] = y]]
    <3> DEFINE w == [x EXCEPT !.unrel = Less(x.unrel, k), !.flow = Assign(x.flow, k)]
    <3>1. given = [m EXCEPT !.e = [m.e EXCEPT ![s] = w]]
      <4> DEFINE z == [x EXCEPT !.unrel = Less(x.unrel, k)]
                 f == [m.e EXCEPT ![s] = z]
                 o == [m EXCEPT !.e = f]
      <4>1. o.e = f /\ f[s] = z /\ z.flow = x.flow
        BY <1>0 DEF MeTypes, Entries
      <4>2. given = [o EXCEPT !.e = [f EXCEPT ![s] = [z EXCEPT !.flow = Assign(z.flow, k)]]]
        <5>1. given = [o EXCEPT !.e = [o.e EXCEPT ![s] = [o.e[s] EXCEPT !.flow = Assign(o.e[s].flow, k)]]]
          BY DEF Less
        <5> QED BY <4>1, <5>1
      <4>3. [z EXCEPT !.flow = Assign(z.flow, k)]
              = [x EXCEPT !.unrel = Less(x.unrel, k), !.flow = Assign(x.flow, k)]
        BY <4>1
      <4>4. \A v : [f EXCEPT ![s] = v] = [m.e EXCEPT ![s] = v]
        BY <1>0
      <4>5. \A v : [o EXCEPT !.e = v] = [m EXCEPT !.e = v]
        BY DEF MeTypes
      <4>6. [z EXCEPT !.flow = Assign(z.flow, k)] = w
        BY <4>3
      <4> HIDE DEF f, o, z, w, given
      <4>7. given = [o EXCEPT !.e = [f EXCEPT ![s] = w]]
        BY <4>2, <4>6
      <4>8. given = [m EXCEPT !.e = [m.e EXCEPT ![s] = w]]
        BY <4>4, <4>5, <4>7
      <4> QED BY <4>8
    <3>2. RecvEnded(m, s) <=> Ended(x)
      BY DEF RecvEnded, Ended
    <3>3. CASE Ended(x)
      BY <3>1, <3>2, <3>3 DEF GivenEntry, Wider
    <3>4. CASE ~Ended(x)
      <4>1. given.e = [m.e EXCEPT ![s] = w] /\ given.e[s].flow = Assign(x.flow, k)
        BY <1>0, <3>1 DEF MeTypes, Entries
      <4>2. adv = [given EXCEPT !.e = [given.e EXCEPT ![s] = [w EXCEPT !.flow = Claimed(Assign(x.flow, k))]]]
        BY <1>0, <3>2, <3>4, <4>1
      <4>3. [w EXCEPT !.flow = Claimed(Assign(x.flow, k))] = y
        BY <1>0, <3>4 DEF GivenEntry, Wider, Entries
      <4>4. [given.e EXCEPT ![s] = y] = [m.e EXCEPT ![s] = y]
        BY <1>0, <4>1
      <4>5. adv = [given EXCEPT !.e = [m.e EXCEPT ![s] = y]]
        BY <4>2, <4>3, <4>4
      <4> HIDE DEF w, adv, y
      <4> QED BY <3>1, <4>5 DEF MeTypes
    <3> QED BY <3>3, <3>4
  <2> HIDE DEF y, given
  <2>3. adv = With(m, s, y, m.conn, m.budget)
    BY <2>2 DEF With, MeTypes
  <2> HIDE DEF adv
  <2>4. m.conn \in [win : Nat, avail : Int] /\ m.conn.avail \in Int /\ m.budget \in 0..BudgetMax
        /\ m.active \in Int /\ m.budget \in Int
    BY MeFields
  <2>5. Fields(m, adv, s, y, m.conn, m.budget)
    BY <2>1, <2>3, <2>4, Update
  <2>6. adv \in MeTypes
    BY <2>5 DEF Fields
  <2>7. PICK c \in [win : Nat, avail : Int] :
          /\ n = [adv EXCEPT !.conn = c]
          /\ c.avail = adv.conn.avail + k
          /\ k = 0 => c = adv.conn
          /\ k # 0 => Tight(c)
    BY <2>6, ReclaimConnFacts
  <2> HIDE DEF n
  <2>8. n = With(m, s, y, c, m.budget)
    BY <2>2, <2>7 DEF With, MeTypes
  <2>9. Fields(m, n, s, y, c, m.budget)
    BY <2>1, <2>4, <2>8, Update
  <2>10. s \in Live(n) <=> s \in Live(m)
    BY <2>1, <2>9 DEF Live, Fields
  <2>11. n.active = m.active - (IF s \in Live(m) /\ s \notin Live(n) THEN 1 ELSE 0)
    BY <2>4, <2>9, <2>10 DEF Fields
  <2>12. Steady(m, n, s)
    BY <2>9, <2>10, <2>11, SteadyFrom DEF Fields
  <2>13. ASSUME k <= x.unrel PROVE Kept(m, n, s)
    <3>1. Owes(y) = x.unrel - k /\ Owes(x) = x.unrel /\ Pays(y) = Pays(x) /\ Pays(x) \in Int
          /\ x.unrel \in Nat
      BY <1>0, <1>2, <2>1, <2>13, EntryFields DEF Owes, Pays, Less
    <3>2. n.conn = c /\ n.budget = m.budget /\ n.e[s] = y /\ n \in MeTypes
      BY <2>9 DEF Fields
    <3>3. c.avail = m.conn.avail + k
      BY <2>5, <2>7 DEF Fields
    <3>4. n.conn.avail + Owes(n.e[s]) = m.conn.avail + Owes(m.e[s])
      BY <2>4, <3>1, <3>2, <3>3
    <3>5. (n.conn = m.conn /\ Owes(n.e[s]) = Owes(m.e[s])) \/ Tight(n.conn)
      BY <2>5, <2>7, <3>1, <3>2 DEF Fields
    <3>6. n.budget + Pays(n.e[s]) >= m.budget + Pays(m.e[s])
      BY <2>4, <3>1, <3>2
    <3> QED BY <2>12, <3>2, <3>4, <3>5, <3>6, KeptFrom
  <2>14. n \in MeTypes /\ n.e[s] = y
    BY <2>9 DEF Fields
  <2>15. Kept(n, Settle(n, s), s) /\ Settle(n, s).e[s] = SettledEntry(y)
    BY <2>14, SettleKept
  <2>16. ReleaseCapacity(m, s, k) = Settle(n, s)
    BY <1>2 DEF ReleaseCapacity, n, adv, given
  <2>17. ReleasedEntry(x, k) = SettledEntry(y)
    BY <1>2 DEF ReleasedEntry, y
  <2>18. Steady(m, Settle(n, s), s)
    BY <2>12, <2>15 DEF Kept, Steady
  <2>19. Kept(m, n, s) => Kept(m, Settle(n, s), s)
    BY <2>15, KeptTwice
  <2> QED BY <2>13, <2>15, <2>16, <2>17, <2>18, <2>19
<1> QED BY <1>0, <1>1, <1>2

-----------------------------------------------------------------------------
(* Entries.                                                                  *)

\* What of an entry its reader is told.
SameBody(x, y) ==
    y.recv = x.recv /\ y.total = x.total /\ y.app = x.app /\ y.spoiled = x.spoiled

\* A stream that is over and owes nothing.
Gone(y) == ~y.stored /\ y.fin /\ y.unrel = 0 /\ y.charged = 0

\* maybe_remove_settled keeps all but the entry's place.
LEMMA SettledFacts ==
    ASSUME NEW x \in Entries
    PROVE  /\ SameBody(x, SettledEntry(x)) /\ SettledEntry(x).cause = x.cause
           /\ SettledEntry(x).fin = x.fin /\ SettledEntry(x).unrel = x.unrel
           /\ SettledEntry(x).charged = x.charged /\ SettledEntry(x).flow = x.flow
           /\ SettledEntry(x).reclaimed = x.reclaimed /\ SettledEntry(x).sent = x.sent
           /\ SettledEntry(x).stored <=> x.stored /\ ~(x.fin /\ x.unrel = 0 /\ x.charged = 0)
<1>1. CASE x.fin /\ x.unrel = 0 /\ x.charged = 0
  <2> DEFINE y == [x EXCEPT !.stored = FALSE]
  <2>1. SettledEntry(x) = y
    BY <1>1 DEF SettledEntry
  <2>2. /\ y.stored = FALSE /\ y.recv = x.recv /\ y.total = x.total /\ y.app = x.app
        /\ y.spoiled = x.spoiled /\ y.cause = x.cause /\ y.fin = x.fin /\ y.unrel = x.unrel
        /\ y.charged = x.charged /\ y.flow = x.flow /\ y.reclaimed = x.reclaimed /\ y.sent = x.sent
    BY DEF Entries
  <2> HIDE DEF y
  <2> QED BY <1>1, <2>1, <2>2 DEF SameBody
<1>2. CASE ~(x.fin /\ x.unrel = 0 /\ x.charged = 0)
  <2>1. SettledEntry(x) = x
    BY <1>2 DEF SettledEntry
  <2> QED BY <1>2, <2>1, EntryFields DEF SameBody
<1> QED BY <1>1, <1>2

\* close_stream.
LEMMA ClosedFacts ==
    ASSUME NEW x \in Entries
    PROVE  /\ ClosedEntry(x) \in Entries /\ SameBody(x, ClosedEntry(x))
           /\ ClosedEntry(x).cause = x.cause /\ ClosedEntry(x).unrel = x.unrel
           /\ ClosedEntry(x).charged = x.charged /\ ClosedEntry(x).flow = x.flow
           /\ ClosedEntry(x).reclaimed = x.reclaimed
           /\ ~x.stored \/ x.cause = "none" \/ x.fin => ClosedEntry(x) = x
           /\ x.stored /\ x.cause # "none" /\ ~x.fin =>
                /\ ClosedEntry(x).fin
                /\ ClosedEntry(x).stored <=> x.unrel > 0 \/ x.charged > 0
<1>1. CASE ~x.stored \/ x.cause = "none" \/ x.fin
  <2>1. ClosedEntry(x) = x
    BY <1>1 DEF ClosedEntry
  <2> QED BY <1>1, <2>1 DEF SameBody
<1>2. CASE ~(~x.stored \/ x.cause = "none" \/ x.fin)
  <2> DEFINE y == [x EXCEPT !.fin = TRUE]
  <2>1. ClosedEntry(x) = SettledEntry(y)
    BY <1>2 DEF ClosedEntry
  <2>2. /\ y \in Entries /\ y.stored = x.stored /\ y.recv = x.recv /\ y.total = x.total
        /\ y.app = x.app /\ y.spoiled = x.spoiled /\ y.cause = x.cause /\ y.fin
        /\ y.unrel = x.unrel /\ y.charged = x.charged /\ y.flow = x.flow
        /\ y.reclaimed = x.reclaimed
    BY DEF Entries
  <2> HIDE DEF y
  <2>3. x.unrel \in Nat /\ x.charged \in Nat
    BY EntryFields
  <2>4. SettledEntry(y) \in Entries
    BY <2>2, SettledFields
  <2>5. /\ SameBody(y, SettledEntry(y)) /\ SettledEntry(y).cause = y.cause
        /\ SettledEntry(y).fin = y.fin /\ SettledEntry(y).unrel = y.unrel
        /\ SettledEntry(y).charged = y.charged /\ SettledEntry(y).flow = y.flow
        /\ SettledEntry(y).reclaimed = y.reclaimed
        /\ SettledEntry(y).stored <=> y.stored /\ ~(y.fin /\ y.unrel = 0 /\ y.charged = 0)
    BY <2>2, SettledFacts
  <2> QED BY <1>2, <2>1, <2>2, <2>3, <2>4, <2>5 DEF SameBody
<1> QED BY <1>1, <1>2

\* reclaim_stream_accounting.
LEMMA ReclaimedFacts ==
    ASSUME NEW x \in Entries
    PROVE  /\ ReclaimedEntry(x) \in Entries /\ SameBody(x, ReclaimedEntry(x))
           /\ ReclaimedEntry(x).cause = x.cause /\ ReclaimedEntry(x).fin = x.fin
           /\ ~x.stored => ReclaimedEntry(x) = x
           /\ x.stored =>
                /\ ReclaimedEntry(x).unrel = 0 /\ ReclaimedEntry(x).charged = 0
                /\ ReclaimedEntry(x).reclaimed
                /\ ReclaimedEntry(x).stored <=> ~x.fin
<1>1. CASE ~x.stored
  <2>1. ReclaimedEntry(x) = x
    BY <1>1 DEF ReclaimedEntry
  <2> QED BY <1>1, <2>1 DEF SameBody
<1>2. CASE x.stored
  <2> DEFINE y == [x EXCEPT !.charged = 0, !.unrel = 0, !.reclaimed = TRUE]
  <2>1. ReclaimedEntry(x) = SettledEntry(y)
    BY <1>2 DEF ReclaimedEntry
  <2>2. /\ y \in Entries /\ y.stored = x.stored /\ y.recv = x.recv /\ y.total = x.total
        /\ y.app = x.app /\ y.spoiled = x.spoiled /\ y.cause = x.cause /\ y.fin = x.fin
        /\ y.unrel = 0 /\ y.charged = 0 /\ y.flow = x.flow /\ y.reclaimed
    BY DEF Entries
  <2> HIDE DEF y
  <2>3. SettledEntry(y) \in Entries
    BY <2>2, SettledFields
  <2>4. /\ SameBody(y, SettledEntry(y)) /\ SettledEntry(y).cause = y.cause
        /\ SettledEntry(y).fin = y.fin /\ SettledEntry(y).unrel = y.unrel
        /\ SettledEntry(y).charged = y.charged /\ SettledEntry(y).reclaimed = y.reclaimed
        /\ SettledEntry(y).stored <=> y.stored /\ ~(y.fin /\ y.unrel = 0 /\ y.charged = 0)
    BY <2>2, SettledFacts
  <2> QED BY <1>2, <2>1, <2>2, <2>3, <2>4 DEF SameBody
<1> QED BY <1>1, <1>2

\* drop_closed_stored: a closed stream is gone.
LEMMA DroppedFacts ==
    ASSUME NEW x \in Entries
    PROVE  /\ DroppedEntry(x) \in Entries /\ SameBody(x, DroppedEntry(x))
           /\ DroppedEntry(x).cause = x.cause
           /\ ~x.stored => DroppedEntry(x) = x
           /\ x.stored /\ x.cause # "none" => Gone(DroppedEntry(x))
           /\ x.stored /\ x.cause = "none" => DroppedEntry(x) = ReclaimedEntry(x)
<1> DEFINE r == ReclaimedEntry(x)
<1>1. /\ r \in Entries /\ SameBody(x, r) /\ r.cause = x.cause /\ r.fin = x.fin
      /\ ~x.stored => r = x
      /\ x.stored => r.unrel = 0 /\ r.charged = 0 /\ (r.stored <=> ~x.fin)
  BY ReclaimedFacts
<1> HIDE DEF r
<1>2. DroppedEntry(x) = ClosedEntry(r)
  BY DEF DroppedEntry, r
<1>3. /\ ClosedEntry(r) \in Entries /\ SameBody(r, ClosedEntry(r))
      /\ ClosedEntry(r).cause = r.cause /\ ClosedEntry(r).unrel = r.unrel
      /\ ClosedEntry(r).charged = r.charged
      /\ ~r.stored \/ r.cause = "none" \/ r.fin => ClosedEntry(r) = r
      /\ r.stored /\ r.cause # "none" /\ ~r.fin =>
           /\ ClosedEntry(r).fin
           /\ ClosedEntry(r).stored <=> r.unrel > 0 \/ r.charged > 0
  BY <1>1, ClosedFacts
<1>4. SameBody(x, ClosedEntry(r))
  BY <1>1, <1>3 DEF SameBody
<1>5. ASSUME x.stored, x.cause # "none" PROVE Gone(ClosedEntry(r))
  <2>1. CASE x.fin
    BY <1>1, <1>3, <1>5, <2>1 DEF Gone
  <2>2. CASE ~x.fin
    BY <1>1, <1>3, <1>5, <2>2 DEF Gone
  <2> QED BY <2>1, <2>2
<1>6. ASSUME x.stored, x.cause = "none" PROVE ClosedEntry(r) = r
  BY <1>1, <1>3, <1>6
<1>7. ~x.stored => ClosedEntry(r) = x
  BY <1>1, <1>3
<1> QED BY <1>1, <1>2, <1>3, <1>4, <1>5, <1>6, <1>7 DEF r

\* reset_stream: a stream that is reset is gone.
LEMMA ResetFacts ==
    ASSUME NEW x \in Entries
    PROVE  /\ ResetEntry(x) \in Entries /\ SameBody(x, ResetEntry(x))
           /\ ~x.stored => ResetEntry(x) = x
           /\ x.stored => /\ Gone(ResetEntry(x))
                          /\ ResetEntry(x).cause
                               = IF x.cause \in {"none", "end"} THEN "local" ELSE x.cause
<1>1. CASE ~x.stored
  <2>1. ResetEntry(x) = x
    BY <1>1 DEF ResetEntry
  <2> QED BY <1>1, <2>1 DEF SameBody
<1>2. CASE x.stored
  <2> DEFINE y == ResetCause(x)
  <2>1. /\ y \in Entries /\ SameBody(x, y) /\ y.stored
        /\ y.cause = IF x.cause \in {"none", "end"} THEN "local" ELSE x.cause
    BY <1>2 DEF ResetCause, Entries, SameBody
  <2> HIDE DEF y
  <2>2. y.cause # "none"
    BY <2>1
  <2>3. /\ DroppedEntry(y) \in Entries /\ SameBody(y, DroppedEntry(y))
        /\ DroppedEntry(y).cause = y.cause
        /\ y.stored /\ y.cause # "none" => Gone(DroppedEntry(y))
    BY <2>1, DroppedFacts
  <2>4. ResetEntry(x) = DroppedEntry(y)
    BY <1>2 DEF ResetEntry, y
  <2>5. SameBody(x, DroppedEntry(y))
    BY <2>1, <2>3 DEF SameBody
  <2> QED BY <1>2, <2>1, <2>2, <2>3, <2>4, <2>5
<1> QED BY <1>1, <1>2

-----------------------------------------------------------------------------
(* Steps.                                                                    *)

\* A stream that a step leaves as it was.
LEMMA SameStream ==
    ASSUME NEW u \in Streams, StreamOK(u),
           me'.e[u] = me.e[u], me'.init = me.init, q'[u] = q[u], rd'[u] = rd[u],
           Running' => Running,
           Coming(u)' = Coming(u), EndComing(u)' <=> EndComing(u),
           Doubtful(u)' <=> Doubtful(u),
           pump'.err # "conn" => pump.err # "conn",
           pump'.err = "stream" /\ pump'.on = u => pump.err = "stream" /\ pump.on = u,
           \A i \in DOMAIN pump'.push : pump'.push[i].on = u =>
              \E j \in DOMAIN pump.push : pump.push[j] = pump'.push[i]
    PROVE  StreamOK(u)'
<1>1. EntryOK(me.e[u])'
  BY DEF StreamOK, EntryOK
<1>2. IdleOK(u)'
  <2>1. IdleOK(u)
    BY DEF StreamOK
  <2> QED BY <2>1 DEF IdleOK
<1>3. ReaderOK(u)'
  BY DEF StreamOK, ReaderOK
<1>4. DoubtOK(u)'
  BY DEF StreamOK, DoubtOK
<1>5. EndIn(u)' <=> EndIn(u)
  BY DEF EndIn
<1>6. BytesIn(q[u])' = BytesIn(q[u]) /\ Held(u)' = Held(u)
  BY DEF BytesIn, Held
<1>7. WholeSoFar(u)'
  <2>1. WholeSoFar(u)
    BY DEF StreamOK
  <2> QED BY <1>5, <1>6, <2>1 DEF WholeSoFar, Flows
<1>8. EofInQueue(u)'
  <2>1. EofInQueue(u)
    BY DEF StreamOK
  <2> QED BY <2>1 DEF EofInQueue, Before
<1>9. EofOnItsWay(u)'
  <2>1. EofOnItsWay(u)
    BY DEF StreamOK
  <2> QED BY <1>5, <1>6, <2>1 DEF EofOnItsWay
<1>10. Told(u)' /\ ToldBefore(u)'
  BY <1>5 DEF StreamOK, Told, ToldBefore
<1>11. OwesOK(u)'
  <2>1. OwesOK(u)
    BY DEF StreamOK
  <2> QED BY <1>6, <2>1 DEF OwesOK, Flows, FlowOK, Tight
<1> QED BY <1>1, <1>2, <1>3, <1>4, <1>7, <1>8, <1>9, <1>10, <1>11 DEF StreamOK

\* A stream that the pump has nothing for.
Quiet(u) == (\A i \in DOMAIN pump.push : pump.push[i].on # u) /\ ~Doubtful(u)

PumpTyped == pump \in [push : Seq(Pushes), err : {"none", "stream", "conn", "over"}, on : 0..N]

\* Of what the pump has for others, nothing comes to it.
LEMMA NoneComing ==
    ASSUME NEW push, NEW n \in Nat, DOMAIN push = 1..n, Len(push) = n,
           NEW u, \A i \in DOMAIN push : push[i].on # u
    PROVE  SumTo([i \in DOMAIN push |-> IF push[i].on = u THEN push[i].item.len ELSE 0], Len(push)) = 0
<1> DEFINE f == [i \in DOMAIN push |-> IF push[i].on = u THEN push[i].item.len ELSE 0]
<1>1. \A i \in 1..n : f[i] = 0
  OBVIOUS
<1> HIDE DEF f
<1>2. SumTo(f, n) = 0
  BY <1>1, SumZero
<1> QED BY <1>2 DEF f

\* ... now or after the step.
LEMMA QuietFacts ==
    ASSUME NEW u \in Streams
    PROVE  /\ PumpTyped /\ Quiet(u) => Coming(u) = 0 /\ ~EndComing(u)
           /\ PumpTyped' /\ Quiet(u)' => Coming(u)' = 0 /\ ~EndComing(u)'
<1>1. ASSUME PumpTyped, Quiet(u) PROVE Coming(u) = 0 /\ ~EndComing(u)
  <2>1. PICK n \in Nat : Len(pump.push) = n /\ DOMAIN pump.push = 1..n
    BY <1>1 DEF PumpTyped
  <2>2. \A i \in DOMAIN pump.push : pump.push[i].on # u
    BY <1>1 DEF Quiet
  <2> QED BY <2>1, <2>2, NoneComing DEF Coming, EndComing
<1>2. ASSUME PumpTyped', Quiet(u)' PROVE Coming(u)' = 0 /\ ~EndComing(u)'
  <2>1. PICK n \in Nat : Len(pump'.push) = n /\ DOMAIN pump'.push = 1..n
    BY <1>2 DEF PumpTyped
  <2>2. \A i \in DOMAIN pump'.push : pump'.push[i].on # u
    BY <1>2 DEF Quiet
  <2> QED BY <2>1, <2>2, NoneComing DEF Coming, EndComing
<1> QED BY <1>1, <1>2

\* What may come is what an item of the queue is.
LEMMA ItemsTyped ==
    ASSUME RecvTyped
    PROVE  /\ Items \subseteq ItemTypes /\ PumpTyped
           /\ EndOfBody \in Items /\ Stopped \in Items
           /\ \A it \in Items : it.len \in Nat /\ it.kind \in {"chunk", "eof", "stop"}
           /\ \A s \in Streams : q[s] \in Seq(Items) /\ q[s] \in Seq(ItemTypes)
           /\ \A s \in Streams : rd[s] \in Rds /\ rd[s].got \in Nat /\ rd[s].item \in Items
           /\ scene.lens \subseteq Nat
<1>1. scene.lens \subseteq Nat
  BY H2RecvConstants DEF RecvTyped
<1>2. Items \subseteq ItemTypes /\ \A it \in Items : it.len \in Nat /\ it.kind \in {"chunk", "eof", "stop"}
  BY <1>1 DEF Items, ItemTypes
<1>3. EndOfBody \in Items /\ Stopped \in Items
  BY DEF Items, EndOfBody, Stopped
<1>4. \A s \in Streams : q[s] \in Seq(Items) /\ rd[s] \in Rds
  BY DEF RecvTyped
<1>5. \A s \in Streams : q[s] \in Seq(ItemTypes)
  BY <1>2, <1>4
<1>6. \A x \in Rds : x.got \in Nat /\ x.item \in Items
  BY DEF Rds
<1>7. PumpTyped
  BY DEF RecvTyped, PumpTyped
<1> QED BY <1>1, <1>2, <1>3, <1>4, <1>5, <1>6, <1>7

\* What a step on one stream may do to the locked state.
Local(m, n, s) ==
    /\ n.init = m.init /\ n.goaway = m.goaway /\ (m.error => n.error)
    /\ \A u \in Streams \ {s} : n.e[u] = m.e[u]
    /\ MeOK(n)

\* Every operator on a stream is local.
LEMMA SteadyLocal ==
    ASSUME RecvInv, NEW n, NEW s \in Streams, Steady(me, n, s)
    PROVE  Local(me, n, s)
BY DEF RecvInv, Steady, Local

\* A step on one stream.
LEMMA OneStream ==
    ASSUME RecvInv, NEW s \in Streams, Local(me, me', s), Running' => Balanced(me'),
           \A u \in Streams \ {s} : q'[u] = q[u] /\ rd'[u] = rd[u],
           RecvTyped', PumpOK', StreamOK(s)',
           \/ pump' = pump
           \/ pump.err # "conn" /\ \A u \in Streams \ {s} : Quiet(u) /\ Quiet(u)'
    PROVE  RecvInv'
<1>1. Running' => Running
  BY DEF Running, Up, Local
<1>2. MeOK(me)'
  <2>2. MeOK(me')
    BY DEF Local
  <2> QED BY <2>2
<1>3. (Running => Balanced(me))'
  OBVIOUS
<1>4. ASSUME NEW u \in Streams \ {s} PROVE StreamOK(u)'
  <2>1. StreamOK(u) /\ me'.e[u] = me.e[u] /\ me'.init = me.init
    BY DEF RecvInv, Local
  <2>2. CASE pump' = pump
    <3>1. Coming(u)' = Coming(u) /\ (EndComing(u)' <=> EndComing(u)) /\ (Doubtful(u)' <=> Doubtful(u))
      BY <2>2 DEF Coming, EndComing, Doubtful
    <3>2. \A i \in DOMAIN pump'.push : pump'.push[i].on = u =>
             \E j \in DOMAIN pump.push : pump.push[j] = pump'.push[i]
      BY <2>2
    <3> QED BY <1>1, <2>1, <2>2, <3>1, <3>2, SameStream
  <2>3. CASE pump.err # "conn" /\ Quiet(u) /\ Quiet(u)'
    <3>1. PumpTyped /\ PumpTyped'
      BY DEF RecvInv, RecvTyped, PumpTyped
    <3>2. Coming(u) = 0 /\ ~EndComing(u)
      BY <2>3, <3>1, QuietFacts
    <3>3. Coming(u)' = 0 /\ ~EndComing(u)'
      BY <2>3, <3>1, QuietFacts
    <3>4. ~Doubtful(u) /\ ~Doubtful(u)'
      BY <2>3 DEF Quiet
    <3>5. \A i \in DOMAIN pump'.push : pump'.push[i].on # u
      BY <2>3 DEF Quiet
    <3>6. ~(pump'.err = "stream" /\ pump'.on = u)
      BY <3>4 DEF Doubtful
    <3> QED BY <1>1, <2>1, <2>3, <3>2, <3>3, <3>4, <3>5, <3>6, SameStream
  <2> QED BY <2>2, <2>3
<1> QED BY <1>2, <1>3, <1>4 DEF RecvInv

\* What a frame has the pump do next on its stream.
To(s, it) == [on |-> s, item |-> it]
Shape(s, push) ==
    \/ push = <<>>
    \/ \E it \in Items :
         push = <<To(s, it)>> /\ (it.kind # "chunk" => it \in {EndOfBody, Stopped})
    \/ \E it \in Items : push = <<To(s, it), To(s, EndOfBody)>> /\ it.kind = "chunk"

\* The pump that waits for a frame.
LEMMA IdlePumpFacts ==
    ASSUME RecvTyped, pump = IdlePump
    PROVE  /\ pump.push = <<>> /\ pump.err = "none" /\ pump.on = NoStream
           /\ \A u \in Streams : Quiet(u) /\ Coming(u) = 0 /\ ~EndComing(u) /\ ~Doubtful(u)
<1>1. pump.push = <<>> /\ pump.err = "none" /\ pump.on = NoStream
  BY DEF IdlePump
<1>2. \A u \in Streams : Quiet(u) /\ ~Doubtful(u)
  BY <1>1 DEF Quiet, Doubtful
<1>3. PumpTyped
  BY DEF RecvTyped, PumpTyped
<1> QED BY <1>1, <1>2, <1>3, QuietFacts

\* The verdict of a frame.
LEMMA VerdictPump ==
    ASSUME NEW m, NEW push, NEW err, NEW s, Verdict(m, push, err, s)
    PROVE  /\ me' = m /\ q' = q /\ rd' = rd /\ frames' = frames + 1
           /\ pump'.push = push /\ pump'.err = err
           /\ pump' = [push |-> push, err |-> err, on |-> pump'.on]
           /\ IF push = <<>> /\ err = "none" THEN pump'.on = NoStream ELSE pump'.on = s
BY DEF Verdict, IdlePump

\* The bytes of it, and whether an end is among it.
LEMMA ShapeComing ==
    ASSUME NEW s \in Streams, Items \subseteq ItemTypes
    PROVE  /\ pump'.push = <<>> => Coming(s)' = 0 /\ ~EndComing(s)'
           /\ \A it \in Items : pump'.push = <<To(s, it)>> =>
                Coming(s)' = it.len /\ (EndComing(s)' <=> it.kind # "chunk")
           /\ \A it \in Items : pump'.push = <<To(s, it), To(s, EndOfBody)>> =>
                Coming(s)' = it.len /\ EndComing(s)'
<1>0. \A it \in Items : it.len \in Nat
  BY DEF ItemTypes
<1> DEFINE f == [i \in DOMAIN pump'.push |-> IF pump'.push[i].on = s THEN pump'.push[i].item.len ELSE 0]
<1>1. Coming(s)' = SumTo(f, Len(pump'.push))
  BY DEF Coming
<1>2. ASSUME pump'.push = <<>> PROVE Coming(s)' = 0 /\ ~EndComing(s)'
  <2>1. Len(pump'.push) = 0 /\ DOMAIN pump'.push = {}
    BY <1>2
  <2> HIDE DEF f
  <2>2. SumTo(f, 0) = 0
    BY SumToDef
  <2>3. ~EndComing(s)'
    BY <2>1 DEF EndComing
  <2> QED BY <1>1, <2>1, <2>2, <2>3
<1>3. ASSUME NEW it \in Items, pump'.push = <<To(s, it)>>
      PROVE  Coming(s)' = it.len /\ (EndComing(s)' <=> it.kind # "chunk")
  <2>1. Len(pump'.push) = 1 /\ DOMAIN pump'.push = {1}
    BY <1>3
  <2>2. pump'.push[1] = To(s, it)
    BY <1>3
  <2>3. f[1] = it.len
    BY <2>1, <2>2 DEF To
  <2>4. EndComing(s)' <=> it.kind # "chunk"
    BY <2>1, <2>2 DEF EndComing, To
  <2> HIDE DEF f
  <2>5. SumTo(f, 0) = 0 /\ SumTo(f, 0 + 1) = SumTo(f, 0) + f[0 + 1]
    BY SumToDef
  <2>6. SumTo(f, 1) = it.len
    BY <1>0, <2>3, <2>5
  <2> QED BY <1>1, <2>1, <2>4, <2>6
<1>4. ASSUME NEW it \in Items, pump'.push = <<To(s, it), To(s, EndOfBody)>>
      PROVE  Coming(s)' = it.len /\ EndComing(s)'
  <2>1. Len(pump'.push) = 2 /\ DOMAIN pump'.push = {1, 2}
    BY <1>4
  <2>2. pump'.push[1] = To(s, it) /\ pump'.push[2] = To(s, EndOfBody)
    BY <1>4
  <2>3. f[1] = it.len /\ f[2] = 0
    BY <2>1, <2>2 DEF To, EndOfBody
  <2>4. EndComing(s)'
    BY <2>1, <2>2 DEF EndComing, To, EndOfBody
  <2> HIDE DEF f
  <2>5. SumTo(f, 0) = 0 /\ SumTo(f, 0 + 1) = SumTo(f, 0) + f[0 + 1]
    BY SumToDef
  <2>6. SumTo(f, 1 + 1) = SumTo(f, 1) + f[1 + 1]
    BY SumToDef
  <2>7. SumTo(f, 2) = it.len
    BY <1>0, <2>3, <2>5, <2>6
  <2> QED BY <1>1, <2>1, <2>4, <2>7
<1> QED BY <1>2, <1>3, <1>4

\* A frame is a step on its stream.
LEMMA VerdictStep ==
    ASSUME RecvInv, NEW s \in Streams, PumpIdle, scene' = scene,
           NEW m, NEW push, NEW err \in {"none", "stream", "conn"}, Verdict(m, push, err, s),
           Local(me, m, s), Running' => Balanced(m),
           Shape(s, push), push # <<>> => err = "none",
           StreamOK(s)'
    PROVE  RecvInv'
<1>1. RecvTyped /\ pump = IdlePump /\ frames \in Nat
  BY DEF RecvInv, PumpIdle, RecvTyped
<1>2. /\ pump.err = "none" /\ \A u \in Streams : Quiet(u)
  BY <1>1, IdlePumpFacts
<1>3. /\ me' = m /\ q' = q /\ rd' = rd /\ frames' = frames + 1
      /\ pump'.push = push /\ pump'.err = err
      /\ pump' = [push |-> push, err |-> err, on |-> pump'.on]
      /\ IF push = <<>> /\ err = "none" THEN pump'.on = NoStream ELSE pump'.on = s
  BY VerdictPump
<1>4. Items' = Items /\ Pushes' = Pushes /\ Rds' = Rds
  BY DEF Items, Pushes, Rds
<1>5. Items \subseteq ItemTypes /\ EndOfBody \in Items
  BY <1>1, ItemsTyped
<1>6. push \in Seq(Pushes) /\ \A i \in DOMAIN push : push[i].on = s
  <2>1. \A it \in Items : To(s, it) \in Pushes /\ To(s, it).on = s
    BY DEF To, Pushes
  <2>2. CASE push = <<>>
    BY <2>2
  <2>3. ASSUME NEW it \in Items, push = <<To(s, it)>>
        PROVE  push \in Seq(Pushes) /\ \A i \in DOMAIN push : push[i].on = s
    BY <2>1, <2>3
  <2>4. ASSUME NEW it \in Items, push = <<To(s, it), To(s, EndOfBody)>>
        PROVE  push \in Seq(Pushes) /\ \A i \in DOMAIN push : push[i].on = s
    <3> DEFINE a == To(s, it)
               b == To(s, EndOfBody)
    <3>1. a \in Pushes /\ b \in Pushes /\ a.on = s /\ b.on = s
      BY <1>5, <2>1
    <3> HIDE DEF a, b
    <3>2. <<a, b>> \in Seq(Pushes) /\ DOMAIN <<a, b>> = {1, 2}
      BY <3>1
    <3>3. <<a, b>>[1] = a /\ <<a, b>>[2] = b
      OBVIOUS
    <3>4. push = <<a, b>>
      BY <2>4 DEF a, b
    <3> QED BY <3>1, <3>2, <3>3, <3>4
  <2> QED BY <2>2, <2>3, <2>4 DEF Shape
<1>7. RecvTyped'
  <2>1. pump'.on \in 0..N
    BY <1>3, Consts DEF NoStream
  <2>2. pump' \in [push : Seq(Pushes), err : {"none", "stream", "conn", "over"}, on : 0..N]
    BY <1>3, <1>6, <2>1
  <2>3. frames' \in Nat
    BY <1>1, <1>3
  <2> QED BY <1>1, <1>3, <1>4, <2>2, <2>3 DEF RecvTyped
<1>8. PumpOK'
  <2>1. CASE push = <<>>
    BY <1>3, <2>1 DEF PumpOK, NoStream
  <2>2. ASSUME NEW it \in Items, push = <<To(s, it)>>, it.kind # "chunk" => it \in {EndOfBody, Stopped}
        PROVE  PumpOK'
    <3>1. pump'.push # <<>> /\ Len(pump'.push) = 1 /\ DOMAIN pump'.push = {1} /\ pump'.push[1].item = it
      BY <1>3, <2>2 DEF To
    <3>2. pump'.err = "none"
      BY <1>3, <2>2, <3>1
    <3> QED BY <2>2, <3>1, <3>2 DEF PumpOK
  <2>3. ASSUME NEW it \in Items, push = <<To(s, it), To(s, EndOfBody)>>, it.kind = "chunk"
        PROVE  PumpOK'
    <3>1. /\ pump'.push # <<>> /\ Len(pump'.push) = 2 /\ DOMAIN pump'.push = {1, 2}
          /\ pump'.push[1].item = it /\ pump'.push[2].item = EndOfBody
          /\ pump'.push[1].on = s /\ pump'.push[2].on = s
      BY <1>3, <2>3 DEF To
    <3>2. pump'.err = "none"
      BY <1>3, <3>1
    <3> QED BY <2>3, <3>1, <3>2 DEF PumpOK
  <2> QED BY <2>1, <2>2, <2>3 DEF Shape
<1>9. ASSUME NEW u \in Streams \ {s} PROVE Quiet(u)'
  <2>1. \A i \in DOMAIN pump'.push : pump'.push[i].on # u
    BY <1>3, <1>6
  <2>2. ~Doubtful(u)'
    BY <1>3 DEF Doubtful
  <2> QED BY <2>1, <2>2 DEF Quiet
<1>10. Running' => Balanced(me')
  BY <1>3
<1>11. Local(me, me', s)
  BY <1>3
<1> QED BY <1>2, <1>3, <1>7, <1>8, <1>9, <1>10, <1>11, OneStream

\* The stream of a frame, from x to y: what its parts come to.
LEMMA FromIdle ==
    ASSUME RecvInv, NEW s \in Streams, pump = IdlePump, q'[s] = q[s], rd'[s] = rd[s],
           NEW x, NEW y, x = me.e[s], y = me'.e[s], EntryOK(y), y.recv # "idle",
           x.recv = "ended" => y.recv = "ended" /\ y.total = x.total,
           DoubtOK(s)',
           Flows(y) /\ pump'.err # "conn" =>
              /\ Flows(x) \/ x.recv = "idle"
              /\ ~EndComing(s)'
              /\ y.total = x.total + Coming(s)',
           \A i \in DOMAIN pump'.push :
              pump'.push[i].on = s /\ pump'.push[i].item.kind = "eof" /\ rd[s].pc # "over" /\ ~EndIn(s) =>
                 y.recv = "ended" /\ y.total = rd[s].got + BytesIn(q[s]) + Coming(s)',
           y.app /\ ~y.spoiled /\ (y.fin \/ y.recv = "ended") =>
              \/ x.app /\ ~x.spoiled /\ (x.fin \/ x.recv = "ended")
              \/ EndComing(s)',
           y.cause = "after" => x.cause = "after" \/ EndIn(s) \/ rd[s].pc = "over",
           OwesOK(s)'
    PROVE  StreamOK(s)'
<1>1. RecvTyped /\ StreamOK(s)
  BY DEF RecvInv
<1>2. Coming(s) = 0 /\ ~EndComing(s) /\ pump.err = "none"
  BY <1>1, IdlePumpFacts
<1>3. EntryOK(me.e[s])'
  BY DEF EntryOK
<1>4. IdleOK(s)'
  BY DEF IdleOK
<1>5. ReaderOK(s)'
  BY <1>1 DEF StreamOK, ReaderOK
<1>6. EndIn(s)' <=> EndIn(s)
  BY DEF EndIn
<1>7. BytesIn(q[s])' = BytesIn(q[s])
  BY DEF BytesIn
<1>8. WholeSoFar(s)'
  <2>1. SUFFICES ASSUME Flows(y), pump'.err # "conn"
                 PROVE  /\ ~EndIn(s) /\ ~EndComing(s)' /\ rd[s].pc # "over"
                        /\ y.total = rd[s].got + BytesIn(q[s]) + Coming(s)'
    BY <1>6, <1>7 DEF WholeSoFar, Flows
  <2>2. CASE Flows(x)
    <3>1. ~EndIn(s) /\ rd[s].pc # "over" /\ x.total = rd[s].got + BytesIn(q[s]) + Coming(s)
      BY <1>1, <1>2, <2>2 DEF StreamOK, WholeSoFar
    <3>2. rd[s].got \in Nat /\ BytesIn(q[s]) \in Nat
      BY <1>1, ItemsTyped, BytesNat
    <3>3. x.total = rd[s].got + BytesIn(q[s])
      BY <1>2, <3>1, <3>2
    <3> QED BY <2>1, <3>1, <3>3
  <2>3. CASE x.recv = "idle"
    <3>1. q[s] = <<>> /\ rd[s] = Reading /\ x.total = 0
      BY <1>1, <2>3 DEF StreamOK, IdleOK, EntryOK, NoEntry
    <3>2. BytesIn(q[s]) = 0 /\ ~EndIn(s) /\ rd[s].pc # "over" /\ rd[s].got = 0
      BY <3>1, BytesNone DEF EndIn, Reading
    <3>3. y.total = 0 + Coming(s)'
      BY <2>1, <3>1
    <3> QED BY <2>1, <3>2, <3>3
  <2> QED BY <2>1, <2>2, <2>3
<1>9. EofInQueue(s)'
  <2>1. EofInQueue(s)
    BY <1>1 DEF StreamOK
  <2> QED BY <2>1 DEF EofInQueue, Before
<1>10. EofOnItsWay(s)'
  BY <1>6, <1>7 DEF EofOnItsWay
<1>11. Told(s)'
  BY <1>1, <1>2, <1>6 DEF StreamOK, Told
<1>12. ToldBefore(s)'
  BY <1>1, <1>6 DEF StreamOK, ToldBefore
<1> QED BY <1>3, <1>4, <1>5, <1>8, <1>9, <1>10, <1>11, <1>12 DEF StreamOK

\* A frame that leaves the entry as it was.
LEMMA SameEntry ==
    ASSUME RecvInv, NEW s \in Streams, pump = IdlePump, q'[s] = q[s], rd'[s] = rd[s],
           me'.e[s] = me.e[s], me'.init = me.init, Running' => Running, pump'.push = <<>>,
           pump'.err = "stream" => pump'.on # s \/ me.e[s].recv # "idle"
    PROVE  StreamOK(s)'
<1> DEFINE x == me.e[s]
<1>1. RecvTyped /\ StreamOK(s) /\ EntryOK(x)
  BY DEF RecvInv, StreamOK
<1>2. Coming(s) = 0 /\ ~EndComing(s) /\ pump.err = "none" /\ ~Doubtful(s)
  BY <1>1, IdlePumpFacts
<1>3. Coming(s)' = 0 /\ ~EndComing(s)'
  BY <1>1, ItemsTyped, ShapeComing
<1>4. DoubtOK(s)'
  BY <1>1, <1>2 DEF StreamOK, DoubtOK
<1>5. OwesOK(s)'
  <2>1. BytesIn(q[s])' = BytesIn(q[s]) /\ Held(s)' = Held(s)
    BY DEF BytesIn, Held
  <2>2. OwesOK(s)
    BY <1>1 DEF StreamOK
  <2> QED BY <1>2, <1>3, <2>1, <2>2 DEF OwesOK, Flows, FlowOK, Tight
<1>6. CASE x.recv # "idle"
  <2>1. x.total \in Nat
    BY MeFields, EntryFields DEF RecvInv, MeOK
  <2>2. x.total = x.total + Coming(s)'
    BY <1>3, <2>1
  <2>3. \A i \in DOMAIN pump'.push : FALSE
    OBVIOUS
  <2> HIDE DEF x
  <2>4. x = me.e[s] /\ x = me'.e[s]
    BY DEF x
  <2>5. Flows(x) /\ pump'.err # "conn" =>
              /\ Flows(x) \/ x.recv = "idle"
              /\ ~EndComing(s)'
              /\ x.total = x.total + Coming(s)'
    BY <1>3, <2>2
  <2> QED BY <1>1, <1>4, <1>5, <1>6, <2>3, <2>4, <2>5, FromIdle
<1>7. CASE x.recv = "idle"
  <2>1. x = NoEntry /\ q[s] = <<>> /\ rd[s] = Reading
    BY <1>1, <1>7 DEF StreamOK, IdleOK, EntryOK
  <2>2. EntryOK(me.e[s])'
    BY <1>1 DEF EntryOK
  <2>3. IdleOK(s)'
    BY <1>7, <2>1 DEF IdleOK
  <2>4. ReaderOK(s)'
    BY <1>1 DEF StreamOK, ReaderOK
  <2>5. ~Flows(me'.e[s])
    BY <2>1 DEF Flows, NoEntry
  <2>6. WholeSoFar(s)'
    BY <2>5 DEF WholeSoFar, Flows
  <2>7. EofInQueue(s)' /\ EofOnItsWay(s)'
    BY <2>1 DEF EofInQueue, EofOnItsWay
  <2>8. Told(s)' /\ ToldBefore(s)'
    BY <2>1 DEF Told, ToldBefore, NoEntry
  <2> QED BY <1>4, <1>5, <2>2, <2>3, <2>4, <2>6, <2>7, <2>8 DEF StreamOK
<1> QED BY <1>6, <1>7

\* A frame that ends the entry, at most.
LEMMA QuietEntry ==
    ASSUME RecvInv, NEW s \in Streams, pump = IdlePump, q'[s] = q[s], rd'[s] = rd[s],
           NEW x, NEW y, x = me.e[s], y = me'.e[s], EntryOK(y), y.recv # "idle", SameBody(x, y),
           pump'.push = <<>>,
           y.fin => x.fin \/ x.recv = "ended",
           Flows(y) /\ pump'.err # "conn" => Flows(x),
           y.cause = "after" => x.cause = "after" \/ EndIn(s) \/ rd[s].pc = "over",
           DoubtOK(s)', OwesOK(s)'
    PROVE  StreamOK(s)'
<1>1. RecvTyped
  BY DEF RecvInv
<1>2. Coming(s)' = 0 /\ ~EndComing(s)'
  BY <1>1, ItemsTyped, ShapeComing
<1>3. x.total \in Nat
  BY MeFields, EntryFields DEF RecvInv, MeOK
<1>4. y.recv = x.recv /\ y.total = x.total /\ y.app = x.app /\ y.spoiled = x.spoiled
  BY DEF SameBody
<1>5. \A i \in DOMAIN pump'.push : FALSE
  OBVIOUS
<1>6. Flows(y) /\ pump'.err # "conn" =>
              /\ Flows(x) \/ x.recv = "idle"
              /\ ~EndComing(s)'
              /\ y.total = x.total + Coming(s)'
  BY <1>2, <1>3, <1>4
<1>7. y.app /\ ~y.spoiled /\ (y.fin \/ y.recv = "ended") =>
              \/ x.app /\ ~x.spoiled /\ (x.fin \/ x.recv = "ended")
              \/ EndComing(s)'
  BY <1>4
<1>8. x.recv = "ended" => y.recv = "ended" /\ y.total = x.total
  BY <1>4
<1> QED BY <1>5, <1>6, <1>7, <1>8, FromIdle

-----------------------------------------------------------------------------
(* New streams.                                                              *)

\* What is known of an entry when the pump waits for a frame.
LEMMA EntryIdle ==
    ASSUME RecvInv, NEW s \in Streams
    PROVE  /\ me.e[s] \in Entries /\ EntryOK(me.e[s]) /\ StreamOK(s) /\ me \in MeTypes /\ RecvTyped
           /\ me.e[s].stored => me.e[s].recv # "idle"
           /\ pump = IdlePump /\ me.e[s].stored /\ ~me.e[s].fin =>
                me.e[s].cause = "none" /\ ~me.e[s].spoiled /\ me.e[s].app
<1>1. me \in MeTypes /\ RecvTyped /\ StreamOK(s)
  BY DEF RecvInv, MeOK
<1>2. me.e[s] \in Entries
  BY <1>1, MeFields
<1>3. EntryOK(me.e[s]) /\ DoubtOK(s)
  BY <1>1 DEF StreamOK
<1>4. me.e[s].stored => me.e[s].recv # "idle"
  BY <1>3 DEF EntryOK, NoEntry
<1>5. pump = IdlePump => ~Doubtful(s)
  BY <1>1, IdlePumpFacts
<1> QED BY <1>1, <1>2, <1>3, <1>4, <1>5 DEF DoubtOK

\* The entry of a stream just opened.
Fresh(n, r, told) ==
    [NoEntry EXCEPT !.stored = TRUE, !.recv = r, !.flow = Flow(n), !.app = told]

\* What is known of an entry just made.
LEMMA FreshFacts ==
    ASSUME NEW n \in Nat, NEW r \in {"head", "streaming", "ended"}, NEW told \in BOOLEAN
    PROVE  /\ Fresh(n, r, told) \in Entries /\ EntryOK(Fresh(n, r, told))
           /\ Fresh(n, r, told).stored /\ Fresh(n, r, told).recv = r
           /\ Fresh(n, r, told).cause = "none" /\ ~Fresh(n, r, told).fin
           /\ Fresh(n, r, told).unrel = 0 /\ Fresh(n, r, told).charged = 0
           /\ ~Fresh(n, r, told).reclaimed /\ Fresh(n, r, told).total = 0
           /\ (Fresh(n, r, told).app <=> told) /\ ~Fresh(n, r, told).spoiled
           /\ FlowOK(Fresh(n, r, told), n)
<1> DEFINE y == Fresh(n, r, told)
<1>1. Flow(n) \in [win : Int, avail : Int] /\ Flow(n).win = n /\ Flow(n).avail = n
  BY DEF Flow
<1>2. PICK f \in [win : Int, avail : Int] : f = Flow(n)
  BY <1>1
<1>3. y = [NoEntry EXCEPT !.stored = TRUE, !.recv = r, !.flow = f, !.app = told]
  BY <1>2 DEF Fresh
<1>4. /\ y.stored = TRUE /\ y.recv = r /\ y.sent = FALSE /\ y.cause = "none" /\ y.fin = FALSE
      /\ y.unrel = 0 /\ y.charged = 0 /\ y.reclaimed = FALSE /\ y.flow = f /\ y.total = 0
      /\ y.app = told /\ y.spoiled = FALSE
  BY <1>3 DEF NoEntry
<1>5. y \in Entries
  <2>1. y = [stored |-> TRUE, recv |-> r, sent |-> FALSE, cause |-> "none", fin |-> FALSE,
             unrel |-> 0, charged |-> 0, reclaimed |-> FALSE, flow |-> f, total |-> 0,
             app |-> told, spoiled |-> FALSE]
    BY <1>3 DEF NoEntry
  <2> QED BY <2>1 DEF Entries
<1> HIDE DEF y
<1>6. EntryOK(y)
  BY <1>4 DEF EntryOK
<1>7. FlowOK(y, n)
  BY <1>1, <1>2, <1>4 DEF FlowOK, Tight
<1> QED BY <1>4, <1>5, <1>6, <1>7 DEF y

\* One more stream in the active set, and nothing owed for it.
LEMMA NewEntryLocal ==
    ASSUME RecvInv, NEW s \in Streams, me.e[s].recv = "idle",
           NEW r \in {"head", "streaming", "ended"}, NEW told \in BOOLEAN,
           NEW n, n = NewEntry(me, s, r, told)
    PROVE  /\ Local(me, n, s) /\ (Balanced(me) => Balanced(n))
           /\ n.e[s] = Fresh(me.init, r, told) /\ me.init \in Nat
<1> DEFINE y == Fresh(me.init, r, told)
           f == [me.e EXCEPT ![s] = y]
<1>1. /\ me \in MeTypes /\ EntryOK(me.e[s]) /\ me.e \in [Streams -> Entries]
      /\ Cardinality(me.store) <= ResetMax /\ me.active = Cardinality(Live(me))
  BY EntryIdle, MeFields DEF RecvInv, MeOK
<1>2. me.init \in Nat
  BY <1>1, MeFields, Consts
<1>3. /\ y \in Entries /\ y.stored /\ ~y.fin /\ y.unrel = 0 /\ y.charged = 0
  BY <1>2, FreshFacts
<1>4. n = [me EXCEPT !.e = f, !.active = me.active + 1]
  BY <1>1 DEF NewEntry, Fresh, MeTypes
<1> HIDE DEF y
<1>5. f \in [Streams -> Entries] /\ f[s] = y /\ \A u \in Streams \ {s} : f[u] = me.e[u]
  BY <1>1, <1>3
<1> HIDE DEF f
<1>6. me.active \in Int
  BY <1>1, MeFields
<1>7. /\ n \in MeTypes /\ n.e = f /\ n.active = me.active + 1 /\ n.init = me.init
      /\ n.goaway = me.goaway /\ n.error = me.error /\ n.store = me.store /\ n.conn = me.conn
      /\ n.budget = me.budget
  <2>1. PICK a \in Int : a = me.active + 1
    BY <1>6
  <2>2. n = [me EXCEPT !.e = f, !.active = a]
    BY <1>4, <2>1
  <2> QED BY <1>1, <1>5, <2>1, <2>2 DEF MeTypes
<1>8. ~me.e[s].stored /\ me.e[s].unrel = 0
  BY <1>1 DEF EntryOK, NoEntry
<1>9. s \notin Live(me) /\ Live(n) = Live(me) \cup {s}
  BY <1>3, <1>5, <1>7, <1>8 DEF Live
<1>10. Cardinality(Live(n)) = Cardinality(Live(me)) + 1
  BY <1>9, LiveFinite, FS_AddElement
<1>11. MeOK(n)
  BY <1>1, <1>7, <1>10 DEF MeOK
<1>12. n.e[s] = y /\ \A u \in Streams \ {s} : n.e[u] = me.e[u]
  BY <1>5, <1>7
<1>13. Owed(n) = Owed(me) /\ Spent(n) = Spent(me)
  <2>1. /\ Owed(n) = Owed(me) + Owes(n.e[s]) - Owes(me.e[s])
        /\ Spent(n) = Spent(me) + Pays(n.e[s]) - Pays(me.e[s])
    BY <1>1, <1>7, <1>12, OwedChange
  <2>2. Owes(n.e[s]) = 0 /\ Owes(me.e[s]) = 0 /\ Pays(n.e[s]) = 0 /\ Pays(me.e[s]) = 0
    BY <1>3, <1>8, <1>12 DEF Owes, Pays
  <2>3. Owed(me) \in Nat /\ Spent(me) \in Nat
    BY <1>1, OwedNat
  <2> QED BY <2>1, <2>2, <2>3
<1>14. Balanced(me) => Balanced(n)
  BY <1>7, <1>13 DEF Balanced
<1> QED BY <1>2, <1>7, <1>11, <1>12, <1>14 DEF Local, y

\* A step that leaves the pump alone.
LEMMA PumpSame ==
    ASSUME PumpOK, pump' = pump, pump.err = "over" => me'.error /\ Live(me') = {}
    PROVE  PumpOK'
BY DEF PumpOK

\* ... keeps the types of what the pump has to do.
LEMMA TypedSame ==
    ASSUME RecvTyped, scene' = scene, pump' = pump, frames' = frames,
           q' \in [Streams -> Seq(Items)], rd' \in [Streams -> Rds]
    PROVE  RecvTyped'
<1>1. Items' = Items /\ Pushes' = Pushes /\ Rds' = Rds
  BY DEF Items, Pushes, Rds
<1> QED BY <1>1 DEF RecvTyped

\* Nothing is known yet of a stream that is idle.
LEMMA IdleFacts ==
    ASSUME RecvInv, NEW s \in Streams, me.e[s].recv = "idle"
    PROVE  /\ me.e[s] = NoEntry /\ q[s] = <<>> /\ rd[s] = Reading
           /\ \A i \in DOMAIN pump.push : pump.push[i].on # s
           /\ pump.err = "stream" => pump.on # s
           /\ Coming(s) = 0 /\ ~EndComing(s) /\ BytesIn(q[s]) = 0 /\ Held(s) = 0 /\ ~EndIn(s)
<1>1. RecvTyped /\ EntryOK(me.e[s]) /\ IdleOK(s)
  BY EntryIdle DEF StreamOK
<1>2. /\ me.e[s] = NoEntry /\ q[s] = <<>> /\ rd[s] = Reading
      /\ \A i \in DOMAIN pump.push : pump.push[i].on # s
      /\ pump.err = "stream" => pump.on # s
  BY <1>1 DEF EntryOK, IdleOK
<1>3. PICK n \in Nat : Len(pump.push) = n /\ DOMAIN pump.push = 1..n
  BY <1>1 DEF RecvTyped
<1>4. Coming(s) = 0 /\ ~EndComing(s)
  BY <1>2, <1>3, NoneComing DEF Coming, EndComing
<1>5. BytesIn(q[s]) = 0 /\ Held(s) = 0 /\ ~EndIn(s)
  BY <1>2, BytesNone DEF Held, Reading, EndIn
<1> QED BY <1>2, <1>4, <1>5

\* open_stream.
LEMMA OpenStreamStep ==
    ASSUME RecvInv, NEW s \in Streams, OpenStream(s), scene' = scene
    PROVE  RecvInv'
<1> DEFINE y == Fresh(me.init, "head", TRUE)
<1>1. /\ ~me.error /\ me' = NewEntry(me, s, "head", TRUE) /\ pump' = pump /\ q' = q /\ rd' = rd
      /\ frames' = frames /\ me.e[s].recv = "idle"
  BY Consts DEF OpenStream
<1>2. /\ Local(me, me', s) /\ (Balanced(me) => Balanced(me'))
      /\ me'.e[s] = y /\ me.init \in Nat
  BY <1>1, NewEntryLocal
<1>3. /\ y \in Entries /\ EntryOK(y) /\ y.stored /\ y.recv = "head" /\ y.cause = "none" /\ ~y.fin
      /\ y.unrel = 0 /\ y.total = 0 /\ y.app /\ ~y.spoiled /\ FlowOK(y, me.init)
  BY <1>2, FreshFacts
<1> HIDE DEF y
<1>4. /\ q[s] = <<>> /\ rd[s] = Reading
      /\ \A i \in DOMAIN pump.push : pump.push[i].on # s
      /\ Coming(s) = 0 /\ ~EndComing(s) /\ BytesIn(q[s]) = 0 /\ Held(s) = 0 /\ ~EndIn(s)
  BY <1>1, IdleFacts
<1>5. Coming(s)' = 0 /\ ~EndComing(s)' /\ BytesIn(q[s])' = 0 /\ Held(s)' = 0 /\ ~EndIn(s)'
  BY <1>1, <1>4 DEF Coming, EndComing, BytesIn, Held, EndIn
<1>6. StreamOK(s)'
  <2>1. EntryOK(me.e[s])'
    BY <1>2, <1>3 DEF EntryOK
  <2>2. IdleOK(s)'
    BY <1>2, <1>3 DEF IdleOK
  <2>3. ReaderOK(s)'
    BY <1>1, <1>4 DEF ReaderOK, Reading
  <2>4. DoubtOK(s)'
    BY <1>2, <1>3 DEF DoubtOK
  <2>5. WholeSoFar(s)'
    <3>1. rd'[s] = Reading /\ me'.e[s].total = 0
      BY <1>1, <1>2, <1>3, <1>4
    <3>2. rd'[s].pc # "over" /\ rd'[s].got = 0
      BY <3>1 DEF Reading
    <3>3. me'.e[s].total = rd'[s].got + BytesIn(q[s])' + Coming(s)'
      BY <1>5, <3>1, <3>2
    <3>4. ~EndIn(s)' /\ ~EndComing(s)'
      BY <1>5
    <3> QED BY <3>2, <3>3, <3>4, Zenon DEF WholeSoFar
  <2>9. EofInQueue(s)'
    <3>1. DOMAIN q'[s] = {}
      BY <1>1, <1>4
    <3> QED BY <3>1 DEF EofInQueue
  <2>6. EofOnItsWay(s)'
    <3>1. \A i \in DOMAIN pump'.push : pump'.push[i].on # s
      BY <1>1, <1>4
    <3> QED BY <3>1 DEF EofOnItsWay
  <2>7. Told(s)' /\ ToldBefore(s)'
    BY <1>2, <1>3 DEF Told, ToldBefore
  <2>8. OwesOK(s)'
    <3>1. FlowOK(me.e[s], me.init)'
      BY <1>2, <1>3 DEF Local, FlowOK, Tight
    <3> QED BY <1>2, <1>3, <1>5, <3>1 DEF OwesOK
  <2> QED BY <2>1, <2>2, <2>3, <2>4, <2>5, <2>6, <2>7, <2>8, <2>9 DEF StreamOK
<1>7. RecvTyped'
  BY <1>1, TypedSame DEF RecvInv, RecvTyped
<1>8. PumpOK'
  <2>1. pump.err # "over"
    BY <1>1 DEF RecvInv, PumpOK
  <2> QED BY <1>1, <2>1, PumpSame DEF RecvInv
<1>9. Running' => Balanced(me')
  BY <1>1, <1>2 DEF RecvInv, Running, Up, Local
<1> QED BY <1>1, <1>2, <1>6, <1>7, <1>8, <1>9, OneStream

\* recv_headers opening a request.
LEMMA RecvRequestStep ==
    ASSUME RecvInv, NEW s \in Streams, RecvRequest(s), scene' = scene
    PROVE  RecvInv'
<1>1. PICK end \in BOOLEAN, bad \in BOOLEAN :
        Verdict(NewEntry(me, s, IF end THEN "ended" ELSE "streaming", ~bad),
                IF end /\ ~bad THEN <<[on |-> s, item |-> EndOfBody]>> ELSE <<>>,
                IF bad THEN "stream" ELSE "none", s)
  BY DEF RecvRequest
<1> DEFINE r == IF end THEN "ended" ELSE "streaming"
           m == NewEntry(me, s, r, ~bad)
           push == IF end /\ ~bad THEN <<To(s, EndOfBody)>> ELSE <<>>
           err == IF bad THEN "stream" ELSE "none"
           y == Fresh(me.init, r, ~bad)
<1>2. PumpIdle /\ pump = IdlePump /\ me.e[s].recv = "idle" /\ RecvTyped
  BY Consts DEF RecvRequest, PumpIdle, RecvInv
<1>3. Verdict(m, push, err, s)
  BY <1>1 DEF To
<1>4. r \in {"head", "streaming", "ended"} /\ r # "head" /\ (r = "ended" <=> end) /\ err \in {"none", "stream", "conn"}
  OBVIOUS
<1> HIDE DEF m
<1>5. /\ Local(me, m, s) /\ (Balanced(me) => Balanced(m)) /\ m.e[s] = y /\ me.init \in Nat
  BY <1>2, <1>4, NewEntryLocal DEF m
<1> HIDE DEF r
<1>6. /\ y \in Entries /\ EntryOK(y) /\ y.stored /\ y.recv = r /\ y.cause = "none" /\ ~y.fin
      /\ y.unrel = 0 /\ y.total = 0 /\ (y.app <=> ~bad) /\ ~y.spoiled /\ FlowOK(y, me.init)
  <2>1. PICK told \in BOOLEAN : told <=> ~bad
    OBVIOUS
  <2>2. y = Fresh(me.init, r, told)
    BY <2>1
  <2> HIDE DEF y
  <2>3. /\ y \in Entries /\ EntryOK(y) /\ y.stored /\ y.recv = r /\ y.cause = "none" /\ ~y.fin
        /\ y.unrel = 0 /\ y.total = 0 /\ (y.app <=> told) /\ ~y.spoiled /\ FlowOK(y, me.init)
    BY <1>4, <1>5, <2>2, FreshFacts
  <2> QED BY <2>1, <2>3
<1> HIDE DEF y
<1>7. /\ me' = m /\ q' = q /\ rd' = rd /\ pump'.push = push /\ pump'.err = err
      /\ IF push = <<>> /\ err = "none" THEN pump'.on = NoStream ELSE pump'.on = s
  BY <1>3, VerdictPump
<1>8. /\ me.e[s] = NoEntry /\ q[s] = <<>> /\ rd[s] = Reading
      /\ BytesIn(q[s]) = 0 /\ Held(s) = 0 /\ ~EndIn(s)
  BY <1>2, IdleFacts
<1>9. Items \subseteq ItemTypes /\ EndOfBody \in Items
  BY <1>2, ItemsTyped
<1>10. Coming(s)' = 0 /\ (EndComing(s)' <=> end /\ ~bad)
  <2>1. CASE end /\ ~bad
    <3>1. Coming(s)' = EndOfBody.len /\ EndComing(s)'
      BY <1>7, <1>9, <2>1, ShapeComing DEF EndOfBody
    <3> QED BY <2>1, <3>1 DEF EndOfBody
  <2>2. CASE ~(end /\ ~bad)
    BY <1>7, <1>9, <2>2, ShapeComing
  <2> QED BY <2>1, <2>2
<1>11. BytesIn(q[s])' = 0 /\ Held(s)' = 0
  BY <1>7, <1>8 DEF BytesIn, Held
<1>12. bad => Doubtful(s)'
  BY <1>7 DEF Doubtful
<1>13. DoubtOK(s)'
  BY <1>5, <1>6, <1>7, <1>12 DEF DoubtOK
<1>14. OwesOK(s)'
  <2>1. FlowOK(me.e[s], me.init)'
    BY <1>5, <1>6, <1>7 DEF Local, FlowOK, Tight
  <2> QED BY <1>5, <1>6, <1>7, <1>10, <1>11, <2>1 DEF OwesOK
<1>15. StreamOK(s)'
  <2>1. PICK x : x = me.e[s]
    OBVIOUS
  <2>2. x.recv = "idle" /\ x.total = 0
    BY <1>2, <1>8, <2>1 DEF NoEntry
  <2>3. y = me'.e[s] /\ y.recv # "idle"
    BY <1>4, <1>5, <1>6, <1>7
  <2>4. Flows(y) /\ pump'.err # "conn" =>
              /\ Flows(x) \/ x.recv = "idle"
              /\ ~EndComing(s)'
              /\ y.total = x.total + Coming(s)'
    BY <1>4, <1>6, <1>10, <2>2 DEF Flows
  <2>5. \A i \in DOMAIN pump'.push :
              pump'.push[i].on = s /\ pump'.push[i].item.kind = "eof" /\ rd[s].pc # "over" /\ ~EndIn(s) =>
                 y.recv = "ended" /\ y.total = rd[s].got + BytesIn(q[s]) + Coming(s)'
    <3>1. rd[s].got = 0
      BY <1>8 DEF Reading
    <3>2. CASE end /\ ~bad
      BY <1>4, <1>6, <1>8, <1>10, <3>1, <3>2
    <3>3. CASE ~(end /\ ~bad)
      BY <1>7, <3>3
    <3> QED BY <3>2, <3>3
  <2>6. y.app /\ ~y.spoiled /\ (y.fin \/ y.recv = "ended") =>
              \/ x.app /\ ~x.spoiled /\ (x.fin \/ x.recv = "ended")
              \/ EndComing(s)'
    BY <1>4, <1>6, <1>10
  <2>7. y.cause = "after" => x.cause = "after" \/ EndIn(s) \/ rd[s].pc = "over"
    BY <1>6
  <2>8. x.recv = "ended" => y.recv = "ended" /\ y.total = x.total
    BY <2>2
  <2> QED BY <1>2, <1>6, <1>7, <1>13, <1>14, <2>1, <2>3, <2>4, <2>5, <2>6, <2>7, <2>8, FromIdle
<1>16. Running' => Balanced(m)
  BY <1>2, <1>5, <1>7, IdlePumpFacts DEF RecvInv, Running, Up, Local
<1>17. Shape(s, push) /\ (push # <<>> => err = "none")
  BY <1>9 DEF Shape, EndOfBody
<1> HIDE DEF push, err
<1> QED BY <1>2, <1>3, <1>4, <1>5, <1>15, <1>16, <1>17, VerdictStep

-----------------------------------------------------------------------------
(* Frames of a stream that exists.                                           *)

\* Operators keep the books.
LEMMA KeptLocal ==
    ASSUME RecvInv, NEW s \in Streams, NEW m, Kept(me, m, s), me' = m,
           pump'.err # "conn" => pump.err # "conn"
    PROVE  Local(me, m, s) /\ (Running' => Running) /\ (Running' => Balanced(m)) /\ me'.init = me.init
<1>1. Steady(me, m, s) /\ (Balanced(me) => Balanced(m))
  BY DEF Kept
<1>2. Local(me, m, s)
  BY <1>1, SteadyLocal
<1>3. Running' => Running
  BY <1>2 DEF Running, Up, Local
<1> QED BY <1>1, <1>2, <1>3 DEF RecvInv, Local

\* A frame that leaves the entry as it was.
LEMMA NothingStep ==
    ASSUME RecvInv, NEW s \in Streams, PumpIdle, scene' = scene, NEW m, Kept(me, m, s),
           m.e[s] = me.e[s], NEW err \in {"none", "stream", "conn"}, Verdict(m, <<>>, err, s),
           err = "stream" => me.e[s].recv # "idle"
    PROVE  RecvInv'
<1>1. pump = IdlePump /\ RecvTyped
  BY DEF PumpIdle, RecvInv
<1>2. pump.err = "none"
  BY <1>1, IdlePumpFacts
<1>3. me' = m /\ q' = q /\ rd' = rd /\ pump'.push = <<>> /\ pump'.err = err
  BY VerdictPump
<1>4. Local(me, m, s) /\ (Running' => Running) /\ (Running' => Balanced(m)) /\ me'.init = me.init
  BY <1>2, <1>3, KeptLocal
<1>5. StreamOK(s)'
  BY <1>1, <1>3, <1>4, SameEntry
<1>6. Shape(s, <<>>) /\ (<<>> # <<>> => err = "none")
  BY DEF Shape
<1> QED BY <1>4, <1>5, <1>6, VerdictStep

\* ... or has nothing to do with it.
LEMMA KeptSelf ==
    ASSUME RecvInv, NEW s \in Streams
    PROVE  Kept(me, me, s)
BY DEF Kept, Steady, RecvInv, MeOK

\* A frame that drops what is left of a stream that is over.
LEMMA DropStep ==
    ASSUME RecvInv, NEW s \in Streams, PumpIdle, scene' = scene, NEW m, Kept(me, m, s),
           me.e[s].recv # "idle", me.e[s].stored => me.e[s].cause # "none",
           m.e[s] = DroppedEntry(me.e[s]),
           NEW err \in {"none", "stream", "conn"}, Verdict(m, <<>>, err, s)
    PROVE  RecvInv'
<1> DEFINE x == me.e[s]
           y == DroppedEntry(x)
<1>1. pump = IdlePump /\ RecvTyped
  BY DEF PumpIdle, RecvInv
<1>2. x \in Entries /\ EntryOK(x) /\ (x.stored /\ ~x.fin => x.cause = "none")
  BY <1>1, EntryIdle
<1>3. CASE ~x.stored
  <2>1. y = x
    BY <1>2, <1>3, DroppedFacts
  <2> QED BY <2>1, NothingStep
<1>4. CASE x.stored
  <2>1. /\ y \in Entries /\ SameBody(x, y) /\ y.cause = x.cause /\ Gone(y) /\ x.fin
    BY <1>2, <1>4, DroppedFacts
  <2>2. pump.err = "none"
    BY <1>1, IdlePumpFacts
  <2>3. me' = m /\ q' = q /\ rd' = rd /\ pump'.push = <<>> /\ pump'.err = err
    BY VerdictPump
  <2>4. Local(me, m, s) /\ (Running' => Running) /\ (Running' => Balanced(m)) /\ me'.init = me.init
    BY <2>2, <2>3, KeptLocal
  <2>5. x = me.e[s] /\ y = me'.e[s]
    BY <2>3
  <2> HIDE DEF x, y
  <2>6. EntryOK(y) /\ y.recv # "idle"
    BY <1>2, <2>1, <2>5 DEF EntryOK, Gone, SameBody
  <2>7. DoubtOK(s)' /\ OwesOK(s)' /\ ~Flows(y)
    BY <2>1, <2>5 DEF Gone, DoubtOK, OwesOK, Flows
  <2>8. StreamOK(s)'
    BY <1>1, <2>1, <2>3, <2>5, <2>6, <2>7, QuietEntry
  <2>9. Shape(s, <<>>) /\ (<<>> # <<>> => err = "none")
    BY DEF Shape
  <2> QED BY <2>4, <2>8, <2>9, VerdictStep
<1> QED BY <1>3, <1>4

\* A malformed header block.
LEMMA MalformedFrameStep ==
    ASSUME RecvInv, NEW s \in Streams, MalformedFrame(s), scene' = scene
    PROVE  RecvInv'
<1>1. PumpIdle /\ me.e[s].recv # "idle" /\ Verdict(me, <<>>, "stream", s)
  BY DEF MalformedFrame
<1>2. Kept(me, me, s)
  BY KeptSelf
<1> QED BY <1>1, <1>2, NothingStep

\* recv_reset: the reader is told, unless the message had stood.
LEMMA RecvResetStep ==
    ASSUME RecvInv, NEW s \in Streams, RecvReset(s), scene' = scene
    PROVE  RecvInv'
<1> DEFINE x == me.e[s]
<1>1. PumpIdle /\ pump = IdlePump /\ RecvTyped /\ Kept(me, me, s)
  BY KeptSelf DEF RecvReset, PumpIdle, RecvInv
<1>2. /\ x \in Entries /\ EntryOK(x) /\ StreamOK(s) /\ me \in MeTypes
      /\ x.stored /\ ~x.fin => x.recv # "idle" /\ x.cause = "none" /\ ~x.spoiled /\ x.app
  BY <1>1, EntryIdle
<1>3. CASE ~x.stored
  <2>1. PICK err \in {"none", "conn"} : Verdict(me, <<>>, err, s)
    BY <1>3 DEF RecvReset
  <2> QED BY <1>1, <2>1, NothingStep
<1>4. CASE x.stored /\ x.fin
  <2>1. Verdict(me, <<>>, "none", s)
    BY <1>4 DEF RecvReset
  <2> QED BY <1>1, <2>1, NothingStep
<1>5. CASE x.stored /\ ~x.fin
  <2> DEFINE ended == RecvEnded(me, s)
             cause == IF ended THEN "after" ELSE "remote"
             z == [x EXCEPT !.cause = cause]
             n == [me EXCEPT !.e[s] = z]
             m == DropClosed(n, s)
             y == DroppedEntry(z)
             push == IF ended THEN <<>> ELSE <<To(s, Stopped)>>
  <2>1. Verdict(m, push, "none", s)
    <3>1. [me EXCEPT !.e[s].cause = cause] = n
      BY <1>2, MeFields DEF MeTypes
    <3> QED BY <1>5, <3>1 DEF RecvReset, To
  <2>2. ended <=> x.recv = "ended"
    BY <1>2, <1>5 DEF RecvEnded
  <2>3. cause \in {"after", "remote"} /\ (cause = "after" <=> x.recv = "ended")
    BY <2>2
  <2> HIDE DEF cause
  <2>4. /\ z \in Entries /\ z.stored = x.stored /\ z.fin = x.fin /\ z.cause = cause
        /\ SameBody(x, z) /\ Owes(z) = Owes(x) /\ Pays(z) = Pays(x)
    BY <1>2, <2>3 DEF Entries, SameBody, Owes, Pays
  <2> HIDE DEF z
  <2>5. Kept(me, n, s) /\ n.e[s] = z
    BY <1>2, <2>4, KeptPut
  <2> HIDE DEF n
  <2>6. n \in MeTypes
    BY <2>5 DEF Kept, Steady
  <2>7. Kept(n, m, s) /\ m.e[s] = y
    BY <2>5, <2>6, DropClosedKept
  <2> HIDE DEF m
  <2>8. Kept(me, m, s)
    BY <2>5, <2>7, KeptTwice
  <2>9. y \in Entries /\ SameBody(z, y) /\ y.cause = cause /\ Gone(y)
    BY <1>5, <2>3, <2>4, DroppedFacts
  <2> HIDE DEF y
  <2>10. me' = m /\ q' = q /\ rd' = rd /\ pump'.push = push /\ pump'.err = "none"
    BY <2>1, VerdictPump
  <2>11. pump.err = "none" /\ ~EndComing(s)
    BY <1>1, IdlePumpFacts
  <2>12. Local(me, m, s) /\ (Running' => Balanced(m))
    BY <2>8, <2>10, <2>11, KeptLocal
  <2>13. EndComing(s)' <=> ~ended
    <3>1. Items \subseteq ItemTypes /\ Stopped \in Items
      BY <1>1, ItemsTyped
    <3>2. CASE ended
      BY <2>10, <3>1, <3>2, ShapeComing
    <3>3. CASE ~ended
      <4>1. EndComing(s)' <=> Stopped.kind # "chunk"
        BY <2>10, <3>1, <3>3, ShapeComing
      <4> QED BY <3>3, <4>1 DEF Stopped
    <3> QED BY <3>2, <3>3
  <2>14. Shape(s, push) /\ (push # <<>> => "none" = "none")
    <3>1. Stopped \in Items
      BY <1>1, ItemsTyped
    <3> QED BY <3>1 DEF Shape
  <2>15. \A i \in DOMAIN pump'.push : pump'.push[i].item.kind # "eof"
    <3>1. CASE ended
      BY <2>10, <3>1
    <3>2. CASE ~ended
      <4>1. DOMAIN pump'.push = {1} /\ pump'.push[1].item = Stopped
        BY <2>10, <3>2 DEF To
      <4> QED BY <4>1 DEF Stopped
    <3> QED BY <3>1, <3>2
  <2> HIDE DEF push, ended
  <2>16. SameBody(x, y)
    BY <2>4, <2>9 DEF SameBody
  <2>17. EntryOK(y) /\ y.recv # "idle"
    BY <1>2, <1>5, <2>3, <2>9, <2>16 DEF EntryOK, Gone, SameBody
  <2>18. y = me'.e[s]
    BY <2>7, <2>10
  <2>19. DoubtOK(s)' /\ OwesOK(s)' /\ ~Flows(y)
    BY <2>9, <2>18 DEF Gone, DoubtOK, OwesOK, Flows
  <2>20. x.recv = "ended" => EndIn(s) \/ rd[s].pc = "over"
    BY <1>2, <1>5, <2>11 DEF StreamOK, Told
  <2>21. PICK w : w = x
    OBVIOUS
  <2>22. y.cause = "after" => w.cause = "after" \/ EndIn(s) \/ rd[s].pc = "over"
    BY <2>3, <2>9, <2>20
  <2>23. y.app /\ ~y.spoiled /\ (y.fin \/ y.recv = "ended") =>
              \/ w.app /\ ~w.spoiled /\ (w.fin \/ w.recv = "ended")
              \/ EndComing(s)'
    BY <2>2, <2>13, <2>16, <2>21 DEF SameBody
  <2>24. w.recv = "ended" => y.recv = "ended" /\ y.total = w.total
    BY <2>16, <2>21 DEF SameBody
  <2>25. StreamOK(s)'
    BY <1>1, <2>10, <2>15, <2>17, <2>18, <2>19, <2>21, <2>22, <2>23, <2>24, FromIdle
  <2> QED BY <1>1, <2>1, <2>12, <2>14, <2>25, VerdictStep
<1> QED BY <1>3, <1>4, <1>5

\* What is known of a stream that flows, when the pump waits.
LEMMA FlowingFacts ==
    ASSUME RecvInv, NEW s \in Streams, pump = IdlePump, NEW x, x = me.e[s], Flows(x)
    PROVE  /\ x \in Entries /\ EntryOK(x) /\ x.stored /\ ~x.fin /\ x.cause = "none" /\ ~x.spoiled /\ x.app
           /\ x.recv # "idle" /\ x.recv # "ended"
           /\ ~EndIn(s) /\ rd[s].pc # "over" /\ x.total = rd[s].got + BytesIn(q[s])
           /\ rd[s].got \in Nat /\ BytesIn(q[s]) \in Nat
           /\ Running /\ ~x.reclaimed => x.unrel = BytesIn(q[s]) + Held(s)
           /\ Running => FlowOK(x, me.init)
           /\ RecvTyped /\ pump.err = "none" /\ Held(s) \in Nat
<1>1. RecvTyped /\ StreamOK(s) /\ x \in Entries /\ EntryOK(x) /\ x.stored /\ x.cause = "none"
  BY EntryIdle DEF Flows
<1>2. Coming(s) = 0 /\ ~EndComing(s) /\ pump.err = "none" /\ ~Doubtful(s)
  BY <1>1, IdlePumpFacts
<1>3. ~x.fin
  BY <1>1 DEF EntryOK
<1>4. ~x.spoiled /\ x.app
  BY <1>1, <1>3, EntryIdle
<1>5. ~EndIn(s) /\ rd[s].pc # "over" /\ x.total = rd[s].got + BytesIn(q[s]) + Coming(s)
  BY <1>1, <1>2 DEF StreamOK, WholeSoFar
<1>6. rd[s].got \in Nat /\ BytesIn(q[s]) \in Nat
  BY <1>1, ItemsTyped, BytesNat
<1>7. x.total = rd[s].got + BytesIn(q[s])
  BY <1>2, <1>5, <1>6
<1>8. Held(s) \in Nat
  BY <1>1, ItemsTyped DEF Held
<1>9. OwesOK(s)
  BY <1>1 DEF StreamOK
<1>10. Running /\ ~x.reclaimed => x.unrel = BytesIn(q[s]) + Coming(s) + Held(s)
  BY <1>1, <1>9 DEF OwesOK
<1>11. Running /\ ~x.reclaimed => x.unrel = BytesIn(q[s]) + Held(s)
  BY <1>2, <1>6, <1>8, <1>10
<1>12. Running => FlowOK(x, me.init)
  BY <1>1, <1>2, <1>9 DEF OwesOK
<1>13. x.recv # "idle" /\ x.recv # "ended"
  BY DEF Flows
<1> QED BY <1>1, <1>2, <1>3, <1>4, <1>5, <1>6, <1>7, <1>8, <1>11, <1>12, <1>13

\* A frame after which the pump resets the stream.
LEMMA SpoiltStep ==
    ASSUME RecvInv, NEW s \in Streams, PumpIdle, scene' = scene, NEW m, Kept(me, m, s),
           Verdict(m, <<>>, "stream", s),
           NEW x, NEW y, x = me.e[s], y = m.e[s], Flows(x), EntryOK(y), y.stored, ~y.fin,
           y.total = x.total, y.unrel = x.unrel, y.reclaimed = x.reclaimed, y.recv # "idle",
           y.recv = "ended" => y.spoiled, y.cause # "none" => y.spoiled,
           y.cause # "after"
    PROVE  RecvInv'
<1>1. pump = IdlePump
  BY DEF PumpIdle
<1>2. /\ x \in Entries /\ ~EndIn(s) /\ rd[s].pc # "over" /\ x.recv # "ended"
      /\ BytesIn(q[s]) \in Nat /\ Held(s) \in Nat
      /\ Running /\ ~x.reclaimed => x.unrel = BytesIn(q[s]) + Held(s)
      /\ RecvTyped /\ pump.err = "none"
  BY <1>1, FlowingFacts
<1>3. me' = m /\ q' = q /\ rd' = rd /\ pump'.push = <<>> /\ pump'.err = "stream" /\ pump'.on = s
  BY VerdictPump
<1>4. Local(me, m, s) /\ (Running' => Running) /\ (Running' => Balanced(m)) /\ me'.init = me.init
  BY <1>2, <1>3, KeptLocal
<1>5. Coming(s)' = 0 /\ ~EndComing(s)' /\ Doubtful(s)'
  BY <1>2, <1>3, ItemsTyped, ShapeComing DEF Doubtful
<1>6. y = me'.e[s]
  BY <1>3
<1>7. DoubtOK(s)'
  BY <1>5, <1>6 DEF DoubtOK
<1>8. OwesOK(s)'
  <2>1. BytesIn(q[s])' = BytesIn(q[s]) /\ Held(s)' = Held(s)
    BY <1>3 DEF BytesIn, Held
  <2>2. Running' /\ ~y.reclaimed => y.unrel = BytesIn(q[s])' + Coming(s)' + Held(s)'
    BY <1>2, <1>4, <1>5, <2>1
  <2> QED BY <1>5, <1>6, <2>2 DEF OwesOK
<1>9. x.total \in Nat
  BY <1>2, EntryFields
<1>10. Flows(y) /\ pump'.err # "conn" =>
              /\ Flows(x) \/ x.recv = "idle"
              /\ ~EndComing(s)'
              /\ y.total = x.total + Coming(s)'
  BY <1>5, <1>9
<1>11. \A i \in DOMAIN pump'.push : FALSE
  BY <1>3
<1>13. ~(y.app /\ ~y.spoiled /\ (y.fin \/ y.recv = "ended"))
  OBVIOUS
<1>14. StreamOK(s)'
  BY <1>1, <1>2, <1>3, <1>6, <1>7, <1>8, <1>10, <1>11, <1>13, FromIdle
<1>15. Shape(s, <<>>) /\ (<<>> # <<>> => "stream" = "none")
  BY DEF Shape
<1> QED BY <1>4, <1>14, <1>15, VerdictStep

\* A frame after which the stream flows on.
LEMMA FlowStep ==
    ASSUME RecvInv, NEW s \in Streams, PumpIdle, scene' = scene, NEW m, Kept(me, m, s),
           NEW push, Verdict(m, push, "none", s), Shape(s, push), ~EndComing(s)',
           NEW x, NEW y, x = me.e[s], y = m.e[s], Flows(x), EntryOK(y), y.stored, ~y.fin,
           y.cause = "none", y.recv = "streaming", ~y.spoiled, y.app,
           y.total = x.total + Coming(s)',
           Coming(s)' \in Nat, x.unrel \in Nat,
           ~y.reclaimed => ~x.reclaimed /\ y.unrel = x.unrel + Coming(s)',
           FlowOK(x, me.init) => FlowOK(y, me.init)
    PROVE  RecvInv'
<1>1. pump = IdlePump
  BY DEF PumpIdle
<1>2. /\ x \in Entries /\ ~EndIn(s) /\ rd[s].pc # "over" /\ x.recv # "ended"
      /\ BytesIn(q[s]) \in Nat /\ Held(s) \in Nat
      /\ Running /\ ~x.reclaimed => x.unrel = BytesIn(q[s]) + Held(s)
      /\ Running => FlowOK(x, me.init)
      /\ RecvTyped /\ pump.err = "none"
  BY <1>1, FlowingFacts
<1>3. me' = m /\ q' = q /\ rd' = rd /\ pump'.push = push /\ pump'.err = "none"
  BY VerdictPump
<1>4. Local(me, m, s) /\ (Running' => Running) /\ (Running' => Balanced(m)) /\ me'.init = me.init
  BY <1>2, <1>3, KeptLocal
<1>6. y = me'.e[s]
  BY <1>3
<1>7. DoubtOK(s)'
  BY <1>6 DEF DoubtOK
<1>8. OwesOK(s)'
  <2>1. BytesIn(q[s])' = BytesIn(q[s]) /\ Held(s)' = Held(s)
    BY <1>3 DEF BytesIn, Held
  <2>2. Running' /\ ~y.reclaimed => y.unrel = BytesIn(q[s])' + Coming(s)' + Held(s)'
    BY <1>2, <1>4, <2>1
  <2>3. Running' => FlowOK(me.e[s], me.init)'
    <3>1. Running' => FlowOK(y, me.init)
      BY <1>2, <1>4
    <3> QED BY <1>4, <1>6, <3>1 DEF FlowOK, Tight
  <2> QED BY <1>6, <2>2, <2>3 DEF OwesOK
<1>10. Flows(y) /\ pump'.err # "conn" =>
              /\ Flows(x) \/ x.recv = "idle"
              /\ ~EndComing(s)'
              /\ y.total = x.total + Coming(s)'
  OBVIOUS
<1>11. \A i \in DOMAIN pump'.push : ~(pump'.push[i].on = s /\ pump'.push[i].item.kind = "eof")
  BY DEF EndComing
<1>12. y.cause # "after" /\ y.recv # "ended" /\ y.recv # "idle"
  OBVIOUS
<1>14. StreamOK(s)'
  BY <1>1, <1>2, <1>3, <1>6, <1>7, <1>8, <1>10, <1>11, <1>12, FromIdle
<1> QED BY <1>3, <1>4, <1>14, VerdictStep

\* The receiving half ends.
EndedEntry(x) == [x EXCEPT !.recv = "ended", !.cause = IF x.sent THEN "end" ELSE x.cause]

\* ... and the books are kept.
LEMMA EndRecvKept ==
    ASSUME NEW m \in MeTypes, NEW s \in Streams
    PROVE  /\ Kept(m, EndRecv(m, s), s) /\ EndRecv(m, s).e[s] = EndedEntry(m.e[s])
           /\ Kept(m, CloseStream(EndRecv(m, s), s), s)
           /\ CloseStream(EndRecv(m, s), s).e[s] = ClosedEntry(EndedEntry(m.e[s]))
           /\ EndedEntry(m.e[s]) \in Entries
<1> DEFINE x == m.e[s]
           y == EndedEntry(x)
           n == EndRecv(m, s)
<1>1. x \in Entries /\ m.e \in [Streams -> Entries]
  BY MeFields
<1>2. /\ y \in Entries /\ Owes(y) = Owes(x) /\ Pays(y) = Pays(x)
      /\ (y.stored /\ ~y.fin <=> x.stored /\ ~x.fin)
  BY <1>1 DEF EndedEntry, Entries, Owes, Pays
<1>3. n = [m EXCEPT !.e[s] = y]
  <2> DEFINE a == [m.e EXCEPT ![s].recv = "ended"]
             c == IF m.e[s].sent THEN "end" ELSE m.e[s].cause
  <2>1. a[s].cause = m.e[s].cause
    BY <1>1 DEF Entries
  <2>2. [a EXCEPT ![s].cause = c] = [m.e EXCEPT ![s] = y]
    BY <1>1 DEF EndedEntry
  <2>3. n = [m EXCEPT !.e = [a EXCEPT ![s].cause = c]]
    BY <1>1, <2>1 DEF EndRecv, MeTypes, Entries
  <2> QED BY <2>2, <2>3
<1> HIDE DEF y, n
<1>4. Kept(m, n, s) /\ n.e[s] = y
  BY <1>2, <1>3, KeptPut
<1>5. n \in MeTypes
  BY <1>4 DEF Kept, Steady
<1>6. Kept(n, CloseStream(n, s), s) /\ CloseStream(n, s).e[s] = ClosedEntry(y)
  BY <1>4, <1>5, CloseStreamKept
<1>7. Kept(m, CloseStream(n, s), s)
  BY <1>4, <1>6, KeptTwice
<1> QED BY <1>2, <1>4, <1>6, <1>7 DEF n, y

\* A frame that ends the message: its end is on its way, after the rest of it.
LEMMA EndStep ==
    ASSUME RecvInv, NEW s \in Streams, PumpIdle, scene' = scene, NEW p, Kept(me, p, s),
           NEW push, Verdict(CloseStream(EndRecv(p, s), s), push, "none", s), Shape(s, push),
           EndComing(s)',
           NEW x, NEW w, x = me.e[s], w = p.e[s], Flows(x), EntryOK(w), w.stored, ~w.fin,
           w.cause = "none", ~w.spoiled, w.app, w.total = x.total + Coming(s)',
           Coming(s)' \in Nat, x.unrel \in Nat,
           ~w.reclaimed => ~x.reclaimed /\ w.unrel = x.unrel + Coming(s)'
    PROVE  RecvInv'
<1> DEFINE m == CloseStream(EndRecv(p, s), s)
           z == EndedEntry(w)
           y == ClosedEntry(z)
<1>0. pump = IdlePump /\ p \in MeTypes
  BY DEF PumpIdle, Kept, Steady
<1>1. w \in Entries
  BY <1>0, MeFields
<1>2. /\ x \in Entries /\ ~EndIn(s) /\ rd[s].pc # "over" /\ x.recv # "ended" /\ x.app /\ ~x.spoiled
      /\ BytesIn(q[s]) \in Nat /\ Held(s) \in Nat /\ rd[s].got \in Nat
      /\ x.total = rd[s].got + BytesIn(q[s])
      /\ Running /\ ~x.reclaimed => x.unrel = BytesIn(q[s]) + Held(s)
      /\ RecvTyped /\ pump.err = "none"
  BY <1>0, FlowingFacts
<1>3. me' = m /\ q' = q /\ rd' = rd /\ pump'.push = push /\ pump'.err = "none"
  BY VerdictPump
<1>4. Kept(p, m, s) /\ m.e[s] = y /\ z \in Entries
  BY <1>0, EndRecvKept
<1>5. Kept(me, m, s)
  BY <1>4, KeptTwice
<1> HIDE DEF m
<1>6. Local(me, m, s) /\ (Running' => Running) /\ (Running' => Balanced(m)) /\ me'.init = me.init
  BY <1>2, <1>3, <1>5, KeptLocal
<1>7. /\ z.recv = "ended" /\ z.total = w.total /\ z.app = w.app /\ z.spoiled = w.spoiled
      /\ z.stored = w.stored /\ z.fin = w.fin /\ z.unrel = w.unrel /\ z.reclaimed = w.reclaimed
      /\ z.charged = w.charged /\ z.cause \in {"none", "end"}
  BY <1>1 DEF EndedEntry, Entries
<1> HIDE DEF z
<1>8. /\ y \in Entries /\ SameBody(z, y)
      /\ y.cause = z.cause /\ y.unrel = z.unrel /\ y.reclaimed = z.reclaimed /\ y.charged = z.charged
      /\ z.cause = "none" => y = z
      /\ z.cause # "none" => y.fin /\ (y.stored <=> z.unrel > 0 \/ z.charged > 0)
  BY <1>4, <1>7, ClosedFacts
<1> HIDE DEF y
<1>9. /\ y.recv = "ended" /\ y.total = w.total /\ y.app /\ ~y.spoiled
  BY <1>7, <1>8 DEF SameBody
<1>10. EntryOK(y)
  <2>1. z.unrel \in Nat /\ z.charged \in Nat
    BY <1>4, EntryFields
  <2>2. CASE z.cause = "none"
    BY <1>7, <1>8, <1>9, <2>2 DEF EntryOK
  <2>3. CASE z.cause # "none"
    BY <1>7, <1>8, <1>9, <2>1, <2>3 DEF EntryOK
  <2> QED BY <2>2, <2>3
<1>11. y = me'.e[s]
  BY <1>3, <1>4
<1>12. DoubtOK(s)'
  <2>1. y.stored /\ ~y.fin => y.cause = "none"
    BY <1>8
  <2> QED BY <1>9, <1>11, <2>1 DEF DoubtOK
<1>13. OwesOK(s)'
  <2>1. BytesIn(q[s])' = BytesIn(q[s]) /\ Held(s)' = Held(s)
    BY <1>3 DEF BytesIn, Held
  <2>2. Running' /\ ~y.reclaimed => y.unrel = BytesIn(q[s])' + Coming(s)' + Held(s)'
    BY <1>2, <1>6, <1>7, <1>8, <2>1
  <2> QED BY <1>9, <1>11, <2>2 DEF OwesOK, Flows
<1>14. y.total = rd[s].got + BytesIn(q[s]) + Coming(s)'
  BY <1>2, <1>9
<1>15. ~Flows(y) /\ y.cause # "after" /\ y.recv # "idle"
  BY <1>7, <1>8, <1>9 DEF Flows
<1>16. StreamOK(s)'
  BY <1>0, <1>2, <1>3, <1>9, <1>10, <1>11, <1>12, <1>13, <1>14, <1>15, FromIdle
<1> QED BY <1>3, <1>6, <1>16, VerdictStep DEF m

\* recv_lookup.
LEMMA LookupFacts ==
    ASSUME RecvInv, NEW s \in Streams
    PROVE  /\ Lookup(me, s) \in {"ignore", "closed", "live", "idle"}
           /\ Lookup(me, s) = "live" => me.e[s].stored /\ me.e[s].cause = "none"
           /\ Lookup(me, s) = "closed" =>
                me.e[s].recv # "idle" /\ (me.e[s].stored => me.e[s].cause # "none")
<1>1. EntryOK(me.e[s]) /\ (me.e[s].stored => me.e[s].recv # "idle")
  BY EntryIdle
<1> QED BY <1>1 DEF Lookup, Closed

\* recv_headers of a stream that exists.
LEMMA RecvHeadersStep ==
    ASSUME RecvInv, NEW s \in Streams, RecvHeaders(s), scene' = scene
    PROVE  RecvInv'
<1> DEFINE x == me.e[s]
           eof == <<[on |-> s, item |-> EndOfBody]>>
           opened(end) == IF end THEN EndRecv(me, s) ELSE [me EXCEPT !.e[s].recv = "streaming"]
<1>1. PumpIdle /\ pump = IdlePump /\ Kept(me, me, s)
  BY KeptSelf DEF RecvHeaders, PumpIdle
<1>2. PICK end \in BOOLEAN, bad \in {FALSE} \cup {b \in {TRUE} : "bad" \in scene.env} :
         LET first == <<[on |-> s, item |-> EndOfBody]>>
             spoilt(m) == [m EXCEPT !.e[s].spoiled = end]
             open == IF end THEN EndRecv(me, s) ELSE [me EXCEPT !.e[s].recv = "streaming"]
         IN  CASE Lookup(me, s) = "ignore" -> Verdict(me, <<>>, "none", s)
               [] Lookup(me, s) = "idle" -> Verdict(me, <<>>, "conn", s)
               [] Lookup(me, s) = "closed" ->
                    Verdict(DropClosed(me, s), <<>>,
                            IF scene.role = "client" THEN "stream" ELSE "conn", s)
               [] Lookup(me, s) = "live" /\ me.e[s].recv = "head" ->
                    IF bad THEN Verdict(spoilt(open), <<>>, "stream", s)
                    ELSE Verdict(CloseStream(open, s), IF end THEN first ELSE <<>>, "none", s)
               [] Lookup(me, s) = "live" /\ me.e[s].recv = "streaming" ->
                    IF ~end THEN Verdict(me, <<>>, "stream", s)
                    ELSE IF bad THEN Verdict(spoilt(EndRecv(me, s)), <<>>, "stream", s)
                    ELSE Verdict(CloseStream(EndRecv(me, s), s), first, "none", s)
               [] Lookup(me, s) = "live" /\ me.e[s].recv = "ended" ->
                    Verdict(me, <<>>, IF end THEN "conn" ELSE "stream", s)
  BY Zenon DEF RecvHeaders
<1>3. /\ x \in Entries /\ EntryOK(x) /\ me \in MeTypes /\ me.e \in [Streams -> Entries] /\ RecvTyped
      /\ x.stored => x.recv # "idle"
  BY EntryIdle, MeFields
<1>4. CASE Lookup(me, s) = "ignore"
  <2>1. Verdict(me, <<>>, "none", s)
    BY <1>2, <1>4
  <2> QED BY <1>1, <2>1, NothingStep
<1>5. CASE Lookup(me, s) = "idle"
  <2>1. Verdict(me, <<>>, "conn", s)
    BY <1>2, <1>5
  <2> QED BY <1>1, <2>1, NothingStep
<1>6. CASE Lookup(me, s) = "closed"
  <2>1. PICK err \in {"stream", "conn"} : Verdict(DropClosed(me, s), <<>>, err, s)
    BY <1>2, <1>6
  <2>2. x.recv # "idle" /\ (x.stored => x.cause # "none")
    BY <1>6, LookupFacts
  <2>3. Kept(me, DropClosed(me, s), s) /\ DropClosed(me, s).e[s] = DroppedEntry(x)
    BY <1>3, DropClosedKept
  <2> QED BY <1>1, <2>1, <2>2, <2>3, DropStep
<1>7. CASE Lookup(me, s) = "live"
  <2>1. x.stored /\ x.cause = "none"
    BY <1>7, LookupFacts
  <2>2. ~x.fin
    BY <1>3, <2>1 DEF EntryOK
  <2>3. ~x.spoiled /\ x.app
    BY <1>1, <2>1, <2>2, EntryIdle
  <2>4. Kept(me, EndRecv(me, s), s) /\ EndRecv(me, s).e[s] = EndedEntry(x) /\ EndedEntry(x) \in Entries
    BY <1>3, EndRecvKept
  <2>5. ASSUME Flows(x), Verdict(CloseStream(EndRecv(me, s), s), eof, "none", s)
        PROVE  RecvInv'
    <3>1. pump'.push = eof
      BY <2>5, VerdictPump
    <3>2. Items \subseteq ItemTypes /\ EndOfBody \in Items
      BY <1>3, ItemsTyped
    <3>3. Coming(s)' = EndOfBody.len /\ (EndComing(s)' <=> EndOfBody.kind # "chunk")
      BY <3>1, <3>2, ShapeComing DEF To
    <3>4. Coming(s)' = 0 /\ EndComing(s)' /\ Coming(s)' \in Nat
      BY <3>3 DEF EndOfBody
    <3>5. Shape(s, eof)
      BY <3>2 DEF Shape, To, EndOfBody
    <3>6. x.total \in Nat /\ x.unrel \in Nat
      BY <1>3, EntryFields
    <3>7. x.total = x.total + Coming(s)' /\ x.unrel = x.unrel + Coming(s)'
      BY <3>4, <3>6
    <3> QED BY <1>1, <1>3, <2>1, <2>2, <2>3, <2>5, <3>4, <3>5, <3>6, <3>7, EndStep
  <2>6. ASSUME Flows(x), Verdict([EndRecv(me, s) EXCEPT !.e[s].spoiled = TRUE], <<>>, "stream", s)
        PROVE  RecvInv'
    <3> DEFINE n == EndRecv(me, s)
               z == EndedEntry(x)
               y == [z EXCEPT !.spoiled = TRUE]
               m == [n EXCEPT !.e[s] = y]
    <3>1. n \in MeTypes /\ n.e \in [Streams -> Entries] /\ n.e[s] = z
      BY <2>4, MeFields DEF Kept, Steady
    <3>2. /\ z.recv = "ended" /\ z.total = x.total /\ z.stored /\ ~z.fin /\ z.unrel = x.unrel
          /\ z.reclaimed = x.reclaimed /\ z.cause \in {"none", "end"} /\ z.app
      BY <1>3, <2>1, <2>2, <2>3 DEF EndedEntry, Entries
    <3> HIDE DEF z
    <3>3. /\ y \in Entries /\ y.recv = "ended" /\ y.total = x.total /\ y.stored /\ ~y.fin
          /\ y.unrel = x.unrel /\ y.reclaimed = x.reclaimed /\ y.cause \in {"none", "end"} /\ y.app
          /\ y.spoiled /\ Owes(y) = Owes(z) /\ Pays(y) = Pays(z) /\ (y.stored /\ ~y.fin <=> z.stored /\ ~z.fin)
      BY <2>4, <3>2 DEF Entries, Owes, Pays, z
    <3>4. [EndRecv(me, s) EXCEPT !.e[s].spoiled = TRUE] = m
      BY <3>1
    <3> HIDE DEF y, n
    <3>5. Kept(n, m, s) /\ m.e[s] = y
      BY <3>1, <3>3, KeptPut
    <3>6. Kept(me, m, s)
      BY <2>4, <3>5, KeptTwice DEF n
    <3>7. EntryOK(y)
      BY <3>3 DEF EntryOK
    <3>8. Verdict(m, <<>>, "stream", s)
      BY <2>6, <3>4
    <3> HIDE DEF m
    <3> QED BY <1>1, <2>6, <3>3, <3>5, <3>6, <3>7, <3>8, SpoiltStep
  <2>7. CASE x.recv = "head"
    <3>1. Flows(x)
      BY <2>1, <2>7 DEF Flows
    <3>2. IF bad THEN Verdict([opened(end) EXCEPT !.e[s].spoiled = end], <<>>, "stream", s)
          ELSE Verdict(CloseStream(opened(end), s), IF end THEN eof ELSE <<>>, "none", s)
      BY <1>2, <1>7, <2>7
    <3>3. CASE bad /\ end
      <4>1. Verdict([EndRecv(me, s) EXCEPT !.e[s].spoiled = TRUE], <<>>, "stream", s)
        BY <3>2, <3>3
      <4> QED BY <2>6, <3>1, <4>1
    <3>4. CASE ~bad /\ end
      BY <2>5, <3>1, <3>2, <3>4
    <3> DEFINE y == [x EXCEPT !.recv = "streaming"]
               m == [me EXCEPT !.e[s] = y]
    <3>5. /\ y \in Entries /\ y.recv = "streaming" /\ y.total = x.total /\ y.stored /\ ~y.fin
          /\ y.unrel = x.unrel /\ y.reclaimed = x.reclaimed /\ y.cause = "none" /\ y.app
          /\ ~y.spoiled /\ y.flow = x.flow /\ y.charged = x.charged
          /\ Owes(y) = Owes(x) /\ Pays(y) = Pays(x) /\ (y.stored /\ ~y.fin <=> x.stored /\ ~x.fin)
      BY <1>3, <2>1, <2>2, <2>3 DEF Entries, Owes, Pays
    <3>6. [me EXCEPT !.e[s].recv = "streaming"] = m
      OBVIOUS
    <3> HIDE DEF y
    <3>7. Kept(me, m, s) /\ m.e[s] = y
      BY <1>3, <3>5, KeptPut
    <3> HIDE DEF m
    <3>8. EntryOK(y)
      BY <3>5 DEF EntryOK
    <3>9. CASE bad /\ ~end
      <4>1. [m EXCEPT !.e[s].spoiled = FALSE] = m
        <5>1. m.e \in [Streams -> Entries] /\ m \in MeTypes
          BY <3>7, MeFields DEF Kept, Steady
        <5>2. y = [y EXCEPT !.spoiled = FALSE]
          BY <3>5 DEF Entries
        <5>3. m.e = [m.e EXCEPT ![s] = m.e[s]]
          BY <5>1
        <5>4. m.e = [m.e EXCEPT ![s] = [m.e[s] EXCEPT !.spoiled = FALSE]]
          BY <3>7, <5>2, <5>3
        <5>5. m = [m EXCEPT !.e = m.e]
          BY <5>1 DEF MeTypes
        <5> QED BY <5>4, <5>5
      <4>2. Verdict(m, <<>>, "stream", s)
        BY <3>2, <3>6, <3>9, <4>1
      <4> QED BY <1>1, <3>1, <3>5, <3>7, <3>8, <4>2, SpoiltStep
    <3>10. CASE ~bad /\ ~end
      <4>1. Verdict(CloseStream(m, s), <<>>, "none", s)
        BY <3>2, <3>6, <3>10
      <4>2. CloseStream(m, s) = m
        BY <3>5, <3>7 DEF CloseStream, Closed
      <4>3. pump'.push = <<>> /\ Shape(s, <<>>)
        BY <4>1, VerdictPump DEF Shape
      <4>4. Coming(s)' = 0 /\ ~EndComing(s)'
        BY <1>3, <4>3, ItemsTyped, ShapeComing
      <4>5. x.total \in Nat /\ x.unrel \in Nat
        BY <1>3, EntryFields
      <4>6. y.total = x.total + Coming(s)' /\ y.unrel = x.unrel + Coming(s)' /\ Coming(s)' \in Nat
        BY <3>5, <4>4, <4>5
      <4>7. FlowOK(x, me.init) => FlowOK(y, me.init)
        BY <3>5 DEF FlowOK
      <4> QED BY <1>1, <3>1, <3>5, <3>7, <3>8, <4>1, <4>2, <4>3, <4>4, <4>5, <4>6, <4>7, FlowStep
    <3> QED BY <3>3, <3>4, <3>9, <3>10
  <2>8. CASE x.recv = "streaming"
    <3>1. Flows(x)
      BY <2>1, <2>8 DEF Flows
    <3>2. IF ~end THEN Verdict(me, <<>>, "stream", s)
          ELSE IF bad THEN Verdict([EndRecv(me, s) EXCEPT !.e[s].spoiled = end], <<>>, "stream", s)
          ELSE Verdict(CloseStream(EndRecv(me, s), s), eof, "none", s)
      BY <1>2, <1>7, <2>8
    <3>3. CASE ~end
      <4>1. Verdict(me, <<>>, "stream", s)
        BY <3>2, <3>3
      <4> QED BY <1>1, <2>8, <4>1, NothingStep
    <3>4. CASE end /\ bad
      <4>1. Verdict([EndRecv(me, s) EXCEPT !.e[s].spoiled = TRUE], <<>>, "stream", s)
        BY <3>2, <3>4
      <4> QED BY <2>6, <3>1, <4>1
    <3>5. CASE end /\ ~bad
      BY <2>5, <3>1, <3>2, <3>5
    <3> QED BY <3>3, <3>4, <3>5
  <2>9. CASE x.recv = "ended"
    <3>1. PICK err \in {"stream", "conn"} : Verdict(me, <<>>, err, s)
      BY <1>2, <1>7, <2>9
    <3> QED BY <1>1, <2>9, <3>1, NothingStep
  <2>10. x.recv \in {"head", "streaming", "ended"}
    BY <1>3, <2>1, EntryFields
  <2> QED BY <2>7, <2>8, <2>9, <2>10
<1> QED BY <1>4, <1>5, <1>6, <1>7, LookupFacts

\* DATA that is refused is given back at once.
LEMMA SwallowKept ==
    ASSUME NEW m \in MeTypes, NEW s \in Streams, NEW sz \in Nat, HasWindow(m.conn, sz),
           NEW n, n = ReclaimConn([m EXCEPT !.conn = Consume(@, sz)], sz)
    PROVE  Kept(m, n, s) /\ n.e = m.e
<1>1. m.conn \in [win : Nat, avail : Int] /\ m.conn.win \in Nat /\ m.conn.avail \in Int /\ m.active \in Int
      /\ m.budget \in Int
  BY MeFields
<1>2. PICK c \in [win : Nat, avail : Int] :
        c = Consume(m.conn, sz) /\ c.avail = m.conn.avail - sz /\ (sz = 0 => c = m.conn)
  <2>1. m.conn.win - sz \in Nat
    BY <1>1 DEF HasWindow
  <2>2. PICK a \in Nat : a = m.conn.win - sz
    BY <2>1
  <2>3. PICK b \in Int : b = m.conn.avail - sz
    BY <1>1
  <2>4. [win |-> a, avail |-> b] \in [win : Nat, avail : Int] /\ [win |-> a, avail |-> b].avail = b
    OBVIOUS
  <2>5. Consume(m.conn, sz) = [win |-> a, avail |-> b]
    BY <2>2, <2>3 DEF Consume
  <2>6. sz = 0 => [win |-> a, avail |-> b] = m.conn
    BY <1>1, <2>2, <2>3
  <2> QED BY <2>3, <2>4, <2>5, <2>6
<1>3. PICK o \in MeTypes : o = [m EXCEPT !.conn = c] /\ o = [m EXCEPT !.conn = Consume(@, sz)]
  BY <1>2 DEF MeTypes
<1>4. PICK d \in [win : Nat, avail : Int] :
        /\ n = [o EXCEPT !.conn = d]
        /\ d.avail = o.conn.avail + sz
        /\ sz = 0 => d = o.conn
        /\ sz # 0 => Tight(d)
  BY <1>3, ReclaimConnFacts
<1>5. o.conn = c
  BY <1>3 DEF MeTypes
<1>6. /\ n \in MeTypes /\ n.e = m.e /\ n.conn = d /\ n.budget = m.budget /\ n.store = m.store
      /\ n.active = m.active /\ n.init = m.init /\ n.goaway = m.goaway /\ n.error = m.error
  BY <1>3, <1>4 DEF MeTypes
<1>7. Live(n) = Live(m)
  BY <1>6 DEF Live
<1>8. n.active = m.active - (IF s \in Live(m) /\ s \notin Live(n) THEN 1 ELSE 0)
  BY <1>1, <1>6, <1>7
<1>9. Steady(m, n, s)
  BY <1>6, <1>7, <1>8, SteadyFrom
<1>10. m.e[s] \in Entries /\ m.e[s].unrel \in Nat /\ m.e[s].charged \in Nat
  BY MeFields, EntryFields
<1>11. Owes(m.e[s]) \in Nat /\ Pays(m.e[s]) \in Nat
  BY <1>10 DEF Owes, Pays
<1>12. d.avail = m.conn.avail
  BY <1>1, <1>2, <1>4, <1>5
<1>13. n.conn.avail + Owes(n.e[s]) = m.conn.avail + Owes(m.e[s])
  BY <1>6, <1>12
<1>14. n.conn = m.conn \/ Tight(n.conn)
  BY <1>2, <1>4, <1>5, <1>6
<1>15. n.budget + Pays(n.e[s]) >= m.budget + Pays(m.e[s])
  BY <1>1, <1>6, <1>11
<1> QED BY <1>6, <1>9, <1>13, <1>14, <1>15, KeptFrom

\* DATA that is taken is owed.
TakenEntry(x, sz, len) ==
    [x EXCEPT !.flow = Consume(x.flow, sz), !.unrel = x.unrel + sz, !.total = x.total + len]

\* ... by the stream it came on.
LEMMA TakenFields ==
    ASSUME NEW x \in Entries, NEW sz \in Nat, NEW len \in Nat
    PROVE  /\ TakenEntry(x, sz, len) \in Entries
           /\ TakenEntry(x, sz, len).unrel = x.unrel + sz
           /\ TakenEntry(x, sz, len).total = x.total + len
           /\ TakenEntry(x, sz, len).flow = Consume(x.flow, sz)
           /\ TakenEntry(x, sz, len).flow.avail = x.flow.avail - sz
           /\ sz = 0 => TakenEntry(x, sz, len).flow = x.flow
           /\ TakenEntry(x, sz, len).stored = x.stored /\ TakenEntry(x, sz, len).fin = x.fin
           /\ TakenEntry(x, sz, len).charged = x.charged /\ TakenEntry(x, sz, len).recv = x.recv
           /\ TakenEntry(x, sz, len).cause = x.cause /\ TakenEntry(x, sz, len).app = x.app
           /\ TakenEntry(x, sz, len).spoiled = x.spoiled
           /\ TakenEntry(x, sz, len).reclaimed = x.reclaimed
<1>1. /\ x.flow \in [win : Int, avail : Int] /\ x.flow.win \in Int /\ x.flow.avail \in Int
      /\ x.unrel \in Nat /\ x.total \in Nat
  BY EntryFields
<1>2. PICK a \in Int : a = x.flow.win - sz
  BY <1>1
<1>3. PICK b \in Int : b = x.flow.avail - sz
  BY <1>1
<1>11. [win |-> a, avail |-> b] \in [win : Int, avail : Int]
  OBVIOUS
<1>4. PICK f \in [win : Int, avail : Int] : f = [win |-> a, avail |-> b] /\ f.avail = b /\ f.win = a
  BY <1>11
<1>5. f = Consume(x.flow, sz) /\ (sz = 0 => f = x.flow)
  BY <1>1, <1>2, <1>3, <1>4 DEF Consume
<1>6. PICK k \in Nat : k = x.unrel + sz
  BY <1>1
<1>7. PICK t \in Nat : t = x.total + len
  BY <1>1
<1>8. PICK y : y = [x EXCEPT !.flow = f, !.unrel = k, !.total = t]
  OBVIOUS
<1>9. /\ y \in Entries /\ y.unrel = k /\ y.total = t /\ y.flow = f /\ y.stored = x.stored
      /\ y.fin = x.fin /\ y.charged = x.charged /\ y.recv = x.recv /\ y.cause = x.cause
      /\ y.app = x.app /\ y.spoiled = x.spoiled /\ y.reclaimed = x.reclaimed
  BY <1>8 DEF Entries
<1>10. TakenEntry(x, sz, len) = y
  BY <1>5, <1>6, <1>7, <1>8 DEF TakenEntry
<1> QED BY <1>3, <1>4, <1>5, <1>6, <1>7, <1>9, <1>10

\* An entry replaced, and replaced again.
Sub(m, s, x) == [m EXCEPT !.e = [m.e EXCEPT ![s] = x]]

\* ... is replaced once.
LEMMA SubTwice ==
    ASSUME NEW m \in MeTypes, NEW s \in Streams, NEW x, NEW y
    PROVE  Sub(m, s, x).e[s] = x /\ Sub(Sub(m, s, x), s, y) = Sub(m, s, y)
<1>1. m.e \in [Streams -> Entries]
  BY MeFields
<1>2. Sub(m, s, x).e = [m.e EXCEPT ![s] = x] /\ [m.e EXCEPT ![s] = x][s] = x
  BY <1>1 DEF Sub, MeTypes
<1>3. [[m.e EXCEPT ![s] = x] EXCEPT ![s] = y] = [m.e EXCEPT ![s] = y]
  BY <1>1
<1>4. Sub(Sub(m, s, x), s, y) = [Sub(m, s, x) EXCEPT !.e = [m.e EXCEPT ![s] = y]]
  BY <1>2, <1>3 DEF Sub
<1>5. \A v, w : [[m EXCEPT !.e = v] EXCEPT !.e = w] = [m EXCEPT !.e = w]
  BY DEF MeTypes
<1>6. [Sub(m, s, x) EXCEPT !.e = [m.e EXCEPT ![s] = y]] = [m EXCEPT !.e = [m.e EXCEPT ![s] = y]]
  BY <1>5 DEF Sub
<1> QED BY <1>2, <1>4, <1>6 DEF Sub

\* ... and the books are kept.
Taken(m, s, sz, len) ==
    [[m EXCEPT !.conn = Consume(@, sz)] EXCEPT
        !.e[s].flow = Consume(@, sz), !.e[s].unrel = @ + sz, !.e[s].total = @ + len]

\* DATA that is taken is owed, and the books are kept.
LEMMA TakeKept ==
    ASSUME NEW m \in MeTypes, NEW s \in Streams, NEW sz \in Nat, NEW len \in Nat,
           HasWindow(m.conn, sz), m.e[s].stored
    PROVE  /\ Kept(m, Taken(m, s, sz, len), s)
           /\ Taken(m, s, sz, len).e[s] = TakenEntry(m.e[s], sz, len)
<1> DEFINE n == Taken(m, s, sz, len)
           x == m.e[s]
           y == TakenEntry(x, sz, len)
           c == Consume(m.conn, sz)
<1>1. m.conn \in [win : Nat, avail : Int] /\ m.conn.win \in Nat /\ m.conn.avail \in Int /\ m.active \in Int
      /\ m.budget \in 0..BudgetMax /\ m.budget \in Int /\ m.e \in [Streams -> Entries]
  BY MeFields
<1>2. c \in [win : Nat, avail : Int] /\ c.avail = m.conn.avail - sz /\ (sz = 0 => c = m.conn)
  <2>1. m.conn.win - sz \in Nat
    BY <1>1 DEF HasWindow
  <2>2. PICK a \in Nat : a = m.conn.win - sz
    BY <2>1
  <2>3. PICK b \in Int : b = m.conn.avail - sz
    BY <1>1
  <2>4. [win |-> a, avail |-> b] \in [win : Nat, avail : Int] /\ [win |-> a, avail |-> b].avail = b
    OBVIOUS
  <2>5. Consume(m.conn, sz) = [win |-> a, avail |-> b]
    BY <2>2, <2>3 DEF Consume
  <2>6. sz = 0 => [win |-> a, avail |-> b] = m.conn
    BY <1>1, <2>2, <2>3
  <2> QED BY <2>3, <2>4, <2>5, <2>6
<1>3. x \in Entries /\ x.unrel \in Nat /\ x.charged \in Nat
  BY <1>1, EntryFields
<1>4. y \in Entries /\ y.unrel = x.unrel + sz /\ y.stored = x.stored /\ y.fin = x.fin /\ y.charged = x.charged
  <2>1. PICK w \in Entries : w = x
    BY <1>3
  <2>2. /\ TakenEntry(w, sz, len) \in Entries /\ TakenEntry(w, sz, len).unrel = w.unrel + sz
        /\ TakenEntry(w, sz, len).stored = w.stored /\ TakenEntry(w, sz, len).fin = w.fin
        /\ TakenEntry(w, sz, len).charged = w.charged
    BY TakenFields
  <2> QED BY <2>1, <2>2
<1>5. n = With(m, s, y, c, m.budget)
  <2> DEFINE o == [m EXCEPT !.conn = c]
             x1 == [x EXCEPT !.flow = Consume(x.flow, sz)]
             x2 == [x1 EXCEPT !.unrel = x.unrel + sz]
             x3 == [x2 EXCEPT !.total = x.total + len]
             o1 == [o EXCEPT !.e = [o.e EXCEPT ![s] = [o.e[s] EXCEPT !.flow = Consume(o.e[s].flow, sz)]]]
             o2 == [o1 EXCEPT !.e = [o1.e EXCEPT ![s] = [o1.e[s] EXCEPT !.unrel = o.e[s].unrel + sz]]]
             o3 == [o2 EXCEPT !.e = [o2.e EXCEPT ![s] = [o2.e[s] EXCEPT !.total = o.e[s].total + len]]]
  <2>1. n = o3
    BY DEF Taken
  <2>2. o \in MeTypes /\ o.e = m.e /\ o.e[s] = x
    <3> HIDE DEF c
    <3> QED BY <1>2 DEF MeTypes
  <2>3. x3 = y
    BY DEF TakenEntry
  <2> HIDE DEF o, x, y
  <2>4. o1 = Sub(o, s, x1)
    BY <2>2 DEF Sub
  <2> HIDE DEF o1, x1
  <2>5. o1.e[s] = x1
    BY <2>2, <2>4, SubTwice
  <2>6. o2 = Sub(o1, s, x2)
    BY <2>2, <2>5 DEF Sub
  <2> HIDE DEF o2, x2
  <2>7. o2 = Sub(o, s, x2) /\ o2.e[s] = x2
    BY <2>2, <2>4, <2>6, SubTwice
  <2>8. o3 = Sub(o2, s, x3)
    BY <2>2, <2>7 DEF Sub
  <2> HIDE DEF o3, x3, n
  <2>9. o3 = Sub(o, s, x3)
    BY <2>2, <2>7, <2>8, SubTwice
  <2>10. n = [o EXCEPT !.e = [m.e EXCEPT ![s] = y]]
    BY <2>1, <2>2, <2>3, <2>9 DEF Sub
  <2>11. \A v, w : [[m EXCEPT !.conn = w] EXCEPT !.e = v] = [m EXCEPT !.conn = w, !.budget = m.budget, !.e = v]
    BY DEF MeTypes
  <2> HIDE DEF c
  <2> QED BY <2>10, <2>11 DEF With, o
<1> HIDE DEF y, c, n
<1>6. Fields(m, n, s, y, c, m.budget)
  BY <1>1, <1>2, <1>4, <1>5, Update
<1>7. s \in Live(n) <=> s \in Live(m)
  BY <1>4, <1>6 DEF Live, Fields
<1>8. n.active = m.active - (IF s \in Live(m) /\ s \notin Live(n) THEN 1 ELSE 0)
  BY <1>1, <1>6, <1>7 DEF Fields
<1>9. Steady(m, n, s)
  BY <1>6, <1>7, <1>8, SteadyFrom DEF Fields
<1>10. Owes(y) = x.unrel + sz /\ Owes(x) = x.unrel /\ Pays(y) = Pays(x) /\ Pays(x) \in Nat
  BY <1>3, <1>4 DEF Owes, Pays
<1>11. n.conn = c /\ n.budget = m.budget /\ n.e[s] = y /\ n \in MeTypes
  BY <1>6 DEF Fields
<1>12. n.conn.avail + Owes(n.e[s]) = m.conn.avail + Owes(m.e[s])
  BY <1>1, <1>2, <1>3, <1>10, <1>11
<1>13. (n.conn = m.conn /\ Owes(n.e[s]) = Owes(m.e[s])) \/ Owes(n.e[s]) > 0
  BY <1>2, <1>3, <1>10, <1>11
<1>14. n.budget + Pays(n.e[s]) >= m.budget + Pays(m.e[s])
  BY <1>1, <1>10, <1>11
<1>15. Kept(m, n, s)
  BY <1>9, <1>11, <1>12, <1>13, <1>14, KeptFrom
<1> QED BY <1>11, <1>15 DEF y, n

\* DataFrameCounts::record charges a small frame to its stream.
Charge(len) == IF len # 0 /\ len < Threshold THEN Threshold - len ELSE 0
RecordedEntry(x, len) ==
    IF len # 0 /\ len < Threshold THEN [x EXCEPT !.charged = x.charged + (Threshold - len)] ELSE x

\* ... what it can pay.
LEMMA RecordKept ==
    ASSUME NEW m \in MeTypes, NEW s \in Streams, NEW len \in Nat, m.e[s].stored, RecordOk(m, len)
    PROVE  Kept(m, Record(m, s, len), s) /\ Record(m, s, len).e[s] = RecordedEntry(m.e[s], len)
<1> DEFINE x == m.e[s]
<1>1. /\ m.conn \in [win : Nat, avail : Int] /\ m.conn.avail \in Int /\ m.active \in Int
      /\ m.budget \in 0..BudgetMax /\ m.budget \in Int /\ m.e \in [Streams -> Entries]
      /\ m.empty \in 0..MaxEmpty /\ m.empty \in Int /\ x \in Entries /\ m.e[s] = x
  BY MeFields
<1>2. /\ x.charged \in Nat /\ x.unrel \in Nat
  BY <1>1, EntryFields
<1> HIDE DEF x
<1>3. CASE len = 0
  <2>1. m.empty + 1 \in 0..MaxEmpty
    BY <1>1, <1>3, Consts DEF RecordOk
  <2>2. PICK k \in 0..MaxEmpty : k = m.empty + 1
    BY <2>1
  <2>3. PICK n : n = [m EXCEPT !.empty = k]
    OBVIOUS
  <2>4. Record(m, s, len) = n
    BY <1>3, <2>2, <2>3 DEF Record
  <2>5. /\ n \in MeTypes /\ n.e = m.e /\ n.conn = m.conn /\ n.budget = m.budget /\ n.store = m.store
        /\ n.active = m.active /\ n.init = m.init /\ n.goaway = m.goaway /\ n.error = m.error
    BY <2>3 DEF MeTypes
  <2>6. Live(n) = Live(m)
    BY <2>5 DEF Live
  <2>7. n.active = m.active - (IF s \in Live(m) /\ s \notin Live(n) THEN 1 ELSE 0)
    BY <1>1, <2>5, <2>6
  <2>8. Steady(m, n, s)
    BY <2>5, <2>6, <2>7, SteadyFrom
  <2>9. Owes(x) \in Nat /\ Pays(x) \in Nat /\ n.e[s] = x
    BY <1>1, <1>2, <2>5 DEF Owes, Pays
  <2>10. n.budget + Pays(n.e[s]) >= m.budget + Pays(m.e[s])
    BY <1>1, <2>5, <2>9
  <2>11. Kept(m, n, s)
    BY <2>5, <2>8, <2>10, KeptFrom
  <2> QED BY <1>1, <1>3, <2>4, <2>9, <2>11 DEF RecordedEntry
<1>4. CASE len # 0
  <2> DEFINE d == Charge(len)
  <2>1. d \in Nat /\ (len < Threshold => d = Threshold - len) /\ (~(len < Threshold) => d = 0)
    BY <1>4, Consts DEF Charge
  <2>2. PICK k \in Nat : k = x.charged + d
    BY <1>2, <2>1
  <2>3. PICK y : y = RecordedEntry(x, len)
    OBVIOUS
  <2>4. y = [x EXCEPT !.charged = k]
    <3>1. CASE len < Threshold
      BY <1>4, <2>1, <2>2, <2>3, <3>1 DEF RecordedEntry
    <3>2. CASE ~(len < Threshold)
      <4>1. k = x.charged
        BY <1>2, <2>1, <2>2, <3>2
      <4>2. [x EXCEPT !.charged = x.charged] = x
        BY <1>1 DEF Entries
      <4> QED BY <2>3, <3>2, <4>1, <4>2 DEF RecordedEntry
    <3> QED BY <3>1, <3>2
  <2>5. y \in Entries /\ y.charged = k /\ y.stored = x.stored /\ y.fin = x.fin /\ y.unrel = x.unrel
    BY <1>1, <2>4 DEF Entries
  <2>6. PICK b \in 0..BudgetMax :
          /\ b + d >= m.budget \/ b >= BudgetMax
          /\ Record(m, s, len) = With(m, s, y, m.conn, b)
    <3>1. CASE len < Threshold
      <4>1. m.budget - (Threshold - len) \in 0..BudgetMax
        BY <1>1, <1>4, <3>1, Consts DEF RecordOk
      <4>2. PICK b \in 0..BudgetMax : b = m.budget - (Threshold - len)
        BY <4>1
      <4>3. [m.e EXCEPT ![s].charged = @ + (Threshold - len)] = [m.e EXCEPT ![s] = y]
        BY <1>1, <2>1, <2>2, <2>4, <3>1
      <4>4. Record(m, s, len) = [m EXCEPT !.budget = b, !.e = [m.e EXCEPT ![s] = y]]
        BY <1>4, <3>1, <4>2, <4>3 DEF Record, MeTypes
      <4>5. With(m, s, y, m.conn, b) = [m EXCEPT !.budget = b, !.e = [m.e EXCEPT ![s] = y]]
        BY DEF With, MeTypes
      <4>6. b + d >= m.budget
        BY <1>1, <2>1, <3>1, <4>2
      <4> QED BY <4>4, <4>5, <4>6
    <3>2. CASE ~(len < Threshold)
      <4>1. PICK b \in 0..BudgetMax : b = Replenish(m.budget, len - Threshold) /\ b >= m.budget
        BY <1>1, <3>2, Consts DEF Replenish
      <4>2. Record(m, s, len) = [m EXCEPT !.budget = b]
        BY <1>4, <3>2, <4>1 DEF Record
      <4>3. y = x
        BY <2>3, <3>2 DEF RecordedEntry
      <4>4. [m.e EXCEPT ![s] = y] = m.e
        BY <1>1, <4>3
      <4>5. With(m, s, y, m.conn, b) = [m EXCEPT !.budget = b]
        BY <4>4 DEF With, MeTypes
      <4> QED BY <1>1, <2>1, <4>1, <4>2, <4>5
    <3> QED BY <3>1, <3>2
  <2>7. PICK n : n = Record(m, s, len)
    OBVIOUS
  <2>8. Fields(m, n, s, y, m.conn, b)
    BY <1>1, <2>5, <2>6, <2>7, Update
  <2>9. s \in Live(n) <=> s \in Live(m)
    BY <1>1, <2>5, <2>8 DEF Live, Fields
  <2>10. n.active = m.active - (IF s \in Live(m) /\ s \notin Live(n) THEN 1 ELSE 0)
    BY <1>1, <2>8, <2>9 DEF Fields
  <2>11. Steady(m, n, s)
    BY <2>8, <2>9, <2>10, SteadyFrom DEF Fields
  <2>12. Owes(y) = Owes(x) /\ Pays(y) = x.charged + d /\ Pays(x) = x.charged
    BY <1>1, <2>2, <2>5 DEF Owes, Pays
  <2>13. n.conn = m.conn /\ n.budget = b /\ n.e[s] = y /\ n \in MeTypes
    BY <2>8 DEF Fields
  <2>14. n.conn.avail + Owes(n.e[s]) = m.conn.avail + Owes(m.e[s])
    BY <1>1, <2>12, <2>13
  <2>15. n.budget + Pays(n.e[s]) >= m.budget + Pays(m.e[s]) \/ n.budget >= BudgetMax
    BY <1>1, <1>2, <2>1, <2>6, <2>12, <2>13
  <2>16. Kept(m, n, s)
    BY <1>1, <2>11, <2>12, <2>13, <2>14, <2>15, KeptFrom
  <2> QED BY <1>1, <2>3, <2>7, <2>13, <2>16
<1> QED BY <1>3, <1>4

\* The entry that padding leaves: DATA taken, and its padding given back.
LEMMA PaddedFacts ==
    ASSUME NEW x \in Entries, Flows(x), x.recv = "streaming", ~x.fin,
           NEW sz \in Nat, NEW len \in Nat, NEW pad \in Nat, sz = len + pad,
           NEW init \in Nat,
           NEW y, y = IF pad > 0 THEN ReleasedEntry(TakenEntry(x, sz, len), pad)
                      ELSE TakenEntry(x, sz, len)
    PROVE  /\ y \in Entries /\ y.stored /\ ~y.fin /\ y.cause = "none" /\ y.recv = "streaming"
           /\ (y.spoiled <=> x.spoiled) /\ (y.app <=> x.app) /\ (y.reclaimed <=> x.reclaimed)
           /\ y.total = x.total + len
           /\ ~x.reclaimed => y.unrel = x.unrel + len
           /\ FlowOK(x, init) => FlowOK(y, init)
<1>1. PICK w : w = TakenEntry(x, sz, len)
  OBVIOUS
<1>7. /\ w \in Entries /\ w.unrel = x.unrel + sz /\ w.total = x.total + len
      /\ w.flow.avail = x.flow.avail - sz /\ (sz = 0 => w.flow = x.flow)
      /\ w.stored = x.stored /\ w.fin = x.fin /\ w.recv = x.recv
      /\ w.cause = x.cause /\ w.app = x.app /\ w.spoiled = x.spoiled /\ w.reclaimed = x.reclaimed
  <2>1. /\ w \in Entries /\ w.unrel = x.unrel + sz /\ w.total = x.total + len
    BY <1>1, TakenFields
  <2>2. w.flow.avail = x.flow.avail - sz /\ (sz = 0 => w.flow = x.flow)
    BY <1>1, TakenFields
  <2>3. /\ w.stored = x.stored /\ w.fin = x.fin /\ w.recv = x.recv
    BY <1>1, TakenFields
  <2>4. w.cause = x.cause /\ w.app = x.app /\ w.spoiled = x.spoiled /\ w.reclaimed = x.reclaimed
    BY <1>1, TakenFields
  <2> QED BY <2>1, <2>2, <2>3, <2>4
<1>2. x.unrel \in Nat /\ x.flow.avail \in Int /\ x.stored /\ x.cause = "none" /\ x.total \in Nat
  BY EntryFields DEF Flows
<1>3. FlowOK(x, init) => FlowOK(w, init)
  <2>1. SUFFICES ASSUME FlowOK(x, init) PROVE FlowOK(w, init)
    OBVIOUS
  <2>2. w.flow.avail + w.unrel = init
    BY <1>7, <1>2, <2>1 DEF FlowOK
  <2>3. w.unrel = 0 => x.unrel = 0 /\ w.flow = x.flow
    BY <1>7, <1>2
  <2> QED BY <2>1, <2>2, <2>3 DEF FlowOK
<1>4. CASE pad = 0
  <2>1. y = w /\ sz = len
    BY <1>1, <1>4
  <2> QED BY <1>7, <1>2, <1>3, <2>1
<1>5. CASE pad # 0 /\ x.reclaimed
  <2>1. y = w
    BY <1>1, <1>5, <1>7 DEF ReleasedEntry
  <2> QED BY <1>7, <1>2, <1>3, <1>5, <2>1
<1>6. CASE pad # 0 /\ ~x.reclaimed
  <2> DEFINE z == GivenEntry(w, pad)
  <2>1. /\ z \in Entries /\ z.unrel = Less(w.unrel, pad) /\ z.flow.avail = w.flow.avail + pad
        /\ ~Ended(w) => Tight(z.flow)
        /\ z.stored = w.stored /\ z.fin = w.fin
    BY <1>7, GivenFields
  <2>2. /\ z.recv = w.recv /\ z.cause = w.cause /\ z.app = w.app /\ z.spoiled = w.spoiled
        /\ z.reclaimed = w.reclaimed /\ z.total = w.total
    BY <1>7 DEF GivenEntry, Entries
  <2> HIDE DEF z
  <2>3. y = z
    <3>1. pad > 0 /\ w.stored /\ ~w.reclaimed /\ ~z.fin
      BY <1>7, <1>2, <1>6, <2>1
    <3>2. y = ReleasedEntry(w, pad)
      BY <1>1, <3>1
    <3>3. ReleasedEntry(w, pad) = SettledEntry(z)
      BY <3>1 DEF ReleasedEntry, z
    <3> QED BY <3>1, <3>2, <3>3 DEF SettledEntry
  <2>4. ~Ended(w)
    BY <1>7, <1>2 DEF Ended
  <2>5. z.unrel = x.unrel + len
    BY <1>7, <1>2, <2>1 DEF Less
  <2>6. FlowOK(x, init) => FlowOK(z, init)
    BY <1>7, <1>2, <2>1, <2>4, <2>5 DEF FlowOK
  <2> QED BY <1>7, <1>2, <2>1, <2>2, <2>3, <2>5, <2>6
<1> QED BY <1>4, <1>5, <1>6

\* A frame that the connection fails on after it was taken.
LEMMA BrokenStep ==
    ASSUME RecvInv, NEW s \in Streams, PumpIdle, scene' = scene, NEW m, Kept(me, m, s),
           Verdict(m, <<>>, "conn", s),
           NEW x, NEW y, x = me.e[s], y = m.e[s], Flows(x), EntryOK(y), y.stored, ~y.fin,
           y.cause = "none", y.recv = "streaming", ~y.spoiled, y.app
    PROVE  RecvInv'
<1>1. pump = IdlePump
  BY DEF PumpIdle
<1>2. x \in Entries /\ x.recv # "ended" /\ RecvTyped /\ pump.err = "none"
  BY <1>1, FlowingFacts
<1>3. me' = m /\ q' = q /\ rd' = rd /\ pump'.push = <<>> /\ pump'.err = "conn" /\ pump'.on = s
  BY VerdictPump
<1>4. Local(me, m, s) /\ (Running' => Balanced(m)) /\ me'.init = me.init
  BY <1>2, <1>3, KeptLocal
<1>5. y = me'.e[s] /\ ~Running'
  BY <1>3 DEF Running, Up
<1>6. DoubtOK(s)' /\ OwesOK(s)'
  BY <1>5 DEF DoubtOK, OwesOK
<1>7. \A i \in DOMAIN pump'.push : FALSE
  BY <1>3
<1>8. pump'.err = "conn" /\ y.cause # "after" /\ y.recv # "idle"
  BY <1>3
<1>9. StreamOK(s)'
  BY <1>1, <1>2, <1>3, <1>5, <1>6, <1>7, <1>8, FromIdle
<1>10. Shape(s, <<>>) /\ (<<>> # <<>> => "conn" = "none")
  BY DEF Shape
<1> QED BY <1>4, <1>9, <1>10, VerdictStep

\* recv_data on a live stream whose receiving half is streaming.
LEMMA DataOnStep ==
    ASSUME RecvInv, NEW s \in Streams, PumpIdle, scene' = scene,
           NEW x, x = me.e[s], Flows(x), x.recv = "streaming",
           NEW len \in Nat, len \in scene.lens, NEW pad \in Nat, NEW end \in BOOLEAN,
           NEW bad \in BOOLEAN,
           DataOn(s, len, pad, end, bad)
    PROVE  RecvInv'
<1>1. pump = IdlePump /\ Kept(me, me, s)
  BY KeptSelf DEF PumpIdle
<1>2. /\ x \in Entries /\ x.stored /\ ~x.fin /\ x.cause = "none" /\ ~x.spoiled /\ x.app
      /\ RecvTyped
  BY <1>1, FlowingFacts
<1>14. x \in Entries
  BY <1>2
<1>3. me \in MeTypes /\ me.init \in Nat /\ x.unrel \in Nat /\ x.total \in Nat /\ me.conn.win \in Nat
  BY <1>2, EntryIdle, EntryFields, MeFields, Consts
<1>4. len \in Nat /\ pad \in Nat
  OBVIOUS
<1>5. PICK sz \in Nat : sz = len + pad
  BY <1>4
<1>6. PICK refused : refused = ReclaimConn([me EXCEPT !.conn = Consume(@, sz)], sz)
  OBVIOUS
<1>7. PICK kept : kept = Taken(me, s, sz, len)
  OBVIOUS
<1>8. PICK padded : padded = IF pad > 0 THEN ReleaseCapacity(kept, s, pad) ELSE kept
  OBVIOUS
<1>9. PICK it : it = Chunk(len, ~end)
  OBVIOUS
<1>10. CASE ~HasWindow(me.conn, sz)
  <2>1. Verdict(me, <<>>, "conn", s)
    BY <1>5, <1>10 DEF DataOn
  <2> QED BY <1>1, <2>1, NothingStep
<1>11. CASE HasWindow(me.conn, sz) /\ ~HasWindow(me.e[s].flow, sz)
  <2>1. Verdict(refused, <<>>, "stream", s)
    BY <1>5, <1>6, <1>11 DEF DataOn
  <2>2. Kept(me, refused, s) /\ refused.e = me.e
    BY <1>3, <1>6, <1>11, SwallowKept
  <2>3. me.e[s].recv # "idle" /\ refused.e[s] = me.e[s]
    BY <2>2
  <2> QED BY <2>1, <2>2, <2>3, NothingStep
<1>12. CASE HasWindow(me.conn, sz) /\ HasWindow(me.e[s].flow, sz) /\ bad
  <2> DEFINE y == [x EXCEPT !.flow = Consume(x.flow, sz)]
             m == [refused EXCEPT !.e[s].flow = Consume(@, sz)]
  <2>1. Verdict(m, <<>>, "stream", s)
    BY <1>5, <1>6, <1>12 DEF DataOn
  <2>2. Kept(me, refused, s) /\ refused.e = me.e
    BY <1>3, <1>6, <1>12, SwallowKept
  <2>3. refused \in MeTypes /\ refused.e \in [Streams -> Entries]
    BY <2>2, MeFields DEF Kept, Steady
  <2>4. Consume(x.flow, sz) \in [win : Int, avail : Int]
    <3>1. x.flow.win \in Int /\ x.flow.avail \in Int
      BY <1>2, EntryFields
    <3> QED BY <3>1 DEF Consume
  <2>5. /\ y \in Entries /\ y.recv = x.recv /\ y.total = x.total /\ y.stored = x.stored /\ y.fin = x.fin
        /\ y.unrel = x.unrel /\ y.reclaimed = x.reclaimed /\ y.cause = x.cause /\ y.charged = x.charged
    BY <1>2, <2>4 DEF Entries
  <2>6. m = [refused EXCEPT !.e[s] = y]
    BY <2>2
  <2> HIDE DEF y
  <2>7. Owes(y) = Owes(refused.e[s]) /\ Pays(y) = Pays(refused.e[s])
        /\ (y.stored /\ ~y.fin <=> refused.e[s].stored /\ ~refused.e[s].fin)
    BY <2>2, <2>5 DEF Owes, Pays
  <2>8. Kept(refused, m, s) /\ m.e[s] = y
    <3>1. PICK o \in MeTypes : o = refused
      BY <2>3
    <3>2. PICK z \in Entries : z = y
      BY <2>5
    <3>3. Owes(z) = Owes(o.e[s]) /\ Pays(z) = Pays(o.e[s])
        /\ (z.stored /\ ~z.fin <=> o.e[s].stored /\ ~o.e[s].fin)
      BY <2>7, <3>1, <3>2
    <3>4. Kept(o, [o EXCEPT !.e[s] = z], s) /\ [o EXCEPT !.e[s] = z].e[s] = z
      BY <3>3, KeptPut
    <3>5. m = [o EXCEPT !.e[s] = z]
      BY <2>6, <3>1, <3>2
    <3> QED BY <3>1, <3>2, <3>4, <3>5
  <2> HIDE DEF m
  <2>9. Kept(me, m, s)
    BY <2>2, <2>8, KeptTwice
  <2>10. EntryOK(y)
    <3>1. ~y.spoiled
      BY <1>2 DEF y, Entries
    <3> QED BY <1>2, <2>5, <3>1 DEF EntryOK
  <2> QED BY <1>2, <2>1, <2>5, <2>8, <2>9, <2>10, SpoiltStep
<1>13. ASSUME HasWindow(me.conn, sz), HasWindow(me.e[s].flow, sz), ~bad
       PROVE  RecvInv'
  <2>1. Kept(me, kept, s) /\ kept.e[s] = TakenEntry(x, sz, len)
    <3>1. me.e[s].stored
      BY <1>2
    <3>2. Kept(me, kept, s) /\ kept.e[s] = TakenEntry(me.e[s], sz, len)
      BY <1>3, <1>4, <1>7, <1>13, <3>1, TakeKept
    <3> QED BY <3>2
  <2>2. kept \in MeTypes /\ kept.e[s].unrel = x.unrel + sz
    <3>1. PICK w : w = TakenEntry(x, sz, len)
      OBVIOUS
    <3>2. w.unrel = x.unrel + sz
      BY <1>14, <1>4, <1>5, <3>1, TakenFields
    <3> QED BY <2>1, <3>1, <3>2 DEF Kept, Steady
  <2>3. PICK y : y = IF pad > 0 THEN ReleasedEntry(TakenEntry(x, sz, len), pad)
                     ELSE TakenEntry(x, sz, len)
    OBVIOUS
  <2>4. Kept(me, padded, s) /\ padded.e[s] = y
    <3>1. CASE pad > 0
      <4>1. pad <= kept.e[s].unrel
        BY <1>3, <1>4, <1>5, <2>2
      <4>2. /\ Kept(kept, ReleaseCapacity(kept, s, pad), s)
            /\ ReleaseCapacity(kept, s, pad).e[s] = ReleasedEntry(kept.e[s], pad)
        BY <1>4, <2>2, <4>1, ReleaseCapacityKept
      <4> QED BY <1>8, <2>1, <2>3, <3>1, <4>2, KeptTwice
    <3>2. CASE ~(pad > 0)
      BY <1>8, <2>1, <2>3, <3>2
    <3> QED BY <3>1, <3>2
  <2>5. /\ y \in Entries /\ y.stored /\ ~y.fin /\ y.cause = "none" /\ y.recv = "streaming"
        /\ (y.spoiled <=> x.spoiled) /\ (y.app <=> x.app) /\ (y.reclaimed <=> x.reclaimed)
        /\ y.total = x.total + len
        /\ ~x.reclaimed => y.unrel = x.unrel + len
        /\ FlowOK(x, me.init) => FlowOK(y, me.init)
    <3>1. PICK init \in Nat : init = me.init
      BY <1>3
    <3>2. x \in Entries /\ ~x.fin
      BY <1>2
    <3>3. sz \in Nat /\ sz = len + pad
      BY <1>5
    <3>4. /\ y \in Entries /\ y.stored /\ ~y.fin /\ y.cause = "none" /\ y.recv = "streaming"
          /\ (y.spoiled <=> x.spoiled) /\ (y.app <=> x.app) /\ (y.reclaimed <=> x.reclaimed)
          /\ y.total = x.total + len
          /\ ~x.reclaimed => y.unrel = x.unrel + len
          /\ FlowOK(x, init) => FlowOK(y, init)
      BY <2>3, <3>2, <3>3, PaddedFacts
    <3> QED BY <3>1, <3>4
  <2>6. EntryOK(y) /\ ~y.spoiled /\ y.app
    BY <1>2, <2>5 DEF EntryOK
  <2>7. Items \subseteq ItemTypes /\ EndOfBody \in Items
    BY <1>2, ItemsTyped
  <2>8. it \in Items /\ it.kind = "chunk" /\ it.len = len
    BY <1>9 DEF Items, Chunk
  <2>9. CASE end
    <3>1. Verdict(CloseStream(EndRecv(padded, s), s), <<To(s, it), To(s, EndOfBody)>>, "none", s)
      BY <1>5, <1>7, <1>8, <1>9, <1>13, <2>9 DEF DataOn, Taken, To
    <3>2. pump'.push = <<To(s, it), To(s, EndOfBody)>>
      BY <3>1, VerdictPump
    <3>3. Coming(s)' = len /\ EndComing(s)'
      BY <2>7, <2>8, <3>2, ShapeComing
    <3>4. Shape(s, <<To(s, it), To(s, EndOfBody)>>)
      BY <2>8 DEF Shape
    <3>5. /\ y.total = x.total + Coming(s)' /\ Coming(s)' \in Nat
          /\ ~y.reclaimed => ~x.reclaimed /\ y.unrel = x.unrel + Coming(s)'
      BY <1>4, <2>5, <3>3
    <3> QED BY <1>3, <2>4, <2>5, <2>6, <3>1, <3>3, <3>4, <3>5, EndStep
  <2>10. CASE ~end /\ ~RecordOk(padded, len)
    <3>1. Verdict(padded, <<>>, "conn", s)
      BY <1>5, <1>7, <1>8, <1>13, <2>10 DEF DataOn, Taken
    <3> QED BY <2>4, <2>5, <2>6, <3>1, BrokenStep
  <2>11. CASE ~end /\ RecordOk(padded, len)
    <3>1. PICK push : push = IF len = 0 THEN <<>> ELSE <<To(s, it)>>
      OBVIOUS
    <3>2. Verdict(Record(padded, s, len), push, "none", s)
      BY <1>5, <1>7, <1>8, <1>9, <1>13, <2>11, <3>1 DEF DataOn, Taken, To
    <3>3. padded \in MeTypes /\ padded.e[s].stored
      BY <2>4, <2>5 DEF Kept, Steady
    <3>4. /\ Kept(padded, Record(padded, s, len), s)
          /\ Record(padded, s, len).e[s] = RecordedEntry(y, len)
      BY <1>4, <2>4, <2>11, <3>3, RecordKept
    <3>5. Kept(me, Record(padded, s, len), s)
      BY <2>4, <3>4, KeptTwice
    <3>6. PICK z : z = RecordedEntry(y, len)
      OBVIOUS
    <3>7. /\ z.stored = y.stored /\ z.fin = y.fin /\ z.cause = y.cause /\ z.recv = y.recv
          /\ z.spoiled = y.spoiled /\ z.app = y.app /\ z.reclaimed = y.reclaimed /\ z.total = y.total
          /\ z.unrel = y.unrel /\ z.flow = y.flow
      BY <2>5, <3>6 DEF RecordedEntry, Entries
    <3>8. EntryOK(z)
      BY <2>5, <2>6, <3>7 DEF EntryOK
    <3>9. FlowOK(x, me.init) => FlowOK(z, me.init)
      BY <2>5, <3>7 DEF FlowOK
    <3>10. pump'.push = push
      BY <3>2, VerdictPump
    <3>11. Coming(s)' = len /\ ~EndComing(s)' /\ Shape(s, push)
      <4>1. CASE len = 0
        BY <2>7, <3>1, <3>10, <4>1, ShapeComing DEF Shape
      <4>2. CASE len # 0
        BY <2>7, <2>8, <3>1, <3>10, <4>2, ShapeComing DEF Shape
      <4> QED BY <4>1, <4>2
    <3>12. /\ z.total = x.total + Coming(s)' /\ Coming(s)' \in Nat
           /\ ~z.reclaimed => ~x.reclaimed /\ z.unrel = x.unrel + Coming(s)'
      BY <1>4, <2>5, <3>7, <3>11
    <3>13. z = Record(padded, s, len).e[s]
      BY <3>4, <3>6
    <3> QED BY <1>3, <2>5, <2>6, <3>2, <3>5, <3>7, <3>8, <3>9, <3>11, <3>12, <3>13, FlowStep
  <2> QED BY <2>9, <2>10, <2>11
<1> QED BY <1>10, <1>11, <1>12, <1>13

\* recv_data.
LEMMA RecvDataStep ==
    ASSUME RecvInv, NEW s \in Streams, RecvData(s), scene' = scene
    PROVE  RecvInv'
<1>1. PumpIdle /\ pump = IdlePump /\ Kept(me, me, s) /\ me \in MeTypes /\ RecvTyped
      /\ EntryOK(me.e[s]) /\ (me.e[s].stored => me.e[s].recv # "idle") /\ me.e[s] \in Entries
  BY KeptSelf, EntryIdle DEF RecvData, PumpIdle
<1>2. PICK len \in scene.lens, pad \in Pads, end \in BOOLEAN,
           bad \in {FALSE} \cup {b \in {TRUE} : "bad" \in scene.env} :
         LET sz == len + pad
             swallowed == ReclaimConn([me EXCEPT !.conn = Consume(@, sz)], sz)
             dropped == DropClosed(swallowed, s)
         IN  CASE Lookup(me, s) = "live" ->
                    IF me.e[s].recv = "streaming" THEN DataOn(s, len, pad, end, bad)
                    ELSE Verdict(me, <<>>, "conn", s)
               [] Lookup(me, s) = "idle" -> Verdict(me, <<>>, "conn", s)
               [] Lookup(me, s) = "ignore" ->
                    IF HasWindow(me.conn, sz) THEN Verdict(swallowed, <<>>, "none", s)
                    ELSE Verdict(me, <<>>, "conn", s)
               [] Lookup(me, s) = "closed" ->
                    IF HasWindow(me.conn, sz) THEN Verdict(dropped, <<>>, "stream", s)
                    ELSE Verdict(DropClosed(me, s), <<>>, "conn", s)
  BY Zenon DEF RecvData
<1>3. len \in Nat /\ pad \in Nat
  BY <1>1, ItemsTyped, Consts
<1>4. PICK sz \in Nat : sz = len + pad
  BY <1>3
<1>5. PICK swallowed : swallowed = ReclaimConn([me EXCEPT !.conn = Consume(@, sz)], sz)
  OBVIOUS
<1>6. HasWindow(me.conn, sz) => Kept(me, swallowed, s) /\ swallowed.e = me.e
  BY <1>1, <1>5, SwallowKept
<1>7. CASE Verdict(me, <<>>, "conn", s)
  BY <1>1, <1>7, NothingStep
<1>8. CASE Lookup(me, s) = "live" /\ me.e[s].recv = "streaming"
  <2>1. DataOn(s, len, pad, end, bad)
    BY <1>2, <1>8
  <2>2. Flows(me.e[s]) /\ bad \in BOOLEAN
    BY <1>8, LookupFacts DEF Flows
  <2>3. PICK l \in Nat : l = len
    BY <1>3
  <2>4. PICK p \in Nat : p = pad
    BY <1>3
  <2>5. DataOn(s, l, p, end, bad) /\ l \in scene.lens
    BY <2>1, <2>3, <2>4
  <2> QED BY <1>1, <1>8, <2>2, <2>5, DataOnStep
<1>9. CASE Lookup(me, s) = "ignore" /\ HasWindow(me.conn, sz)
  <2>1. Verdict(swallowed, <<>>, "none", s)
    BY <1>2, <1>4, <1>5, <1>9
  <2> QED BY <1>1, <1>6, <1>9, <2>1, NothingStep
<1>10. CASE Lookup(me, s) = "closed"
  <2>1. me.e[s].recv # "idle" /\ (me.e[s].stored => me.e[s].cause # "none")
    BY <1>10, LookupFacts
  <2>2. CASE HasWindow(me.conn, sz)
    <3>1. Verdict(DropClosed(swallowed, s), <<>>, "stream", s)
      BY <1>2, <1>4, <1>5, <1>10, <2>2
    <3>2. swallowed \in MeTypes
      BY <1>6, <2>2 DEF Kept, Steady
    <3>3. Kept(swallowed, DropClosed(swallowed, s), s) /\ DropClosed(swallowed, s).e[s] = DroppedEntry(me.e[s])
      BY <1>6, <2>2, <3>2, DropClosedKept
    <3>4. Kept(me, DropClosed(swallowed, s), s)
      BY <1>6, <2>2, <3>3, KeptTwice
    <3> QED BY <1>1, <2>1, <3>1, <3>3, <3>4, DropStep
  <2>3. CASE ~HasWindow(me.conn, sz)
    <3>1. Verdict(DropClosed(me, s), <<>>, "conn", s)
      BY <1>2, <1>4, <1>10, <2>3
    <3>2. Kept(me, DropClosed(me, s), s) /\ DropClosed(me, s).e[s] = DroppedEntry(me.e[s])
      BY <1>1, DropClosedKept
    <3> QED BY <1>1, <2>1, <3>1, <3>2, DropStep
  <2> QED BY <2>2, <2>3
<1>11. \/ Lookup(me, s) = "live" /\ me.e[s].recv = "streaming"
       \/ Lookup(me, s) = "ignore" /\ HasWindow(me.conn, sz)
       \/ Lookup(me, s) = "closed"
       \/ Verdict(me, <<>>, "conn", s)
  <2>1. Lookup(me, s) \in {"ignore", "closed", "live", "idle"}
    BY LookupFacts
  <2>2. Lookup(me, s) = "live" /\ me.e[s].recv # "streaming" => Verdict(me, <<>>, "conn", s)
    BY <1>2
  <2>3. Lookup(me, s) = "idle" => Verdict(me, <<>>, "conn", s)
    BY <1>2
  <2>4. Lookup(me, s) = "ignore" /\ ~HasWindow(me.conn, sz) => Verdict(me, <<>>, "conn", s)
    BY <1>2, <1>4
  <2> QED BY <2>1, <2>2, <2>3, <2>4
<1> QED BY <1>7, <1>8, <1>9, <1>10, <1>11

\* An entry of the reset store expires.
LEMMA ExpireStep ==
    ASSUME RecvInv, NEW s \in Streams, Expire(s), scene' = scene
    PROVE  RecvInv'
<1>1. me \in MeTypes /\ StreamOK(s) /\ RecvTyped /\ MeOK(me) /\ PumpOK
  BY EntryIdle DEF RecvInv
<1>2. me' = [me EXCEPT !.store = @ \ {s}] /\ pump' = pump /\ q' = q /\ rd' = rd /\ frames' = frames
  BY DEF Expire
<1>3. /\ me' \in MeTypes /\ me'.e = me.e /\ me'.conn = me.conn /\ me'.budget = me.budget
      /\ me'.store = me.store \ {s} /\ me'.active = me.active /\ me'.init = me.init
      /\ me'.goaway = me.goaway /\ me'.error = me.error
  BY <1>1, <1>2 DEF MeTypes
<1>4. Cardinality(me.store \ {s}) <= Cardinality(me.store)
  <2>1. IsFiniteSet(Streams)
    BY Consts, FS_Interval
  <2>2. IsFiniteSet(me.store)
    BY <1>1, <2>1, FS_Subset, MeFields
  <2> QED BY <2>2, FS_Subset
<1>5. Cardinality(me'.store) <= ResetMax
  <2>1. IsFiniteSet(Streams)
    BY Consts, FS_Interval
  <2>2. IsFiniteSet(me.store) /\ IsFiniteSet(me.store \ {s})
    BY <1>1, <2>1, FS_Subset, MeFields
  <2>3. Cardinality(me.store) \in Nat /\ Cardinality(me.store \ {s}) \in Nat
    BY <2>2, FS_CardinalityType
  <2> QED BY <1>1, <1>3, <1>4, <2>3, Consts DEF MeOK
<1>6. Live(me') = Live(me)
  BY <1>3 DEF Live
<1>7. MeOK(me')
  BY <1>1, <1>3, <1>5, <1>6 DEF MeOK
<1>8. Local(me, me', s)
  BY <1>3, <1>7 DEF Local
<1>9. Running' => Running
  BY <1>2, <1>3 DEF Running, Up
<1>10. Running' => Balanced(me')
  <2>1. Owed(me') = Owed(me) /\ Spent(me') = Spent(me)
    BY <1>3 DEF Owed, Spent
  <2> QED BY <1>3, <1>9, <2>1 DEF RecvInv, Balanced
<1>11. RecvTyped' /\ PumpOK'
  <2>1. RecvTyped'
    BY <1>1, <1>2, TypedSame DEF RecvTyped
  <2>2. pump.err = "over" => me'.error /\ Live(me') = {}
    BY <1>1, <1>3, <1>6 DEF PumpOK
  <2> QED BY <1>1, <1>2, <2>1, <2>2, PumpSame
<1>12. StreamOK(s)'
  <2>1. Coming(s)' = Coming(s) /\ (EndComing(s)' <=> EndComing(s)) /\ (Doubtful(s)' <=> Doubtful(s))
    BY <1>2 DEF Coming, EndComing, Doubtful
  <2>2. \A i \in DOMAIN pump'.push : pump'.push[i].on = s =>
             \E j \in DOMAIN pump.push : pump.push[j] = pump'.push[i]
    BY <1>2
  <2> QED BY <1>1, <1>2, <1>3, <1>9, <2>1, <2>2, SameStream
<1> QED BY <1>2, <1>8, <1>10, <1>11, <1>12, OneStream

\* The pump acknowledges the peer's GOAWAY, and ends.
LEMMA AckGoAwayStep ==
    ASSUME RecvInv, AckGoAway, scene' = scene
    PROVE  RecvInv'
<1>1. me \in MeTypes /\ RecvTyped /\ MeOK(me) /\ PumpOK
  BY DEF RecvInv, MeOK
<1>2. /\ pump = IdlePump /\ pump' = PumpOver /\ q' = q /\ rd' = rd /\ frames' = frames
      /\ me' = [me EXCEPT !.error = TRUE] /\ me.active = 0
  BY DEF AckGoAway, GoAwayReply
<1>3. /\ me' \in MeTypes /\ me'.e = me.e /\ me'.store = me.store /\ me'.active = me.active
      /\ me'.init = me.init /\ me'.goaway = me.goaway /\ me'.error
  BY <1>1, <1>2 DEF MeTypes
<1>4. Live(me') = Live(me) /\ Live(me) = {}
  <2>1. Live(me') = Live(me)
    BY <1>3 DEF Live
  <2>2. IsFiniteSet(Live(me)) /\ Cardinality(Live(me)) = 0
    BY <1>1, <1>2, LiveFinite DEF MeOK
  <2> QED BY <2>1, <2>2, FS_EmptySet
<1>5. MeOK(me')
  BY <1>1, <1>3, <1>4 DEF MeOK
<1>6. ~Running'
  BY <1>3 DEF Running, Up
<1>7. /\ pump.push = <<>> /\ pump.err = "none"
      /\ pump'.push = <<>> /\ pump'.err = "over" /\ pump'.on = NoStream
      /\ pump' = [push |-> <<>>, err |-> "over", on |-> NoStream]
  BY <1>2 DEF PumpOver, IdlePump
<1>8. RecvTyped'
  <2>1. pump' \in [push : Seq(Pushes), err : {"none", "stream", "conn", "over"}, on : 0..N]
    BY <1>7, Consts DEF NoStream
  <2>2. Pushes' = Pushes /\ Items' = Items /\ Rds' = Rds
    BY DEF Pushes, Items, Rds
  <2> QED BY <1>1, <1>2, <2>1, <2>2 DEF RecvTyped
<1>9. PumpOK'
  BY <1>3, <1>4, <1>7 DEF PumpOK
<1>10. ASSUME NEW u \in Streams PROVE StreamOK(u)'
  <2>1. StreamOK(u)
    BY DEF RecvInv
  <2>2. Coming(u)' = Coming(u) /\ (EndComing(u)' <=> EndComing(u)) /\ (Doubtful(u)' <=> Doubtful(u))
    BY <1>7 DEF Coming, EndComing, Doubtful
  <2>3. \A i \in DOMAIN pump'.push : FALSE
    BY <1>7
  <2> QED BY <1>2, <1>3, <1>6, <1>7, <2>1, <2>2, <2>3, SameStream
<1> QED BY <1>5, <1>6, <1>8, <1>9, <1>10 DEF RecvInv

\* What is on its way is counted in bytes.
LEMMA ComingNat ==
    ASSUME NEW s \in Streams, RecvTyped
    PROVE  Coming(s) \in Nat
<1> DEFINE f == [i \in DOMAIN pump.push |-> IF pump.push[i].on = s THEN pump.push[i].item.len ELSE 0]
<1>1. pump.push \in Seq(Pushes)
  BY DEF RecvTyped
<1>2. Len(pump.push) \in Nat /\ DOMAIN pump.push = 1..Len(pump.push)
      /\ \A i \in DOMAIN pump.push : pump.push[i] \in Pushes
  BY <1>1
<1>3. \A i \in DOMAIN pump.push : pump.push[i].item.len \in Nat
  BY <1>2, ItemsTyped DEF Pushes
<1>4. \A i \in 1..Len(pump.push) : f[i] \in Nat
  BY <1>2, <1>3
<1> HIDE DEF f
<1>5. SumTo(f, Len(pump.push)) \in Nat
  BY <1>2, <1>4, SumNat
<1> QED BY <1>5 DEF Coming, f

\* The reader gives back what it holds.
LEMMA ReaderStep ==
    ASSUME RecvInv, NEW s \in Streams, scene' = scene, pump' = pump, q' = q, frames' = frames,
           NEW r \in Rds, rd' = [rd EXCEPT ![s] = r],
           Steady(me, me', s), Running => Kept(me, me', s),
           NEW x, NEW y, x = me.e[s], y = me'.e[s], SameBody(x, y), EntryOK(y), y.recv # "idle",
           y.cause = x.cause, y.fin => x.fin, y.stored => x.stored /\ (x.fin => y.fin),
           rd[s].pc # "over", r.pc # "over", r.end = rd[s].end, r.got = rd[s].got,
           r.pc \in {"charge", "release"} => r.item.kind = "chunk",
           OwesOK(s)'
    PROVE  RecvInv'
<1>1. me \in MeTypes /\ StreamOK(s) /\ RecvTyped /\ MeOK(me) /\ PumpOK
  BY EntryIdle DEF RecvInv
<1>2. Local(me, me', s) /\ Live(me') \subseteq Live(me) /\ (me.error => me'.error)
      /\ me'.goaway = me.goaway
  BY SteadyLocal DEF Steady
<1>3. Running' => Running
  BY <1>2 DEF Running, Up
<1>4. Running' => Balanced(me')
  BY <1>3 DEF RecvInv, Kept
<1>5. rd' \in [Streams -> Rds] /\ rd'[s] = r /\ \A u \in Streams \ {s} : rd'[u] = rd[u]
  BY <1>1 DEF RecvTyped
<1>6. RecvTyped'
  BY <1>1, <1>5, TypedSame DEF RecvTyped
<1>7. PumpOK'
  <2>1. pump.err = "over" => me'.error /\ Live(me') = {}
    BY <1>1, <1>2 DEF PumpOK
  <2> QED BY <1>1, <2>1, PumpSame
<1>8. Coming(s)' = Coming(s) /\ (EndComing(s)' <=> EndComing(s)) /\ (Doubtful(s)' <=> Doubtful(s))
  BY DEF Coming, EndComing, Doubtful
<1>9. EndIn(s)' <=> EndIn(s)
  BY DEF EndIn
<1>10. BytesIn(q[s])' = BytesIn(q[s])
  BY DEF BytesIn
<1>11. y.recv = x.recv /\ y.total = x.total /\ y.app = x.app /\ y.spoiled = x.spoiled
  BY DEF SameBody
<1>12. EntryOK(me.e[s])' /\ IdleOK(s)' /\ ReaderOK(s)'
  <2>1. EntryOK(me.e[s])'
    BY DEF EntryOK
  <2>2. IdleOK(s)'
    BY DEF IdleOK
  <2>3. ReaderOK(s)
    BY <1>1 DEF StreamOK
  <2>4. ReaderOK(s)'
    BY <1>5, <1>11, <2>3 DEF ReaderOK
  <2> QED BY <2>1, <2>2, <2>4
<1>13. DoubtOK(s)'
  <2>1. DoubtOK(s)
    BY <1>1 DEF StreamOK
  <2> QED BY <1>8, <1>11, <2>1 DEF DoubtOK
<1>14. WholeSoFar(s)'
  <2>1. WholeSoFar(s)
    BY <1>1 DEF StreamOK
  <2>2. Flows(y) => Flows(x)
    BY <1>11 DEF Flows
  <2> QED BY <1>5, <1>8, <1>9, <1>10, <1>11, <2>1, <2>2 DEF WholeSoFar
<1>15. EofInQueue(s)'
  <2>1. EofInQueue(s)
    BY <1>1 DEF StreamOK
  <2> QED BY <1>5, <1>11, <2>1 DEF EofInQueue, Before
<1>16. EofOnItsWay(s)'
  <2>1. EofOnItsWay(s)
    BY <1>1 DEF StreamOK
  <2> QED BY <1>5, <1>8, <1>9, <1>10, <1>11, <2>1 DEF EofOnItsWay
<1>17. Told(s)' /\ ToldBefore(s)'
  <2>1. Told(s) /\ ToldBefore(s)
    BY <1>1 DEF StreamOK
  <2> QED BY <1>5, <1>8, <1>9, <1>11, <2>1 DEF Told, ToldBefore
<1>18. StreamOK(s)'
  BY <1>12, <1>13, <1>14, <1>15, <1>16, <1>17 DEF StreamOK
<1> QED BY <1>2, <1>4, <1>5, <1>6, <1>7, <1>18, OneStream

\* release_capacity.
LEMMA ReleaseStep ==
    ASSUME RecvInv, NEW s \in Streams, Release(s), scene' = scene
    PROVE  RecvInv'
<1> DEFINE x == me.e[s]
           k == rd[s].item.len
<1>1. me \in MeTypes /\ StreamOK(s) /\ RecvTyped /\ x \in Entries /\ EntryOK(x)
  BY EntryIdle
<1>2. /\ rd[s].pc = "release" /\ me' = ReleaseCapacity(me, s, k)
      /\ rd' = [rd EXCEPT ![s].pc = "wait", ![s].item = EndOfBody]
      /\ pump' = pump /\ q' = q /\ frames' = frames
  BY DEF Release
<1>3. rd[s] \in Rds /\ rd[s].item \in Items /\ EndOfBody \in Items /\ k \in Nat
      /\ q[s] \in Seq(ItemTypes)
  BY <1>1, ItemsTyped
<1>4. PICK r : r = [rd[s] EXCEPT !.pc = "wait", !.item = EndOfBody]
  OBVIOUS
<1>5. r \in Rds /\ r.pc = "wait" /\ r.end = rd[s].end /\ r.got = rd[s].got
  BY <1>3, <1>4 DEF Rds
<1>6. rd' = [rd EXCEPT ![s] = r]
  BY <1>1, <1>2, <1>4 DEF RecvTyped
<1>7. x.recv # "idle"
  BY <1>1, <1>2 DEF StreamOK, IdleOK, Reading
<1>8. PICK y : y = ReleasedEntry(x, k)
  OBVIOUS
<1>9. /\ Steady(me, me', s)
      /\ k <= x.unrel => Kept(me, me', s)
      /\ y = me'.e[s]
  BY <1>1, <1>2, <1>3, <1>8, ReleaseCapacityKept
<1>10. Held(s) = k /\ Held(s)' = 0
  <2>1. rd'[s] = r
    BY <1>1, <1>6 DEF RecvTyped
  <2> QED BY <1>2, <1>5, <2>1 DEF Held
<1>11. Coming(s)' = Coming(s) /\ BytesIn(q[s])' = BytesIn(q[s]) /\ (Doubtful(s)' <=> Doubtful(s))
       /\ (Running' => Running) /\ me'.init = me.init
  <2>1. Coming(s)' = Coming(s) /\ (Doubtful(s)' <=> Doubtful(s))
    BY <1>2 DEF Coming, Doubtful
  <2>2. BytesIn(q[s])' = BytesIn(q[s])
    BY <1>2 DEF BytesIn
  <2>3. Running' => Running
    BY <1>2, <1>9 DEF Running, Up, Steady
  <2> QED BY <1>9, <2>1, <2>2, <2>3 DEF Steady
<1>12. Coming(s) \in Nat /\ BytesIn(q[s]) \in Nat
  BY <1>1, <1>3, BytesNat, ComingNat
<1>13. Running /\ x.stored /\ ~x.reclaimed => x.unrel = BytesIn(q[s]) + Coming(s) + k /\ k <= x.unrel
  <2>1. OwesOK(s)
    BY <1>1 DEF StreamOK
  <2>2. Running /\ x.stored /\ ~x.reclaimed => x.unrel = BytesIn(q[s]) + Coming(s) + k
    BY <1>10, <2>1 DEF OwesOK
  <2> QED BY <1>3, <1>12, <2>2
<1>14. CASE ~x.stored \/ x.reclaimed
  <2>1. y = x /\ me' = me
    BY <1>2, <1>8, <1>14 DEF ReleasedEntry, ReleaseCapacity
  <2>2. Kept(me, me', s)
    BY <2>1, KeptSelf
  <2>3. OwesOK(s)'
    <3>1. OwesOK(s)
      BY <1>1 DEF StreamOK
    <3> QED BY <1>9, <1>11, <1>14, <2>1, <3>1 DEF OwesOK
  <2>4. SameBody(x, y)
    BY <2>1 DEF SameBody
  <2> HIDE DEF x
  <2>5. x = me.e[s]
    BY DEF x
  <2> QED BY <1>1, <1>2, <1>5, <1>6, <1>7, <1>9, <2>1, <2>2, <2>3, <2>4, <2>5, ReaderStep
<1>15. CASE x.stored /\ ~x.reclaimed
  <2>1. PICK z : z = GivenEntry(x, k)
    OBVIOUS
  <2>2. y = SettledEntry(z)
    BY <1>8, <1>15, <2>1 DEF ReleasedEntry
  <2>3. /\ z \in Entries /\ z.unrel = Less(x.unrel, k)
        /\ z.flow.avail = x.flow.avail + k /\ (~Ended(x) => Tight(z.flow))
        /\ z.charged = x.charged
    <3>1. PICK w \in Entries : w = x
      BY <1>1
    <3> QED BY <1>3, <2>1, <3>1, GivenFields
  <2>4. /\ z.recv = x.recv /\ z.cause = x.cause /\ (z.app <=> x.app) /\ (z.spoiled <=> x.spoiled)
        /\ (z.reclaimed <=> x.reclaimed) /\ z.total = x.total /\ (z.stored <=> x.stored)
        /\ (z.fin <=> x.fin)
    BY <1>1, <2>1 DEF GivenEntry, Entries
  <2>5. /\ SameBody(z, y) /\ y.cause = z.cause /\ y.fin = z.fin /\ y.unrel = z.unrel
        /\ y.charged = z.charged /\ y.flow = z.flow /\ y.reclaimed = z.reclaimed
        /\ y.stored <=> z.stored /\ ~(z.fin /\ z.unrel = 0 /\ z.charged = 0)
    BY <2>2, <2>3, SettledFacts
  <2>6. /\ y.recv = x.recv /\ y.cause = x.cause /\ (y.app <=> x.app) /\ (y.spoiled <=> x.spoiled)
        /\ y.total = x.total /\ (y.fin <=> x.fin)
    BY <2>4, <2>5 DEF SameBody
  <2>7. EntryOK(y)
    <3>1. EntryOK(x)
      BY <1>1
    <3>2. x.unrel \in Nat /\ x.charged \in Nat
      BY <1>1, EntryFields
    <3>3. z.unrel \in Nat /\ z.charged \in Nat
      BY <2>3, EntryFields
    <3> HIDE DEF x
    <3> QED BY <1>7, <1>15, <2>3, <2>4, <2>5, <2>6, <3>1, <3>2, <3>3 DEF EntryOK
  <2>8. SameBody(x, y)
    <3>1. y \in Entries
      BY <2>2, <2>3, SettledFields
    <3>2. x.app \in BOOLEAN /\ y.app \in BOOLEAN /\ x.spoiled \in BOOLEAN /\ y.spoiled \in BOOLEAN
      BY <1>1, <3>1, EntryFields
    <3> QED BY <2>6, <3>2 DEF SameBody
  <2>9. Running => Kept(me, me', s)
    BY <1>9, <1>13, <1>15
  <2>10. OwesOK(s)'
    <3>1. SUFFICES ASSUME Running, y.stored
                   PROVE  /\ ~y.reclaimed => y.unrel = BytesIn(q[s]) + Coming(s)
                          /\ Flows(y) /\ ~Doubtful(s) => FlowOK(y, me.init)
      BY <1>9, <1>10, <1>11, <1>12 DEF OwesOK
    <3>2. z.unrel = x.unrel - k /\ x.unrel \in Nat
      BY <1>1, <1>3, <1>13, <1>15, <2>3, <3>1, EntryFields DEF Less
    <3>3. y.unrel = BytesIn(q[s]) + Coming(s)
      BY <1>3, <1>12, <1>13, <1>15, <2>5, <3>1, <3>2
    <3>4. ASSUME Flows(y), ~Doubtful(s) PROVE FlowOK(y, me.init)
      <4>1. Flows(x)
        BY <1>15, <2>6, <3>4 DEF Flows
      <4>2. FlowOK(x, me.init)
        BY <1>1, <1>15, <3>1, <3>4, <4>1 DEF StreamOK, OwesOK
      <4>3. ~Ended(x)
        BY <4>1 DEF Ended, Flows
      <4>4. x.flow.avail \in Int
        BY <1>1, EntryFields
      <4>5. x.flow.avail + x.unrel = me.init
        BY <4>2 DEF FlowOK
      <4>6. y.flow.avail + y.unrel = me.init
        BY <1>3, <2>3, <2>5, <3>2, <4>4, <4>5
      <4> QED BY <2>3, <2>5, <4>3, <4>6 DEF FlowOK
    <3> QED BY <3>3, <3>4
  <2>11. y.stored => x.stored /\ (x.fin => y.fin)
    BY <1>15, <2>6
  <2> HIDE DEF x
  <2>12. x = me.e[s]
    BY DEF x
  <2> QED BY <1>2, <1>5, <1>6, <1>7, <1>9, <2>6, <2>7, <2>8, <2>9, <2>10, <2>11, <2>12, ReaderStep
<1> QED BY <1>14, <1>15

\* What a frame was charged is given back, and no more than the stream still pays.
Returned(m, s, c) == Settle([m EXCEPT !.e[s].charged = @ - c, !.budget = Replenish(@, c)], s)

\* ... and the books are kept.
LEMMA ReturnKept ==
    ASSUME NEW m \in MeTypes, NEW s \in Streams, NEW c \in Nat, c <= m.e[s].charged
    PROVE  /\ Kept(m, Returned(m, s, c), s)
           /\ Returned(m, s, c).e[s] = SettledEntry([m.e[s] EXCEPT !.charged = m.e[s].charged - c])
<1> DEFINE x == m.e[s]
           y == [x EXCEPT !.charged = x.charged - c]
           b == Replenish(m.budget, c)
           n == [m EXCEPT !.e[s].charged = @ - c, !.budget = Replenish(@, c)]
<1>1. /\ m.conn \in [win : Nat, avail : Int] /\ m.conn.avail \in Int /\ m.active \in Int
      /\ m.budget \in 0..BudgetMax /\ m.budget \in Int /\ m.e \in [Streams -> Entries] /\ x \in Entries
  BY MeFields
<1>2. x.charged \in Nat /\ x.charged - c \in Nat /\ x.unrel \in Nat
  BY <1>1, EntryFields
<1>3. y \in Entries /\ y.charged = x.charged - c /\ y.stored = x.stored /\ y.fin = x.fin /\ y.unrel = x.unrel
  BY <1>1, <1>2 DEF Entries
<1>4. b \in 0..BudgetMax /\ (b = m.budget + c \/ b >= BudgetMax)
  BY <1>1, Consts DEF Replenish
<1>5. n = With(m, s, y, m.conn, b)
  <2>1. [m.e EXCEPT ![s].charged = @ - c] = [m.e EXCEPT ![s] = y]
    BY <1>1
  <2>2. n = [m EXCEPT !.e = [m.e EXCEPT ![s] = y], !.budget = b]
    BY <2>1
  <2> HIDE DEF y, b, n, x
  <2> QED BY <2>2 DEF With, MeTypes
<1> HIDE DEF y, b, n, x
<1>6. Fields(m, n, s, y, m.conn, b)
  BY <1>1, <1>3, <1>4, <1>5, Update
<1>7. s \in Live(n) <=> s \in Live(m)
  BY <1>3, <1>6 DEF Live, Fields, x
<1>8. n.active = m.active - (IF s \in Live(m) /\ s \notin Live(n) THEN 1 ELSE 0)
  BY <1>1, <1>6, <1>7 DEF Fields
<1>9. Steady(m, n, s)
  BY <1>6, <1>7, <1>8, SteadyFrom DEF Fields
<1>10. Owes(y) = Owes(x) /\ (x.stored => Pays(y) = x.charged - c /\ Pays(x) = x.charged)
       /\ (~x.stored => Pays(y) = 0 /\ Pays(x) = 0)
  BY <1>3 DEF Owes, Pays
<1>11. n.conn = m.conn /\ n.budget = b /\ n.e[s] = y /\ n \in MeTypes /\ m.e[s] = x
  BY <1>6 DEF Fields, x
<1>12. n.conn.avail + Owes(n.e[s]) = m.conn.avail + Owes(m.e[s])
  BY <1>1, <1>10, <1>11
<1>13. n.budget + Pays(n.e[s]) >= m.budget + Pays(m.e[s]) \/ n.budget >= BudgetMax
  <2>1. CASE x.stored
    BY <1>1, <1>2, <1>4, <1>10, <1>11, <2>1
  <2>2. CASE ~x.stored
    BY <1>1, <1>2, <1>4, <1>10, <1>11, <2>2
  <2> QED BY <2>1, <2>2
<1>14. Kept(m, n, s)
  BY <1>9, <1>10, <1>11, <1>12, <1>13, KeptFrom
<1>15. Kept(n, Settle(n, s), s) /\ Settle(n, s).e[s] = SettledEntry(y)
  BY <1>11, SettleKept
<1>16. Returned(m, s, c) = Settle(n, s)
  BY DEF Returned, n
<1> QED BY <1>14, <1>15, <1>16, KeptTwice DEF y, x

\* release_data_frame.
LEMMA ReleaseDataFrameStep ==
    ASSUME RecvInv, NEW s \in Streams, ReleaseDataFrame(s), scene' = scene
    PROVE  RecvInv'
<1> DEFINE x == me.e[s]
           len == rd[s].item.len
           charge == IF Threshold - len <= x.charged THEN Threshold - len ELSE x.charged
<1>1. me \in MeTypes /\ StreamOK(s) /\ RecvTyped /\ x \in Entries /\ EntryOK(x)
  BY EntryIdle
<1>2. /\ rd[s].pc = "charge"
      /\ me' = IF ~x.stored \/ len = 0 \/ len >= Threshold THEN me
               ELSE Settle([me EXCEPT !.e[s].charged = @ - charge, !.budget = Replenish(@, charge)], s)
      /\ rd' = [rd EXCEPT ![s].pc = "release"]
      /\ pump' = pump /\ q' = q /\ frames' = frames
  BY DEF ReleaseDataFrame
<1>3. rd[s] \in Rds /\ rd[s].item \in Items /\ len \in Nat
  BY <1>1, ItemsTyped
<1>4. PICK r : r = [rd[s] EXCEPT !.pc = "release"]
  OBVIOUS
<1>5. r \in Rds /\ r.pc = "release" /\ r.end = rd[s].end /\ r.got = rd[s].got /\ r.item = rd[s].item
  BY <1>3, <1>4 DEF Rds
<1>6. rd' = [rd EXCEPT ![s] = r]
  BY <1>1, <1>2, <1>4 DEF RecvTyped
<1>7. x.recv # "idle" /\ rd[s].item.kind = "chunk"
  BY <1>1, <1>2 DEF StreamOK, IdleOK, ReaderOK, Reading
<1>8. PICK c, y : /\ c \in Nat /\ c <= x.charged
            /\ y = me'.e[s] /\ Kept(me, me', s)
            /\ \/ y = x
               \/ x.stored /\ y = SettledEntry([x EXCEPT !.charged = x.charged - c])
  <2>1. x.charged \in Nat
    BY <1>1, EntryFields
  <2>2. CASE ~x.stored \/ len = 0 \/ len >= Threshold
    <3>1. me' = me /\ Kept(me, me, s)
      BY <1>2, <2>2, KeptSelf
    <3>2. me'.e[s] = x /\ 0 \in Nat /\ 0 <= x.charged /\ Kept(me, me', s)
      BY <2>1, <3>1
    <3> HIDE DEF x
    <3> QED BY <3>2
  <2>3. CASE ~(~x.stored \/ len = 0 \/ len >= Threshold)
    <3>1. charge \in Nat /\ charge <= x.charged
      BY <1>3, <2>1, <2>3, Consts
    <3>2. PICK c \in Nat : c = charge
      BY <3>1
    <3>3. me' = Returned(me, s, c)
      BY <1>2, <2>3, <3>2 DEF Returned
    <3>4. c <= me.e[s].charged
      BY <3>1, <3>2
    <3>5. Kept(me, me', s) /\ me'.e[s] = SettledEntry([me.e[s] EXCEPT !.charged = me.e[s].charged - c])
      BY <1>1, <3>3, <3>4, ReturnKept
    <3> QED BY <2>3, <3>4, <3>5
  <2> QED BY <2>2, <2>3
<1>9. Held(s)' = Held(s)
  <2>1. rd'[s] = r
    BY <1>1, <1>6 DEF RecvTyped
  <2> QED BY <1>2, <1>5, <2>1 DEF Held
<1>10. Coming(s)' = Coming(s) /\ BytesIn(q[s])' = BytesIn(q[s]) /\ (Doubtful(s)' <=> Doubtful(s))
       /\ (Running' => Running) /\ me'.init = me.init /\ Steady(me, me', s)
  <2>1. Coming(s)' = Coming(s) /\ (Doubtful(s)' <=> Doubtful(s))
    BY <1>2 DEF Coming, Doubtful
  <2>2. BytesIn(q[s])' = BytesIn(q[s])
    BY <1>2 DEF BytesIn
  <2>3. Running' => Running
    BY <1>2, <1>8 DEF Running, Up, Kept, Steady
  <2> QED BY <1>8, <2>1, <2>2, <2>3 DEF Kept, Steady
<1>11. /\ y.recv = x.recv /\ y.cause = x.cause /\ (y.app <=> x.app) /\ (y.spoiled <=> x.spoiled)
       /\ y.total = x.total /\ (y.fin <=> x.fin) /\ y.unrel = x.unrel /\ y.flow = x.flow
       /\ (y.reclaimed <=> x.reclaimed) /\ y \in Entries /\ (y.stored => x.stored)
       /\ EntryOK(y)
  <2>1. CASE y = x
    BY <1>1, <2>1
  <2>2. CASE x.stored /\ y = SettledEntry([x EXCEPT !.charged = x.charged - c])
    <3>1. x.charged - c \in Nat
      BY <1>1, <1>8, EntryFields
    <3>2. PICK z : z = [x EXCEPT !.charged = x.charged - c]
      OBVIOUS
    <3>3. /\ z \in Entries /\ z.recv = x.recv /\ z.cause = x.cause /\ (z.app <=> x.app)
          /\ (z.spoiled <=> x.spoiled) /\ z.total = x.total /\ (z.fin <=> x.fin)
          /\ z.unrel = x.unrel /\ z.flow = x.flow /\ (z.reclaimed <=> x.reclaimed)
          /\ (z.stored <=> x.stored) /\ z.charged \in Nat /\ z.unrel \in Nat
      BY <1>1, <3>1, <3>2 DEF Entries
    <3>4. /\ y = SettledEntry(z) /\ SameBody(z, y) /\ y.cause = z.cause
          /\ y.fin = z.fin /\ y.unrel = z.unrel
          /\ y.charged = z.charged /\ y.flow = z.flow /\ y.reclaimed = z.reclaimed
          /\ y.stored <=> z.stored /\ ~(z.fin /\ z.unrel = 0 /\ z.charged = 0)
      BY <2>2, <3>2, <3>3, SettledFacts
    <3>5. y \in Entries
      BY <3>3, <3>4, SettledFields
    <3>6. EntryOK(x)
      BY <1>1
    <3>7. /\ y.recv = x.recv /\ y.cause = x.cause /\ (y.app <=> x.app) /\ (y.spoiled <=> x.spoiled)
          /\ y.total = x.total /\ (y.fin <=> x.fin)
      BY <3>3, <3>4 DEF SameBody
    <3> HIDE DEF x
    <3>8. EntryOK(y)
      BY <1>7, <2>2, <3>3, <3>4, <3>6, <3>7 DEF EntryOK
    <3> QED BY <3>3, <3>4, <3>5, <3>7, <3>8
  <2> QED BY <1>8, <2>1, <2>2
<1>12. SameBody(x, y)
  <2>1. x.app \in BOOLEAN /\ y.app \in BOOLEAN /\ x.spoiled \in BOOLEAN /\ y.spoiled \in BOOLEAN
    BY <1>1, <1>11, EntryFields
  <2> QED BY <1>11, <2>1 DEF SameBody
<1>13. OwesOK(s)'
  <2>1. OwesOK(s)
    BY <1>1 DEF StreamOK
  <2>2. Flows(y) => Flows(x)
    BY <1>11 DEF Flows
  <2>3. FlowOK(x, me.init) => FlowOK(y, me.init)
    BY <1>11 DEF FlowOK
  <2> QED BY <1>8, <1>9, <1>10, <1>11, <2>1, <2>2, <2>3 DEF OwesOK
<1> HIDE DEF x
<1>14. x = me.e[s]
  BY DEF x
<1>15. /\ y = me'.e[s] /\ EntryOK(y) /\ y.recv # "idle" /\ y.cause = x.cause /\ (y.fin => x.fin)
       /\ (y.stored => x.stored /\ (x.fin => y.fin)) /\ (Running => Kept(me, me', s))
  BY <1>7, <1>8, <1>11
<1>16. /\ rd[s].pc # "over" /\ r.pc # "over" /\ r.end = rd[s].end /\ r.got = rd[s].got
       /\ r.pc \in {"charge", "release"} => r.item.kind = "chunk"
       /\ pump' = pump /\ q' = q /\ frames' = frames
  BY <1>2, <1>5, <1>7
<1> QED BY <1>5, <1>6, <1>10, <1>12, <1>13, <1>14, <1>15, <1>16, ReaderStep

\* The reader takes an item of the queue.
LEMMA ReceiveStep ==
    ASSUME RecvInv, NEW s \in Streams, Receive(s), scene' = scene
    PROVE  RecvInv'
<1> DEFINE x == me.e[s]
<1>1. me \in MeTypes /\ StreamOK(s) /\ RecvTyped /\ x \in Entries /\ MeOK(me) /\ PumpOK
  BY EntryIdle DEF RecvInv
<1>2. PICK items, item, rest : items = q[s] /\ item = Head(items) /\ rest = Tail(items)
  OBVIOUS
<1>3. /\ rd[s].pc = "wait" /\ items # <<>> /\ q' = [q EXCEPT ![s] = rest]
      /\ me' = me /\ pump' = pump /\ frames' = frames
  BY <1>2 DEF Receive
<1>4. rd[s] \in Rds /\ items \in Seq(Items) /\ items \in Seq(ItemTypes) /\ rd[s].got \in Nat
      /\ Items \subseteq ItemTypes
  BY <1>1, <1>2, ItemsTyped
<1>5. item \in Items /\ item = items[1] /\ rest \in Seq(Items) /\ Len(items) \in Nat /\ Len(items) > 0
      /\ DOMAIN items = 1..Len(items)
  BY <1>2, <1>3, <1>4
<1>6. Len(rest) = Len(items) - 1 /\ DOMAIN rest = 1..Len(items) - 1 /\ \A i \in DOMAIN rest : rest[i] = items[i + 1]
  BY <1>2, <1>4, <1>5
<1>7. item.len \in Nat /\ item.kind \in {"chunk", "eof", "stop"} /\ item.budgeted \in BOOLEAN
  BY <1>4, <1>5 DEF ItemTypes
<1>8. PICK r : r = IF item.kind = "chunk"
                   THEN [rd[s] EXCEPT !.pc = IF item.budgeted THEN "charge" ELSE "release",
                                      !.item = item, !.got = rd[s].got + item.len]
                   ELSE [rd[s] EXCEPT !.pc = "over", !.end = item.kind]
  OBVIOUS
<1>9. /\ rd' = [rd EXCEPT ![s] = r]
  <2>1. rd \in [Streams -> Rds] /\ rd[s] \in Rds
    BY <1>1, <1>4 DEF RecvTyped
  <2>2. CASE item.kind = "chunk"
    <3>1. rd' = [rd EXCEPT ![s] = [rd[s] EXCEPT !.pc = IF item.budgeted THEN "charge" ELSE "release",
                                                !.item = item, !.got = rd[s].got + item.len]]
      <4> DEFINE it == Head(q[s])
                 one == [rd[s] EXCEPT !.pc = IF it.budgeted THEN "charge" ELSE "release",
                                      !.item = it, !.got = rd[s].got + it.len]
                 other == [rd[s] EXCEPT !.pc = "over", !.end = it.kind]
      <4>1. rd' = [rd EXCEPT ![s] = CASE it.kind = "chunk" -> one [] OTHER -> other]
        BY Zenon DEF Receive
      <4>2. it = item
        BY <1>2
      <4> HIDE DEF one, other
      <4>3. rd' = [rd EXCEPT ![s] = one]
        BY <2>2, <4>1, <4>2
      <4> QED BY <4>2, <4>3 DEF one
    <3> QED BY <1>8, <2>2, <3>1
  <2>3. CASE item.kind # "chunk"
    <3>1. rd' = [rd EXCEPT ![s] = [rd[s] EXCEPT !.pc = "over", !.end = item.kind]]
      BY <1>2, <2>3 DEF Receive
    <3> QED BY <1>8, <2>3, <3>1
  <2> QED BY <2>2, <2>3
<1>10. item.kind = "chunk" =>
         /\ r \in Rds /\ r.pc \in {"charge", "release"} /\ r.item = item /\ r.end = rd[s].end
         /\ r.got = rd[s].got + item.len
  <2>1. SUFFICES ASSUME item.kind = "chunk"
                 PROVE  /\ r \in Rds /\ r.pc \in {"charge", "release"} /\ r.item = item
                        /\ r.end = rd[s].end /\ r.got = rd[s].got + item.len
    OBVIOUS
  <2>2. PICK p \in {"charge", "release"} : p = IF item.budgeted THEN "charge" ELSE "release"
    OBVIOUS
  <2>3. PICK g \in Nat : g = rd[s].got + item.len
    BY <1>4, <1>7
  <2>4. r = [rd[s] EXCEPT !.pc = p, !.item = item, !.got = g]
    BY <1>8, <2>1, <2>2, <2>3
  <2> QED BY <1>4, <1>5, <2>3, <2>4 DEF Rds
<1>11. item.kind # "chunk" =>
         r \in Rds /\ r.pc = "over" /\ r.item = rd[s].item /\ r.end = item.kind /\ r.got = rd[s].got
  BY <1>4, <1>7, <1>8 DEF Rds
<1>12. /\ q'[s] = rest /\ rd'[s] = r /\ \A u \in Streams \ {s} : q'[u] = q[u] /\ rd'[u] = rd[u]
       /\ q' \in [Streams -> Seq(Items)] /\ rd' \in [Streams -> Rds]
  BY <1>1, <1>3, <1>5, <1>9, <1>10, <1>11 DEF RecvTyped
<1>13. /\ Coming(s)' = Coming(s) /\ (EndComing(s)' <=> EndComing(s)) /\ (Doubtful(s)' <=> Doubtful(s))
       /\ (Running' <=> Running) /\ Coming(s) \in Nat
  BY <1>1, <1>3, ComingNat DEF Coming, EndComing, Doubtful, Running, Up
<1>14. /\ BytesIn(items) = item.len + BytesIn(rest)
       /\ \A i \in 1..Len(items) : Before(items, i) = item.len + Before(rest, i - 1)
       /\ BytesIn(q[s]) = BytesIn(items) /\ BytesIn(q[s])' = BytesIn(rest)
       /\ BytesIn(rest) \in Nat /\ \A i \in 0..Len(rest) : Before(rest, i) \in Nat
  <2>1. /\ BytesIn(items) = item.len + BytesIn(rest)
        /\ \A i \in 1..Len(items) : Before(items, i) = item.len + Before(rest, i - 1)
    BY <1>2, <1>3, <1>4, <1>5, BytesTail
  <2>2. BytesIn(q[s]) = BytesIn(items)
    BY <1>2
  <2>3. BytesIn(q[s])' = BytesIn(rest)
    BY <1>12 DEF BytesIn
  <2>4. rest \in Seq(ItemTypes)
    BY <1>2, <1>3, <1>4
  <2>5. BytesIn(rest) \in Nat /\ \A i \in 0..Len(rest) : Before(rest, i) \in Nat
    BY <2>4, BytesNat
  <2> QED BY <2>1, <2>2, <2>3, <2>5
<1>15. item.kind = "chunk" => (EndIn(s)' <=> EndIn(s))
  <2>1. EndIn(s) <=> \E i \in 1..Len(items) : items[i].kind # "chunk"
    BY <1>2, <1>5 DEF EndIn
  <2>2. EndIn(s)' <=> \E i \in 1..Len(items) - 1 : items[i + 1].kind # "chunk"
    BY <1>6, <1>12 DEF EndIn
  <2>3. ASSUME item.kind = "chunk", NEW i \in 1..Len(items), items[i].kind # "chunk"
        PROVE  \E j \in 1..Len(items) - 1 : items[j + 1].kind # "chunk"
    <3>1. i - 1 \in 1..Len(items) - 1 /\ (i - 1) + 1 = i
      BY <1>5, <2>3
    <3> QED BY <2>3, <3>1
  <2>4. ASSUME NEW j \in 1..Len(items) - 1, items[j + 1].kind # "chunk"
        PROVE  \E i \in 1..Len(items) : items[i].kind # "chunk"
    <3>1. j + 1 \in 1..Len(items)
      BY <1>5
    <3> QED BY <2>4, <3>1
  <2> QED BY <2>1, <2>2, <2>3, <2>4
<1>16. item.kind # "chunk" => EndIn(s) /\ item.len = 0
  <2>1. 1 \in DOMAIN q[s] /\ q[s][1] = item
    BY <1>2, <1>5
  <2> QED BY <1>1, <2>1 DEF EndIn, StreamOK, ReaderOK
<1>17. Local(me, me', s) /\ (Running' => Balanced(me'))
  <2>1. Kept(me, me, s)
    BY KeptSelf
  <2> QED BY <1>1, <1>3, <1>13 DEF Local, RecvInv
<1>18. RecvTyped' /\ PumpOK'
  <2>1. RecvTyped'
    BY <1>1, <1>3, <1>12, TypedSame
  <2>2. pump.err = "over" => me'.error /\ Live(me') = {}
    BY <1>1, <1>3 DEF PumpOK
  <2> QED BY <1>1, <1>3, <2>1, <2>2, PumpSame
<1>19. EntryOK(me.e[s])' /\ DoubtOK(s)'
  BY <1>1, <1>3, <1>13 DEF StreamOK, EntryOK, DoubtOK
<1>20. IdleOK(s)'
  BY <1>1, <1>2, <1>3 DEF StreamOK, IdleOK
<1>21. EofInQueue(s)
  BY <1>1 DEF StreamOK
<1>22. item.kind = "eof" => x.recv = "ended" /\ rd[s].got = x.total
  <2>1. Before(items, 1 - 1) = 0
    <3>1. 1 - 1 = 0
      OBVIOUS
    <3>2. SumTo([j \in DOMAIN items |-> items[j].len], 0) = 0
      BY SumToDef
    <3> QED BY <3>1, <3>2 DEF Before
  <2>2. item.kind = "eof" => x.recv = "ended" /\ x.total = rd[s].got + Before(items, 1 - 1)
    <3>1. 1 \in DOMAIN q[s] /\ q[s][1] = item /\ 1..1 - 1 = {}
      BY <1>2, <1>5
    <3> QED BY <1>2, <1>3, <1>21, <3>1 DEF EofInQueue
  <2> QED BY <1>4, <2>1, <2>2
<1>23. ReaderOK(s)'
  <2>1. \A i \in DOMAIN q'[s] : q'[s][i].kind # "chunk" => q'[s][i].len = 0
    <3>1. \A i \in 1..Len(items) : items[i].kind # "chunk" => items[i].len = 0
      BY <1>1, <1>2, <1>5 DEF StreamOK, ReaderOK
    <3>2. \A i \in DOMAIN rest : i + 1 \in 1..Len(items)
      BY <1>5, <1>6
    <3> QED BY <1>6, <1>12, <3>1, <3>2
  <2>2. rd[s].end = "none"
    BY <1>1, <1>3 DEF StreamOK, ReaderOK
  <2>3. CASE item.kind = "chunk"
    BY <1>10, <1>12, <2>1, <2>2, <2>3 DEF ReaderOK
  <2>4. CASE item.kind # "chunk"
    <3>1. r.end = "eof" => item.kind = "eof"
      BY <1>11, <2>4
    <3> QED BY <1>3, <1>11, <1>12, <1>22, <2>1, <2>4, <3>1 DEF ReaderOK
  <2> QED BY <2>3, <2>4
<1>24. WholeSoFar(s)'
  <2>1. WholeSoFar(s)
    BY <1>1 DEF StreamOK
  <2>2. SUFFICES ASSUME Flows(me.e[s]), pump.err # "conn"
                 PROVE  /\ ~EndIn(s)' /\ ~EndComing(s)' /\ r.pc # "over"
                        /\ me.e[s].total = r.got + BytesIn(rest) + Coming(s)
    BY <1>3, <1>12, <1>13, <1>14 DEF WholeSoFar
  <2>3. /\ ~EndIn(s) /\ ~EndComing(s) /\ x.total = rd[s].got + BytesIn(items) + Coming(s)
    BY <1>14, <2>1, <2>2 DEF WholeSoFar
  <2>4. item.kind = "chunk"
    BY <1>16, <2>3
  <2>5. me.e[s].total = r.got + BytesIn(rest) + Coming(s)
    BY <1>4, <1>7, <1>10, <1>13, <1>14, <2>3, <2>4
  <2> QED BY <1>10, <1>13, <1>15, <2>3, <2>4, <2>5
<1>25. EofInQueue(s)'
  <2>1. SUFFICES ASSUME NEW i \in DOMAIN rest, r.pc # "over", rest[i].kind = "eof",
                        \A j \in 1..i - 1 : rest[j].kind = "chunk"
                 PROVE  x.recv = "ended" /\ x.total = r.got + Before(rest, i - 1)
    <3>1. \A i : Before(q[s], i)' = Before(rest, i)
      BY <1>12 DEF Before
    <3> QED BY <1>3, <1>12, <3>1 DEF EofInQueue
  <2>2. item.kind = "chunk"
    BY <1>11, <2>1
  <2>3. i \in 1..Len(items) - 1 /\ i + 1 \in 1..Len(items) /\ items[i + 1].kind = "eof" /\ i \in Nat
        /\ (i + 1) - 1 = i
    BY <1>5, <1>6, <2>1
  <2>4. ASSUME NEW j \in 1..i PROVE items[j].kind = "chunk"
    <3>1. CASE j = 1
      BY <1>5, <2>2, <3>1
    <3>2. CASE j # 1
      <4>1. j - 1 \in 1..i - 1 /\ j - 1 \in DOMAIN rest /\ (j - 1) + 1 = j
        BY <1>5, <1>6, <2>3, <3>2
      <4>2. items[j] = rest[j - 1]
        BY <1>6, <4>1
      <4> QED BY <2>1, <4>1, <4>2
    <3> QED BY <3>1, <3>2
  <2>5. x.recv = "ended" /\ x.total = rd[s].got + Before(items, i)
    <3>1. i + 1 \in DOMAIN q[s] /\ q[s][i + 1].kind = "eof" /\ \A j \in 1..(i + 1) - 1 : q[s][j].kind = "chunk"
      BY <1>2, <1>5, <2>3, <2>4
    <3>2. x.recv = "ended" /\ x.total = rd[s].got + Before(q[s], (i + 1) - 1)
      BY <1>3, <1>21, <3>1 DEF EofInQueue
    <3> QED BY <1>2, <2>3, <3>2
  <2>6. i \in 1..Len(items) /\ i - 1 \in 0..Len(rest)
    BY <1>5, <1>6, <2>3
  <2>7. Before(items, i) = item.len + Before(rest, i - 1) /\ Before(rest, i - 1) \in Nat
    BY <1>14, <2>6
  <2>8. x.total = r.got + Before(rest, i - 1)
    BY <1>4, <1>7, <1>10, <2>2, <2>5, <2>7
  <2> QED BY <2>5, <2>8
<1>26. EofOnItsWay(s)'
  <2>1. EofOnItsWay(s)
    BY <1>1 DEF StreamOK
  <2>2. SUFFICES ASSUME NEW i \in DOMAIN pump.push, r.pc # "over", pump.push[i].on = s,
                        pump.push[i].item.kind = "eof", ~EndIn(s)'
                 PROVE  x.recv = "ended" /\ x.total = r.got + BytesIn(rest) + Coming(s)
    BY <1>3, <1>12, <1>13, <1>14 DEF EofOnItsWay
  <2>3. item.kind = "chunk"
    BY <1>11, <2>2
  <2>4. x.recv = "ended" /\ x.total = rd[s].got + BytesIn(items) + Coming(s)
    BY <1>3, <1>14, <1>15, <2>1, <2>2, <2>3 DEF EofOnItsWay
  <2> QED BY <1>4, <1>7, <1>10, <1>13, <1>14, <2>3, <2>4
<1>27. Told(s)' /\ ToldBefore(s)'
  <2>1. Told(s) /\ ToldBefore(s)
    BY <1>1 DEF StreamOK
  <2>2. CASE item.kind = "chunk"
    BY <1>3, <1>12, <1>13, <1>15, <2>1, <2>2 DEF Told, ToldBefore
  <2>3. CASE item.kind # "chunk"
    BY <1>11, <1>12, <2>3 DEF Told, ToldBefore
  <2> QED BY <2>2, <2>3
<1>28. OwesOK(s)'
  <2>1. OwesOK(s)
    BY <1>1 DEF StreamOK
  <2>2. Held(s) = 0
    BY <1>3 DEF Held
  <2>3. Held(s)' = item.len
    BY <1>10, <1>11, <1>12, <1>16 DEF Held
  <2>4. BytesIn(q[s]) + Coming(s) + Held(s) = BytesIn(q[s])' + Coming(s)' + Held(s)'
    BY <1>7, <1>13, <1>14, <2>2, <2>3
  <2> QED BY <1>3, <1>13, <2>1, <2>4 DEF OwesOK
<1>29. StreamOK(s)'
  BY <1>19, <1>20, <1>23, <1>24, <1>25, <1>26, <1>27, <1>28 DEF StreamOK
<1> QED BY <1>3, <1>12, <1>17, <1>18, <1>29, OneStream

\* What is on its way to a stream is as it was, or less.
PumpFor(s) ==
    /\ Coming(s)' = Coming(s) /\ (EndComing(s)' <=> EndComing(s))
    /\ \A i \in DOMAIN pump'.push : pump'.push[i].on = s =>
          \E j \in DOMAIN pump.push : pump.push[j] = pump'.push[i]

\* A stream whose entry changes, and nothing its reader is told.
LEMMA SameBodyStream ==
    ASSUME NEW s \in Streams, StreamOK(s), q'[s] = q[s], rd'[s] = rd[s], PumpFor(s),
           NEW x, NEW y, x = me.e[s], y = me'.e[s], SameBody(x, y), EntryOK(y),
           pump'.err = "stream" /\ pump'.on = s => pump.err = "stream" /\ pump.on = s,
           Flows(y) /\ pump'.err # "conn" => Flows(x) /\ pump.err # "conn",
           y.fin => x.fin \/ x.recv = "ended",
           y.cause = "after" => x.cause = "after",
           DoubtOK(s)', OwesOK(s)'
    PROVE  StreamOK(s)'
<1>1. EntryOK(me.e[s])'
  BY DEF EntryOK
<1>2. y.recv = x.recv /\ y.total = x.total /\ y.app = x.app /\ y.spoiled = x.spoiled
  BY DEF SameBody
<1>3. /\ Coming(s)' = Coming(s) /\ (EndComing(s)' <=> EndComing(s))
      /\ \A i \in DOMAIN pump'.push : pump'.push[i].on = s =>
            \E j \in DOMAIN pump.push : pump.push[j] = pump'.push[i]
  BY DEF PumpFor
<1>4. IdleOK(s)'
  <2>1. IdleOK(s)
    BY DEF StreamOK
  <2> QED BY <1>2, <1>3, <2>1 DEF IdleOK
<1>5. ReaderOK(s)'
  <2>1. ReaderOK(s)
    BY DEF StreamOK
  <2> QED BY <1>2, <2>1 DEF ReaderOK
<1>6. (EndIn(s)' <=> EndIn(s)) /\ BytesIn(q[s])' = BytesIn(q[s])
  BY DEF EndIn, BytesIn
<1>7. WholeSoFar(s)'
  <2>1. WholeSoFar(s)
    BY DEF StreamOK
  <2> QED BY <1>2, <1>3, <1>6, <2>1 DEF WholeSoFar
<1>8. EofInQueue(s)'
  <2>1. EofInQueue(s)
    BY DEF StreamOK
  <2> QED BY <1>2, <2>1 DEF EofInQueue, Before
<1>9. EofOnItsWay(s)'
  <2>1. EofOnItsWay(s)
    BY DEF StreamOK
  <2> QED BY <1>2, <1>3, <1>6, <2>1 DEF EofOnItsWay
<1>10. Told(s)' /\ ToldBefore(s)'
  <2>1. Told(s) /\ ToldBefore(s)
    BY DEF StreamOK
  <2> QED BY <1>2, <1>3, <1>6, <2>1 DEF Told, ToldBefore
<1> QED BY <1>1, <1>4, <1>5, <1>7, <1>8, <1>9, <1>10 DEF StreamOK

\* What an item appended to a queue changes.
LEMMA Appended ==
    ASSUME NEW s \in Streams, RecvTyped, NEW it \in {EndOfBody, Stopped}, q'[s] = Append(q[s], it)
    PROVE  /\ EndIn(s)' /\ BytesIn(q[s])' = BytesIn(q[s])
           /\ Len(q[s]) \in Nat /\ DOMAIN q[s] = 1..Len(q[s]) /\ DOMAIN q'[s] = 1..Len(q[s]) + 1
           /\ \A i \in 1..Len(q[s]) : q'[s][i] = q[s][i]
           /\ q'[s][Len(q[s]) + 1] = it
           /\ \A i \in 0..Len(q[s]) : Before(q'[s], i) = Before(q[s], i)
           /\ BytesIn(q[s]) = Before(q[s], Len(q[s]))
           /\ it.len = 0 /\ it.kind # "chunk" /\ it \in Items /\ q'[s] \in Seq(Items)
<1>1. q[s] \in Seq(Items) /\ q[s] \in Seq(ItemTypes) /\ Items \subseteq ItemTypes
      /\ EndOfBody \in Items /\ Stopped \in Items
  BY ItemsTyped
<1>2. it \in Items /\ it \in ItemTypes /\ it.len = 0 /\ it.kind # "chunk"
  <2>1. it = EndOfBody \/ it = Stopped
    OBVIOUS
  <2>2. it \in Items /\ it \in ItemTypes
    BY <1>1, <2>1
  <2>3. EndOfBody.len = 0 /\ EndOfBody.kind # "chunk" /\ Stopped.len = 0 /\ Stopped.kind # "chunk"
    BY DEF EndOfBody, Stopped
  <2> QED BY <2>1, <2>2, <2>3
<1>3. /\ Len(q[s]) \in Nat /\ DOMAIN q[s] = 1..Len(q[s]) /\ DOMAIN q'[s] = 1..Len(q[s]) + 1
      /\ \A i \in 1..Len(q[s]) : q'[s][i] = q[s][i]
      /\ q'[s][Len(q[s]) + 1] = it
      /\ q'[s] \in Seq(Items)
  BY <1>1, <1>2
<1>4. EndIn(s)'
  BY <1>2, <1>3 DEF EndIn
<1>5. /\ BytesIn(Append(q[s], it)) = BytesIn(q[s]) + it.len
      /\ \A i \in 0..Len(q[s]) : Before(Append(q[s], it), i) = Before(q[s], i)
  BY <1>1, <1>2, BytesAppend
<1>6. BytesIn(q[s])' = BytesIn(Append(q[s], it))
  BY DEF BytesIn
<1>7. BytesIn(q[s]) \in Nat /\ BytesIn(q[s]) = Before(q[s], Len(q[s]))
  BY <1>1, BytesNat
<1>8. BytesIn(q[s])' = BytesIn(q[s])
  BY <1>2, <1>5, <1>6, <1>7
<1>9. \A i \in 0..Len(q[s]) : Before(q'[s], i) = Before(q[s], i)
  BY <1>5
<1> QED BY <1>2, <1>3, <1>4, <1>7, <1>8, <1>9

\* A stream that ends, or whose reader does, and what its reader is told.
LEMMA OverStream ==
    ASSUME RecvTyped, NEW s \in Streams, StreamOK(s), PumpFor(s),
           NEW x, NEW y, x = me.e[s], y = me'.e[s], SameBody(x, y), EntryOK(y), y.recv # "idle",
           ~Flows(y), y.cause = "after" => x.cause = "after",
           rd'[s].item = rd[s].item, rd'[s].end = rd[s].end, rd'[s].got = rd[s].got,
           rd'[s].pc \in {rd[s].pc, "over"},
           \/ q'[s] = q[s] /\ (rd'[s].pc = "over" \/ x.fin \/ x.recv = "ended" \/ x.spoiled)
           \/ q'[s] = Append(q[s], Stopped)
           \/ q'[s] = Append(q[s], EndOfBody) /\ (EndIn(s) \/ rd'[s].pc = "over"),
           DoubtOK(s)', OwesOK(s)'
    PROVE  StreamOK(s)'
<1>1. EntryOK(me.e[s])' /\ IdleOK(s)'
  BY DEF EntryOK, IdleOK
<1>2. y.recv = x.recv /\ y.total = x.total /\ y.app = x.app /\ y.spoiled = x.spoiled
  BY DEF SameBody
<1>3. /\ Coming(s)' = Coming(s) /\ (EndComing(s)' <=> EndComing(s))
      /\ \A i \in DOMAIN pump'.push : pump'.push[i].on = s =>
            \E j \in DOMAIN pump.push : pump.push[j] = pump'.push[i]
  BY DEF PumpFor
<1>4. q'[s] = q[s] \/ \E it \in {EndOfBody, Stopped} : q'[s] = Append(q[s], it)
  OBVIOUS
<1>5. EndIn(s) => EndIn(s)'
  <2>1. CASE q'[s] = q[s]
    BY <2>1 DEF EndIn
  <2> QED BY <1>4, <2>1, Appended
<1>6. ReaderOK(s)'
  <2>1. ReaderOK(s)
    BY DEF StreamOK
  <2>2. \A i \in DOMAIN q'[s] : q'[s][i].kind # "chunk" => q'[s][i].len = 0
    <3>1. CASE q'[s] = q[s]
      BY <2>1, <3>1 DEF ReaderOK
    <3>2. ASSUME NEW it \in {EndOfBody, Stopped}, q'[s] = Append(q[s], it)
          PROVE  \A i \in DOMAIN q'[s] : q'[s][i].kind # "chunk" => q'[s][i].len = 0
      <4>1. /\ Len(q[s]) \in Nat /\ DOMAIN q[s] = 1..Len(q[s]) /\ DOMAIN q'[s] = 1..Len(q[s]) + 1
            /\ \A i \in 1..Len(q[s]) : q'[s][i] = q[s][i]
            /\ q'[s][Len(q[s]) + 1].len = 0
        BY <3>2, Appended
      <4>2. \A i \in 1..Len(q[s]) + 1 : i \in 1..Len(q[s]) \/ i = Len(q[s]) + 1
        BY <4>1
      <4>3. \A i \in 1..Len(q[s]) : q[s][i].kind # "chunk" => q[s][i].len = 0
        BY <2>1, <4>1 DEF ReaderOK
      <4> QED BY <4>1, <4>2, <4>3
    <3> QED BY <1>4, <3>1, <3>2
  <2>3. /\ rd'[s].pc \in {"charge", "release"} => rd'[s].item.kind = "chunk"
        /\ rd'[s].pc # "over" => rd'[s].end = "none"
        /\ rd'[s].end = "eof" => y.recv = "ended" /\ rd'[s].got = y.total
    BY <1>2, <2>1 DEF ReaderOK
  <2> QED BY <2>2, <2>3 DEF ReaderOK
<1>7. WholeSoFar(s)'
  BY DEF WholeSoFar
<1>8. EofInQueue(s)'
  <2>1. EofInQueue(s)
    BY DEF StreamOK
  <2>2. SUFFICES ASSUME NEW i \in DOMAIN q'[s], rd'[s].pc # "over", q'[s][i].kind = "eof",
                        \A j \in 1..i - 1 : q'[s][j].kind = "chunk"
                 PROVE  y.recv = "ended" /\ y.total = rd'[s].got + Before(q'[s], i - 1)
    <3>1. \A i : Before(q[s], i)' = Before(q'[s], i)
      BY DEF Before
    <3> QED BY <3>1 DEF EofInQueue
  <2>3. CASE q'[s] = q[s]
    BY <1>2, <2>1, <2>2, <2>3 DEF EofInQueue
  <2>4. ASSUME NEW it \in {EndOfBody, Stopped}, q'[s] = Append(q[s], it)
        PROVE  y.recv = "ended" /\ y.total = rd'[s].got + Before(q'[s], i - 1)
    <3>1. /\ Len(q[s]) \in Nat /\ DOMAIN q[s] = 1..Len(q[s]) /\ DOMAIN q'[s] = 1..Len(q[s]) + 1
          /\ \A k \in 1..Len(q[s]) : q'[s][k] = q[s][k]
          /\ q'[s][Len(q[s]) + 1] = it
          /\ \A k \in 0..Len(q[s]) : Before(q'[s], k) = Before(q[s], k)
      BY <2>4, Appended
    <3>2. CASE i \in 1..Len(q[s])
      <4>1. i - 1 \in 0..Len(q[s]) /\ \A j \in 1..i - 1 : j \in 1..Len(q[s])
        BY <3>1, <3>2
      <4>2. q[s][i].kind = "eof" /\ \A j \in 1..i - 1 : q[s][j].kind = "chunk"
        BY <2>2, <3>1, <3>2, <4>1
      <4>3. x.recv = "ended" /\ x.total = rd[s].got + Before(q[s], i - 1)
        BY <2>1, <2>2, <3>1, <3>2, <4>2 DEF EofInQueue
      <4> QED BY <1>2, <3>1, <4>1, <4>3
    <3>3. CASE i \notin 1..Len(q[s])
      <4>1. i = Len(q[s]) + 1 /\ 1..i - 1 = 1..Len(q[s])
        BY <2>2, <3>1, <3>3
      <4>2. it = EndOfBody
        BY <2>2, <3>1, <4>1 DEF Stopped
      <4>3. EndOfBody # Stopped /\ q'[s] # Append(q[s], Stopped)
        <5>1. EndOfBody.kind # Stopped.kind
          BY DEF EndOfBody, Stopped
        <5>2. Append(q[s], Stopped)[Len(q[s]) + 1] = Stopped
          BY <3>1
        <5> QED BY <3>1, <4>2, <5>1, <5>2
      <4>4. q'[s] # q[s]
        BY <3>1
      <4>5. EndIn(s)
        BY <2>2, <4>3, <4>4
      <4>6. PICK k \in 1..Len(q[s]) : q[s][k].kind # "chunk"
        BY <3>1, <4>5 DEF EndIn
      <4> QED BY <2>2, <3>1, <4>1, <4>6
    <3> QED BY <3>2, <3>3
  <2> QED BY <1>4, <2>3, <2>4
<1>9. EofOnItsWay(s)'
  <2>1. EofOnItsWay(s)
    BY DEF StreamOK
  <2>2. CASE q'[s] = q[s]
    <3>1. BytesIn(q[s])' = BytesIn(q[s]) /\ (EndIn(s)' <=> EndIn(s))
      BY <2>2 DEF BytesIn, EndIn
    <3> QED BY <1>2, <1>3, <2>1, <3>1 DEF EofOnItsWay
  <2>3. ASSUME NEW it \in {EndOfBody, Stopped}, q'[s] = Append(q[s], it) PROVE EofOnItsWay(s)'
    <3>1. EndIn(s)'
      BY <2>3, Appended
    <3> QED BY <3>1 DEF EofOnItsWay
  <2> QED BY <1>4, <2>2, <2>3
<1>10. Told(s)' /\ ToldBefore(s)'
  <2>1. Told(s) /\ ToldBefore(s)
    BY DEF StreamOK
  <2>2. CASE q'[s] = q[s]
    <3>1. ToldBefore(s)'
      BY <1>5, <2>1 DEF ToldBefore
    <3>2. Told(s)'
      <4>1. rd[s].pc = "over" => rd'[s].pc = "over"
        OBVIOUS
      <4>2. q'[s] # Append(q[s], Stopped) /\ q'[s] # Append(q[s], EndOfBody)
        <5>1. q[s] \in Seq(Items)
          BY ItemsTyped
        <5> QED BY <2>2, <5>1
      <4>3. rd'[s].pc = "over" \/ x.fin \/ x.recv = "ended" \/ x.spoiled
        BY <4>2
      <4> QED BY <1>2, <1>3, <1>5, <2>1, <4>1, <4>3 DEF Told
    <3> QED BY <3>1, <3>2
  <2>3. ASSUME NEW it \in {EndOfBody, Stopped}, q'[s] = Append(q[s], it) PROVE Told(s)' /\ ToldBefore(s)'
    <3>1. EndIn(s)'
      BY <2>3, Appended
    <3> QED BY <3>1 DEF Told, ToldBefore
  <2> QED BY <1>4, <2>2, <2>3
<1> QED BY <1>1, <1>6, <1>7, <1>8, <1>9, <1>10 DEF StreamOK

-----------------------------------------------------------------------------
(* The application.                                                          *)

\* A step that leaves the pump where it was.
LEMMA PumpForSame ==
    ASSUME pump' = pump, NEW s
    PROVE  /\ PumpFor(s) /\ Coming(s)' = Coming(s) /\ (EndComing(s)' <=> EndComing(s))
           /\ (Doubtful(s)' <=> Doubtful(s))
BY DEF PumpFor, Coming, EndComing, Doubtful

\* A step on one stream, next to the pump.
LEMMA AppStep ==
    ASSUME RecvInv, NEW s \in Streams, scene' = scene, pump' = pump, frames' = frames,
           Kept(me, me', s), q' \in [Streams -> Seq(Items)], rd' \in [Streams -> Rds],
           \A u \in Streams \ {s} : q'[u] = q[u] /\ rd'[u] = rd[u], StreamOK(s)'
    PROVE  RecvInv'
<1>1. RecvTyped /\ PumpOK
  BY DEF RecvInv
<1>2. Local(me, me', s) /\ Live(me') \subseteq Live(me) /\ (me.error => me'.error)
      /\ me'.goaway = me.goaway
  BY SteadyLocal DEF Kept, Steady
<1>3. Running' => Running
  BY <1>2 DEF Running, Up
<1>4. Running' => Balanced(me')
  BY <1>3 DEF RecvInv, Kept
<1>5. RecvTyped'
  BY <1>1, TypedSame
<1>6. PumpOK'
  <2>1. pump.err = "over" => me'.error /\ Live(me') = {}
    BY <1>1, <1>2 DEF PumpOK
  <2> QED BY <1>1, <2>1, PumpSame
<1> QED BY <1>2, <1>4, <1>5, <1>6, OneStream

\* _notify_reset: the queue of one stream has another item.
LEMMA NotifyFacts ==
    ASSUME RecvTyped, NEW s \in Streams, NEW it \in {EndOfBody, Stopped},
           q' = [q EXCEPT ![s] = Append(@, it)]
    PROVE  /\ q' \in [Streams -> Seq(Items)] /\ q'[s] = Append(q[s], it)
           /\ \A u \in Streams \ {s} : q'[u] = q[u]
<1>1. EndOfBody \in Items /\ Stopped \in Items
  BY ItemsTyped
<1>2. it \in Items
  BY <1>1
<1>3. q \in [Streams -> Seq(Items)]
  BY DEF RecvTyped
<1> HIDE DEF Streams, Items
<1> QED BY <1>2, <1>3

\* What a stream that was reset tells its reader: an end of body if it had before.
LEMMA ReaderStopFacts ==
    ASSUME NEW m \in MeTypes, NEW s \in Streams, m.e[s].stored
    PROVE  /\ ReaderStop(ResetStream(m, s), s) \in {EndOfBody, Stopped}
           /\ ReaderStop(ResetStream(m, s), s) = EndOfBody => m.e[s].cause = "after"
<1>1. m.e[s] \in Entries
  BY MeFields
<1>2. ResetStream(m, s).e[s] = ResetEntry(m.e[s])
  BY ResetStreamKept
<1>3. ResetEntry(m.e[s]).cause = IF m.e[s].cause \in {"none", "end"} THEN "local" ELSE m.e[s].cause
  BY <1>1, ResetFacts
<1>4. m.e[s].cause \in {"none", "end", "local", "remote", "after", "broken"}
  BY <1>1, EntryFields
<1>5. EndOfBody # Stopped
  <2>1. EndOfBody.kind # Stopped.kind
    BY DEF EndOfBody, Stopped
  <2> QED BY <2>1
<1> DEFINE cause == ResetStream(m, s).e[s].cause
<1>6. cause # "none" /\ cause # "end" /\ (cause = "after" => m.e[s].cause = "after")
  BY <1>2, <1>3, <1>4
<1>7. RecvEnded(ResetStream(m, s), s) <=> cause = "after"
  BY <1>6 DEF RecvEnded
<1>8. ReaderStop(ResetStream(m, s), s) = IF cause = "after" THEN EndOfBody ELSE Stopped
  BY <1>6, <1>7 DEF ReaderStop
<1> HIDE DEF cause
<1> QED BY <1>5, <1>6, <1>8

\* A reset by the application, or by the reader: the reader is told, if it still reads.
LEMMA ResetBy ==
    ASSUME RecvInv, NEW s \in Streams, scene' = scene, pump' = pump, frames' = frames,
           NEW m, Kept(me, m, s), NEW x, NEW w, x = me.e[s], w = m.e[s], x.stored, w.stored,
           w.cause = x.cause, SameBody(x, w), me' = ResetStream(m, s), Notify(me', s),
           rd' \in [Streams -> Rds], \A u \in Streams \ {s} : rd'[u] = rd[u],
           rd'[s].item = rd[s].item, rd'[s].end = rd[s].end, rd'[s].got = rd[s].got,
           rd'[s].pc \in {rd[s].pc, "over"}
    PROVE  RecvInv'
<1>1. /\ x \in Entries /\ EntryOK(x) /\ StreamOK(s) /\ RecvTyped /\ x.recv # "idle"
      /\ m \in MeTypes
  BY EntryIdle DEF Kept, Steady
<1>2. w \in Entries
  BY <1>1, MeFields
<1>3. PICK y : y = ResetEntry(w)
  OBVIOUS
<1>4. Kept(me, me', s) /\ y = me'.e[s]
  BY <1>1, <1>3, ResetStreamKept, KeptTwice
<1>5. PICK it : it = ReaderStop(me', s)
  OBVIOUS
<1>6. it \in {EndOfBody, Stopped} /\ (it = EndOfBody => x.cause = "after")
  BY <1>1, <1>5, ReaderStopFacts
<1>7. q' = [q EXCEPT ![s] = Append(@, it)]
  BY <1>5 DEF Notify
<1>8. /\ q' \in [Streams -> Seq(Items)] /\ q'[s] = Append(q[s], it)
      /\ \A u \in Streams \ {s} : q'[u] = q[u]
  BY <1>1, <1>6, <1>7, NotifyFacts
<1>9. /\ y \in Entries /\ SameBody(w, y) /\ Gone(y)
      /\ y.cause = IF x.cause \in {"none", "end"} THEN "local" ELSE x.cause
  BY <1>2, <1>3, ResetFacts
<1>10. SameBody(x, y) /\ y.recv = x.recv
  BY <1>9 DEF SameBody
<1>11. y.cause # "none" /\ y.cause # "end" /\ (y.cause = "after" => x.cause = "after")
  BY <1>9
<1>12. EntryOK(y) /\ y.recv # "idle"
  BY <1>1, <1>9, <1>10, <1>11 DEF EntryOK, Gone, SameBody
<1>13. DoubtOK(s)' /\ OwesOK(s)' /\ ~Flows(y)
  BY <1>4, <1>9 DEF Gone, DoubtOK, OwesOK, Flows
<1>14. it = EndOfBody => EndIn(s) \/ rd'[s].pc = "over"
  BY <1>1, <1>6 DEF StreamOK, ToldBefore
<1>15. \/ q'[s] = Append(q[s], Stopped)
       \/ q'[s] = Append(q[s], EndOfBody) /\ (EndIn(s) \/ rd'[s].pc = "over")
  BY <1>6, <1>8, <1>14
<1>16. PumpFor(s)
  BY PumpForSame
<1>17. StreamOK(s)'
  BY <1>1, <1>4, <1>10, <1>11, <1>12, <1>13, <1>15, <1>16, OverStream
<1> QED BY <1>4, <1>8, <1>17, AppStep

\* A reset by the application.
LEMMA ResetStep ==
    ASSUME RecvInv, NEW s \in Streams, Reset(s), scene' = scene
    PROVE  RecvInv'
<1>1. /\ me.e[s].stored /\ me' = ResetStream(me, s) /\ Notify(me', s)
      /\ pump' = pump /\ rd' = rd /\ frames' = frames
  BY DEF Reset
<1>2. Kept(me, me, s) /\ rd \in [Streams -> Rds]
  BY KeptSelf DEF RecvInv, RecvTyped
<1>3. SameBody(me.e[s], me.e[s])
  BY DEF SameBody
<1> QED BY <1>1, <1>2, <1>3, ResetBy

\* aclose_body: the reader is over.
LEMMA AcloseBodyStep ==
    ASSUME RecvInv, NEW s \in Streams, AcloseBody(s), scene' = scene
    PROVE  RecvInv'
<1>1. PICK x : x = me.e[s]
  OBVIOUS
<1>2. /\ rd[s].pc = "wait" /\ x.app /\ rd' = [rd EXCEPT ![s].pc = "over"]
      /\ pump' = pump /\ frames' = frames
      /\ IF ~x.stored THEN UNCHANGED <<me, q>>
         ELSE IF RecvEnded(me, s) THEN me' = DropClosed(me, s) /\ UNCHANGED q
         ELSE me' = ResetStream(me, s) /\ Notify(ResetStream(me, s), s)
  BY <1>1 DEF AcloseBody
<1>3. /\ x \in Entries /\ EntryOK(x) /\ StreamOK(s) /\ RecvTyped /\ me \in MeTypes
      /\ Kept(me, me, s)
  BY <1>1, EntryIdle, KeptSelf
<1>4. x.recv # "idle"
  BY <1>2, <1>3 DEF EntryOK, NoEntry
<1>5. rd \in [Streams -> Rds] /\ q \in [Streams -> Seq(Items)] /\ rd[s] \in Rds
  BY <1>3 DEF RecvTyped
<1>6. PICK r : r = [rd[s] EXCEPT !.pc = "over"]
  OBVIOUS
<1>7. r \in Rds /\ r.pc = "over" /\ r.item = rd[s].item /\ r.end = rd[s].end /\ r.got = rd[s].got
  BY <1>5, <1>6 DEF Rds
<1>8. rd' = [rd EXCEPT ![s] = r]
  BY <1>2, <1>5, <1>6
<1>9. /\ rd' \in [Streams -> Rds] /\ \A u \in Streams \ {s} : rd'[u] = rd[u]
      /\ rd'[s].item = rd[s].item /\ rd'[s].end = rd[s].end /\ rd'[s].got = rd[s].got
      /\ rd'[s].pc = "over"
  BY <1>5, <1>7, <1>8
<1>10. CASE ~x.stored \/ RecvEnded(me, s)
  <2>1. PICK y : y = IF x.stored THEN DroppedEntry(x) ELSE x
    OBVIOUS
  <2>2. q' = q /\ Kept(me, me', s) /\ y = me'.e[s]
    <3>1. CASE ~x.stored
      BY <1>1, <1>2, <1>3, <2>1, <3>1
    <3>2. CASE x.stored
      <4>1. me' = DropClosed(me, s) /\ q' = q
        BY <1>2, <1>10, <3>2
      <4> QED BY <1>1, <1>3, <2>1, <3>2, <4>1, DropClosedKept
    <3> QED BY <3>1, <3>2
  <2>3. x.stored => x.recv = "ended"
    BY <1>1, <1>3, <1>10 DEF RecvEnded, EntryOK
  <2>4. /\ y \in Entries /\ SameBody(x, y) /\ y.cause = x.cause
        /\ y.stored => /\ x.stored /\ ~x.fin /\ ~y.fin /\ x.cause = "none" /\ y.reclaimed
                       /\ y.unrel = 0 /\ y.charged = 0
        /\ ~y.stored => y.fin /\ y.unrel = 0 /\ y.charged = 0 /\ y.cause # "none"
    <3>1. CASE ~x.stored
      <4>1. y = x
        BY <2>1, <3>1
      <4> QED BY <1>3, <1>4, <3>1, <4>1 DEF SameBody, EntryOK
    <3>2. CASE x.stored /\ x.cause # "none"
      <4>1. y = DroppedEntry(x)
        BY <2>1, <3>2
      <4> QED BY <1>3, <3>2, <4>1, DroppedFacts DEF Gone
    <3>3. CASE x.stored /\ x.cause = "none"
      <4>1. y = ReclaimedEntry(x)
        BY <1>3, <2>1, <3>3, DroppedFacts
      <4>2. ~x.fin
        BY <1>3, <3>3 DEF EntryOK
      <4>3. /\ y \in Entries /\ SameBody(x, y) /\ y.cause = x.cause /\ y.fin = x.fin
            /\ y.unrel = 0 /\ y.charged = 0 /\ y.reclaimed /\ y.stored
        BY <1>3, <3>3, <4>1, <4>2, ReclaimedFacts
      <4> QED BY <3>3, <4>2, <4>3
    <3> QED BY <3>1, <3>2, <3>3
  <2>5. EntryOK(y) /\ y.recv # "idle"
    <3>1. /\ y.recv = x.recv /\ y.recv # "idle" /\ (y.spoiled <=> x.spoiled) /\ (y.app <=> x.app)
      BY <1>4, <2>4 DEF SameBody
    <3>2. /\ x.cause \in {"end", "after"} => x.recv = "ended"
          /\ x.spoiled => x.recv = "ended"
          /\ x.cause = "after" => x.app
      BY <1>3 DEF EntryOK
    <3> QED BY <2>4, <3>1, <3>2 DEF EntryOK
  <2>6. ~Flows(y)
    BY <2>3, <2>4 DEF Flows, SameBody
  <2>7. PumpFor(s) /\ (Doubtful(s)' <=> Doubtful(s))
    BY <1>2, PumpForSame
  <2>8. DoubtOK(s)'
    <3>1. DoubtOK(s)
      BY <1>3 DEF StreamOK
    <3>2. (y.spoiled <=> x.spoiled) /\ (y.app <=> x.app)
      BY <2>4 DEF SameBody
    <3> QED BY <1>1, <2>2, <2>4, <2>7, <3>1, <3>2 DEF DoubtOK
  <2>9. OwesOK(s)'
    BY <2>2, <2>4, <2>6 DEF OwesOK
  <2>10. q'[s] = q[s] /\ rd'[s].pc \in {rd[s].pc, "over"}
    BY <1>9, <2>2
  <2>11. StreamOK(s)'
    BY <1>1, <1>3, <1>9, <2>2, <2>4, <2>5, <2>6, <2>7, <2>8, <2>9, <2>10, OverStream
  <2>12. q' \in [Streams -> Seq(Items)] /\ \A u \in Streams \ {s} : q'[u] = q[u] /\ rd'[u] = rd[u]
    BY <1>5, <1>9, <2>2
  <2> QED BY <1>2, <1>9, <2>2, <2>11, <2>12, AppStep
<1>11. CASE x.stored /\ ~RecvEnded(me, s)
  <2>1. me' = ResetStream(me, s) /\ Notify(me', s)
    BY <1>2, <1>11
  <2>2. SameBody(x, x)
    BY DEF SameBody
  <2> QED BY <1>1, <1>2, <1>3, <1>9, <1>11, <2>1, <2>2, ResetBy
<1> QED BY <1>10, <1>11

\* The sending half ends.
SentEntry(x) == [x EXCEPT !.sent = TRUE, !.cause = IF x.recv = "ended" THEN "end" ELSE x.cause]

\* ... which closes the stream if all was received.
LEMMA SentFacts ==
    ASSUME NEW x \in Entries, x.cause = "none"
    PROVE  /\ SentEntry(x) \in Entries /\ SameBody(x, SentEntry(x))
           /\ SentEntry(x).stored = x.stored /\ SentEntry(x).fin = x.fin
           /\ SentEntry(x).unrel = x.unrel /\ SentEntry(x).charged = x.charged
           /\ SentEntry(x).reclaimed = x.reclaimed /\ SentEntry(x).flow = x.flow
           /\ SentEntry(x).cause = IF x.recv = "ended" THEN "end" ELSE "none"
<1> DEFINE c == IF x.recv = "ended" THEN "end" ELSE x.cause
           w == [x EXCEPT !.sent = TRUE, !.cause = c]
<1>1. c \in {"none", "end"} /\ c = IF x.recv = "ended" THEN "end" ELSE "none"
  OBVIOUS
<1>2. SentEntry(x) = w
  BY DEF SentEntry
<1> HIDE DEF c
<1>3. /\ w \in Entries /\ w.recv = x.recv /\ w.total = x.total /\ w.app = x.app
      /\ w.spoiled = x.spoiled /\ w.stored = x.stored /\ w.fin = x.fin
      /\ w.unrel = x.unrel /\ w.charged = x.charged
      /\ w.reclaimed = x.reclaimed /\ w.flow = x.flow /\ w.cause = c
  BY <1>1 DEF Entries
<1> QED BY <1>1, <1>2, <1>3 DEF SameBody

\* finish_stream.
LEMMA FinishSendStep ==
    ASSUME RecvInv, NEW s \in Streams, FinishSend(s), scene' = scene
    PROVE  RecvInv'
<1>1. PICK x, w : x = me.e[s] /\ w = SentEntry(x)
  OBVIOUS
<1>2. PICK n, c : n = [me EXCEPT !.e[s] = w] /\ c = CloseStream(n, s)
  OBVIOUS
<1>3. /\ x \in Entries /\ EntryOK(x) /\ StreamOK(s) /\ RecvTyped /\ me \in MeTypes
      /\ me.e \in [Streams -> Entries]
  BY <1>1, EntryIdle, MeFields
<1>4. /\ x.app /\ x.stored /\ x.cause = "none"
      /\ pump' = pump /\ rd' = rd /\ frames' = frames
  BY <1>1 DEF FinishSend, Closed
<1>5. /\ IF scene.role = "client" \/ ~c.e[s].stored THEN me' = c /\ UNCHANGED q
         ELSE IF Closed(c, s) THEN me' = Reclaim(c, s) /\ UNCHANGED q
         ELSE me' = ResetStream(c, s) /\ Notify(ResetStream(c, s), s)
  <2>1. [me EXCEPT !.e[s].sent = TRUE,
                   !.e[s].cause = IF me.e[s].recv = "ended" THEN "end" ELSE @] = n
    <3>1. [me EXCEPT !.e[s].sent = TRUE,
                   !.e[s].cause = IF me.e[s].recv = "ended" THEN "end" ELSE @]
          = [me EXCEPT !.e[s] = [me.e[s] EXCEPT !.sent = TRUE,
                   !.cause = IF me.e[s].recv = "ended" THEN "end" ELSE me.e[s].cause]]
      BY <1>3 DEF MeTypes
    <3> QED BY <1>1, <1>2, <3>1 DEF SentEntry
  <2> QED BY <1>2, <2>1 DEF FinishSend
<1>6. /\ w \in Entries /\ SameBody(x, w) /\ w.stored = x.stored /\ w.fin = x.fin
      /\ w.unrel = x.unrel /\ w.charged = x.charged /\ w.reclaimed = x.reclaimed /\ w.flow = x.flow
      /\ w.cause = IF x.recv = "ended" THEN "end" ELSE "none"
  BY <1>1, <1>3, <1>4, SentFacts
<1>7. ~x.fin /\ x.recv # "idle" /\ w.stored /\ ~w.fin /\ w.recv = x.recv
  BY <1>1, <1>3, <1>4, <1>6, EntryIdle DEF EntryOK, SameBody
<1>8. Kept(me, n, s) /\ n.e[s] = w
  <2>1. Owes(w) = Owes(x) /\ Pays(w) = Pays(x)
    BY <1>6 DEF Owes, Pays
  <2>2. w.stored /\ ~w.fin <=> x.stored /\ ~x.fin
    BY <1>4, <1>7
  <2> QED BY <1>1, <1>2, <1>3, <1>6, <2>1, <2>2, KeptPut
<1>9. n \in MeTypes
  BY <1>8 DEF Kept, Steady
<1>10. Kept(me, c, s) /\ c.e[s] = ClosedEntry(w) /\ c \in MeTypes
  <2>1. Kept(n, c, s) /\ c.e[s] = ClosedEntry(w)
    BY <1>2, <1>8, <1>9, CloseStreamKept
  <2> QED BY <1>8, <2>1, KeptTwice DEF Kept, Steady
<1>11. PumpFor(s) /\ (Doubtful(s)' <=> Doubtful(s)) /\ Coming(s)' = Coming(s)
  BY <1>4, PumpForSame
<1>12. rd \in [Streams -> Rds] /\ q \in [Streams -> Seq(Items)]
  BY <1>3 DEF RecvTyped
<1>13. CASE x.recv = "ended"
  <2>1. PICK z : z = ClosedEntry(w)
    OBVIOUS
  <2>2. /\ z \in Entries /\ SameBody(w, z) /\ z.cause = "end" /\ z.unrel = x.unrel
        /\ z.charged = x.charged /\ z.reclaimed = x.reclaimed /\ z.fin
        /\ z.stored <=> x.unrel > 0 \/ x.charged > 0
    BY <1>6, <1>7, <1>13, <2>1, ClosedFacts
  <2>3. PICK y : y = IF me' = c THEN z ELSE ReclaimedEntry(z)
    OBVIOUS
  <2>4. q' = q /\ Kept(me, me', s) /\ y = me'.e[s] /\ (y # z => y = ReclaimedEntry(z) /\ z.stored)
    <3>1. CASE me' = c
      <4>1. y = z /\ y = me'.e[s] /\ Kept(me, me', s)
        BY <1>10, <2>1, <2>3, <3>1
      <4>2. q' = q
        <5>1. c.e[s].stored => Closed(c, s)
          BY <1>10, <2>1, <2>2 DEF Closed
        <5> QED BY <1>5, <5>1
      <4> QED BY <4>1, <4>2
    <3>2. CASE me' # c
      <4>1. c.e[s].stored => Closed(c, s)
        BY <1>10, <2>1, <2>2 DEF Closed
      <4>2. me' = Reclaim(c, s) /\ q' = q /\ c.e[s].stored
        BY <1>5, <3>2, <4>1
      <4>3. Kept(c, me', s) /\ me'.e[s] = ReclaimedEntry(z)
        BY <1>10, <2>1, <4>2, ReclaimKept
      <4> QED BY <1>10, <2>1, <2>3, <3>2, <4>2, <4>3, KeptTwice
    <3> QED BY <3>1, <3>2
  <2>5. /\ y \in Entries /\ SameBody(x, y) /\ y.cause = "end" /\ y.fin
        /\ y.stored => y.unrel = x.unrel /\ y.charged = x.charged /\ y.reclaimed = x.reclaimed
                       /\ (y.unrel > 0 \/ y.charged > 0)
        /\ ~y.stored => y.unrel = 0 /\ y.charged = 0
    <3>1. CASE y = z
      <4>1. x.unrel \in Nat /\ x.charged \in Nat
        BY <1>3, EntryFields
      <4> QED BY <1>6, <2>2, <3>1, <4>1 DEF SameBody
    <3>2. CASE y # z
      <4>1. y = ReclaimedEntry(z) /\ z.stored
        BY <2>4, <3>2
      <4>2. /\ y \in Entries /\ SameBody(z, y) /\ y.cause = z.cause /\ y.fin = z.fin
            /\ y.unrel = 0 /\ y.charged = 0 /\ (y.stored <=> ~z.fin)
        BY <2>2, <4>1, ReclaimedFacts
      <4>3. SameBody(x, y)
        BY <1>6, <2>2, <4>2 DEF SameBody
      <4> QED BY <2>2, <4>2, <4>3
    <3> QED BY <3>1, <3>2
  <2>6. EntryOK(y) /\ y.recv # "idle" /\ ~Flows(y)
    <3>1. y.recv = "ended" /\ y.recv # "idle"
      BY <1>13, <2>5 DEF SameBody
    <3> QED BY <2>5, <3>1 DEF EntryOK, Flows
  <2>7. DoubtOK(s)'
    BY <2>4, <2>5 DEF DoubtOK
  <2>8. OwesOK(s)'
    <3>1. OwesOK(s)
      BY <1>3 DEF StreamOK
    <3>2. BytesIn(q[s])' = BytesIn(q[s]) /\ Held(s)' = Held(s)
      BY <1>4, <2>4 DEF BytesIn, Held
    <3>3. Running' => Running
      BY <1>4, <2>4 DEF Running, Up, Kept, Steady
    <3> QED BY <1>1, <1>4, <1>11, <2>4, <2>5, <2>6, <3>1, <3>2, <3>3 DEF OwesOK
  <2>9. /\ q'[s] = q[s] /\ rd'[s] = rd[s] /\ q' \in [Streams -> Seq(Items)] /\ rd' \in [Streams -> Rds]
        /\ \A u \in Streams \ {s} : q'[u] = q[u] /\ rd'[u] = rd[u]
    BY <1>4, <1>12, <2>4
  <2>10. StreamOK(s)'
    <3>1. /\ rd'[s].item = rd[s].item /\ rd'[s].end = rd[s].end /\ rd'[s].got = rd[s].got
          /\ rd'[s].pc \in {rd[s].pc, "over"}
      BY <2>9
    <3>2. y.cause = "after" => x.cause = "after"
      BY <2>5
    <3> QED BY <1>1, <1>3, <1>11, <1>13, <2>4, <2>5, <2>6, <2>7, <2>8, <2>9, <3>1, <3>2, OverStream
  <2> QED BY <1>4, <2>4, <2>9, <2>10, AppStep
<1>14. CASE x.recv # "ended"
  <2>1. w.cause = "none" /\ ClosedEntry(w) = w
    BY <1>6, <1>14, ClosedFacts
  <2>2. c.e[s] = w /\ ~Closed(c, s)
    BY <1>10, <2>1 DEF Closed
  <2>3. CASE scene.role = "client"
    <3>1. me' = c /\ q' = q
      BY <1>5, <2>3
    <3>2. EntryOK(w)
      BY <1>3, <1>6, <1>7, <2>1 DEF EntryOK, SameBody
    <3>3. DoubtOK(s)'
      <4>1. DoubtOK(s)
        BY <1>3 DEF StreamOK
      <4>2. (w.spoiled <=> x.spoiled) /\ (w.app <=> x.app)
        BY <1>6 DEF SameBody
      <4> QED BY <1>1, <1>4, <1>7, <1>11, <2>1, <2>2, <3>1, <4>1, <4>2 DEF DoubtOK
    <3>4. OwesOK(s)'
      <4>1. OwesOK(s)
        BY <1>3 DEF StreamOK
      <4>2. BytesIn(q[s])' = BytesIn(q[s]) /\ Held(s)' = Held(s)
        BY <1>4, <3>1 DEF BytesIn, Held
      <4>3. (Running' => Running) /\ me'.init = me.init
        BY <1>4, <1>10, <3>1 DEF Running, Up, Kept, Steady
      <4>4. Flows(w) => Flows(x)
        BY <1>4, <1>7 DEF Flows
      <4>5. FlowOK(x, me.init) => FlowOK(w, me.init)
        BY <1>6 DEF FlowOK
      <4> QED BY <1>1, <1>4, <1>6, <1>11, <2>2, <3>1, <4>1, <4>2, <4>3, <4>4, <4>5 DEF OwesOK
    <3>5. w = me'.e[s] /\ q'[s] = q[s] /\ rd'[s] = rd[s]
      BY <1>4, <2>2, <3>1
    <3>6. /\ pump'.err = "stream" /\ pump'.on = s => pump.err = "stream" /\ pump.on = s
          /\ Flows(w) /\ pump'.err # "conn" => Flows(x) /\ pump.err # "conn"
          /\ w.fin => x.fin \/ x.recv = "ended"
          /\ w.cause = "after" => x.cause = "after"
      BY <1>4, <1>7, <2>1 DEF Flows
    <3>7. StreamOK(s)'
      BY <1>1, <1>3, <1>6, <1>11, <3>2, <3>3, <3>4, <3>5, <3>6, SameBodyStream
    <3>8. q' \in [Streams -> Seq(Items)] /\ rd' \in [Streams -> Rds]
          /\ \A u \in Streams \ {s} : q'[u] = q[u] /\ rd'[u] = rd[u]
      BY <1>4, <1>12, <3>1
    <3> QED BY <1>4, <1>10, <3>1, <3>7, <3>8, AppStep
  <2>4. CASE scene.role # "client"
    <3>1. c.e[s].stored
      BY <1>7, <2>2
    <3>2. me' = ResetStream(c, s) /\ Notify(me', s)
      BY <1>5, <2>2, <2>4, <3>1
    <3>3. /\ rd' \in [Streams -> Rds] /\ \A u \in Streams \ {s} : rd'[u] = rd[u]
          /\ rd'[s].item = rd[s].item /\ rd'[s].end = rd[s].end /\ rd'[s].got = rd[s].got
          /\ rd'[s].pc \in {rd[s].pc, "over"}
      BY <1>4, <1>12
    <3>4. w = c.e[s] /\ w.stored /\ w.cause = x.cause
      BY <1>4, <1>7, <2>1, <2>2
    <3> QED BY <1>1, <1>4, <1>6, <1>10, <3>2, <3>3, <3>4, ResetBy
  <2> QED BY <2>3, <2>4
<1> QED BY <1>13, <1>14

-----------------------------------------------------------------------------
(* The pump.                                                                 *)

\* One more error counted.
LEMMA CountedKept ==
    ASSUME NEW m \in MeTypes, NEW s \in Streams, m.errors < MaxErrors
    PROVE  Kept(m, [m EXCEPT !.errors = @ + 1], s) /\ [m EXCEPT !.errors = @ + 1].e = m.e
<1> DEFINE n == [m EXCEPT !.errors = @ + 1]
<1>1. m.errors + 1 \in 0..MaxErrors
  BY MeFields, Consts
<1>2. /\ n \in MeTypes /\ n.e = m.e /\ n.conn = m.conn /\ n.budget = m.budget /\ n.store = m.store
      /\ n.active = m.active /\ n.init = m.init /\ n.goaway = m.goaway /\ n.error = m.error
  BY <1>1 DEF MeTypes
<1> HIDE DEF n
<1>3. Live(n) = Live(m) /\ Owed(n) = Owed(m) /\ Spent(n) = Spent(m)
  BY <1>2 DEF Live, Owed, Spent
<1>4. MeOK(m) => MeOK(n)
  BY <1>2, <1>3 DEF MeOK
<1>5. Balanced(m) => Balanced(n)
  BY <1>2, <1>3 DEF Balanced
<1> QED BY <1>2, <1>3, <1>4, <1>5 DEF Kept, Steady, n

\* reset_on_error: the stream is reset and its reader told.
LEMMA ResetOnErrorStep ==
    ASSUME RecvInv, ResetOnError, scene' = scene
    PROVE  RecvInv'
<1>1. /\ RecvTyped /\ MeOK(me) /\ PumpOK /\ me \in MeTypes /\ pump.err = "stream"
      /\ q' = q /\ rd' = rd /\ frames' = frames
  BY DEF RecvInv, ResetOnError, MeOK
<1>2. PICK s \in Streams : s = pump.on
  BY <1>1 DEF PumpOK
<1>3. pump.push = <<>> /\ pump.on \in 0..N
  BY <1>1 DEF PumpOK, RecvTyped
<1>4. PICK x : x = me.e[s]
  OBVIOUS
<1>5. x \in Entries /\ EntryOK(x) /\ StreamOK(s) /\ (x.stored => x.recv # "idle")
  BY <1>4, EntryIdle
<1>6. Items' = Items /\ Pushes' = Pushes /\ Rds' = Rds
  BY DEF Items, Pushes, Rds
<1>7. CASE me.errors >= MaxErrors
  <2>1. me' = me /\ pump' = [pump EXCEPT !.err = "conn"]
    BY <1>7 DEF ResetOnError
  <2>2. pump'.push = <<>> /\ pump'.err = "conn" /\ pump'.on = pump.on
        /\ pump' = [push |-> <<>>, err |-> "conn", on |-> pump.on]
    BY <1>1, <1>3, <2>1 DEF RecvTyped
  <2>3. RecvTyped'
    <3>1. pump' \in [push : Seq(Pushes), err : {"none", "stream", "conn", "over"}, on : 0..N]
      BY <1>3, <2>2
    <3> QED BY <1>1, <1>6, <3>1 DEF RecvTyped
  <2>4. PumpOK'
    BY <2>2 DEF PumpOK
  <2>5. MeOK(me)' /\ ~Running'
    <3>1. MeOK(me')
      BY <1>1, <2>1
    <3> QED BY <2>2, <3>1 DEF Running, Up
  <2>6. ASSUME NEW u \in Streams PROVE StreamOK(u)'
    <3>1. Coming(u)' = Coming(u) /\ (EndComing(u)' <=> EndComing(u)) /\ (Doubtful(u)' <=> Doubtful(u))
      BY <1>1, <1>3, <2>2 DEF Coming, EndComing, Doubtful
    <3>2. StreamOK(u) /\ \A i \in DOMAIN pump'.push : FALSE
      BY <2>2 DEF RecvInv
    <3>3. pump'.err # "stream" /\ pump'.err = "conn"
      BY <2>2
    <3>4. me'.e[u] = me.e[u] /\ me'.init = me.init /\ q'[u] = q[u] /\ rd'[u] = rd[u]
      BY <1>1, <2>1
    <3> QED BY <2>5, <3>1, <3>2, <3>3, <3>4, SameStream
  <2> QED BY <2>3, <2>4, <2>5, <2>6 DEF RecvInv
<1>8. CASE ~(me.errors >= MaxErrors)
  <2>1. PICK n : n = [me EXCEPT !.errors = @ + 1]
    OBVIOUS
  <2>2. /\ IF x.stored
           THEN /\ me' = ResetStream(n, s)
                /\ pump' = [IdlePump EXCEPT !.push =
                     <<[on |-> s, item |-> ReaderStop(ResetStream(n, s), s)]>>]
           ELSE me' = Remember(n, s) /\ pump' = IdlePump
    BY <1>2, <1>4, <1>8, <2>1 DEF ResetOnError
  <2>3. Kept(me, n, s) /\ n.e[s] = x /\ n \in MeTypes
    <3>1. me.errors < MaxErrors
      <4>1. me.errors \in Int /\ MaxErrors \in Int
        BY <1>1, MeFields, Consts
      <4> QED BY <1>8, <4>1
    <3>2. Kept(me, n, s) /\ n.e = me.e
      BY <1>1, <2>1, <3>1, CountedKept
    <3> QED BY <1>4, <3>2 DEF Kept, Steady
  <2>4. \A u \in Streams \ {s} : Quiet(u)
    BY <1>2, <1>3 DEF Quiet, Doubtful
  <2>5. Coming(s) = 0 /\ ~EndComing(s)
    <3>1. pump.push = <<>> /\ DOMAIN pump.push = {}
      BY <1>3
    <3>2. Len(pump.push) = 0
      BY <3>1
    <3>3. Coming(s) = SumTo([i \in DOMAIN pump.push |->
                               IF pump.push[i].on = s THEN pump.push[i].item.len ELSE 0], 0)
      BY <3>2 DEF Coming
    <3> QED BY <3>1, <3>3, SumToDef DEF EndComing
  <2>6. CASE x.stored
    <3>1. PICK it : it = ReaderStop(ResetStream(n, s), s)
      OBVIOUS
    <3>2. me' = ResetStream(n, s) /\ pump' = [push |-> <<To(s, it)>>, err |-> "none", on |-> NoStream]
      BY <2>2, <2>6, <3>1 DEF IdlePump, To
    <3>3. pump'.push = <<To(s, it)>> /\ pump'.err = "none" /\ pump'.on = NoStream
      BY <3>2
    <3>4. it \in {EndOfBody, Stopped} /\ (it = EndOfBody => x.cause = "after")
      BY <2>3, <2>6, <3>1, ReaderStopFacts
    <3>5. it \in Items /\ Items \subseteq ItemTypes
      BY <1>1, <3>4, ItemsTyped
    <3>6. it.len = 0 /\ it.kind # "chunk" /\ (it.kind = "eof" => it = EndOfBody)
      <4>1. CASE it = EndOfBody
        BY <4>1 DEF EndOfBody
      <4>2. CASE it = Stopped
        BY <4>2 DEF Stopped
      <4> QED BY <3>4, <4>1, <4>2
    <3>7. PICK y : y = ResetEntry(x)
      OBVIOUS
    <3>8. Kept(me, me', s) /\ y = me'.e[s]
      BY <2>3, <3>2, <3>7, ResetStreamKept, KeptTwice
    <3>9. /\ y \in Entries /\ SameBody(x, y) /\ Gone(y)
          /\ y.cause = IF x.cause \in {"none", "end"} THEN "local" ELSE x.cause
      BY <1>5, <2>6, <3>7, ResetFacts
    <3>10. y.cause # "none" /\ y.cause # "end" /\ (y.cause = "after" => x.cause = "after")
      BY <3>9
    <3>11. EntryOK(y) /\ y.recv # "idle"
      BY <1>5, <2>6, <3>9, <3>10 DEF EntryOK, Gone, SameBody
    <3>12. DoubtOK(s)' /\ OwesOK(s)' /\ ~Flows(y)
      BY <3>8, <3>9 DEF Gone, DoubtOK, OwesOK, Flows
    <3>13. Coming(s)' = 0 /\ EndComing(s)'
      BY <3>3, <3>5, <3>6, ShapeComing
    <3>14. y.recv = x.recv /\ y.total = x.total
      BY <3>9 DEF SameBody
    <3>15. StreamOK(s)'
      <4>1. EntryOK(me.e[s])' /\ IdleOK(s)'
        BY <3>8, <3>11 DEF EntryOK, IdleOK
      <4>2. ReaderOK(s)'
        <5>1. ReaderOK(s)
          BY <1>5 DEF StreamOK
        <5> QED BY <1>1, <1>4, <3>8, <3>14, <5>1 DEF ReaderOK
      <4>3. WholeSoFar(s)'
        BY <3>8, <3>12 DEF WholeSoFar
      <4>4. EofInQueue(s)'
        <5>1. EofInQueue(s)
          BY <1>5 DEF StreamOK
        <5> QED BY <1>1, <1>4, <3>8, <3>14, <5>1 DEF EofInQueue, Before
      <4>5. (EndIn(s)' <=> EndIn(s)) /\ rd'[s] = rd[s]
        BY <1>1 DEF EndIn
      <4>6. x.cause = "after" => EndIn(s) \/ rd[s].pc = "over"
        BY <1>4, <1>5 DEF StreamOK, ToldBefore
      <4>7. EofOnItsWay(s)'
        <5>1. DOMAIN pump'.push = {1} /\ pump'.push[1].item = it
          BY <3>3 DEF To
        <5> QED BY <3>4, <3>6, <4>5, <4>6, <5>1 DEF EofOnItsWay
      <4>8. Told(s)' /\ ToldBefore(s)'
        BY <3>8, <3>10, <3>13, <4>5, <4>6 DEF Told, ToldBefore
      <4> QED BY <3>12, <4>1, <4>2, <4>3, <4>4, <4>7, <4>8 DEF StreamOK
    <3>16. RecvTyped'
      <4>1. <<To(s, it)>> \in Seq(Pushes)
        BY <3>5 DEF To, Pushes
      <4>2. pump' \in [push : Seq(Pushes), err : {"none", "stream", "conn", "over"}, on : 0..N]
        BY <3>2, <4>1, Consts DEF NoStream
      <4> QED BY <1>1, <1>6, <4>2 DEF RecvTyped
    <3>17. PumpOK'
      <4>1. DOMAIN pump'.push = {1} /\ pump'.push[1].item = it /\ pump'.push # <<>> /\ Len(pump'.push) = 1
        BY <3>3 DEF To
      <4> QED BY <3>3, <3>4, <4>1 DEF PumpOK
    <3>18. \A u \in Streams \ {s} : Quiet(u)'
      <4>1. DOMAIN pump'.push = {1} /\ pump'.push[1].on = s
        BY <3>3 DEF To
      <4> QED BY <3>3, <4>1 DEF Quiet, Doubtful
    <3>19. Local(me, me', s) /\ (Running' => Balanced(me'))
      BY <1>1, <3>8, KeptLocal
    <3>20. pump.err # "conn" /\ \A u \in Streams \ {s} : Quiet(u) /\ Quiet(u)'
      BY <1>1, <2>4, <3>18
    <3> QED BY <1>1, <3>15, <3>16, <3>17, <3>19, <3>20, OneStream
  <2>7. CASE ~x.stored
    <3>1. me' = Remember(n, s) /\ pump' = IdlePump
      BY <2>2, <2>7
    <3>2. pump'.push = <<>> /\ pump'.err = "none" /\ pump'.on = NoStream
          /\ pump' = [push |-> <<>>, err |-> "none", on |-> NoStream]
      BY <3>1 DEF IdlePump
    <3>3. Kept(me, me', s) /\ x = me'.e[s]
      <4>1. Kept(n, me', s) /\ me'.e = n.e
        BY <2>3, <3>1, RememberKept
      <4> QED BY <2>3, <4>1, KeptTwice
    <3>4. Coming(s)' = 0 /\ ~EndComing(s)'
      BY <1>1, <3>2, ItemsTyped, ShapeComing
    <3>5. PumpFor(s)
      <4>1. \A i \in DOMAIN pump'.push : FALSE
        BY <3>2
      <4> QED BY <2>5, <3>4, <4>1 DEF PumpFor
    <3>6. DoubtOK(s)' /\ OwesOK(s)' /\ ~Flows(x) /\ SameBody(x, x)
      BY <2>7, <3>3 DEF DoubtOK, OwesOK, Flows, SameBody
    <3>7. StreamOK(s)'
      <4>1. ~(pump'.err = "stream" /\ pump'.on = s) /\ q'[s] = q[s] /\ rd'[s] = rd[s]
        BY <1>1, <3>2
      <4> QED BY <1>4, <1>5, <3>3, <3>5, <3>6, <4>1, SameBodyStream
    <3>8. RecvTyped'
      <4>1. pump' \in [push : Seq(Pushes), err : {"none", "stream", "conn", "over"}, on : 0..N]
        BY <3>2, Consts DEF NoStream
      <4> QED BY <1>1, <1>6, <4>1 DEF RecvTyped
    <3>9. PumpOK'
      BY <3>2 DEF PumpOK
    <3>10. \A u \in Streams \ {s} : Quiet(u)'
      BY <3>2 DEF Quiet, Doubtful
    <3>11. Local(me, me', s) /\ (Running' => Balanced(me'))
      BY <1>1, <3>3, KeptLocal
    <3>12. pump.err # "conn" /\ \A u \in Streams \ {s} : Quiet(u) /\ Quiet(u)'
      BY <1>1, <2>4, <3>10
    <3> QED BY <1>1, <3>7, <3>8, <3>9, <3>11, <3>12, OneStream
  <2> QED BY <2>6, <2>7
<1> QED BY <1>7, <1>8

\* What is on its way to a stream, but for the first item.
LEMMA PushComing ==
    ASSUME RecvTyped, NEW u \in Streams, pump.push # <<>>, pump'.push = Tail(pump.push)
    PROVE  /\ Coming(u) = Coming(u)' + (IF pump.push[1].on = u THEN pump.push[1].item.len ELSE 0)
           /\ Coming(u)' \in Nat
           /\ EndComing(u) <=> EndComing(u)' \/ (pump.push[1].on = u /\ pump.push[1].item.kind # "chunk")
           /\ DOMAIN pump'.push = 1..Len(pump.push) - 1 /\ Len(pump.push) \in Nat
           /\ Len(pump.push) >= 1 /\ DOMAIN pump.push = 1..Len(pump.push)
           /\ \A i \in 1..Len(pump.push) - 1 : pump'.push[i] = pump.push[i + 1]
           /\ pump'.push \in Seq(Pushes) /\ Len(pump'.push) = Len(pump.push) - 1
<1> DEFINE p == pump.push
           t == pump'.push
           f == [i \in DOMAIN p |-> IF p[i].on = u THEN p[i].item.len ELSE 0]
           g == [i \in DOMAIN t |-> IF t[i].on = u THEN t[i].item.len ELSE 0]
<1>1. p \in Seq(Pushes) /\ p # <<>> /\ t = Tail(p)
  BY DEF RecvTyped
<1>2. Coming(u) = SumTo(f, Len(p)) /\ Coming(u)' = SumTo(g, Len(t))
  BY DEF Coming
<1>3. (EndComing(u) <=> \E i \in DOMAIN p : p[i].on = u /\ p[i].item.kind # "chunk")
      /\ (EndComing(u)' <=> \E i \in DOMAIN t : t[i].on = u /\ t[i].item.kind # "chunk")
  BY DEF EndComing
<1>4. \A i \in DOMAIN p : p[i].item.len \in Nat
  <2>1. \A w \in Pushes : w.item \in Items
    BY DEF Pushes
  <2> QED BY <1>1, <2>1, ItemsTyped
<1> HIDE DEF p, t
<1>5. PICK k \in Nat : Len(p) = k + 1
  <2>1. Len(p) \in Nat /\ Len(p) # 0
    BY <1>1
  <2>2. Len(p) - 1 \in Nat /\ Len(p) = (Len(p) - 1) + 1
    BY <2>1
  <2> QED BY <2>2
<1>6. /\ DOMAIN p = 1..k + 1 /\ DOMAIN t = 1..k /\ Len(t) = k /\ t \in Seq(Pushes)
      /\ \A i \in 1..k : t[i] = p[i + 1]
  BY <1>1, <1>5
<1>7. f[1] = IF p[1].on = u THEN p[1].item.len ELSE 0
  BY <1>6
<1>8. /\ \A i \in 1..k + 1 : f[i] \in Nat
      /\ \A i \in 1..k : g[i] = f[i + 1]
      /\ \A i \in 1..k : g[i] \in Nat
  <2>1. \A i \in 1..k : i + 1 \in 1..k + 1
    BY <1>5
  <2> QED BY <1>4, <1>6, <2>1
<1> HIDE DEF f, g
<1>9. SumTo(f, k + 1) = f[1] + SumTo(g, k) /\ SumTo(g, k) \in Nat
  BY <1>5, <1>8, SumShift, SumNat
<1>10. Coming(u) = Coming(u)' + (IF p[1].on = u THEN p[1].item.len ELSE 0) /\ Coming(u)' \in Nat
  <2>1. PICK a \in Nat, b \in Nat : a = f[1] /\ b = SumTo(g, k)
    BY <1>5, <1>8, <1>9
  <2>2. Coming(u) = a + b /\ Coming(u)' = b
    BY <1>2, <1>5, <1>6, <1>9, <2>1
  <2>3. a + b = b + a
    BY <2>1
  <2> QED BY <1>7, <2>1, <2>2, <2>3
<1>11. EndComing(u) <=> EndComing(u)' \/ (p[1].on = u /\ p[1].item.kind # "chunk")
  <2>1. ASSUME EndComing(u) PROVE EndComing(u)' \/ (p[1].on = u /\ p[1].item.kind # "chunk")
    <3>1. PICK i \in 1..k + 1 : p[i].on = u /\ p[i].item.kind # "chunk"
      BY <1>3, <1>6, <2>1
    <3>2. CASE i = 1
      BY <3>1, <3>2
    <3>3. CASE i # 1
      <4>1. i - 1 \in 1..k /\ t[i - 1] = p[(i - 1) + 1] /\ (i - 1) + 1 = i
        BY <1>5, <1>6, <3>3
      <4>2. i - 1 \in DOMAIN t /\ t[i - 1].on = u /\ t[i - 1].item.kind # "chunk"
        BY <1>6, <3>1, <4>1
      <4> QED BY <1>3, <4>2
    <3> QED BY <3>2, <3>3
  <2>2. ASSUME EndComing(u)' PROVE EndComing(u)
    <3>1. PICK i \in 1..k : t[i].on = u /\ t[i].item.kind # "chunk"
      BY <1>3, <1>6, <2>2
    <3>2. i + 1 \in DOMAIN p
      BY <1>5, <1>6
    <3>3. p[i + 1].on = u /\ p[i + 1].item.kind # "chunk"
      BY <1>6, <3>1
    <3> QED BY <1>3, <3>2, <3>3
  <2>3. ASSUME p[1].on = u /\ p[1].item.kind # "chunk" PROVE EndComing(u)
    <3>1. 1 \in DOMAIN p
      BY <1>5, <1>6
    <3> QED BY <1>3, <2>3, <3>1
  <2> QED BY <2>1, <2>2, <2>3
<1>12. Len(p) \in Nat /\ Len(p) >= 1 /\ Len(p) - 1 = k /\ Len(t) = Len(p) - 1
  BY <1>5, <1>6
<1> QED BY <1>5, <1>6, <1>10, <1>11, <1>12 DEF p, t

\* What an item of any kind appended to a queue changes.
LEMMA PushedFacts ==
    ASSUME NEW s \in Streams, RecvTyped, NEW it \in Items, q'[s] = Append(q[s], it)
    PROVE  /\ EndIn(s)' <=> EndIn(s) \/ it.kind # "chunk"
           /\ BytesIn(q[s])' = BytesIn(q[s]) + it.len
           /\ Len(q[s]) \in Nat /\ DOMAIN q[s] = 1..Len(q[s]) /\ DOMAIN q'[s] = 1..Len(q[s]) + 1
           /\ \A i \in 1..Len(q[s]) : q'[s][i] = q[s][i]
           /\ q'[s][Len(q[s]) + 1] = it
           /\ \A i \in 0..Len(q[s]) : Before(q'[s], i) = Before(q[s], i)
           /\ BytesIn(q[s]) = Before(q[s], Len(q[s])) /\ BytesIn(q[s]) \in Nat
<1>1. q[s] \in Seq(Items) /\ q[s] \in Seq(ItemTypes) /\ it \in ItemTypes
  BY ItemsTyped
<1>2. /\ Len(q[s]) \in Nat /\ DOMAIN q[s] = 1..Len(q[s]) /\ DOMAIN q'[s] = 1..Len(q[s]) + 1
      /\ \A i \in 1..Len(q[s]) : q'[s][i] = q[s][i]
      /\ q'[s][Len(q[s]) + 1] = it
  BY <1>1
<1>3. EndIn(s)' <=> EndIn(s) \/ it.kind # "chunk"
  <2>1. EndIn(s)' <=> \E i \in 1..Len(q[s]) + 1 : q'[s][i].kind # "chunk"
    BY <1>2 DEF EndIn
  <2>2. EndIn(s) <=> \E i \in 1..Len(q[s]) : q[s][i].kind # "chunk"
    BY <1>2 DEF EndIn
  <2>3. \A i : i \in 1..Len(q[s]) + 1 <=> i \in 1..Len(q[s]) \/ i = Len(q[s]) + 1
    BY <1>2
  <2> QED BY <1>2, <2>1, <2>2, <2>3
<1>4. /\ BytesIn(Append(q[s], it)) = BytesIn(q[s]) + it.len
      /\ \A i \in 0..Len(q[s]) : Before(Append(q[s], it), i) = Before(q[s], i)
  BY <1>1, BytesAppend
<1>5. BytesIn(q[s])' = BytesIn(Append(q[s], it))
  BY DEF BytesIn
<1>6. BytesIn(q[s]) \in Nat /\ BytesIn(q[s]) = Before(q[s], Len(q[s]))
  BY <1>1, BytesNat
<1>7. \A i \in 0..Len(q[s]) : Before(q'[s], i) = Before(q[s], i)
  BY <1>4
<1> QED BY <1>2, <1>3, <1>4, <1>5, <1>6, <1>7

\* The pump's send on a body queue.
LEMMA PushStep ==
    ASSUME RecvInv, Push, scene' = scene
    PROVE  RecvInv'
<1>1. /\ RecvTyped /\ MeOK(me) /\ PumpOK /\ pump.push # <<>> /\ pump.err = "none"
      /\ me' = me /\ rd' = rd /\ frames' = frames
  BY DEF RecvInv, Push, PumpOK
<1>2. PICK s, it : s = pump.push[1].on /\ it = pump.push[1].item
  OBVIOUS
<1>3. /\ s \in Streams /\ it \in Items /\ pump.push \in Seq(Pushes)
      /\ pump \in [push : Seq(Pushes), err : {"none", "stream", "conn", "over"}, on : 0..N]
  <2>1. pump \in [push : Seq(Pushes), err : {"none", "stream", "conn", "over"}, on : 0..N]
    BY <1>1 DEF RecvTyped
  <2>2. pump.push \in Seq(Pushes)
    BY <2>1
  <2>3. pump.push[1] \in Pushes
    BY <1>1, <2>2
  <2> QED BY <1>2, <2>1, <2>2, <2>3 DEF Pushes
<1>4. /\ q' = [q EXCEPT ![s] = Append(@, it)]
      /\ pump' = IF Len(pump.push) = 1 THEN IdlePump ELSE [pump EXCEPT !.push = Tail(pump.push)]
  BY <1>2 DEF Push
<1>5. pump'.push = Tail(pump.push) /\ pump'.err = "none" /\ pump' \in [push : Seq(Pushes), err : {"none", "stream", "conn", "over"}, on : 0..N]
      /\ (Tail(pump.push) = <<>> => pump'.on = NoStream)
  <2>1. Tail(pump.push) \in Seq(Pushes)
    <3>1. PICK w \in Seq(Pushes) : w = pump.push /\ w # <<>>
      BY <1>1, <1>3
    <3>2. Tail(w) \in Seq(Pushes)
      BY <3>1
    <3> QED BY <3>1, <3>2
  <2>4. Len(pump.push) = 1 <=> Tail(pump.push) = <<>>
    <3>1. PICK w \in Seq(Pushes) : w = pump.push /\ w # <<>>
      BY <1>1, <1>3
    <3>2. Len(w) \in Nat /\ Len(w) # 0 /\ Len(Tail(w)) = Len(w) - 1 /\ Tail(w) \in Seq(Pushes)
      BY <3>1
    <3>3. Len(w) = 1 <=> Len(Tail(w)) = 0
      BY <3>2
    <3>4. Len(Tail(w)) = 0 <=> Tail(w) = <<>>
      BY <3>2, EmptySeq
    <3>5. Len(w) = 1 <=> Tail(w) = <<>>
      BY <3>3, <3>4
    <3> QED BY <3>1, <3>5
  <2>2. CASE Len(pump.push) = 1
    <3>1. Tail(pump.push) = <<>>
      BY <2>2, <2>4
    <3>2. pump' = [push |-> <<>>, err |-> "none", on |-> NoStream]
      BY <1>4, <2>2 DEF IdlePump
    <3>3. NoStream \in 0..N
      BY Consts DEF NoStream
    <3>4. pump'.push = <<>> /\ pump'.err = "none" /\ pump'.on = NoStream /\ <<>> \in Seq(Pushes)
      BY <3>2
    <3>5. pump' \in [push : Seq(Pushes), err : {"none", "stream", "conn", "over"}, on : 0..N]
      BY <3>2, <3>3, <3>4
    <3> QED BY <3>1, <3>4, <3>5
  <2>3. CASE Len(pump.push) # 1
    <3>1. Tail(pump.push) # <<>>
      BY <2>3, <2>4
    <3>2. pump' = [pump EXCEPT !.push = Tail(pump.push)]
      BY <1>4, <2>3
    <3> QED BY <1>1, <1>3, <2>1, <3>1, <3>2
  <2> QED BY <2>2, <2>3
<1>6. /\ DOMAIN pump'.push = 1..Len(pump.push) - 1 /\ Len(pump.push) \in Nat /\ Len(pump.push) >= 1
      /\ DOMAIN pump.push = 1..Len(pump.push)
      /\ \A i \in 1..Len(pump.push) - 1 : pump'.push[i] = pump.push[i + 1]
      /\ Len(pump'.push) = Len(pump.push) - 1
  BY <1>1, <1>3, <1>5, PushComing
<1>7. /\ q' \in [Streams -> Seq(Items)] /\ q'[s] = Append(q[s], it)
      /\ \A u \in Streams \ {s} : q'[u] = q[u]
  <2>1. q \in [Streams -> Seq(Items)]
    BY <1>1 DEF RecvTyped
  <2> HIDE DEF Streams, Items
  <2> QED BY <1>3, <1>4, <2>1
<1>8. RecvTyped'
  <2>1. Items' = Items /\ Pushes' = Pushes /\ Rds' = Rds
    BY DEF Items, Pushes, Rds
  <2> QED BY <1>1, <1>5, <1>7, <2>1 DEF RecvTyped
<1>9. \A i \in DOMAIN pump'.push : i + 1 \in DOMAIN pump.push /\ pump'.push[i] = pump.push[i + 1]
  BY <1>6
<1>10. PumpOK'
  <2>1. \/ \A i \in DOMAIN pump.push : pump.push[i].item = Stopped
        \/ Len(pump.push) = 1
        \/ Len(pump.push) = 2
    BY <1>1 DEF PumpOK
  <2>2. \/ \A i \in DOMAIN pump'.push : pump'.push[i].item = Stopped
        \/ Len(pump'.push) = 1
    <3>1. CASE \A i \in DOMAIN pump.push : pump.push[i].item = Stopped
      BY <1>9, <3>1
    <3>2. CASE Len(pump.push) = 1
      <4>1. DOMAIN pump'.push = {}
        BY <1>6, <3>2
      <4> QED BY <4>1
    <3>3. CASE Len(pump.push) = 2
      BY <1>6, <3>3
    <3> QED BY <2>1, <3>1, <3>2, <3>3
  <2>3. \A i \in DOMAIN pump'.push :
          pump'.push[i].item.kind # "chunk" => pump'.push[i].item \in {EndOfBody, Stopped}
    BY <1>1, <1>9 DEF PumpOK
  <2>4. pump'.push = <<>> => pump'.on = NoStream
    BY <1>5
  <2> QED BY <1>5, <2>2, <2>3, <2>4 DEF PumpOK
<1>11. (Running' <=> Running) /\ me'.init = me.init
  BY <1>1, <1>5 DEF Running, Up
<1>12. \A u \in Streams : ~Doubtful(u) /\ ~Doubtful(u)'
  BY <1>1, <1>5 DEF Doubtful
<1>13. ASSUME NEW u \in Streams \ {s} PROVE StreamOK(u)'
  <2>1. Coming(u)' = Coming(u) /\ (EndComing(u)' <=> EndComing(u))
    <3>1. /\ Coming(u) = Coming(u)' + (IF s = u THEN it.len ELSE 0) /\ Coming(u)' \in Nat
          /\ EndComing(u) <=> EndComing(u)' \/ (s = u /\ it.kind # "chunk")
      BY <1>1, <1>2, <1>5, PushComing
    <3> QED BY <3>1
  <2>2. \A i \in DOMAIN pump'.push : pump'.push[i].on = u =>
           \E j \in DOMAIN pump.push : pump.push[j] = pump'.push[i]
    BY <1>9
  <2>3. StreamOK(u) /\ q'[u] = q[u] /\ rd'[u] = rd[u] /\ me'.e[u] = me.e[u]
    BY <1>1, <1>7 DEF RecvInv
  <2> QED BY <1>1, <1>5, <1>11, <1>12, <2>1, <2>2, <2>3, SameStream
<1>14. StreamOK(s)'
  <2>1. PICK c \in Nat : c = Coming(s)'
    BY <1>1, <1>3, <1>5, PushComing
  <2>2. PICK l \in Nat : l = it.len
    BY <1>1, <1>3, ItemsTyped
  <2>3. Coming(s) = c + l /\ (EndComing(s) <=> EndComing(s)' \/ it.kind # "chunk")
    BY <1>1, <1>2, <1>3, <1>5, <2>1, <2>2, PushComing
  <2>4. /\ EndIn(s)' <=> EndIn(s) \/ it.kind # "chunk"
        /\ BytesIn(q[s])' = BytesIn(q[s]) + l
        /\ Len(q[s]) \in Nat /\ DOMAIN q[s] = 1..Len(q[s]) /\ DOMAIN q'[s] = 1..Len(q[s]) + 1
        /\ \A i \in 1..Len(q[s]) : q'[s][i] = q[s][i]
        /\ q'[s][Len(q[s]) + 1] = it
        /\ \A i \in 0..Len(q[s]) : Before(q'[s], i) = Before(q[s], i)
        /\ BytesIn(q[s]) = Before(q[s], Len(q[s])) /\ BytesIn(q[s]) \in Nat
    BY <1>1, <1>3, <1>7, <2>2, PushedFacts
  <2>5. PICK b \in Nat : b = BytesIn(q[s])
    BY <2>4
  <2>6. StreamOK(s) /\ rd[s].got \in Nat /\ 1 \in DOMAIN pump.push
    BY <1>1, <1>3, <1>6, ItemsTyped DEF RecvInv
  <2>7. it.kind # "chunk" => it \in {EndOfBody, Stopped} /\ l = 0 /\ (it.kind = "eof" => it = EndOfBody)
    <3>1. it.kind # "chunk" => it \in {EndOfBody, Stopped}
      BY <1>1, <1>2, <2>6 DEF PumpOK
    <3>2. EndOfBody.len = 0 /\ Stopped.len = 0 /\ Stopped.kind # "eof"
      BY DEF EndOfBody, Stopped
    <3> QED BY <2>2, <3>1, <3>2
  <2>8. PICK g \in Nat : g = rd[s].got
    BY <2>6
  <2>9. EntryOK(me.e[s])'
    BY <1>1, <2>6 DEF StreamOK, EntryOK
  <2>10. IdleOK(s)'
    <3>1. me.e[s].recv # "idle"
      BY <1>2, <2>6 DEF StreamOK, IdleOK
    <3> QED BY <1>1, <3>1 DEF IdleOK
  <2>11. ReaderOK(s)'
    <3>1. ReaderOK(s)
      BY <2>6 DEF StreamOK
    <3>2. \A i \in DOMAIN q'[s] : q'[s][i].kind # "chunk" => q'[s][i].len = 0
      <4>1. \A i \in 1..Len(q[s]) + 1 : i \in 1..Len(q[s]) \/ i = Len(q[s]) + 1
        BY <2>4
      <4>2. \A i \in 1..Len(q[s]) : q[s][i].kind # "chunk" => q[s][i].len = 0
        BY <2>4, <3>1 DEF ReaderOK
      <4> QED BY <2>2, <2>4, <2>7, <4>1, <4>2
    <3> QED BY <1>1, <3>1, <3>2 DEF ReaderOK
  <2>12. DoubtOK(s)'
    <3>1. DoubtOK(s)
      BY <2>6 DEF StreamOK
    <3> QED BY <1>1, <1>3, <1>12, <3>1 DEF DoubtOK
  <2>13. WholeSoFar(s)'
    <3>1. WholeSoFar(s)
      BY <2>6 DEF StreamOK
    <3>2. SUFFICES ASSUME Flows(me.e[s])
                   PROVE  /\ ~EndIn(s)' /\ ~EndComing(s)' /\ rd[s].pc # "over"
                          /\ me.e[s].total = rd[s].got + BytesIn(q[s])' + Coming(s)'
      BY <1>1 DEF WholeSoFar
    <3>3. /\ ~EndIn(s) /\ ~EndComing(s) /\ rd[s].pc # "over"
          /\ me.e[s].total = rd[s].got + BytesIn(q[s]) + Coming(s)
      BY <1>1, <3>1, <3>2 DEF WholeSoFar
    <3>4. g + b + (c + l) = g + (b + l) + c
      OBVIOUS
    <3> QED BY <2>1, <2>3, <2>4, <2>5, <2>8, <3>3, <3>4
  <2>14. EofOnItsWay(s) /\ EofInQueue(s) /\ Told(s) /\ ToldBefore(s) /\ OwesOK(s)
    BY <2>6 DEF StreamOK
  <2>15. EofInQueue(s)'
    <3>1. SUFFICES ASSUME NEW i \in DOMAIN q'[s], rd[s].pc # "over", q'[s][i].kind = "eof",
                          \A j \in 1..i - 1 : q'[s][j].kind = "chunk"
                   PROVE  me.e[s].recv = "ended" /\ me.e[s].total = rd[s].got + Before(q'[s], i - 1)
      <4>1. \A i : Before(q[s], i)' = Before(q'[s], i)
        BY DEF Before
      <4> QED BY <1>1, <4>1 DEF EofInQueue
    <3>2. CASE i \in 1..Len(q[s])
      <4>1. i - 1 \in 0..Len(q[s]) /\ \A j \in 1..i - 1 : j \in 1..Len(q[s])
        BY <2>4, <3>2
      <4>2. q[s][i].kind = "eof" /\ \A j \in 1..i - 1 : q[s][j].kind = "chunk"
        BY <2>4, <3>1, <3>2, <4>1
      <4>3. me.e[s].recv = "ended" /\ me.e[s].total = rd[s].got + Before(q[s], i - 1)
        BY <2>4, <2>14, <3>1, <3>2, <4>2 DEF EofInQueue
      <4> QED BY <2>4, <4>1, <4>3
    <3>3. CASE i \notin 1..Len(q[s])
      <4>1. i = Len(q[s]) + 1 /\ i - 1 = Len(q[s])
        BY <2>4, <3>1, <3>3
      <4>2. it = EndOfBody /\ l = 0 /\ it.kind = "eof"
        <5>1. it.kind = "eof"
          BY <2>4, <3>1, <4>1
        <5> QED BY <2>7, <5>1
      <4>3. ~EndIn(s)
        <5>1. \A j \in 1..Len(q[s]) : q[s][j].kind = "chunk"
          BY <2>4, <3>1, <4>1
        <5> QED BY <2>4, <5>1 DEF EndIn
      <4>4. me.e[s].recv = "ended" /\ me.e[s].total = rd[s].got + BytesIn(q[s]) + Coming(s)
        BY <1>2, <2>6, <2>14, <3>1, <4>2, <4>3 DEF EofOnItsWay
      <4>5. c = 0
        <5>1. Len(pump.push) = 1
          <6>1. EndOfBody # Stopped /\ EndOfBody.kind # "chunk"
            <7>1. EndOfBody.kind # Stopped.kind /\ EndOfBody.kind # "chunk"
              BY DEF EndOfBody, Stopped
            <7> QED BY <7>1
          <6> QED BY <1>1, <1>2, <2>6, <4>2, <6>1 DEF PumpOK
        <5>2. pump'.push = <<>>
          BY <1>1, <1>3, <1>5, <5>1
        <5> QED BY <1>1, <1>3, <2>1, <5>2, ItemsTyped, ShapeComing
      <4>6. g + b + (0 + 0) = g + b
        OBVIOUS
      <4>7. me.e[s].total = g + b
        BY <2>3, <2>5, <2>8, <4>2, <4>4, <4>5, <4>6
      <4>8. Before(q'[s], i - 1) = b
        <5>1. Len(q[s]) \in 0..Len(q[s])
          BY <2>4
        <5> QED BY <2>4, <2>5, <4>1, <5>1
      <4> QED BY <2>8, <4>4, <4>7, <4>8
    <3> QED BY <3>2, <3>3
  <2>16. EofOnItsWay(s)'
    <3>1. SUFFICES ASSUME NEW i \in DOMAIN pump'.push, rd[s].pc # "over", pump'.push[i].on = s,
                          pump'.push[i].item.kind = "eof", ~EndIn(s)'
                   PROVE  me.e[s].recv = "ended" /\ me.e[s].total = rd[s].got + BytesIn(q[s])' + Coming(s)'
      BY <1>1 DEF EofOnItsWay
    <3>2. ~EndIn(s)
      BY <2>4, <3>1
    <3>3. i + 1 \in DOMAIN pump.push /\ pump'.push[i] = pump.push[i + 1]
      BY <1>9
    <3>4. me.e[s].recv = "ended" /\ me.e[s].total = rd[s].got + BytesIn(q[s]) + Coming(s)
      BY <2>14, <3>1, <3>2, <3>3 DEF EofOnItsWay
    <3>5. g + b + (c + l) = g + (b + l) + c
      OBVIOUS
    <3> QED BY <2>1, <2>3, <2>4, <2>5, <2>8, <3>4, <3>5
  <2>17. Told(s)' /\ ToldBefore(s)'
    BY <1>1, <2>3, <2>4, <2>14 DEF Told, ToldBefore
  <2>18. OwesOK(s)'
    <3>1. Held(s)' = Held(s)
      BY <1>1 DEF Held
    <3>2. PICK h \in Nat : h = Held(s)
      BY <1>1, <1>3, ItemsTyped DEF Held
    <3>3. b + (c + l) + h = (b + l) + c + h
      OBVIOUS
    <3>4. BytesIn(q[s])' + Coming(s)' + Held(s)' = BytesIn(q[s]) + Coming(s) + Held(s)
      BY <2>1, <2>3, <2>4, <2>5, <3>1, <3>2, <3>3
    <3> QED BY <1>1, <1>3, <1>11, <1>12, <2>14, <3>4 DEF OwesOK
  <2> QED BY <2>9, <2>10, <2>11, <2>12, <2>13, <2>15, <2>16, <2>17, <2>18 DEF StreamOK
<1>15. MeOK(me)' /\ (Running => Balanced(me))'
  <2>1. MeOK(me') /\ (Running' => Balanced(me'))
    BY <1>1, <1>11 DEF RecvInv
  <2> QED BY <2>1
<1> QED BY <1>8, <1>10, <1>13, <1>14, <1>15 DEF RecvInv

\* abort_stream.
LEMMA AbortFacts ==
    ASSUME NEW x \in Entries
    PROVE  /\ Abort(x) \in Entries /\ SameBody(x, Abort(x)) /\ Gone(Abort(x))
           /\ Abort(x).cause = IF x.cause = "none" THEN "broken" ELSE x.cause
<1> DEFINE c == IF x.cause = "none" THEN "broken" ELSE x.cause
           y == [x EXCEPT !.stored = FALSE, !.fin = TRUE, !.cause = c, !.unrel = 0, !.charged = 0,
                          !.reclaimed = TRUE]
<1>1. Abort(x) = y
  BY DEF Abort
<1>2. c \in {"end", "local", "remote", "after", "broken"} /\ c = IF x.cause = "none" THEN "broken" ELSE x.cause
  BY EntryFields
<1> HIDE DEF c
<1>3. /\ y \in Entries /\ y.recv = x.recv /\ y.total = x.total /\ y.app = x.app
      /\ y.spoiled = x.spoiled /\ ~y.stored /\ y.fin /\ y.unrel = 0 /\ y.charged = 0 /\ y.cause = c
  BY <1>2 DEF Entries
<1> HIDE DEF y
<1> QED BY <1>1, <1>2, <1>3 DEF SameBody, Gone

\* fail_all, and the loop of recv_go_away.
LEMMA AbortAllFacts ==
    ASSUME NEW m \in MeTypes, NEW S \in SUBSET Streams
    PROVE  /\ AbortAll(m, S) \in MeTypes
           /\ AbortAll(m, S).init = m.init /\ AbortAll(m, S).goaway = m.goaway
           /\ m.error => AbortAll(m, S).error
           /\ \A u \in Streams :
                AbortAll(m, S).e[u] = IF u \in S /\ m.e[u].stored THEN Abort(m.e[u]) ELSE m.e[u]
           /\ Live(AbortAll(m, S)) = Live(m) \ S
           /\ MeOK(m) => MeOK(AbortAll(m, S))
<1> DEFINE hit == {s \in S : m.e[s].stored}
           live == {s \in hit : ~m.e[s].fin}
           e == [s \in Streams |-> IF s \in hit THEN Abort(m.e[s]) ELSE m.e[s]]
           n == [m EXCEPT !.e = e, !.active = @ - Cardinality(live)]
           r == AbortAll(m, S)
<1>1. /\ m.e \in [Streams -> Entries] /\ m.active \in Int
      /\ \A u \in Streams : m.e[u] \in Entries
  BY MeFields
<1>2. live = Live(m) \cap S
  BY DEF Live
<1>3. r = IF live = {} THEN n ELSE GoAwayReply(n)
  BY DEF AbortAll
<1>4. \A u \in Streams : Abort(m.e[u]) \in Entries
  BY <1>1, AbortFacts
<1>5. e \in [Streams -> Entries]
  BY <1>1, <1>4
<1>6. \A u \in Streams : e[u] = IF u \in S /\ m.e[u].stored THEN Abort(m.e[u]) ELSE m.e[u]
  OBVIOUS
<1> HIDE DEF e, live
<1>7. IsFiniteSet(live) /\ Cardinality(live) \in Nat
  BY <1>2, LiveFinite, FS_Subset, FS_CardinalityType
<1>8. /\ n \in MeTypes /\ n.e = e /\ n.active = m.active - Cardinality(live)
      /\ n.init = m.init /\ n.goaway = m.goaway /\ n.error = m.error /\ n.store = m.store
  <2>1. PICK k \in Int : k = m.active - Cardinality(live)
    BY <1>1, <1>7
  <2>2. PICK o : o = [m EXCEPT !.e = e, !.active = k]
    OBVIOUS
  <2>3. /\ o \in MeTypes /\ o.e = e /\ o.active = k
        /\ o.init = m.init /\ o.goaway = m.goaway /\ o.error = m.error /\ o.store = m.store
    BY <1>5, <2>2 DEF MeTypes
  <2>4. n = o
    BY <2>1, <2>2
  <2> HIDE DEF n
  <2> QED BY <2>1, <2>3, <2>4
<1> HIDE DEF n, r
<1>9. Live(n) = Live(m) \ S
  <2>1. \A u \in Streams : u \in S /\ m.e[u].stored => ~n.e[u].stored
    BY <1>1, <1>6, <1>8, AbortFacts DEF Gone
  <2>2. \A u \in Streams : ~(u \in S /\ m.e[u].stored) => n.e[u] = m.e[u]
    BY <1>6, <1>8
  <2> QED BY <2>1, <2>2 DEF Live
<1>10. MeOK(m) => MeOK(n)
  <2>1. Cardinality(Live(n)) = Cardinality(Live(m)) - Cardinality(live)
    BY <1>2, <1>9, LiveFinite, FS_Difference
  <2> QED BY <1>8, <2>1 DEF MeOK
<1>11. /\ r \in MeTypes /\ r.e = n.e /\ r.init = n.init /\ r.goaway = n.goaway
       /\ (n.error => r.error) /\ (MeOK(n) => MeOK(r))
  <2>1. CASE r = n
    BY <1>8, <2>1
  <2>2. CASE r = GoAwayReply(n)
    <3>1. CASE Streams = {}
      <4>1. GoAwayReply(n) = n \/ GoAwayReply(n) = [n EXCEPT !.error = TRUE]
        BY DEF GoAwayReply
      <4>2. PICK o : o = [n EXCEPT !.error = TRUE]
        OBVIOUS
      <4>3. /\ o \in MeTypes /\ o.e = n.e /\ o.init = n.init /\ o.goaway = n.goaway /\ o.error
            /\ o.store = n.store /\ o.active = n.active
        BY <1>8, <4>2 DEF MeTypes
      <4>4. Live(o) = Live(n)
        BY <4>3 DEF Live
      <4>5. MeOK(n) => MeOK(o)
        BY <4>3, <4>4 DEF MeOK
      <4> QED BY <1>8, <2>2, <4>1, <4>2, <4>3, <4>5
    <3>2. ASSUME NEW s \in Streams PROVE Kept(n, r, s) /\ r.e = n.e
      BY <1>8, <2>2, GoAwayReplyKept
    <3> QED BY <3>1, <3>2 DEF Kept, Steady
  <2> QED BY <1>3, <2>1, <2>2
<1>12. Live(r) = Live(n)
  BY <1>11 DEF Live
<1> QED BY <1>6, <1>8, <1>9, <1>10, <1>11, <1>12 DEF r

\* A stream that ends with others: its reader is told.
LEMMA AbortedStream ==
    ASSUME RecvTyped, NEW u \in Streams, StreamOK(u), PumpFor(u), me \in MeTypes,
           rd'[u] = rd[u],
           me'.e[u] = IF me.e[u].stored THEN Abort(me.e[u]) ELSE me.e[u],
           q'[u] = IF me.e[u].stored /\ me.e[u].cause = "none" THEN Append(q[u], Stopped) ELSE q[u],
           pump'.err = "stream" /\ pump'.on = u => pump.err = "stream" /\ pump.on = u
    PROVE  StreamOK(u)'
<1>1. PICK x : x = me.e[u]
  OBVIOUS
<1>2. x \in Entries /\ EntryOK(x)
  BY <1>1, MeFields DEF StreamOK
<1>3. CASE x.stored
  <2>1. PICK y : y = Abort(x)
    OBVIOUS
  <2>2. y = me'.e[u]
    BY <1>1, <1>3, <2>1
  <2>3. /\ y \in Entries /\ SameBody(x, y) /\ Gone(y)
        /\ y.cause = IF x.cause = "none" THEN "broken" ELSE x.cause
    BY <1>2, <2>1, AbortFacts
  <2>4. x.recv # "idle"
    BY <1>2, <1>3 DEF EntryOK, NoEntry
  <2>5. y.cause # "none" /\ (y.cause = "after" => x.cause = "after") /\ (y.cause = "end" => x.cause = "end")
    BY <2>3
  <2>6. EntryOK(y) /\ y.recv # "idle"
    BY <1>2, <2>3, <2>4, <2>5 DEF EntryOK, Gone, SameBody
  <2>7. DoubtOK(u)' /\ OwesOK(u)' /\ ~Flows(y)
    BY <2>2, <2>3 DEF Gone, DoubtOK, OwesOK, Flows
  <2>8. x.cause = "none" \/ x.fin \/ x.spoiled
    BY <1>1, <1>3 DEF StreamOK, DoubtOK
  <2>9. \/ q'[u] = q[u] /\ (rd'[u].pc = "over" \/ x.fin \/ x.recv = "ended" \/ x.spoiled)
        \/ q'[u] = Append(q[u], Stopped)
    BY <1>1, <1>3, <2>8
  <2>10. /\ rd'[u].item = rd[u].item /\ rd'[u].end = rd[u].end /\ rd'[u].got = rd[u].got
         /\ rd'[u].pc \in {rd[u].pc, "over"}
    OBVIOUS
  <2> QED BY <1>1, <2>2, <2>3, <2>5, <2>6, <2>7, <2>9, <2>10, OverStream
<1>4. CASE ~x.stored
  <2>1. x = me'.e[u] /\ q'[u] = q[u]
    BY <1>1, <1>4
  <2>2. DoubtOK(u)' /\ OwesOK(u)' /\ ~Flows(x) /\ SameBody(x, x)
    BY <1>4, <2>1 DEF DoubtOK, OwesOK, Flows, SameBody
  <2> QED BY <1>1, <1>2, <2>1, <2>2, SameBodyStream
<1> QED BY <1>3, <1>4

\* The connection fails.
LEMMA FailStep ==
    ASSUME RecvInv, FailWith([me EXCEPT !.error = TRUE]), scene' = scene, rd' = rd, frames' = frames,
           pump' = pump \/ (pump.push = <<>> /\ pump' = PumpOver)
    PROVE  RecvInv'
<1>1. RecvTyped /\ MeOK(me) /\ PumpOK /\ me \in MeTypes
  BY DEF RecvInv, MeOK
<1>2. PICK m : m = [me EXCEPT !.error = TRUE]
  OBVIOUS
<1>3. /\ m \in MeTypes /\ m.e = me.e /\ m.error /\ m.store = me.store /\ m.active = me.active
      /\ m.init = me.init /\ m.goaway = me.goaway
  BY <1>1, <1>2 DEF MeTypes
<1>4. MeOK(m)
  <2>1. Live(m) = Live(me)
    BY <1>3 DEF Live
  <2> QED BY <1>1, <1>3, <2>1 DEF MeOK
<1>5. PICK r : r = AbortAll(m, Streams)
  OBVIOUS
<1>6. /\ r \in MeTypes /\ r.error /\ MeOK(r) /\ Live(r) = {}
      /\ \A u \in Streams : r.e[u] = IF me.e[u].stored THEN Abort(me.e[u]) ELSE me.e[u]
  <2>1. Live(m) \ Streams = {}
    BY DEF Live
  <2> QED BY <1>3, <1>4, <1>5, <2>1, AbortAllFacts
<1>7. me' = [r EXCEPT !.error = TRUE]
      /\ q' = [s \in Streams |-> IF s \in Aborted(m, Streams) THEN Append(q[s], Stopped) ELSE q[s]]
  BY <1>2, <1>5 DEF FailWith
<1>8. /\ me' \in MeTypes /\ me'.e = r.e /\ me'.error /\ me'.store = r.store /\ me'.active = r.active
  BY <1>6, <1>7 DEF MeTypes
<1>9. MeOK(me') /\ Live(me') = {}
  <2>1. Live(me') = Live(r)
    BY <1>8 DEF Live
  <2> QED BY <1>6, <1>8, <2>1 DEF MeOK
<1>10. ~Running'
  BY <1>8 DEF Running, Up
<1>11. /\ \A u \in Streams : q'[u] = IF me.e[u].stored /\ me.e[u].cause = "none"
                                    THEN Append(q[u], Stopped) ELSE q[u]
       /\ q' \in [Streams -> Seq(Items)]
  <2>1. \A u \in Streams : u \in Aborted(m, Streams) <=> me.e[u].stored /\ me.e[u].cause = "none"
    BY <1>3 DEF Aborted, Closed
  <2>2. \A u \in Streams : q[u] \in Seq(Items) /\ Append(q[u], Stopped) \in Seq(Items)
    BY <1>1, ItemsTyped
  <2> QED BY <1>7, <2>1, <2>2
<1>12. RecvTyped'
  <2>1. Items' = Items /\ Pushes' = Pushes /\ Rds' = Rds
    BY DEF Items, Pushes, Rds
  <2>2. PumpOver \in [push : Seq(Pushes), err : {"none", "stream", "conn", "over"}, on : 0..N]
    <3>1. PumpOver = [push |-> <<>>, err |-> "over", on |-> NoStream]
      BY DEF PumpOver, IdlePump
    <3> QED BY <3>1, Consts DEF NoStream
  <2> QED BY <1>1, <1>11, <2>1, <2>2 DEF RecvTyped
<1>13. PumpOK'
  <2>1. CASE pump' = pump
    BY <1>1, <1>8, <1>9, <2>1, PumpSame
  <2>2. CASE pump' = PumpOver
    <3>1. pump'.push = <<>> /\ pump'.err = "over" /\ pump'.on = NoStream
      BY <2>2 DEF PumpOver, IdlePump
    <3> QED BY <1>8, <1>9, <3>1 DEF PumpOK
  <2> QED BY <2>1, <2>2
<1>14. ASSUME NEW u \in Streams PROVE StreamOK(u)'
  <2>1. StreamOK(u)
    BY DEF RecvInv
  <2>2. PumpFor(u) /\ (pump'.err = "stream" /\ pump'.on = u => pump.err = "stream" /\ pump.on = u)
    <3>1. CASE pump' = pump
      BY <3>1, PumpForSame
    <3>2. CASE pump.push = <<>> /\ pump' = PumpOver
      <4>1. pump'.push = <<>> /\ pump'.err = "over"
        BY <3>2 DEF PumpOver, IdlePump
      <4>2. pump'.push = pump.push /\ \A i \in DOMAIN pump'.push : FALSE
        BY <3>2, <4>1
      <4>3. Coming(u)' = Coming(u) /\ (EndComing(u)' <=> EndComing(u))
        BY <4>2 DEF Coming, EndComing
      <4> QED BY <4>1, <4>2, <4>3 DEF PumpFor
    <3> QED BY <3>1, <3>2
  <2>3. /\ rd'[u] = rd[u]
        /\ me'.e[u] = IF me.e[u].stored THEN Abort(me.e[u]) ELSE me.e[u]
        /\ q'[u] = IF me.e[u].stored /\ me.e[u].cause = "none" THEN Append(q[u], Stopped) ELSE q[u]
    BY <1>6, <1>8, <1>11
  <2> QED BY <1>1, <2>1, <2>2, <2>3, AbortedStream
<1> QED BY <1>9, <1>10, <1>12, <1>13, <1>14 DEF RecvInv

\* The pump takes the connection down.
LEMMA PumpFailsStep ==
    ASSUME RecvInv, PumpFails, scene' = scene
    PROVE  RecvInv'
<1>1. pump.err = "conn" /\ FailWith([me EXCEPT !.error = TRUE]) /\ pump' = PumpOver
      /\ rd' = rd /\ frames' = frames
  BY DEF PumpFails
<1>2. pump.push = <<>>
  BY <1>1 DEF RecvInv, PumpOK
<1> QED BY <1>1, <1>2, FailStep

\* The transport fails, under the read pump or the write pump.
LEMMA TransportFailsStep ==
    ASSUME RecvInv, TransportFails, scene' = scene
    PROVE  RecvInv'
<1>1. FailWith([me EXCEPT !.error = TRUE]) /\ rd' = rd /\ frames' = frames
  BY DEF TransportFails
<1>2. pump' = pump \/ (pump.push = <<>> /\ pump' = PumpOver)
  <2>1. pump' = pump \/ (pump = IdlePump /\ pump' = PumpOver)
    BY DEF TransportFails
  <2> QED BY <2>1 DEF IdlePump
<1> QED BY <1>1, <1>2, FailStep

\* The streams a GOAWAY leaves alone.
LEMMA GoAwayOther ==
    ASSUME RecvInv, NEW u \in Streams, pump = IdlePump, RecvTyped', ~Running',
           me'.e[u] = me.e[u], me'.init = me.init, q' = q, rd' = rd, pump'.err \in {"none", "conn"},
           \A i \in DOMAIN pump'.push : pump'.push[i].on # u,
           pump'.err = "conn" => pump'.on = NoStream
    PROVE  StreamOK(u)'
<1>1. RecvTyped /\ StreamOK(u)
  BY DEF RecvInv
<1>2. Coming(u) = 0 /\ ~EndComing(u) /\ pump.err = "none" /\ ~Doubtful(u)
  BY <1>1, IdlePumpFacts
<1>3. ~Doubtful(u)'
  BY Consts DEF Doubtful, NoStream
<1>4. Coming(u)' = 0 /\ ~EndComing(u)'
  <2>1. PumpTyped'
    BY DEF RecvTyped, PumpTyped
  <2>2. Quiet(u)'
    BY <1>3 DEF Quiet
  <2> QED BY <2>1, <2>2, QuietFacts
<1> QED BY <1>1, <1>2, <1>3, <1>4, SameStream

\* ... and those it ends.
LEMMA GoAwayEnded ==
    ASSUME RecvInv, NEW u \in Streams, pump = IdlePump, q' = q, rd' = rd,
           me.e[u].stored, me'.e[u] = Abort(me.e[u]),
           \A i \in DOMAIN pump'.push : pump'.push[i].item = Stopped,
           me.e[u].cause = "none" => \E i \in DOMAIN pump'.push : pump'.push[i].on = u
    PROVE  StreamOK(u)'
<1>1. PICK x, y : x = me.e[u] /\ y = Abort(x)
  OBVIOUS
<1>2. /\ x \in Entries /\ EntryOK(x) /\ StreamOK(u) /\ x.recv # "idle" /\ y = me'.e[u]
      /\ (~x.fin => x.cause = "none")
  BY <1>1, EntryIdle
<1>3. /\ y \in Entries /\ SameBody(x, y) /\ Gone(y)
      /\ y.cause = IF x.cause = "none" THEN "broken" ELSE x.cause
  BY <1>1, <1>2, AbortFacts
<1>4. y.cause # "none" /\ (y.cause = "after" => x.cause = "after") /\ (y.cause = "end" => x.cause = "end")
  BY <1>3
<1>5. EntryOK(y) /\ y.recv # "idle"
  BY <1>2, <1>3, <1>4 DEF EntryOK, Gone, SameBody
<1>6. DoubtOK(u)' /\ OwesOK(u)' /\ ~Flows(y)
  BY <1>2, <1>3 DEF Gone, DoubtOK, OwesOK, Flows
<1>7. Stopped.kind # "chunk" /\ Stopped.kind # "eof"
  BY DEF Stopped
<1>8. x.cause = "none" => EndComing(u)'
  BY <1>1, <1>7 DEF EndComing
<1>9. y.recv = x.recv /\ y.total = x.total /\ y.app = x.app /\ y.spoiled = x.spoiled
  BY <1>3 DEF SameBody
<1>10. y.app /\ ~y.spoiled /\ (y.fin \/ y.recv = "ended") =>
              \/ x.app /\ ~x.spoiled /\ (x.fin \/ x.recv = "ended")
              \/ EndComing(u)'
  BY <1>2, <1>8, <1>9
<1>11. \A i \in DOMAIN pump'.push : pump'.push[i].item.kind # "eof"
  BY <1>7
<1>12. x.recv = "ended" => y.recv = "ended" /\ y.total = x.total
  BY <1>9
<1>13. y.cause = "after" => x.cause = "after" \/ EndIn(u) \/ rd[u].pc = "over"
  BY <1>4
<1> QED BY <1>1, <1>2, <1>5, <1>6, <1>10, <1>11, <1>12, <1>13, FromIdle

\* recv_go_away.
LEMMA RecvGoAwayStep ==
    ASSUME RecvInv, RecvGoAway, scene' = scene
    PROVE  RecvInv'
<1>1. /\ RecvTyped /\ MeOK(me) /\ PumpOK /\ me \in MeTypes /\ PumpIdle /\ pump = IdlePump
      /\ frames \in Nat /\ pump.err = "none"
  BY DEF RecvInv, MeOK, RecvGoAway, PumpIdle, RecvTyped, IdlePump
<1>2. Items' = Items /\ Pushes' = Pushes /\ Rds' = Rds
  BY DEF Items, Pushes, Rds
<1>3. PICK last \in 0..N :
         LET over == IF scene.role = "client" THEN {s \in Streams : s > last} ELSE {}
             told == Aborted(me, over)
         IN  IF last > me.goaway THEN Verdict(me, <<>>, "conn", NoStream)
             ELSE \E order \in Surjection(1..Cardinality(told), told) :
                    Verdict(AbortAll([me EXCEPT !.goaway = last], over),
                            [i \in 1..Cardinality(told) |-> [on |-> order[i], item |-> Stopped]],
                            "none", NoStream)
  BY Zenon DEF RecvGoAway
<1>4. CASE last > me.goaway
  <2>1. Verdict(me, <<>>, "conn", NoStream)
    BY <1>3, <1>4
  <2>2. /\ me' = me /\ q' = q /\ rd' = rd /\ frames' = frames + 1
        /\ pump'.push = <<>> /\ pump'.err = "conn" /\ pump'.on = NoStream
        /\ pump' = [push |-> <<>>, err |-> "conn", on |-> NoStream]
    BY <2>1 DEF Verdict
  <2>3. RecvTyped'
    <3>1. pump' \in [push : Seq(Pushes), err : {"none", "stream", "conn", "over"}, on : 0..N]
      BY <2>2, Consts DEF NoStream
    <3>2. frames' \in Nat
      BY <1>1, <2>2
    <3> QED BY <1>1, <1>2, <2>2, <3>1, <3>2 DEF RecvTyped
  <2>4. PumpOK' /\ ~Running'
    BY <2>2 DEF PumpOK, Running, Up
  <2>5. MeOK(me)'
    <3>1. MeOK(me')
      BY <1>1, <2>2
    <3> QED BY <3>1
  <2>6. ASSUME NEW u \in Streams PROVE StreamOK(u)'
    <3>1. \A i \in DOMAIN pump'.push : FALSE
      BY <2>2
    <3> QED BY <1>1, <2>2, <2>3, <2>4, <3>1, GoAwayOther
  <2> QED BY <2>3, <2>4, <2>5, <2>6 DEF RecvInv
<1>5. CASE ~(last > me.goaway)
  <2>1. PICK over, told : /\ over = IF scene.role = "client" THEN {s \in Streams : s > last} ELSE {}
                          /\ told = Aborted(me, over)
    OBVIOUS
  <2>2. PICK k : k = Cardinality(told)
    OBVIOUS
  <2>3. PICK order \in Surjection(1..k, told) :
            Verdict(AbortAll([me EXCEPT !.goaway = last], over),
                    [i \in 1..k |-> [on |-> order[i], item |-> Stopped]], "none", NoStream)
    BY <1>3, <1>5, <2>1, <2>2
  <2>4. over \in SUBSET Streams /\ told \in SUBSET Streams /\ k \in Nat
        /\ \A u \in Streams : u \in told <=> u \in over /\ me.e[u].stored /\ me.e[u].cause = "none"
    <3>1. over \in SUBSET Streams
      BY <2>1
    <3>2. told = {s \in over : me.e[s].stored /\ ~Closed(me, s)}
      BY <2>1 DEF Aborted
    <3>3. told \in SUBSET Streams
      BY <3>1, <3>2
    <3>4. IsFiniteSet(told)
      <4>1. IsFiniteSet(Streams)
        BY Consts, FS_Interval
      <4> QED BY <3>3, <4>1, FS_Subset
    <3>5. k \in Nat
      BY <2>2, <3>4, FS_CardinalityType
    <3>6. \A u \in Streams : u \in told <=> u \in over /\ me.e[u].stored /\ me.e[u].cause = "none"
      BY <3>2 DEF Closed
    <3> QED BY <3>1, <3>3, <3>5, <3>6
  <2>5. order \in [1..k -> told] /\ \A u \in told : \E i \in 1..k : order[i] = u
    BY <2>3 DEF Surjection
  <2>6. PICK m, push : /\ m = [me EXCEPT !.goaway = last]
                       /\ push = [i \in 1..k |-> [on |-> order[i], item |-> Stopped]]
    OBVIOUS
  <2>7. /\ m \in MeTypes /\ m.e = me.e /\ m.goaway = last /\ m.store = me.store
        /\ m.active = me.active /\ m.init = me.init
    <3>1. last \in 0..N + 1
      BY Consts
    <3> QED BY <1>1, <2>6, <3>1 DEF MeTypes
  <2>8. MeOK(m)
    <3>1. Live(m) = Live(me)
      BY <2>7 DEF Live
    <3> QED BY <1>1, <2>7, <3>1 DEF MeOK
  <2>9. PICK r : r = AbortAll(m, over)
    OBVIOUS
  <2>10. /\ MeOK(r) /\ r.init = me.init /\ r.goaway = last
         /\ \A u \in Streams : r.e[u] = IF u \in over /\ me.e[u].stored THEN Abort(me.e[u]) ELSE me.e[u]
    BY <2>4, <2>7, <2>8, <2>9, AbortAllFacts
  <2>11. Verdict(r, push, "none", NoStream)
    BY <2>3, <2>6, <2>9
  <2>12. /\ me' = r /\ q' = q /\ rd' = rd /\ frames' = frames + 1
         /\ pump'.push = push /\ pump'.err = "none" /\ pump'.on = NoStream
         /\ pump' = [push |-> push, err |-> "none", on |-> NoStream]
    <3>1. /\ me' = r /\ q' = q /\ rd' = rd /\ frames' = frames + 1
          /\ pump' = IF push = <<>> THEN IdlePump ELSE [push |-> push, err |-> "none", on |-> NoStream]
      BY <2>11 DEF Verdict
    <3>2. pump' = [push |-> push, err |-> "none", on |-> NoStream]
      BY <3>1 DEF IdlePump
    <3> QED BY <3>1, <3>2
  <2>13. /\ DOMAIN push = 1..k
         /\ \A i \in 1..k : push[i].on = order[i] /\ push[i].on \in told /\ push[i].item = Stopped
                            /\ push[i] = [on |-> order[i], item |-> Stopped]
    BY <2>5, <2>6
  <2>14. push \in Seq(Pushes)
    <3>1. \A i \in 1..k : push[i] \in Pushes
      BY <1>1, <2>4, <2>13, ItemsTyped DEF Pushes
    <3>2. push = [i \in 1..k |-> push[i]]
      BY <2>6
    <3>3. push \in [1..k -> Pushes]
      BY <3>1, <3>2
    <3> QED BY <2>4, <3>3
  <2>15. RecvTyped'
    <3>1. pump' \in [push : Seq(Pushes), err : {"none", "stream", "conn", "over"}, on : 0..N]
      BY <2>12, <2>14, Consts DEF NoStream
    <3>2. frames' \in Nat
      BY <1>1, <2>12
    <3> QED BY <1>1, <1>2, <2>12, <3>1, <3>2 DEF RecvTyped
  <2>16. PumpOK'
    BY <2>12, <2>13 DEF PumpOK
  <2>17. ~Running'
    BY <2>10, <2>12, Consts DEF Running, NoGoAway
  <2>18. MeOK(me)'
    <3>1. MeOK(me')
      BY <2>10, <2>12
    <3> QED BY <3>1
  <2>19. ASSUME NEW u \in Streams PROVE StreamOK(u)'
    <3>1. CASE u \in over /\ me.e[u].stored
      <4>1. me'.e[u] = Abort(me.e[u])
        BY <2>10, <2>12, <3>1
      <4>2. \A i \in DOMAIN pump'.push : pump'.push[i].item = Stopped
        BY <2>12, <2>13
      <4>3. me.e[u].cause = "none" => \E i \in DOMAIN pump'.push : pump'.push[i].on = u
        <5>1. SUFFICES ASSUME me.e[u].cause = "none" PROVE \E i \in DOMAIN pump'.push : pump'.push[i].on = u
          OBVIOUS
        <5>2. PICK i \in 1..k : order[i] = u
          BY <2>4, <2>5, <3>1, <5>1
        <5> QED BY <2>12, <2>13, <5>2
      <4> QED BY <1>1, <2>12, <3>1, <4>1, <4>2, <4>3, GoAwayEnded
    <3>2. CASE ~(u \in over /\ me.e[u].stored)
      <4>1. me'.e[u] = me.e[u] /\ me'.init = me.init
        BY <2>10, <2>12, <3>2
      <4>2. \A i \in DOMAIN pump'.push : pump'.push[i].on # u
        BY <2>4, <2>12, <2>13, <3>2
      <4> QED BY <1>1, <2>12, <2>15, <2>17, <4>1, <4>2, GoAwayOther
    <3> QED BY <3>1, <3>2
  <2> QED BY <2>15, <2>16, <2>17, <2>18, <2>19 DEF RecvInv
<1> QED BY <1>4, <1>5

\* What our SETTINGS take off a stream's window.
TrimmedEntry(x, d) == [x EXCEPT !.flow = Consume(x.flow, d)]

\* ... and nothing else.
LEMMA TrimmedFacts ==
    ASSUME NEW x \in Entries, NEW d \in Nat
    PROVE  /\ TrimmedEntry(x, d) \in Entries /\ SameBody(x, TrimmedEntry(x, d))
           /\ TrimmedEntry(x, d).stored = x.stored /\ TrimmedEntry(x, d).fin = x.fin
           /\ TrimmedEntry(x, d).cause = x.cause /\ TrimmedEntry(x, d).unrel = x.unrel
           /\ TrimmedEntry(x, d).charged = x.charged /\ TrimmedEntry(x, d).reclaimed = x.reclaimed
           /\ TrimmedEntry(x, d).flow.win = x.flow.win - d
           /\ TrimmedEntry(x, d).flow.avail = x.flow.avail - d
<1> DEFINE f == Consume(x.flow, d)
           y == [x EXCEPT !.flow = f]
<1>1. f \in [win : Int, avail : Int] /\ f.win = x.flow.win - d /\ f.avail = x.flow.avail - d
  BY EntryFields DEF Consume
<1> HIDE DEF f
<1>2. /\ y \in Entries /\ y.stored = x.stored /\ y.fin = x.fin /\ y.cause = x.cause
      /\ y.unrel = x.unrel /\ y.charged = x.charged /\ y.reclaimed = x.reclaimed
      /\ y.recv = x.recv /\ y.total = x.total /\ y.app = x.app /\ y.spoiled = x.spoiled
      /\ y.flow = f
  BY <1>1 DEF Entries
<1>3. TrimmedEntry(x, d) = y
  BY DEF TrimmedEntry, f
<1> HIDE DEF y
<1> QED BY <1>1, <1>2, <1>3 DEF SameBody

\* apply_local_settings.
LEMMA RecvSettingsAckStep ==
    ASSUME RecvInv, RecvSettingsAck, scene' = scene
    PROVE  RecvInv'
<1>1. /\ RecvTyped /\ MeOK(me) /\ PumpOK /\ me \in MeTypes /\ pump = IdlePump
      /\ pump' = pump /\ q' = q /\ rd' = rd /\ frames' = frames /\ me.init # StreamWindow
  BY DEF RecvInv, MeOK, RecvSettingsAck
<1>2. PICK d \in Nat : d = RecvInit - StreamWindow
  BY Consts
<1>3. me.init = RecvInit /\ me.e \in [Streams -> Entries]
  BY <1>1, MeFields
<1>4. PICK e : e = [s \in Streams |-> IF me.e[s].stored THEN TrimmedEntry(me.e[s], d) ELSE me.e[s]]
  OBVIOUS
<1>5. me' = [me EXCEPT !.init = StreamWindow, !.e = e]
  <2>1. me' = [me EXCEPT !.init = StreamWindow,
                         !.e = [s \in Streams |->
                                   IF me.e[s].stored THEN [me.e[s] EXCEPT !.flow = Consume(@, d)]
                                   ELSE me.e[s]]]
    BY <1>2, <1>3 DEF RecvSettingsAck
  <2>2. \A x : [x EXCEPT !.flow = Consume(@, d)] = TrimmedEntry(x, d)
    BY DEF TrimmedEntry
  <2> QED BY <1>4, <2>1, <2>2
<1>6. \A u \in Streams : me.e[u] \in Entries /\ TrimmedEntry(me.e[u], d) \in Entries
  BY <1>3, TrimmedFacts
<1>7. e \in [Streams -> Entries]
      /\ \A u \in Streams : e[u] = IF me.e[u].stored THEN TrimmedEntry(me.e[u], d) ELSE me.e[u]
  BY <1>4, <1>6
<1>8. /\ me' \in MeTypes /\ me'.e = e /\ me'.init = StreamWindow /\ me'.conn = me.conn
      /\ me'.budget = me.budget /\ me'.store = me.store /\ me'.active = me.active
      /\ me'.goaway = me.goaway /\ me'.error = me.error
  BY <1>1, <1>5, <1>7 DEF MeTypes
<1>9. \A u \in Streams :
        /\ e[u].stored = me.e[u].stored /\ e[u].fin = me.e[u].fin
        /\ e[u].unrel = me.e[u].unrel /\ e[u].charged = me.e[u].charged
  BY <1>6, <1>7, TrimmedFacts
<1>10. Live(me') = Live(me) /\ Owed(me') = Owed(me) /\ Spent(me') = Spent(me)
  BY <1>8, <1>9 DEF Live, Owed, Spent
<1>11. MeOK(me)'
  <2>1. MeOK(me')
    BY <1>1, <1>8, <1>10 DEF MeOK
  <2> QED BY <2>1
<1>12. (Running' => Running) /\ (Running => Balanced(me))'
  <2>1. Running' => Running
    BY <1>1, <1>8 DEF Running, Up
  <2>2. Running' => Balanced(me')
    BY <1>8, <1>10, <2>1 DEF RecvInv, Balanced
  <2> QED BY <2>1, <2>2
<1>13. RecvTyped'
  <2>1. q' \in [Streams -> Seq(Items)] /\ rd' \in [Streams -> Rds]
    BY <1>1 DEF RecvTyped
  <2> QED BY <1>1, <2>1, TypedSame
<1>14. PumpOK'
  <2>1. pump.err # "over"
    BY <1>1 DEF IdlePump
  <2> QED BY <1>1, <2>1, PumpSame
<1>15. ASSUME NEW u \in Streams PROVE StreamOK(u)'
  <2>1. PICK x, y : x = me.e[u] /\ y = me'.e[u]
    OBVIOUS
  <2>2. x \in Entries /\ EntryOK(x) /\ StreamOK(u)
    BY <2>1, EntryIdle
  <2>3. PumpFor(u) /\ (Doubtful(u)' <=> Doubtful(u)) /\ Coming(u)' = Coming(u)
    BY <1>1, PumpForSame
  <2>4. y = IF x.stored THEN TrimmedEntry(x, d) ELSE x
    BY <1>7, <1>8, <2>1
  <2>5. /\ y \in Entries /\ SameBody(x, y)
        /\ y.stored = x.stored /\ y.fin = x.fin /\ y.cause = x.cause /\ y.unrel = x.unrel
        /\ y.charged = x.charged /\ y.reclaimed = x.reclaimed
    <3>1. CASE x.stored
      BY <2>2, <2>4, <3>1, TrimmedFacts
    <3>2. CASE ~x.stored
      BY <2>2, <2>4, <3>2 DEF SameBody
    <3> QED BY <3>1, <3>2
  <2>6. EntryOK(y)
    <3>1. CASE x.stored
      <4>1. x.recv # "idle"
        BY <2>2, <3>1 DEF EntryOK, NoEntry
      <4> QED BY <2>2, <2>5, <4>1 DEF EntryOK, SameBody
    <3>2. CASE ~x.stored
      BY <2>2, <2>4, <3>2
    <3> QED BY <3>1, <3>2
  <2>7. (y.spoiled <=> x.spoiled) /\ (y.app <=> x.app) /\ y.recv = x.recv
    BY <2>5 DEF SameBody
  <2>8. DoubtOK(u)'
    <3>1. DoubtOK(u)
      BY <2>2 DEF StreamOK
    <3> QED BY <2>1, <2>3, <2>5, <2>7, <3>1 DEF DoubtOK
  <2>9. FlowOK(x, RecvInit) /\ x.stored => FlowOK(y, StreamWindow)
    <3>1. SUFFICES ASSUME FlowOK(x, RecvInit), x.stored PROVE FlowOK(y, StreamWindow)
      OBVIOUS
    <3>2. PICK w \in Int, a \in Int, k \in Nat : w = x.flow.win /\ a = x.flow.avail /\ k = x.unrel
      BY <2>2, EntryFields
    <3>3. y.flow.win = w - d /\ y.flow.avail = a - d /\ y.unrel = k
      BY <2>2, <2>4, <2>5, <3>1, <3>2, TrimmedFacts
    <3>4. a + k = RecvInit /\ (k = 0 => Tight(x.flow))
      BY <1>1, <1>3, <3>1, <3>2 DEF FlowOK
    <3>5. (a - d) + k = StreamWindow
      BY <1>2, <3>4, Consts
    <3>6. ASSUME k = 0 PROVE Tight([win |-> (w - d) + (RecvInit - StreamWindow), avail |-> RecvInit])
      <4>1. a = RecvInit /\ (w - d) + (RecvInit - StreamWindow) = w
        BY <1>2, <3>4, <3>6, Consts
      <4>2. w < a => a - w < (IF w < 0 THEN 0 ELSE w \div 2)
        BY <3>2, <3>4, <3>6 DEF Tight
      <4> QED BY <4>1, <4>2 DEF Tight
    <3> QED BY <3>3, <3>5, <3>6 DEF FlowOK
  <2>10. OwesOK(u)'
    <3>1. OwesOK(u)
      BY <2>2 DEF StreamOK
    <3>2. BytesIn(q[u])' = BytesIn(q[u]) /\ Held(u)' = Held(u)
      BY <1>1 DEF BytesIn, Held
    <3>3. Flows(y) <=> Flows(x)
      BY <2>5, <2>7 DEF Flows
    <3> QED BY <1>3, <1>8, <1>12, <2>1, <2>3, <2>5, <2>9, <3>1, <3>2, <3>3 DEF OwesOK
  <2>11. /\ pump'.err = "stream" /\ pump'.on = u => pump.err = "stream" /\ pump.on = u
         /\ Flows(y) /\ pump'.err # "conn" => Flows(x) /\ pump.err # "conn"
         /\ y.fin => x.fin \/ x.recv = "ended"
         /\ y.cause = "after" => x.cause = "after"
         /\ q'[u] = q[u] /\ rd'[u] = rd[u]
    BY <1>1, <2>5, <2>7 DEF Flows
  <2> QED BY <2>1, <2>2, <2>3, <2>5, <2>6, <2>8, <2>10, <2>11, SameBodyStream
<1> QED BY <1>11, <1>12, <1>13, <1>14, <1>15 DEF RecvInv

-----------------------------------------------------------------------------
(* The theorems.                                                             *)

\* Nothing is known of any stream at first.
LEMMA RecvStart == Init => RecvInv
<1> SUFFICES ASSUME Init PROVE RecvInv
  OBVIOUS
<1>1. /\ scene \in Scenarios /\ pump = IdlePump /\ frames = 0
      /\ q = [s \in Streams |-> <<>>] /\ rd = [s \in Streams |-> Reading]
      /\ me = [e |-> [s \in Streams |-> NoEntry], conn |-> Flow(ConnWindow),
               budget |-> BudgetMax, empty |-> 0, errors |-> 0, store |-> {}, active |-> 0,
               init |-> RecvInit, goaway |-> NoGoAway, error |-> FALSE]
  BY DEF Init
<1>2. NoEntry \in Entries
  BY DEF NoEntry, Entries, Flow
<1>3. EndOfBody \in Items
  BY DEF EndOfBody, Items
<1>4. RecvTyped
  <2>1. pump \in [push : Seq(Pushes), err : {"none", "stream", "conn", "over"}, on : 0..N]
    <3>1. pump = [push |-> <<>>, err |-> "none", on |-> NoStream] /\ <<>> \in Seq(Pushes)
      BY <1>1 DEF IdlePump
    <3> QED BY <3>1, Consts DEF NoStream
  <2>2. q \in [Streams -> Seq(Items)]
    BY <1>1
  <2>3. rd \in [Streams -> Rds]
    BY <1>1, <1>3 DEF Reading, Rds
  <2> QED BY <1>1, <2>1, <2>2, <2>3 DEF RecvTyped
<1>5. /\ me.e = [s \in Streams |-> NoEntry] /\ me.conn = Flow(ConnWindow) /\ me.budget = BudgetMax
      /\ me.store = {} /\ me.active = 0 /\ me.empty = 0 /\ me.errors = 0 /\ me.init = RecvInit
      /\ me.goaway = NoGoAway /\ me.error = FALSE
  BY <1>1
<1>6. \A s \in Streams : me.e[s] = NoEntry /\ q[s] = <<>> /\ rd[s] = Reading
  BY <1>1, <1>5
<1>7. me \in MeTypes
  <2>1. [s \in Streams |-> NoEntry] \in [Streams -> Entries]
    BY <1>2
  <2>2. Flow(ConnWindow) \in [win : Nat, avail : Int]
    BY Consts DEF Flow
  <2>3. BudgetMax \in 0..BudgetMax /\ 0 \in 0..MaxEmpty /\ 0 \in 0..MaxErrors /\ NoGoAway \in 0..N + 1
    BY Consts DEF NoGoAway
  <2> QED BY <1>1, <2>1, <2>2, <2>3 DEF MeTypes
<1>8. MeOK(me)
  <2>1. Live(me) = {}
    BY <1>6 DEF Live, NoEntry
  <2>2. Cardinality({}) = 0
    BY FS_EmptySet
  <2> QED BY <1>5, <1>7, <2>1, <2>2, Consts DEF MeOK
<1>9. PumpOK
  <2>1. pump.push = <<>> /\ pump.err = "none" /\ pump.on = NoStream
    BY <1>1 DEF IdlePump
  <2> QED BY <2>1 DEF PumpOK
<1>10. Balanced(me)
  <2>1. Owed(me) = 0 /\ Spent(me) = 0
    <3> DEFINE f == [s \in Streams |-> IF me.e[s].stored THEN me.e[s].unrel ELSE 0]
               g == [s \in Streams |-> IF me.e[s].stored THEN me.e[s].charged ELSE 0]
    <3>1. \A i \in 1..N : f[i] = 0 /\ g[i] = 0
      BY <1>6 DEF Streams, NoEntry
    <3>2. Owed(me) = SumTo(f, N) /\ Spent(me) = SumTo(g, N)
      BY DEF Owed, Spent
    <3> HIDE DEF f, g
    <3> QED BY <3>1, <3>2, Consts, SumZero
  <2>2. Tight(me.conn) /\ me.conn.avail = ConnWindow
    BY <1>5, Consts DEF Tight, Flow
  <2> QED BY <1>5, <2>1, <2>2, Consts DEF Balanced
<1>11. ASSUME NEW s \in Streams PROVE StreamOK(s)
  <2>1. me.e[s] = NoEntry /\ q[s] = <<>> /\ rd[s] = Reading
    BY <1>6
  <2>2. /\ pump.push = <<>> /\ pump.err = "none"
        /\ \A i \in DOMAIN pump.push : FALSE
    BY <1>1 DEF IdlePump
  <2>3. EntryOK(me.e[s])
    BY <2>1 DEF EntryOK, NoEntry
  <2>4. IdleOK(s)
    BY <2>1, <2>2 DEF IdleOK
  <2>5. ReaderOK(s)
    BY <2>1 DEF ReaderOK, Reading
  <2>6. DoubtOK(s) /\ WholeSoFar(s)
    BY <2>1 DEF DoubtOK, WholeSoFar, Flows, NoEntry
  <2>7. EofInQueue(s) /\ EofOnItsWay(s)
    BY <2>1, <2>2 DEF EofInQueue, EofOnItsWay
  <2>8. Told(s) /\ ToldBefore(s) /\ OwesOK(s)
    BY <2>1 DEF Told, ToldBefore, OwesOK, NoEntry
  <2> QED BY <2>3, <2>4, <2>5, <2>6, <2>7, <2>8 DEF StreamOK
<1> QED BY <1>4, <1>8, <1>9, <1>10, <1>11 DEF RecvInv

\* ... and every step keeps what is known.
LEMMA RecvSteps == RecvInv /\ [Next]_vars => RecvInv'
<1> SUFFICES ASSUME RecvInv, [Next]_vars PROVE RecvInv'
  OBVIOUS
<1>1. CASE RecvFrame /\ scene' = scene
  BY <1>1, RecvRequestStep, RecvHeadersStep, RecvDataStep, RecvResetStep, RecvGoAwayStep,
     MalformedFrameStep, RecvSettingsAckStep DEF RecvFrame
<1>2. CASE Pump /\ scene' = scene
  BY <1>2, ResetOnErrorStep, PushStep, PumpFailsStep, AckGoAwayStep DEF Pump
<1>3. CASE TransportFails /\ scene' = scene
  BY <1>3, TransportFailsStep
<1>4. CASE Application /\ scene' = scene
  BY <1>4, OpenStreamStep, FinishSendStep, ResetStep, AcloseBodyStep DEF Application
<1>5. ASSUME NEW s \in Streams, Read(s), scene' = scene PROVE RecvInv'
  BY <1>5, ReceiveStep, ReleaseDataFrameStep, ReleaseStep DEF Read
<1>6. ASSUME NEW s \in Streams, Expire(s), scene' = scene PROVE RecvInv'
  BY <1>6, ExpireStep
<1>7. CASE UNCHANGED vars
  <2>1. me' = me /\ pump' = pump /\ q' = q /\ rd' = rd /\ frames' = frames /\ scene' = scene
    BY <1>7 DEF vars
  <2>2. RecvTyped /\ MeOK(me) /\ PumpOK /\ (Running => Balanced(me))
    BY DEF RecvInv
  <2>3. Running' <=> Running
    BY <2>1 DEF Running, Up
  <2>4. MeOK(me') /\ (Running' => Balanced(me'))
    BY <2>1, <2>2, <2>3
  <2>5. RecvTyped'
    <3>1. q' \in [Streams -> Seq(Items)] /\ rd' \in [Streams -> Rds]
      BY <2>1, <2>2 DEF RecvTyped
    <3> QED BY <2>1, <2>2, <3>1, TypedSame
  <2>6. PumpOK'
    <3>1. pump.err = "over" => me'.error /\ Live(me') = {}
      BY <2>1, <2>2 DEF PumpOK
    <3> QED BY <2>1, <2>2, <3>1, PumpSame
  <2>7. ASSUME NEW u \in Streams PROVE StreamOK(u)'
    <3>1. Coming(u)' = Coming(u) /\ (EndComing(u)' <=> EndComing(u)) /\ (Doubtful(u)' <=> Doubtful(u))
      BY <2>1, PumpForSame
    <3>2. StreamOK(u) /\ \A i \in DOMAIN pump'.push : \E j \in DOMAIN pump.push : pump.push[j] = pump'.push[i]
      BY <2>1 DEF RecvInv
    <3> QED BY <2>1, <2>3, <3>1, <3>2, SameStream
  <2>8. MeOK(me)' /\ (Running => Balanced(me))'
    BY <2>4
  <2> QED BY <2>5, <2>6, <2>7, <2>8 DEF RecvInv
<1> QED BY <1>1, <1>2, <1>3, <1>4, <1>5, <1>6, <1>7 DEF Next

\* The invariant.
THEOREM RecvInvariant == Spec => []RecvInv
<1> QED BY RecvStart, RecvSteps, PTL DEF Spec

\* A closed stream is kept only for a reader that owes credit.
THEOREM RecvSettled == Spec => []SettledIsGone
<1>1. RecvInv => SettledIsGone
  BY DEF RecvInv, SettledIsGone, Stored, StreamOK, EntryOK
<1> QED BY <1>1, RecvInvariant, PTL

\* A reader sees the end of its message only after all of it, and is told of every end.
THEOREM RecvTrueEnds == Spec => []TrueEndTold
<1>1. RecvInv => WholeBody
  BY DEF RecvInv, WholeBody, StreamOK, ReaderOK
<1>2. RecvInv => NoStrandedReader
  <2>1. SUFFICES ASSUME RecvInv, NEW s \in Streams, ~me.e[s].spoiled, Stranded(s) PROVE FALSE
    BY DEF NoStrandedReader
  <2>2. PICK x : x = me.e[s]
    OBVIOUS
  <2>3. /\ x.app /\ ~x.spoiled /\ (x.fin \/ pump = PumpOver) /\ pump \in {IdlePump, PumpOver}
        /\ q[s] = <<>> /\ rd[s].pc = "wait"
    BY <2>1, <2>2 DEF Stranded
  <2>4. pump.push = <<>> /\ (pump = PumpOver => pump.err = "over")
    BY <2>3 DEF IdlePump, PumpOver
  <2>5. ~EndIn(s) /\ ~EndComing(s) /\ rd[s].pc # "over"
    BY <2>3, <2>4 DEF EndIn, EndComing
  <2>6. ~x.fin /\ pump.err = "over"
    BY <2>1, <2>2, <2>3, <2>4, <2>5 DEF RecvInv, StreamOK, Told
  <2>7. Live(me) = {}
    BY <2>1, <2>6 DEF RecvInv, PumpOK
  <2>8. ~x.stored
    BY <2>2, <2>6, <2>7 DEF Live
  <2>9. EntryOK(x)
    BY <2>1, <2>2 DEF RecvInv, StreamOK
  <2> QED BY <2>3, <2>6, <2>8, <2>9 DEF EntryOK, NoEntry
<1> QED BY <1>1, <1>2, RecvInvariant, PTL DEF TrueEndTold

\* A window that is tight is open.
LEMMA TightOpen ==
    ASSUME NEW f, f.win \in Int, f.avail \in Int, f.avail > 0, Tight(f)
    PROVE  f.win > 0
<1>1. PICK w \in Int, a \in Int : w = f.win /\ a = f.avail
  OBVIOUS
<1>2. w < a => a - w < (IF w < 0 THEN 0 ELSE w \div 2)
  BY <1>1 DEF Tight
<1> QED BY <1>1, <1>2

\* ... and still is when our SETTINGS take no more than two thirds off it.
LEMMA MildOpen ==
    ASSUME NEW w \in Int, Tight([win |-> w + (RecvInit - StreamWindow), avail |-> RecvInit]),
           RecvInit <= 3 * StreamWindow + 1
    PROVE  w > 0
<1>1. PICK r \in Nat, t \in Nat, v \in Int :
         r = RecvInit /\ t = StreamWindow /\ v = w + (RecvInit - StreamWindow)
  BY Consts
<1>2. t > 0 /\ t <= r /\ r <= 3 * t + 1 /\ v = w + (r - t)
  BY <1>1, Consts
<1>3. v < r => r - v < (IF v < 0 THEN 0 ELSE v \div 2)
  BY <1>1 DEF Tight
<1>4. CASE v >= r
  BY <1>1, <1>2, <1>4
<1>5. CASE v < r
  <2>1. v >= 0 /\ r - v < v \div 2
    BY <1>1, <1>3, <1>5
  <2>2. PICK k \in Int : k = v \div 2
    BY <2>1
  <2>3. 2 * k <= v
    BY <2>1, <2>2
  <2>4. 2 * (r - v) + 2 <= v
    BY <2>1, <2>2, <2>3
  <2> QED BY <1>2, <2>4
<1> QED BY <1>4, <1>5

\* The peer's credit is lost nowhere, given back once, and leaves no window shut.
THEOREM RecvCredits == Spec => []CreditLedgers
<1>1. RecvInv => TypeOK
  <2> SUFFICES ASSUME RecvInv PROVE TypeOK
    OBVIOUS
  <2>1. /\ me \in MeTypes /\ Cardinality(me.store) <= ResetMax
        /\ me.active = Cardinality({s \in Streams : me.e[s].stored /\ ~me.e[s].fin})
    BY DEF RecvInv, MeOK, Live
  <2>2. pump.push \in Seq([on : Streams, item : Items]) /\ pump.err \in {"none", "stream", "conn", "over"}
        /\ q \in [Streams -> Seq(Items)]
    BY DEF RecvInv, RecvTyped, Pushes
  <2>3. /\ me.e \in [Streams -> Entries] /\ me.conn \in [win : Nat, avail : Int]
        /\ me.budget \in 0..BudgetMax /\ me.empty \in 0..MaxEmpty /\ me.errors \in 0..MaxErrors
        /\ me.store \subseteq Streams
    BY <2>1, MeFields
  <2> QED BY <2>1, <2>2, <2>3 DEF TypeOK
<1>2. RecvInv => ConnLedger /\ BudgetLedger
  BY DEF RecvInv, ConnLedger, BudgetLedger, Balanced
<1>3. RecvInv => QueueLedger
  BY DEF RecvInv, QueueLedger, StreamOK, OwesOK, Stored
<1>4. RecvInv => NoWindowStall
  <2> SUFFICES ASSUME RecvInv, Running PROVE NoWindowStall
    BY DEF NoWindowStall
  <2>1. me \in MeTypes /\ Balanced(me)
    BY DEF RecvInv, MeOK
  <2>2. ASSUME Owed(me) = 0 PROVE me.conn.win > 0
    <3>1. me.conn.win \in Int /\ me.conn.avail \in Int
      BY <2>1, MeFields
    <3>2. me.conn.avail = ConnWindow /\ Tight(me.conn)
      BY <2>1, <2>2, <3>1 DEF Balanced
    <3> QED BY <3>1, <3>2, Consts, TightOpen
  <2>3. ASSUME MildSettings, NEW s \in Stored, Open(s) PROVE me.e[s].flow.win > 0
    <3>1. PICK x : x = me.e[s]
      OBVIOUS
    <3>2. /\ s \in Streams /\ x \in Entries /\ x.stored /\ StreamOK(s)
          /\ x.flow.win \in Int /\ x.flow.avail \in Int
      BY <2>1, <3>1, MeFields, EntryFields DEF Stored, RecvInv
    <3>3. Flows(x) /\ x.unrel = 0 /\ ~Doubtful(s)
      BY <2>3, <3>1, <3>2 DEF Open, Flows, Doubtful, Closed
    <3>4. FlowOK(x, me.init)
      BY <3>1, <3>2, <3>3 DEF StreamOK, OwesOK
    <3>5. x.flow.avail = me.init /\ me.init \in Int /\ me.init > 0
      <4>1. me.init \in {RecvInit, StreamWindow}
        BY <2>1, MeFields
      <4> QED BY <3>2, <3>3, <3>4, <4>1, Consts DEF FlowOK
    <3>6. CASE Tight(x.flow)
      BY <3>1, <3>2, <3>5, <3>6, TightOpen
    <3>7. CASE /\ me.init = StreamWindow
               /\ Tight([win |-> x.flow.win + (RecvInit - StreamWindow), avail |-> RecvInit])
      <4>1. RecvInit <= 3 * StreamWindow + 1
        BY <2>3, <3>7, Consts DEF MildSettings
      <4> QED BY <3>1, <3>2, <3>7, <4>1, MildOpen
    <3> QED BY <3>3, <3>4, <3>6, <3>7 DEF FlowOK
  <2> QED BY <2>2, <2>3 DEF NoWindowStall
<1> QED BY <1>1, <1>2, <1>3, <1>4, RecvInvariant, PTL DEF CreditLedgers

=============================================================================
