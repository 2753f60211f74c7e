---------------------------- MODULE H1ServerProofs ----------------------------
(***************************************************************************)
(* What H1Server's runs check for two requests, for any number of them and  *)
(* in any scenario.                                                         *)
(***************************************************************************)
EXTENDS H1Server, FiniteSetTheorems, SequenceTheorems, TLAPS

(***************************************************************************)
(* The invariant: types.                                                    *)
(***************************************************************************)

ReqItem == [r : Reqs, part : {"h", "H", "b", "raw", "x"}]

Current ==
    [seq : Reqs \cup {None}, responded : BOOLEAN, pending : BOOLEAN, done : BOOLEAN,
     bodyDone : BOOLEAN, reading : BOOLEAN, cont : BOOLEAN, gone : BOOLEAN,
     negotiated : BOOLEAN, switch : BOOLEAN, keep : BOOLEAN, wanted : BOOLEAN]
Watch ==
    [slot : BOOLEAN, on : Reqs \cup {None}, handle : Reqs \cup {None}, completed : BOOLEAN,
     res : Results \cup {"none"}, data : Seq(ReqItem)]
Locked ==
    [open : BOOLEAN, closed : BOOLEAN, reusable : BOOLEAN, upgraded : BOOLEAN,
     shutdown : BOOLEAN, parked : BOOLEAN, since : BOOLEAN, buf : Seq(ReqItem),
     cur : Current, w : Watch]

\* The places of the accept loop: reading a head, draining a body, or past its loop.
Heading == {"start", "read", "watch", "take", "got", "parse", "mid", "none"}
Draining == {"drain", "drained", "undrained"}
Ending == {"out", "closing", "joining", "closed"}

HandlerPlaces ==
    {"off", "start", "cont", "again", "store", "storeBody", "join", "joinBody", "head", "arm",
     "stream", "finish", "fail", "userError", "over"}
BodyPlaces == {"off", "100", "loop", "reading", "feed", "done", "store", "join", "over"}

Decoders == [Reqs -> [buf : Seq(ReqItem), complete : BOOLEAN]]
Serving ==
    [pc : Heading \cup Draining \cup Ending \cup {"serving"}, data : Seq(ReqItem),
     on : Reqs \cup {None}, end : {"none", "eof", "closed", "parse"}]
Handlers == [Reqs -> [pc : HandlerPlaces, mode : {"none", "bytes", "async", "push", "error"}]]
Bodies ==
    [Reqs -> [pc : BodyPlaces, data : Seq(ReqItem), got : BOOLEAN, end : {"none", "clean", "error"}]]
Watchers ==
    [Reqs -> [pc : {"none", "spawned", "reading", "result", "over"}, res : Results \cup {"none"},
              data : Seq(ReqItem)]]
Sockets == {"open", "reset", "orderly", "abort", "caller"}

\* The client, and what is on the wire.
ClientTyped ==
    /\ scene \in Scenarios /\ kind \in [Reqs -> scene.kinds]
    /\ at \in [r : Nat \ {0}, i : 1..3]
    /\ at.r \in Reqs => at.i <= Len(Message(at.r, kind[at.r]))
    /\ fin \in BOOLEAN /\ sent \in Seq(ReqItem) /\ wire \in Seq(Items)

Typed ==
    /\ ClientTyped /\ net \in Seq(ReqItem) /\ used \in Seq(ReqItem) /\ sock \in Sockets
    /\ me \in Locked /\ dec \in Decoders /\ serve \in Serving
    /\ hd \in Handlers /\ body \in Bodies /\ wt \in Watchers
    /\ peer \in [Reqs -> {"off", "store", "join", "wait", "over"}]
    /\ evt \in [Reqs -> BOOLEAN]

(***************************************************************************)
(* The invariant: who is where.                                             *)
(***************************************************************************)

\* The transport is the connection's while the socket is open, and closed after it.
SocketOK ==
    /\ sock = "open" => me.open
    /\ me.open => sock \in {"open", "reset"}
    /\ ~me.open => me.closed /\ ~me.reusable

\* A handler is at work on the current request only, while the loop serves it.
Working(r) == hd[r].pc \notin {"off", "over"}
ModeOK(r) ==
    /\ hd[r].pc \in {"cont", "again", "store", "join", "head"} => hd[r].mode # "none"
    /\ hd[r].pc \in {"store", "join", "head"} => hd[r].mode # "error"
ServeOK ==
    /\ \A r \in Reqs :
         /\ ModeOK(r)
         /\ Working(r) => serve.pc \in Ending \cup {"serving"} /\ r = me.cur.seq
         /\ hd[r].pc \in {"start", "cont", "again"} => ~me.cur.negotiated
    /\ serve.pc \in Draining \cup {"serving"} => me.cur.seq # None
    /\ me.cur.seq # None /\ hd[me.cur.seq].pc = "over" => me.cur.done
    /\ serve.pc # "serving" /\ me.open => me.cur.done
    /\ serve.pc \in Heading \cup Draining => me.cur.done
    /\ serve.pc \in Heading => me.cur.bodyDone
    /\ me.cur.seq = None => me.cur.done

\* The reader of a body is the one reader of the current request, or finds no transport.
BodyOver(r) == body[r].pc \in {"store", "join", "over"} \/ (body[r].pc = "off" /\ dec[r].complete)
BodyOK ==
    /\ \A r \in Reqs :
         /\ me.open /\ body[r].pc = "reading" =>
              r = me.cur.seq /\ me.cur.reading /\ ~me.cur.bodyDone
              /\ serve.pc \in Ending \cup {"serving"}
         /\ ~HasBody(r) => body[r].pc \in {"off", "over"}
         /\ ~HasBody(r) /\ hd[r].pc # "off" => dec[r].complete
         /\ "late" \notin scene.env /\ body[r].pc \notin {"off", "over"} => Working(r)
    /\ me.open /\ serve.pc \in Draining => me.cur.reading \/ me.cur.bodyDone
    /\ me.open /\ me.cur.bodyDone /\ ~me.cur.done => BodyOver(me.cur.seq)

\* A watcher at work has the slot; its request's body is over and nothing is buffered.
Watching == me.w.slot /\ ~me.w.completed
Active(r) == wt[r].pc \in {"spawned", "reading", "result"}
WatchOK ==
    /\ \A r \in Reqs : Active(r) => Watching /\ me.w.on = r
    /\ me.w.slot => me.w.on # None
    /\ me.cur.switch => kind[me.cur.seq] = "upgrade"
    /\ Watching => Active(me.w.on)
    /\ serve.pc = "watch" => me.w.slot /\ serve.on = me.w.on
    /\ serve.pc = "take" => me.w.slot /\ me.w.completed
    /\ me.open /\ Watching =>
         /\ me.w.on = me.cur.seq /\ serve.pc \in {"serving", "watch", "none", "out"}
         /\ me.cur.bodyDone /\ me.buf = <<>> /\ dec[me.cur.seq].buf = <<>>
         /\ BodyOver(me.cur.seq)
         /\ kind[me.cur.seq] = "upgrade" => me.cur.negotiated /\ ~me.cur.switch

\* The caller that got the transport is alone on it.
CallerOK ==
    sock = "caller" =>
        /\ serve.pc # "read" /\ ~Watching
        /\ \A r \in Reqs : ~Working(r)

CoreInv == Typed /\ SocketOK /\ ServeOK /\ BodyOK /\ WatchOK /\ CallerOK

(***************************************************************************)
(* The invariant: ends and deadlines.                                       *)
(***************************************************************************)

\* What a read says of the end of the connection is so.
True(res) == (res = "eof" => fin) /\ (res = "error" => sock # "open")
ReadsTrue ==
    /\ \A r \in Reqs : /\ wt[r].pc = "result" => wt[r].res # "none"
                       /\ True(wt[r].res)
    /\ True(me.w.res)
    /\ me.cur.gone => fin \/ sock # "open"

\* Where nothing runs between the arm and the store of the handle, the loop finds a result
\* in the slot it takes, or the connection closed.
OneThread ==
    ~scene.threads =>
        /\ \A r \in Reqs : /\ hd[r].pc \notin {"store", "storeBody"} /\ body[r].pc # "store"
                           /\ peer[r] # "store"
        /\ serve.pc = "take" => me.w.handle = None
        /\ me.w.slot /\ me.w.completed /\ me.w.res = "none" => me.closed
        /\ serve.end = "eof" => fin

EndsOK == ReadsTrue /\ OneThread

\* The clock runs and a read is parked between requests only.
ClockOK == me.since \/ me.parked => me.cur.done

(***************************************************************************)
(* The locked state.                                                        *)
(***************************************************************************)

\* close_now gives the transport up and changes nothing else of the locked state.
LEMMA CloseNowIs ==
    ASSUME NEW m \in Locked
    PROVE  /\ CloseNow(m) \in Locked
           /\ CloseNow(m).closed /\ ~CloseNow(m).reusable /\ ~CloseNow(m).open
           /\ CloseNow(m).cur = m.cur /\ CloseNow(m).w = m.w /\ CloseNow(m).buf = m.buf
           /\ CloseNow(m).since = m.since /\ CloseNow(m).parked = m.parked
           /\ CloseNow(m).shutdown = m.shutdown /\ CloseNow(m).upgraded = m.upgraded
BY DEF CloseNow, Locked

\* feed_decoder_leftover empties the decoder of the current request.
LEMMA LeftoverIs ==
    ASSUME Typed, NEW m \in Locked
    PROVE  /\ Leftover(m) \in Seq(ReqItem)
           /\ LeftoverTaken(m) \in Decoders
           /\ \A r \in Reqs : LeftoverTaken(m)[r].complete = dec[r].complete
           /\ m.cur.seq # None => Leftover(m) = dec[m.cur.seq].buf
           /\ m.cur.seq = None => Leftover(m) = <<>>
<1>1. m.cur.seq \in Reqs \cup {None} /\ <<>> \in Seq(ReqItem) /\ dec \in Decoders
  BY EmptySeq DEF Locked, Current, Typed
<1> QED BY <1>1 DEF Leftover, LeftoverTaken, Decoders

\* arm_decision parks a read, or moves what the decoder has left into the codec's buffer.
LEMMA ArmIs ==
    ASSUME Typed, NEW m \in Locked, m.cur.seq = None => m.cur.done, Arm(m)
    PROVE  /\ me' \in Locked /\ me'.cur = m.cur
           /\ me'.open = m.open /\ me'.closed = m.closed /\ me'.reusable = m.reusable
           /\ me'.since = m.since /\ me'.parked = m.parked
           /\ dec' \in Decoders
           /\ \A r \in Reqs : dec'[r].complete = dec[r].complete
           /\ Armed(m) =>
                /\ m.cur.seq \in Reqs /\ m.open /\ ~m.closed /\ ~m.w.slot
                /\ m.cur.bodyDone /\ ~m.cur.done
                /\ kind[m.cur.seq] = "upgrade" => m.cur.negotiated /\ ~m.cur.switch
                /\ m.buf = <<>> /\ dec[m.cur.seq].buf = <<>>
                /\ me'.w = [NoWatcher EXCEPT !.slot = TRUE, !.on = m.cur.seq,
                                             !.handle = IF scene.threads THEN None ELSE m.cur.seq]
                /\ me'.buf = m.buf /\ dec' = dec
                /\ wt' = [wt EXCEPT ![m.cur.seq].pc = "spawned"]
           /\ ~Armed(m) =>
                /\ me'.w = m.w /\ wt' = wt
                /\ (me'.buf = m.buf /\ dec' = dec) \/ ~m.w.slot
<1>1. m.cur \in Current /\ m.w \in Watch /\ m.cur.seq \in Reqs \cup {None}
  BY DEF Locked, Current
<1>4. dec \in Decoders
  BY DEF Typed
<1>2. CASE Armed(m)
  <2>1. Armable(m) /\ m.cur.seq \in Reqs /\ dec[m.cur.seq].buf = <<>>
    BY <1>1, <1>2 DEF Armed, Armable
  <2>2. me' = [m EXCEPT !.w = [NoWatcher EXCEPT !.slot = TRUE, !.on = m.cur.seq,
                                              !.handle = IF scene.threads THEN None ELSE m.cur.seq]]
    BY <1>2 DEF Arm, ArmDecision
  <2>3. [NoWatcher EXCEPT !.slot = TRUE, !.on = m.cur.seq,
                          !.handle = IF scene.threads THEN None ELSE m.cur.seq] \in Watch
    BY <2>1, EmptySeq DEF NoWatcher, Watch
  <2>4. dec' = dec /\ wt' = [wt EXCEPT ![m.cur.seq].pc = "spawned"]
    BY <1>2 DEF Arm, ArmDec, Spawned
  <2> QED BY <1>2, <2>1, <2>2, <2>3, <2>4, <1>4 DEF Armable, Locked
<1>3. CASE ~Armed(m)
  <2>1. wt' = wt
    BY <1>3 DEF Arm, Spawned
  <2>2. CASE Armable(m)
    <3>1. m.cur.seq \in Reqs /\ ~m.w.slot
      BY <1>1, <2>2 DEF Armable
    <3>2. me' = [m EXCEPT !.buf = dec[m.cur.seq].buf]
      BY <1>3, <2>2 DEF Arm, ArmDecision
    <3>3. dec' = [dec EXCEPT ![m.cur.seq].buf = <<>>]
      BY <1>3, <2>2 DEF Arm, ArmDec
    <3>4. /\ me' \in Locked /\ me'.cur = m.cur /\ me'.w = m.w
          /\ me'.open = m.open /\ me'.closed = m.closed /\ me'.reusable = m.reusable
          /\ me'.since = m.since /\ me'.parked = m.parked
      BY <1>4, <3>1, <3>2 DEF Locked, Decoders
    <3>5. dec' \in Decoders /\ \A r \in Reqs : dec'[r].complete = dec[r].complete
      BY <1>4, <3>1, <3>3, EmptySeq DEF Decoders
    <3> QED BY <1>3, <2>1, <3>1, <3>4, <3>5
  <2>3. CASE ~Armable(m)
    BY <1>3, <1>4, <2>1, <2>3 DEF Arm, ArmDecision, ArmDec
  <2> QED BY <2>2, <2>3
<1> QED BY <1>2, <1>3

\* A read takes a beginning of what arrived, and leaves the rest.
LEMMA ReadableIs ==
    ASSUME net \in Seq(ReqItem), NEW data \in Readable
    PROVE  data \in Seq(ReqItem) /\ Rest(data) \in Seq(ReqItem)
<1>1. Len(net) \in Nat /\ DOMAIN net = 1..Len(net)
  BY LenProperties
<1>2. CASE data = <<>>
  <2>1. SubSeq(net, 1, Len(net)) = net /\ Len(data) + 1 = 1
    BY <1>2, SubSeqFull
  <2> QED BY <1>2, <2>1, EmptySeq DEF Rest
<1>3. ASSUME NEW k \in {1, Len(net)} \cap DOMAIN net, data = SubSeq(net, 1, k)
      PROVE  data \in Seq(ReqItem) /\ Rest(data) \in Seq(ReqItem)
  <2>1. k \in 1..Len(net) /\ \A i \in 1..Len(net) : net[i] \in ReqItem
    BY <1>1, <1>3, ElementOfSeq
  <2>2. data \in Seq(ReqItem) /\ Len(data) = k
    <3> DEFINE l == Len(net)
    <3> HIDE DEF l
    <3>0. l \in Nat /\ k \in 1..l /\ \A i \in 1..l : net[i] \in ReqItem
      BY <1>1, <2>1 DEF l
    <3>1. k \in Int /\ 1 <= k /\ \A i \in 1..k : net[i] \in ReqItem
      BY <3>0
    <3>2. SubSeq(net, 1, k) \in Seq(ReqItem) /\ Len(SubSeq(net, 1, k)) = k - 1 + 1
      BY <3>1, SubSeqProperties
    <3> QED BY <1>3, <3>1, <3>2
  <2>3. SubSeq(net, k + 1, Len(net)) \in Seq(ReqItem)
    <3> DEFINE l == Len(net)
    <3> HIDE DEF l
    <3>0. l \in Nat /\ k \in 1..l /\ \A i \in 1..l : net[i] \in ReqItem
      BY <1>1, <2>1 DEF l
    <3>1. k + 1 \in Int /\ l \in Int /\ \A i \in k + 1..l : net[i] \in ReqItem
      BY <3>0
    <3>2. SubSeq(net, k + 1, l) \in Seq(ReqItem)
      BY <3>1, SubSeqProperties
    <3> QED BY <3>2 DEF l
  <2> QED BY <2>2, <2>3 DEF Rest
<1> QED BY <1>2, <1>3 DEF Readable

\* What a request is made of.
LEMMA MessageIs ==
    ASSUME NEW r \in Reqs, NEW k \in {"plain", "body", "expect", "upgrade", "bad"}
    PROVE  /\ Message(r, k) \in Seq(ReqItem) /\ Len(Message(r, k)) \in 1..3
           /\ \A i \in 1..Len(Message(r, k)) : Message(r, k)[i].r = r
<1> DEFINE m == Message(r, k)
<1>1. CASE k = "plain"
  <2>1. m = <<[r |-> r, part |-> "h"], [r |-> r, part |-> "H"]>>
    BY <1>1 DEF Message, Item
  <2> QED BY <2>1 DEF ReqItem
<1>2. CASE k \in {"body", "expect"}
  <2>1. m = <<[r |-> r, part |-> "h"], [r |-> r, part |-> "H"], [r |-> r, part |-> "b"]>>
    BY <1>2 DEF Message, Item
  <2> QED BY <2>1 DEF ReqItem
<1>3. CASE k = "upgrade"
  <2>1. m = <<[r |-> r, part |-> "h"], [r |-> r, part |-> "H"], [r |-> r, part |-> "raw"]>>
    BY <1>3 DEF Message, Item
  <2> QED BY <2>1 DEF ReqItem
<1>4. CASE k = "bad"
  <2>1. m = <<[r |-> r, part |-> "x"]>>
    BY <1>4 DEF Message, Item
  <2> QED BY <2>1 DEF ReqItem
<1> QED BY <1>1, <1>2, <1>3, <1>4

\* The kinds of requests that the scenarios know.
LEMMA KindIs ==
    ASSUME ClientTyped, NEW r \in Reqs
    PROVE  kind[r] \in {"plain", "body", "expect", "upgrade", "bad"}
<1>1. scene.kinds \in SUBSET {"plain", "body", "expect", "upgrade", "bad"}
  BY H1ServerConstants DEF ClientTyped
<1> QED BY <1>1 DEF ClientTyped

(***************************************************************************)
(* One lemma per operation: the client and the accept loop.                 *)
(***************************************************************************)

\* The client sends its next item.
LEMMA ClientSendsCore == ASSUME CoreInv, ClientSends PROVE CoreInv'
<1> DEFINE items == Message(at.r, kind[at.r])
<1>1. at.r \in Reqs /\ at.i \in 1..Len(items) /\ at \in [r : Nat \ {0}, i : 1..3]
  BY DEF CoreInv, Typed, ClientTyped, ClientSends
<1>2. items \in Seq(ReqItem) /\ Len(items) \in 1..3
  BY <1>1, KindIs, MessageIs DEF CoreInv, Typed
<1>3. items[at.i] \in ReqItem
  BY <1>1, <1>2, ElementOfSeq
<1>4. net' = Append(net, items[at.i]) /\ sent' = Append(sent, items[at.i])
  BY DEF ClientSends
<1>5. net' \in Seq(ReqItem) /\ sent' \in Seq(ReqItem)
  BY <1>3, <1>4, AppendProperties DEF CoreInv, Typed, ClientTyped
<1>6. /\ at' \in [r : Nat \ {0}, i : 1..3]
      /\ at'.r \in Reqs => at'.i <= Len(Message(at'.r, kind[at'.r]))
  <2>1. at' = IF at.i < Len(items) THEN [at EXCEPT !.i = @ + 1] ELSE [r |-> at.r + 1, i |-> 1]
    BY DEF ClientSends
  <2>2. CASE at.i < Len(items)
    <3>1. at'.r = at.r /\ at'.i = at.i + 1
      BY <1>1, <2>1, <2>2
    <3>2. at.i + 1 \in 1..3
      <4>1. \A l \in 1..3 : \A i \in 1..3 : i < l => i + 1 \in 1..3
        OBVIOUS
      <4>2. at.i \in 1..3
        BY <1>1
      <4> QED BY <1>2, <2>2, <4>1, <4>2
    <3>3. at' \in [r : Nat \ {0}, i : 1..3]
      BY <1>1, <2>1, <2>2, <3>2
    <3>4. at'.i <= Len(items) /\ Message(at'.r, kind[at'.r]) = items
      BY <1>1, <1>2, <2>2, <3>1
    <3> QED BY <3>3, <3>4, Zenon
  <2>3. CASE ~(at.i < Len(items))
    <3>1. at'.r = at.r + 1 /\ at'.i = 1 /\ at' \in [r : Nat \ {0}, i : 1..3]
      BY <1>1, <2>1, <2>3
    <3>2. at'.r \in Reqs => Len(Message(at'.r, kind[at'.r])) \in 1..3
      BY KindIs, MessageIs DEF CoreInv, Typed
    <3>3. \A n : n \in 1..3 => 1 <= n
      OBVIOUS
    <3> QED BY <3>1, <3>2, <3>3, Zenon
  <2>4. kind' = kind
    BY DEF ClientSends
  <2> QED BY <2>2, <2>3
<1>7. Typed'
  BY <1>5, <1>6 DEF CoreInv, Typed, ClientTyped, ClientSends
<1>8. SocketOK' /\ ServeOK' /\ BodyOK' /\ WatchOK' /\ CallerOK'
  BY DEF CoreInv, ClientSends, SocketOK, ServeOK, Working, ModeOK, BodyOK, BodyOver, WatchOK, Active, Watching,
     CallerOK, HasBody
<1> QED BY <1>7, <1>8 DEF CoreInv

\* The client shuts its side down, or resets the connection.
LEMMA ClientEndsCore == ASSUME CoreInv, ClientShutsDown \/ ClientResets PROVE CoreInv'
<1>1. /\ UNCHANGED <<scene, kind, at, sent, me, dec, serve, hd, body, peer, evt, wt, wire, used>>
      /\ fin' \in BOOLEAN /\ net' \in Seq(ReqItem)
      /\ sock' = sock \/ (sock = "open" /\ sock' = "reset")
  BY EmptySeq DEF CoreInv, Typed, ClientTyped, ClientShutsDown, ClientResets
<1>2. Typed'
  BY <1>1 DEF CoreInv, Typed, ClientTyped, Sockets
<1>3. SocketOK' /\ ServeOK' /\ BodyOK' /\ WatchOK' /\ CallerOK'
  BY <1>1 DEF CoreInv, SocketOK, ServeOK, Working, ModeOK, BodyOK, BodyOver, WatchOK, Active, Watching,
     CallerOK, HasBody
<1> QED BY <1>2, <1>3 DEF CoreInv

\* read_verdict says how to go on, and records the read that is parked.
LEMMA VerdictIs ==
    ASSUME NEW n \in Locked
    PROVE  LET v == ReadVerdict(n)
           IN  /\ v.m \in Locked /\ v.m.buf = n.buf /\ v.m.cur = n.cur /\ v.m.w = n.w
               /\ v.m.open = n.open /\ v.m.closed = n.closed /\ v.m.reusable = n.reusable
               /\ v.pc \in {"parse", "none", "watch", "read"} /\ v.on \in Reqs \cup {None}
               /\ v.pc = "watch" => n.w.slot /\ v.on = n.w.on
               /\ v.pc = "read" => ~n.w.slot /\ n.open
               /\ n.buf = <<>> /\ n.w.slot => v.pc \in {"watch", "none"}
<1> DEFINE since == [n EXCEPT !.since = TRUE]
           parked == [n EXCEPT !.parked = TRUE, !.since = TRUE]
<1>1. /\ since \in Locked /\ since.buf = n.buf /\ since.cur = n.cur /\ since.w = n.w
      /\ since.open = n.open /\ since.closed = n.closed /\ since.reusable = n.reusable
  BY DEF Locked
<1>2. /\ parked \in Locked /\ parked.buf = n.buf /\ parked.cur = n.cur /\ parked.w = n.w
      /\ parked.open = n.open /\ parked.closed = n.closed /\ parked.reusable = n.reusable
  BY DEF Locked
<1>3. n.w.on \in Reqs \cup {None}
  BY DEF Locked, Watch
<1>4. \/ (n.buf # <<>> /\ ReadVerdict(n) = [m |-> since, pc |-> "parse", on |-> None])
      \/ (n.buf = <<>> /\ ReadVerdict(n) = [m |-> n, pc |-> "none", on |-> None])
      \/ (n.buf = <<>> /\ n.w.slot /\ ReadVerdict(n) = [m |-> parked, pc |-> "watch", on |-> n.w.on])
      \/ (n.buf = <<>> /\ ~n.w.slot /\ n.open /\ ReadVerdict(n) = [m |-> parked, pc |-> "read", on |-> None])
  BY DEF ReadVerdict
<1> HIDE DEF since, parked
<1> QED BY <1>1, <1>2, <1>3, <1>4

\* The locked state as ready_for_next finds it, up to its own assignments.
LEMMA ReadyIs ==
    ASSUME CoreInv, NEW m \in Locked, Ready(m),
           m.open = me.open, m.closed = me.closed, m.reusable = me.reusable,
           m.w = me.w, m.buf = me.buf, m.cur.seq = me.cur.seq
    PROVE  /\ me' \in Locked /\ dec' \in Decoders /\ serve' \in Serving
           /\ me'.open = me.open /\ me'.closed = me.closed /\ me'.reusable = me.reusable /\ me'.w = me.w
           /\ me'.cur = [m.cur EXCEPT !.done = TRUE, !.bodyDone = TRUE]
           /\ \A r \in Reqs : dec'[r].complete = dec[r].complete
           /\ serve' = [serve EXCEPT !.pc = serve'.pc, !.on = serve'.on]
           /\ serve'.pc \in {"parse", "none", "watch", "read"}
           /\ serve'.pc = "watch" => me.w.slot /\ serve'.on = me.w.on
           /\ serve'.pc = "read" => ~me.w.slot /\ me.open
           /\ me.open /\ Watching => /\ me'.buf = <<>> /\ dec'[me.cur.seq].buf = <<>>
                                      /\ serve'.pc \in {"watch", "none"}
<1> DEFINE n == [m EXCEPT !.buf = @ \o Leftover(m), !.cur.done = TRUE, !.cur.bodyDone = TRUE]
           v == ReadVerdict(n)
<1>1. Leftover(m) \in Seq(ReqItem) /\ m.buf \in Seq(ReqItem) /\ m.cur \in Current
  BY LeftoverIs DEF CoreInv, Locked
<1>2. m.buf \o Leftover(m) \in Seq(ReqItem)
  BY <1>1, ConcatProperties
<1>3. /\ n \in Locked /\ n.buf = m.buf \o Leftover(m) /\ n.w = me.w /\ n.open = me.open /\ n.closed = me.closed
      /\ n.reusable = me.reusable
      /\ n.cur = [m.cur EXCEPT !.done = TRUE, !.bodyDone = TRUE]
  BY <1>1, <1>2 DEF Locked, Current
<1>4. me' = v.m /\ dec' = LeftoverTaken(m) /\ serve' = [serve EXCEPT !.pc = v.pc, !.on = v.on]
  BY DEF Ready
<1> HIDE DEF n
<1>5. me.w \in Watch /\ me.w.on \in Reqs \cup {None}
  BY DEF CoreInv, Typed, Locked, Watch
<1>6. /\ v.m \in Locked /\ v.m.buf = n.buf /\ v.m.cur = n.cur /\ v.m.w = n.w
      /\ v.m.open = n.open /\ v.m.closed = n.closed /\ v.m.reusable = n.reusable
      /\ v.pc \in {"parse", "none", "watch", "read"} /\ v.on \in Reqs \cup {None}
      /\ v.pc = "watch" => n.w.slot /\ v.on = n.w.on
      /\ v.pc = "read" => ~n.w.slot /\ n.open
      /\ n.buf = <<>> /\ n.w.slot => v.pc \in {"watch", "none"}
  BY <1>3, VerdictIs
<1> HIDE DEF v
<1>7. /\ dec' \in Decoders
      /\ \A r \in Reqs : dec'[r].complete = dec[r].complete
  BY <1>4, LeftoverIs DEF CoreInv
<1>8. serve \in Serving
  BY DEF CoreInv, Typed
<1>9. serve' \in Serving /\ serve'.pc = v.pc /\ serve'.on = v.on
  BY <1>4, <1>6, <1>8 DEF Serving, Heading
<1>10. ASSUME me.open, Watching PROVE n.buf = <<>> /\ dec'[me.cur.seq].buf = <<>>
  <2>1. me.buf = <<>> /\ dec[me.cur.seq].buf = <<>> /\ me.w.on = me.cur.seq /\ me.w.on # None
    BY <1>10 DEF CoreInv, WatchOK, Watching
  <2>2. Leftover(m) = <<>>
    BY <2>1, LeftoverIs DEF CoreInv
  <2>3. n.buf = <<>>
    BY <1>3, <2>1, <2>2, EmptySeq, ConcatEmptySeq
  <2>4. dec' = [dec EXCEPT ![me.cur.seq].buf = <<>>] /\ me.cur.seq \in Reqs /\ dec \in Decoders
    BY <1>4, <1>5, <2>1 DEF LeftoverTaken, CoreInv, Typed
  <2> QED BY <2>3, <2>4 DEF Decoders
<1> QED BY <1>3, <1>4, <1>6, <1>7, <1>9, <1>10 DEF Watching

\* The requests that the locked state names.
LEMMA Requests ==
    ASSUME CoreInv
    PROVE  /\ me \in Locked /\ me.cur \in Current /\ me.w \in Watch
           /\ me.cur.seq \in Reqs \cup {None} /\ me.w.on \in Reqs \cup {None}
           /\ Watching /\ me.open => me.cur.seq \in Reqs
BY DEF CoreInv, Typed, Locked, Current, Watch, WatchOK, Watching

\* Between requests nobody works on one.
LEMMA AtRest ==
    ASSUME CoreInv, \/ serve.pc \in Heading \cup Draining
                    \/ (serve.pc = "serving" /\ hd[me.cur.seq].pc = "over")
    PROVE  me.cur.done /\ \A r \in Reqs : ~Working(r)
<1>1. CASE serve.pc \in Heading \cup Draining
  BY <1>1 DEF CoreInv, ServeOK, Working, ModeOK, Heading, Draining, Ending
<1>2. CASE serve.pc = "serving" /\ hd[me.cur.seq].pc = "over"
  BY <1>2 DEF CoreInv, ServeOK, Working, ModeOK, Heading, Draining, Ending
<1> QED BY <1>1, <1>2

\* The accept loop goes on to the next head.
LEMMA ReadyCore ==
    ASSUME CoreInv, NEW m \in Locked, Ready(m),
           m.open = me.open, m.closed = me.closed, m.reusable = me.reusable,
           m.w = me.w, m.buf = me.buf, m.cur.seq = me.cur.seq,
           m.cur.negotiated = me.cur.negotiated, m.cur.switch = me.cur.switch,
           me.cur.bodyDone \/ serve.pc = "drained",
           \/ serve.pc \in Heading \cup Draining
           \/ (serve.pc = "serving" /\ hd[me.cur.seq].pc = "over"),
           UNCHANGED <<sock, net, wire, used>>, serveFrame
    PROVE  CoreInv'
<1> me.cur.done /\ \A r \in Reqs : ~Working(r)
  BY AtRest
<1> m.cur \in Current
  BY DEF Locked
<1>1. /\ me' \in Locked /\ dec' \in Decoders /\ serve' \in Serving
      /\ me'.open = me.open /\ me'.closed = me.closed /\ me'.reusable = me.reusable /\ me'.w = me.w
      /\ me'.cur.seq = me.cur.seq /\ me'.cur.done /\ me'.cur.bodyDone
      /\ me'.cur.negotiated = me.cur.negotiated /\ me'.cur.switch = me.cur.switch
      /\ \A r \in Reqs : dec'[r].complete = dec[r].complete
      /\ serve'.pc \in {"parse", "none", "watch", "read"}
      /\ serve'.pc = "watch" => me.w.slot /\ serve'.on = me.w.on
      /\ serve'.pc = "read" => ~me.w.slot /\ me.open
      /\ me.open /\ Watching => /\ me'.buf = <<>> /\ dec'[me.cur.seq].buf = <<>>
                     /\ serve'.pc \in {"watch", "none"}
  <2>1. me'.cur = [m.cur EXCEPT !.done = TRUE, !.bodyDone = TRUE]
    BY ReadyIs
  <2>2. /\ me'.cur.seq = m.cur.seq /\ me'.cur.done /\ me'.cur.bodyDone
        /\ me'.cur.negotiated = m.cur.negotiated /\ me'.cur.switch = m.cur.switch
    BY <2>1 DEF Current
  <2> QED BY <2>2, ReadyIs
<1>2. UNCHANGED <<scene, kind, at, sent, fin, hd, body, peer, evt, wt, sock, net, wire, used>>
  BY DEF serveFrame
<1>3. Typed'
  BY <1>1, <1>2 DEF CoreInv, Typed, ClientTyped
<1>4. SocketOK' /\ CallerOK'
  BY <1>1, <1>2 DEF CoreInv, SocketOK, CallerOK, Watching, Working
<1>5. ServeOK'
  BY <1>1, <1>2 DEF CoreInv, ServeOK, Working, ModeOK, Heading, Draining, Ending
<1>6. me.open => \A r \in Reqs : body[r].pc # "reading"
  BY DEF CoreInv, BodyOK, Heading, Draining, Ending
<1>7. BodyOK'
  <2>1. \A r \in Reqs : (Working(r) <=> Working(r)') /\ (HasBody(r) <=> HasBody(r)')
    BY <1>2 DEF Working, HasBody
  <2> QED BY <1>1, <1>2, <1>6, <2>1 DEF CoreInv, BodyOK, Draining
<1>8. WatchOK'
  BY <1>1, <1>2, Requests DEF CoreInv, WatchOK, Watching, Active, BodyOver
<1> QED BY <1>3, <1>4, <1>5, <1>7, <1>8 DEF CoreInv

\* begin_read: the end of the loop, the drain of a body not read, or the next head.
LEMMA BeginReadCore == ASSUME CoreInv, BeginRead PROVE CoreInv'
<1> USE Requests
<1>1. \/ serve.pc \in Heading \cup Draining
      \/ (serve.pc = "serving" /\ hd[me.cur.seq].pc = "over")
  BY DEF BeginRead, Heading
<1>2. me.cur.done /\ \A r \in Reqs : ~Working(r)
  BY <1>1, AtRest
<1>3. /\ UNCHANGED <<scene, kind, at, sent, fin, hd, body, peer, evt, wt, net, wire, used>>
      /\ serve.pc \in {"start", "serving"}
  BY DEF BeginRead, serveFrame
<1>4. CASE (me.closed \/ ~me.reusable) /\ serve' = [serve EXCEPT !.pc = "out"] /\ UNCHANGED <<sock, me, dec>>
  <2>1. Typed'
    BY <1>3, <1>4 DEF CoreInv, Typed, ClientTyped, Serving, Ending
  <2>2. serve'.pc = "out" /\ serve'.on = serve.on
    BY <1>4 DEF CoreInv, Typed, Serving
  <2>3. SocketOK' /\ ServeOK' /\ CallerOK'
    BY <1>2, <1>3, <1>4, <2>2
       DEF CoreInv, SocketOK, ServeOK, CallerOK, Working, ModeOK, Watching, Heading, Draining, Ending
  <2>4. BodyOK' /\ WatchOK'
    BY <1>2, <1>3, <1>4, <2>2 DEF CoreInv, BodyOK, WatchOK, BodyOver, HasBody, Working, Watching, Active,
       Draining, Ending
  <2> QED BY <2>1, <2>3, <2>4 DEF CoreInv
<1>5. CASE /\ me' = CloseNow(me) /\ Ends("orderly")
           /\ serve' = [serve EXCEPT !.pc = "out"] /\ UNCHANGED dec
  <2>1. Typed'
    BY <1>3, <1>5, CloseNowIs DEF CoreInv, Typed, ClientTyped, Serving, Ending, Ends, Sockets
  <2>2. serve'.pc = "out" /\ serve'.on = serve.on
    BY <1>5 DEF CoreInv, Typed, Serving
  <2>3. SocketOK' /\ ServeOK' /\ CallerOK'
    BY <1>2, <1>3, <1>5, <2>2, CloseNowIs DEF CoreInv, SocketOK, ServeOK, CallerOK, Working, ModeOK, Watching, Heading,
       Draining, Ending, Ends
  <2>4. BodyOK' /\ WatchOK'
    BY <1>2, <1>3, <1>5, <2>2, CloseNowIs DEF CoreInv, BodyOK, WatchOK, BodyOver, HasBody, Working, Watching, Active
  <2> QED BY <2>1, <2>3, <2>4 DEF CoreInv
<1>6. CASE /\ ~me.closed /\ ~me.cur.bodyDone /\ ~me.cur.reading
           /\ me' = [me EXCEPT !.cur.reading = TRUE]
           /\ serve' = [serve EXCEPT !.pc = "drain"] /\ UNCHANGED <<sock, dec>>
  <2>1. /\ me' \in Locked /\ me'.open = me.open /\ me'.closed = me.closed /\ me'.reusable = me.reusable
        /\ me'.w = me.w /\ me'.cur.reading
        /\ me'.cur.done = me.cur.done /\ me'.cur.bodyDone = me.cur.bodyDone /\ me'.cur.seq = me.cur.seq
        /\ me'.cur.negotiated = me.cur.negotiated /\ me'.cur.switch = me.cur.switch
    BY <1>6 DEF Locked, Current
  <2>2. serve' \in Serving /\ serve'.pc = "drain"
    BY <1>6 DEF CoreInv, Typed, Serving, Draining
  <2>3. Typed'
    BY <1>3, <1>6, <2>1, <2>2 DEF CoreInv, Typed, ClientTyped
  <2>4. me.open /\ ~Watching /\ serve.pc = "serving"
    BY <1>3, <1>6 DEF CoreInv, SocketOK, WatchOK, ServeOK, Heading
  <2>5. SocketOK' /\ ServeOK' /\ CallerOK'
    BY <1>2, <1>3, <1>6, <2>1, <2>2, <2>4 DEF CoreInv, SocketOK, ServeOK, CallerOK, Working, ModeOK, Watching, Heading,
       Draining, Ending
  <2>6. BodyOK'
    BY <1>2, <1>3, <1>6, <2>1, <2>2, <2>4 DEF CoreInv, BodyOK, BodyOver, HasBody, Working
  <2>7. WatchOK'
    BY <1>3, <1>6, <2>1, <2>2, <2>4 DEF CoreInv, WatchOK, Watching, Active
  <2> QED BY <2>3, <2>5, <2>6, <2>7 DEF CoreInv
<1>7. CASE ~me.closed /\ me.cur.bodyDone /\ Ready(me) /\ UNCHANGED sock
  <2>2. serveFrame
    BY DEF BeginRead
  <2> QED BY <1>1, <1>3, <1>7, <2>2, ReadyCore
<1> QED BY <1>4, <1>5, <1>6, <1>7 DEF BeginRead

\* The drain decodes one frame of what is there.
LEMMA DrainCore == ASSUME CoreInv, Drain PROVE CoreInv'
<1> USE Requests
<1>1. /\ UNCHANGED <<scene, kind, at, sent, fin, hd, body, peer, evt, wt, sock, me, wire>>
      /\ serve.pc = "drain"
  BY DEF Drain, serveFrame
<1> DEFINE r == me.cur.seq
<1>2. r \in Reqs
  BY <1>1 DEF CoreInv, ServeOK, Draining
<1> HIDE DEF r
<1>3. PICK data \in Readable \cup {<<>>} :
        LET all == dec[r].buf \o data
            eats == me.open /\ ~dec[r].complete /\ all # <<>>
        IN  /\ net' = Rest(data)
            /\ dec' = [dec EXCEPT ![r] =
                         [buf |-> IF eats THEN Tail(all) ELSE all, complete |-> @.complete \/ eats]]
            /\ used' = IF eats THEN Append(used, Head(all)) ELSE used
            /\ serve' = [serve EXCEPT !.pc = IF me.open /\ (dec[r].complete \/ eats)
                                            THEN "drained" ELSE "undrained"]
  BY DEF Drain, r
<1> DEFINE all == dec[r].buf \o data
           eats == me.open /\ ~dec[r].complete /\ all # <<>>
<1>4. net \in Seq(ReqItem) /\ dec \in Decoders /\ used \in Seq(ReqItem) /\ serve \in Serving
  BY DEF CoreInv, Typed
<1>5. data \in Seq(ReqItem) /\ net' \in Seq(ReqItem)
  <2>1. <<>> \in Readable
    BY DEF Readable
  <2> QED BY <1>3, <1>4, <2>1, ReadableIs
<1>6. all \in Seq(ReqItem)
  <2>1. dec[r].buf \in Seq(ReqItem)
    BY <1>2, <1>4 DEF Decoders
  <2> QED BY <1>5, <2>1, ConcatProperties
<1> HIDE DEF all
<1>7. /\ used' \in Seq(ReqItem)
      /\ (IF eats THEN Tail(all) ELSE all) \in Seq(ReqItem)
  <2>1. eats => Head(all) \in ReqItem /\ Tail(all) \in Seq(ReqItem)
    BY <1>6, HeadTailProperties
  <2>2. used' = IF eats THEN Append(used, Head(all)) ELSE used
    BY <1>3 DEF all
  <2> QED BY <1>4, <1>6, <2>1, <2>2, AppendProperties
<1>8. /\ dec' \in Decoders
      /\ \A s \in Reqs : dec[s].complete => dec'[s].complete
  <2>1. dec' = [dec EXCEPT ![r] = [buf |-> IF eats THEN Tail(all) ELSE all, complete |-> @.complete \/ eats]]
    BY <1>3 DEF all
  <2>2. eats \in BOOLEAN /\ dec[r].complete \in BOOLEAN
    BY <1>2, <1>4, Zenon DEF Decoders
  <2> HIDE DEF eats
  <2> QED BY <1>2, <1>4, <1>7, <2>1, <2>2 DEF Decoders
<1>9. serve' \in Serving /\ serve'.pc \in {"drained", "undrained"} /\ serve'.on = serve.on
  BY <1>3, <1>4 DEF Serving, Draining
<1>10. Typed'
  BY <1>1, <1>5, <1>7, <1>8, <1>9 DEF CoreInv, Typed, ClientTyped
<1>11. SocketOK' /\ ServeOK' /\ CallerOK'
  BY <1>1, <1>9 DEF CoreInv, SocketOK, ServeOK, CallerOK, Working, ModeOK, Watching, Heading, Draining, Ending
<1>12. BodyOK'
  BY <1>1, <1>8, <1>9 DEF CoreInv, BodyOK, ServeOK, BodyOver, HasBody, Working, Draining, Ending
<1>13. WatchOK'
  BY <1>1, <1>8, <1>9 DEF CoreInv, WatchOK, Watching, Active
<1> QED BY <1>10, <1>11, <1>12, <1>13 DEF CoreInv

\* drain_done: the next head, or the end.
LEMMA DrainDoneCore == ASSUME CoreInv, DrainDone PROVE CoreInv'
<1> USE Requests
<1> DEFINE m == [me EXCEPT !.cur.reading = FALSE]
<1>1. /\ m \in Locked /\ m.open = me.open /\ m.closed = me.closed /\ m.reusable = me.reusable
      /\ m.w = me.w /\ m.buf = me.buf
      /\ m.cur.seq = me.cur.seq /\ m.cur.done = me.cur.done /\ m.cur.bodyDone = me.cur.bodyDone
      /\ m.cur.negotiated = me.cur.negotiated /\ m.cur.switch = me.cur.switch
  BY DEF Locked, Current
<1> HIDE DEF m
<1>2. CASE serve.pc = "drained" /\ Ready(m) /\ UNCHANGED sock
  BY <1>1, <1>2, ReadyCore DEF DrainDone, Draining
<1>3. CASE /\ serve.pc = "undrained"
           /\ me' = CloseNow(m) /\ Ends("orderly")
           /\ serve' = [serve EXCEPT !.pc = "out"] /\ UNCHANGED dec
  <2>1. UNCHANGED <<scene, kind, at, sent, fin, hd, body, peer, evt, wt, net, wire, used>>
    BY DEF DrainDone, serveFrame
  <2>2. Typed'
    BY <1>1, <1>3, <2>1, CloseNowIs DEF CoreInv, Typed, ClientTyped, Serving, Ending, Ends, Sockets
  <2>3. serve'.pc = "out" /\ serve'.on = serve.on
    BY <1>3 DEF CoreInv, Typed, Serving
  <2>4. \A r \in Reqs : ~Working(r)
    BY <1>3, AtRest DEF Draining
  <2>5. SocketOK' /\ ServeOK' /\ CallerOK'
    BY <1>1, <1>3, <2>1, <2>3, <2>4, CloseNowIs DEF CoreInv, SocketOK, ServeOK, CallerOK, Working, ModeOK, Watching,
       Heading, Draining, Ending, Ends
  <2>6. BodyOK' /\ WatchOK'
    BY <1>1, <1>3, <2>1, <2>3, <2>4, CloseNowIs DEF CoreInv, BodyOK, WatchOK, BodyOver, HasBody, Working,
       Watching, Active, Draining
  <2> QED BY <2>2, <2>5, <2>6 DEF CoreInv
<1> QED BY <1>2, <1>3 DEF DrainDone, m

\* unpark_idle_read and fail_read: a head read that returned no bytes.
LEMMA HeadReadEndsCore ==
    ASSUME CoreInv, NEW m \in Locked, NEW res, HeadReadEnds(m, res), serve.pc \in {"read", "take"},
           m.open = me.open, m.closed = me.closed, m.reusable = me.reusable,
           m.buf = me.buf, m.cur = me.cur,
           \/ m.w = me.w
           \/ (~Watching /\ ~(m.w.slot /\ ~m.w.completed) /\ (m.w.slot => m.w.on # None)),
           net' \in Seq(ReqItem), UNCHANGED <<dec, wire, used>>, serveFrame
    PROVE  CoreInv'
<1> USE Requests
<1>1. UNCHANGED <<scene, kind, at, sent, fin, hd, body, peer, evt, wt, dec, wire, used>>
  BY DEF serveFrame
<1> DEFINE n == [m EXCEPT !.parked = FALSE]
<1>2. /\ n \in Locked /\ n.open = me.open /\ n.closed = me.closed /\ n.reusable = me.reusable
      /\ n.buf = me.buf /\ n.cur = me.cur /\ n.w = m.w
  BY DEF Locked
<1>3. n.w \in Watch /\ me.cur.done /\ \A r \in Reqs : ~Working(r)
  BY <1>2, AtRest DEF Heading, Locked
<1>4. CASE /\ me' = CloseNow(n) /\ Ends("abort")
           /\ serve' = [serve EXCEPT !.pc = "out", !.on = None]
  <2>1. Typed'
    BY <1>1, <1>2, <1>4, CloseNowIs DEF CoreInv, Typed, ClientTyped, Serving, Ending, Ends, Sockets
  <2>2. serve'.pc = "out"
    BY <1>4 DEF CoreInv, Typed, Serving
  <2>3. /\ me' \in Locked /\ ~me'.open /\ me'.closed /\ ~me'.reusable /\ me'.cur = me.cur /\ me'.w = m.w
        /\ sock' \in Sockets /\ (sock' = "open" => FALSE) /\ (sock' = "caller" => sock = "caller")
    BY <1>2, <1>4, CloseNowIs DEF Ends, CoreInv, Typed, SocketOK, Sockets
  <2>4. SocketOK' /\ ServeOK'
    BY <1>1, <1>3, <2>2, <2>3 DEF CoreInv, SocketOK, ServeOK, Working, ModeOK, Heading, Draining, Ending
  <2>5. CallerOK' /\ BodyOK'
    BY <1>1, <1>3, <2>2, <2>3 DEF CoreInv, CallerOK, BodyOK, BodyOver, HasBody, Working, Watching, Draining
  <2>6. WatchOK'
    BY <1>1, <1>3, <2>2, <2>3 DEF CoreInv, WatchOK, Watching, Active
  <2> QED BY <2>1, <2>4, <2>5, <2>6 DEF CoreInv
<1>5. CASE /\ me' = n /\ UNCHANGED sock
           /\ \E e \in {"closed", "eof"} : serve' = [serve EXCEPT !.pc = "none", !.on = None, !.end = e]
  <2>1. serve' \in Serving /\ serve'.pc = "none"
    BY <1>5 DEF CoreInv, Typed, Serving, Heading
  <2>2. Typed'
    BY <1>1, <1>2, <1>5, <2>1 DEF CoreInv, Typed, ClientTyped
  <2> HIDE DEF n
  <2>3. SocketOK' /\ ServeOK'
    BY <1>1, <1>2, <1>3, <1>5, <2>1 DEF CoreInv, SocketOK, ServeOK, Working, ModeOK, Heading, Draining, Ending
  <2>4. CallerOK' /\ BodyOK'
    BY <1>1, <1>2, <1>3, <1>5, <2>1 DEF CoreInv, CallerOK, BodyOK, BodyOver, HasBody, Working, Watching, Draining,
       Ending
  <2>5. WatchOK'
    BY <1>1, <1>2, <1>3, <1>5, <2>1 DEF CoreInv, WatchOK, Watching, Active, BodyOver
  <2> QED BY <2>2, <2>3, <2>4, <2>5 DEF CoreInv
<1> QED BY <1>2, <1>4, <1>5 DEF HeadReadEnds

\* A step of the accept loop that keeps the locked state's request and its watcher.
LEMMA LoopStepCore ==
    ASSUME CoreInv, me' \in Locked, serve' \in Serving, net' \in Seq(ReqItem),
           me'.open = me.open, me'.closed = me.closed, me'.reusable = me.reusable,
           me'.cur = me.cur,
           serve.pc \in Heading, serve'.pc \in Heading,
           serve'.pc = "read" => me.open,
           serve'.pc = "watch" => me.w.slot /\ serve'.on = me.w.on,
           serve'.pc = "take" => me.w.slot /\ me.w.completed,
           \/ /\ me'.w.slot = me.w.slot /\ me'.w.on = me.w.on /\ me'.w.completed = me.w.completed
              /\ me'.buf = me.buf
              /\ me.open /\ Watching => serve'.pc \in {"watch", "none"}
           \/ (~Watching /\ ~Watching' /\ (me'.w.slot => me'.w.on # None) /\ serve'.pc \notin {"watch", "take"})
           \/ (~me.open /\ me'.w = me.w),
           UNCHANGED <<sock, dec, wire, used>>, serveFrame
    PROVE  CoreInv'
<1> USE Requests
<1>1. UNCHANGED <<scene, kind, at, sent, fin, hd, body, peer, evt, wt, dec, wire, used, sock>>
  BY DEF serveFrame
<1>2. me.cur.done /\ me'.w \in Watch /\ \A r \in Reqs : ~Working(r)
  BY AtRest DEF Locked
<1>3. Typed'
  BY <1>1 DEF CoreInv, Typed, ClientTyped
<1>4. SocketOK' /\ ServeOK'
  BY <1>1, <1>2 DEF CoreInv, SocketOK, ServeOK, Working, ModeOK, Heading, Draining, Ending
<1>5. CallerOK' /\ BodyOK'
  BY <1>1, <1>2 DEF CoreInv, SocketOK, CallerOK, BodyOK, BodyOver, HasBody, Working, Watching, Heading, Draining,
     Ending
<1>6. WatchOK'
  BY <1>1, <1>2 DEF CoreInv, WatchOK, Watching, Active, BodyOver
<1> QED BY <1>3, <1>4, <1>5, <1>6 DEF CoreInv

\* The read of the transport for a head.
LEMMA HeadReadCore == ASSUME CoreInv, HeadRead PROVE CoreInv'
<1> USE Requests
<1>1. serveFrame /\ UNCHANGED <<dec, wire, used>> /\ serve.pc = "read"
  BY DEF HeadRead
<1>2. PICK res \in Results, data \in Readable :
        /\ net' = Rest(data)
        /\ IF res = "data" THEN serve' = [serve EXCEPT !.pc = "got", !.data = data] /\ UNCHANGED <<me, sock>>
           ELSE HeadReadEnds(me, res)
  BY DEF HeadRead
<1>3. data \in Seq(ReqItem) /\ net' \in Seq(ReqItem)
  BY <1>2, ReadableIs DEF CoreInv, Typed
<1>4. CASE res = "data"
  <2>1. serve' = [serve EXCEPT !.pc = "got", !.data = data] /\ UNCHANGED <<me, sock>>
    BY <1>2, <1>4
  <2>2. serve' \in Serving /\ serve'.pc = "got"
    BY <1>3, <2>1 DEF CoreInv, Typed, Serving, Heading
  <2>3. ~(me.open /\ Watching)
    BY <1>1 DEF CoreInv, WatchOK
  <2> QED BY <1>1, <1>3, <2>1, <2>2, <2>3, LoopStepCore DEF Heading
<1>5. CASE res # "data"
  BY <1>1, <1>2, <1>3, <1>5, HeadReadEndsCore
<1> QED BY <1>4, <1>5

\* The watcher that the loop waited for has ended: its handle is taken.
LEMMA TakeWatcherHandleCore == ASSUME CoreInv, TakeWatcherHandle PROVE CoreInv'
<1> USE Requests
<1>1. /\ serveFrame /\ UNCHANGED <<net, sock, dec, wire, used>>
      /\ serve.pc = "watch" /\ wt[serve.on].pc = "over"
      /\ serve' = [serve EXCEPT !.pc = "take", !.on = me.w.handle]
      /\ me' = [me EXCEPT !.w.handle = None]
  BY DEF TakeWatcherHandle
<1>2. me.w.slot /\ me.w.completed
  BY <1>1 DEF CoreInv, WatchOK, Watching, Active
<1>3. serve' \in Serving /\ serve'.pc = "take"
  BY <1>1 DEF CoreInv, Typed, Serving, Heading, Watch
<1>4. /\ me' \in Locked /\ me'.open = me.open /\ me'.closed = me.closed /\ me'.reusable = me.reusable
      /\ me'.cur = me.cur /\ me'.buf = me.buf
      /\ me'.w.slot = me.w.slot /\ me'.w.on = me.w.on /\ me'.w.completed = me.w.completed
  BY <1>1 DEF Locked, Watch
<1>5. net' \in Seq(ReqItem) /\ ~Watching
  BY <1>1, <1>2 DEF CoreInv, Typed, Watching
<1> QED BY <1>1, <1>2, <1>3, <1>4, <1>5, LoopStepCore DEF Heading

\* What the watcher read is the loop's, and its slot is free.
LEMMA TakeWatcherResultCore == ASSUME CoreInv, TakeWatcherResult PROVE CoreInv'
<1> USE Requests
<1> DEFINE w == IF me.w.handle = None THEN NoWatcher ELSE [me.w EXCEPT !.res = "none", !.data = <<>>]
           m == [me EXCEPT !.w = w]
<1>1. serveFrame /\ UNCHANGED <<net, dec, wire, used>> /\ serve.pc = "take" /\ net' \in Seq(ReqItem)
  BY DEF TakeWatcherResult, CoreInv, Typed
<1>2. me.w.slot /\ me.w.completed
  BY <1>1 DEF CoreInv, WatchOK
<1>3. w \in Watch /\ (w.slot => w.completed /\ w.on # None)
  <2>1. me.w.on # None
    BY <1>2 DEF CoreInv, WatchOK
  <2> QED BY <1>2, <2>1, EmptySeq DEF NoWatcher, Watch
<1>4. IF me.w.res = "data"
      THEN /\ me' = m /\ UNCHANGED sock
           /\ serve' = [serve EXCEPT !.pc = "got", !.data = me.w.data, !.on = None]
      ELSE HeadReadEnds(m, me.w.res)
  BY Zenon DEF TakeWatcherResult
<1> HIDE DEF w
<1>5. /\ m \in Locked /\ m.open = me.open /\ m.closed = me.closed /\ m.reusable = me.reusable
      /\ m.buf = me.buf /\ m.cur = me.cur /\ m.w = w
  BY <1>3 DEF Locked
<1> HIDE DEF m
<1>6. CASE me.w.res = "data"
  <2>0. me.w.data \in Seq(ReqItem) /\ serve \in Serving
    BY DEF CoreInv, Typed, Watch
  <2>1. serve' \in Serving /\ serve'.pc = "got"
    BY <1>4, <1>6, <2>0 DEF Serving, Heading
  <2>2. me' = m /\ UNCHANGED sock /\ ~Watching /\ ~Watching'
    BY <1>2, <1>3, <1>4, <1>5, <1>6 DEF Watching
  <2> QED BY <1>1, <1>3, <1>5, <2>1, <2>2, LoopStepCore DEF Heading
<1>7. CASE me.w.res # "data"
  <2>1. ~Watching
    BY <1>2 DEF Watching
  <2> QED BY <1>1, <1>3, <1>4, <1>5, <1>7, <2>1, HeadReadEndsCore
<1> QED BY <1>6, <1>7

\* The next read of a head that has begun.
LEMMA RecvHeadBytesCore == ASSUME CoreInv, RecvHeadBytes PROVE CoreInv'
<1> USE Requests
<1>1. serveFrame /\ UNCHANGED <<net, sock, me, dec, wire, used>> /\ serve.pc = "mid"
  BY DEF RecvHeadBytes
<1>2. /\ serve' \in Serving /\ serve'.pc \in {"watch", "read", "none"}
      /\ serve'.pc = "watch" => me.w.slot /\ serve'.on = me.w.on
      /\ serve'.pc = "read" => me.open
  BY DEF RecvHeadBytes, CoreInv, Typed, Serving, Heading
<1>3. ~(me.open /\ Watching) /\ net' \in Seq(ReqItem)
  BY <1>1 DEF CoreInv, Typed, WatchOK
<1> QED BY <1>1, <1>2, <1>3, LoopStepCore DEF Heading

\* A step to or past the end of the accept loop: the transport is given up, or nothing
\* of it changes.
LEMMA LoopEndsCore ==
    ASSUME CoreInv, me' \in Locked, serve' \in Serving, serve'.pc \in Ending, sock' \in Sockets,
           net' \in Seq(ReqItem), used' \in Seq(ReqItem), wire' \in Seq(Items),
           me'.cur = me.cur,
           me'.w.slot = me.w.slot, me'.w.on = me.w.on, me'.w.completed = me.w.completed,
           \/ /\ ~me'.open /\ me'.closed /\ ~me'.reusable
              /\ sock' # "open" /\ (sock' = "caller" => sock = "caller")
           \/ /\ me'.open = me.open /\ (me.closed => me'.closed) /\ (~me.reusable => ~me'.reusable)
              /\ sock' = sock /\ serve.pc # "serving" /\ me'.buf = me.buf
              /\ me.open /\ Watching => serve'.pc = "out"
              /\ serve.pc # "out",
           UNCHANGED <<dec, scene, kind, at, sent, fin, hd, body, peer, evt, wt>>
    PROVE  CoreInv'
<1> USE Requests
<1>1. Typed'
  BY DEF CoreInv, Typed, ClientTyped
<1>2. SocketOK'
  BY DEF CoreInv, SocketOK
<1>3. ServeOK'
  BY DEF CoreInv, ServeOK, Working, ModeOK, Heading, Draining, Ending
<1>4. BodyOK'
  BY DEF CoreInv, BodyOK, ServeOK, BodyOver, HasBody, Working, Draining, Ending
<1>5. WatchOK' /\ CallerOK'
  BY DEF CoreInv, WatchOK, CallerOK, Watching, Active, BodyOver, Working, Ending
<1> QED BY <1>1, <1>2, <1>3, <1>4, <1>5 DEF CoreInv

\* The loop ends with the connection, and its caller closes it.
LEMMA LoopLeavesCore ==
    ASSUME CoreInv, StopServing \/ Close \/ CloseJoins \/ Closed
    PROVE  CoreInv'
<1> USE Requests
<1>0. UNCHANGED <<dec, wire, used, net, scene, kind, at, sent, fin, hd, body, peer, evt, wt>>
  BY DEF StopServing, Close, CloseJoins, Closed, serveFrame
<1>1. net' \in Seq(ReqItem) /\ used' \in Seq(ReqItem) /\ wire' \in Seq(Items) /\ serve \in Serving /\ sock \in Sockets
  BY <1>0 DEF CoreInv, Typed, ClientTyped
<1>2. CASE StopServing
  <2>1. serve' \in Serving /\ serve'.pc = "out" /\ serve.pc = "none" /\ sock' = sock
    BY <1>1, <1>2 DEF StopServing, Serving, Ending
  <2>2. /\ me' \in Locked /\ me'.open = me.open /\ me'.closed /\ ~me'.reusable
        /\ me'.cur = me.cur /\ me'.w = me.w /\ me'.buf = me.buf
    BY <1>2 DEF StopServing, Locked
  <2> QED BY <1>0, <1>1, <2>1, <2>2, LoopEndsCore DEF Ending
<1>3. CASE Close
  <2>1. serve' \in Serving /\ serve'.pc \in {"closing", "closed"}
    BY <1>1, <1>3 DEF Close, Serving, Ending
  <2>2. /\ me' \in Locked /\ ~me'.open /\ me'.closed /\ ~me'.reusable
        /\ me'.cur = me.cur /\ me'.w = me.w
    BY <1>3, CloseNowIs DEF Close
  <2>3. sock' \in Sockets /\ sock' # "open" /\ (sock' = "caller" => sock = "caller")
    BY <1>1, <1>3 DEF Close, Ends, Sockets, CoreInv, SocketOK
  <2> QED BY <1>0, <1>1, <2>1, <2>2, <2>3, LoopEndsCore DEF Ending
<1>4. CASE CloseJoins \/ Closed
  <2>1. /\ serve' \in Serving /\ serve'.pc \in {"joining", "closed"} /\ sock' = sock
        /\ serve.pc \in {"closing", "joining"}
    BY <1>1, <1>4 DEF CloseJoins, Closed, Serving, Ending, Watch
  <2>2. /\ me' \in Locked /\ me'.open = me.open /\ me'.closed = me.closed /\ me'.reusable = me.reusable
        /\ me'.cur = me.cur /\ me'.buf = me.buf
        /\ me'.w.slot = me.w.slot /\ me'.w.on = me.w.on /\ me'.w.completed = me.w.completed
    BY <1>4 DEF CloseJoins, Closed, Locked, Watch
  <2>3. ~(me.open /\ Watching)
    BY <2>1 DEF CoreInv, WatchOK
  <2> QED BY <1>0, <1>1, <2>1, <2>2, <2>3, LoopEndsCore DEF Ending
<1> QED BY <1>2, <1>3, <1>4

\* A head is parsed: its request is the current one, and the handler is called.
LEMMA ParsedCore ==
    ASSUME CoreInv, serve.pc \in {"got", "parse"}, ~me.closed,
           NEW b \in Seq(ReqItem), IsHead(b), NEW r, r = b[1].r,
           me' \in Locked, me'.open = me.open, me'.w = me.w, me'.closed = me.closed,
           me'.cur = [NoRequest EXCEPT !.seq = r, !.done = FALSE, !.bodyDone = ~HasBody(r)],
           dec' = [dec EXCEPT ![r] = [buf |-> SubSeq(b, 3, Len(b)), complete |-> ~HasBody(r)]],
           hd' = [hd EXCEPT ![r].pc = "start"],
           serve' = [serve EXCEPT !.pc = "serving", !.data = <<>>],
           used' = used \o SubSeq(b, 1, 2),
           UNCHANGED <<sock, wire, scene, kind, at, sent, fin, net, body, peer, evt, wt>>
    PROVE  CoreInv'
<1> USE Requests
<1>1. r \in Reqs /\ SubSeq(b, 3, Len(b)) \in Seq(ReqItem) /\ SubSeq(b, 1, 2) \in Seq(ReqItem)
  <2> DEFINE l == Len(b)
  <2>1. l \in Nat /\ l >= 2 /\ \A i \in 1..l : b[i] \in ReqItem
    BY ElementOfSeq, LenProperties DEF IsHead
  <2> HIDE DEF l
  <2>2. (\A i \in 3..l : b[i] \in ReqItem) /\ (\A i \in 1..2 : b[i] \in ReqItem) /\ 1 \in 1..l
    BY <2>1
  <2>3. SubSeq(b, 3, l) \in Seq(ReqItem) /\ SubSeq(b, 1, 2) \in Seq(ReqItem)
    <3>1. 3 \in Int /\ l \in Int /\ 1 \in Int /\ 2 \in Int
      BY <2>1
    <3>2. SubSeq(b, 3, l) \in Seq(ReqItem)
      BY <2>2, <3>1, SubSeqProperties, Zenon
    <3>3. SubSeq(b, 1, 2) \in Seq(ReqItem)
      BY <2>2, <3>1, SubSeqProperties, Zenon
    <3> QED BY <3>2, <3>3
  <2>4. b[1] \in ReqItem
    BY <2>1, <2>2
  <2>5. r \in Reqs
    BY <2>4 DEF ReqItem
  <2> QED BY <2>3, <2>5 DEF l
<1>2. dec \in Decoders /\ hd \in Handlers /\ serve \in Serving /\ used \in Seq(ReqItem)
  BY DEF CoreInv, Typed
<1>3. used' \in Seq(ReqItem)
  BY <1>1, <1>2, ConcatProperties
<1>4. HasBody(r) \in BOOLEAN
  BY DEF HasBody
<1>5. /\ dec' \in Decoders /\ dec'[r].complete = ~HasBody(r)
      /\ \A s \in Reqs \ {r} : dec'[s] = dec[s]
  BY <1>1, <1>2, <1>4 DEF Decoders
<1>6. hd' \in Handlers /\ hd'[r].pc = "start" /\ \A s \in Reqs \ {r} : hd'[s] = hd[s]
  <2>1. hd[r] \in [pc : HandlerPlaces, mode : {"none", "bytes", "async", "push", "error"}]
    BY <1>1, <1>2 DEF Handlers
  <2>2. [hd[r] EXCEPT !.pc = "start"] \in [pc : HandlerPlaces, mode : {"none", "bytes", "async", "push", "error"}]
    BY <2>1 DEF HandlerPlaces
  <2>3. [hd[r] EXCEPT !.pc = "start"].pc = "start" /\ hd' = [hd EXCEPT ![r] = [hd[r] EXCEPT !.pc = "start"]]
    BY <1>1, <1>2, <2>1 DEF Handlers
  <2> QED BY <1>1, <1>2, <2>2, <2>3 DEF Handlers
<1>7. serve' \in Serving /\ serve'.pc = "serving"
  BY <1>2, EmptySeq DEF Serving
<1>8. /\ me'.cur.seq = r /\ ~me'.cur.done /\ (me'.cur.bodyDone <=> ~HasBody(r)) /\ ~me'.cur.negotiated
      /\ ~me'.cur.reading /\ ~me'.cur.switch
  BY <1>4 DEF NoRequest
<1>9. Typed'
  BY <1>3, <1>5, <1>6, <1>7 DEF CoreInv, Typed, ClientTyped
<1>10. me.open /\ me.cur.done /\ ~Watching /\ \A s \in Reqs : ~Working(s) /\ body[s].pc # "reading"
  BY AtRest DEF CoreInv, SocketOK, WatchOK, BodyOK, Heading, Ending
<1>11. SocketOK'
  BY <1>10 DEF CoreInv, SocketOK
<1>12. \A s \in Reqs : (Working(s)' => s = r) /\ (Working(r))' /\ (HasBody(s)' <=> HasBody(s))
  BY <1>6, <1>10 DEF Working, HasBody
<1>13. \A s \in Reqs : hd'[s].pc \in {"start", "cont", "again"} => s = r
  BY <1>6, <1>10 DEF Working
<1>14. ServeOK'
  <2>1. r # None
    BY <1>1 DEF Reqs, None
  <2>2. hd'[me'.cur.seq].pc # "over"
    BY <1>6, <1>8
  <2>3. serve'.pc \notin Heading \cup Draining
    BY <1>7 DEF Heading, Draining
  <2>4. \A s \in Reqs : ModeOK(s)'
    BY <1>6 DEF CoreInv, ServeOK, ModeOK
  <2> QED BY <1>7, <1>8, <1>12, <1>13, <2>1, <2>2, <2>3, <2>4 DEF ServeOK
<1>15. BodyOK'
  <2>1. \A s \in Reqs : ~HasBody(s) => body'[s].pc \in {"off", "over"}
    BY DEF CoreInv, BodyOK
  <2>2. \A s \in Reqs : ~HasBody(s) /\ hd'[s].pc # "off" => dec'[s].complete
    BY <1>5, <1>6 DEF CoreInv, BodyOK
  <2>3. "late" \notin scene.env => \A s \in Reqs : body'[s].pc \in {"off", "over"}
    BY <1>10 DEF CoreInv, BodyOK
  <2>4. me'.cur.bodyDone => (BodyOver(me.cur.seq))'
    BY <1>1, <1>5, <1>8, <2>1 DEF BodyOver
  <2> QED BY <1>7, <1>10, <1>12, <2>1, <2>2, <2>3, <2>4 DEF BodyOK, Draining
<1>16. WatchOK' /\ CallerOK'
  BY <1>7, <1>8, <1>10, <1>11 DEF CoreInv, SocketOK, WatchOK, CallerOK, Watching, Active
<1> QED BY <1>9, <1>11, <1>14, <1>15, <1>16 DEF CoreInv

\* What was read goes to the parser: the connection closed meanwhile, part of a head, a
\* head, or none.
LEMMA AcceptHeadCore == ASSUME CoreInv, AcceptHead PROVE CoreInv'
<1> USE Requests
<1> DEFINE b == me.buf \o serve.data
           n == [me EXCEPT !.parked = FALSE, !.buf = b]
<1>1. /\ UNCHANGED <<scene, kind, at, sent, fin, net, body, peer, evt, wt>>
      /\ serve.pc \in {"got", "parse"}
  BY DEF AcceptHead
<1>2. me.buf \in Seq(ReqItem) /\ serve.data \in Seq(ReqItem) /\ serve \in Serving /\ net' \in Seq(ReqItem)
  BY <1>1 DEF CoreInv, Typed, Locked, Serving
<1>3. b \in Seq(ReqItem)
  BY <1>2, ConcatProperties
<1>4. ~(me.open /\ Watching)
  BY <1>1 DEF CoreInv, WatchOK
<1>5. \/ /\ me.closed
         /\ me' = [me EXCEPT !.parked = FALSE]
         /\ serve' = [serve EXCEPT !.pc = "mid", !.data = <<>>]
         /\ UNCHANGED <<sock, dec, hd, wire, used>>
      \/ /\ ~me.closed
         /\ me' = n
         /\ serve' = [serve EXCEPT !.pc = "mid", !.data = <<>>]
         /\ UNCHANGED <<sock, dec, hd, wire, used>>
      \/ /\ ~me.closed /\ IsHead(b)
         /\ LET r == b[1].r IN
              /\ me' = [n EXCEPT !.buf = <<>>, !.since = FALSE,
                                 !.cur = [NoRequest EXCEPT !.seq = r, !.done = FALSE,
                                                           !.bodyDone = ~HasBody(r)]]
              /\ dec' = [dec EXCEPT ![r] = [buf |-> SubSeq(b, 3, Len(b)), complete |-> ~HasBody(r)]]
              /\ hd' = [hd EXCEPT ![r].pc = "start"]
         /\ serve' = [serve EXCEPT !.pc = "serving", !.data = <<>>]
         /\ used' = used \o SubSeq(b, 1, 2)
         /\ UNCHANGED <<sock, wire>>
      \/ /\ ~me.closed
         /\ me' = CloseNow(n) /\ Ends("orderly")
         /\ wire' = IF sock = "open" THEN Append(wire, Item(None, "400")) ELSE wire
         /\ serve' = [serve EXCEPT !.pc = "out", !.data = <<>>, !.end = "parse"]
         /\ UNCHANGED <<dec, hd, used>>
  <2>1. n.buf = b
    BY DEF Locked
  <2> QED BY <2>1 DEF AcceptHead
<1> HIDE DEF b
<1>6. /\ n \in Locked /\ n.open = me.open /\ n.closed = me.closed /\ n.reusable = me.reusable
      /\ n.cur = me.cur /\ n.w = me.w
  BY <1>3 DEF Locked
<1>7. CASE /\ me.closed
           /\ me' = [me EXCEPT !.parked = FALSE]
           /\ serve' = [serve EXCEPT !.pc = "mid", !.data = <<>>]
           /\ UNCHANGED <<sock, dec, hd, wire, used>>
  <2>1. serve' \in Serving /\ serve'.pc = "mid"
    BY <1>2, <1>7, EmptySeq DEF Serving, Heading
  <2>2. /\ me' \in Locked /\ me'.open = me.open /\ me'.closed = me.closed /\ me'.reusable = me.reusable
        /\ me'.cur = me.cur /\ me'.buf = me.buf /\ me'.w = me.w
    BY <1>7 DEF Locked
  <2>3. serveFrame
    BY <1>1, <1>7 DEF serveFrame
  <2> QED BY <1>1, <1>2, <1>4, <1>7, <2>1, <2>2, <2>3, LoopStepCore DEF Heading
<1>8. CASE /\ ~me.closed
           /\ me' = n
           /\ serve' = [serve EXCEPT !.pc = "mid", !.data = <<>>]
           /\ UNCHANGED <<sock, dec, hd, wire, used>>
  <2>1. serve' \in Serving /\ serve'.pc = "mid"
    BY <1>2, <1>8, EmptySeq DEF Serving, Heading
  <2>2. me.open /\ ~Watching /\ (me.w.slot => me.w.on # None)
    BY <1>4, <1>8 DEF CoreInv, SocketOK, WatchOK
  <2>3. ~Watching' /\ me'.w = me.w
    BY <1>6, <1>8, <2>2 DEF Watching
  <2>4. serveFrame
    BY <1>1, <1>8 DEF serveFrame
  <2> QED BY <1>1, <1>2, <1>6, <1>8, <2>1, <2>2, <2>3, <2>4, LoopStepCore DEF Heading
<1>9. ASSUME NEW r, r = b[1].r, ~me.closed, IsHead(b),
             me' = [n EXCEPT !.buf = <<>>, !.since = FALSE,
                             !.cur = [NoRequest EXCEPT !.seq = r, !.done = FALSE, !.bodyDone = ~HasBody(r)]],
             dec' = [dec EXCEPT ![r] = [buf |-> SubSeq(b, 3, Len(b)), complete |-> ~HasBody(r)]],
             hd' = [hd EXCEPT ![r].pc = "start"],
             serve' = [serve EXCEPT !.pc = "serving", !.data = <<>>],
             used' = used \o SubSeq(b, 1, 2),
             UNCHANGED <<sock, wire>>
      PROVE  CoreInv'
  <2> DEFINE c == [NoRequest EXCEPT !.seq = r, !.done = FALSE, !.bodyDone = ~HasBody(r)]
  <2>1. r \in Reqs
    <3>1. Len(b) \in Nat /\ Len(b) >= 2 /\ \A i \in 1..Len(b) : b[i] \in ReqItem
      BY <1>3, <1>9, ElementOfSeq, LenProperties DEF IsHead
    <3>2. 1 \in 1..Len(b)
      BY <3>1
    <3> QED BY <1>9, <3>1, <3>2 DEF ReqItem
  <2>2. c \in Current
    <3>1. HasBody(r) \in BOOLEAN
      BY DEF HasBody
    <3>2. NoRequest \in Current
      BY DEF NoRequest, Current
    <3>3. \A q \in Current, h \in BOOLEAN : [q EXCEPT !.seq = r, !.done = FALSE, !.bodyDone = ~h] \in Current
      <4>1. ASSUME NEW q \in Current, NEW g \in BOOLEAN
            PROVE  [q EXCEPT !.seq = r, !.done = FALSE, !.bodyDone = g] \in Current
        BY <2>1 DEF Current
      <4>2. \A h \in BOOLEAN : (~h) \in BOOLEAN
        OBVIOUS
      <4> QED BY <4>1, <4>2
    <3> QED BY <3>1, <3>2, <3>3
  <2>3. /\ me' \in Locked /\ me'.open = me.open /\ me'.closed = me.closed /\ me'.w = me.w /\ me'.cur = c
    <3> HIDE DEF c, n
    <3> QED BY <1>6, <1>9, <2>2, EmptySeq DEF Locked, c
  <2> QED BY <1>1, <1>3, <1>9, <2>3, ParsedCore
<1>10. CASE /\ ~me.closed
            /\ me' = CloseNow(n) /\ Ends("orderly")
            /\ wire' = IF sock = "open" THEN Append(wire, Item(None, "400")) ELSE wire
            /\ serve' = [serve EXCEPT !.pc = "out", !.data = <<>>, !.end = "parse"]
            /\ UNCHANGED <<dec, hd, used>>
  <2>1. /\ me' \in Locked /\ ~me'.open /\ me'.closed /\ ~me'.reusable /\ me'.cur = me.cur /\ me'.w = me.w
    BY <1>6, <1>10, CloseNowIs
  <2>2. serve' \in Serving /\ serve'.pc = "out"
    BY <1>2, <1>10, EmptySeq DEF Serving, Ending
  <2>3. Item(None, "400") \in Items /\ wire \in Seq(Items)
    BY DEF Item, Items, Parts, CoreInv, Typed, ClientTyped
  <2>4. wire' \in Seq(Items)
    BY <1>10, <2>3, AppendProperties
  <2>5. sock' \in Sockets /\ sock' # "open" /\ (sock' = "caller" => sock = "caller")
    BY <1>10 DEF Ends, Sockets, CoreInv, Typed, SocketOK
  <2>6. used' \in Seq(ReqItem)
    BY <1>10 DEF CoreInv, Typed
  <2> QED BY <1>1, <1>2, <1>10, <2>1, <2>2, <2>4, <2>5, <2>6, LoopEndsCore DEF Ending
<1> QED BY <1>5, <1>7, <1>8, <1>9, <1>10

(***************************************************************************)
(* Steps of the other tasks.                                                *)
(***************************************************************************)

\* A step that leaves the transport and its watcher as they were, or marks the
\* connection closed.
LEMMA StepCore ==
    ASSUME CoreInv, me' \in Locked, dec' \in Decoders, hd' \in Handlers, body' \in Bodies, wt' \in Watchers,
           peer' \in [Reqs -> {"off", "store", "join", "wait", "over"}], evt' \in [Reqs -> BOOLEAN],
           net' \in Seq(ReqItem), used' \in Seq(ReqItem), wire' \in Seq(Items),
           me'.open = me.open, me.closed => me'.closed, ~me.reusable => ~me'.reusable,
           me'.w.slot = me.w.slot, me'.w.on = me.w.on, me'.w.completed = me.w.completed,
           me'.cur.seq = me.cur.seq, me'.cur.done = me.cur.done, me.cur.bodyDone => me'.cur.bodyDone,
           me'.cur.switch => kind[me.cur.seq] = "upgrade",
           me.open /\ Watching =>
             /\ me'.buf = <<>> /\ dec'[me.cur.seq].buf = <<>>
             /\ kind[me.cur.seq] = "upgrade" => me'.cur.negotiated /\ ~me'.cur.switch,
           me.open /\ serve.pc \in Draining => me'.cur.reading \/ me'.cur.bodyDone,
           me.open /\ me'.cur.bodyDone /\ (Watching \/ ~me.cur.done) => (BodyOver(me.cur.seq))',
           \A r \in Reqs :
             /\ Active(r)' <=> Active(r)
             /\ dec[r].complete => dec'[r].complete
             /\ Working(r)' <=> Working(r)
             /\ ModeOK(r)'
             /\ hd'[r].pc = "over" <=> hd[r].pc = "over"
             /\ hd'[r].pc = "off" <=> hd[r].pc = "off"
             /\ hd'[r].pc \in {"start", "cont", "again"} => ~me'.cur.negotiated
             /\ me.open /\ body'[r].pc = "reading" =>
                  r = me.cur.seq /\ me'.cur.reading /\ ~me'.cur.bodyDone
                  /\ serve.pc \in Ending \cup {"serving"}
             /\ ~HasBody(r) => body'[r].pc \in {"off", "over"}
             /\ "late" \notin scene.env /\ body'[r].pc \notin {"off", "over"} => Working(r),
           UNCHANGED <<scene, kind, at, sent, fin, sock, serve>>
    PROVE  CoreInv'
<1> USE Requests
<1>1. Typed'
  BY DEF CoreInv, Typed, ClientTyped
<1>2. SocketOK'
  BY DEF CoreInv, SocketOK
<1>3. ServeOK'
  BY DEF CoreInv, ServeOK
<1>4. BodyOK'
  <2>1. \A r \in Reqs : HasBody(r)' <=> HasBody(r)
    BY DEF HasBody
  <2>2. me'.open /\ me'.cur.bodyDone /\ ~me'.cur.done => (BodyOver(me.cur.seq))'
    OBVIOUS
  <2> QED BY <2>1, <2>2 DEF CoreInv, BodyOK
<1>5. Watching' <=> Watching
  BY DEF Watching
<1>6. CallerOK'
  BY <1>5 DEF CoreInv, CallerOK
<1>7. WatchOK'
  <2>1. me.open /\ Watching => (BodyOver(me.cur.seq))' /\ me'.cur.bodyDone
    <3>1. me.open /\ Watching => me.cur.bodyDone
      BY DEF CoreInv, WatchOK
    <3> QED BY <3>1
  <2>2. \A r \in Reqs : Active(r)' => Watching' /\ me'.w.on = r
    BY <1>5 DEF CoreInv, WatchOK
  <2>3. Watching' => Active(me.w.on)'
    <3>1. Watching => me.w.on \in Reqs /\ Active(me.w.on)
      BY DEF CoreInv, WatchOK, Watching
    <3>2. \A r \in Reqs : Active(r)' <=> Active(r)
      OBVIOUS
    <3> QED BY <1>5, <3>1, <3>2 DEF Active
  <2> QED BY <1>5, <2>1, <2>2, <2>3 DEF CoreInv, WatchOK
<1> QED BY <1>1, <1>2, <1>3, <1>4, <1>6, <1>7 DEF CoreInv

\* A step that decides whether to park a read for the current request.
LEMMA ArmCore ==
    ASSUME CoreInv, NEW m \in Locked, Arm(m), hd' \in Handlers, body' \in Bodies,
           peer' \in [Reqs -> {"off", "store", "join", "wait", "over"}],
           m.open = me.open, m.closed = me.closed, m.reusable = me.reusable, m.w = me.w, m.buf = me.buf,
           m.cur.seq = me.cur.seq, m.cur.done = me.cur.done, me.cur.bodyDone => m.cur.bodyDone,
           m.cur.switch => kind[me.cur.seq] = "upgrade",
           me.open /\ Watching /\ kind[me.cur.seq] = "upgrade" => m.cur.negotiated /\ ~m.cur.switch,
           me.open /\ serve.pc \in Draining => m.cur.reading \/ m.cur.bodyDone,
           me.open /\ m.cur.bodyDone /\ (Watching \/ ~me.cur.done) =>
             \/ body'[me.cur.seq].pc \in {"store", "join", "over"}
             \/ (body'[me.cur.seq].pc = "off" /\ dec[me.cur.seq].complete),
           \A r \in Reqs :
             /\ Working(r)' <=> Working(r)
             /\ ModeOK(r)'
             /\ hd'[r].pc = "over" <=> hd[r].pc = "over"
             /\ hd'[r].pc = "off" <=> hd[r].pc = "off"
             /\ hd'[r].pc \in {"start", "cont", "again"} => ~m.cur.negotiated
             /\ me.open /\ body'[r].pc = "reading" =>
                  r = me.cur.seq /\ m.cur.reading /\ ~m.cur.bodyDone
                  /\ serve.pc \in Ending \cup {"serving"}
             /\ ~HasBody(r) => body'[r].pc \in {"off", "over"}
             /\ "late" \notin scene.env /\ body'[r].pc \notin {"off", "over"} => Working(r),
           UNCHANGED <<scene, kind, at, sent, fin, net, sock, serve, evt, wire, used>>
    PROVE  CoreInv'
<1> USE Requests
<1>1. m.cur.seq = None => m.cur.done
  BY DEF CoreInv, ServeOK
<1>2. /\ me' \in Locked /\ me'.cur = m.cur
      /\ me'.open = m.open /\ me'.closed = m.closed /\ me'.reusable = m.reusable
      /\ dec' \in Decoders
      /\ \A r \in Reqs : dec'[r].complete = dec[r].complete
      /\ Armed(m) =>
           /\ m.cur.seq \in Reqs /\ m.open /\ ~m.closed /\ ~m.w.slot
           /\ m.cur.bodyDone /\ ~m.cur.done
           /\ kind[m.cur.seq] = "upgrade" => m.cur.negotiated /\ ~m.cur.switch
           /\ m.buf = <<>> /\ dec[m.cur.seq].buf = <<>>
           /\ me'.w = [NoWatcher EXCEPT !.slot = TRUE, !.on = m.cur.seq,
                                        !.handle = IF scene.threads THEN None ELSE m.cur.seq]
           /\ me'.buf = m.buf /\ dec' = dec
           /\ wt' = [wt EXCEPT ![m.cur.seq].pc = "spawned"]
      /\ ~Armed(m) =>
           /\ me'.w = m.w /\ wt' = wt
           /\ (me'.buf = m.buf /\ dec' = dec) \/ ~m.w.slot
  BY <1>1, ArmIs DEF CoreInv
<1>3. /\ wt \in Watchers /\ evt' \in [Reqs -> BOOLEAN] /\ net' \in Seq(ReqItem) /\ used' \in Seq(ReqItem)
      /\ wire' \in Seq(Items)
  BY DEF CoreInv, Typed, ClientTyped
<1>4. me.open /\ Watching => me.w.slot /\ me.buf = <<>> /\ dec[me.cur.seq].buf = <<>> /\ me.cur.seq \in Reqs
  BY DEF CoreInv, WatchOK, Watching
<1>5. me.open /\ m.cur.bodyDone /\ ~me.cur.done => me.cur.seq \in Reqs
  BY <1>1
<1>6. me.open /\ m.cur.bodyDone /\ (Watching \/ ~me.cur.done) => (BodyOver(me.cur.seq))'
  BY <1>2, <1>4, <1>5 DEF BodyOver
<1>7. CASE ~Armed(m)
  <2>1. me'.w = me.w /\ wt' = wt /\ ((me'.buf = me.buf /\ dec' = dec) \/ ~me.w.slot)
    BY <1>2, <1>7
  <2>2. \A r \in Reqs : Active(r)' <=> Active(r)
    BY <2>1 DEF Active
  <2>3. me.open /\ Watching => me'.buf = <<>> /\ dec'[me.cur.seq].buf = <<>>
    BY <1>4, <2>1
  <2>4. wt' \in Watchers
    BY <1>3, <2>1
  <2>5. \A r \in Reqs : dec[r].complete => dec'[r].complete
    BY <1>2
  <2>6. \A r \in Reqs :
             /\ Active(r)' <=> Active(r)
             /\ dec[r].complete => dec'[r].complete
             /\ Working(r)' <=> Working(r)
             /\ ModeOK(r)'
             /\ hd'[r].pc = "over" <=> hd[r].pc = "over"
             /\ hd'[r].pc = "off" <=> hd[r].pc = "off"
             /\ hd'[r].pc \in {"start", "cont", "again"} => ~me'.cur.negotiated
             /\ me.open /\ body'[r].pc = "reading" =>
                  r = me.cur.seq /\ me'.cur.reading /\ ~me'.cur.bodyDone
                  /\ serve.pc \in Ending \cup {"serving"}
             /\ ~HasBody(r) => body'[r].pc \in {"off", "over"}
             /\ "late" \notin scene.env /\ body'[r].pc \notin {"off", "over"} => Working(r)
    BY <1>2, <2>2, <2>5
  <2> QED BY <1>2, <1>3, <1>6, <2>1, <2>3, <2>4, <2>6, StepCore
<1>8. CASE Armed(m)
  <2>0. PICK q \in Reqs : q = me.cur.seq
    BY <1>2, <1>8
  <2>1. /\ q \in Reqs /\ me.open /\ ~me.w.slot /\ m.cur.bodyDone /\ ~me.cur.done
        /\ kind[q] = "upgrade" => m.cur.negotiated /\ ~m.cur.switch
        /\ me'.buf = <<>> /\ dec' = dec /\ dec[q].buf = <<>>
        /\ wt' = [wt EXCEPT ![q].pc = "spawned"]
        /\ ~Watching
    BY <1>2, <1>8, <2>0 DEF Watching
  <2>2. me'.w.slot /\ me'.w.on = q /\ ~me'.w.completed /\ me'.w \in Watch
    <3>1. NoWatcher \in Watch
      BY EmptySeq DEF NoWatcher, Watch
    <3>2. me'.w = [NoWatcher EXCEPT !.slot = TRUE, !.on = q, !.handle = IF scene.threads THEN None ELSE q]
      BY <1>2, <1>8, <2>0
    <3>3. ~NoWatcher.completed
      BY DEF NoWatcher
    <3>4. ASSUME NEW h \in Reqs \cup {None}, NEW w \in Watch, ~w.completed,
                 me'.w = [w EXCEPT !.slot = TRUE, !.on = q, !.handle = h]
          PROVE  me'.w.slot /\ me'.w.on = q /\ ~me'.w.completed /\ me'.w \in Watch
      <4>1. PICK x : x = [w EXCEPT !.slot = TRUE, !.on = q, !.handle = h]
        OBVIOUS
      <4>2. x \in Watch /\ x.slot /\ x.on = q /\ x.completed = w.completed
        BY <2>0, <4>1 DEF Watch
      <4> QED BY <3>4, <4>1, <4>2
    <3>5. (IF scene.threads THEN None ELSE q) \in Reqs \cup {None}
      BY <2>0
    <3> HIDE DEF NoWatcher
    <3> QED BY <3>1, <3>2, <3>3, <3>4, <3>5
  <2>3. wt' \in Watchers /\ Active(q)' /\ \A r \in Reqs \ {q} : Active(r)' <=> Active(r)
    <3>1. wt[q] \in [pc : {"none", "spawned", "reading", "result", "over"}, res : Results \cup {"none"},
                    data : Seq(ReqItem)]
      BY <1>3, <2>0 DEF Watchers
    <3>2. /\ [wt[q] EXCEPT !.pc = "spawned"] \in
               [pc : {"none", "spawned", "reading", "result", "over"}, res : Results \cup {"none"},
                data : Seq(ReqItem)]
          /\ [wt[q] EXCEPT !.pc = "spawned"].pc = "spawned"
      BY <3>1
    <3>3. wt' = [wt EXCEPT ![q] = [wt[q] EXCEPT !.pc = "spawned"]]
      BY <2>1
    <3>4. wt' \in Watchers /\ wt'[q].pc = "spawned" /\ \A r \in Reqs \ {q} : wt'[r] = wt[r]
      BY <1>3, <2>0, <3>2, <3>3 DEF Watchers
    <3> QED BY <3>4 DEF Active
  <2>4. serve.pc = "serving"
    BY <2>1 DEF CoreInv, ServeOK
  <2>5. Typed'
    BY <1>2, <1>3, <2>3 DEF CoreInv, Typed, ClientTyped
  <2>6. SocketOK'
    BY <1>2 DEF CoreInv, SocketOK
  <2>7. ServeOK'
    BY <1>2 DEF CoreInv, ServeOK
  <2>8. BodyOK'
    <3>1. \A r \in Reqs : HasBody(r)' <=> HasBody(r)
      BY DEF HasBody
    <3>2. (BodyOver(me.cur.seq))'
      BY <1>6, <2>1
    <3> QED BY <1>2, <2>4, <3>1, <3>2 DEF CoreInv, BodyOK, Draining
  <2>9. WatchOK'
    <3>1. (BodyOver(me.cur.seq))' /\ \A r \in Reqs : ~Active(r)
      BY <1>6, <2>1 DEF CoreInv, WatchOK
    <3>2. \A r \in Reqs : Active(r)' => r = q
      BY <2>3, <3>1
    <3>3. Watching' /\ q # None
      BY <2>0, <2>2 DEF Watching, None, Reqs
    <3>4. serve'.pc = "serving" /\ me'.cur = m.cur /\ m.cur.seq = q /\ kind' = kind
      BY <1>2, <2>0, <2>4
    <3>5. (Active(me.w.on))'
      BY <2>2, <2>3 DEF Active
    <3> QED BY <2>1, <2>2, <3>1, <3>2, <3>3, <3>4, <3>5, <2>0, <1>2 DEF WatchOK
  <2>10. CallerOK'
    BY <1>2, <2>1 DEF CoreInv, SocketOK, CallerOK
  <2> QED BY <2>5, <2>6, <2>7, <2>8, <2>9, <2>10 DEF CoreInv
<1> QED BY <1>7, <1>8

\* A handler goes on to another place.
LEMMA HandlerMoves ==
    ASSUME NEW r \in Reqs, NEW p \in HandlerPlaces, hd \in Handlers, hd' = [hd EXCEPT ![r].pc = p]
    PROVE  /\ hd' \in Handlers /\ hd'[r].pc = p /\ hd'[r].mode = hd[r].mode
           /\ \A s \in Reqs \ {r} : hd'[s] = hd[s]
<1> DEFINE R == [pc : HandlerPlaces, mode : {"none", "bytes", "async", "push", "error"}]
           x == [hd[r] EXCEPT !.pc = p]
<1>1. hd[r] \in R
  BY DEF Handlers
<1>2. x \in R /\ x.pc = p /\ x.mode = hd[r].mode
  BY <1>1
<1>3. hd' = [hd EXCEPT ![r] = x]
  OBVIOUS
<1> HIDE DEF x
<1>4. hd' \in Handlers /\ hd'[r] = x /\ \A s \in Reqs \ {r} : hd'[s] = hd[s]
  BY <1>2, <1>3 DEF Handlers
<1> QED BY <1>2, <1>4

\* A reader of a body goes on to another place.
LEMMA BodyMoves ==
    ASSUME NEW r \in Reqs, NEW p \in BodyPlaces, body \in Bodies, body' = [body EXCEPT ![r].pc = p]
    PROVE  body' \in Bodies /\ body'[r].pc = p /\ \A s \in Reqs \ {r} : body'[s] = body[s]
<1> DEFINE R == [pc : BodyPlaces, data : Seq(ReqItem), got : BOOLEAN, end : {"none", "clean", "error"}]
           x == [body[r] EXCEPT !.pc = p]
<1>1. body[r] \in R
  BY DEF Bodies
<1>2. x \in R /\ x.pc = p
  BY <1>1
<1>3. body' = [body EXCEPT ![r] = x]
  OBVIOUS
<1> HIDE DEF x
<1>4. body' \in Bodies /\ body'[r] = x /\ \A s \in Reqs \ {r} : body'[s] = body[s]
  BY <1>2, <1>3 DEF Bodies
<1> QED BY <1>2, <1>4

\* The connection is closed under the tasks, which find no transport.
LEMMA ClosesCore ==
    ASSUME CoreInv, me' \in Locked, ~me'.open, me'.closed, ~me'.reusable,
           sock' \in Sockets, sock' # "open", sock' = "caller" => sock = "caller",
           me'.w = me.w, me'.cur = me.cur,
           UNCHANGED <<scene, kind, at, sent, fin, net, dec, serve, hd, body, peer, evt, wt, wire, used>>
    PROVE  CoreInv'
<1> USE Requests
<1>1. Typed' /\ SocketOK'
  BY DEF CoreInv, Typed, ClientTyped, SocketOK
<1>2. ServeOK'
  BY DEF CoreInv, ServeOK, Working, ModeOK
<1>3. BodyOK'
  BY DEF CoreInv, BodyOK, HasBody, Working
<1>4. WatchOK' /\ CallerOK'
  BY DEF CoreInv, WatchOK, CallerOK, Watching, Active, Working
<1> QED BY <1>1, <1>2, <1>3, <1>4 DEF CoreInv

\* The handler's last step, with its response complete or failed.
LEMMA ResponseEndsCore ==
    ASSUME CoreInv, NEW r \in Reqs, Working(r), ReaderDone(r), hd' = [hd EXCEPT ![r].pc = "over"],
           me' \in Locked, dec' \in Decoders, used' \in Seq(ReqItem),
           evt' = [evt EXCEPT ![r] = TRUE],
           \A s \in Reqs : dec'[s].complete = dec[s].complete,
           me'.w.slot = me.w.slot, me'.w.on = me.w.on, me'.w.completed = me.w.completed,
           me'.cur.seq = me.cur.seq, me'.cur.done, me'.cur.bodyDone = me.cur.bodyDone,
           me'.cur.negotiated = me.cur.negotiated, me'.cur.switch = me.cur.switch,
           me'.cur.reading = me.cur.reading,
           \/ /\ me'.open = me.open /\ me'.closed = me.closed /\ (~me.reusable => ~me'.reusable)
              /\ me'.buf = me.buf /\ dec' = dec /\ sock' = sock
           \/ /\ ~me'.open /\ me'.closed /\ ~me'.reusable
              /\ sock' \in Sockets /\ sock' # "open" /\ (sock' = "caller" => sock = "caller" \/ ~Watching),
           UNCHANGED <<scene, kind, at, sent, fin, serve, body, peer, net, wt, wire>>
    PROVE  CoreInv'
<1> USE Requests
<1>1. hd' \in Handlers /\ hd'[r].pc = "over" /\ \A s \in Reqs \ {r} : hd'[s] = hd[s]
  <2>1. hd \in Handlers
    BY DEF CoreInv, Typed
  <2>2. "over" \in HandlerPlaces
    BY DEF HandlerPlaces
  <2> QED BY <2>1, <2>2, HandlerMoves
<1>2. Typed'
  BY <1>1 DEF CoreInv, Typed, ClientTyped
<1>3. SocketOK'
  BY DEF CoreInv, SocketOK
<1>4. r = me.cur.seq /\ serve.pc \in Ending \cup {"serving"} /\ \A s \in Reqs \ {r} : ~Working(s)
  BY DEF CoreInv, ServeOK
<1>5. \A s \in Reqs : ~(Working(s))'
  BY <1>1, <1>4 DEF Working
<1>6. ServeOK'
  BY <1>1, <1>4, <1>5 DEF CoreInv, ServeOK, ModeOK, Heading, Draining, Ending
<1>7. BodyOK'
  <2>1. \A s \in Reqs : HasBody(s)' <=> HasBody(s)
    BY DEF HasBody
  <2>2. "late" \notin scene.env => \A s \in Reqs : body[s].pc \in {"off", "over"}
    BY <1>4 DEF CoreInv, BodyOK, ReaderDone
  <2>3. \A s \in Reqs : ~HasBody(s) /\ hd'[s].pc # "off" => dec[s].complete
    BY <1>1 DEF CoreInv, BodyOK, Working
  <2> QED BY <1>1, <1>4, <1>5, <2>1, <2>2, <2>3 DEF CoreInv, BodyOK, Draining, Ending
<1>8. WatchOK'
  BY DEF CoreInv, WatchOK, Watching, Active, BodyOver
<1>9. CallerOK'
  BY <1>4, <1>5 DEF CoreInv, CallerOK, SocketOK, Watching, Ending
<1> QED BY <1>2, <1>3, <1>6, <1>7, <1>8, <1>9 DEF CoreInv

\* The watcher's last step.
LEMMA WatcherEndsCore ==
    ASSUME CoreInv, NEW r \in Reqs, Active(r), wt' \in Watchers, wt'[r].pc = "over",
           \A s \in Reqs \ {r} : wt'[s] = wt[s],
           me' \in Locked, evt' \in [Reqs -> BOOLEAN],
           me'.open = me.open, me'.closed = me.closed, ~me.reusable => ~me'.reusable,
           me'.buf = me.buf, me'.w.slot = me.w.slot, me'.w.on = me.w.on, me'.w.completed,
           me'.cur.seq = me.cur.seq, me'.cur.done = me.cur.done, me'.cur.bodyDone = me.cur.bodyDone,
           me'.cur.negotiated = me.cur.negotiated, me'.cur.switch = me.cur.switch,
           me'.cur.reading = me.cur.reading,
           UNCHANGED <<scene, kind, at, sent, fin, net, sock, dec, serve, hd, body, peer, wire, used>>
    PROVE  CoreInv'
<1> USE Requests
<1>1. Typed' /\ SocketOK'
  BY DEF CoreInv, Typed, ClientTyped, SocketOK
<1>2. ServeOK'
  BY DEF CoreInv, ServeOK, Working, ModeOK
<1>3. BodyOK'
  BY DEF CoreInv, BodyOK, BodyOver, HasBody, Working
<1>4. ~Watching' /\ \A s \in Reqs : ~(Active(s))'
  BY DEF CoreInv, WatchOK, Watching, Active
<1>5. WatchOK' /\ CallerOK'
  BY <1>4 DEF CoreInv, WatchOK, CallerOK, Working
<1> QED BY <1>1, <1>2, <1>3, <1>5 DEF CoreInv

\* A step that changes nothing of the locked state that the invariant tells apart.
Kept ==
    /\ me' \in Locked /\ me'.open = me.open /\ me'.closed = me.closed /\ (~me.reusable => ~me'.reusable)
    /\ me'.buf = me.buf
    /\ me'.w.slot = me.w.slot /\ me'.w.on = me.w.on /\ me'.w.completed = me.w.completed
    /\ me'.cur.seq = me.cur.seq /\ me'.cur.done = me.cur.done /\ me'.cur.bodyDone = me.cur.bodyDone
    /\ me'.cur.reading = me.cur.reading /\ me'.cur.negotiated = me.cur.negotiated
    /\ me'.cur.switch = me.cur.switch

\* The handler goes on.
LEMMA HandlerStepCore ==
    ASSUME CoreInv, Kept, NEW r \in Reqs, Working(r), hd' \in Handlers, hd'[r].pc \notin {"off", "over"},
           hd'[r].pc \in {"start", "cont", "again"} => hd[r].pc \in {"start", "cont", "again"}, ModeOK(r)',
           \A s \in Reqs \ {r} : hd'[s] = hd[s],
           wire' \in Seq(Items),
           UNCHANGED <<scene, kind, at, sent, fin, net, sock, dec, serve, body, peer, evt, wt, used>>
    PROVE  CoreInv'
<1> USE Requests
<1>1. /\ dec' \in Decoders /\ body' \in Bodies /\ wt' \in Watchers
      /\ peer' \in [Reqs -> {"off", "store", "join", "wait", "over"}] /\ evt' \in [Reqs -> BOOLEAN]
      /\ net' \in Seq(ReqItem) /\ used' \in Seq(ReqItem)
  BY DEF CoreInv, Typed
<1>2. \A s \in Reqs :
        /\ Working(s)' <=> Working(s)
        /\ ModeOK(s)'
        /\ hd'[s].pc = "over" <=> hd[s].pc = "over"
        /\ hd'[s].pc = "off" <=> hd[s].pc = "off"
        /\ hd'[s].pc \in {"start", "cont", "again"} => hd[s].pc \in {"start", "cont", "again"}
  <2>1. \A s \in Reqs : ModeOK(s)
    BY DEF CoreInv, ServeOK
  <2>2. \A s \in Reqs \ {r} : ModeOK(s)'
    BY <2>1 DEF ModeOK
  <2> QED BY <2>2 DEF Working
<1>3. \A s \in Reqs : hd[s].pc \in {"start", "cont", "again"} => ~me.cur.negotiated
  BY DEF CoreInv, ServeOK
<1>4. \A s \in Reqs :
        /\ me.open /\ body[s].pc = "reading" =>
             s = me.cur.seq /\ me.cur.reading /\ ~me.cur.bodyDone /\ serve.pc \in Ending \cup {"serving"}
        /\ ~HasBody(s) => body[s].pc \in {"off", "over"}
        /\ "late" \notin scene.env /\ body[s].pc \notin {"off", "over"} => Working(s)
  BY DEF CoreInv, BodyOK
<1>5. me.open /\ Watching =>
        /\ me.buf = <<>> /\ dec[me.cur.seq].buf = <<>>
        /\ kind[me.cur.seq] = "upgrade" => me.cur.negotiated /\ ~me.cur.switch
  BY DEF CoreInv, WatchOK
<1>6. /\ me.open /\ serve.pc \in Draining => me.cur.reading \/ me.cur.bodyDone
      /\ me.cur.switch => kind[me.cur.seq] = "upgrade"
      /\ me.open /\ me.cur.bodyDone /\ (Watching \/ ~me.cur.done) => BodyOver(me.cur.seq)
  BY DEF CoreInv, BodyOK, WatchOK
<1>7. \A s \in Reqs : (Active(s)' <=> Active(s)) /\ (BodyOver(s)' <=> BodyOver(s))
  BY DEF Active, BodyOver
<1>8. me.open /\ me'.cur.bodyDone /\ (Watching \/ ~me.cur.done) => (BodyOver(me.cur.seq))'
  BY <1>6 DEF Kept, BodyOver
<1> QED BY <1>1, <1>2, <1>3, <1>4, <1>5, <1>6, <1>7, <1>8, StepCore DEF Kept

\* AfterContinue, HandlerJoins, WriteHead, StreamBody: the handler goes on, and the
\* locked state stays as it is.
LEMMA HandlerGoesCore ==
    ASSUME CoreInv, NEW r \in Reqs, AfterContinue(r) \/ HandlerJoins(r) \/ WriteHead(r) \/ StreamBody(r)
    PROVE  CoreInv'
<1> USE Requests
<1>1. UNCHANGED <<scene, kind, at, sent, fin, net, sock, me, dec, serve, body, peer, evt, wt, used>>
  BY DEF AfterContinue, HandlerJoins, WriteHead, StreamBody, hdFrame
<1>2. hd \in Handlers /\ wire \in Seq(Items) /\ hd[r].mode \in {"none", "bytes", "async", "push", "error"}
  BY DEF CoreInv, Typed, ClientTyped, Handlers
<1>3. Kept
  BY <1>1 DEF Kept
<1>4. wire' \in Seq(Items)
  <2>1. Item(r, "head") \in Items
    BY DEF Item, Items, Parts
  <2>2. wire' = wire \/ wire' = Append(wire, Item(r, "head"))
    BY DEF AfterContinue, HandlerJoins, WriteHead, StreamBody
  <2> QED BY <1>2, <2>1, <2>2, AppendProperties
<1>12. ModeOK(r)
  BY DEF CoreInv, ServeOK
<1>5. Working(r)
  BY DEF AfterContinue, HandlerJoins, WriteHead, StreamBody, Working
<1>6. CASE /\ hd[r].pc = "cont" /\ HdGoes(r, "again")
  <2>1. "again" \in HandlerPlaces /\ hd' = [hd EXCEPT ![r].pc = "again"]
    BY <1>6 DEF HandlerPlaces, HdGoes
  <2>2. hd' \in Handlers /\ hd'[r].pc = "again" /\ hd'[r].mode = hd[r].mode /\ \A s \in Reqs \ {r} : hd'[s] = hd[s]
    BY <1>2, <2>1, HandlerMoves
  <2>3. ModeOK(r)'
    BY <1>6, <1>12, <2>2 DEF ModeOK
  <2> QED BY <1>1, <1>3, <1>4, <1>5, <1>6, <2>2, <2>3, HandlerStepCore
<1>7. ASSUME NEW p, HdGoes(r, p), p \in {"head", "stream", "finish", "arm", "fail"},
             p = "head" => hd[r].pc = "join" PROVE CoreInv'
  <2>1. p \in HandlerPlaces /\ hd' = [hd EXCEPT ![r].pc = p]
    BY <1>7 DEF HandlerPlaces, HdGoes
  <2>2. hd' \in Handlers /\ hd'[r].pc = p /\ hd'[r].mode = hd[r].mode /\ \A s \in Reqs \ {r} : hd'[s] = hd[s]
    BY <1>2, <2>1, HandlerMoves
  <2>3. ModeOK(r)'
    BY <1>7, <1>12, <2>2 DEF ModeOK
  <2> QED BY <1>1, <1>3, <1>4, <1>5, <1>7, <2>2, <2>3, HandlerStepCore
<1>8. CASE AfterContinue(r)
  BY <1>6, <1>8 DEF AfterContinue
<1>9. CASE HandlerJoins(r)
  BY <1>7, <1>9 DEF HandlerJoins
<1>10. CASE StreamBody(r)
  BY <1>7, <1>10 DEF StreamBody
<1>11. CASE WriteHead(r)
  <2> DEFINE p == CASE hd[r].mode = "bytes" -> "finish"
                    [] hd[r].mode = "async" -> "arm"
                    [] hd[r].mode = "push" -> "stream"
  <2>1. CASE sock # "open"
    BY <1>7, <1>11, <2>1 DEF WriteHead
  <2>2. CASE sock = "open"
    <3>1. HdGoes(r, p)
      BY <1>11, <2>2 DEF WriteHead
    <3>2. hd[r].mode \in {"bytes", "async", "push"}
      BY <1>2, <1>11, <1>12 DEF WriteHead, ModeOK
    <3>3. p \in {"stream", "finish", "arm"}
      BY <3>2
    <3> QED BY <1>7, <3>1, <3>3
  <2> QED BY <2>1, <2>2
<1> QED BY <1>8, <1>9, <1>10, <1>11

\* store_watcher_handle changes the handle at most.
LEMMA StoredIs ==
    ASSUME CoreInv, NEW r \in Reqs, me' = Stored(me, r)
    PROVE  Kept
<1> USE Requests
<1>1. me.w.handle \in Reqs \cup {None}
  BY DEF Watch
<1>2. CASE Refused(me)
  BY <1>2 DEF Stored, Kept
<1>3. CASE ~Refused(me)
  <2>1. me' = [me EXCEPT !.w.handle = r]
    BY <1>3 DEF Stored
  <2>2. /\ me' \in Locked /\ me'.open = me.open /\ me'.closed = me.closed /\ me'.reusable = me.reusable
        /\ me'.buf = me.buf /\ me'.cur = me.cur
        /\ me'.w.slot = me.w.slot /\ me'.w.on = me.w.on /\ me'.w.completed = me.w.completed
    BY <2>1 DEF Locked, Watch
  <2> QED BY <2>2 DEF Kept
<1> QED BY <1>2, <1>3

\* The handler stores the handle of the task it spawned.
LEMMA HandlerStoresCore == ASSUME CoreInv, NEW r \in Reqs, HandlerStores(r) PROVE CoreInv'
<1>1. /\ UNCHANGED <<scene, kind, at, sent, fin, net, sock, dec, serve, body, peer, evt, wt, wire, used>>
      /\ Kept
  BY StoredIs DEF HandlerStores, hdFrame
<1>2. hd \in Handlers /\ wire \in Seq(Items) /\ ModeOK(r)
  BY DEF CoreInv, Typed, ClientTyped, ServeOK
<1>3. PICK p \in {"join", "head", "joinBody", "stream"} :
        hd' = [hd EXCEPT ![r].pc = p] /\ (p \in {"join", "head"} => hd[r].pc = "store")
  BY DEF HandlerStores, HdGoes
<1>4. p \in HandlerPlaces /\ Working(r)
  BY DEF HandlerPlaces, HandlerStores, Working
<1>5. hd' \in Handlers /\ hd'[r].pc = p /\ hd'[r].mode = hd[r].mode /\ \A s \in Reqs \ {r} : hd'[s] = hd[s]
  BY <1>2, <1>3, <1>4, HandlerMoves
<1>6. ModeOK(r)'
  BY <1>2, <1>3, <1>5 DEF ModeOK
<1> QED BY <1>1, <1>2, <1>4, <1>5, <1>6, HandlerStepCore

\* The decisions that respond_head records of the request.
Negotiated(q, a, b, d) == [q EXCEPT !.keep = a, !.switch = b, !.negotiated = TRUE, !.wanted = d]
SameRequest(n, q) ==
    n \in Current /\ n.seq = q.seq /\ n.done = q.done /\ n.bodyDone = q.bodyDone /\ n.reading = q.reading
    /\ n.gone = q.gone /\ n.responded = q.responded

\* They leave the rest of the request as it is.
LEMMA NegotiatedIs ==
    ASSUME NEW q \in Current, NEW a \in BOOLEAN, NEW b \in BOOLEAN, NEW d \in BOOLEAN
    PROVE  SameRequest(Negotiated(q, a, b, d), q) /\ Negotiated(q, a, b, d).switch = b
<1>1. PICK n : n = [q EXCEPT !.keep = a, !.switch = b, !.negotiated = TRUE, !.wanted = d]
  OBVIOUS
<1>2. /\ n \in Current /\ n.seq = q.seq /\ n.done = q.done /\ n.bodyDone = q.bodyDone
      /\ n.reading = q.reading /\ n.gone = q.gone /\ n.switch = b /\ n.responded = q.responded
  BY <1>1 DEF Current
<1> QED BY <1>1, <1>2, ZenonT(60) DEF Negotiated, SameRequest

\* respond_head, and the head that follows: the response is claimed, and the read for the
\* mid-message window parked.
LEMMA RespondHeadCore == ASSUME CoreInv, NEW r \in Reqs, RespondHead(r) PROVE CoreInv'
<1> USE Requests
<1>1. /\ UNCHANGED <<net, sock, evt, wire, used, scene, kind, at, sent, fin, serve, body, peer>>
      /\ hd[r].pc \in {"start", "again"}
  BY DEF RespondHead, hdFrame
<1>2. /\ hd \in Handlers /\ wire' \in Seq(Items) /\ ModeOK(r) /\ Working(r) /\ r = me.cur.seq
      /\ ~me.cur.negotiated
  BY <1>1 DEF CoreInv, Typed, ClientTyped, ServeOK, Working
<1> DEFINE claimed == [me EXCEPT !.cur.responded = TRUE, !.cur.pending = FALSE]
           modes == {"bytes", "async", "push", "error"}
<1>3. PICK mode :
        /\ mode \in IF hd[r].pc = "again" THEN {hd[r].mode} ELSE scene.modes \ {"detach"}
        /\ \/ /\ me' = [claimed EXCEPT !.cur.pending = TRUE]
              /\ hd' = [hd EXCEPT ![r] = [pc |-> "cont", mode |-> mode]] /\ UNCHANGED <<dec, wt>>
           \/ /\ me' = claimed
              /\ hd' = [hd EXCEPT ![r] = [pc |-> IF me.cur.gone THEN "fail" ELSE "userError", mode |-> mode]]
              /\ UNCHANGED <<dec, wt>>
           \/ /\ mode # "error"
              /\ \E keep \in BOOLEAN, switch \in {FALSE} \cup {b \in {TRUE} : kind[r] = "upgrade"} :
                   LET m == [claimed EXCEPT !.cur.keep = keep /\ ~me.shutdown, !.cur.switch = switch,
                                            !.cur.negotiated = TRUE,
                                            !.cur.wanted = @ \/ mode = "push"]
                   IN  /\ Arm(m)
                       /\ hd' = [hd EXCEPT ![r] = [pc |-> IfToStore(m, "store", IF me.open THEN "head" ELSE "fail"),
                                                   mode |-> mode]]
  BY DEF RespondHead
<1>4. mode \in modes
  <2>1. scene.modes \in SUBSET {"bytes", "async", "push", "error", "detach"}
    BY H1ServerConstants DEF CoreInv, Typed, ClientTyped
  <2>2. hd[r].pc = "again" => hd[r].mode \in modes
    BY <1>2 DEF ModeOK, Handlers
  <2> QED BY <1>3, <2>1, <2>2
<1>5. ASSUME NEW p \in {"cont", "fail", "userError", "store", "head"}, p \in {"store", "head"} => mode # "error",
             hd' = [hd EXCEPT ![r] = [pc |-> p, mode |-> mode]]
      PROVE  /\ hd' \in Handlers /\ hd'[r].pc = p /\ ModeOK(r)'
             /\ \A s \in Reqs \ {r} : hd'[s] = hd[s]
  <2> DEFINE x == [pc |-> p, mode |-> mode]
  <2>1. x \in [pc : HandlerPlaces, mode : {"none", "bytes", "async", "push", "error"}] /\ x.pc = p /\ x.mode = mode
    BY <1>4, <1>5 DEF HandlerPlaces
  <2>2. hd' = [hd EXCEPT ![r] = x]
    BY <1>5
  <2> HIDE DEF x
  <2>3. hd' \in Handlers /\ hd'[r] = x /\ \A s \in Reqs \ {r} : hd'[s] = hd[s]
    BY <1>2, <2>1, <2>2 DEF Handlers
  <2> QED BY <1>4, <1>5, <2>1, <2>3 DEF ModeOK
<1>9. /\ claimed \in Locked /\ claimed.open = me.open /\ claimed.closed = me.closed
      /\ claimed.reusable = me.reusable /\ claimed.buf = me.buf /\ claimed.w = me.w
      /\ claimed.cur \in Current
      /\ claimed.cur.seq = me.cur.seq /\ claimed.cur.done = me.cur.done
      /\ claimed.cur.bodyDone = me.cur.bodyDone /\ claimed.cur.reading = me.cur.reading
      /\ claimed.cur.negotiated = me.cur.negotiated /\ claimed.cur.switch = me.cur.switch
  BY DEF Locked, Current
<1> HIDE DEF claimed
<1>6. CASE /\ \/ me' = [claimed EXCEPT !.cur.pending = TRUE]
              \/ me' = claimed
           /\ \E p \in {"cont", "fail", "userError"} : hd' = [hd EXCEPT ![r] = [pc |-> p, mode |-> mode]]
           /\ UNCHANGED <<dec, wt>>
  <2>1. Kept
    <3>1. CASE me' = claimed
      BY <1>9, <3>1 DEF Kept
    <3>2. CASE me' = [claimed EXCEPT !.cur.pending = TRUE]
      <4>1. /\ me' \in Locked /\ me'.open = claimed.open /\ me'.closed = claimed.closed
            /\ me'.reusable = claimed.reusable /\ me'.buf = claimed.buf /\ me'.w = claimed.w
            /\ me'.cur.seq = claimed.cur.seq /\ me'.cur.done = claimed.cur.done
            /\ me'.cur.bodyDone = claimed.cur.bodyDone /\ me'.cur.reading = claimed.cur.reading
            /\ me'.cur.negotiated = claimed.cur.negotiated /\ me'.cur.switch = claimed.cur.switch
        BY <1>9, <3>2 DEF Locked, Current
      <4> QED BY <1>9, <4>1 DEF Kept
    <3> QED BY <1>6, <3>1, <3>2
  <2>2. /\ hd' \in Handlers /\ hd'[r].pc \in {"cont", "fail", "userError"} /\ ModeOK(r)'
        /\ \A s \in Reqs \ {r} : hd'[s] = hd[s]
    BY <1>5, <1>6
  <2> QED BY <1>1, <1>2, <1>6, <2>1, <2>2, HandlerStepCore
<1>7. ASSUME NEW keep \in BOOLEAN, NEW switch \in BOOLEAN, switch => kind[r] = "upgrade", NEW m,
             m = [claimed EXCEPT !.cur.keep = keep /\ ~me.shutdown, !.cur.switch = switch,
                                 !.cur.negotiated = TRUE, !.cur.wanted = @ \/ mode = "push"],
             Arm(m), mode # "error", NEW p \in {"store", "head", "fail"},
             hd' = [hd EXCEPT ![r] = [pc |-> p, mode |-> mode]]
      PROVE  CoreInv'
  <2>1. /\ m \in Locked /\ m.open = me.open /\ m.closed = me.closed /\ m.reusable = me.reusable
        /\ m.w = me.w /\ m.buf = me.buf
        /\ m.cur.seq = me.cur.seq /\ m.cur.done = me.cur.done /\ m.cur.bodyDone = me.cur.bodyDone
        /\ m.cur.reading = me.cur.reading /\ m.cur.switch = switch
    <3>0. PICK k \in BOOLEAN, w \in BOOLEAN :
            k = (keep /\ ~me.shutdown) /\ w = (claimed.cur.wanted \/ mode = "push")
      OBVIOUS
    <3>1. PICK q \in Current : q = claimed.cur
      BY <1>9
    <3>5. PICK c : c = Negotiated(q, k, switch, w)
      OBVIOUS
    <3>2. m = [claimed EXCEPT !.cur = c]
      BY <1>7, <1>9, <3>0, <3>1, <3>5 DEF Locked, Current, Negotiated
    <3>3. /\ c \in Current /\ c.seq = claimed.cur.seq /\ c.done = claimed.cur.done
          /\ c.bodyDone = claimed.cur.bodyDone /\ c.reading = claimed.cur.reading /\ c.switch = switch
      <4>1. SameRequest(c, q) /\ c.switch = switch
        BY <3>5, NegotiatedIs
      <4>2. c \in Current /\ c.seq = q.seq /\ c.done = q.done /\ c.bodyDone = q.bodyDone /\ c.reading = q.reading
        BY <4>1 DEF SameRequest
      <4> QED BY <3>1, <4>1, <4>2
    <3>4. /\ m \in Locked /\ m.open = claimed.open /\ m.closed = claimed.closed
          /\ m.reusable = claimed.reusable /\ m.w = claimed.w /\ m.buf = claimed.buf /\ m.cur = c
      BY <1>9, <3>2, <3>3 DEF Locked
    <3> QED BY <1>9, <3>3, <3>4
  <2>2. /\ hd' \in Handlers /\ hd'[r].pc = p /\ ModeOK(r)'
        /\ \A s \in Reqs \ {r} : hd'[s] = hd[s]
    BY <1>5, <1>7
  <2>3. body' \in Bodies /\ peer' \in [Reqs -> {"off", "store", "join", "wait", "over"}]
    BY <1>1 DEF CoreInv, Typed
  <2>4. \A s \in Reqs :
          /\ Working(s)' <=> Working(s)
          /\ ModeOK(s)'
          /\ hd'[s].pc = "over" <=> hd[s].pc = "over"
          /\ hd'[s].pc = "off" <=> hd[s].pc = "off"
          /\ hd'[s].pc \notin {"start", "cont", "again"}
    <3>1. \A s \in Reqs : ModeOK(s) /\ (Working(s) => s = r)
      BY <1>2 DEF CoreInv, ServeOK
    <3>2. \A s \in Reqs \ {r} : ModeOK(s)' /\ ~Working(s)
      BY <2>2, <3>1 DEF ModeOK
    <3> QED BY <1>2, <1>7, <2>2, <3>2 DEF Working
  <2>5. \A s \in Reqs :
          /\ me.open /\ body[s].pc = "reading" =>
               s = me.cur.seq /\ me.cur.reading /\ ~me.cur.bodyDone /\ serve.pc \in Ending \cup {"serving"}
          /\ ~HasBody(s) => body[s].pc \in {"off", "over"}
          /\ "late" \notin scene.env /\ body[s].pc \notin {"off", "over"} => Working(s)
    BY DEF CoreInv, BodyOK
  <2>6. /\ me.open /\ serve.pc \in Draining => me.cur.reading \/ me.cur.bodyDone
        /\ me.open /\ me.cur.bodyDone /\ (Watching \/ ~me.cur.done) => BodyOver(me.cur.seq)
        /\ ~(me.open /\ Watching /\ kind[me.cur.seq] = "upgrade")
    BY <1>2 DEF CoreInv, BodyOK, WatchOK
  <2>7. me.open /\ m.cur.bodyDone /\ (Watching \/ ~me.cur.done) =>
          \/ body'[me.cur.seq].pc \in {"store", "join", "over"}
          \/ (body'[me.cur.seq].pc = "off" /\ dec[me.cur.seq].complete)
    BY <1>1, <2>1, <2>6 DEF BodyOver
  <2>8. \A s \in Reqs :
          /\ me.open /\ body'[s].pc = "reading" =>
               s = me.cur.seq /\ m.cur.reading /\ ~m.cur.bodyDone /\ serve.pc \in Ending \cup {"serving"}
          /\ ~HasBody(s) => body'[s].pc \in {"off", "over"}
          /\ "late" \notin scene.env /\ body'[s].pc \notin {"off", "over"} => Working(s)
    BY <1>1, <2>1, <2>5
  <2>9. \A s \in Reqs :
          /\ Working(s)' <=> Working(s)
          /\ ModeOK(s)'
          /\ hd'[s].pc = "over" <=> hd[s].pc = "over"
          /\ hd'[s].pc = "off" <=> hd[s].pc = "off"
          /\ hd'[s].pc \in {"start", "cont", "again"} => ~m.cur.negotiated
          /\ me.open /\ body'[s].pc = "reading" =>
               s = me.cur.seq /\ m.cur.reading /\ ~m.cur.bodyDone
               /\ serve.pc \in Ending \cup {"serving"}
          /\ ~HasBody(s) => body'[s].pc \in {"off", "over"}
          /\ "late" \notin scene.env /\ body'[s].pc \notin {"off", "over"} => Working(s)
    BY <2>4, <2>8
  <2>10. /\ me.open /\ serve.pc \in Draining => m.cur.reading \/ m.cur.bodyDone
         /\ m.cur.switch => kind[me.cur.seq] = "upgrade"
    BY <1>2, <1>7, <2>1, <2>6
  <2>11. Arm(m)
    BY <1>7
  <2> QED BY <1>1, <2>1, <2>2, <2>3, <2>6, <2>7, <2>9, <2>10, <2>11, ArmCore
<1>8. CASE /\ mode # "error"
           /\ \E keep \in BOOLEAN, switch \in {FALSE} \cup {b \in {TRUE} : kind[r] = "upgrade"} :
                LET m == [claimed EXCEPT !.cur.keep = keep /\ ~me.shutdown, !.cur.switch = switch,
                                         !.cur.negotiated = TRUE,
                                         !.cur.wanted = @ \/ mode = "push"]
                IN  /\ Arm(m)
                    /\ hd' = [hd EXCEPT ![r] = [pc |-> IfToStore(m, "store", IF me.open THEN "head" ELSE "fail"),
                                                mode |-> mode]]
  <2>1. PICK keep \in BOOLEAN, switch \in {FALSE} \cup {b \in {TRUE} : kind[r] = "upgrade"} :
          LET m == [claimed EXCEPT !.cur.keep = keep /\ ~me.shutdown, !.cur.switch = switch,
                                   !.cur.negotiated = TRUE,
                                   !.cur.wanted = @ \/ mode = "push"]
          IN  /\ Arm(m)
              /\ hd' = [hd EXCEPT ![r] = [pc |-> IfToStore(m, "store", IF me.open THEN "head" ELSE "fail"),
                                          mode |-> mode]]
    BY <1>8
  <2> DEFINE m == [claimed EXCEPT !.cur.keep = keep /\ ~me.shutdown, !.cur.switch = switch,
                                  !.cur.negotiated = TRUE,
                                  !.cur.wanted = @ \/ mode = "push"]
             p == IfToStore(m, "store", IF me.open THEN "head" ELSE "fail")
  <2>2. switch \in BOOLEAN /\ (switch => kind[r] = "upgrade")
    BY <2>1
  <2>3. p \in {"store", "head", "fail"}
    BY DEF IfToStore
  <2>4. Arm(m) /\ hd' = [hd EXCEPT ![r] = [pc |-> p, mode |-> mode]]
    BY <2>1
  <2>5. m = [claimed EXCEPT !.cur.keep = keep /\ ~me.shutdown, !.cur.switch = switch,
                           !.cur.negotiated = TRUE,
                           !.cur.wanted = @ \/ mode = "push"]
    OBVIOUS
  <2> HIDE DEF p, m
  <2> QED BY <1>7, <1>8, <2>2, <2>3, <2>4, <2>5
<1> QED BY <1>3, <1>6, <1>8

\* The application asks to be told when the client is gone.
LEMMA WantedCore ==
    ASSUME CoreInv, NEW m, m = [me EXCEPT !.cur.wanted = TRUE], Arm(m), hd' \in Handlers,
           peer' \in [Reqs -> {"off", "store", "join", "wait", "over"}],
           \A s \in Reqs :
             /\ Working(s)' <=> Working(s)
             /\ ModeOK(s)'
             /\ hd'[s].pc = "over" <=> hd[s].pc = "over"
             /\ hd'[s].pc = "off" <=> hd[s].pc = "off"
             /\ hd'[s].pc \in {"start", "cont", "again"} => hd[s].pc \in {"start", "cont", "again"},
           UNCHANGED <<scene, kind, at, sent, fin, net, sock, serve, body, evt, wire, used>>
    PROVE  CoreInv'
<1> USE Requests
<1>1. /\ m \in Locked /\ m.open = me.open /\ m.closed = me.closed /\ m.reusable = me.reusable
      /\ m.w = me.w /\ m.buf = me.buf
      /\ m.cur.seq = me.cur.seq /\ m.cur.done = me.cur.done /\ m.cur.bodyDone = me.cur.bodyDone
      /\ m.cur.reading = me.cur.reading /\ m.cur.negotiated = me.cur.negotiated
      /\ m.cur.switch = me.cur.switch
  BY DEF Locked, Current
<1>2. body' \in Bodies
  BY DEF CoreInv, Typed
<1>3. \A s \in Reqs :
        /\ hd[s].pc \in {"start", "cont", "again"} => ~me.cur.negotiated
        /\ me.open /\ body[s].pc = "reading" =>
             s = me.cur.seq /\ me.cur.reading /\ ~me.cur.bodyDone /\ serve.pc \in Ending \cup {"serving"}
        /\ ~HasBody(s) => body[s].pc \in {"off", "over"}
        /\ "late" \notin scene.env /\ body[s].pc \notin {"off", "over"} => Working(s)
  BY DEF CoreInv, BodyOK, ServeOK
<1>4. /\ me.open /\ serve.pc \in Draining => me.cur.reading \/ me.cur.bodyDone
      /\ me.open /\ me.cur.bodyDone /\ (Watching \/ ~me.cur.done) => BodyOver(me.cur.seq)
      /\ me.open /\ Watching /\ kind[me.cur.seq] = "upgrade" => me.cur.negotiated /\ ~me.cur.switch
      /\ me.cur.switch => kind[me.cur.seq] = "upgrade"
  BY DEF CoreInv, BodyOK, WatchOK
<1>5. /\ me.open /\ serve.pc \in Draining => m.cur.reading \/ m.cur.bodyDone
      /\ me.open /\ m.cur.bodyDone /\ (Watching \/ ~me.cur.done) =>
           \/ body'[me.cur.seq].pc \in {"store", "join", "over"}
           \/ (body'[me.cur.seq].pc = "off" /\ dec[me.cur.seq].complete)
      /\ me.open /\ Watching /\ kind[me.cur.seq] = "upgrade" => m.cur.negotiated /\ ~m.cur.switch
      /\ m.cur.switch => kind[me.cur.seq] = "upgrade"
  BY <1>1, <1>4 DEF BodyOver
<1>6. \A s \in Reqs :
        /\ Working(s)' <=> Working(s)
        /\ ModeOK(s)'
        /\ hd'[s].pc = "over" <=> hd[s].pc = "over"
        /\ hd'[s].pc = "off" <=> hd[s].pc = "off"
        /\ hd'[s].pc \in {"start", "cont", "again"} => ~m.cur.negotiated
        /\ me.open /\ body'[s].pc = "reading" =>
             s = me.cur.seq /\ m.cur.reading /\ ~m.cur.bodyDone
             /\ serve.pc \in Ending \cup {"serving"}
        /\ ~HasBody(s) => body'[s].pc \in {"off", "over"}
        /\ "late" \notin scene.env /\ body'[s].pc \notin {"off", "over"} => Working(s)
  BY <1>1, <1>3
<1> QED BY <1>1, <1>2, <1>5, <1>6, ArmCore, ZenonT(60)

\* _send_async_body parks a read.
LEMMA ArmForBodyCore == ASSUME CoreInv, NEW r \in Reqs, ArmForBody(r) PROVE CoreInv'
<1> DEFINE m == [me EXCEPT !.cur.wanted = TRUE]
<1>1. PICK p \in {"storeBody", "stream"} : Arm(m) /\ hd' = [hd EXCEPT ![r].pc = p]
  BY DEF ArmForBody, IfToStore, HdGoes
<1>2. /\ UNCHANGED <<scene, kind, at, sent, fin, net, sock, serve, body, peer, evt, wire, used>>
      /\ hd[r].pc = "arm" /\ hd \in Handlers /\ p \in HandlerPlaces
      /\ peer' \in [Reqs -> {"off", "store", "join", "wait", "over"}]
  BY DEF ArmForBody, hdFrame, HandlerPlaces, CoreInv, Typed
<1>3. hd' \in Handlers /\ hd'[r].pc = p /\ \A s \in Reqs \ {r} : hd'[s] = hd[s]
  BY <1>1, <1>2, HandlerMoves
<1>4. \A s \in Reqs : ModeOK(s)
  BY DEF CoreInv, ServeOK
<1>5. \A s \in Reqs :
        /\ Working(s)' <=> Working(s)
        /\ ModeOK(s)'
        /\ hd'[s].pc = "over" <=> hd[s].pc = "over"
        /\ hd'[s].pc = "off" <=> hd[s].pc = "off"
        /\ hd'[s].pc \in {"start", "cont", "again"} => hd[s].pc \in {"start", "cont", "again"}
  BY <1>2, <1>3, <1>4 DEF Working, ModeOK
<1> QED BY <1>1, <1>2, <1>3, <1>5, WantedCore

\* The bytes that a tunnel takes over.
LEMMA TakenOver ==
    ASSUME CoreInv
    PROVE  /\ used \o me.buf \o Leftover(me) \in Seq(ReqItem)
           /\ used \o me.buf \o Leftover(me) \o me.w.data \in Seq(ReqItem)
<1>1. used \in Seq(ReqItem) /\ me.buf \in Seq(ReqItem) /\ Leftover(me) \in Seq(ReqItem) /\ me.w.data \in Seq(ReqItem)
  BY LeftoverIs, Requests DEF CoreInv, Typed, Locked, Watch
<1>2. used \o me.buf \in Seq(ReqItem)
  BY <1>1, ConcatProperties
<1>3. used \o me.buf \o Leftover(me) \in Seq(ReqItem)
  BY <1>1, <1>2, ConcatProperties
<1> QED BY <1>1, <1>3, ConcatProperties

\* finish_response ends the request and keeps the connection only if both sides agreed to.
Finished == [me EXCEPT !.cur.done = TRUE, !.reusable = @ /\ me.cur.keep]

\* It leaves the rest of the locked state as it is.
LEMMA FinishedIs ==
    ASSUME CoreInv
    PROVE  /\ Finished \in Locked /\ Finished.open = me.open /\ Finished.closed = me.closed
           /\ ~me.reusable => ~Finished.reusable
           /\ Finished.buf = me.buf /\ Finished.w = me.w
           /\ Finished.cur.seq = me.cur.seq /\ Finished.cur.done
           /\ Finished.cur.bodyDone = me.cur.bodyDone /\ Finished.cur.reading = me.cur.reading
           /\ Finished.cur.negotiated = me.cur.negotiated
           /\ Finished.cur.switch = me.cur.switch /\ Finished.cur.gone = me.cur.gone
<1> USE Requests
<1>1. PICK b \in BOOLEAN : b = (me.reusable /\ me.cur.keep)
  OBVIOUS
<1>2. Finished = [me EXCEPT !.cur.done = TRUE, !.reusable = b]
  BY <1>1 DEF Finished
<1> QED BY <1>1, <1>2, ZenonT(60) DEF Locked, Current

\* finish_response: the tunnel is handed over, the connection goes on, or it is closed.
LEMMA FinishResponseCore == ASSUME CoreInv, NEW r \in Reqs, FinishResponse(r) PROVE CoreInv'
<1> USE Requests
<1> DEFINE n == [me EXCEPT !.cur.done = TRUE, !.reusable = @ /\ me.cur.keep]
<1>1. /\ hd[r].pc = "finish" /\ ReaderDone(r) /\ evt' = [evt EXCEPT ![r] = TRUE]
      /\ hd' = [hd EXCEPT ![r].pc = "over"]
      /\ UNCHANGED <<scene, kind, at, sent, fin, serve, body, peer, net, wt, wire>>
  BY DEF FinishResponse, HdGoes, hdFrame
<1>2. Working(r) /\ r = me.cur.seq
  BY <1>1 DEF Working, CoreInv, ServeOK
<1>3. /\ n \in Locked /\ n.open = me.open /\ n.closed = me.closed /\ (~me.reusable => ~n.reusable)
      /\ n.buf = me.buf /\ n.w = me.w
      /\ n.cur.seq = me.cur.seq /\ n.cur.done /\ n.cur.bodyDone = me.cur.bodyDone
      /\ n.cur.reading = me.cur.reading /\ n.cur.negotiated = me.cur.negotiated
      /\ n.cur.switch = me.cur.switch
  BY FinishedIs DEF Finished
<1>4. \/ /\ me.cur.switch
         /\ me' = [CloseNow(n) EXCEPT !.upgraded = TRUE, !.buf = <<>>]
         /\ used' = used \o me.buf \o Leftover(me) /\ dec' = LeftoverTaken(me)
         /\ Ends("caller")
      \/ me' = n /\ UNCHANGED <<sock, dec, used>>
      \/ me' = CloseNow(n) /\ Ends("orderly") /\ UNCHANGED <<dec, used>>
  BY DEF FinishResponse
<1> HIDE DEF n
<1>5. used \in Seq(ReqItem) /\ dec \in Decoders /\ sock \in Sockets
  BY DEF CoreInv, Typed
<1>6. CASE /\ me.cur.switch
           /\ me' = [CloseNow(n) EXCEPT !.upgraded = TRUE, !.buf = <<>>]
           /\ used' = used \o me.buf \o Leftover(me) /\ dec' = LeftoverTaken(me)
           /\ Ends("caller")
  <2>1. used' \in Seq(ReqItem) /\ dec' \in Decoders /\ \A s \in Reqs : dec'[s].complete = dec[s].complete
    BY <1>6, TakenOver, LeftoverIs DEF CoreInv
  <2>2. /\ me' \in Locked /\ ~me'.open /\ me'.closed /\ ~me'.reusable
        /\ me'.cur = n.cur /\ me'.w = n.w
    <3> DEFINE z == CloseNow(n)
    <3>1. z \in Locked /\ ~z.open /\ z.closed /\ ~z.reusable /\ z.cur = n.cur /\ z.w = n.w
      BY <1>3, CloseNowIs
    <3>2. me' = [z EXCEPT !.upgraded = TRUE, !.buf = <<>>]
      BY <1>6
    <3> HIDE DEF z
    <3> QED BY <3>1, <3>2, EmptySeq DEF Locked
  <2>3. sock' \in Sockets /\ sock' # "open" /\ (sock' = "caller" => sock = "caller" \/ ~Watching)
    <3>1. me.open => ~Watching
      BY <1>6 DEF CoreInv, WatchOK
    <3> QED BY <1>5, <1>6, <3>1 DEF Ends, Sockets, CoreInv, SocketOK
  <2> QED BY <1>1, <1>2, <1>3, <2>1, <2>2, <2>3, ResponseEndsCore
<1>7. CASE me' = n /\ UNCHANGED <<sock, dec, used>>
  BY <1>1, <1>2, <1>3, <1>5, <1>7, ResponseEndsCore
<1>8. CASE me' = CloseNow(n) /\ Ends("orderly") /\ UNCHANGED <<dec, used>>
  <2>1. /\ me' \in Locked /\ ~me'.open /\ me'.closed /\ ~me'.reusable
        /\ me'.cur = n.cur /\ me'.w = n.w
    BY <1>3, <1>8, CloseNowIs
  <2>2. sock' \in Sockets /\ sock' # "open" /\ (sock' = "caller" => sock = "caller" \/ ~Watching)
    BY <1>5, <1>8 DEF Ends, Sockets, CoreInv, SocketOK
  <2> QED BY <1>1, <1>2, <1>3, <1>5, <1>8, <2>1, <2>2, ResponseEndsCore
<1> QED BY <1>4, <1>6, <1>7, <1>8

\* fail_response closes the connection.
LEMMA FailResponseCore == ASSUME CoreInv, NEW r \in Reqs, FailResponse(r) PROVE CoreInv'
<1> USE Requests
<1> DEFINE n == [me EXCEPT !.cur.done = TRUE]
<1>1. /\ hd[r].pc \in {"fail", "userError"} /\ ReaderDone(r) /\ evt' = [evt EXCEPT ![r] = TRUE]
      /\ hd' = [hd EXCEPT ![r].pc = "over"] /\ me' = CloseNow(n)
      /\ UNCHANGED <<scene, kind, at, sent, fin, serve, body, peer, net, dec, wt, wire, used>>
  BY DEF FailResponse, HdGoes, hdFrame
<1>2. Working(r)
  BY <1>1 DEF Working
<1>3. /\ n \in Locked /\ n.w = me.w
      /\ n.cur.seq = me.cur.seq /\ n.cur.done /\ n.cur.bodyDone = me.cur.bodyDone
      /\ n.cur.reading = me.cur.reading /\ n.cur.negotiated = me.cur.negotiated
      /\ n.cur.switch = me.cur.switch
  BY DEF Locked, Current
<1> HIDE DEF n
<1>4. used' \in Seq(ReqItem) /\ dec' \in Decoders /\ sock \in Sockets
  BY <1>1 DEF CoreInv, Typed
<1>5. /\ me' \in Locked /\ ~me'.open /\ me'.closed /\ ~me'.reusable
      /\ me'.cur = n.cur /\ me'.w = n.w
  BY <1>1, <1>3, CloseNowIs
<1>6. sock' \in Sockets /\ sock' # "open" /\ (sock' = "caller" => sock = "caller" \/ ~Watching)
  BY <1>4 DEF FailResponse, Ends, Sockets, CoreInv, SocketOK
<1> QED BY <1>1, <1>2, <1>3, <1>4, <1>5, <1>6, ResponseEndsCore

\* detach hands the transport to the caller; it is refused while a read is parked.
LEMMA DetachCore == ASSUME CoreInv, NEW r \in Reqs, Detach(r) PROVE CoreInv'
<1> USE Requests
<1>1. /\ hd[r].pc = "start" /\ ReaderDone(r) /\ evt' = [evt EXCEPT ![r] = TRUE]
      /\ hd' = [hd EXCEPT ![r].pc = "over"] /\ ~Watching
      /\ me' = [CloseNow(me) EXCEPT !.upgraded = TRUE, !.buf = <<>>, !.w.data = <<>>,
                                    !.cur.responded = TRUE, !.cur.done = TRUE]
      /\ used' = used \o me.buf \o Leftover(me) \o me.w.data /\ dec' = LeftoverTaken(me)
      /\ Ends("caller")
      /\ UNCHANGED <<scene, kind, at, sent, fin, serve, body, peer, net, wt, wire>>
  BY DEF Detach, HdGoes, hdFrame, Watching
<1>2. Working(r)
  BY <1>1 DEF Working
<1>3. used' \in Seq(ReqItem) /\ dec' \in Decoders /\ \A s \in Reqs : dec'[s].complete = dec[s].complete
  BY <1>1, TakenOver, LeftoverIs DEF CoreInv
<1> DEFINE z == CloseNow(me)
<1>4. z \in Locked /\ ~z.open /\ z.closed /\ ~z.reusable /\ z.cur = me.cur /\ z.w = me.w
  BY CloseNowIs
<1>5. me' = [z EXCEPT !.upgraded = TRUE, !.buf = <<>>, !.w.data = <<>>,
                      !.cur.responded = TRUE, !.cur.done = TRUE]
  BY <1>1
<1> HIDE DEF z
<1>6. /\ me' \in Locked /\ ~me'.open /\ me'.closed /\ ~me'.reusable
      /\ me'.w.slot = me.w.slot /\ me'.w.on = me.w.on /\ me'.w.completed = me.w.completed
      /\ me'.cur.seq = me.cur.seq /\ me'.cur.done /\ me'.cur.bodyDone = me.cur.bodyDone
      /\ me'.cur.reading = me.cur.reading /\ me'.cur.negotiated = me.cur.negotiated
      /\ me'.cur.switch = me.cur.switch
  <2> DEFINE w == [z.w EXCEPT !.data = <<>>]
             c == [z.cur EXCEPT !.responded = TRUE, !.done = TRUE]
  <2>1. me' = [z EXCEPT !.upgraded = TRUE, !.buf = <<>>, !.w = w, !.cur = c]
    BY <1>4, <1>5 DEF Locked
  <2>2. w \in Watch /\ w.slot = me.w.slot /\ w.on = me.w.on /\ w.completed = me.w.completed
    BY <1>4, EmptySeq DEF Watch
  <2>3. /\ c \in Current /\ c.seq = me.cur.seq /\ c.done /\ c.bodyDone = me.cur.bodyDone
        /\ c.reading = me.cur.reading /\ c.negotiated = me.cur.negotiated /\ c.switch = me.cur.switch
    BY <1>4 DEF Current
  <2> HIDE DEF w, c
  <2>4. /\ me' \in Locked /\ me'.open = z.open /\ me'.closed = z.closed /\ me'.reusable = z.reusable
        /\ me'.w = w /\ me'.cur = c
    BY <1>4, <2>1, <2>2, <2>3, EmptySeq DEF Locked
  <2> QED BY <1>4, <2>2, <2>3, <2>4
<1>7. sock' \in Sockets /\ sock' # "open" /\ (sock' = "caller" => sock = "caller" \/ ~Watching)
  BY <1>1 DEF Ends, Sockets, CoreInv, Typed, SocketOK
<1> QED BY <1>1, <1>2, <1>3, <1>6, <1>7, ResponseEndsCore

(***************************************************************************)
(* The reader of the request body.                                          *)
(***************************************************************************)

\* The reader goes on to another place, with what it writes down on the way.
LEMMA BodyWrites ==
    ASSUME NEW r \in Reqs, NEW p \in BodyPlaces, NEW e \in {"none", "clean", "error"}, NEW g \in BOOLEAN,
           NEW d \in Seq(ReqItem), body \in Bodies,
           \/ body' = [body EXCEPT ![r].pc = p]
           \/ body' = [body EXCEPT ![r].pc = p, ![r].end = e]
           \/ body' = [body EXCEPT ![r].pc = p, ![r].got = g]
           \/ body' = [body EXCEPT ![r].pc = p, ![r].data = d]
    PROVE  body' \in Bodies /\ body'[r].pc = p /\ \A s \in Reqs \ {r} : body'[s] = body[s]
<1> DEFINE R == [pc : BodyPlaces, data : Seq(ReqItem), got : BOOLEAN, end : {"none", "clean", "error"}]
<1>1. body[r] \in R
  BY DEF Bodies
<1>2. PICK x \in R : x.pc = p /\ body' = [body EXCEPT ![r] = x]
  <2>1. CASE body' = [body EXCEPT ![r].pc = p]
    <3> DEFINE x == [body[r] EXCEPT !.pc = p]
    <3>1. x \in R /\ x.pc = p
      BY <1>1
    <3>2. body' = [body EXCEPT ![r] = x]
      BY <2>1
    <3> QED BY <3>1, <3>2
  <2>2. CASE body' = [body EXCEPT ![r].pc = p, ![r].end = e]
    <3> DEFINE x == [body[r] EXCEPT !.pc = p, !.end = e]
    <3>1. x \in R /\ x.pc = p
      BY <1>1
    <3>2. body' = [body EXCEPT ![r] = x]
      BY <1>1, <2>2 DEF Bodies
    <3> QED BY <3>1, <3>2
  <2>3. CASE body' = [body EXCEPT ![r].pc = p, ![r].got = g]
    <3> DEFINE x == [body[r] EXCEPT !.pc = p, !.got = g]
    <3>1. x \in R /\ x.pc = p
      BY <1>1
    <3>2. body' = [body EXCEPT ![r] = x]
      BY <1>1, <2>3 DEF Bodies
    <3> QED BY <3>1, <3>2
  <2>4. CASE body' = [body EXCEPT ![r].pc = p, ![r].data = d]
    <3> DEFINE x == [body[r] EXCEPT !.pc = p, !.data = d]
    <3>1. x \in R /\ x.pc = p
      BY <1>1
    <3>2. body' = [body EXCEPT ![r] = x]
      BY <1>1, <2>4 DEF Bodies
    <3> QED BY <3>1, <3>2
  <2> QED BY <2>1, <2>2, <2>3, <2>4
<1> QED BY <1>2 DEF Bodies

\* A step of the reader that is not the last of the body.
LEMMA BodyStepCore ==
    ASSUME CoreInv, NEW r \in Reqs,
           me' \in Locked, me'.open = me.open, me'.closed = me.closed, ~me.reusable => ~me'.reusable,
           me'.buf = me.buf, me'.w.slot = me.w.slot, me'.w.on = me.w.on, me'.w.completed = me.w.completed,
           me'.cur.seq = me.cur.seq, me'.cur.done = me.cur.done, me'.cur.bodyDone = me.cur.bodyDone,
           me'.cur.negotiated = me.cur.negotiated, me'.cur.switch = me.cur.switch,
           me.cur.reading /\ ~me'.cur.reading =>
             r = me.cur.seq /\ (me.open => serve.pc \notin Draining /\ body[r].pc = "reading"),
           body' \in Bodies, \A s \in Reqs \ {r} : body'[s] = body[s],
           HasBody(r) \/ body'[r].pc \in {"off", "over"},
           "late" \notin scene.env /\ body'[r].pc \notin {"off", "over"} => Working(r),
           me.open /\ body'[r].pc = "reading" =>
             r = me.cur.seq /\ me'.cur.reading /\ ~me.cur.bodyDone /\ serve.pc \in Ending \cup {"serving"},
           BodyOver(r) => (body'[r].pc \in {"store", "join", "over"}),
           dec' \in Decoders, \A s \in Reqs \ {r} : dec'[s] = dec[s],
           dec[r].complete => dec'[r].complete,
           dec' = dec \/ ~BodyOver(r),
           net' \in Seq(ReqItem), used' \in Seq(ReqItem), wire' \in Seq(Items),
           UNCHANGED <<scene, kind, at, sent, fin, sock, serve, hd, peer, evt, wt>>
    PROVE  CoreInv'
<1> USE Requests
<1>1. /\ hd' \in Handlers /\ wt' \in Watchers
      /\ peer' \in [Reqs -> {"off", "store", "join", "wait", "over"}] /\ evt' \in [Reqs -> BOOLEAN]
  BY DEF CoreInv, Typed
<1>2. \A s \in Reqs :
        /\ ModeOK(s) /\ (hd[s].pc \in {"start", "cont", "again"} => ~me.cur.negotiated)
        /\ me.open /\ body[s].pc = "reading" =>
             s = me.cur.seq /\ me.cur.reading /\ ~me.cur.bodyDone /\ serve.pc \in Ending \cup {"serving"}
        /\ ~HasBody(s) => body[s].pc \in {"off", "over"}
        /\ "late" \notin scene.env /\ body[s].pc \notin {"off", "over"} => Working(s)
  BY DEF CoreInv, BodyOK, ServeOK
<1>3. \A s \in Reqs :
        /\ ModeOK(s)'
        /\ Working(s)' <=> Working(s)
        /\ Active(s)' <=> Active(s)
        /\ BodyOver(s) => (BodyOver(s))'
  BY <1>2 DEF ModeOK, Working, Active, BodyOver
<1>4. me.open /\ Watching =>
        /\ me.buf = <<>> /\ dec[me.cur.seq].buf = <<>> /\ BodyOver(me.cur.seq)
        /\ kind[me.cur.seq] = "upgrade" => me.cur.negotiated /\ ~me.cur.switch
  BY DEF CoreInv, WatchOK
<1>5. me.open /\ Watching =>
        /\ me'.buf = <<>> /\ dec'[me.cur.seq].buf = <<>>
        /\ kind[me.cur.seq] = "upgrade" => me'.cur.negotiated /\ ~me'.cur.switch
  BY <1>4
<1>6. /\ me.open /\ serve.pc \in Draining => me.cur.reading \/ me.cur.bodyDone
      /\ me.open /\ me.cur.bodyDone /\ (Watching \/ ~me.cur.done) => BodyOver(me.cur.seq)
      /\ me.cur.switch => kind[me.cur.seq] = "upgrade"
      /\ me.cur.seq = None => me.cur.done
  BY DEF CoreInv, BodyOK, WatchOK, ServeOK
<1>7. me.open /\ me'.cur.bodyDone /\ (Watching \/ ~me.cur.done) => (BodyOver(me.cur.seq))'
  BY <1>3, <1>6
<1>8. me.open /\ serve.pc \in Draining => me'.cur.reading \/ me'.cur.bodyDone
  BY <1>6
<1>9. \A s \in Reqs :
        /\ Active(s)' <=> Active(s)
        /\ dec[s].complete => dec'[s].complete
        /\ Working(s)' <=> Working(s)
        /\ ModeOK(s)'
        /\ hd'[s].pc = "over" <=> hd[s].pc = "over"
        /\ hd'[s].pc = "off" <=> hd[s].pc = "off"
        /\ hd'[s].pc \in {"start", "cont", "again"} => ~me'.cur.negotiated
        /\ me.open /\ body'[s].pc = "reading" =>
             s = me.cur.seq /\ me'.cur.reading /\ ~me'.cur.bodyDone
             /\ serve.pc \in Ending \cup {"serving"}
        /\ ~HasBody(s) => body'[s].pc \in {"off", "over"}
        /\ "late" \notin scene.env /\ body'[s].pc \notin {"off", "over"} => Working(s)
  BY <1>2, <1>3
<1> QED BY <1>1, <1>5, <1>6, <1>7, <1>8, <1>9, StepCore

\* What is in the way of a reader at work.
LEMMA AtWork ==
    ASSUME CoreInv, NEW r \in Reqs, body[r].pc \notin {"off", "over"}
    PROVE  HasBody(r) /\ ("late" \notin scene.env => Working(r))
BY DEF CoreInv, BodyOK

\* The decoder of a request takes another buffer.
LEMMA DecoderSets ==
    ASSUME dec \in Decoders, NEW r \in Reqs, NEW b \in Seq(ReqItem), NEW c \in BOOLEAN,
           \/ dec' = [dec EXCEPT ![r] = [buf |-> b, complete |-> c]]
           \/ dec' = [dec EXCEPT ![r].buf = b] /\ c = dec[r].complete
    PROVE  dec' \in Decoders /\ dec'[r].complete = c /\ dec'[r].buf = b /\ \A s \in Reqs \ {r} : dec'[s] = dec[s]
BY DEF Decoders

\* The reader asks for a 100 Continue, or begins without.
LEMMA ReadBodyCore == ASSUME CoreInv, NEW r \in Reqs, ReadBody(r) PROVE CoreInv'
<1> USE Requests
<1>1. /\ UNCHANGED <<net, sock, dec, wt, wire, used, scene, kind, at, sent, fin, serve, hd, peer, evt>>
      /\ body[r].pc = "off" /\ hd[r].pc # "off" /\ ("late" \in scene.env \/ Working(r))
  BY DEF ReadBody, bodyFrame, Working
<1>2. /\ body \in Bodies /\ dec' \in Decoders /\ <<>> \in Seq(ReqItem) /\ FALSE \in BOOLEAN
      /\ net' \in Seq(ReqItem) /\ used' \in Seq(ReqItem) /\ wire' \in Seq(Items)
  BY <1>1, EmptySeq DEF CoreInv, Typed, ClientTyped
<1>3. CASE /\ dec[r].complete
           /\ body' = [body EXCEPT ![r].pc = "over", ![r].end = "clean"] /\ UNCHANGED me
  <2>1. body' \in Bodies /\ body'[r].pc = "over" /\ \A s \in Reqs \ {r} : body'[s] = body[s]
    BY <1>2, <1>3, BodyWrites DEF BodyPlaces
  <2> QED BY <1>1, <1>2, <1>3, <2>1, BodyStepCore
<1>4. ASSUME ~dec[r].complete, NEW p \in {"100", "loop"}, body' = [body EXCEPT ![r].pc = p],
             UNCHANGED me \/ me' = [me EXCEPT !.cur.cont = TRUE]
      PROVE  CoreInv'
  <2>1. body' \in Bodies /\ body'[r].pc = p /\ \A s \in Reqs \ {r} : body'[s] = body[s]
    BY <1>2, <1>4, BodyMoves DEF BodyPlaces
  <2>2. /\ me' \in Locked /\ me'.open = me.open /\ me'.closed = me.closed /\ me'.reusable = me.reusable
        /\ me'.buf = me.buf /\ me'.w = me.w
        /\ me'.cur.seq = me.cur.seq /\ me'.cur.done = me.cur.done /\ me'.cur.bodyDone = me.cur.bodyDone
        /\ me'.cur.negotiated = me.cur.negotiated /\ me'.cur.switch = me.cur.switch
        /\ me'.cur.reading = me.cur.reading
    <3>1. CASE UNCHANGED me
      BY <3>1
    <3>2. CASE me' = [me EXCEPT !.cur.cont = TRUE]
      BY <3>2 DEF Locked, Current
    <3> QED BY <1>4, <3>1, <3>2
  <2>3. HasBody(r) /\ ~BodyOver(r)
    BY <1>1, <1>4 DEF CoreInv, BodyOK, BodyOver
  <2> QED BY <1>1, <1>2, <1>4, <2>1, <2>2, <2>3, BodyStepCore
<1> QED BY <1>3, <1>4 DEF ReadBody, BodyGoes

\* The 100 Continue is written, or the transport is broken.
LEMMA WriteContinueCore == ASSUME CoreInv, NEW r \in Reqs, WriteContinue(r) PROVE CoreInv'
<1> USE Requests
<1>1. /\ UNCHANGED <<net, sock, me, dec, wt, used, scene, kind, at, sent, fin, serve, hd, peer, evt>>
      /\ body[r].pc = "100"
  BY DEF WriteContinue, bodyFrame
<1>2. /\ body \in Bodies /\ dec' \in Decoders /\ <<>> \in Seq(ReqItem) /\ FALSE \in BOOLEAN
      /\ net' \in Seq(ReqItem) /\ used' \in Seq(ReqItem) /\ wire \in Seq(Items)
  BY <1>1, EmptySeq DEF CoreInv, Typed, ClientTyped
<1>3. PICK p \in {"loop", "over"} :
        \/ body' = [body EXCEPT ![r].pc = p]
        \/ body' = [body EXCEPT ![r].pc = p, ![r].end = "error"]
  BY DEF WriteContinue, BodyGoes
<1>4. body' \in Bodies /\ body'[r].pc = p /\ \A s \in Reqs \ {r} : body'[s] = body[s]
  BY <1>2, <1>3, BodyWrites DEF BodyPlaces
<1>5. wire' \in Seq(Items)
  <2>1. Item(r, "100") \in Items
    BY DEF Item, Items, Parts
  <2>2. wire' = wire \/ wire' = Append(wire, Item(r, "100"))
    BY DEF WriteContinue
  <2> QED BY <1>2, <2>1, <2>2, AppendProperties
<1>6. HasBody(r) /\ ("late" \notin scene.env => Working(r)) /\ ~BodyOver(r)
  BY <1>1, AtWork DEF BodyOver
<1> QED BY <1>1, <1>2, <1>4, <1>5, <1>6, BodyStepCore

\* A frame is decoded, or the reader turns to the transport.
LEMMA DecodeBodyCore == ASSUME CoreInv, NEW r \in Reqs, DecodeBody(r) PROVE CoreInv'
<1> USE Requests
<1>1. /\ UNCHANGED <<net, sock, wt, wire, scene, kind, at, sent, fin, serve, hd, peer, evt>>
      /\ body[r].pc = "loop"
  BY DEF DecodeBody, bodyFrame
<1>2. /\ body \in Bodies /\ dec \in Decoders /\ <<>> \in Seq(ReqItem) /\ FALSE \in BOOLEAN /\ TRUE \in BOOLEAN
      /\ net' \in Seq(ReqItem) /\ used \in Seq(ReqItem) /\ wire' \in Seq(Items)
  BY <1>1, EmptySeq DEF CoreInv, Typed, ClientTyped
<1>3. HasBody(r) /\ ("late" \notin scene.env => Working(r)) /\ ~BodyOver(r)
  BY <1>1, AtWork DEF BodyOver
<1>4. CASE dec[r].complete /\ BodyGoes(r, "done") /\ UNCHANGED <<me, dec, used>>
  <2>1. body' \in Bodies /\ body'[r].pc = "done" /\ \A s \in Reqs \ {r} : body'[s] = body[s]
    BY <1>2, <1>4, BodyMoves DEF BodyPlaces, BodyGoes
  <2> QED BY <1>1, <1>2, <1>3, <1>4, <2>1, BodyStepCore
<1>5. CASE /\ ~dec[r].complete /\ dec[r].buf # <<>>
           /\ dec' = [dec EXCEPT ![r] = [buf |-> Tail(@.buf), complete |-> TRUE]]
           /\ used' = Append(used, Head(dec[r].buf))
           /\ body' = [body EXCEPT ![r].pc = "done", ![r].got = TRUE] /\ UNCHANGED me
  <2>1. body' \in Bodies /\ body'[r].pc = "done" /\ \A s \in Reqs \ {r} : body'[s] = body[s]
    BY <1>2, <1>5, BodyWrites DEF BodyPlaces
  <2>2. dec[r].buf \in Seq(ReqItem)
    BY <1>2 DEF Decoders
  <2>3. Head(dec[r].buf) \in ReqItem /\ Tail(dec[r].buf) \in Seq(ReqItem)
    BY <1>5, <2>2, HeadTailProperties
  <2>4. used' \in Seq(ReqItem)
    BY <1>2, <1>5, <2>3, AppendProperties
  <2>5. dec' = [dec EXCEPT ![r] = [buf |-> Tail(dec[r].buf), complete |-> TRUE]]
    BY <1>2, <1>5 DEF Decoders
  <2>6. dec' \in Decoders /\ dec'[r].complete /\ \A s \in Reqs \ {r} : dec'[s] = dec[s]
    BY <1>2, <2>3, <2>5, DecoderSets
  <2> QED BY <1>1, <1>2, <1>3, <1>5, <2>1, <2>4, <2>6, BodyStepCore
<1>6. CASE BodyRaises(r, me) /\ UNCHANGED <<dec, used>>
  <2>1. body' \in Bodies /\ body'[r].pc = "over" /\ \A s \in Reqs \ {r} : body'[s] = body[s]
    BY <1>2, <1>6, BodyWrites DEF BodyPlaces, BodyRaises
  <2>2. /\ me' \in Locked /\ me'.open = me.open /\ me'.closed = me.closed /\ ~me'.reusable
        /\ me'.buf = me.buf /\ me'.w = me.w /\ me'.cur = me.cur
    BY <1>6 DEF Locked, BodyRaises
  <2> QED BY <1>1, <1>2, <1>3, <1>6, <2>1, <2>2, BodyStepCore
<1>7. CASE /\ IsCurrent(r) /\ ~me.cur.bodyDone /\ ~me.cur.reading
           /\ me' = [me EXCEPT !.cur.reading = TRUE] /\ BodyGoes(r, "reading")
           /\ UNCHANGED <<dec, used>>
  <2>1. body' \in Bodies /\ body'[r].pc = "reading" /\ \A s \in Reqs \ {r} : body'[s] = body[s]
    BY <1>2, <1>7, BodyMoves DEF BodyPlaces, BodyGoes
  <2>2. /\ me' \in Locked /\ me'.open = me.open /\ me'.closed = me.closed /\ me'.reusable = me.reusable
        /\ me'.buf = me.buf /\ me'.w = me.w
        /\ me'.cur.seq = me.cur.seq /\ me'.cur.done = me.cur.done /\ me'.cur.bodyDone = me.cur.bodyDone
        /\ me'.cur.negotiated = me.cur.negotiated /\ me'.cur.switch = me.cur.switch
        /\ me'.cur.reading
    BY <1>7 DEF Locked, Current
  <2>3. r = me.cur.seq
    BY <1>7 DEF IsCurrent
  <2>4. me.open => serve.pc \in Ending \cup {"serving"}
    BY <1>7 DEF CoreInv, Typed, Serving, ServeOK, BodyOK
  <2> QED BY <1>1, <1>2, <1>3, <1>7, <2>1, <2>2, <2>3, <2>4, BodyStepCore
<1> QED BY <1>4, <1>5, <1>6, <1>7 DEF DecodeBody

\* The reader reads the transport.
LEMMA ReadBodyMoreCore == ASSUME CoreInv, NEW r \in Reqs, ReadBodyMore(r) PROVE CoreInv'
<1> USE Requests
<1> DEFINE n == IF IsCurrent(r) THEN [me EXCEPT !.cur.reading = FALSE] ELSE me
<1>1. /\ UNCHANGED <<sock, wt, wire, used, scene, kind, at, sent, fin, serve, hd, peer, evt>>
      /\ body[r].pc = "reading"
  BY DEF ReadBodyMore, bodyFrame
<1>2. /\ body \in Bodies /\ dec \in Decoders /\ <<>> \in Seq(ReqItem) /\ FALSE \in BOOLEAN
      /\ net \in Seq(ReqItem) /\ used' \in Seq(ReqItem) /\ wire' \in Seq(Items)
  BY <1>1, EmptySeq DEF CoreInv, Typed, ClientTyped
<1>3. HasBody(r) /\ ("late" \notin scene.env => Working(r)) /\ ~BodyOver(r)
  BY <1>1, AtWork DEF BodyOver
<1>4. PICK data \in Readable :
        \/ BodyRaises(r, n) /\ UNCHANGED <<net, dec>>
        \/ /\ me' = n /\ net' = Rest(data)
           /\ body' = [body EXCEPT ![r].pc = "feed", ![r].data = data] /\ UNCHANGED dec
        \/ /\ me' = n /\ net' = Rest(data)
           /\ dec' = [dec EXCEPT ![r].buf = @ \o data] /\ BodyGoes(r, "loop")
  BY DEF ReadBodyMore
<1>5. /\ n \in Locked /\ n.open = me.open /\ n.closed = me.closed /\ n.reusable = me.reusable
      /\ n.buf = me.buf /\ n.w = me.w
      /\ n.cur.seq = me.cur.seq /\ n.cur.done = me.cur.done /\ n.cur.bodyDone = me.cur.bodyDone
      /\ n.cur.negotiated = me.cur.negotiated /\ n.cur.switch = me.cur.switch
      /\ me.cur.reading /\ ~n.cur.reading => r = me.cur.seq
  <2>1. CASE IsCurrent(r)
    <3> DEFINE x == [me EXCEPT !.cur.reading = FALSE]
    <3>1. /\ x \in Locked /\ x.open = me.open /\ x.closed = me.closed /\ x.reusable = me.reusable
          /\ x.buf = me.buf /\ x.w = me.w
          /\ x.cur.seq = me.cur.seq /\ x.cur.done = me.cur.done /\ x.cur.bodyDone = me.cur.bodyDone
          /\ x.cur.negotiated = me.cur.negotiated /\ x.cur.switch = me.cur.switch
      BY DEF Locked, Current
    <3>2. n = x /\ r = me.cur.seq
      BY <2>1 DEF IsCurrent
    <3> HIDE DEF x, n
    <3> QED BY <3>1, <3>2
  <2>2. CASE ~IsCurrent(r)
    <3>1. n = me
      BY <2>2
    <3> HIDE DEF n
    <3> QED BY <3>1
  <2> QED BY <2>1, <2>2
<1> HIDE DEF n
<1>6. me.open => serve.pc \notin Draining
  BY <1>1 DEF CoreInv, BodyOK, Draining, Ending
<1>7. data \in Seq(ReqItem) /\ Rest(data) \in Seq(ReqItem)
  BY <1>2, ReadableIs
<1>8. CASE BodyRaises(r, n) /\ UNCHANGED <<net, dec>>
  <2>1. body' \in Bodies /\ body'[r].pc = "over" /\ \A s \in Reqs \ {r} : body'[s] = body[s]
    BY <1>2, <1>8, BodyWrites DEF BodyPlaces, BodyRaises
  <2>2. /\ me' \in Locked /\ me'.open = n.open /\ me'.closed = n.closed /\ ~me'.reusable
        /\ me'.buf = n.buf /\ me'.w = n.w /\ me'.cur = n.cur
    BY <1>5, <1>8 DEF Locked, BodyRaises
  <2> QED BY <1>1, <1>2, <1>3, <1>5, <1>6, <1>8, <2>1, <2>2, BodyStepCore
<1>9. CASE /\ me' = n /\ net' = Rest(data)
           /\ body' = [body EXCEPT ![r].pc = "feed", ![r].data = data] /\ UNCHANGED dec
  <2>1. body' \in Bodies /\ body'[r].pc = "feed" /\ \A s \in Reqs \ {r} : body'[s] = body[s]
    BY <1>2, <1>7, <1>9, BodyWrites DEF BodyPlaces
  <2> QED BY <1>1, <1>2, <1>3, <1>5, <1>6, <1>7, <1>9, <2>1, BodyStepCore
<1>10. CASE /\ me' = n /\ net' = Rest(data)
            /\ dec' = [dec EXCEPT ![r].buf = @ \o data] /\ BodyGoes(r, "loop")
  <2>1. body' \in Bodies /\ body'[r].pc = "loop" /\ \A s \in Reqs \ {r} : body'[s] = body[s]
    BY <1>2, <1>10, BodyMoves DEF BodyPlaces, BodyGoes
  <2>2. dec[r].buf \o data \in Seq(ReqItem) /\ dec[r].complete \in BOOLEAN
    <3>1. dec[r].buf \in Seq(ReqItem) /\ dec[r].complete \in BOOLEAN
      BY <1>2 DEF Decoders
    <3> QED BY <1>7, <3>1, ConcatProperties
  <2>3. dec' = [dec EXCEPT ![r].buf = dec[r].buf \o data]
    BY <1>2, <1>10 DEF Decoders
  <2>4. dec' \in Decoders /\ dec'[r].complete = dec[r].complete /\ \A s \in Reqs \ {r} : dec'[s] = dec[s]
    BY <1>2, <2>2, <2>3, DecoderSets
  <2> QED BY <1>1, <1>2, <1>3, <1>5, <1>6, <1>7, <1>10, <2>1, <2>4, BodyStepCore, ZenonT(60)
<1> QED BY <1>4, <1>8, <1>9, <1>10

\* What was read is fed to the decoder.
LEMMA FeedBodyCore == ASSUME CoreInv, NEW r \in Reqs, FeedBody(r) PROVE CoreInv'
<1> USE Requests
<1>1. /\ UNCHANGED <<net, sock, me, wt, wire, used, scene, kind, at, sent, fin, serve, hd, peer, evt>>
      /\ body[r].pc = "feed"
      /\ dec' = [dec EXCEPT ![r].buf = @ \o body[r].data]
      /\ body' = [body EXCEPT ![r].pc = "loop", ![r].data = <<>>]
  BY DEF FeedBody, bodyFrame
<1>2. /\ body \in Bodies /\ dec \in Decoders /\ <<>> \in Seq(ReqItem) /\ FALSE \in BOOLEAN
      /\ net' \in Seq(ReqItem) /\ used' \in Seq(ReqItem) /\ wire' \in Seq(Items)
  BY <1>1, EmptySeq DEF CoreInv, Typed, ClientTyped
<1>3. HasBody(r) /\ ("late" \notin scene.env => Working(r)) /\ ~BodyOver(r)
  BY <1>1, AtWork DEF BodyOver
<1>4. body' \in Bodies /\ body'[r].pc = "loop" /\ \A s \in Reqs \ {r} : body'[s] = body[s]
  BY <1>1, <1>2, BodyWrites DEF BodyPlaces
<1>5. dec[r].buf \o body[r].data \in Seq(ReqItem) /\ dec[r].complete \in BOOLEAN
  <2>1. dec[r].buf \in Seq(ReqItem) /\ dec[r].complete \in BOOLEAN /\ body[r].data \in Seq(ReqItem)
    BY <1>2 DEF Decoders, Bodies
  <2> QED BY <2>1, ConcatProperties
<1>6. dec' \in Decoders /\ dec'[r].complete = dec[r].complete /\ \A s \in Reqs \ {r} : dec'[s] = dec[s]
  BY <1>1, <1>2, <1>5, DecoderSets
<1> QED BY <1>1, <1>2, <1>3, <1>4, <1>6, BodyStepCore

\* The reader stores the handle of the task it spawned.
LEMMA BodyStoresCore == ASSUME CoreInv, NEW r \in Reqs, BodyStores(r) PROVE CoreInv'
<1> USE Requests
<1>1. /\ UNCHANGED <<net, sock, dec, wt, wire, used, scene, kind, at, sent, fin, serve, hd, peer, evt>>
      /\ body[r].pc \in {"store", "join"} /\ (me' = Stored(me, r) \/ UNCHANGED me)
  BY DEF BodyStores, bodyFrame
<1>2. Kept
  BY <1>1, StoredIs DEF Kept
<1>3. /\ body \in Bodies /\ dec' \in Decoders
      /\ net' \in Seq(ReqItem) /\ used' \in Seq(ReqItem) /\ wire' \in Seq(Items)
  BY <1>1 DEF CoreInv, Typed, ClientTyped
<1>4. PICK p \in {"join", "over"} : body' = [body EXCEPT ![r].pc = p]
  BY DEF BodyStores, BodyGoes
<1>5. body' \in Bodies /\ body'[r].pc = p /\ \A s \in Reqs \ {r} : body'[s] = body[s]
  BY <1>3, <1>4, BodyMoves DEF BodyPlaces
<1>6. HasBody(r) /\ ("late" \notin scene.env => Working(r))
  BY <1>1, AtWork
<1> QED BY <1>1, <1>2, <1>3, <1>5, <1>6, BodyStepCore DEF Kept

\* The body is complete, and the read of a peer_closed() asked for earlier is parked.
LEMMA EndBodyCore == ASSUME CoreInv, NEW r \in Reqs, EndBody(r) PROVE CoreInv'
<1> USE Requests
<1> DEFINE m == [me EXCEPT !.cur.reading = FALSE, !.cur.bodyDone = TRUE]
<1>1. /\ UNCHANGED <<net, sock, wire, used, scene, kind, at, sent, fin, serve, hd, peer, evt>>
      /\ body[r].pc = "done"
  BY DEF EndBody, bodyFrame
<1>2. /\ body \in Bodies /\ <<>> \in Seq(ReqItem) /\ FALSE \in BOOLEAN
      /\ net' \in Seq(ReqItem) /\ used' \in Seq(ReqItem) /\ wire' \in Seq(Items)
      /\ hd' \in Handlers /\ peer' \in [Reqs -> {"off", "store", "join", "wait", "over"}]
  BY <1>1, EmptySeq DEF CoreInv, Typed, ClientTyped
<1>3. HasBody(r) /\ ("late" \notin scene.env => Working(r)) /\ ~BodyOver(r)
  BY <1>1, AtWork DEF BodyOver
<1>4. PICK p \in {"store", "over"} :
        /\ body' = [body EXCEPT ![r].pc = p, ![r].end = "clean"]
        /\ IF IsCurrent(r) THEN Arm(m) ELSE p = "over" /\ UNCHANGED <<me, dec, wt>>
  BY DEF EndBody, IfToStore
<1>5. body' \in Bodies /\ body'[r].pc = p /\ \A s \in Reqs \ {r} : body'[s] = body[s]
  <2>1. p \in BodyPlaces /\ "clean" \in {"none", "clean", "error"}
    BY DEF BodyPlaces
  <2>2. body' = [body EXCEPT ![r].pc = p, ![r].end = "clean"]
    BY <1>4
  <2>3. body \in Bodies
    BY <1>2
  <2> HIDE DEF m
  <2> QED BY <2>1, <2>2, <2>3, <1>2, BodyWrites
<1>6. CASE ~IsCurrent(r)
  <2>1. UNCHANGED <<me, dec, wt>> /\ p = "over" /\ dec' \in Decoders
    BY <1>4, <1>6 DEF CoreInv, Typed
  <2> QED BY <1>1, <1>2, <1>3, <1>5, <2>1, BodyStepCore
<1>7. CASE IsCurrent(r)
  <2>1. Arm(m) /\ r = me.cur.seq
    BY <1>4, <1>7 DEF IsCurrent
  <2>2. /\ m \in Locked /\ m.open = me.open /\ m.closed = me.closed /\ m.reusable = me.reusable
        /\ m.w = me.w /\ m.buf = me.buf
        /\ m.cur.seq = me.cur.seq /\ m.cur.done = me.cur.done /\ m.cur.bodyDone
        /\ m.cur.negotiated = me.cur.negotiated /\ m.cur.switch = me.cur.switch
    BY DEF Locked, Current
  <2> HIDE DEF m
  <2>3. \A s \in Reqs :
          /\ ModeOK(s) /\ (hd[s].pc \in {"start", "cont", "again"} => ~me.cur.negotiated)
          /\ me.open /\ body[s].pc = "reading" => s = me.cur.seq
          /\ ~HasBody(s) => body[s].pc \in {"off", "over"}
          /\ "late" \notin scene.env /\ body[s].pc \notin {"off", "over"} => Working(s)
    BY DEF CoreInv, BodyOK, ServeOK
  <2>4. \A s \in Reqs :
          /\ ModeOK(s)'
          /\ Working(s)' <=> Working(s)
    BY <1>1, <2>3 DEF ModeOK, Working
  <2>5. \A s \in Reqs :
          /\ Working(s)' <=> Working(s)
          /\ ModeOK(s)'
          /\ hd'[s].pc = "over" <=> hd[s].pc = "over"
          /\ hd'[s].pc = "off" <=> hd[s].pc = "off"
          /\ hd'[s].pc \in {"start", "cont", "again"} => ~m.cur.negotiated
          /\ me.open /\ body'[s].pc = "reading" =>
               s = me.cur.seq /\ m.cur.reading /\ ~m.cur.bodyDone
               /\ serve.pc \in Ending \cup {"serving"}
          /\ ~HasBody(s) => body'[s].pc \in {"off", "over"}
          /\ "late" \notin scene.env /\ body'[s].pc \notin {"off", "over"} => Working(s)
    BY <1>1, <1>3, <1>5, <2>1, <2>2, <2>3, <2>4
  <2>6. /\ me.open /\ serve.pc \in Draining => m.cur.reading \/ m.cur.bodyDone
        /\ me.open /\ Watching /\ kind[me.cur.seq] = "upgrade" => m.cur.negotiated /\ ~m.cur.switch
        /\ m.cur.switch => kind[me.cur.seq] = "upgrade"
    BY <2>2 DEF CoreInv, WatchOK
  <2>7. body'[me.cur.seq].pc \in {"store", "join", "over"}
    BY <1>5, <2>1
  <2> QED BY <1>1, <1>2, <1>5, <2>1, <2>2, <2>5, <2>6, <2>7, ArmCore
<1> QED BY <1>6, <1>7

(***************************************************************************)
(* peer_closed(), the watcher, the deadline and the shutdown.               *)
(***************************************************************************)

\* A step that leaves the places of handlers and bodies as they are.
LEMMA AsideCore ==
    ASSUME CoreInv, Kept, wt' \in Watchers, \A s \in Reqs : Active(s)' <=> Active(s),
           peer' \in [Reqs -> {"off", "store", "join", "wait", "over"}], evt' \in [Reqs -> BOOLEAN],
           net' \in Seq(ReqItem),
           UNCHANGED <<scene, kind, at, sent, fin, sock, dec, serve, hd, body, wire, used>>
    PROVE  CoreInv'
<1> USE Requests
<1>1. /\ dec' \in Decoders /\ hd' \in Handlers /\ body' \in Bodies
      /\ used' \in Seq(ReqItem) /\ wire' \in Seq(Items)
  BY DEF CoreInv, Typed, ClientTyped
<1>2. \A s \in Reqs :
        /\ ModeOK(s) /\ (hd[s].pc \in {"start", "cont", "again"} => ~me.cur.negotiated)
        /\ me.open /\ body[s].pc = "reading" =>
             s = me.cur.seq /\ me.cur.reading /\ ~me.cur.bodyDone /\ serve.pc \in Ending \cup {"serving"}
        /\ ~HasBody(s) => body[s].pc \in {"off", "over"}
        /\ "late" \notin scene.env /\ body[s].pc \notin {"off", "over"} => Working(s)
  BY DEF CoreInv, BodyOK, ServeOK
<1>3. \A s \in Reqs : ModeOK(s)' /\ (Working(s)' <=> Working(s)) /\ (BodyOver(s)' <=> BodyOver(s))
  BY <1>2 DEF ModeOK, Working, BodyOver
<1>4. /\ me.open /\ Watching =>
           /\ me.buf = <<>> /\ dec[me.cur.seq].buf = <<>>
           /\ kind[me.cur.seq] = "upgrade" => me.cur.negotiated /\ ~me.cur.switch
      /\ me.open /\ serve.pc \in Draining => me.cur.reading \/ me.cur.bodyDone
      /\ me.open /\ me.cur.bodyDone /\ (Watching \/ ~me.cur.done) => BodyOver(me.cur.seq)
      /\ me.cur.switch => kind[me.cur.seq] = "upgrade"
  BY DEF CoreInv, BodyOK, WatchOK
<1>5. me.open /\ me'.cur.bodyDone /\ (Watching \/ ~me.cur.done) => (BodyOver(me.cur.seq))'
  BY <1>4 DEF Kept, BodyOver
<1> QED BY <1>1, <1>2, <1>3, <1>4, <1>5, StepCore DEF Kept

\* A call of peer_closed().
LEMMA PeerClosedCore == ASSUME CoreInv, NEW r \in Reqs, PeerClosed(r) PROVE CoreInv'
<1> DEFINE m == [me EXCEPT !.cur.wanted = TRUE]
<1>1. /\ UNCHANGED <<scene, kind, at, sent, fin, net, sock, serve, hd, body, evt, wire, used>>
      /\ \E p \in {"over", "store", "wait"} : peer' = [peer EXCEPT ![r] = p]
      /\ UNCHANGED <<me, dec, wt>> \/ Arm(m)
  BY DEF PeerClosed, peerFrame, PeerGoes, IfToStore
<1>2. /\ peer \in [Reqs -> {"off", "store", "join", "wait", "over"}] /\ wt \in Watchers /\ hd \in Handlers
      /\ evt \in [Reqs -> BOOLEAN] /\ net \in Seq(ReqItem)
  BY DEF CoreInv, Typed
<1>3. peer' \in [Reqs -> {"off", "store", "join", "wait", "over"}]
  BY <1>1, <1>2
<1>4. CASE UNCHANGED <<me, dec, wt>>
  <2>1. Kept /\ \A s \in Reqs : Active(s)' <=> Active(s)
    BY <1>4, Requests DEF Kept, Active
  <2> QED BY <1>1, <1>2, <1>3, <1>4, <2>1, AsideCore
<1>5. CASE Arm(m)
  <2>1. \A s \in Reqs :
          /\ Working(s)' <=> Working(s)
          /\ ModeOK(s)'
          /\ hd'[s].pc = "over" <=> hd[s].pc = "over"
          /\ hd'[s].pc = "off" <=> hd[s].pc = "off"
          /\ hd'[s].pc \in {"start", "cont", "again"} => hd[s].pc \in {"start", "cont", "again"}
    BY <1>1 DEF Working, ModeOK, CoreInv, ServeOK
  <2> HIDE DEF m
  <2>2. m = [me EXCEPT !.cur.wanted = TRUE]
    BY DEF m
  <2> QED BY <1>1, <1>2, <1>3, <1>5, <2>1, <2>2, WantedCore
<1> QED BY <1>1, <1>4, <1>5

\* The caller of peer_closed() stores the handle, and waits.
LEMMA PeerWaiterCore == ASSUME CoreInv, NEW r \in Reqs, PeerWaiter(r) PROVE CoreInv'
<1>1. /\ UNCHANGED <<scene, kind, at, sent, fin, net, sock, dec, wt, serve, hd, body, evt, wire, used>>
      /\ \E p \in {"join", "wait", "over"} : peer' = [peer EXCEPT ![r] = p]
      /\ UNCHANGED me \/ me' = Stored(me, r)
  BY DEF PeerWaiter, PeerStores, PeerWaits, peerFrame, PeerGoes
<1>2. /\ peer \in [Reqs -> {"off", "store", "join", "wait", "over"}] /\ wt \in Watchers
      /\ evt \in [Reqs -> BOOLEAN] /\ net \in Seq(ReqItem)
  BY DEF CoreInv, Typed
<1>3. peer' \in [Reqs -> {"off", "store", "join", "wait", "over"}]
  BY <1>1, <1>2
<1>4. Kept /\ \A s \in Reqs : Active(s)' <=> Active(s)
  BY <1>1, Requests, StoredIs DEF Kept, Active
<1> QED BY <1>1, <1>2, <1>3, <1>4, AsideCore

\* A watcher goes on to another place.
LEMMA WatcherMoves ==
    ASSUME NEW r \in Reqs, NEW p \in {"none", "spawned", "reading", "result", "over"}, wt \in Watchers,
           NEW e \in Results \cup {"none"}, NEW d \in Seq(ReqItem),
           wt' = [wt EXCEPT ![r].pc = p] \/ wt' = [wt EXCEPT ![r] = [pc |-> p, res |-> e, data |-> d]]
    PROVE  wt' \in Watchers /\ wt'[r].pc = p /\ \A s \in Reqs \ {r} : wt'[s] = wt[s]
<1> DEFINE R == [pc : {"none", "spawned", "reading", "result", "over"}, res : Results \cup {"none"},
                 data : Seq(ReqItem)]
<1>1. wt[r] \in R
  BY DEF Watchers
<1>2. PICK x \in R : x.pc = p /\ wt' = [wt EXCEPT ![r] = x]
  <2>1. CASE wt' = [wt EXCEPT ![r].pc = p]
    <3> DEFINE x == [wt[r] EXCEPT !.pc = p]
    <3>1. x \in R /\ x.pc = p
      BY <1>1
    <3>2. wt' = [wt EXCEPT ![r] = x]
      BY <2>1
    <3> QED BY <3>1, <3>2
  <2>2. CASE wt' = [wt EXCEPT ![r] = [pc |-> p, res |-> e, data |-> d]]
    <3>1. [pc |-> p, res |-> e, data |-> d] \in R
      OBVIOUS
    <3> QED BY <2>2, <3>1
  <2> QED BY <2>1, <2>2
<1> QED BY <1>2 DEF Watchers

\* The watcher starts its read, or finds no transport.
LEMMA WatcherStartsCore == ASSUME CoreInv, NEW r \in Reqs, WatcherStarts(r) PROVE CoreInv'
<1> USE Requests
<1>1. /\ UNCHANGED <<scene, kind, at, sent, fin, net, sock, dec, serve, hd, body, peer, evt, wire, used>>
      /\ wt[r].pc = "spawned"
  BY DEF WatcherStarts, watchFrame
<1>2. /\ wt \in Watchers /\ evt' \in [Reqs -> BOOLEAN] /\ net' \in Seq(ReqItem) /\ <<>> \in Seq(ReqItem)
      /\ peer' \in [Reqs -> {"off", "store", "join", "wait", "over"}]
  BY <1>1, EmptySeq DEF CoreInv, Typed
<1>3. Active(r) /\ me.w.slot
  BY <1>1 DEF Active, CoreInv, WatchOK, Watching
<1>4. CASE me.open /\ wt' = [wt EXCEPT ![r].pc = "reading"] /\ UNCHANGED me
  <2>1. wt' \in Watchers /\ wt'[r].pc = "reading" /\ \A s \in Reqs \ {r} : wt'[s] = wt[s]
    BY <1>2, <1>4, WatcherMoves
  <2>2. Kept /\ \A s \in Reqs : Active(s)' <=> Active(s)
    BY <1>1, <1>4, <2>1 DEF Kept, Active
  <2> QED BY <1>1, <1>2, <2>1, <2>2, AsideCore
<1>5. CASE wt' = [wt EXCEPT ![r].pc = "over"] /\ me' = [me EXCEPT !.w.completed = TRUE]
  <2>1. wt' \in Watchers /\ wt'[r].pc = "over" /\ \A s \in Reqs \ {r} : wt'[s] = wt[s]
    BY <1>2, <1>5, WatcherMoves
  <2>2. /\ me' \in Locked /\ me'.open = me.open /\ me'.closed = me.closed /\ me'.reusable = me.reusable
        /\ me'.buf = me.buf /\ me'.w.slot = me.w.slot /\ me'.w.on = me.w.on /\ me'.w.completed
        /\ me'.cur = me.cur
    BY <1>5 DEF Locked, Watch
  <2> QED BY <1>1, <1>2, <1>3, <2>1, <2>2, WatcherEndsCore
<1> QED BY <1>3, <1>4, <1>5 DEF WatcherStarts

\* The watcher reads the transport.
LEMMA WatcherReadsCore == ASSUME CoreInv, NEW r \in Reqs, WatcherReads(r) PROVE CoreInv'
<1> USE Requests
<1>1. /\ UNCHANGED <<scene, kind, at, sent, fin, me, sock, dec, serve, hd, body, peer, evt, wire, used>>
      /\ wt[r].pc = "reading"
  BY DEF WatcherReads, watchFrame
<1>2. PICK res \in Results, data \in Readable :
        net' = Rest(data) /\ wt' = [wt EXCEPT ![r] = [pc |-> "result", res |-> res, data |-> data]]
  BY DEF WatcherReads
<1>3. /\ wt \in Watchers /\ evt' \in [Reqs -> BOOLEAN] /\ net \in Seq(ReqItem)
      /\ peer' \in [Reqs -> {"off", "store", "join", "wait", "over"}]
  BY <1>1 DEF CoreInv, Typed
<1>4. data \in Seq(ReqItem) /\ net' \in Seq(ReqItem) /\ res \in Results \cup {"none"}
  BY <1>2, <1>3, ReadableIs
<1>5. wt' \in Watchers /\ wt'[r].pc = "result" /\ \A s \in Reqs \ {r} : wt'[s] = wt[s]
  BY <1>2, <1>3, <1>4, WatcherMoves
<1>6. Kept /\ \A s \in Reqs : Active(s)' <=> Active(s)
  BY <1>1, <1>5 DEF Kept, Active
<1> QED BY <1>1, <1>3, <1>4, <1>5, <1>6, AsideCore

\* The watcher leaves its result.
LEMMA WatcherCompletedCore == ASSUME CoreInv, NEW r \in Reqs, WatcherCompleted(r) PROVE CoreInv'
<1> USE Requests
<1> DEFINE n == [me EXCEPT !.w = [@ EXCEPT !.res = wt[r].res, !.data = wt[r].data, !.completed = TRUE]]
           gone == wt[r].res # "data" /\ ~me.cur.done /\ ~me.cur.gone
<1>1. /\ UNCHANGED <<scene, kind, at, sent, fin, net, sock, dec, serve, hd, body, peer, wire, used>>
      /\ wt[r].pc = "result" /\ evt' = [evt EXCEPT ![r] = @ \/ (me.w.slot /\ gone)]
      /\ wt' = [wt EXCEPT ![r] = [pc |-> "over", res |-> "none", data |-> <<>>]]
  BY DEF WatcherCompleted, watchFrame
<1>2. wt \in Watchers /\ evt \in [Reqs -> BOOLEAN] /\ <<>> \in Seq(ReqItem)
  BY EmptySeq DEF CoreInv, Typed
<1>3. Active(r) /\ me.w.slot
  BY <1>1 DEF Active, CoreInv, WatchOK, Watching
<1>4. wt' \in Watchers /\ wt'[r].pc = "over" /\ \A s \in Reqs \ {r} : wt'[s] = wt[s]
  BY <1>1, <1>2, WatcherMoves
<1>5. evt' \in [Reqs -> BOOLEAN]
  <2>1. PICK e \in BOOLEAN : evt' = [evt EXCEPT ![r] = e]
    <3>1. (evt[r] \/ (me.w.slot /\ gone)) \in BOOLEAN
      OBVIOUS
    <3> QED BY <1>1, <3>1
  <2> QED BY <1>2, <2>1
<1>6. me' = n \/ me' = [n EXCEPT !.reusable = FALSE, !.cur.gone = TRUE]
  BY <1>3 DEF WatcherCompleted
<1>7. /\ n \in Locked /\ n.open = me.open /\ n.closed = me.closed /\ n.reusable = me.reusable
      /\ n.buf = me.buf /\ n.w.slot = me.w.slot /\ n.w.on = me.w.on /\ n.w.completed
      /\ n.cur = me.cur
  <2>1. wt[r].res \in Results \cup {"none"} /\ wt[r].data \in Seq(ReqItem)
    BY <1>2 DEF Watchers
  <2> QED BY <2>1 DEF Locked, Watch
<1> HIDE DEF n
<1>8. /\ me' \in Locked /\ me'.open = me.open /\ me'.closed = me.closed /\ (~me.reusable => ~me'.reusable)
      /\ me'.buf = me.buf /\ me'.w.slot = me.w.slot /\ me'.w.on = me.w.on /\ me'.w.completed
      /\ me'.cur.seq = me.cur.seq /\ me'.cur.done = me.cur.done /\ me'.cur.bodyDone = me.cur.bodyDone
      /\ me'.cur.negotiated = me.cur.negotiated /\ me'.cur.switch = me.cur.switch
      /\ me'.cur.reading = me.cur.reading
  <2>1. CASE me' = n
    BY <1>7, <2>1
  <2>2. CASE me' = [n EXCEPT !.reusable = FALSE, !.cur.gone = TRUE]
    <3>1. PICK q \in Current : q = n.cur
      BY <1>7 DEF Locked
    <3>2. PICK c : c = [q EXCEPT !.gone = TRUE]
      OBVIOUS
    <3>3. /\ c \in Current /\ c.seq = q.seq /\ c.done = q.done /\ c.bodyDone = q.bodyDone
          /\ c.negotiated = q.negotiated /\ c.switch = q.switch /\ c.reading = q.reading
      BY <3>2 DEF Current
    <3>4. me' = [n EXCEPT !.reusable = FALSE, !.cur = c]
      BY <1>7, <2>2, <3>1, <3>2 DEF Locked
    <3>5. /\ me' \in Locked /\ me'.open = n.open /\ me'.closed = n.closed /\ ~me'.reusable
          /\ me'.buf = n.buf /\ me'.w = n.w /\ me'.cur = c
      BY <1>7, <3>3, <3>4 DEF Locked
    <3> QED BY <1>7, <3>1, <3>3, <3>5
  <2> QED BY <1>6, <2>1, <2>2
<1> QED BY <1>1, <1>3, <1>4, <1>5, <1>8, WatcherEndsCore

\* The deadline, and the graceful shutdown.
LEMMA TimeCore == ASSUME CoreInv, Overdue \/ RequestShutdown PROVE CoreInv'
<1> USE Requests
<1> DEFINE n == [me EXCEPT !.reusable = FALSE, !.shutdown = TRUE]
<1>1. UNCHANGED <<scene, kind, at, sent, fin, net, dec, serve, hd, body, peer, evt, wt, wire, used>>
  BY DEF Overdue, RequestShutdown, timeFrame
<1>2. /\ n \in Locked /\ n.open = me.open /\ n.closed = me.closed /\ ~n.reusable
      /\ n.buf = me.buf /\ n.w = me.w /\ n.cur = me.cur
  BY DEF Locked
<1>3. \/ me' = CloseNow(me) /\ Ends("abort")
      \/ me' = CloseNow(n) /\ Ends("orderly")
      \/ me' = n /\ UNCHANGED sock
  BY DEF Overdue, RequestShutdown
<1> HIDE DEF n
<1>4. CASE me' = n /\ UNCHANGED sock
  <2>1. Kept
    BY <1>2, <1>4 DEF Kept
  <2>2. /\ wt' \in Watchers /\ evt' \in [Reqs -> BOOLEAN] /\ net' \in Seq(ReqItem)
        /\ peer' \in [Reqs -> {"off", "store", "join", "wait", "over"}]
        /\ \A s \in Reqs : Active(s)' <=> Active(s)
    BY <1>1 DEF CoreInv, Typed, Active
  <2> QED BY <1>1, <1>4, <2>1, <2>2, AsideCore
<1>5. ASSUME NEW how \in {"abort", "orderly"}, Ends(how), me' = CloseNow(me) \/ me' = CloseNow(n) PROVE CoreInv'
  <2>1. me' \in Locked /\ ~me'.open /\ me'.closed /\ ~me'.reusable /\ me'.w = me.w /\ me'.cur = me.cur
    BY <1>2, <1>5, CloseNowIs
  <2>2. sock' \in Sockets /\ sock' # "open" /\ (sock' = "caller" => sock = "caller")
    BY <1>5 DEF Ends, Sockets, CoreInv, Typed, SocketOK
  <2> QED BY <1>1, <2>1, <2>2, ClosesCore
<1> QED BY <1>3, <1>4, <1>5

(***************************************************************************)
(* CoreInv is inductive.                                                    *)
(***************************************************************************)

\* The connection starts with an empty state that has no request.
LEMMA InitCore == Init => CoreInv
<1> SUFFICES ASSUME Init PROVE CoreInv
  OBVIOUS
<1>1. /\ scene \in Scenarios /\ kind \in [Reqs -> scene.kinds]
      /\ at = [r |-> 1, i |-> 1] /\ fin = FALSE /\ sent = <<>> /\ wire = <<>>
      /\ net = <<>> /\ used = <<>> /\ sock = "open"
      /\ serve = [pc |-> "start", data |-> <<>>, on |-> None, end |-> "none"]
      /\ hd = [r \in Reqs |-> [pc |-> "off", mode |-> "none"]]
      /\ body = [r \in Reqs |-> [pc |-> "off", data |-> <<>>, got |-> FALSE, end |-> "none"]]
      /\ dec = [r \in Reqs |-> [buf |-> <<>>, complete |-> FALSE]]
      /\ wt = [r \in Reqs |-> [pc |-> "none", res |-> "none", data |-> <<>>]]
      /\ peer = [r \in Reqs |-> "off"] /\ evt = [r \in Reqs |-> FALSE]
  BY DEF Init
<1>2. me = [open |-> TRUE, closed |-> FALSE, reusable |-> TRUE, upgraded |-> FALSE,
            shutdown |-> FALSE, parked |-> FALSE, since |-> FALSE, buf |-> <<>>,
            cur |-> NoRequest, w |-> NoWatcher]
  BY DEF Init
<1>3. <<>> \in Seq(ReqItem) /\ <<>> \in Seq(Items)
  BY EmptySeq
<1>4. NoRequest \in Current /\ NoWatcher \in Watch
  BY <1>3 DEF NoRequest, Current, NoWatcher, Watch, None
<1>5. ClientTyped
  <2>1. at.r \in Reqs => at.i <= Len(Message(at.r, kind[at.r]))
    <3>1. SUFFICES ASSUME 1 \in Reqs PROVE 1 <= Len(Message(1, kind[1]))
      BY <1>1
    <3>2. scene.kinds \in SUBSET {"plain", "body", "expect", "upgrade", "bad"}
      BY <1>1, H1ServerConstants
    <3>3. kind[1] \in {"plain", "body", "expect", "upgrade", "bad"}
      BY <1>1, <3>1, <3>2
    <3>4. Len(Message(1, kind[1])) \in 1..3
      BY <3>1, <3>3, MessageIs
    <3> QED BY <3>4
  <2>2. at \in [r : Nat \ {0}, i : 1..3]
    BY <1>1
  <2> QED BY <1>1, <1>3, <2>1, <2>2 DEF ClientTyped
<1>6. me \in Locked
  BY <1>2, <1>3, <1>4 DEF Locked
<1>7. serve \in Serving /\ dec \in Decoders
  BY <1>1, <1>3 DEF Serving, Heading, None, Decoders
<1>8. hd \in Handlers /\ body \in Bodies /\ wt \in Watchers
  BY <1>1, <1>3 DEF Handlers, HandlerPlaces, Bodies, BodyPlaces, Watchers
<1>9. Typed
  BY <1>1, <1>3, <1>5, <1>6, <1>7, <1>8 DEF Typed, Sockets
<1>10. /\ me.open /\ me.cur.seq = None /\ me.cur.done /\ me.cur.bodyDone /\ ~me.cur.negotiated
       /\ ~me.cur.switch /\ ~me.w.slot
  BY <1>2 DEF NoRequest, NoWatcher
<1>11. \A r \in Reqs : hd[r].pc = "off" /\ body[r].pc = "off" /\ wt[r].pc = "none"
  BY <1>1
<1>12. SocketOK /\ CallerOK
  BY <1>1, <1>10 DEF SocketOK, CallerOK
<1>13. ServeOK
  BY <1>1, <1>10, <1>11 DEF ServeOK, ModeOK, Working, Heading, Draining, None
<1>14. BodyOK
  BY <1>1, <1>10, <1>11 DEF BodyOK, Draining
<1>15. WatchOK
  BY <1>1, <1>10, <1>11 DEF WatchOK, Watching, Active
<1> QED BY <1>9, <1>12, <1>13, <1>14, <1>15 DEF CoreInv

\* Every step keeps the invariant.
LEMMA NextCore == CoreInv /\ [Next]_vars => CoreInv'
<1> SUFFICES ASSUME CoreInv, [Next]_vars PROVE CoreInv'
  OBVIOUS
<1>1. CASE UNCHANGED vars
  <2>1. UNCHANGED <<scene, kind, at, sent, fin, net, sock, me, dec, serve, hd, body, peer, wt,
                    wire, used, evt>>
    BY <1>1 DEF vars
  <2>2. Typed'
    BY <2>1 DEF CoreInv, Typed, ClientTyped
  <2>3. SocketOK' /\ CallerOK'
    BY <2>1 DEF CoreInv, SocketOK, CallerOK, Watching, Working
  <2>4. ServeOK'
    BY <2>1 DEF CoreInv, ServeOK, ModeOK, Working
  <2>5. BodyOK'
    BY <2>1 DEF CoreInv, BodyOK, BodyOver, HasBody, Working
  <2>6. WatchOK'
    BY <2>1 DEF CoreInv, WatchOK, BodyOver, Watching, Active
  <2> QED BY <2>2, <2>3, <2>4, <2>5, <2>6 DEF CoreInv
<1>2. CASE Client
  BY <1>2, ClientSendsCore, ClientEndsCore DEF Client
<1>3. CASE AcceptLoop \/ Close
  BY <1>3, BeginReadCore, DrainCore, DrainDoneCore, HeadReadCore, TakeWatcherHandleCore,
     TakeWatcherResultCore, AcceptHeadCore, RecvHeadBytesCore, LoopLeavesCore DEF AcceptLoop
<1>4. CASE Overdue \/ RequestShutdown
  BY <1>4, TimeCore
<1>5. ASSUME NEW r \in Reqs, Handler(r) \/ Detach(r) PROVE CoreInv'
  BY <1>5, RespondHeadCore, HandlerGoesCore, HandlerStoresCore, ArmForBodyCore,
     FinishResponseCore, FailResponseCore, DetachCore DEF Handler
<1>6. ASSUME NEW r \in Reqs, ReadBody(r) \/ BodyReader(r) PROVE CoreInv'
  BY <1>6, ReadBodyCore, WriteContinueCore, DecodeBodyCore, ReadBodyMoreCore, FeedBodyCore,
     EndBodyCore, BodyStoresCore DEF BodyReader
<1>7. ASSUME NEW r \in Reqs, PeerClosed(r) \/ PeerWaiter(r) PROVE CoreInv'
  BY <1>7, PeerClosedCore, PeerWaiterCore
<1>8. ASSUME NEW r \in Reqs, Watcher(r) PROVE CoreInv'
  BY <1>8, WatcherStartsCore, WatcherReadsCore, WatcherCompletedCore DEF Watcher
<1> QED BY <1>1, <1>2, <1>3, <1>4, <1>5, <1>6, <1>7, <1>8 DEF Next

\* The locked state and the tasks around it keep their types and fit together: who is at
\* work on which request, who may read, and when the slot is held.
THEOREM ServerFits == Spec => []CoreInv
<1> QED BY InitCore, NextCore, PTL DEF Spec

(***************************************************************************)
(* One reader.                                                              *)
(***************************************************************************)

\* The types that the runs check.
LEMMA CoreTypes == CoreInv => TypeOK
<1> SUFFICES ASSUME CoreInv PROVE TypeOK
  OBVIOUS
<1> USE Requests
<1>1. ReqItem \subseteq Items
  BY DEF ReqItem, Items, Parts
<1>2. \A s \in Seq(ReqItem) : s \in Seq(Items)
  BY <1>1
<1>3. /\ sent \in Seq(ReqItem) /\ net \in Seq(ReqItem) /\ used \in Seq(ReqItem)
      /\ wire \in Seq(Items) /\ serve.data \in Seq(ReqItem)
      /\ kind \in [Reqs -> scene.kinds] /\ at \in [r : Nat \ {0}, i : 1..3] /\ fin \in BOOLEAN
      /\ sock \in {"open", "reset", "orderly", "abort", "caller"}
      /\ peer \in [Reqs -> {"off", "store", "join", "wait", "over"}] /\ evt \in [Reqs -> BOOLEAN]
  BY DEF CoreInv, Typed, ClientTyped, Serving, Sockets
<1>4. /\ me.buf \in Seq(ReqItem) /\ me.open \in BOOLEAN /\ me.closed \in BOOLEAN
      /\ me.reusable \in BOOLEAN /\ me.upgraded \in BOOLEAN /\ me.shutdown \in BOOLEAN
      /\ me.parked \in BOOLEAN /\ me.since \in BOOLEAN
  BY DEF Locked
<1>5. /\ me.w.data \in Seq(ReqItem) /\ me.w.on \in Reqs \cup {None}
      /\ me.w.handle \in Reqs \cup {None}
  BY DEF Watch
<1>6. DOMAIN me.cur = DOMAIN NoRequest
  BY DEF Current, NoRequest
<1>7. {sent, net, me.buf, me.w.data, serve.data, wire, used} \subseteq Seq(Items)
  BY <1>2, <1>3, <1>4, <1>5
<1>8. \A f \in {"open", "closed", "reusable", "upgraded", "shutdown", "parked", "since"} :
        me[f] \in BOOLEAN
  BY <1>4
<1>9. ~me.open => me.closed /\ ~me.reusable
  BY DEF CoreInv, SocketOK
<1> QED BY <1>3, <1>5, <1>6, <1>7, <1>8, <1>9 DEF TypeOK

\* Whoever reads from an open transport reads alone: the head is read between requests, a
\* body while it is not over, the watcher once it is.
LEMMA CoreReaders == CoreInv => OneReader
<1> SUFFICES ASSUME CoreInv PROVE OneReader
  OBVIOUS
<1>1. ASSUME sock = "open" PROVE Cardinality(Readers) <= 1
  <2>1. me.open
    BY <1>1 DEF CoreInv, SocketOK
  <2>2. serve.pc = "read" => me.cur.bodyDone /\ ~Watching
    BY <2>1 DEF CoreInv, ServeOK, WatchOK, Heading
  <2>3. \A r \in Reqs : body[r].pc = "reading" => r = me.cur.seq /\ ~me.cur.bodyDone
    BY <2>1 DEF CoreInv, BodyOK
  <2>4. \A r \in Reqs : wt[r].pc \in {"spawned", "reading"} =>
          Watching /\ r = me.w.on /\ me.cur.bodyDone
    BY <2>1 DEF CoreInv, WatchOK, Active
  <2>5. \A x \in Readers :
          \/ x = <<"head", None>> /\ serve.pc = "read"
          \/ \E r \in Reqs : x = <<"body", r>> /\ body[r].pc = "reading"
          \/ \E r \in Reqs : x = <<"watch", r>> /\ wt[r].pc \in {"spawned", "reading"}
    BY DEF Readers
  <2>6. \A x, y \in Readers : x = y
    BY <2>2, <2>3, <2>4, <2>5
  <2>7. CASE Readers = {}
    BY <2>7, FS_EmptySet
  <2>8. CASE Readers # {}
    <3>1. PICK x \in Readers : TRUE
      BY <2>8
    <3>2. Readers = {x}
      BY <2>6, <3>1
    <3> QED BY <3>2, FS_Singleton
  <2> QED BY <2>7, <2>8
<1>2. ASSUME sock = "open", serve.pc = "drain", NEW r \in Reqs PROVE body[r].pc # "reading"
  <2>1. me.open
    BY <1>2 DEF CoreInv, SocketOK
  <2>2. body[r].pc = "reading" => serve.pc \in Ending \cup {"serving"}
    BY <2>1 DEF CoreInv, BodyOK
  <2> QED BY <1>2, <2>2 DEF Ending
<1>3. ASSUME sock = "caller", NEW x \in Readers PROVE "late" \in scene.env /\ x[1] = "body"
  <2>1. serve.pc # "read" /\ ~Watching /\ \A r \in Reqs : ~Working(r)
    BY <1>3 DEF CoreInv, CallerOK
  <2>2. "late" \notin scene.env => \A r \in Reqs : body[r].pc # "reading"
    BY <2>1 DEF CoreInv, BodyOK
  <2>3. \A r \in Reqs : wt[r].pc \notin {"spawned", "reading"}
    BY <2>1 DEF CoreInv, WatchOK, Active
  <2>4. \E r \in Reqs : x = <<"body", r>> /\ body[r].pc = "reading"
    BY <1>3, <2>1, <2>3 DEF Readers
  <2> QED BY <2>2, <2>4
<1> QED BY <1>1, <1>2, <1>3, CoreTypes DEF OneReader

\* At most one task reads the transport, and none once the caller has it.
THEOREM ServerReaders == Spec => []OneReader
<1> QED BY ServerFits, CoreReaders, PTL

(***************************************************************************)
(* Deadlines.                                                               *)
(***************************************************************************)

\* A step leaves the clock, the park, the request and the transport alone; or it ends the
\* request; or the loop moves on with nothing started; or it begins a request, with the
\* clock stopped.
Calm == me'.since = me.since /\ me'.parked = me.parked /\ me'.cur.done = me.cur.done /\ me'.open = me.open
Timed ==
    \/ Calm
    \/ me'.cur.done
    \/ serve'.pc # serve.pc /\ me'.since = me.since /\ me'.parked = me.parked /\ me'.cur.done = me.cur.done
    \/ ~me'.since /\ ~me'.parked /\ me'.open = me.open

\* The accept loop.
LEMMA LoopTimed == ASSUME CoreInv, AcceptLoop \/ Close PROVE Timed
<1> USE Requests
<1>1. serve \in Serving /\ (serve.pc \in Heading \cup Draining => me.cur.done)
  BY DEF CoreInv, Typed, ServeOK
<1>2. CASE BeginRead
  <2>1. CASE UNCHANGED me
    BY <2>1 DEF Timed, Calm
  <2>2. CASE me' = CloseNow(me) /\ serve' = [serve EXCEPT !.pc = "out"]
    BY <1>1, <1>2, <2>2, CloseNowIs DEF Timed, BeginRead, Serving
  <2>3. CASE me' = [me EXCEPT !.cur.reading = TRUE]
    BY <2>3 DEF Timed, Calm, Locked, Current
  <2>4. CASE Ready(me)
    BY <2>4, ReadyIs DEF Timed, Current
  <2> QED BY <1>2, <2>1, <2>2, <2>3, <2>4 DEF BeginRead
<1>3. CASE DrainDone
  <2> DEFINE m == [me EXCEPT !.cur.reading = FALSE]
  <2>1. /\ m \in Locked /\ m.open = me.open /\ m.closed = me.closed /\ m.reusable = me.reusable
        /\ m.w = me.w /\ m.buf = me.buf /\ m.cur.seq = me.cur.seq /\ m.cur \in Current
        /\ m.cur.done = me.cur.done
    BY DEF Locked, Current
  <2>2. Ready(m) \/ (serve.pc = "undrained" /\ me' = CloseNow(m))
    BY <1>3 DEF DrainDone
  <2> HIDE DEF m
  <2>3. CASE Ready(m)
    BY <2>1, <2>3, ReadyIs DEF Timed, Current
  <2>4. CASE serve.pc = "undrained" /\ me' = CloseNow(m)
    BY <1>1, <2>1, <2>4, CloseNowIs DEF Timed, Draining
  <2> QED BY <2>2, <2>3, <2>4
<1>4. ASSUME NEW m \in Locked, m.cur = me.cur, NEW res, HeadReadEnds(m, res), me.cur.done
      PROVE  me'.cur.done
  <2> DEFINE n == [m EXCEPT !.parked = FALSE]
  <2>1. n \in Locked /\ n.cur = me.cur
    BY <1>4 DEF Locked
  <2>2. me' = n \/ me' = CloseNow(n)
    BY <1>4 DEF HeadReadEnds
  <2> HIDE DEF n
  <2> QED BY <1>4, <2>1, <2>2, CloseNowIs
<1>5. CASE HeadRead
  <2>1. me' = me \/ \E res \in Results : HeadReadEnds(me, res)
    BY <1>5 DEF HeadRead
  <2> QED BY <1>1, <1>4, <1>5, <2>1 DEF HeadRead, Heading, Timed
<1>6. CASE TakeWatcherResult
  <2> DEFINE x == IF me.w.handle = None THEN NoWatcher
                  ELSE [me.w EXCEPT !.res = "none", !.data = <<>>]
             m == [me EXCEPT !.w = x]
  <2>1. x \in Watch
    BY EmptySeq DEF NoWatcher, Watch
  <2>2. me' = m \/ HeadReadEnds(m, me.w.res)
    BY <1>6 DEF TakeWatcherResult
  <2> HIDE DEF x
  <2>3. m \in Locked /\ m.cur = me.cur
    BY <2>1 DEF Locked
  <2> HIDE DEF m
  <2>4. me.cur.done
    BY <1>1, <1>6 DEF TakeWatcherResult, Heading
  <2> QED BY <1>4, <2>2, <2>3, <2>4 DEF Timed
<1>7. CASE TakeWatcherHandle \/ CloseJoins
  <2>1. me' = [me EXCEPT !.w.handle = None]
    BY <1>7 DEF TakeWatcherHandle, CloseJoins
  <2> QED BY <2>1 DEF Timed, Calm, Locked
<1>8. CASE Drain \/ RecvHeadBytes \/ Closed
  BY <1>8 DEF Drain, RecvHeadBytes, Closed, Timed, Calm
<1>9. CASE StopServing
  <2>1. me.cur.done /\ me' = [me EXCEPT !.closed = TRUE, !.reusable = FALSE]
    BY <1>1, <1>9 DEF StopServing, Heading
  <2> QED BY <2>1 DEF Timed, Locked
<1>10. CASE Close
  <2>1. me' = CloseNow(me) /\ serve.pc \in {"out", "serving"} /\ serve'.pc \in {"closing", "closed"}
    BY <1>1, <1>10 DEF Close, Serving
  <2> QED BY <2>1, CloseNowIs DEF Timed
<1>11. CASE AcceptHead
  <2>1. me.cur.done
    BY <1>1, <1>11 DEF AcceptHead, Heading
  <2> DEFINE n == [me EXCEPT !.parked = FALSE, !.buf = @ \o serve.data]
  <2>2. n \in Locked /\ n.cur = me.cur /\ n.open = me.open /\ ~n.parked
    <3>1. PICK b \in Seq(ReqItem) : b = me.buf \o serve.data
      BY <1>1, ConcatProperties DEF Locked, Serving
    <3>2. n = [me EXCEPT !.parked = FALSE, !.buf = b]
      BY <3>1
    <3> QED BY <3>1, <3>2 DEF Locked
  <2>3. \/ me' = [me EXCEPT !.parked = FALSE]
        \/ me' = n
        \/ me' = CloseNow(n)
        \/ me' = [n EXCEPT !.buf = <<>>, !.since = FALSE,
                           !.cur = [NoRequest EXCEPT !.seq = n.buf[1].r, !.done = FALSE,
                                                     !.bodyDone = ~HasBody(n.buf[1].r)]]
    BY <1>11 DEF AcceptHead
  <2> HIDE DEF n
  <2>4. CASE me' = [me EXCEPT !.parked = FALSE]
    <3>1. me'.cur = me.cur
      BY <2>4 DEF Locked
    <3> QED BY <2>1, <3>1 DEF Timed
  <2>5. CASE me' = n \/ me' = CloseNow(n)
    <3>1. me'.cur = me.cur
      BY <2>2, <2>5, CloseNowIs
    <3> QED BY <2>1, <3>1 DEF Timed
  <2>6. ASSUME NEW q, me' = [n EXCEPT !.buf = <<>>, !.since = FALSE, !.cur = q] PROVE Timed
    BY <2>2, <2>6 DEF Timed, Locked
  <2> QED BY <2>3, <2>4, <2>5, <2>6
<1> QED BY <1>2, <1>3, <1>5, <1>6, <1>7, <1>8, <1>9, <1>10, <1>11 DEF AcceptLoop

\* What respond_head decides leaves the clock, the end of the request and the slot alone.
Alike(m) ==
    /\ m.since = me.since /\ m.parked = me.parked /\ m.open = me.open /\ m.closed = me.closed
    /\ m.w = me.w /\ m.buf = me.buf
    /\ m.cur.seq = me.cur.seq /\ m.cur.done = me.cur.done /\ m.cur.gone = me.cur.gone
\* Where the handler goes from there.
HeadGoes(r) ==
    \E p \in {"cont", "fail", "userError", "store", "head"} :
        /\ \E mode : hd' = [hd EXCEPT ![r] = [pc |-> p, mode |-> mode]]
        /\ p = "store" => scene.threads
        /\ p = "cont" \/ me.cur.pending \/ ~me.cur.cont

\* respond_head with its arm, as the clock and the slot see it.
LEMMA RespondHeadIs ==
    ASSUME CoreInv, NEW r \in Reqs, RespondHead(r)
    PROVE  /\ \E m \in Locked : Alike(m) /\ m.cur.responded /\ (Arm(m) \/ (me' = m /\ UNCHANGED <<dec, wt>>))
           /\ HeadGoes(r) /\ hdFrame
<1> USE Requests
<1> DEFINE claimed == [me EXCEPT !.cur.responded = TRUE, !.cur.pending = FALSE]
<1>1. PICK mode :
        \/ /\ me' = [claimed EXCEPT !.cur.pending = TRUE] /\ UNCHANGED <<dec, wt>>
           /\ hd' = [hd EXCEPT ![r] = [pc |-> "cont", mode |-> mode]]
        \/ /\ me.cur.pending \/ ~me.cur.cont
           /\ \/ /\ me' = claimed /\ UNCHANGED <<dec, wt>>
                 /\ hd' = [hd EXCEPT ![r] = [pc |-> IF me.cur.gone THEN "fail" ELSE "userError", mode |-> mode]]
              \/ \E keep \in BOOLEAN, switch \in {FALSE} \cup {b \in {TRUE} : kind[r] = "upgrade"} :
                   LET m == [claimed EXCEPT !.cur.keep = keep /\ ~me.shutdown, !.cur.switch = switch,
                                            !.cur.negotiated = TRUE,
                                            !.cur.wanted = @ \/ mode = "push"]
                   IN  /\ Arm(m)
                       /\ hd' = [hd EXCEPT ![r] = [pc |-> IfToStore(m, "store", IF me.open THEN "head" ELSE "fail"),
                                                   mode |-> mode]]
  BY Zenon DEF RespondHead
<1>2. claimed \in Locked /\ claimed.cur \in Current /\ Alike(claimed) /\ claimed.cur.responded
  BY DEF Locked, Current, Alike
<1> HIDE DEF claimed
<1>3. hdFrame
  BY DEF RespondHead
<1>4. ASSUME NEW p \in {"cont", "fail", "userError", "store", "head"}, p = "store" => scene.threads,
             p = "cont" \/ me.cur.pending \/ ~me.cur.cont,
             hd' = [hd EXCEPT ![r] = [pc |-> p, mode |-> mode]]
      PROVE  HeadGoes(r)
  BY <1>4 DEF HeadGoes
<1>5. CASE /\ me' = claimed /\ UNCHANGED <<dec, wt>>
           /\ me.cur.pending \/ ~me.cur.cont
           /\ hd' = [hd EXCEPT ![r] = [pc |-> IF me.cur.gone THEN "fail" ELSE "userError", mode |-> mode]]
  <2>1. HeadGoes(r)
    BY <1>4, <1>5
  <2> QED BY <1>2, <1>3, <1>5, <2>1
<1>6. CASE /\ me' = [claimed EXCEPT !.cur.pending = TRUE] /\ UNCHANGED <<dec, wt>>
           /\ hd' = [hd EXCEPT ![r] = [pc |-> "cont", mode |-> mode]]
  <2>1. me' \in Locked /\ Alike(me') /\ me'.cur.responded
    BY <1>2, <1>6 DEF Locked, Current, Alike
  <2>2. HeadGoes(r)
    BY <1>4, <1>6
  <2> QED BY <1>3, <1>6, <2>1, <2>2
<1>7. ASSUME NEW keep \in BOOLEAN, NEW switch \in {FALSE} \cup {b \in {TRUE} : kind[r] = "upgrade"},
             NEW m,
             m = [claimed EXCEPT !.cur.keep = keep /\ ~me.shutdown, !.cur.switch = switch,
                                 !.cur.negotiated = TRUE, !.cur.wanted = @ \/ mode = "push"],
             Arm(m), me.cur.pending \/ ~me.cur.cont,
             hd' = [hd EXCEPT ![r] = [pc |-> IfToStore(m, "store", IF me.open THEN "head" ELSE "fail"),
                                      mode |-> mode]]
      PROVE  (\E n \in Locked : Alike(n) /\ n.cur.responded /\ Arm(n)) /\ HeadGoes(r)
  <2>3. PICK k \in BOOLEAN, w \in BOOLEAN :
          k = (keep /\ ~me.shutdown) /\ w = (claimed.cur.wanted \/ mode = "push")
    OBVIOUS
  <2>4. PICK q \in Current : q = claimed.cur
    BY <1>2
  <2>5. PICK c : c = Negotiated(q, k, switch, w)
    OBVIOUS
  <2>6. m = [claimed EXCEPT !.cur = c]
    BY <1>2, <1>7, <2>3, <2>4, <2>5 DEF Locked, Current, Negotiated
  <2>7. SameRequest(c, q)
    BY <2>5, NegotiatedIs
  <2>8. m \in Locked /\ Alike(m) /\ m.cur.responded
    BY <1>2, <2>4, <2>6, <2>7 DEF Locked, Alike, SameRequest
  <2>9. HeadGoes(r)
    <3>1. PICK p \in {"fail", "store", "head"} :
            /\ p = IfToStore(m, "store", IF me.open THEN "head" ELSE "fail")
            /\ p = "store" => scene.threads
      BY DEF IfToStore
    <3>2. hd' = [hd EXCEPT ![r] = [pc |-> p, mode |-> mode]]
      BY <1>7, <3>1
    <3> QED BY <1>4, <1>7, <3>1, <3>2
  <2> QED BY <1>7, <2>8, <2>9
<1> QED BY <1>1, <1>3, <1>5, <1>6, <1>7, ZenonT(60)

\* The handler.
LEMMA HandlerTimed == ASSUME CoreInv, NEW r \in Reqs, Handler(r) \/ Detach(r) PROVE Timed
<1> USE Requests
<1>1. r = me.cur.seq \/ hd[r].pc \in {"off", "over"}
  BY DEF CoreInv, ServeOK, Working
<1>2. Typed /\ (me.cur.seq = None => me.cur.done) /\ None \notin Reqs
  BY DEF CoreInv, ServeOK, None, Reqs
<1>3. ASSUME NEW m \in Locked, m.since = me.since, m.parked = me.parked, m.cur.done = me.cur.done,
             m.open = me.open, m.cur.seq = me.cur.seq, Arm(m)
      PROVE  Timed
  BY <1>2, <1>3, ArmIs DEF Timed, Calm
<1>4. CASE RespondHead(r)
  <2>1. PICK m \in Locked : Alike(m) /\ (Arm(m) \/ (me' = m /\ UNCHANGED <<dec, wt>>))
    BY <1>4, RespondHeadIs
  <2> QED BY <1>3, <2>1 DEF Alike, Timed, Calm
<1>5. CASE ArmForBody(r)
  <2> DEFINE m == [me EXCEPT !.cur.wanted = TRUE]
  <2>1. /\ m \in Locked /\ m.since = me.since /\ m.parked = me.parked /\ m.cur.done = me.cur.done
        /\ m.open = me.open /\ m.cur.seq = me.cur.seq
    BY DEF Locked, Current
  <2>2. Arm(m)
    BY <1>5 DEF ArmForBody
  <2> HIDE DEF m
  <2> QED BY <1>3, <2>1, <2>2
<1>6. CASE HandlerStores(r)
  <2>1. me' = Stored(me, r)
    BY <1>6 DEF HandlerStores
  <2> QED BY <2>1 DEF Stored, Timed, Calm, Locked, Watch
<1>7. CASE AfterContinue(r) \/ HandlerJoins(r) \/ WriteHead(r) \/ StreamBody(r)
  BY <1>7 DEF AfterContinue, HandlerJoins, WriteHead, StreamBody, Timed, Calm
<1>8. CASE FinishResponse(r)
  <2> DEFINE n == [me EXCEPT !.cur.done = TRUE, !.reusable = @ /\ me.cur.keep]
  <2>1. n \in Locked /\ n.cur.done
    BY FinishedIs DEF Finished
  <2>2. me' = n \/ me' = CloseNow(n) \/ me' = [CloseNow(n) EXCEPT !.upgraded = TRUE, !.buf = <<>>]
    BY <1>8 DEF FinishResponse
  <2> HIDE DEF n
  <2>3. CloseNow(n) \in Locked /\ CloseNow(n).cur.done
    BY <2>1, CloseNowIs
  <2> QED BY <2>1, <2>2, <2>3 DEF Timed, Locked
<1>9. CASE FailResponse(r)
  <2> DEFINE n == [me EXCEPT !.cur.done = TRUE]
  <2>1. n \in Locked /\ n.cur.done
    BY DEF Locked, Current
  <2>2. me' = CloseNow(n)
    BY <1>9 DEF FailResponse
  <2> HIDE DEF n
  <2> QED BY <2>1, <2>2, CloseNowIs DEF Timed
<1>10. CASE Detach(r)
  <2> DEFINE n == CloseNow(me)
  <2>1. n \in Locked
    BY CloseNowIs
  <2>2. me' = [n EXCEPT !.upgraded = TRUE, !.buf = <<>>, !.w.data = <<>>,
                        !.cur.responded = TRUE, !.cur.done = TRUE]
    BY <1>10 DEF Detach
  <2> HIDE DEF n
  <2>3. me'.cur.done
    BY <2>1, <2>2 DEF Locked, Current
  <2> QED BY <2>3 DEF Timed
<1> QED BY <1>4, <1>5, <1>6, <1>7, <1>8, <1>9, <1>10 DEF Handler

\* The reader of a body, a call of peer_closed() and the watcher.
LEMMA OthersTimed ==
    ASSUME CoreInv, NEW r \in Reqs,
           ReadBody(r) \/ BodyReader(r) \/ PeerClosed(r) \/ PeerWaiter(r) \/ Watcher(r)
    PROVE  Timed
<1> USE Requests
<1>2. Typed /\ (me.cur.seq = None => me.cur.done)
  BY DEF CoreInv, ServeOK
<1>3. ASSUME NEW m \in Locked, m.since = me.since, m.parked = me.parked, m.cur.done = me.cur.done,
             m.open = me.open, m.cur.seq = me.cur.seq, Arm(m)
      PROVE  Timed
  BY <1>2, <1>3, ArmIs DEF Timed, Calm
<1>4. CASE ReadBody(r)
  <2>1. me' = me \/ me' = [me EXCEPT !.cur.cont = TRUE]
    BY <1>4 DEF ReadBody
  <2> QED BY <2>1 DEF Timed, Calm, Locked, Current
<1>5. CASE DecodeBody(r)
  <2>1. me' = me \/ me' = [me EXCEPT !.reusable = FALSE] \/ me' = [me EXCEPT !.cur.reading = TRUE]
    BY <1>5 DEF DecodeBody, BodyRaises
  <2> QED BY <2>1 DEF Timed, Calm, Locked, Current
<1>6. CASE ReadBodyMore(r)
  <2> DEFINE n == IF IsCurrent(r) THEN [me EXCEPT !.cur.reading = FALSE] ELSE me
  <2>1. me' = n \/ me' = [n EXCEPT !.reusable = FALSE]
    BY <1>6 DEF ReadBodyMore, BodyRaises
  <2>2. n \in Locked /\ n.since = me.since /\ n.parked = me.parked /\ n.cur.done = me.cur.done
        /\ n.open = me.open
    <3> DEFINE x == [me EXCEPT !.cur.reading = FALSE]
    <3>1. x \in Locked /\ x.since = me.since /\ x.parked = me.parked /\ x.cur.done = me.cur.done
          /\ x.open = me.open
      BY DEF Locked, Current
    <3>2. n = x \/ n = me
      OBVIOUS
    <3> HIDE DEF n, x
    <3> QED BY <3>1, <3>2
  <2> HIDE DEF n
  <2>3. CASE me' = n
    BY <2>2, <2>3 DEF Timed, Calm
  <2>4. CASE me' = [n EXCEPT !.reusable = FALSE]
    BY <2>2, <2>4 DEF Timed, Calm, Locked
  <2> QED BY <2>1, <2>3, <2>4
<1>7. CASE WriteContinue(r) \/ FeedBody(r)
  BY <1>7 DEF WriteContinue, FeedBody, Timed, Calm
<1>8. CASE EndBody(r)
  <2> DEFINE m == [me EXCEPT !.cur.reading = FALSE, !.cur.bodyDone = TRUE]
  <2>1. /\ m \in Locked /\ m.since = me.since /\ m.parked = me.parked /\ m.cur.done = me.cur.done
        /\ m.open = me.open /\ m.cur.seq = me.cur.seq
    BY DEF Locked, Current
  <2>2. Arm(m) \/ me' = me
    BY <1>8 DEF EndBody
  <2> HIDE DEF m
  <2> QED BY <1>3, <2>1, <2>2 DEF Timed, Calm
<1>9. CASE BodyStores(r) \/ PeerStores(r) \/ PeerWaits(r)
  <2>1. me' = me \/ me' = Stored(me, r)
    BY <1>9 DEF BodyStores, PeerStores, PeerWaits
  <2> QED BY <2>1 DEF Stored, Timed, Calm, Locked, Watch
<1>10. CASE PeerClosed(r)
  <2> DEFINE m == [me EXCEPT !.cur.wanted = TRUE]
  <2>1. /\ m \in Locked /\ m.since = me.since /\ m.parked = me.parked /\ m.cur.done = me.cur.done
        /\ m.open = me.open /\ m.cur.seq = me.cur.seq
    BY DEF Locked, Current
  <2>2. Arm(m) \/ me' = me
    BY <1>10 DEF PeerClosed
  <2> HIDE DEF m
  <2> QED BY <1>3, <2>1, <2>2 DEF Timed, Calm
<1>11. CASE WatcherStarts(r) \/ WatcherReads(r)
  <2>1. me' = me \/ me' = [me EXCEPT !.w.completed = TRUE]
    BY <1>11 DEF WatcherStarts, WatcherReads
  <2> QED BY <2>1 DEF Timed, Calm, Locked, Watch
<1>12. CASE WatcherCompleted(r)
  <2> DEFINE n == [me EXCEPT !.w = [@ EXCEPT !.res = wt[r].res, !.data = wt[r].data,
                                             !.completed = TRUE]]
  <2>1. me' = me \/ me' = n \/ me' = [n EXCEPT !.reusable = FALSE, !.cur.gone = TRUE]
    BY <1>12 DEF WatcherCompleted
  <2>2. n.since = me.since /\ n.parked = me.parked /\ n.cur = me.cur /\ n.open = me.open
    BY DEF Locked
  <2>3. DOMAIN n = DOMAIN me
    OBVIOUS
  <2> HIDE DEF n
  <2>4. CASE me' = [n EXCEPT !.reusable = FALSE, !.cur.gone = TRUE]
    BY <2>2, <2>3, <2>4 DEF Timed, Calm, Locked, Current
  <2> QED BY <2>1, <2>2, <2>4 DEF Timed, Calm
<1> QED BY <1>4, <1>5, <1>6, <1>7, <1>8, <1>9, <1>10, <1>11, <1>12
        DEF BodyReader, PeerWaiter, Watcher

\* The clock runs, and a read is parked, between requests only: so neither the deadline nor
\* a shutdown closes the transport of a request.
LEMMA NextTimed ==
    ASSUME CoreInv, ClockOK, [Next]_vars
    PROVE  /\ ClockOK'
           /\ InRequest /\ me.open /\ ~me'.open => me'.cur.done \/ serve.pc # serve'.pc
<1> USE Requests
<1>1. Timed
  <2>1. CASE Client \/ UNCHANGED vars
    BY <2>1 DEF Client, ClientSends, ClientShutsDown, ClientResets, vars, Timed, Calm
  <2>2. CASE Overdue
    <3>1. me' = CloseNow(me) /\ me.cur.done
      BY <2>2 DEF Overdue, ClockOK
    <3> QED BY <3>1, CloseNowIs DEF Timed
  <2>3. CASE RequestShutdown
    <3> DEFINE n == [me EXCEPT !.reusable = FALSE, !.shutdown = TRUE]
    <3>1. /\ n \in Locked /\ n.cur = me.cur /\ n.open = me.open /\ n.since = me.since
          /\ n.parked = me.parked
      BY DEF Locked
    <3>2. me' = n \/ (me.parked /\ me' = CloseNow(n))
      BY <2>3 DEF RequestShutdown
    <3> HIDE DEF n
    <3> QED BY <3>1, <3>2, CloseNowIs DEF Timed, Calm, ClockOK
  <2> QED BY <2>1, <2>2, <2>3, LoopTimed, HandlerTimed, OthersTimed DEF Next
<1>2. me.cur.done \in BOOLEAN
  BY DEF Current
<1> QED BY <1>1, <1>2 DEF Timed, Calm, ClockOK, InRequest

\* Neither a shutdown nor the head-read deadline cuts a request short.
THEOREM ServerNeverCutShort == Spec => NeverCutShort
<1>1. Init => ClockOK
  BY DEF Init, ClockOK
<1>2. CoreInv /\ ClockOK /\ [Next]_vars =>
        ClockOK' /\ (InRequest /\ me.open /\ ~me'.open => me'.cur.done \/ serve.pc # serve'.pc)
  BY NextTimed
<1>3. CoreInv /\ ClockOK /\ [Next]_vars =>
        [InRequest /\ me.open /\ ~me'.open => me'.cur.done \/ serve.pc # serve'.pc]_vars
  BY <1>2
<1> QED BY <1>1, <1>2, <1>3, ServerFits, PTL DEF Spec, NeverCutShort

(***************************************************************************)
(* Ends.                                                                    *)
(***************************************************************************)

\* A step leaves what the slot and the watchers say of the client's end, or forgets it.
SlotKept ==
    /\ me.closed => me'.closed
    /\ scene.threads \/ (me'.w.slot /\ me'.w.completed =>
                           me.w.slot /\ me.w.completed /\ me'.w.res = me.w.res)
    /\ me'.w.res \in {me.w.res, "none"}
    /\ scene.threads \/ me'.w.handle \in {me.w.handle, None} \/ ~me.w.slot
    /\ me'.cur.gone => me.cur.gone
    /\ \A r \in Reqs : wt'[r].res = wt[r].res /\ (wt'[r].pc = "result" => wt[r].pc = "result")

\* The places that a step enters with one thread, and the end that the loop sees.
Entered ==
    ~scene.threads =>
        /\ \A r \in Reqs :
             /\ hd'[r].pc \in {"store", "storeBody"} => hd[r].pc \in {"store", "storeBody"}
             /\ body'[r].pc = "store" => body[r].pc = "store"
             /\ peer'[r] = "store" => peer[r] = "store"
        /\ serve'.pc = "take" => serve.pc = "take" \/ me'.w.handle = None
        /\ serve'.end = "eof" => serve.end = "eof" \/ fin

\* An open socket was open before, and the client does not take its end back.
LEMMA SocketOnward ==
    ASSUME CoreInv, [Next]_vars
    PROVE  scene' = scene /\ (fin => fin') /\ (sock' = "open" => sock = "open")
<1>1. ASSUME \/ sock' = sock
             \/ \E how \in {"orderly", "abort", "caller"} : Ends(how)
      PROVE  sock' = "open" => sock = "open"
  BY <1>1 DEF Ends
<1>2. CASE UNCHANGED vars
  BY <1>2 DEF vars
<1>3. CASE Client
  BY <1>3 DEF Client, ClientSends, ClientShutsDown, ClientResets
<1>4. CASE AcceptLoop \/ Close
  <2>1. scene' = scene /\ fin' = fin
    BY <1>4 DEF AcceptLoop, BeginRead, Drain, DrainDone, HeadRead, TakeWatcherHandle,
                TakeWatcherResult, AcceptHead, RecvHeadBytes, StopServing, CloseJoins, Closed,
                Close, serveFrame
  <2>2. \A m, res : HeadReadEnds(m, res) => sock' = sock \/ Ends("abort")
    BY DEF HeadReadEnds
  <2>3. CASE TakeWatcherResult
    <3>1. sock' = sock \/ \E m, res : HeadReadEnds(m, res)
      BY <2>3 DEF TakeWatcherResult
    <3> QED BY <1>1, <2>1, <2>2, <3>1
  <2>4. CASE HeadRead
    <3>1. sock' = sock \/ \E m, res : HeadReadEnds(m, res)
      BY <2>4 DEF HeadRead
    <3> QED BY <1>1, <2>1, <2>2, <3>1
  <2>5. CASE ~TakeWatcherResult /\ ~HeadRead
    <3>1. \/ sock' = sock
          \/ \E how \in {"orderly", "abort", "caller"} : Ends(how)
      BY <1>4, <2>5 DEF AcceptLoop, BeginRead, Drain, DrainDone, TakeWatcherHandle,
                        AcceptHead, RecvHeadBytes, StopServing, CloseJoins, Closed, Close
    <3> QED BY <1>1, <2>1, <3>1
  <2> QED BY <2>3, <2>4, <2>5
<1>5. CASE Overdue \/ RequestShutdown
  BY <1>1, <1>5 DEF Overdue, RequestShutdown, timeFrame
<1>6. ASSUME NEW r \in Reqs, Handler(r) \/ Detach(r)
      PROVE  scene' = scene /\ (fin => fin') /\ (sock' = "open" => sock = "open")
  <2>1. CASE FinishResponse(r)
    <3>1. scene' = scene /\ fin' = fin
      BY <2>1 DEF FinishResponse, hdFrame
    <3>2. sock' = sock \/ Ends("caller") \/ Ends("orderly")
      BY <2>1 DEF FinishResponse
    <3> QED BY <1>1, <3>1, <3>2
  <2>2. CASE FailResponse(r)
    <3>1. scene' = scene /\ fin' = fin
      BY <2>2 DEF FailResponse, hdFrame
    <3>2. Ends(IF hd[r].pc = "fail" THEN "abort" ELSE "orderly")
      BY <2>2 DEF FailResponse
    <3>3. Ends("abort") \/ Ends("orderly")
      BY <3>2
    <3> QED BY <1>1, <3>1, <3>3
  <2>3. CASE Detach(r)
    <3>1. scene' = scene /\ fin' = fin
      BY <2>3 DEF Detach, hdFrame
    <3>2. Ends("caller")
      BY <2>3 DEF Detach
    <3> QED BY <1>1, <3>1, <3>2
  <2>4. CASE RespondHead(r)
    <3>1. UNCHANGED sock /\ hdFrame
      BY <2>4 DEF RespondHead
    <3> QED BY <3>1 DEF hdFrame
  <2>5. CASE \/ AfterContinue(r) \/ HandlerStores(r) \/ HandlerJoins(r)
             \/ WriteHead(r) \/ ArmForBody(r) \/ StreamBody(r)
    <3>1. UNCHANGED sock /\ hdFrame
      BY <2>5 DEF AfterContinue, HandlerStores, HandlerJoins, WriteHead, ArmForBody, StreamBody
    <3> QED BY <3>1 DEF hdFrame
  <2> QED BY <1>6, <2>1, <2>2, <2>3, <2>4, <2>5 DEF Handler
<1>7. ASSUME NEW r \in Reqs, ReadBody(r) \/ BodyReader(r)
      PROVE  scene' = scene /\ fin' = fin /\ sock' = sock
  BY <1>7 DEF ReadBody, BodyReader, WriteContinue, DecodeBody, ReadBodyMore, FeedBody, EndBody,
              BodyStores, bodyFrame
<1>8. ASSUME NEW r \in Reqs, PeerClosed(r) \/ PeerWaiter(r) \/ Watcher(r)
      PROVE  scene' = scene /\ fin' = fin /\ sock' = sock
  BY <1>8 DEF PeerClosed, PeerWaiter, PeerStores, PeerWaits, peerFrame, Watcher, WatcherStarts,
              WatcherReads, WatcherCompleted, watchFrame
<1> QED BY <1>2, <1>3, <1>4, <1>5, <1>6, <1>7, <1>8 DEF Next

\* What was true of the end stays true, whoever says it.
LEMMA EndsStep ==
    ASSUME CoreInv, EndsOK, [Next]_vars, SlotKept, Entered
    PROVE  EndsOK'
<1>1. scene' = scene /\ (fin => fin') /\ (sock' = "open" => sock = "open")
  BY SocketOnward
<1>2. ReadsTrue'
  BY <1>1 DEF EndsOK, ReadsTrue, True, SlotKept
<1>3. serve.pc = "take" => me.w.slot
  BY DEF CoreInv, WatchOK
<1>4. OneThread'
  BY <1>1, <1>3 DEF EndsOK, OneThread, SlotKept, Entered
<1> QED BY <1>2, <1>4 DEF EndsOK

\* The accept loop, of which only the hand-off of the watcher's read empties the slot.
LEMMA LoopEnds == ASSUME CoreInv, EndsOK, AcceptLoop \/ Close PROVE SlotKept /\ Entered
<1> USE Requests
<1>1. serve \in Serving /\ me.w.res \in Results \cup {"none"}
  BY DEF CoreInv, Typed, Watch
<1>2. ASSUME UNCHANGED <<hd, body, peer>>, serve'.pc # "take", serve'.end = "eof" => serve.end = "eof" \/ fin
      PROVE  Entered
  BY <1>2 DEF Entered
<1>3. ASSUME me'.w = me.w, me'.cur.gone => me.cur.gone, me.closed => me'.closed, wt' = wt
      PROVE  SlotKept
  BY <1>3 DEF SlotKept
<1>4. CASE BeginRead
  <2>1. /\ UNCHANGED <<hd, body, peer, wt>>
        /\ \/ me' = me /\ \E p \in {"out"} : serve' = [serve EXCEPT !.pc = p]
           \/ me' = CloseNow(me) /\ serve' = [serve EXCEPT !.pc = "out"]
           \/ me' = [me EXCEPT !.cur.reading = TRUE] /\ serve' = [serve EXCEPT !.pc = "drain"]
           \/ Ready(me)
    BY <1>4 DEF BeginRead, serveFrame
  <2>2. CASE Ready(me)
    <3>1. /\ me'.w = me.w /\ me'.closed = me.closed /\ me'.cur = [me.cur EXCEPT !.done = TRUE, !.bodyDone = TRUE]
          /\ serve' = [serve EXCEPT !.pc = serve'.pc, !.on = serve'.on]
          /\ serve'.pc \in {"parse", "none", "watch", "read"}
      BY <2>2, ReadyIs
    <3>2. me'.cur.gone = me.cur.gone /\ serve'.end = serve.end
      BY <1>1, <3>1 DEF Current, Serving
    <3> QED BY <1>2, <1>3, <2>1, <3>1, <3>2
  <2>3. CASE ~Ready(me)
    <3>1. me'.w = me.w /\ me'.cur.gone = me.cur.gone /\ (me.closed => me'.closed)
      BY <2>1, <2>3, CloseNowIs DEF Locked, Current
    <3>2. serve'.end = serve.end /\ serve'.pc \in {"out", "drain"}
      BY <1>1, <2>1, <2>3 DEF Serving
    <3> QED BY <1>2, <1>3, <2>1, <3>1, <3>2
  <2> QED BY <2>2, <2>3
<1>5. CASE DrainDone
  <2> DEFINE m == [me EXCEPT !.cur.reading = FALSE]
  <2>1. /\ m \in Locked /\ m.open = me.open /\ m.closed = me.closed /\ m.reusable = me.reusable
        /\ m.w = me.w /\ m.buf = me.buf /\ m.cur.seq = me.cur.seq /\ m.cur \in Current
        /\ m.cur.gone = me.cur.gone
    BY DEF Locked, Current
  <2>2. /\ UNCHANGED <<hd, body, peer, wt>>
        /\ Ready(m) \/ (me' = CloseNow(m) /\ serve' = [serve EXCEPT !.pc = "out"])
    BY <1>5 DEF DrainDone, serveFrame
  <2> HIDE DEF m
  <2>3. CASE Ready(m)
    <3>1. /\ me'.w = me.w /\ me'.closed = me.closed /\ me'.cur = [m.cur EXCEPT !.done = TRUE, !.bodyDone = TRUE]
          /\ serve' = [serve EXCEPT !.pc = serve'.pc, !.on = serve'.on]
          /\ serve'.pc \in {"parse", "none", "watch", "read"}
      BY <2>1, <2>3, ReadyIs
    <3>2. me'.cur.gone = me.cur.gone /\ serve'.end = serve.end
      BY <1>1, <2>1, <3>1 DEF Current, Serving
    <3> QED BY <1>2, <1>3, <2>2, <3>1, <3>2
  <2>4. CASE me' = CloseNow(m) /\ serve' = [serve EXCEPT !.pc = "out"]
    <3>1. me'.w = me.w /\ me'.cur.gone = me.cur.gone /\ me'.closed
      BY <2>1, <2>4, CloseNowIs
    <3>2. serve'.end = serve.end /\ serve'.pc = "out"
      BY <1>1, <2>4 DEF Serving
    <3> QED BY <1>2, <1>3, <2>2, <3>1, <3>2
  <2> QED BY <2>2, <2>3, <2>4
<1>6. ASSUME NEW m \in Locked, m.cur = me.cur, m.closed = me.closed, NEW res, HeadReadEnds(m, res),
             ~m.closed /\ res # "error" => scene.threads \/ fin
      PROVE  /\ me'.w = m.w /\ me'.cur = me.cur /\ (me.closed => me'.closed)
             /\ serve'.pc \in {"out", "none"}
             /\ scene.threads \/ (serve'.end = "eof" => serve.end = "eof" \/ fin)
  <2> DEFINE n == [m EXCEPT !.parked = FALSE]
  <2>1. n \in Locked /\ n.cur = me.cur /\ n.closed = me.closed /\ n.w = m.w
    BY <1>6 DEF Locked
  <2>2. \/ /\ me' = CloseNow(n)
           /\ serve' = [serve EXCEPT !.pc = "out", !.on = None]
        \/ /\ me' = n /\ (res = "error" => m.closed)
           /\ serve' = [serve EXCEPT !.pc = "none", !.on = None,
                                     !.end = IF m.closed THEN "closed" ELSE "eof"]
    BY <1>6 DEF HeadReadEnds
  <2> HIDE DEF n
  <2>3. CASE me' = CloseNow(n) /\ serve' = [serve EXCEPT !.pc = "out", !.on = None]
    <3>1. serve'.pc = "out" /\ serve'.end = serve.end
      BY <1>1, <2>3 DEF Serving
    <3> QED BY <2>1, <2>3, <3>1, CloseNowIs
  <2>4. CASE /\ me' = n /\ (res = "error" => m.closed)
             /\ serve' = [serve EXCEPT !.pc = "none", !.on = None,
                                       !.end = IF m.closed THEN "closed" ELSE "eof"]
    <3>1. serve'.pc = "none" /\ (serve'.end = "eof" => ~m.closed)
      BY <1>1, <2>4 DEF Serving
    <3> QED BY <1>6, <2>1, <2>4, <3>1
  <2> QED BY <2>2, <2>3, <2>4
<1>7. CASE HeadRead
  <2>1. PICK res \in Results :
          /\ UNCHANGED <<hd, body, peer, wt>> /\ (res = "eof" => fin)
          /\ \/ res = "data" /\ me' = me /\ \E d : serve' = [serve EXCEPT !.pc = "got", !.data = d]
             \/ res # "data" /\ HeadReadEnds(me, res)
    BY <1>7 DEF HeadRead, serveFrame, Reads
  <2>2. CASE me' = me /\ \E d : serve' = [serve EXCEPT !.pc = "got", !.data = d]
    <3>1. serve'.pc = "got" /\ serve'.end = serve.end
      BY <1>1, <2>2 DEF Serving
    <3> QED BY <1>2, <1>3, <2>1, <2>2, <3>1
  <2>3. CASE res # "data" /\ HeadReadEnds(me, res)
    <3>1. res # "error" => fin
      BY <2>1, <2>3 DEF Results
    <3>2. /\ me'.w = me.w /\ me'.cur = me.cur /\ (me.closed => me'.closed)
          /\ serve'.pc \in {"out", "none"}
          /\ scene.threads \/ (serve'.end = "eof" => serve.end = "eof" \/ fin)
      BY <1>6, <2>3, <3>1
    <3>3. SlotKept
      BY <1>3, <2>1, <3>2
    <3>4. Entered
      BY <2>1, <3>2 DEF Entered
    <3> QED BY <3>3, <3>4
  <2> QED BY <2>1, <2>2, <2>3
<1>8. CASE TakeWatcherResult
  <2> DEFINE x == IF me.w.handle = None THEN NoWatcher
                  ELSE [me.w EXCEPT !.res = "none", !.data = <<>>]
             m == [me EXCEPT !.w = x]
  <2>1. x \in Watch /\ x.res = "none" /\ (x.slot => me.w.handle # None) /\ x.handle = me.w.handle
    BY EmptySeq DEF NoWatcher, Watch
  <2>2. /\ UNCHANGED <<hd, body, peer, wt>> /\ serve.pc = "take"
        /\ \/ me' = m /\ \E d : serve' = [serve EXCEPT !.pc = "got", !.data = d, !.on = None]
           \/ me.w.res # "data" /\ HeadReadEnds(m, me.w.res)
    BY <1>8 DEF TakeWatcherResult, serveFrame
  <2> HIDE DEF x
  <2>3. m \in Locked /\ m.cur = me.cur /\ m.closed = me.closed /\ m.w = x
    BY <2>1 DEF Locked
  <2> HIDE DEF m
  <2>4. ~scene.threads => me.w.handle = None /\ (me.w.res = "none" => me.closed)
    BY <2>2 DEF EndsOK, OneThread, CoreInv, WatchOK
  <2>5. me.w.res = "eof" => fin
    BY DEF EndsOK, ReadsTrue, True
  <2>6. ASSUME me'.w = x, me'.cur = me.cur, me.closed => me'.closed PROVE SlotKept
    BY <2>1, <2>2, <2>4, <2>6 DEF SlotKept
  <2>7. CASE me' = m /\ \E d : serve' = [serve EXCEPT !.pc = "got", !.data = d, !.on = None]
    <3>1. serve'.pc = "got" /\ serve'.end = serve.end
      BY <1>1, <2>7 DEF Serving
    <3> QED BY <1>2, <2>2, <2>3, <2>6, <2>7, <3>1
  <2>8. CASE me.w.res # "data" /\ HeadReadEnds(m, me.w.res)
    <3>1. ~m.closed /\ me.w.res # "error" => scene.threads \/ fin
      BY <1>1, <2>3, <2>4, <2>5, <2>8 DEF Results
    <3>2. /\ me'.w = m.w /\ me'.cur = me.cur /\ (me.closed => me'.closed)
          /\ serve'.pc \in {"out", "none"}
          /\ scene.threads \/ (serve'.end = "eof" => serve.end = "eof" \/ fin)
      BY <1>6, <2>3, <2>8, <3>1
    <3>3. Entered
      BY <2>2, <3>2 DEF Entered
    <3> QED BY <2>3, <2>6, <3>2, <3>3
  <2> QED BY <2>2, <2>7, <2>8
<1>9. CASE TakeWatcherHandle \/ CloseJoins
  <2>1. /\ UNCHANGED <<hd, body, peer, wt>> /\ me' = [me EXCEPT !.w.handle = None]
        /\ \E p \in {"take", "joining"} : serve' = [serve EXCEPT !.pc = p, !.on = me.w.handle]
    BY <1>9 DEF TakeWatcherHandle, CloseJoins, serveFrame
  <2>2. me'.w = [me.w EXCEPT !.handle = None] /\ me'.cur = me.cur /\ me'.closed = me.closed
    BY <2>1 DEF Locked
  <2>3. me'.w.slot = me.w.slot /\ me'.w.completed = me.w.completed /\ me'.w.res = me.w.res
        /\ me'.w.handle = None
    BY <2>2 DEF Watch
  <2>4. serve'.end = serve.end
    BY <1>1, <2>1 DEF Serving
  <2> QED BY <2>1, <2>2, <2>3, <2>4 DEF SlotKept, Entered
<1>10. CASE Drain \/ RecvHeadBytes \/ Closed
  <2>1. UNCHANGED <<hd, body, peer, wt>> /\ me' = me
    BY <1>10 DEF Drain, RecvHeadBytes, Closed, serveFrame
  <2>2. \/ \E p \in {"drained", "undrained"} : serve' = [serve EXCEPT !.pc = p]
        \/ serve' = [serve EXCEPT !.pc = "watch", !.on = me.w.on]
        \/ serve' = [serve EXCEPT !.pc = "read"]
        \/ serve' = [serve EXCEPT !.pc = "none", !.end = "closed"]
        \/ serve' = [serve EXCEPT !.pc = "closed", !.on = None]
    <3>1. CASE Drain
      <4>1. PICK p \in {"drained", "undrained"} : serve' = [serve EXCEPT !.pc = p]
        BY <3>1 DEF Drain
      <4> QED BY <4>1
    <3>2. CASE RecvHeadBytes \/ Closed
      BY <3>2 DEF RecvHeadBytes, Closed
    <3> QED BY <1>10, <3>1, <3>2
  <2>3. serve'.pc # "take" /\ (serve'.end = "eof" => serve.end = "eof")
    BY <1>1, <2>2 DEF Serving
  <2> QED BY <1>2, <1>3, <2>1, <2>3
<1>11. CASE StopServing \/ Close
  <2>1. /\ UNCHANGED <<hd, body, peer, wt>>
        /\ me' = [me EXCEPT !.closed = TRUE, !.reusable = FALSE] \/ me' = CloseNow(me)
        /\ \/ serve' = [serve EXCEPT !.pc = "out"]
           \/ \E p \in {"closing", "closed"} : serve' = [serve EXCEPT !.pc = p, !.on = me.w.on]
    BY <1>11 DEF StopServing, Close, serveFrame
  <2>2. me'.w = me.w /\ me'.cur = me.cur /\ me'.closed
    BY <2>1, CloseNowIs DEF Locked
  <2>3. serve'.pc # "take" /\ serve'.end = serve.end
    BY <1>1, <2>1 DEF Serving
  <2> QED BY <1>2, <1>3, <2>1, <2>2, <2>3
<1>12. CASE AcceptHead
  <2> DEFINE n == [me EXCEPT !.parked = FALSE, !.buf = @ \o serve.data]
  <2>1. n \in Locked /\ n.cur = me.cur /\ n.closed = me.closed /\ n.w = me.w
    <3>1. PICK b \in Seq(ReqItem) : b = me.buf \o serve.data
      BY <1>1, ConcatProperties DEF Locked, Serving
    <3>2. n = [me EXCEPT !.parked = FALSE, !.buf = b]
      BY <3>1
    <3> QED BY <3>1, <3>2 DEF Locked
  <2>2. /\ UNCHANGED <<body, peer, wt>>
        /\ \/ me' = [me EXCEPT !.parked = FALSE] /\ UNCHANGED hd
           \/ me' = n /\ UNCHANGED hd
           \/ me' = CloseNow(n) /\ UNCHANGED hd
           \/ \E q, s : /\ me' = [n EXCEPT !.buf = <<>>, !.since = FALSE,
                                           !.cur = [NoRequest EXCEPT !.seq = s, !.done = FALSE,
                                                                     !.bodyDone = q]]
                        /\ hd' = [hd EXCEPT ![s].pc = "start"]
    BY <1>12 DEF AcceptHead
  <2>3. \/ serve' = [serve EXCEPT !.pc = "mid", !.data = <<>>]
        \/ serve' = [serve EXCEPT !.pc = "serving", !.data = <<>>]
        \/ serve' = [serve EXCEPT !.pc = "out", !.data = <<>>, !.end = "parse"]
    BY <1>12 DEF AcceptHead
  <2> HIDE DEF n
  <2>4. me'.w = me.w /\ (me'.cur.gone => me.cur.gone) /\ (me.closed => me'.closed)
    <3>1. CASE me' = [me EXCEPT !.parked = FALSE] \/ me' = n \/ me' = CloseNow(n)
      BY <2>1, <3>1, CloseNowIs DEF Locked
    <3>2. ASSUME NEW q, NEW s,
                 me' = [n EXCEPT !.buf = <<>>, !.since = FALSE,
                                 !.cur = [NoRequest EXCEPT !.seq = s, !.done = FALSE, !.bodyDone = q]]
          PROVE  me'.w = me.w /\ ~me'.cur.gone /\ me'.closed = me.closed
      BY <2>1, <3>2 DEF Locked, NoRequest
    <3> QED BY <2>2, <3>1, <3>2
  <2>5. serve'.pc # "take" /\ (serve'.end = "eof" => serve.end = "eof")
    BY <1>1, <2>3 DEF Serving
  <2>6. \A r \in Reqs : hd'[r].pc \in {"store", "storeBody"} => hd[r].pc \in {"store", "storeBody"}
    <3>1. hd \in Handlers
      BY DEF CoreInv, Typed
    <3>2. ASSUME NEW s, hd' = [hd EXCEPT ![s].pc = "start"], NEW r \in Reqs
          PROVE  hd'[r].pc \in {hd[r].pc, "start"}
      BY <3>1, <3>2 DEF Handlers
    <3>3. hd' = hd \/ \E s : hd' = [hd EXCEPT ![s].pc = "start"]
      BY <2>2
    <3> QED BY <3>2, <3>3
  <2> QED BY <1>3, <2>2, <2>4, <2>5, <2>6 DEF Entered
<1> QED BY <1>4, <1>5, <1>7, <1>8, <1>9, <1>10, <1>11, <1>12 DEF AcceptLoop

\* A parked read begins with nothing said, and its handle is stored at once unless tasks run
\* in parallel.
LEMMA ArmSlot ==
    ASSUME CoreInv, NEW m \in Locked, Arm(m), m.closed = me.closed, m.w = me.w,
           m.cur.gone = me.cur.gone, m.cur.seq = me.cur.seq, m.cur.done = me.cur.done
    PROVE  SlotKept
<1> USE Requests
<1>1. /\ Typed /\ (m.cur.seq = None => m.cur.done) /\ wt \in Watchers
      /\ m.cur.seq \in Reqs \cup {None}
  BY DEF CoreInv, ServeOK, Typed
<1>2. /\ me'.cur = m.cur /\ me'.closed = me.closed
      /\ Armed(m) =>
           /\ m.cur.seq \in Reqs /\ ~m.w.slot
           /\ me'.w = [NoWatcher EXCEPT !.slot = TRUE, !.on = m.cur.seq,
                                        !.handle = IF scene.threads THEN None ELSE m.cur.seq]
           /\ wt' = [wt EXCEPT ![m.cur.seq].pc = "spawned"]
      /\ ~Armed(m) => me'.w = m.w /\ wt' = wt
  BY <1>1, ArmIs
<1>3. CASE Armed(m)
  <2>1. me'.w.res = "none" /\ ~me'.w.completed
    BY <1>2, <1>3 DEF NoWatcher
  <2>2. \A r \in Reqs : wt'[r].res = wt[r].res /\ (wt'[r].pc = "result" => wt[r].pc = "result")
    BY <1>1, <1>2, <1>3 DEF Watchers
  <2> QED BY <1>2, <1>3, <2>1, <2>2 DEF SlotKept
<1>4. CASE ~Armed(m)
  BY <1>2, <1>4 DEF SlotKept
<1> QED BY <1>3, <1>4

\* A task stores its handle on threads only.
LEMMA StoredSlot ==
    ASSUME CoreInv, NEW r \in Reqs, me' = Stored(me, r), wt' = wt, scene.threads
    PROVE  SlotKept
<1> USE Requests
<1>1. me' = me \/ me' = [me EXCEPT !.w.handle = r]
  BY DEF Stored
<1> QED BY <1>1 DEF SlotKept, Locked, Watch

\* Nothing but the request changes.
LEMMA StillSlot ==
    ASSUME me'.w = me.w, me'.cur.gone => me.cur.gone, me.closed => me'.closed, wt' = wt
    PROVE  SlotKept
BY DEF SlotKept

\* The handler.
LEMMA HandlerEnds ==
    ASSUME CoreInv, EndsOK, NEW r \in Reqs, Handler(r) \/ Detach(r)
    PROVE  SlotKept /\ Entered
<1> USE Requests
<1>1. hd \in Handlers
  BY DEF CoreInv, Typed
<1>2. ~scene.threads => hd[r].pc \notin {"store", "storeBody"}
  BY DEF EndsOK, OneThread
<1>3. ASSUME UNCHANGED <<serve, body, peer>>, NEW p, scene.threads \/ p \notin {"store", "storeBody"},
             hd' = [hd EXCEPT ![r].pc = p]
      PROVE  Entered
  <2>1. \A s \in Reqs : hd'[s].pc \in {hd[s].pc, p}
    BY <1>1, <1>3 DEF Handlers
  <2> QED BY <1>3, <2>1 DEF Entered
<1>4. CASE RespondHead(r)
  <2>1. PICK m \in Locked : Alike(m) /\ (Arm(m) \/ (me' = m /\ UNCHANGED <<dec, wt>>))
    BY <1>4, RespondHeadIs
  <2>2. SlotKept
    <3>1. /\ m.closed = me.closed /\ m.w = me.w /\ m.cur.gone = me.cur.gone
          /\ m.cur.seq = me.cur.seq /\ m.cur.done = me.cur.done
      BY <2>1 DEF Alike
    <3> QED BY <2>1, <3>1, ArmSlot, StillSlot
  <2>3. hdFrame /\ HeadGoes(r)
    BY <1>4, RespondHeadIs
  <2>4. PICK p \in {"cont", "fail", "userError", "store", "head"} :
          /\ p = "store" => scene.threads
          /\ \E mode : hd' = [hd EXCEPT ![r] = [pc |-> p, mode |-> mode]]
    BY <2>3 DEF HeadGoes
  <2>5. \A s \in Reqs : hd'[s] = hd[s] \/ hd'[s].pc = p
    BY <1>1, <2>4 DEF Handlers
  <2>6. Entered
    BY <2>3, <2>4, <2>5 DEF Entered, hdFrame
  <2> QED BY <2>2, <2>6
<1>5. CASE ArmForBody(r)
  <2> DEFINE m == [me EXCEPT !.cur.wanted = TRUE]
  <2>1. /\ m \in Locked /\ m.closed = me.closed /\ m.w = me.w /\ m.cur.gone = me.cur.gone
        /\ m.cur.seq = me.cur.seq /\ m.cur.done = me.cur.done
    BY DEF Locked, Current
  <2>2. Arm(m) /\ HdGoes(r, IfToStore(m, "storeBody", "stream")) /\ hdFrame
    BY <1>5 DEF ArmForBody
  <2> HIDE DEF m
  <2>3. SlotKept
    BY <2>1, <2>2, ArmSlot
  <2>4. scene.threads \/ IfToStore(m, "storeBody", "stream") = "stream"
    BY DEF IfToStore
  <2>5. Entered
    BY <1>3, <2>2, <2>4 DEF HdGoes, hdFrame
  <2> QED BY <2>3, <2>5
<1>6. CASE HandlerStores(r)
  <2>1. scene.threads
    BY <1>2, <1>6 DEF HandlerStores
  <2>2. SlotKept
    BY <1>6, <2>1, StoredSlot DEF HandlerStores
  <2> QED BY <2>1, <2>2 DEF Entered
<1>7. CASE AfterContinue(r) \/ HandlerJoins(r) \/ WriteHead(r) \/ StreamBody(r)
  <2>1. me' = me /\ wt' = wt /\ hdFrame
    BY <1>7 DEF AfterContinue, HandlerJoins, WriteHead, StreamBody
  <2>2. SlotKept
    BY <2>1, StillSlot
  <2>3. CASE AfterContinue(r) \/ HandlerJoins(r) \/ StreamBody(r)
    <3>1. \E p \in {"again", "head", "stream", "finish", "fail"} : hd' = [hd EXCEPT ![r].pc = p]
      BY <2>3 DEF AfterContinue, HandlerJoins, StreamBody, HdGoes
    <3> QED BY <1>3, <2>1, <2>2, <3>1 DEF hdFrame
  <2>4. CASE WriteHead(r)
    <3>1. ModeOK(r) /\ hd[r].mode \in {"none", "bytes", "async", "push", "error"}
      BY <1>1 DEF CoreInv, ServeOK, Handlers
    <3>2. hd[r].mode \in {"bytes", "async", "push"}
      BY <2>4, <3>1 DEF ModeOK, WriteHead
    <3>3. \E p \in {"finish", "arm", "stream", "fail"} : hd' = [hd EXCEPT ![r].pc = p]
      BY <2>4, <3>2 DEF WriteHead, HdGoes
    <3> QED BY <1>3, <2>1, <2>2, <3>3 DEF hdFrame
  <2> QED BY <1>7, <2>3, <2>4
<1>8. CASE FinishResponse(r)
  <2> DEFINE n == [me EXCEPT !.cur.done = TRUE, !.reusable = @ /\ me.cur.keep]
  <2>1. n \in Locked /\ n.w = me.w /\ n.cur.gone = me.cur.gone /\ n.closed = me.closed
    BY FinishedIs DEF Finished
  <2>2. /\ me' = n \/ me' = CloseNow(n) \/ me' = [CloseNow(n) EXCEPT !.upgraded = TRUE, !.buf = <<>>]
        /\ wt' = wt /\ hdFrame /\ HdGoes(r, "over")
    BY <1>8 DEF FinishResponse
  <2> HIDE DEF n
  <2>3. /\ CloseNow(n) \in Locked /\ CloseNow(n).w = me.w /\ CloseNow(n).cur.gone = me.cur.gone
        /\ CloseNow(n).closed
    BY <2>1, CloseNowIs
  <2>4. me'.w = me.w /\ me'.cur.gone = me.cur.gone /\ (me.closed => me'.closed)
    BY <2>1, <2>2, <2>3 DEF Locked
  <2> QED BY <1>3, <2>2, <2>4, StillSlot DEF hdFrame, HdGoes
<1>9. CASE FailResponse(r)
  <2> DEFINE n == [me EXCEPT !.cur.done = TRUE]
  <2>1. n \in Locked /\ n.w = me.w /\ n.cur.gone = me.cur.gone
    BY DEF Locked, Current
  <2>2. me' = CloseNow(n) /\ wt' = wt /\ hdFrame /\ HdGoes(r, "over")
    BY <1>9 DEF FailResponse
  <2> HIDE DEF n
  <2>3. me'.w = me.w /\ me'.cur.gone = me.cur.gone /\ me'.closed
    BY <2>1, <2>2, CloseNowIs
  <2> QED BY <1>3, <2>2, <2>3, StillSlot DEF hdFrame, HdGoes
<1>10. CASE Detach(r)
  <2> DEFINE n == CloseNow(me)
  <2>1. n \in Locked /\ n.w = me.w /\ n.cur = me.cur /\ n.closed
    BY CloseNowIs
  <2>2. /\ me' = [n EXCEPT !.upgraded = TRUE, !.buf = <<>>, !.w.data = <<>>,
                           !.cur.responded = TRUE, !.cur.done = TRUE]
        /\ wt' = wt /\ hdFrame /\ HdGoes(r, "over")
    BY <1>10 DEF Detach
  <2> HIDE DEF n
  <2>3. /\ me'.w.slot = me.w.slot /\ me'.w.completed = me.w.completed /\ me'.w.res = me.w.res
        /\ me'.w.handle = me.w.handle /\ me'.cur.gone = me.cur.gone /\ me'.closed
    BY <2>1, <2>2 DEF Locked, Current, Watch
  <2>4. SlotKept
    BY <2>2, <2>3 DEF SlotKept
  <2> QED BY <1>3, <2>2, <2>4 DEF hdFrame, HdGoes
<1> QED BY <1>4, <1>5, <1>6, <1>7, <1>8, <1>9, <1>10 DEF Handler

\* The reader of a body and a call of peer_closed().
LEMMA AsideEnds ==
    ASSUME CoreInv, EndsOK, NEW r \in Reqs,
           ReadBody(r) \/ BodyReader(r) \/ PeerClosed(r) \/ PeerWaiter(r)
    PROVE  SlotKept /\ Entered
<1> USE Requests
<1>1. body \in Bodies /\ peer \in [Reqs -> {"off", "store", "join", "wait", "over"}]
  BY DEF CoreInv, Typed
<1>2. ~scene.threads => body[r].pc # "store" /\ peer[r] # "store"
  BY DEF EndsOK, OneThread
<1>3. ASSUME UNCHANGED <<serve, hd, peer>>, NEW p \in BodyPlaces, scene.threads \/ p # "store",
             NEW e \in {"none", "clean", "error"}, NEW g \in BOOLEAN, NEW d \in Seq(ReqItem),
             \/ body' = [body EXCEPT ![r].pc = p]
             \/ body' = [body EXCEPT ![r].pc = p, ![r].end = e]
             \/ body' = [body EXCEPT ![r].pc = p, ![r].got = g]
             \/ body' = [body EXCEPT ![r].pc = p, ![r].data = d]
      PROVE  Entered
  <2>1. body'[r].pc = p /\ \A s \in Reqs \ {r} : body'[s] = body[s]
    BY <1>1, <1>3, BodyWrites
  <2> QED BY <1>3, <2>1 DEF Entered
<1>4. ASSUME UNCHANGED <<serve, hd, body>>, NEW p, scene.threads \/ p # "store",
             peer' = [peer EXCEPT ![r] = p]
      PROVE  Entered
  BY <1>1, <1>4 DEF Entered
<1>5. <<>> \in Seq(ReqItem) /\ {"100", "loop", "done", "over", "reading", "feed", "join"} \subseteq BodyPlaces
  BY EmptySeq DEF BodyPlaces
<1>6. CASE ReadBody(r)
  <2>1. wt' = wt /\ bodyFrame /\ (me' = me \/ me' = [me EXCEPT !.cur.cont = TRUE])
    BY <1>6 DEF ReadBody
  <2>2. SlotKept
    BY <2>1, StillSlot DEF Locked, Current
  <2>3. \/ body' = [body EXCEPT ![r].pc = "over", ![r].end = "clean"]
        \/ \E p \in {"100", "loop"} : body' = [body EXCEPT ![r].pc = p]
    BY <1>6 DEF ReadBody, BodyGoes
  <2> QED BY <1>3, <1>5, <2>1, <2>2, <2>3 DEF bodyFrame
<1>7. CASE WriteContinue(r) \/ FeedBody(r)
  <2>1. wt' = wt /\ me' = me /\ bodyFrame
    BY <1>7 DEF WriteContinue, FeedBody
  <2>2. \/ body' = [body EXCEPT ![r].pc = "over", ![r].end = "error"]
        \/ body' = [body EXCEPT ![r].pc = "loop"]
        \/ body' = [body EXCEPT ![r].pc = "loop", ![r].data = <<>>]
    BY <1>7 DEF WriteContinue, FeedBody, BodyGoes
  <2> QED BY <1>3, <1>5, <2>1, <2>2, StillSlot DEF bodyFrame
<1>8. CASE DecodeBody(r)
  <2>1. /\ wt' = wt /\ bodyFrame
        /\ me' = me \/ me' = [me EXCEPT !.reusable = FALSE] \/ me' = [me EXCEPT !.cur.reading = TRUE]
    BY <1>8 DEF DecodeBody, BodyRaises
  <2>2. SlotKept
    BY <2>1, StillSlot DEF Locked, Current
  <2>3. \/ body' = [body EXCEPT ![r].pc = "over", ![r].end = "error"]
        \/ body' = [body EXCEPT ![r].pc = "done", ![r].got = TRUE]
        \/ \E p \in {"done", "reading"} : body' = [body EXCEPT ![r].pc = p]
    BY <1>8 DEF DecodeBody, BodyRaises, BodyGoes
  <2> QED BY <1>3, <1>5, <2>1, <2>2, <2>3 DEF bodyFrame
<1>9. CASE ReadBodyMore(r)
  <2> DEFINE n == IF IsCurrent(r) THEN [me EXCEPT !.cur.reading = FALSE] ELSE me
  <2>1. PICK data \in Readable :
          /\ wt' = wt /\ bodyFrame /\ (me' = n \/ me' = [n EXCEPT !.reusable = FALSE])
          /\ \/ body' = [body EXCEPT ![r].pc = "over", ![r].end = "error"]
             \/ body' = [body EXCEPT ![r].pc = "feed", ![r].data = data]
             \/ body' = [body EXCEPT ![r].pc = "loop"]
    BY <1>9 DEF ReadBodyMore, BodyRaises, BodyGoes
  <2>2. n \in Locked /\ n.w = me.w /\ n.cur.gone = me.cur.gone /\ n.closed = me.closed
    <3> DEFINE x == [me EXCEPT !.cur.reading = FALSE]
    <3>1. x \in Locked /\ x.w = me.w /\ x.cur.gone = me.cur.gone /\ x.closed = me.closed
      BY DEF Locked, Current
    <3>2. n = x \/ n = me
      OBVIOUS
    <3> HIDE DEF n, x
    <3> QED BY <3>1, <3>2
  <2> HIDE DEF n
  <2>3. me'.w = me.w /\ me'.cur.gone = me.cur.gone /\ me'.closed = me.closed
    BY <2>1, <2>2 DEF Locked
  <2>4. data \in Seq(ReqItem)
    BY ReadableIs DEF CoreInv, Typed
  <2> QED BY <1>3, <1>5, <2>1, <2>3, <2>4, StillSlot DEF bodyFrame
<1>10. CASE EndBody(r)
  <2> DEFINE m == [me EXCEPT !.cur.reading = FALSE, !.cur.bodyDone = TRUE]
  <2>1. /\ m \in Locked /\ m.closed = me.closed /\ m.w = me.w /\ m.cur.gone = me.cur.gone
        /\ m.cur.seq = me.cur.seq /\ m.cur.done = me.cur.done
    BY DEF Locked, Current
  <2>2. /\ Arm(m) \/ (me' = me /\ wt' = wt)
        /\ bodyFrame
        /\ \E p \in {IfToStore(m, "store", "over"), "over"} :
             body' = [body EXCEPT ![r].pc = p, ![r].end = "clean"]
    BY <1>10 DEF EndBody
  <2> HIDE DEF m
  <2>3. SlotKept
    BY <2>1, <2>2, ArmSlot, StillSlot
  <2>4. IfToStore(m, "store", "over") \in {"store", "over"}
        /\ (scene.threads \/ IfToStore(m, "store", "over") = "over")
    BY DEF IfToStore
  <2>5. PICK p \in BodyPlaces :
          (scene.threads \/ p # "store") /\ body' = [body EXCEPT ![r].pc = p, ![r].end = "clean"]
    BY <2>2, <2>4 DEF BodyPlaces
  <2>6. Entered
    BY <1>3, <1>5, <2>2, <2>5 DEF bodyFrame
  <2> QED BY <2>3, <2>6
<1>11. CASE BodyStores(r)
  <2>1. /\ wt' = wt /\ bodyFrame
        /\ (me' = Stored(me, r) /\ scene.threads) \/ me' = me
        /\ \E p \in {"join", "over"} : body' = [body EXCEPT ![r].pc = p]
    BY <1>2, <1>11 DEF BodyStores, BodyGoes
  <2> QED BY <1>3, <1>5, <2>1, StoredSlot, StillSlot DEF bodyFrame
<1>12. CASE PeerClosed(r)
  <2> DEFINE m == [me EXCEPT !.cur.wanted = TRUE]
  <2>1. /\ m \in Locked /\ m.closed = me.closed /\ m.w = me.w /\ m.cur.gone = me.cur.gone
        /\ m.cur.seq = me.cur.seq /\ m.cur.done = me.cur.done
    BY DEF Locked, Current
  <2>2. /\ Arm(m) \/ (me' = me /\ wt' = wt)
        /\ peerFrame
        /\ \E p \in {IfToStore(m, "store", "wait"), "over"} : peer' = [peer EXCEPT ![r] = p]
    BY <1>12 DEF PeerClosed, PeerGoes
  <2> HIDE DEF m
  <2>3. SlotKept
    BY <2>1, <2>2, ArmSlot, StillSlot
  <2>4. scene.threads \/ IfToStore(m, "store", "wait") = "wait"
    BY DEF IfToStore
  <2> QED BY <1>4, <2>2, <2>3, <2>4 DEF peerFrame
<1>13. CASE PeerStores(r) \/ PeerWaits(r)
  <2>1. /\ wt' = wt /\ peerFrame
        /\ (me' = Stored(me, r) /\ scene.threads) \/ me' = me
        /\ \E p \in {"join", "wait", "over"} : peer' = [peer EXCEPT ![r] = p]
    BY <1>2, <1>13 DEF PeerStores, PeerWaits, PeerGoes
  <2> QED BY <1>4, <2>1, StoredSlot, StillSlot DEF peerFrame
<1> QED BY <1>6, <1>7, <1>8, <1>9, <1>10, <1>11, <1>12, <1>13 DEF BodyReader, PeerWaiter

\* The watcher says what it read, or that it found no transport.
LEMMA WatcherEnds ==
    ASSUME CoreInv, EndsOK, [Next]_vars, NEW r \in Reqs, Watcher(r)
    PROVE  EndsOK'
<1> USE Requests
<1>1. /\ scene' = scene /\ fin' = fin /\ sock' = sock
      /\ UNCHANGED <<serve, hd, body, peer>>
  BY DEF Watcher, WatcherStarts, WatcherReads, WatcherCompleted, watchFrame
<1>2. wt \in Watchers
  BY DEF CoreInv, Typed
<1>3. CASE WatcherStarts(r)
  <2>1. \A s \in Reqs : wt'[s].res = wt[s].res /\ (wt'[s].pc = "result" => wt[s].pc = "result")
    <3>1. PICK p \in {"reading", "over"} : wt' = [wt EXCEPT ![r].pc = p]
      BY <1>3 DEF WatcherStarts
    <3> QED BY <1>2, <3>1 DEF Watchers
  <2>2. me' = me \/ (~me.open /\ me' = [me EXCEPT !.w.completed = TRUE])
    BY <1>3 DEF WatcherStarts
  <2>3. ~me.open => me.closed
    BY DEF CoreInv, SocketOK
  <2>4. /\ me'.w.slot = me.w.slot /\ me'.w.res = me.w.res /\ me'.w.handle = me.w.handle
        /\ me'.closed = me.closed /\ me'.cur = me.cur
        /\ (me'.w.completed => me.w.completed \/ me.closed)
    BY <2>2, <2>3 DEF Locked, Watch
  <2> QED BY <1>1, <2>1, <2>4 DEF EndsOK, ReadsTrue, OneThread, True
<1>4. CASE WatcherReads(r)
  <2>1. PICK res \in Results, data \in Readable :
          /\ (res = "eof" => fin) /\ (res = "error" => sock # "open")
          /\ wt' = [wt EXCEPT ![r] = [pc |-> "result", res |-> res, data |-> data]]
          /\ me' = me
    BY <1>4 DEF WatcherReads, Reads
  <2>2. wt'[r].res = res /\ \A s \in Reqs \ {r} : wt'[s] = wt[s]
    BY <1>2, <2>1 DEF Watchers
  <2> QED BY <1>1, <2>1, <2>2 DEF EndsOK, ReadsTrue, OneThread, True, Results
<1>5. CASE WatcherCompleted(r)
  <2> DEFINE n == [me EXCEPT !.w = [@ EXCEPT !.res = wt[r].res, !.data = wt[r].data,
                                             !.completed = TRUE]]
             gone == wt[r].res # "data" /\ ~me.cur.done /\ ~me.cur.gone
  <2>1. /\ wt[r].pc = "result"
        /\ wt' = [wt EXCEPT ![r] = [pc |-> "over", res |-> "none", data |-> <<>>]]
        /\ me' = me \/ me' = n \/ (gone /\ me' = [n EXCEPT !.reusable = FALSE, !.cur.gone = TRUE])
    BY <1>5 DEF WatcherCompleted
  <2>2. wt[r].res \in Results /\ wt[r].data \in Seq(ReqItem)
    BY <1>2, <2>1 DEF EndsOK, ReadsTrue, Watchers
  <2>3. (wt[r].res = "eof" => fin) /\ (wt[r].res = "error" => sock # "open")
    BY DEF EndsOK, ReadsTrue, True
  <2>4. /\ n \in Locked /\ n.cur = me.cur /\ n.closed = me.closed
        /\ n.w.res = wt[r].res /\ n.w.handle = me.w.handle
    BY <2>2 DEF Locked, Watch, Results
  <2>5. \A s \in Reqs : wt'[s] = wt[s] \/ (wt'[s].pc = "over" /\ wt'[s].res = "none")
    BY <1>2, <2>1 DEF Watchers
  <2>6. gone => fin \/ sock # "open"
    BY <2>2, <2>3 DEF Results
  <2> HIDE DEF n, gone
  <2>7. \/ me' = me
        \/ /\ me'.w = n.w /\ me'.closed = me.closed
           /\ me'.cur.gone => me.cur.gone \/ fin \/ sock # "open"
    BY <2>1, <2>4, <2>6 DEF Locked
  <2>8. ReadsTrue'
    <3>1. \A s \in Reqs : /\ wt'[s].pc = "result" => wt'[s].res # "none"
                          /\ (wt'[s].res = "eof" => fin) /\ (wt'[s].res = "error" => sock # "open")
      BY <2>5 DEF EndsOK, ReadsTrue, True
    <3>2. (me'.w.res = "eof" => fin) /\ (me'.w.res = "error" => sock # "open")
      BY <2>3, <2>4, <2>7 DEF EndsOK, ReadsTrue, True
    <3>3. me'.cur.gone => fin \/ sock # "open"
      BY <2>7 DEF EndsOK, ReadsTrue
    <3> QED BY <1>1, <3>1, <3>2, <3>3 DEF ReadsTrue, True
  <2>9. OneThread'
    BY <1>1, <2>2, <2>4, <2>7 DEF EndsOK, OneThread, Results
  <2> QED BY <2>8, <2>9 DEF EndsOK
<1> QED BY <1>3, <1>4, <1>5 DEF Watcher

\* Every step keeps what is said of the client's end true.
LEMMA NextEnds == ASSUME CoreInv, EndsOK, [Next]_vars PROVE EndsOK'
<1> USE Requests
<1>1. CASE Client \/ UNCHANGED vars
  <2>1. UNCHANGED <<me, serve, hd, body, peer, wt>>
    BY <1>1 DEF Client, ClientSends, ClientShutsDown, ClientResets, vars
  <2>2. SlotKept /\ Entered
    BY <2>1 DEF SlotKept, Entered
  <2> QED BY <2>2, EndsStep
<1>2. CASE Overdue \/ RequestShutdown
  <2> DEFINE n == [me EXCEPT !.reusable = FALSE, !.shutdown = TRUE]
  <2>1. n \in Locked /\ n.cur = me.cur /\ n.w = me.w /\ n.closed = me.closed
    BY DEF Locked
  <2>2. /\ me' = CloseNow(me) \/ me' = n \/ me' = CloseNow(n)
        /\ UNCHANGED <<serve, hd, body, peer, wt>>
    BY <1>2 DEF Overdue, RequestShutdown, timeFrame
  <2> HIDE DEF n
  <2>3. me'.w = me.w /\ me'.cur = me.cur /\ (me.closed => me'.closed)
    BY <2>1, <2>2, CloseNowIs
  <2>4. SlotKept /\ Entered
    BY <2>2, <2>3 DEF SlotKept, Entered
  <2> QED BY <2>4, EndsStep
<1>3. CASE AcceptLoop \/ Close
  BY <1>3, LoopEnds, EndsStep
<1>4. ASSUME NEW r \in Reqs, Handler(r) \/ Detach(r) PROVE EndsOK'
  BY <1>4, HandlerEnds, EndsStep
<1>5. ASSUME NEW r \in Reqs, ReadBody(r) \/ BodyReader(r) \/ PeerClosed(r) \/ PeerWaiter(r)
      PROVE  EndsOK'
  BY <1>5, AsideEnds, EndsStep
<1>6. ASSUME NEW r \in Reqs, Watcher(r) PROVE EndsOK'
  BY <1>6, WatcherEnds
<1> QED BY <1>1, <1>2, <1>3, <1>4, <1>5, <1>6 DEF Next

\* Where tasks do not run in parallel the accept loop sees an end only if the client ended
\* the connection, and wherever they run no request is told in vain that its client is gone.
THEOREM ServerTrueEnds == Spec => []TrueEnds
<1>1. Init => EndsOK
  <2>1. Init => ReadsTrue
    BY DEF Init, ReadsTrue, True, NoWatcher, NoRequest
  <2>2. Init => OneThread
    BY DEF Init, OneThread, NoWatcher
  <2> QED BY <2>1, <2>2 DEF EndsOK
<1>2. CoreInv /\ EndsOK /\ [Next]_vars => EndsOK'
  BY NextEnds
<1>3. EndsOK => TrueEnds
  BY DEF EndsOK, ReadsTrue, OneThread, TrueEnds, NoFalseEof, GoneIsGone
<1> QED BY <1>1, <1>2, <1>3, ServerFits, PTL DEF Spec

(***************************************************************************)
(* Every head is parsed once.                                               *)
(***************************************************************************)

HeadIn(s, r) == \E i \in DOMAIN s : s[i] = Item(r, "h")
OnceIn(s, r) == \A i, j \in DOMAIN s : s[i] = Item(r, "h") /\ s[j] = Item(r, "h") => i = j

\* Where octets of the client may lie.
Places == ({"net", "buf", "slot", "loop"} \X {None}) \cup ({"dec", "body", "watch"} \X Reqs)
Net == <<"net", None>>
Buf == <<"buf", None>>
Slot == <<"slot", None>>
Loop == <<"loop", None>>
Dec(r) == <<"dec", r>>
Read(r) == <<"body", r>>
Watched(r) == <<"watch", r>>
StockOf(n, b, w, l, d, y, t) ==
    [p \in Places |->
       CASE p[1] = "net" -> n
         [] p[1] = "buf" -> b
         [] p[1] = "slot" -> w
         [] p[1] = "loop" -> l
         [] p[1] = "dec" -> d[p[2]].buf
         [] p[1] = "body" -> y[p[2]].data
         [] p[1] = "watch" -> t[p[2]].data]
Stock == StockOf(net, me.buf, me.w.data, serve.data, dec, body, wt)

Unsent(r) == at.r < r \/ (at.r = r /\ at.i = 1)

\* A head lies in one place, once, and in none before it was sent and after it was parsed.
Apart(S, r) ==
    /\ \A p \in Places : OnceIn(S[p], r)
    /\ \A p, o \in Places : HeadIn(S[p], r) /\ HeadIn(S[o], r) => p = o
Nowhere(S, r) == \A p \in Places : ~HeadIn(S[p], r)
HeadOnce(r) ==
    /\ Apart(Stock, r)
    /\ Unsent(r) \/ hd[r].pc # "off" => Nowhere(Stock, r)
    /\ Unsent(r) => hd[r].pc = "off"
ParsedOnce == \A r \in Reqs : HeadOnce(r)

\* The empty sequence holds no head.
LEMMA NoHead == \A r \in Reqs : ~HeadIn(<<>>, r) /\ OnceIn(<<>>, r)
  BY DEF HeadIn, OnceIn

\* A part of a sequence holds no head that the sequence does not, nor one twice.
LEMMA SubHead ==
    ASSUME NEW s \in Seq(ReqItem), NEW m \in 1..Len(s) + 1, NEW n \in 0..Len(s), NEW r \in Reqs
    PROVE  /\ HeadIn(SubSeq(s, m, n), r) => HeadIn(s, r)
           /\ OnceIn(s, r) => OnceIn(SubSeq(s, m, n), r)
<1> DEFINE l == IF m <= n THEN n - m + 1 ELSE 0
<1>1. Len(s) \in Nat /\ DOMAIN s = 1..Len(s)
  BY LenProperties
<1>2. /\ DOMAIN SubSeq(s, m, n) = 1..l
      /\ \A i \in 1..l : SubSeq(s, m, n)[i] = s[m + i - 1] /\ m + i - 1 \in 1..Len(s)
  BY <1>1
<1> HIDE DEF l
<1>3. \A i \in DOMAIN SubSeq(s, m, n) : SubSeq(s, m, n)[i] = s[m + i - 1] /\ m + i - 1 \in DOMAIN s
  BY <1>1, <1>2
<1>4. DOMAIN SubSeq(s, m, n) \subseteq Int
  BY <1>2
<1>5. HeadIn(SubSeq(s, m, n), r) => HeadIn(s, r)
  BY <1>3 DEF HeadIn
<1>6. ASSUME OnceIn(s, r), NEW i \in DOMAIN SubSeq(s, m, n), NEW j \in DOMAIN SubSeq(s, m, n),
             SubSeq(s, m, n)[i] = Item(r, "h"), SubSeq(s, m, n)[j] = Item(r, "h")
      PROVE  i = j
  <2>1. m + i - 1 = m + j - 1
    BY <1>3, <1>6 DEF OnceIn
  <2>2. i \in Int /\ j \in Int /\ m \in Int
    BY <1>4
  <2> QED BY <2>1, <2>2
<1> QED BY <1>5, <1>6 DEF OnceIn

\* Joined sequences hold the heads of both.
LEMMA JoinHead ==
    ASSUME NEW s \in Seq(ReqItem), NEW t \in Seq(ReqItem), NEW r \in Reqs
    PROVE  /\ HeadIn(s \o t, r) <=> HeadIn(s, r) \/ HeadIn(t, r)
           /\ OnceIn(s, r) /\ OnceIn(t, r) /\ ~(HeadIn(s, r) /\ HeadIn(t, r)) => OnceIn(s \o t, r)
<1>1. /\ Len(s) \in Nat /\ DOMAIN s = 1..Len(s) /\ Len(t) \in Nat /\ DOMAIN t = 1..Len(t)
      /\ DOMAIN (s \o t) = 1..Len(s) + Len(t)
  BY LenProperties, ConcatProperties
<1>2. \A i \in 1..Len(s) : (s \o t)[i] = s[i]
  BY ConcatProperties
<1>3. \A i \in 1..Len(t) : (s \o t)[Len(s) + i] = t[i]
  BY ConcatProperties
<1>4. \A i \in DOMAIN (s \o t) : i \in 1..Len(s) \/ (i - Len(s) \in 1..Len(t) /\ (s \o t)[i] = t[i - Len(s)])
  BY <1>1, <1>3
<1>5. HeadIn(s, r) => HeadIn(s \o t, r)
  BY <1>1, <1>2 DEF HeadIn
<1>6. ASSUME HeadIn(t, r) PROVE HeadIn(s \o t, r)
  <2>1. PICK i \in 1..Len(t) : t[i] = Item(r, "h")
    BY <1>1, <1>6 DEF HeadIn
  <2>2. Len(s) + i \in DOMAIN (s \o t) /\ (s \o t)[Len(s) + i] = Item(r, "h")
    BY <1>1, <1>3, <2>1
  <2> QED BY <2>2 DEF HeadIn
<1>7. HeadIn(s \o t, r) => HeadIn(s, r) \/ HeadIn(t, r)
  BY <1>1, <1>2, <1>4 DEF HeadIn
<1>8. ASSUME OnceIn(s, r), OnceIn(t, r), ~(HeadIn(s, r) /\ HeadIn(t, r)),
             NEW i \in DOMAIN (s \o t), NEW j \in DOMAIN (s \o t),
             (s \o t)[i] = Item(r, "h"), (s \o t)[j] = Item(r, "h")
      PROVE  i = j
  <2>1. CASE i \in 1..Len(s) /\ j \in 1..Len(s)
    BY <1>1, <1>2, <1>8, <2>1 DEF OnceIn
  <2>2. CASE i \notin 1..Len(s) /\ j \notin 1..Len(s)
    <3>1. i - Len(s) = j - Len(s)
      BY <1>1, <1>4, <1>8, <2>2 DEF OnceIn
    <3> QED BY <1>1, <3>1
  <2>3. CASE i \in 1..Len(s) /\ j \notin 1..Len(s)
    BY <1>1, <1>2, <1>4, <1>8, <2>3 DEF HeadIn
  <2>4. CASE i \notin 1..Len(s) /\ j \in 1..Len(s)
    BY <1>1, <1>2, <1>4, <1>8, <2>4 DEF HeadIn
  <2> QED BY <2>1, <2>2, <2>3, <2>4
<1> QED BY <1>5, <1>6, <1>7, <1>8 DEF OnceIn

\* So does what is left when the front is taken away.
LEMMA TailHead ==
    ASSUME NEW s \in Seq(ReqItem), s # <<>>, NEW r \in Reqs
    PROVE  /\ Tail(s) \in Seq(ReqItem)
           /\ HeadIn(Tail(s), r) => HeadIn(s, r)
           /\ OnceIn(s, r) => OnceIn(Tail(s), r)
<1>1. PICK l \in Nat : l = Len(s)
  BY LenProperties
<1>4. l # 0
  BY <1>1, EmptySeq
<1>5. 2 \in 1..l + 1 /\ l \in 0..l
  BY <1>4
<1>2. Tail(s) = SubSeq(s, 2, Len(s))
  BY TailIsSubSeq
<1>3. Tail(s) \in Seq(ReqItem)
  BY HeadTailProperties
<1>6. /\ HeadIn(SubSeq(s, 2, l), r) => HeadIn(s, r)
      /\ OnceIn(s, r) => OnceIn(SubSeq(s, 2, l), r)
  BY <1>1, <1>5, SubHead
<1> QED BY <1>1, <1>2, <1>3, <1>6

\* A read parts what has arrived.
LEMMA ReadHead ==
    ASSUME net \in Seq(ReqItem), NEW data \in Readable, NEW r \in Reqs
    PROVE  /\ HeadIn(data, r) => HeadIn(net, r)
           /\ HeadIn(Rest(data), r) => HeadIn(net, r)
           /\ OnceIn(net, r) => /\ OnceIn(data, r) /\ OnceIn(Rest(data), r)
                                /\ ~(HeadIn(data, r) /\ HeadIn(Rest(data), r))
<1>1. Len(net) \in Nat /\ DOMAIN net = 1..Len(net)
  BY LenProperties
<1>2. CASE data = <<>>
  <2>1. SubSeq(net, 1, Len(net)) = net /\ Len(data) + 1 = 1
    BY <1>2, SubSeqFull
  <2> QED BY <1>2, <2>1, NoHead DEF Rest
<1>3. ASSUME NEW k \in {1, Len(net)} \cap DOMAIN net, data = SubSeq(net, 1, k)
      PROVE  /\ HeadIn(data, r) => HeadIn(net, r)
             /\ HeadIn(Rest(data), r) => HeadIn(net, r)
             /\ OnceIn(net, r) => /\ OnceIn(data, r) /\ OnceIn(Rest(data), r)
                                  /\ ~(HeadIn(data, r) /\ HeadIn(Rest(data), r))
  <2>0. PICK l \in Nat : l = Len(net)
    BY <1>1
  <2>7. k \in 1..l
    BY <1>1, <1>3, <2>0
  <2>1. k \in 1..l /\ k \in 0..l /\ k + 1 \in 1..l + 1 /\ 1 \in 1..l + 1 /\ l \in 0..l /\ k \in Nat
    BY <2>7
  <2>8. \A i \in 1..l : net[i] \in ReqItem
    BY <1>1, <2>0, ElementOfSeq
  <2>2. /\ DOMAIN data = 1..k /\ Len(data) = k
        /\ \A i \in 1..k : data[i] = net[i]
    <3>1. 1 \in Int /\ k \in Int /\ \A i \in 1..k : net[i] \in ReqItem
      BY <2>1, <2>8
    <3>2. /\ SubSeq(net, 1, k) \in Seq(ReqItem)
          /\ Len(SubSeq(net, 1, k)) = IF 1 <= k THEN k - 1 + 1 ELSE 0
          /\ \A i \in 1..k - 1 + 1 : SubSeq(net, 1, k)[i] = net[1 + i - 1]
      BY <3>1, SubSeqProperties
    <3>3. Len(data) = k /\ \A i \in 1..k : data[i] = net[i]
      BY <1>3, <2>1, <3>2
    <3> QED BY <1>3, <3>2, <3>3, LenProperties
  <2>3. Rest(data) = SubSeq(net, k + 1, l)
    BY <2>0, <2>2 DEF Rest
  <2>4. /\ DOMAIN SubSeq(net, k + 1, l) = 1..l - k
        /\ \A i \in 1..l - k : SubSeq(net, k + 1, l)[i] = net[k + i]
    <3>1. k + 1 \in Int /\ l \in Int /\ \A i \in k + 1..l : net[i] \in ReqItem
      BY <2>1, <2>8
    <3>2. /\ SubSeq(net, k + 1, l) \in Seq(ReqItem)
          /\ Len(SubSeq(net, k + 1, l)) = IF k + 1 <= l THEN l - (k + 1) + 1 ELSE 0
          /\ \A i \in 1..l - (k + 1) + 1 : SubSeq(net, k + 1, l)[i] = net[k + 1 + i - 1]
      BY <3>1, SubSeqProperties
    <3>3. Len(SubSeq(net, k + 1, l)) = l - k
      BY <2>1, <3>2
    <3>4. \A i \in 1..l - k : SubSeq(net, k + 1, l)[i] = net[k + i]
      BY <2>1, <3>2
    <3> QED BY <3>2, <3>3, <3>4, LenProperties
  <2>5. /\ HeadIn(data, r) => HeadIn(net, r)
        /\ OnceIn(net, r) => OnceIn(data, r)
    BY <1>3, <2>0, <2>1, SubHead
  <2>9. /\ HeadIn(Rest(data), r) => HeadIn(net, r)
        /\ OnceIn(net, r) => OnceIn(Rest(data), r)
    BY <2>0, <2>1, <2>3, SubHead
  <2>6. ASSUME OnceIn(net, r), HeadIn(data, r), HeadIn(Rest(data), r) PROVE FALSE
    <3>1. PICK i \in 1..k : net[i] = Item(r, "h")
      BY <2>2, <2>6 DEF HeadIn
    <3>2. PICK j \in 1..l - k : net[k + j] = Item(r, "h")
      BY <2>3, <2>4, <2>6 DEF HeadIn
    <3>3. i \in 1..l /\ k + j \in 1..l /\ i # k + j
      BY <2>1
    <3> QED BY <1>1, <2>0, <2>6, <3>1, <3>2, <3>3 DEF OnceIn
  <2> QED BY <2>5, <2>6, <2>9
<1> QED BY <1>2, <1>3 DEF Readable

\* What the places of a stock hold.
LEMMA PlacesAre ==
    /\ Net \in Places /\ Buf \in Places /\ Slot \in Places /\ Loop \in Places
    /\ \A x \in Reqs : Dec(x) \in Places /\ Read(x) \in Places /\ Watched(x) \in Places
    /\ \A p \in Places : \/ p = Net \/ p = Buf \/ p = Slot \/ p = Loop
                         \/ \E x \in Reqs : p = Dec(x) \/ p = Read(x) \/ p = Watched(x)
    /\ Net # Buf /\ Net # Slot /\ Net # Loop /\ Buf # Slot /\ Buf # Loop /\ Slot # Loop
    /\ \A x \in Reqs : \A p \in {Net, Buf, Slot, Loop} : p # Dec(x) /\ p # Read(x) /\ p # Watched(x)
    /\ \A x, z \in Reqs : /\ Dec(x) # Read(z) /\ Dec(x) # Watched(z) /\ Read(x) # Watched(z)
                          /\ x # z => Dec(x) # Dec(z) /\ Read(x) # Read(z) /\ Watched(x) # Watched(z)
  BY DEF Places, Net, Buf, Slot, Loop, Dec, Read, Watched

\* What lies in each place.
LEMMA StockOfIs ==
    ASSUME NEW n, NEW b, NEW w, NEW l, NEW d, NEW y, NEW t
    PROVE  LET S == StockOf(n, b, w, l, d, y, t)
           IN  /\ S[Net] = n /\ S[Buf] = b /\ S[Slot] = w /\ S[Loop] = l
               /\ \A x \in Reqs : S[Dec(x)] = d[x].buf /\ S[Read(x)] = y[x].data /\ S[Watched(x)] = t[x].data
<1>1. /\ Net \in Places /\ Buf \in Places /\ Slot \in Places /\ Loop \in Places
      /\ \A x \in Reqs : Dec(x) \in Places /\ Read(x) \in Places /\ Watched(x) \in Places
  BY PlacesAre
<1>2. /\ Net[1] = "net" /\ Buf[1] = "buf" /\ Slot[1] = "slot" /\ Loop[1] = "loop"
      /\ \A x \in Reqs : /\ Dec(x)[1] = "dec" /\ Read(x)[1] = "body" /\ Watched(x)[1] = "watch"
                         /\ Dec(x)[2] = x /\ Read(x)[2] = x /\ Watched(x)[2] = x
  BY DEF Net, Buf, Slot, Loop, Dec, Read, Watched
<1> QED BY <1>1, <1>2 DEF StockOf

\* The stock before a step and after it.
LEMMA StockIs ==
    /\ Stock[Net] = net /\ Stock[Buf] = me.buf /\ Stock[Slot] = me.w.data /\ Stock[Loop] = serve.data
    /\ \A x \in Reqs : /\ Stock[Dec(x)] = dec[x].buf /\ Stock[Read(x)] = body[x].data
                       /\ Stock[Watched(x)] = wt[x].data
    /\ Stock'[Net] = net' /\ Stock'[Buf] = me'.buf /\ Stock'[Slot] = me'.w.data /\ Stock'[Loop] = serve'.data
    /\ \A x \in Reqs : /\ Stock'[Dec(x)] = dec'[x].buf /\ Stock'[Read(x)] = body'[x].data
                       /\ Stock'[Watched(x)] = wt'[x].data
<1>1. Stock = StockOf(net, me.buf, me.w.data, serve.data, dec, body, wt)
  BY DEF Stock
<1>2. Stock' = StockOf(net', me'.buf, me'.w.data, serve'.data, dec', body', wt')
  BY DEF Stock
<1>3. /\ Stock[Net] = net /\ Stock[Buf] = me.buf /\ Stock[Slot] = me.w.data /\ Stock[Loop] = serve.data
      /\ \A x \in Reqs : /\ Stock[Dec(x)] = dec[x].buf /\ Stock[Read(x)] = body[x].data
                         /\ Stock[Watched(x)] = wt[x].data
  BY <1>1, StockOfIs
<1>4. /\ Stock'[Net] = net' /\ Stock'[Buf] = me'.buf /\ Stock'[Slot] = me'.w.data /\ Stock'[Loop] = serve'.data
      /\ \A x \in Reqs : /\ Stock'[Dec(x)] = dec'[x].buf /\ Stock'[Read(x)] = body'[x].data
                         /\ Stock'[Watched(x)] = wt'[x].data
  BY <1>2, StockOfIs
<1> QED BY <1>3, <1>4

\* Every place holds a sequence of items.
LEMMA StockTyped == ASSUME Typed PROVE \A p \in Places : Stock[p] \in Seq(ReqItem)
<1>1. /\ net \in Seq(ReqItem) /\ me.buf \in Seq(ReqItem) /\ me.w.data \in Seq(ReqItem)
      /\ serve.data \in Seq(ReqItem)
  BY DEF Typed, Locked, Watch, Serving
<1>2. \A x \in Reqs : /\ dec[x].buf \in Seq(ReqItem) /\ body[x].data \in Seq(ReqItem)
                      /\ wt[x].data \in Seq(ReqItem)
  BY DEF Typed, Decoders, Bodies, Watchers
<1>3. /\ Stock[Net] \in Seq(ReqItem) /\ Stock[Buf] \in Seq(ReqItem) /\ Stock[Slot] \in Seq(ReqItem)
      /\ Stock[Loop] \in Seq(ReqItem)
  BY <1>1, StockIs, Zenon
<1>4. \A x \in Reqs : /\ Stock[Dec(x)] \in Seq(ReqItem) /\ Stock[Read(x)] \in Seq(ReqItem)
                      /\ Stock[Watched(x)] \in Seq(ReqItem)
  BY <1>2, StockIs, Zenon
<1> SUFFICES ASSUME NEW p \in Places PROVE Stock[p] \in Seq(ReqItem)
  OBVIOUS
<1>5. \/ p = Net \/ p = Buf \/ p = Slot \/ p = Loop
      \/ \E x \in Reqs : p = Dec(x) \/ p = Read(x) \/ p = Watched(x)
  BY PlacesAre, Zenon
<1>6. CASE p = Net \/ p = Buf \/ p = Slot \/ p = Loop
  BY <1>3, <1>6, Zenon
<1>7. ASSUME NEW x \in Reqs, p = Dec(x) \/ p = Read(x) \/ p = Watched(x)
      PROVE  Stock[p] \in Seq(ReqItem)
  BY <1>4, <1>7, Zenon
<1> QED BY <1>5, <1>6, <1>7, Zenon

(***************************************************************************)
(* What moves from place to place.                                          *)
(***************************************************************************)

\* Only a and b change, and between them they hold no head that they did not hold.
Passes(S, T, a, b) ==
    /\ \A p \in Places : p # a /\ p # b => T[p] = S[p]
    /\ \A r \in Reqs : Apart(S, r) =>
         /\ OnceIn(T[a], r) /\ OnceIn(T[b], r)
         /\ a # b => ~(HeadIn(T[a], r) /\ HeadIn(T[b], r))
         /\ HeadIn(T[a], r) \/ HeadIn(T[b], r) => HeadIn(S[a], r) \/ HeadIn(S[b], r)

\* The heads stay apart.
LEMMA PassesApart ==
    ASSUME NEW S, NEW T, NEW a \in Places, NEW b \in Places, Passes(S, T, a, b),
           NEW r \in Reqs, Apart(S, r)
    PROVE  /\ Apart(T, r)
           /\ Nowhere(S, r) => Nowhere(T, r)
<1>1. \A p \in Places : p # a /\ p # b => T[p] = S[p]
  BY DEF Passes
<1>2. /\ OnceIn(T[a], r) /\ OnceIn(T[b], r)
      /\ a # b => ~(HeadIn(T[a], r) /\ HeadIn(T[b], r))
      /\ HeadIn(T[a], r) \/ HeadIn(T[b], r) => HeadIn(S[a], r) \/ HeadIn(S[b], r)
  BY DEF Passes
<1>3. /\ \A p \in Places : OnceIn(S[p], r)
      /\ \A p, o \in Places : HeadIn(S[p], r) /\ HeadIn(S[o], r) => p = o
  BY DEF Apart
<1>4. \A p \in Places : OnceIn(T[p], r)
  BY <1>1, <1>2, <1>3
<1>5. ASSUME NEW p \in Places, NEW o \in Places, HeadIn(T[p], r), HeadIn(T[o], r) PROVE p = o
  <2>1. CASE p \in {a, b} /\ o \in {a, b}
    BY <1>2, <1>5, <2>1
  <2>2. CASE p \in {a, b} /\ o \notin {a, b}
    BY <1>1, <1>2, <1>3, <1>5, <2>2
  <2>3. CASE p \notin {a, b} /\ o \in {a, b}
    BY <1>1, <1>2, <1>3, <1>5, <2>3
  <2>4. CASE p \notin {a, b} /\ o \notin {a, b}
    BY <1>1, <1>3, <1>5, <2>4
  <2> QED BY <2>1, <2>2, <2>3, <2>4
<1>6. Nowhere(S, r) => Nowhere(T, r)
  BY <1>1, <1>2 DEF Nowhere
<1> QED BY <1>4, <1>5, <1>6 DEF Apart

\* A step that doubles no head and brings back none that was parsed.
Keeps(S, T) == \A r \in Reqs : Apart(S, r) => Apart(T, r) /\ (Nowhere(S, r) => Nowhere(T, r))

\* Such a step, when it parses none, leaves every head to be parsed once.
LEMMA KeepsOnce ==
    ASSUME ParsedOnce, at' = at, \A r \in Reqs : hd'[r].pc = "off" <=> hd[r].pc = "off",
           Keeps(Stock, Stock')
    PROVE  ParsedOnce'
<1> SUFFICES ASSUME NEW r \in Reqs PROVE HeadOnce(r)'
  BY DEF ParsedOnce
<1>1. HeadOnce(r)
  BY DEF ParsedOnce
<1>2. Apart(Stock, r) /\ (Unsent(r)' <=> Unsent(r)) /\ (hd'[r].pc = "off" <=> hd[r].pc = "off")
  BY <1>1 DEF HeadOnce, Unsent
<1>3. Apart(Stock', r) /\ (Nowhere(Stock, r) => Nowhere(Stock', r))
  BY <1>2 DEF Keeps
<1>4. Apart(Stock, r)' /\ (Nowhere(Stock, r) => Nowhere(Stock, r)')
  BY <1>3 DEF Apart, Nowhere
<1> QED BY <1>1, <1>2, <1>4 DEF HeadOnce

\* One such step after another.
LEMMA KeepsThrough ==
    ASSUME NEW S, NEW M, NEW T, Keeps(S, M), Keeps(M, T)
    PROVE  Keeps(S, T)
  BY Zenon DEF Keeps

\* What passes from a place to another is such a step.
LEMMA PassesKeeps ==
    ASSUME NEW S, NEW T, NEW a \in Places, NEW b \in Places, Passes(S, T, a, b)
    PROVE  Keeps(S, T)
  BY PassesApart DEF Keeps

\* Octets that are dropped, and the stock that stays as it is.
LEMMA DropKeeps ==
    ASSUME NEW S, NEW T, \A p \in Places : T[p] = S[p] \/ T[p] = <<>>
    PROVE  Keeps(S, T)
<1> SUFFICES ASSUME NEW r \in Reqs, Apart(S, r)
             PROVE  Apart(T, r) /\ (Nowhere(S, r) => Nowhere(T, r))
  BY DEF Keeps
<1>1. /\ \A p \in Places : OnceIn(S[p], r)
      /\ \A p, o \in Places : HeadIn(S[p], r) /\ HeadIn(S[o], r) => p = o
  BY DEF Apart
<1>2. \A p \in Places : HeadIn(T[p], r) => HeadIn(S[p], r)
  BY NoHead
<1>3. \A p \in Places : OnceIn(T[p], r)
  BY <1>1, NoHead
<1> QED BY <1>1, <1>2, <1>3 DEF Apart, Nowhere

\* What lies at a is put after what lies at b.
Poured(S, T, a, b) ==
    /\ a # b /\ S[a] \in Seq(ReqItem) /\ S[b] \in Seq(ReqItem)
    /\ \A p \in Places : p # a /\ p # b => T[p] = S[p]
    /\ T[a] = <<>> /\ T[b] = S[b] \o S[a]

\* The octets a decoder is fed, or the codec's buffer.
LEMMA PourKeeps ==
    ASSUME NEW S, NEW T, NEW a \in Places, NEW b \in Places, Poured(S, T, a, b)
    PROVE  Keeps(S, T)
<1>0. /\ a # b /\ S[a] \in Seq(ReqItem) /\ S[b] \in Seq(ReqItem)
      /\ \A p \in Places : p # a /\ p # b => T[p] = S[p]
      /\ T[a] = <<>> /\ T[b] = S[b] \o S[a]
  BY DEF Poured
<1>1. ASSUME NEW r \in Reqs, Apart(S, r)
      PROVE  /\ OnceIn(T[a], r) /\ OnceIn(T[b], r)
             /\ a # b => ~(HeadIn(T[a], r) /\ HeadIn(T[b], r))
             /\ HeadIn(T[a], r) \/ HeadIn(T[b], r) => HeadIn(S[a], r) \/ HeadIn(S[b], r)
  <2>1. OnceIn(S[a], r) /\ OnceIn(S[b], r) /\ ~(HeadIn(S[b], r) /\ HeadIn(S[a], r))
    BY <1>0, <1>1 DEF Apart
  <2>2. /\ HeadIn(S[b] \o S[a], r) <=> HeadIn(S[b], r) \/ HeadIn(S[a], r)
        /\ OnceIn(S[b] \o S[a], r)
    BY <1>0, <2>1, JoinHead
  <2> QED BY <1>0, <2>2, NoHead
<1>2. Passes(S, T, a, b)
  BY <1>0, <1>1 DEF Passes
<1> QED BY <1>2, PassesKeeps

\* What lies at a is put at b in the place of what was there.
LEMMA HandKeeps ==
    ASSUME NEW S, NEW T, NEW a \in Places, NEW b \in Places, a # b,
           \A p \in Places : p # a /\ p # b => T[p] = S[p],
           T[a] = <<>>, T[b] = S[a]
    PROVE  Keeps(S, T)
<1>1. ASSUME NEW r \in Reqs, Apart(S, r)
      PROVE  /\ OnceIn(T[a], r) /\ OnceIn(T[b], r)
             /\ a # b => ~(HeadIn(T[a], r) /\ HeadIn(T[b], r))
             /\ HeadIn(T[a], r) \/ HeadIn(T[b], r) => HeadIn(S[a], r) \/ HeadIn(S[b], r)
  BY <1>1, NoHead DEF Apart
<1>2. Passes(S, T, a, b)
  BY <1>1 DEF Passes
<1> QED BY <1>2, PassesKeeps

\* The front of what lies at b is taken away.
Eaten(S, T, b) ==
    /\ S[b] \in Seq(ReqItem) /\ S[b] # <<>> /\ T[b] = Tail(S[b])
    /\ \A p \in Places : p # b => T[p] = S[p]

\* The octets that are decoded.
LEMMA EatKeeps ==
    ASSUME NEW S, NEW T, NEW b \in Places, Eaten(S, T, b)
    PROVE  Keeps(S, T)
<1>0. /\ S[b] \in Seq(ReqItem) /\ S[b] # <<>> /\ T[b] = Tail(S[b])
      /\ \A p \in Places : p # b => T[p] = S[p]
  BY DEF Eaten
<1>1. ASSUME NEW r \in Reqs, Apart(S, r)
      PROVE  /\ OnceIn(T[b], r)
             /\ HeadIn(T[b], r) => HeadIn(S[b], r)
  <2>1. OnceIn(S[b], r)
    BY <1>1 DEF Apart
  <2> QED BY <1>0, <2>1, TailHead
<1>2. Passes(S, T, b, b)
  BY <1>0, <1>1 DEF Passes
<1> QED BY <1>2, PassesKeeps

\* A read of the transport into b, after or in the place of what lies there.
ReadInto(S, T, b, data) ==
    /\ b # Net /\ S[Net] = net /\ S[b] \in Seq(ReqItem)
    /\ \A p \in Places : p # Net /\ p # b => T[p] = S[p]
    /\ T[Net] = Rest(data)
    /\ T[b] = data \/ T[b] = S[b] \o data

\* A read of the transport.
LEMMA ReadKeeps ==
    ASSUME Typed, NEW S, NEW T, NEW b \in Places, NEW data \in Readable, ReadInto(S, T, b, data)
    PROVE  Keeps(S, T)
<1>3. /\ b # Net /\ S[Net] = net /\ S[b] \in Seq(ReqItem)
      /\ \A p \in Places : p # Net /\ p # b => T[p] = S[p]
      /\ T[Net] = Rest(data)
      /\ T[b] = data \/ T[b] = S[b] \o data
  BY DEF ReadInto
<1>0. net \in Seq(ReqItem) /\ Net \in Places /\ data \in Seq(ReqItem)
  BY PlacesAre, ReadableIs DEF Typed
<1>1. ASSUME NEW r \in Reqs, Apart(S, r)
      PROVE  /\ OnceIn(T[Net], r) /\ OnceIn(T[b], r)
             /\ Net # b => ~(HeadIn(T[Net], r) /\ HeadIn(T[b], r))
             /\ HeadIn(T[Net], r) \/ HeadIn(T[b], r) => HeadIn(S[Net], r) \/ HeadIn(S[b], r)
  <2>1. OnceIn(net, r) /\ OnceIn(S[b], r) /\ ~(HeadIn(S[b], r) /\ HeadIn(net, r))
    BY <1>0, <1>1, <1>3 DEF Apart
  <2>2. /\ HeadIn(data, r) => HeadIn(net, r)
        /\ HeadIn(Rest(data), r) => HeadIn(net, r)
        /\ OnceIn(data, r) /\ OnceIn(Rest(data), r)
        /\ ~(HeadIn(data, r) /\ HeadIn(Rest(data), r))
    BY <1>0, <2>1, ReadHead
  <2>3. CASE T[b] = data
    BY <1>3, <2>2, <2>3
  <2>4. CASE T[b] = S[b] \o data
    <3>1. /\ HeadIn(S[b] \o data, r) <=> HeadIn(S[b], r) \/ HeadIn(data, r)
          /\ OnceIn(S[b] \o data, r)
      BY <1>0, <1>3, <2>1, <2>2, JoinHead
    <3> QED BY <1>3, <2>1, <2>2, <2>4, <3>1
  <2> QED BY <1>3, <2>3, <2>4
<1>2. Passes(S, T, Net, b)
  BY <1>1, <1>3 DEF Passes
<1> QED BY <1>0, <1>2, PassesKeeps

\* Where nothing changes but in a and b.
Still(a, b) ==
    /\ Net \in {a, b} \/ net' = net
    /\ Buf \in {a, b} \/ me'.buf = me.buf
    /\ Slot \in {a, b} \/ me'.w.data = me.w.data
    /\ Loop \in {a, b} \/ serve'.data = serve.data
    /\ \A x \in Reqs : /\ Dec(x) \in {a, b} \/ dec'[x].buf = dec[x].buf
                       /\ Read(x) \in {a, b} \/ body'[x].data = body[x].data
                       /\ Watched(x) \in {a, b} \/ wt'[x].data = wt[x].data

\* Two places at most change.
LEMMA OnlyThere ==
    ASSUME NEW a, NEW b, Still(a, b)
    PROVE  \A p \in Places : p # a /\ p # b => Stock'[p] = Stock[p]
<1> SUFFICES ASSUME NEW p \in Places, p # a, p # b PROVE Stock'[p] = Stock[p]
  OBVIOUS
<1>1. \/ p = Net \/ p = Buf \/ p = Slot \/ p = Loop
      \/ \E x \in Reqs : p = Dec(x) \/ p = Read(x) \/ p = Watched(x)
  BY PlacesAre, Zenon
<1>2. CASE p = Net \/ p = Buf \/ p = Slot \/ p = Loop
  BY <1>2, StockIs DEF Still
<1>3. ASSUME NEW x \in Reqs, p = Dec(x) \/ p = Read(x) \/ p = Watched(x)
      PROVE  Stock'[p] = Stock[p]
  BY <1>3, StockIs DEF Still
<1> QED BY <1>1, <1>2, <1>3

\* Where nothing changes but what is dropped.
LEMMA LessKeeps ==
    ASSUME net' \in {net, <<>>}, me'.buf \in {me.buf, <<>>}, me'.w.data \in {me.w.data, <<>>},
           serve'.data \in {serve.data, <<>>},
           \A x \in Reqs : /\ dec'[x].buf \in {dec[x].buf, <<>>}
                           /\ body'[x].data \in {body[x].data, <<>>}
                           /\ wt'[x].data \in {wt[x].data, <<>>}
    PROVE  Keeps(Stock, Stock')
<1>1. ASSUME NEW p \in Places PROVE Stock'[p] = Stock[p] \/ Stock'[p] = <<>>
  <2>1. \/ p = Net \/ p = Buf \/ p = Slot \/ p = Loop
        \/ \E x \in Reqs : p = Dec(x) \/ p = Read(x) \/ p = Watched(x)
    BY PlacesAre, Zenon
  <2>2. CASE p = Net \/ p = Buf \/ p = Slot \/ p = Loop
    BY <2>2, StockIs
  <2>3. ASSUME NEW x \in Reqs, p = Dec(x) \/ p = Read(x) \/ p = Watched(x)
        PROVE  Stock'[p] = Stock[p] \/ Stock'[p] = <<>>
    BY <2>3, StockIs
  <2> QED BY <2>1, <2>2, <2>3
<1> QED BY <1>1, DropKeeps, Zenon

\* An arm leaves the octets where they are, or moves what the decoder has left.
LEMMA ArmKeeps ==
    ASSUME Typed, NEW m \in Locked, m.cur.seq = None => m.cur.done, Arm(m),
           m.buf = me.buf, m.w = me.w, net' = net, serve'.data = serve.data,
           \A x \in Reqs : body'[x].data = body[x].data
    PROVE  Keeps(Stock, Stock')
<1>1. /\ Armed(m) =>
           /\ m.cur.seq \in Reqs
           /\ me'.w = [NoWatcher EXCEPT !.slot = TRUE, !.on = m.cur.seq,
                                        !.handle = IF scene.threads THEN None ELSE m.cur.seq]
           /\ me'.buf = m.buf /\ dec' = dec
           /\ wt' = [wt EXCEPT ![m.cur.seq].pc = "spawned"]
      /\ ~Armed(m) => me'.w = m.w /\ wt' = wt
  BY ArmIs
<1>2. CASE Armed(m)
  <2>1. me'.w.data = <<>>
    BY <1>1, <1>2 DEF NoWatcher
  <2>2. \A x \in Reqs : wt'[x].data = wt[x].data
    <3>1. wt \in Watchers /\ m.cur.seq \in Reqs /\ wt' = [wt EXCEPT ![m.cur.seq].pc = "spawned"]
      BY <1>1, <1>2 DEF Typed
    <3>2. PICK q \in Reqs : q = m.cur.seq
      BY <3>1
    <3> QED BY <3>1, <3>2 DEF Watchers
  <2> QED BY <1>1, <1>2, <2>1, <2>2, LessKeeps
<1>3. CASE ~Armed(m) /\ ~Armable(m)
  <2>1. me' = m /\ dec' = dec
    BY <1>3 DEF Arm, ArmDecision, ArmDec
  <2> QED BY <1>1, <1>3, <2>1, LessKeeps
<1>4. CASE ~Armed(m) /\ Armable(m)
  <2> DEFINE r == m.cur.seq
  <2>1. r \in Reqs /\ m.buf = <<>>
    BY <1>4 DEF Armable, Locked, Current
  <2>2. me' = [m EXCEPT !.buf = dec[r].buf] /\ dec' = [dec EXCEPT ![r].buf = <<>>]
    BY <1>4 DEF Arm, ArmDecision, ArmDec
  <2> HIDE DEF r
  <2>3. me'.buf = dec[r].buf /\ me'.w = m.w
    BY <2>2 DEF Locked
  <2>4. dec'[r].buf = <<>> /\ \A x \in Reqs : x # r => dec'[x] = dec[x]
    BY <2>1, <2>2 DEF Typed, Decoders
  <2>5. Buf \in Places /\ Dec(r) \in Places /\ Dec(r) # Buf
    BY <2>1, PlacesAre
  <2>6. \A p \in Places : p # Dec(r) /\ p # Buf => Stock'[p] = Stock[p]
    <3>1. me'.w.data = me.w.data /\ wt' = wt
      BY <1>1, <1>4, <2>3
    <3>2. \A x \in Reqs : Dec(x) = Dec(r) \/ dec'[x].buf = dec[x].buf
      BY <2>4
    <3> QED BY <3>1, <3>2, OnlyThere DEF Still
  <2>7. Stock'[Dec(r)] = <<>> /\ Stock'[Buf] = Stock[Dec(r)]
    BY <2>1, <2>3, <2>4, StockIs
  <2> QED BY <2>5, <2>6, <2>7, HandKeeps
<1> QED BY <1>2, <1>3, <1>4

\* ready_for_next puts what the decoder has left after what the codec has.
LEMMA ReadyKeeps ==
    ASSUME CoreInv, NEW m \in Locked, Ready(m), m.buf = me.buf, m.w = me.w, m.cur.seq = me.cur.seq,
           UNCHANGED <<net, body, wt>>
    PROVE  Keeps(Stock, Stock')
<1> DEFINE n == [m EXCEPT !.buf = @ \o Leftover(m), !.cur.done = TRUE, !.cur.bodyDone = TRUE]
           v == ReadVerdict(n)
<1>1. Leftover(m) \in Seq(ReqItem) /\ m.buf \in Seq(ReqItem) /\ m.cur \in Current
  BY LeftoverIs DEF CoreInv, Locked
<1>2. m.buf \o Leftover(m) \in Seq(ReqItem)
  BY <1>1, ConcatProperties
<1>3. n \in Locked /\ n.buf = m.buf \o Leftover(m) /\ n.w = me.w
  BY <1>1, <1>2 DEF Locked, Current
<1>4. me' = v.m /\ dec' = LeftoverTaken(m) /\ serve' = [serve EXCEPT !.pc = v.pc, !.on = v.on]
  BY DEF Ready
<1> HIDE DEF n
<1>5. v.m.buf = n.buf /\ v.m.w = n.w
  BY <1>3, VerdictIs
<1>6. me'.buf = me.buf \o Leftover(m) /\ me'.w = me.w /\ serve'.data = serve.data
  BY <1>3, <1>4, <1>5 DEF CoreInv, Typed, Serving
<1>7. CASE m.cur.seq = None
  <2>1. dec' = dec /\ me'.buf = me.buf
    BY <1>1, <1>4, <1>6, <1>7, ConcatEmptySeq DEF Leftover, LeftoverTaken
  <2> QED BY <1>6, <2>1, LessKeeps
<1>8. CASE m.cur.seq # None
  <2> DEFINE r == m.cur.seq
  <2>1. r \in Reqs
    BY <1>8, Requests
  <2>2. Leftover(m) = dec[r].buf /\ dec' = [dec EXCEPT ![r].buf = <<>>]
    BY <1>4, <1>8 DEF Leftover, LeftoverTaken
  <2> HIDE DEF r
  <2>4. dec'[r].buf = <<>> /\ \A x \in Reqs : x # r => dec'[x] = dec[x]
    BY <2>1, <2>2 DEF CoreInv, Typed, Decoders
  <2>5. Buf \in Places /\ Dec(r) \in Places /\ Dec(r) # Buf
    BY <2>1, PlacesAre
  <2>6. \A p \in Places : p # Dec(r) /\ p # Buf => Stock'[p] = Stock[p]
    BY <1>6, <2>4, OnlyThere DEF Still
  <2>7. Stock'[Dec(r)] = <<>> /\ Stock'[Buf] = Stock[Buf] \o Stock[Dec(r)]
    BY <1>6, <2>1, <2>2, <2>4, StockIs
  <2>8. Stock[Dec(r)] \in Seq(ReqItem) /\ Stock[Buf] \in Seq(ReqItem)
    BY <2>5, StockTyped DEF CoreInv
  <2>9. Poured(Stock, Stock', Dec(r), Buf)
    BY <2>5, <2>6, <2>7, <2>8 DEF Poured
  <2> QED BY <2>5, <2>9, PourKeeps
<1> QED BY <1>7, <1>8

\* A step of the loop, but for the parse of a head, moves octets on.
LEMMA LoopKeeps ==
    ASSUME CoreInv, AcceptLoop \/ Close, ~AcceptHead
    PROVE  Keeps(Stock, Stock') /\ at' = at /\ hd' = hd
<1> USE Requests
<1>1. serve \in Serving /\ dec \in Decoders /\ net \in Seq(ReqItem) /\ serve.data \in Seq(ReqItem)
      /\ me.w.data \in Seq(ReqItem)
  BY DEF CoreInv, Typed, Serving, Watch
<1>2. Rest(<<>>) = net
  <2>1. SubSeq(net, 1, Len(net)) = net
    BY <1>1, SubSeqFull
  <2> QED BY <2>1 DEF Rest
<1>3. ASSUME NEW m \in Locked, m.buf = me.buf, m.w.data \in {me.w.data, <<>>}, NEW res, HeadReadEnds(m, res)
      PROVE  me'.buf = me.buf /\ me'.w.data \in {me.w.data, <<>>} /\ serve'.data = serve.data
  <2> DEFINE n == [m EXCEPT !.parked = FALSE]
  <2>1. n \in Locked /\ n.buf = m.buf /\ n.w = m.w
    BY DEF Locked
  <2>2. \/ me' = CloseNow(n) /\ serve' = [serve EXCEPT !.pc = "out", !.on = None]
        \/ me' = n /\ serve' = [serve EXCEPT !.pc = "none", !.on = None,
                                             !.end = IF m.closed THEN "closed" ELSE "eof"]
    BY <1>3 DEF HeadReadEnds
  <2>3. serve'.data = serve.data
    BY <1>1, <2>2 DEF Serving
  <2> HIDE DEF n
  <2> QED BY <1>3, <2>1, <2>2, <2>3, CloseNowIs
<1>4. CASE BeginRead
  <2>1. UNCHANGED <<net, at, hd, body, wt>>
    BY <1>4 DEF BeginRead, serveFrame
  <2>2. CASE Ready(me)
    BY <2>1, <2>2, ReadyKeeps
  <2>3. CASE dec' = dec /\ me' \in {me, CloseNow(me), [me EXCEPT !.cur.reading = TRUE]}
             /\ serve' \in {[serve EXCEPT !.pc = "out"], [serve EXCEPT !.pc = "drain"]}
    <3>1. me'.buf = me.buf /\ me'.w = me.w
      BY <2>3, CloseNowIs DEF Locked
    <3>2. serve'.data = serve.data
      BY <1>1, <2>3 DEF Serving
    <3> QED BY <2>1, <2>3, <3>1, <3>2, LessKeeps
  <2> QED BY <1>4, <2>2, <2>3 DEF BeginRead
<1>5. CASE DrainDone
  <2> DEFINE m == [me EXCEPT !.cur.reading = FALSE]
  <2>1. UNCHANGED <<net, at, hd, body, wt>>
    BY <1>5 DEF DrainDone, serveFrame
  <2>2. m \in Locked /\ m.buf = me.buf /\ m.w = me.w /\ m.cur.seq = me.cur.seq
    BY DEF Locked, Current
  <2>3. Ready(m) \/ (me' = CloseNow(m) /\ serve' = [serve EXCEPT !.pc = "out"] /\ dec' = dec)
    BY <1>5 DEF DrainDone
  <2> HIDE DEF m
  <2>4. CASE Ready(m)
    BY <2>1, <2>2, <2>4, ReadyKeeps
  <2>5. CASE me' = CloseNow(m) /\ serve' = [serve EXCEPT !.pc = "out"] /\ dec' = dec
    <3>1. me'.buf = me.buf /\ me'.w = me.w
      BY <2>2, <2>5, CloseNowIs
    <3>2. serve'.data = serve.data
      BY <1>1, <2>5 DEF Serving
    <3> QED BY <2>1, <2>5, <3>1, <3>2, LessKeeps
  <2> QED BY <2>3, <2>4, <2>5
<1>6. CASE HeadRead
  <2>1. UNCHANGED <<at, hd, body, wt, dec>>
    BY <1>6 DEF HeadRead, serveFrame
  <2>2. PICK res \in Results, data \in Readable :
          /\ Reads(res, data)
          /\ net' = Rest(data)
          /\ IF res = "data" THEN serve' = [serve EXCEPT !.pc = "got", !.data = data] /\ me' = me
             ELSE HeadReadEnds(me, res)
    BY <1>6 DEF HeadRead
  <2>3. CASE res = "data"
    <3>1. serve'.data = data /\ me' = me
      BY <1>1, <2>2, <2>3 DEF Serving
    <3>2. Loop \in Places /\ Loop # Net
      BY PlacesAre
    <3>3. Stock[Loop] \in Seq(ReqItem) /\ Stock[Net] = net /\ Stock'[Net] = Rest(data) /\ Stock'[Loop] = data
      BY <1>1, <2>2, <3>1, StockIs
    <3>4. \A p \in Places : p # Net /\ p # Loop => Stock'[p] = Stock[p]
      BY <2>1, <3>1, OnlyThere DEF Still
    <3>5. ReadInto(Stock, Stock', Loop, data)
      BY <3>2, <3>3, <3>4 DEF ReadInto
    <3>6. Typed
      BY DEF CoreInv
    <3> QED BY <2>1, <3>2, <3>5, <3>6, ReadKeeps
  <2>4. CASE res # "data"
    <3>1. data = <<>>
      BY <2>2, <2>4 DEF Reads
    <3>2. net' = net
      BY <1>2, <2>2, <3>1
    <3>3. me'.buf = me.buf /\ me'.w.data \in {me.w.data, <<>>} /\ serve'.data = serve.data
      BY <1>3, <2>2, <2>4
    <3> QED BY <2>1, <3>2, <3>3, LessKeeps
  <2> QED BY <2>3, <2>4
<1>7. CASE TakeWatcherResult
  <2> DEFINE m == [me EXCEPT !.w = IF me.w.handle = None THEN NoWatcher
                                   ELSE [@ EXCEPT !.res = "none", !.data = <<>>]]
  <2>1. UNCHANGED <<at, hd, body, wt, dec, net>>
    BY <1>7 DEF TakeWatcherResult, serveFrame
  <2>2. IF me.w.res = "data" THEN me' = m /\ serve' = [serve EXCEPT !.pc = "got", !.data = me.w.data, !.on = None]
        ELSE HeadReadEnds(m, me.w.res)
    BY <1>7 DEF TakeWatcherResult
  <2>3. m \in Locked /\ m.buf = me.buf /\ m.w.data = <<>>
    BY EmptySeq DEF Locked, Watch, NoWatcher
  <2> HIDE DEF m
  <2>4. CASE me.w.res = "data"
    <3>1. me'.buf = me.buf /\ me'.w.data = <<>> /\ serve'.data = me.w.data
      BY <1>1, <2>2, <2>3, <2>4 DEF Serving
    <3>2. Slot \in Places /\ Loop \in Places /\ Slot # Loop
      BY PlacesAre
    <3>3. Stock'[Slot] = <<>> /\ Stock'[Loop] = Stock[Slot]
      BY <3>1, StockIs
    <3>4. \A p \in Places : p # Slot /\ p # Loop => Stock'[p] = Stock[p]
      BY <2>1, <3>1, OnlyThere DEF Still
    <3> QED BY <2>1, <3>2, <3>3, <3>4, HandKeeps
  <2>5. CASE me.w.res # "data"
    <3>1. me'.buf = me.buf /\ me'.w.data \in {me.w.data, <<>>} /\ serve'.data = serve.data
      BY <1>3, <2>2, <2>3, <2>5
    <3> QED BY <2>1, <3>1, LessKeeps
  <2> QED BY <2>4, <2>5
<1>8. CASE TakeWatcherHandle \/ RecvHeadBytes \/ StopServing \/ Close \/ CloseJoins \/ Closed
  <2>1. UNCHANGED <<at, hd, body, wt, dec, net>>
    BY <1>8 DEF TakeWatcherHandle, RecvHeadBytes, StopServing, Close, CloseJoins, Closed, serveFrame
  <2>2. me' \in {me, [me EXCEPT !.w.handle = None], [me EXCEPT !.closed = TRUE, !.reusable = FALSE], CloseNow(me)}
    BY <1>8 DEF TakeWatcherHandle, RecvHeadBytes, StopServing, Close, CloseJoins, Closed
  <2>3. me'.buf = me.buf /\ me'.w.data = me.w.data
    <3>1. CASE me' = [me EXCEPT !.w.handle = None]
      BY <3>1 DEF Locked, Watch
    <3>2. CASE me' = [me EXCEPT !.closed = TRUE, !.reusable = FALSE]
      BY <3>2 DEF Locked
    <3>3. CASE me' = me \/ me' = CloseNow(me)
      BY <3>3, CloseNowIs
    <3> QED BY <2>2, <3>1, <3>2, <3>3
  <2>4. serve'.data = serve.data
    BY <1>1, <1>8 DEF TakeWatcherHandle, RecvHeadBytes, StopServing, Close, CloseJoins, Closed, Serving
  <2> QED BY <2>1, <2>3, <2>4, LessKeeps
<1>9. CASE Drain
  <2>1. UNCHANGED <<at, hd, body, wt, me>> /\ serve.pc = "drain"
    BY <1>9 DEF Drain, serveFrame
  <2> DEFINE r == me.cur.seq
  <2>2. r \in Reqs
    BY <2>1 DEF CoreInv, ServeOK, Draining
  <2> HIDE DEF r
  <2>3. PICK data \in Readable \cup {<<>>}, eats \in BOOLEAN :
          /\ net' = Rest(data)
          /\ eats => dec[r].buf \o data # <<>>
          /\ dec' = [dec EXCEPT ![r] =
                       [buf |-> IF eats THEN Tail(dec[r].buf \o data) ELSE dec[r].buf \o data,
                        complete |-> @.complete \/ eats]]
          /\ \E p : serve' = [serve EXCEPT !.pc = p]
    BY <1>9 DEF Drain, r
  <2>4. data \in Readable /\ data \in Seq(ReqItem)
    BY <1>1, ReadableIs DEF Readable
  <2> DEFINE all == dec[r].buf \o data
             M == [p \in Places |-> IF p = Net THEN Rest(data) ELSE IF p = Dec(r) THEN all ELSE Stock[p]]
  <2>5. dec[r].buf \in Seq(ReqItem) /\ all \in Seq(ReqItem)
    <3>1. dec[r].buf \in Seq(ReqItem)
      BY <1>1, <2>2 DEF Decoders
    <3> QED BY <2>4, <3>1, ConcatProperties
  <2>6. Net \in Places /\ Dec(r) \in Places /\ Dec(r) # Net
    BY <2>2, PlacesAre
  <2>8. /\ M[Net] = Rest(data) /\ M[Dec(r)] = all
        /\ \A p \in Places : p # Net /\ p # Dec(r) => M[p] = Stock[p]
    BY <2>6
  <2> HIDE DEF M, all
  <2>9. Stock[Net] = net /\ Stock[Dec(r)] = dec[r].buf
    BY <2>2, StockIs
  <2>10. ReadInto(Stock, M, Dec(r), data)
    BY <2>5, <2>6, <2>8, <2>9 DEF ReadInto, all
  <2>11. Keeps(Stock, M)
    BY <2>4, <2>6, <2>10, ReadKeeps DEF CoreInv
  <2>12. /\ dec'[r].buf = (IF eats THEN Tail(all) ELSE all)
         /\ eats => all # <<>>
         /\ \A x \in Reqs : x # r => dec'[x] = dec[x]
    BY <1>1, <2>2, <2>3 DEF Decoders, all
  <2>13. serve'.data = serve.data
    BY <1>1, <2>3 DEF Serving
  <2>14. \A p \in Places : p # Net /\ p # Dec(r) => Stock'[p] = Stock[p]
    <3>1. \A x \in Reqs : Dec(x) \in {Net, Dec(r)} \/ dec'[x].buf = dec[x].buf
      BY <2>12
    <3>2. me'.buf = me.buf /\ me'.w.data = me.w.data /\ body' = body /\ wt' = wt
      BY <2>1
    <3>3. Still(Net, Dec(r))
      BY <2>13, <3>1, <3>2 DEF Still
    <3> QED BY <3>3, OnlyThere
  <2>15. Stock'[Net] = Rest(data) /\ Stock'[Dec(r)] = dec'[r].buf
    BY <2>2, <2>3, StockIs
  <2>16. \A p \in Places : p # Dec(r) => Stock'[p] = M[p]
    BY <2>8, <2>14, <2>15
  <2>17. CASE eats
    <3>2. Eaten(M, Stock', Dec(r))
      <4>1. M[Dec(r)] = all /\ all \in Seq(ReqItem) /\ all # <<>> /\ Stock'[Dec(r)] = Tail(all)
        BY <2>5, <2>8, <2>12, <2>15, <2>17
      <4> QED BY <2>16, <4>1 DEF Eaten
    <3>1. Keeps(M, Stock')
      BY <2>6, <3>2, EatKeeps
    <3> QED BY <2>1, <2>11, <3>1, KeepsThrough
  <2>18. CASE ~eats
    <3>1. \A p \in Places : Stock'[p] = M[p]
      <4>1. M[Dec(r)] = all /\ Stock'[Dec(r)] = all
        BY <2>8, <2>12, <2>15, <2>18
      <4> QED BY <2>16, <4>1
    <3>2. Keeps(M, Stock')
      BY <3>1, DropKeeps
    <3> QED BY <2>1, <2>11, <3>2, KeepsThrough
  <2> QED BY <2>17, <2>18
<1> QED BY <1>4, <1>5, <1>6, <1>7, <1>8, <1>9 DEF AcceptLoop

\* A step of a handler leaves the octets where they are, or gives them to the caller.
LEMMA HandlerKeeps ==
    ASSUME CoreInv, NEW r \in Reqs, Handler(r) \/ Detach(r)
    PROVE  Keeps(Stock, Stock') /\ at' = at /\ \A x \in Reqs : hd'[x].pc = "off" <=> hd[x].pc = "off"
<1> USE Requests
<1>1. UNCHANGED <<at, serve, body, net>>
  BY DEF Handler, Detach, RespondHead, AfterContinue, HandlerStores, HandlerJoins, WriteHead, ArmForBody,
         StreamBody, FinishResponse, FailResponse, hdFrame
<1>2. Typed /\ (me.cur.seq = None => me.cur.done) /\ hd \in Handlers /\ dec \in Decoders
  BY DEF CoreInv, ServeOK, Typed
<1>3. ASSUME NEW p \in HandlerPlaces \ {"off"}, HdGoes(r, p), hd[r].pc # "off"
      PROVE  \A x \in Reqs : hd'[x].pc = "off" <=> hd[x].pc = "off"
  BY <1>2, <1>3 DEF HdGoes, Handlers
<1>4. ASSUME NEW m \in Locked, m.cur.seq = me.cur.seq, m.cur.done = me.cur.done, m.w = me.w, m.buf = me.buf,
             Arm(m)
      PROVE  Keeps(Stock, Stock')
  BY <1>1, <1>2, <1>4, ArmKeeps
<1>5. CASE RespondHead(r)
  <2>1. PICK m \in Locked : Alike(m) /\ (Arm(m) \/ (me' = m /\ UNCHANGED <<dec, wt>>))
    BY <1>5, RespondHeadIs
  <2>2. Keeps(Stock, Stock')
    <3>1. CASE Arm(m)
      BY <1>4, <2>1, <3>1 DEF Alike
    <3>2. CASE me' = m /\ UNCHANGED <<dec, wt>>
      BY <1>1, <2>1, <3>2, LessKeeps DEF Alike
    <3> QED BY <2>1, <3>1, <3>2
  <2>3. PICK p \in {"cont", "fail", "userError", "store", "head"} :
          \E mode : hd' = [hd EXCEPT ![r] = [pc |-> p, mode |-> mode]]
    BY <1>5, RespondHeadIs DEF HeadGoes
  <2>4. hd[r].pc # "off"
    BY <1>5 DEF RespondHead
  <2>5. \A x \in Reqs : hd'[x].pc = "off" <=> hd[x].pc = "off"
    BY <1>2, <2>3, <2>4 DEF Handlers
  <2> QED BY <1>1, <2>2, <2>5
<1>6. CASE ArmForBody(r)
  <2> DEFINE m == [me EXCEPT !.cur.wanted = TRUE]
  <2>1. m \in Locked /\ m.cur.seq = me.cur.seq /\ m.cur.done = me.cur.done /\ m.w = me.w /\ m.buf = me.buf
    BY DEF Locked, Current
  <2>2. Arm(m)
    BY <1>6 DEF ArmForBody
  <2>3. PICK p \in HandlerPlaces \ {"off"} : HdGoes(r, p)
    BY <1>6 DEF ArmForBody, IfToStore, HandlerPlaces
  <2>4. hd[r].pc # "off"
    BY <1>6 DEF ArmForBody
  <2> HIDE DEF m
  <2> QED BY <1>1, <1>3, <1>4, <2>1, <2>2, <2>3, <2>4
<1>7. CASE HandlerStores(r) \/ AfterContinue(r) \/ HandlerJoins(r) \/ WriteHead(r) \/ StreamBody(r)
  <2>1. me' = Stored(me, r) \/ me' = me
    BY <1>7 DEF HandlerStores, AfterContinue, HandlerJoins, WriteHead, StreamBody
  <2>2. me'.buf = me.buf /\ me'.w.data = me.w.data
    BY <2>1 DEF Stored, Locked, Watch
  <2>3. UNCHANGED <<dec, wt>>
    BY <1>7 DEF HandlerStores, AfterContinue, HandlerJoins, WriteHead, StreamBody
  <2>4. Keeps(Stock, Stock')
    BY <1>1, <2>2, <2>3, LessKeeps
  <2>5. PICK p \in HandlerPlaces \ {"off"} : HdGoes(r, p)
    <3> DEFINE w == CASE hd[r].mode = "bytes" -> "finish" [] hd[r].mode = "async" -> "arm"
                      [] hd[r].mode = "push" -> "stream"
    <3>1. CASE WriteHead(r)
      <4>1. HdGoes(r, "fail") \/ (HdGoes(r, w) /\ hd[r].pc = "head")
        BY <3>1 DEF WriteHead
      <4>2. hd[r].pc = "head" => w \in {"finish", "arm", "stream"}
        <5>1. hd[r].pc = "head" => hd[r].mode \in {"bytes", "async", "push"}
          BY <1>2 DEF CoreInv, ServeOK, ModeOK, Handlers
        <5> QED BY <5>1
      <4> HIDE DEF w
      <4> QED BY <4>1, <4>2 DEF HandlerPlaces
    <3>2. CASE HandlerStores(r)
      BY <3>2 DEF HandlerStores, HandlerPlaces
    <3>3. CASE AfterContinue(r) \/ HandlerJoins(r) \/ StreamBody(r)
      BY <3>3 DEF AfterContinue, HandlerJoins, StreamBody, HandlerPlaces
    <3> QED BY <1>7, <3>1, <3>2, <3>3
  <2>6. hd[r].pc # "off"
    BY <1>7 DEF HandlerStores, AfterContinue, HandlerJoins, WriteHead, StreamBody
  <2> QED BY <1>1, <1>3, <2>4, <2>5, <2>6
<1>8. CASE FinishResponse(r) \/ FailResponse(r) \/ Detach(r)
  <2>1. HdGoes(r, "over") /\ hd[r].pc # "off" /\ UNCHANGED wt
    BY <1>8 DEF FinishResponse, FailResponse, Detach
  <2>2. dec' = dec \/ dec' = LeftoverTaken(me)
    BY <1>8 DEF FinishResponse, FailResponse, Detach
  <2>3. \A x \in Reqs : dec'[x].buf \in {dec[x].buf, <<>>}
    BY <1>2, <2>2 DEF LeftoverTaken, Decoders
  <2>4. me'.buf \in {me.buf, <<>>} /\ me'.w.data \in {me.w.data, <<>>}
    <3>1. CASE FinishResponse(r)
      <4> DEFINE n == Finished
      <4>1. n \in Locked /\ n.buf = me.buf /\ n.w = me.w
        BY FinishedIs DEF Finished, Locked
      <4>2. me' = n \/ me' = CloseNow(n) \/ me' = [CloseNow(n) EXCEPT !.upgraded = TRUE, !.buf = <<>>]
        BY <3>1 DEF FinishResponse, Finished
      <4> HIDE DEF n
      <4>3. CloseNow(n) \in Locked /\ CloseNow(n).buf = n.buf /\ CloseNow(n).w = n.w
        BY <4>1, CloseNowIs
      <4>4. CASE me' = [CloseNow(n) EXCEPT !.upgraded = TRUE, !.buf = <<>>]
        BY <4>1, <4>3, <4>4 DEF Locked
      <4> QED BY <4>1, <4>2, <4>3, <4>4
    <3>2. CASE FailResponse(r)
      <4> DEFINE n == [me EXCEPT !.cur.done = TRUE]
      <4>1. n \in Locked /\ n.buf = me.buf /\ n.w = me.w /\ me' = CloseNow(n)
        BY <3>2 DEF FailResponse, Locked, Current
      <4> HIDE DEF n
      <4> QED BY <4>1, CloseNowIs
    <3>3. CASE Detach(r)
      <4> DEFINE n == CloseNow(me)
      <4>1. n \in Locked
        BY CloseNowIs
      <4>2. me' = [n EXCEPT !.upgraded = TRUE, !.buf = <<>>, !.w.data = <<>>,
                            !.cur.responded = TRUE, !.cur.done = TRUE]
        BY <3>3 DEF Detach
      <4> HIDE DEF n
      <4> QED BY <4>1, <4>2 DEF Locked, Watch
    <3> QED BY <1>8, <3>1, <3>2, <3>3
  <2>5. Keeps(Stock, Stock')
    BY <1>1, <2>1, <2>3, <2>4, LessKeeps
  <2>6. "over" \in HandlerPlaces \ {"off"}
    BY DEF HandlerPlaces
  <2> QED BY <1>1, <1>3, <2>1, <2>5, <2>6
<1> QED BY <1>5, <1>6, <1>7, <1>8 DEF Handler

\* The reader of a body, a call of peer_closed() and the watcher move octets on.
LEMMA OthersKeep ==
    ASSUME CoreInv, NEW r \in Reqs,
           ReadBody(r) \/ BodyReader(r) \/ PeerClosed(r) \/ PeerWaiter(r) \/ Watcher(r)
    PROVE  Keeps(Stock, Stock') /\ at' = at /\ hd' = hd
<1> USE Requests
<1>1. UNCHANGED <<at, serve, hd>>
  BY DEF ReadBody, BodyReader, PeerClosed, PeerWaiter, Watcher, WriteContinue, DecodeBody, ReadBodyMore, FeedBody,
         EndBody, BodyStores, PeerStores, PeerWaits, WatcherStarts, WatcherReads, WatcherCompleted,
         bodyFrame, peerFrame, watchFrame
<1>2. /\ Typed /\ (me.cur.seq = None => me.cur.done) /\ dec \in Decoders /\ body \in Bodies /\ wt \in Watchers
      /\ net \in Seq(ReqItem)
  BY DEF CoreInv, ServeOK, Typed
<1>3. ASSUME NEW m \in Locked, m.cur.seq = me.cur.seq, m.cur.done = me.cur.done, m.w = me.w, m.buf = me.buf,
             Arm(m), \A x \in Reqs : body'[x].data = body[x].data, net' = net
      PROVE  Keeps(Stock, Stock')
  BY <1>1, <1>2, <1>3, ArmKeeps
<1>4. ASSUME me'.buf = me.buf, me'.w.data = me.w.data, UNCHANGED <<net, dec, wt>>,
             \A x \in Reqs : body'[x].data = body[x].data
      PROVE  Keeps(Stock, Stock')
  BY <1>1, <1>4, LessKeeps
<1>6. ASSUME NEW p, NEW e, \/ BodyGoes(r, p)
                           \/ body' = [body EXCEPT ![r].pc = p, ![r].end = e]
                           \/ body' = [body EXCEPT ![r].pc = p, ![r].got = TRUE]
                           \/ body' = body
      PROVE  \A x \in Reqs : body'[x].data = body[x].data
  <2>1. CASE BodyGoes(r, p)
    BY <1>2, <2>1 DEF Bodies, BodyGoes
  <2>2. CASE body' = [body EXCEPT ![r].pc = p, ![r].end = e]
    BY <1>2, <2>2 DEF Bodies
  <2>3. CASE body' = [body EXCEPT ![r].pc = p, ![r].got = TRUE]
    BY <1>2, <2>3 DEF Bodies
  <2> QED BY <1>6, <2>1, <2>2, <2>3
<1>7. CASE ReadBody(r) \/ WriteContinue(r) \/ BodyStores(r)
  <2>1. me' = me \/ me' = [me EXCEPT !.cur.cont = TRUE] \/ me' = Stored(me, r)
    BY <1>7 DEF ReadBody, WriteContinue, BodyStores
  <2>2. me'.buf = me.buf /\ me'.w.data = me.w.data
    BY <2>1 DEF Stored, Locked, Watch
  <2>3. UNCHANGED <<net, dec, wt>>
    BY <1>7 DEF ReadBody, WriteContinue, BodyStores
  <2>5. \E p, e : BodyGoes(r, p) \/ body' = [body EXCEPT ![r].pc = p, ![r].end = e]
    <3>1. CASE ReadBody(r)
      <4>1. \/ body' = [body EXCEPT ![r].pc = "over", ![r].end = "clean"]
            \/ BodyGoes(r, "100") \/ BodyGoes(r, "loop")
        BY <3>1 DEF ReadBody
      <4> QED BY <4>1
    <3>2. CASE WriteContinue(r)
      BY <3>2 DEF WriteContinue
    <3>3. CASE BodyStores(r)
      BY <3>3 DEF BodyStores
    <3> QED BY <1>7, <3>1, <3>2, <3>3
  <2>4. \A x \in Reqs : body'[x].data = body[x].data
    BY <1>6, <2>5
  <2> QED BY <1>1, <1>4, <2>2, <2>3, <2>4
<1>8. CASE DecodeBody(r)
  <2>1. me' = me \/ me' = [me EXCEPT !.reusable = FALSE] \/ me' = [me EXCEPT !.cur.reading = TRUE]
    BY <1>8 DEF DecodeBody, BodyRaises
  <2>2. me'.buf = me.buf /\ me'.w = me.w
    <3>1. CASE me' = [me EXCEPT !.reusable = FALSE]
      BY <3>1 DEF Locked
    <3>2. CASE me' = [me EXCEPT !.cur.reading = TRUE]
      BY <3>2 DEF Locked
    <3> QED BY <2>1, <3>1, <3>2
  <2>6. \E p, e : \/ BodyGoes(r, p) \/ body' = [body EXCEPT ![r].pc = p, ![r].end = e]
                 \/ body' = [body EXCEPT ![r].pc = p, ![r].got = TRUE]
    BY <1>8 DEF DecodeBody, BodyRaises
  <2>3. UNCHANGED <<net, wt>> /\ \A x \in Reqs : body'[x].data = body[x].data
    <3>1. UNCHANGED <<net, wt>>
      BY <1>8 DEF DecodeBody
    <3> QED BY <1>6, <2>6, <3>1
  <2>4. CASE dec' = dec
    BY <1>1, <1>4, <2>2, <2>3, <2>4
  <2>5. CASE dec[r].buf # <<>> /\ dec' = [dec EXCEPT ![r] = [buf |-> Tail(@.buf), complete |-> TRUE]]
    <3>1. dec'[r].buf = Tail(dec[r].buf) /\ \A x \in Reqs : x # r => dec'[x] = dec[x]
      BY <1>2, <2>5 DEF Decoders
    <3>2. Dec(r) \in Places
      BY PlacesAre
    <3>3. Stock[Dec(r)] \in Seq(ReqItem) /\ Stock[Dec(r)] = dec[r].buf /\ Stock'[Dec(r)] = dec'[r].buf
      BY <1>2, <3>2, StockTyped, StockIs
    <3>4. \A x \in Reqs : Dec(x) = Dec(r) \/ dec'[x].buf = dec[x].buf
      BY <3>1
    <3>5. Still(Dec(r), Dec(r))
      BY <1>1, <2>2, <2>3, <3>4 DEF Still
    <3>6. \A p \in Places : p # Dec(r) => Stock'[p] = Stock[p]
      BY <3>5, OnlyThere
    <3>7. Eaten(Stock, Stock', Dec(r))
      BY <2>5, <3>1, <3>3, <3>6 DEF Eaten
    <3> QED BY <1>1, <3>2, <3>7, EatKeeps
  <2> QED BY <1>8, <2>4, <2>5 DEF DecodeBody
<1>9. CASE FeedBody(r)
  <2>1. /\ dec' = [dec EXCEPT ![r].buf = @ \o body[r].data]
        /\ body' = [body EXCEPT ![r].pc = "loop", ![r].data = <<>>]
        /\ UNCHANGED <<net, me, wt>>
    BY <1>9 DEF FeedBody
  <2>2. /\ dec'[r].buf = dec[r].buf \o body[r].data /\ body'[r].data = <<>>
        /\ \A x \in Reqs : x # r => dec'[x] = dec[x] /\ body'[x] = body[x]
    BY <1>2, <2>1 DEF Decoders, Bodies
  <2>3. Dec(r) \in Places /\ Read(r) \in Places /\ Dec(r) # Read(r)
    BY PlacesAre
  <2>4. \A x \in Reqs : /\ Dec(x) = Dec(r) \/ dec'[x].buf = dec[x].buf
                        /\ Read(x) = Read(r) \/ body'[x].data = body[x].data
    BY <2>2
  <2>5. Still(Read(r), Dec(r))
    BY <1>1, <2>1, <2>4 DEF Still
  <2>6. \A p \in Places : p # Read(r) /\ p # Dec(r) => Stock'[p] = Stock[p]
    BY <2>5, OnlyThere
  <2>7. /\ Stock[Dec(r)] = dec[r].buf /\ Stock'[Dec(r)] = dec'[r].buf
        /\ Stock[Read(r)] = body[r].data /\ Stock'[Read(r)] = body'[r].data
        /\ Stock[Dec(r)] \in Seq(ReqItem) /\ Stock[Read(r)] \in Seq(ReqItem)
    BY <1>2, <2>3, StockTyped, StockIs
  <2>8. Poured(Stock, Stock', Read(r), Dec(r))
    BY <2>2, <2>3, <2>6, <2>7 DEF Poured
  <2> QED BY <1>1, <2>3, <2>8, PourKeeps
<1>10. CASE ReadBodyMore(r)
  <2> DEFINE n == IF IsCurrent(r) THEN [me EXCEPT !.cur.reading = FALSE] ELSE me
  <2>1. n \in Locked /\ n.buf = me.buf /\ n.w = me.w
    <3>1. [me EXCEPT !.cur.reading = FALSE] \in Locked /\ [me EXCEPT !.cur.reading = FALSE].buf = me.buf
          /\ [me EXCEPT !.cur.reading = FALSE].w = me.w
      BY DEF Locked, Current
    <3> QED BY <3>1
  <2>2. PICK data \in Readable :
          \/ BodyRaises(r, n) /\ UNCHANGED <<net, dec>>
          \/ /\ me' = n /\ net' = Rest(data)
             /\ \/ body' = [body EXCEPT ![r].pc = "feed", ![r].data = data] /\ UNCHANGED dec
                \/ dec' = [dec EXCEPT ![r].buf = @ \o data] /\ BodyGoes(r, "loop")
    BY <1>10 DEF ReadBodyMore
  <2> HIDE DEF n
  <2>3. wt' = wt
    BY <1>10 DEF ReadBodyMore
  <2>4. me'.buf = me.buf /\ me'.w = me.w
    <3>1. me' = n \/ me' = [n EXCEPT !.reusable = FALSE]
      BY <2>2 DEF BodyRaises
    <3> QED BY <2>1, <3>1 DEF Locked
  <2>5. CASE BodyRaises(r, n) /\ UNCHANGED <<net, dec>>
    <3>0. body' = [body EXCEPT ![r].pc = "over", ![r].end = "error"]
      BY <2>5 DEF BodyRaises
    <3>1. \A x \in Reqs : body'[x].data = body[x].data
      BY <1>6, <3>0
    <3> QED BY <1>1, <1>4, <2>3, <2>4, <2>5, <3>1
  <2>6. Net \in Places /\ Dec(r) \in Places /\ Read(r) \in Places /\ Dec(r) # Net /\ Read(r) # Net
    BY PlacesAre
  <2>7. /\ Stock[Dec(r)] = dec[r].buf /\ Stock'[Dec(r)] = dec'[r].buf
        /\ Stock'[Read(r)] = body'[r].data /\ Stock[Net] = net /\ Stock'[Net] = net'
        /\ Stock[Dec(r)] \in Seq(ReqItem) /\ Stock[Read(r)] \in Seq(ReqItem)
    BY <1>2, <2>6, StockTyped, StockIs
  <2>8. CASE /\ net' = Rest(data) /\ UNCHANGED dec
             /\ body' = [body EXCEPT ![r].pc = "feed", ![r].data = data]
    <3>1. body'[r].data = data /\ \A x \in Reqs : x # r => body'[x] = body[x]
      BY <1>2, <2>8 DEF Bodies
    <3>2. \A x \in Reqs : Read(x) = Read(r) \/ body'[x].data = body[x].data
      BY <3>1
    <3>3. Still(Net, Read(r))
      BY <1>1, <2>3, <2>4, <2>8, <3>2 DEF Still
    <3>4. \A p \in Places : p # Net /\ p # Read(r) => Stock'[p] = Stock[p]
      BY <3>3, OnlyThere
    <3>5. ReadInto(Stock, Stock', Read(r), data)
      BY <2>6, <2>7, <2>8, <3>1, <3>4 DEF ReadInto
    <3> QED BY <1>1, <1>2, <2>6, <3>5, ReadKeeps
  <2>9. CASE /\ net' = Rest(data) /\ BodyGoes(r, "loop")
             /\ dec' = [dec EXCEPT ![r].buf = @ \o data]
    <3>1. dec'[r].buf = dec[r].buf \o data /\ \A x \in Reqs : x # r => dec'[x] = dec[x]
      BY <1>2, <2>9 DEF Decoders
    <3>2. \A x \in Reqs : Dec(x) = Dec(r) \/ dec'[x].buf = dec[x].buf
      BY <3>1
    <3>6. \A x \in Reqs : body'[x].data = body[x].data
      BY <1>6, <2>9
    <3>3. Still(Net, Dec(r))
      BY <1>1, <2>3, <2>4, <2>9, <3>2, <3>6 DEF Still
    <3>4. \A p \in Places : p # Net /\ p # Dec(r) => Stock'[p] = Stock[p]
      BY <3>3, OnlyThere
    <3>5. ReadInto(Stock, Stock', Dec(r), data)
      BY <2>6, <2>7, <2>9, <3>1, <3>4 DEF ReadInto
    <3> QED BY <1>1, <1>2, <2>6, <3>5, ReadKeeps
  <2> QED BY <2>2, <2>5, <2>8, <2>9
<1>11. CASE EndBody(r) \/ PeerClosed(r)
  <2>1. net' = net /\ \A x \in Reqs : body'[x].data = body[x].data
    <3>1. net' = net
      BY <1>11 DEF EndBody, PeerClosed, peerFrame
    <3>2. body' = body \/ \E p : body' = [body EXCEPT ![r].pc = p, ![r].end = "clean"]
      BY <1>11 DEF EndBody, PeerClosed, peerFrame
    <3> QED BY <1>6, <3>1, <3>2
  <2>2. \/ UNCHANGED <<me, dec, wt>>
        \/ Arm([me EXCEPT !.cur.reading = FALSE, !.cur.bodyDone = TRUE])
        \/ Arm([me EXCEPT !.cur.wanted = TRUE])
    BY <1>11 DEF EndBody, PeerClosed
  <2>3. ASSUME NEW m, m = [me EXCEPT !.cur.reading = FALSE, !.cur.bodyDone = TRUE]
                       \/ m = [me EXCEPT !.cur.wanted = TRUE]
        PROVE  m \in Locked /\ m.cur.seq = me.cur.seq /\ m.cur.done = me.cur.done /\ m.w = me.w /\ m.buf = me.buf
    <3>1. CASE m = [me EXCEPT !.cur.reading = FALSE, !.cur.bodyDone = TRUE]
      BY <3>1 DEF Locked, Current
    <3>2. CASE m = [me EXCEPT !.cur.wanted = TRUE]
      BY <3>2 DEF Locked, Current
    <3> QED BY <2>3, <3>1, <3>2
  <2> QED BY <1>1, <1>3, <1>4, <2>1, <2>2, <2>3
<1>12. CASE PeerWaiter(r) \/ WatcherStarts(r)
  <2>1. me' = me \/ me' = Stored(me, r) \/ me' = [me EXCEPT !.w.completed = TRUE]
    BY <1>12 DEF PeerWaiter, PeerStores, PeerWaits, WatcherStarts
  <2>2. me'.buf = me.buf /\ me'.w.data = me.w.data
    BY <2>1 DEF Stored, Locked, Watch
  <2>3. UNCHANGED <<net, dec, body>>
    BY <1>12 DEF PeerWaiter, PeerStores, PeerWaits, WatcherStarts, peerFrame, watchFrame
  <2>4. wt' = wt \/ wt' = [wt EXCEPT ![r].pc = "reading"] \/ wt' = [wt EXCEPT ![r].pc = "over"]
    BY <1>12 DEF PeerWaiter, PeerStores, PeerWaits, WatcherStarts
  <2>5. \A x \in Reqs : wt'[x].data = wt[x].data
    <3>1. CASE wt' = [wt EXCEPT ![r].pc = "reading"]
      BY <1>2, <3>1 DEF Watchers
    <3>2. CASE wt' = [wt EXCEPT ![r].pc = "over"]
      BY <1>2, <3>2 DEF Watchers
    <3> QED BY <2>4, <3>1, <3>2
  <2> QED BY <1>1, <2>2, <2>3, <2>5, LessKeeps
<1>13. CASE WatcherReads(r)
  <2>1. PICK data \in Readable : \E res :
          net' = Rest(data) /\ wt' = [wt EXCEPT ![r] = [pc |-> "result", res |-> res, data |-> data]]
    BY <1>13 DEF WatcherReads
  <2>2. UNCHANGED <<me, dec, body>>
    BY <1>13 DEF WatcherReads, watchFrame
  <2>3. wt'[r].data = data /\ \A x \in Reqs : x # r => wt'[x] = wt[x]
    BY <1>2, <2>1 DEF Watchers
  <2>4. Watched(r) \in Places /\ Watched(r) # Net
    BY PlacesAre
  <2>5. \A x \in Reqs : Watched(x) = Watched(r) \/ wt'[x].data = wt[x].data
    BY <2>3
  <2>6. Still(Net, Watched(r))
    BY <1>1, <2>2, <2>5 DEF Still
  <2>7. \A p \in Places : p # Net /\ p # Watched(r) => Stock'[p] = Stock[p]
    BY <2>6, OnlyThere
  <2>8. /\ Stock[Net] = net /\ Stock'[Net] = Rest(data) /\ Stock'[Watched(r)] = data
        /\ Stock[Watched(r)] \in Seq(ReqItem)
    BY <1>2, <2>1, <2>3, <2>4, StockTyped, StockIs
  <2>9. ReadInto(Stock, Stock', Watched(r), data)
    BY <2>4, <2>7, <2>8 DEF ReadInto
  <2> QED BY <1>1, <1>2, <2>4, <2>9, ReadKeeps
<1>14. CASE WatcherCompleted(r)
  <2> DEFINE n == [me EXCEPT !.w = [@ EXCEPT !.res = wt[r].res, !.data = wt[r].data,
                                             !.completed = TRUE]]
  <2>1. me' = me \/ me' = n \/ me' = [n EXCEPT !.reusable = FALSE, !.cur.gone = TRUE]
    BY <1>14 DEF WatcherCompleted
  <2>2. UNCHANGED <<net, dec, body>> /\ wt' = [wt EXCEPT ![r] = [pc |-> "over", res |-> "none", data |-> <<>>]]
    BY <1>14 DEF WatcherCompleted, watchFrame
  <2>3. wt'[r].data = <<>> /\ \A x \in Reqs : x # r => wt'[x] = wt[x]
    BY <1>2, <2>2 DEF Watchers
  <2>4. \A x \in Reqs : wt'[x].data \in {wt[x].data, <<>>}
    BY <2>3
  <2>5. n \in Locked /\ n.buf = me.buf /\ n.w.data = wt[r].data
    BY <1>2 DEF Locked, Watch, Watchers
  <2> HIDE DEF n
  <2>6. CASE me' = me
    BY <1>1, <2>2, <2>4, <2>6, LessKeeps
  <2>7. CASE me' # me
    <3>1. me'.buf = me.buf /\ me'.w.data = wt[r].data
      BY <2>1, <2>5, <2>7 DEF Locked
    <3>2. Watched(r) \in Places /\ Slot \in Places /\ Slot # Watched(r)
      BY PlacesAre
    <3>3. Stock'[Watched(r)] = <<>> /\ Stock'[Slot] = Stock[Watched(r)]
      BY <2>3, <3>1, StockIs
    <3>4. \A x \in Reqs : Watched(x) = Watched(r) \/ wt'[x].data = wt[x].data
      BY <2>3
    <3>5. Still(Watched(r), Slot)
      BY <1>1, <2>2, <3>1, <3>4 DEF Still
    <3>6. \A p \in Places : p # Watched(r) /\ p # Slot => Stock'[p] = Stock[p]
      BY <3>5, OnlyThere
    <3> QED BY <1>1, <3>2, <3>3, <3>6, HandKeeps
  <2> QED BY <2>6, <2>7
<1> QED BY <1>7, <1>8, <1>9, <1>10, <1>11, <1>12, <1>13, <1>14 DEF BodyReader, Watcher

\* The deadline, the graceful shutdown and the client's end bring no octets.
LEMMA TimeKeeps ==
    ASSUME CoreInv, Overdue \/ RequestShutdown \/ ClientShutsDown \/ ClientResets
    PROVE  Keeps(Stock, Stock') /\ at' = at /\ hd' = hd
<1> USE Requests
<1> DEFINE n == [me EXCEPT !.reusable = FALSE, !.shutdown = TRUE]
<1>1. n \in Locked /\ n.buf = me.buf /\ n.w = me.w
  BY DEF Locked
<1>2. UNCHANGED <<at, hd, dec, serve, body, wt>> /\ net' \in {net, <<>>}
  BY DEF Overdue, RequestShutdown, ClientShutsDown, ClientResets, timeFrame
<1>3. me' \in {me, CloseNow(me), n, CloseNow(n)}
  BY DEF Overdue, RequestShutdown, ClientShutsDown, ClientResets
<1> HIDE DEF n
<1>4. me'.buf = me.buf /\ me'.w = me.w
  BY <1>1, <1>3, CloseNowIs
<1> QED BY <1>2, <1>4, LessKeeps

\* A request has one head, and it comes first.
LEMMA MessageHead ==
    ASSUME NEW r \in Reqs, NEW k \in {"plain", "body", "expect", "upgrade", "bad"},
           NEW i \in 1..Len(Message(r, k)), NEW x \in Reqs, Message(r, k)[i] = Item(x, "h")
    PROVE  x = r /\ i = 1
<1> DEFINE m == Message(r, k)
<1>1. CASE k = "plain"
  <2>1. m = <<[r |-> r, part |-> "h"], [r |-> r, part |-> "H"]>>
    BY <1>1 DEF Message, Item
  <2> QED BY <2>1 DEF Item
<1>2. CASE k \in {"body", "expect"}
  <2>1. m = <<[r |-> r, part |-> "h"], [r |-> r, part |-> "H"], [r |-> r, part |-> "b"]>>
    BY <1>2 DEF Message, Item
  <2> QED BY <2>1 DEF Item
<1>3. CASE k = "upgrade"
  <2>1. m = <<[r |-> r, part |-> "h"], [r |-> r, part |-> "H"], [r |-> r, part |-> "raw"]>>
    BY <1>3 DEF Message, Item
  <2> QED BY <2>1 DEF Item
<1>4. CASE k = "bad"
  <2>1. m = <<[r |-> r, part |-> "x"]>>
    BY <1>4 DEF Message, Item
  <2> QED BY <2>1 DEF Item
<1> QED BY <1>1, <1>2, <1>3, <1>4

\* An item at the end of a sequence.
LEMMA AppendHead ==
    ASSUME NEW s \in Seq(ReqItem), NEW e \in ReqItem, NEW r \in Reqs
    PROVE  /\ HeadIn(Append(s, e), r) <=> HeadIn(s, r) \/ e = Item(r, "h")
           /\ OnceIn(s, r) /\ ~(HeadIn(s, r) /\ e = Item(r, "h")) => OnceIn(Append(s, e), r)
<1>1. /\ Len(s) \in Nat /\ DOMAIN s = 1..Len(s)
      /\ DOMAIN Append(s, e) = 1..Len(s) + 1
      /\ \A i \in 1..Len(s) : Append(s, e)[i] = s[i]
      /\ Append(s, e)[Len(s) + 1] = e
  BY LenProperties, AppendProperties
<1>2. \A i \in DOMAIN Append(s, e) : i \in DOMAIN s \/ i = Len(s) + 1
  BY <1>1
<1>3. DOMAIN s \subseteq DOMAIN Append(s, e) /\ Len(s) + 1 \in DOMAIN Append(s, e)
  BY <1>1
<1>4. \A i \in DOMAIN s : Append(s, e)[i] = s[i]
  BY <1>1
<1>5. Append(s, e)[Len(s) + 1] = e
  BY <1>1
<1>6. HeadIn(Append(s, e), r) <=> HeadIn(s, r) \/ e = Item(r, "h")
  BY <1>2, <1>3, <1>4, <1>5 DEF HeadIn
<1>7. OnceIn(s, r) /\ ~(HeadIn(s, r) /\ e = Item(r, "h")) => OnceIn(Append(s, e), r)
  BY <1>2, <1>4, <1>5 DEF HeadIn, OnceIn
<1> QED BY <1>6, <1>7

\* The client sends the head of a request once, and its own.
LEMMA ClientSendsOnce == ASSUME CoreInv, ParsedOnce, ClientSends PROVE ParsedOnce'
<1> DEFINE items == Message(at.r, kind[at.r])
           e == items[at.i]
<1>1. at.r \in Reqs /\ at.i \in 1..Len(items) /\ at \in [r : Nat \ {0}, i : 1..3]
  BY DEF CoreInv, Typed, ClientTyped, ClientSends
<1>2. items \in Seq(ReqItem) /\ Len(items) \in 1..3
  BY <1>1, KindIs, MessageIs DEF CoreInv, Typed
<1>3. e \in ReqItem
  BY <1>1, <1>2, ElementOfSeq
<1>4. net' = Append(net, e) /\ at' = IF at.i < Len(items) THEN [at EXCEPT !.i = @ + 1] ELSE [r |-> at.r + 1, i |-> 1]
  BY DEF ClientSends
<1>5. \A x \in Reqs : e = Item(x, "h") => x = at.r /\ at.i = 1
  BY <1>1, KindIs, MessageHead DEF CoreInv, Typed
<1>6. PICK l \in 1..3 : l = Len(items)
  BY <1>2
<1> HIDE DEF items, e
<1>7. (at'.r = at.r /\ at'.i = at.i + 1) \/ (at'.r = at.r + 1 /\ at'.i = 1)
  BY <1>1, <1>4
<1>8. UNCHANGED <<me, serve, dec, body, wt, hd>>
  BY DEF ClientSends
<1>9. Still(Net, Net)
  BY <1>8 DEF Still
<1>10. \A p \in Places : p # Net => Stock'[p] = Stock[p]
  BY <1>9, OnlyThere
<1>11. Net \in Places /\ Stock[Net] = net /\ Stock'[Net] = Append(net, e) /\ net \in Seq(ReqItem)
  BY <1>4, PlacesAre, StockIs DEF CoreInv, Typed
<1> SUFFICES ASSUME NEW r \in Reqs PROVE HeadOnce(r)'
  BY DEF ParsedOnce
<1>12. /\ Apart(Stock, r)
       /\ Unsent(r) \/ hd[r].pc # "off" => Nowhere(Stock, r)
       /\ Unsent(r) => hd[r].pc = "off"
  BY DEF ParsedOnce, HeadOnce
<1>13. r \in Int /\ at.r \in Int /\ at.i \in 1..3
  BY <1>1 DEF Reqs
<1>14. /\ HeadIn(Append(net, e), r) <=> HeadIn(net, r) \/ e = Item(r, "h")
       /\ OnceIn(net, r) /\ ~(HeadIn(net, r) /\ e = Item(r, "h")) => OnceIn(Append(net, e), r)
  BY <1>3, <1>11, AppendHead
<1>15. CASE e = Item(r, "h")
  <2>1. Unsent(r) /\ r = at.r /\ at.i = 1
    BY <1>5, <1>15 DEF Unsent
  <2>2. Nowhere(Stock, r) /\ hd[r].pc = "off"
    BY <1>12, <2>1
  <2>3. ~(at'.r < r) /\ ~(at'.r = r /\ at'.i = 1)
    BY <1>7, <1>13, <2>1
  <2>4. ~Unsent(r)' /\ hd'[r].pc = "off"
    BY <1>8, <2>2, <2>3 DEF Unsent
  <2>5. \A p \in Places : OnceIn(Stock[p], r) /\ ~HeadIn(Stock[p], r)
    BY <1>12, <2>2 DEF Apart, Nowhere
  <2>6. OnceIn(Append(net, e), r)
    BY <1>11, <1>14, <2>5
  <2>7. \A p \in Places : OnceIn(Stock'[p], r) /\ (HeadIn(Stock'[p], r) => p = Net)
    BY <1>10, <1>11, <2>5, <2>6
  <2>8. Apart(Stock, r)'
    BY <2>7 DEF Apart
  <2> QED BY <2>4, <2>8 DEF HeadOnce
<1>16. CASE e # Item(r, "h")
  <2>1. Unsent(r)' => Unsent(r)
    <3>1. at'.r < r \/ (at'.r = r /\ at'.i = 1) => at.r < r \/ (at.r = r /\ at.i = 1)
      BY <1>7, <1>13
    <3> QED BY <3>1 DEF Unsent
  <2>2. \A p \in Places : HeadIn(Stock'[p], r) => HeadIn(Stock[p], r)
    BY <1>10, <1>11, <1>14, <1>16
  <2>3. \A p \in Places : OnceIn(Stock[p], r) => OnceIn(Stock'[p], r)
    BY <1>10, <1>11, <1>14, <1>16
  <2>4. Apart(Stock', r) /\ (Nowhere(Stock, r) => Nowhere(Stock', r))
    BY <1>12, <2>2, <2>3 DEF Apart, Nowhere
  <2>5. Apart(Stock, r)' /\ (Nowhere(Stock, r) => Nowhere(Stock, r)')
    BY <2>4 DEF Apart, Nowhere
  <2> QED BY <1>8, <1>12, <2>1, <2>5 DEF HeadOnce
<1> QED BY <1>15, <1>16

\* What the parser is given: what the codec has and what was read after it.
Gathered == [p \in Places |-> IF p = Loop THEN <<>> ELSE IF p = Buf THEN me.buf \o serve.data ELSE Stock[p]]

\* Nothing is parsed yet: the octets are where they were, in one place.
LEMMA GatheredIs ==
    ASSUME CoreInv
    PROVE  /\ Keeps(Stock, Gathered) /\ me.buf \o serve.data \in Seq(ReqItem)
           /\ Gathered[Loop] = <<>> /\ Gathered[Buf] = me.buf \o serve.data
           /\ \A p \in Places : p # Loop /\ p # Buf => Gathered[p] = Stock[p]
<1>1. Loop \in Places /\ Buf \in Places /\ Loop # Buf
  BY PlacesAre
<1>2. /\ Gathered[Loop] = <<>> /\ Gathered[Buf] = me.buf \o serve.data
      /\ \A p \in Places : p # Loop /\ p # Buf => Gathered[p] = Stock[p]
  BY <1>1 DEF Gathered
<1>3. Stock[Loop] = serve.data /\ Stock[Buf] = me.buf /\ Stock[Loop] \in Seq(ReqItem) /\ Stock[Buf] \in Seq(ReqItem)
  BY <1>1, StockIs, StockTyped DEF CoreInv
<1>4. Poured(Stock, Gathered, Loop, Buf)
  BY <1>1, <1>2, <1>3 DEF Poured
<1>5. Keeps(Stock, Gathered)
  BY <1>1, <1>4, PourKeeps
<1>6. me.buf \o serve.data \in Seq(ReqItem)
  BY <1>3, ConcatProperties
<1> QED BY <1>2, <1>5, <1>6

\* The head that is parsed is of a request that no handler was called for: it lies in one
\* place, and in none once it was parsed.
LEMMA HeadIsNew ==
    ASSUME CoreInv, ParsedOnce, NEW b, b = me.buf \o serve.data, IsHead(b), NEW r, r = b[1].r
    PROVE  /\ r \in Reqs /\ hd[r].pc = "off" /\ ~Unsent(r)
           /\ Apart(Gathered, r) /\ HeadIn(Gathered[Buf], r)
           /\ Len(b) \in Nat /\ Len(b) >= 2 /\ b[1] = Item(r, "h")
<1>1. b \in Seq(ReqItem) /\ Gathered[Buf] = b /\ Keeps(Stock, Gathered)
  BY GatheredIs
<1>2. Len(b) \in Nat /\ Len(b) >= 2 /\ DOMAIN b = 1..Len(b)
  BY <1>1, LenProperties DEF IsHead
<1>3. 1 \in DOMAIN b /\ b[1] \in ReqItem /\ b[1].part = "h"
  <2> DEFINE l == Len(b)
  <2>0. l \in Nat /\ l >= 2
    BY <1>2
  <2> HIDE DEF l
  <2>2. 1 \in 1..l
    BY <2>0
  <2>1. 1 \in 1..Len(b)
    BY <2>2 DEF l
  <2> QED BY <1>1, <1>2, <2>1, ElementOfSeq DEF IsHead
<1>4. r \in Reqs /\ b[1] = Item(r, "h")
  BY <1>3 DEF ReqItem, Item
<1>5. HeadIn(Gathered[Buf], r)
  BY <1>1, <1>3, <1>4 DEF HeadIn
<1>6. Apart(Stock, r) /\ (Unsent(r) \/ hd[r].pc # "off" => Nowhere(Stock, r))
  BY <1>4 DEF ParsedOnce, HeadOnce
<1>7. Apart(Gathered, r) /\ (Nowhere(Stock, r) => Nowhere(Gathered, r))
  BY <1>1, <1>4, <1>6 DEF Keeps
<1>8. ~Nowhere(Gathered, r)
  BY <1>5, PlacesAre DEF Nowhere
<1> QED BY <1>2, <1>4, <1>5, <1>6, <1>7, <1>8

\* accept_head: the rest of what was read goes to the decoder of the new request.
LEMMA AcceptHeadOnce == ASSUME CoreInv, ParsedOnce, AcceptHead PROVE ParsedOnce'
<1> USE Requests
<1> DEFINE b == me.buf \o serve.data
           n == [me EXCEPT !.parked = FALSE, !.buf = b]
<1>1. UNCHANGED <<at, net, body, wt>>
  BY DEF AcceptHead
<1>2. serve \in Serving /\ dec \in Decoders /\ hd \in Handlers
  BY DEF CoreInv, Typed
<1>3. /\ Keeps(Stock, Gathered) /\ b \in Seq(ReqItem)
      /\ Gathered[Loop] = <<>> /\ Gathered[Buf] = b
      /\ \A p \in Places : p # Loop /\ p # Buf => Gathered[p] = Stock[p]
  BY GatheredIs
<1>4. n \in Locked /\ n.buf = b /\ n.w = me.w
  BY <1>3 DEF Locked
<1>5. \/ /\ me' = [me EXCEPT !.parked = FALSE]
         /\ serve' = [serve EXCEPT !.pc = "mid", !.data = <<>>]
         /\ UNCHANGED <<dec, hd>>
      \/ /\ me' = n \/ me' = CloseNow(n)
         /\ \/ serve' = [serve EXCEPT !.pc = "mid", !.data = <<>>]
            \/ serve' = [serve EXCEPT !.pc = "out", !.data = <<>>, !.end = "parse"]
         /\ UNCHANGED <<dec, hd>>
      \/ /\ IsHead(b)
         /\ LET r == b[1].r IN
              /\ me' = [n EXCEPT !.buf = <<>>, !.since = FALSE,
                                 !.cur = [NoRequest EXCEPT !.seq = r, !.done = FALSE,
                                                           !.bodyDone = ~HasBody(r)]]
              /\ dec' = [dec EXCEPT ![r] = [buf |-> SubSeq(b, 3, Len(b)), complete |-> ~HasBody(r)]]
              /\ hd' = [hd EXCEPT ![r].pc = "start"]
         /\ serve' = [serve EXCEPT !.pc = "serving", !.data = <<>>]
  BY <1>4 DEF AcceptHead
<1> HIDE DEF b, n
<1>6. serve'.data = <<>>
  BY <1>2, <1>5 DEF Serving
<1>7. CASE me' = [me EXCEPT !.parked = FALSE] /\ UNCHANGED <<dec, hd>>
  <2>1. me'.buf = me.buf /\ me'.w = me.w
    BY <1>7 DEF Locked
  <2>2. Keeps(Stock, Stock')
    BY <1>1, <1>6, <1>7, <2>1, LessKeeps
  <2> QED BY <1>1, <1>7, <2>2, KeepsOnce
<1>8. CASE (me' = n \/ me' = CloseNow(n)) /\ UNCHANGED <<dec, hd>>
  <2>1. me'.buf = b /\ me'.w = me.w
    BY <1>4, <1>8, CloseNowIs
  <2>2. Still(Loop, Buf)
    BY <1>1, <1>8, <2>1 DEF Still
  <2>3. \A p \in Places : p # Loop /\ p # Buf => Stock'[p] = Stock[p]
    BY <2>2, OnlyThere
  <2>4. Stock'[Loop] = <<>> /\ Stock'[Buf] = b
    BY <1>6, <2>1, StockIs
  <2>5. \A p \in Places : Stock'[p] = Gathered[p]
    BY <1>3, <2>3, <2>4
  <2>6. Keeps(Gathered, Stock')
    BY <2>5, DropKeeps
  <2>7. Keeps(Stock, Stock')
    BY <1>3, <2>6, KeepsThrough
  <2> QED BY <1>1, <1>8, <2>7, KeepsOnce
<1>9. ASSUME IsHead(b), NEW r, r = b[1].r,
             me' = [n EXCEPT !.buf = <<>>, !.since = FALSE,
                             !.cur = [NoRequest EXCEPT !.seq = r, !.done = FALSE,
                                                       !.bodyDone = ~HasBody(r)]],
             dec' = [dec EXCEPT ![r] = [buf |-> SubSeq(b, 3, Len(b)), complete |-> ~HasBody(r)]],
             hd' = [hd EXCEPT ![r].pc = "start"]
      PROVE  ParsedOnce'
  <2>1. /\ r \in Reqs /\ hd[r].pc = "off" /\ ~Unsent(r)
        /\ Apart(Gathered, r) /\ HeadIn(Gathered[Buf], r)
        /\ Len(b) \in Nat /\ Len(b) >= 2 /\ b[1] = Item(r, "h")
    BY <1>9, HeadIsNew DEF b
  <2> DEFINE rest == SubSeq(b, 3, Len(b))
  <2>2. me'.buf = <<>> /\ me'.w = me.w
    BY <1>4, <1>9 DEF Locked
  <2>3. dec'[r].buf = rest /\ \A x \in Reqs : x # r => dec'[x] = dec[x]
    BY <1>2, <1>9, <2>1 DEF Decoders
  <2>4. hd'[r].pc = "start" /\ \A x \in Reqs : x # r => hd'[x] = hd[x]
    BY <1>2, <1>9, <2>1 DEF Handlers
  <2> HIDE DEF rest
  <2>5. Buf \in Places /\ Dec(r) \in Places /\ Loop \in Places /\ Buf # Dec(r) /\ Loop # Dec(r) /\ Loop # Buf
    BY <2>1, PlacesAre
  <2>6. Stock'[Buf] = <<>> /\ Stock'[Dec(r)] = rest /\ Stock'[Loop] = <<>>
    BY <1>6, <2>1, <2>2, <2>3, StockIs
  <2>7. \A p \in Places : p # Buf /\ p # Dec(r) => Stock'[p] = Gathered[p]
    <3>1. ASSUME NEW p \in Places, p # Buf, p # Dec(r), p # Loop PROVE Stock'[p] = Stock[p]
      <4>1. \/ p = Net \/ p = Slot
            \/ \E x \in Reqs : p = Dec(x) \/ p = Read(x) \/ p = Watched(x)
        BY <3>1, PlacesAre, Zenon
      <4>2. CASE p = Net \/ p = Slot
        BY <1>1, <2>2, <4>2, StockIs
      <4>3. ASSUME NEW x \in Reqs, p = Dec(x) \/ p = Read(x) \/ p = Watched(x) PROVE Stock'[p] = Stock[p]
        <5>1. CASE p = Dec(x)
          <6>1. x # r
            BY <3>1, <5>1
          <6>2. Stock'[Dec(x)] = dec'[x].buf /\ Stock[Dec(x)] = dec[x].buf
            BY StockIs
          <6> QED BY <2>3, <5>1, <6>1, <6>2
        <5>2. CASE p = Read(x) \/ p = Watched(x)
          BY <1>1, <5>2, StockIs
        <5> QED BY <4>3, <5>1, <5>2
      <4> QED BY <4>1, <4>2, <4>3
    <3> QED BY <1>3, <2>6, <3>1
  <2>8. \A x \in Reqs : HeadIn(rest, x) => HeadIn(b, x)
    <3>1. PICK l \in Nat : l = Len(b)
      BY <2>1
    <3>2. 3 \in 1..l + 1 /\ l \in 0..l
      BY <2>1, <3>1
    <3> QED BY <1>3, <3>1, <3>2, SubHead DEF rest
  <2>9. \A x \in Reqs : OnceIn(b, x) => OnceIn(rest, x)
    <3>1. PICK l \in Nat : l = Len(b)
      BY <2>1
    <3>2. 3 \in 1..l + 1 /\ l \in 0..l
      BY <2>1, <3>1
    <3> QED BY <1>3, <3>1, <3>2, SubHead DEF rest
  <2>10. ASSUME NEW x \in Reqs, Apart(Gathered, x)
         PROVE  /\ OnceIn(Stock'[Buf], x) /\ OnceIn(Stock'[Dec(r)], x)
                /\ Buf # Dec(r) => ~(HeadIn(Stock'[Buf], x) /\ HeadIn(Stock'[Dec(r)], x))
                /\ HeadIn(Stock'[Buf], x) \/ HeadIn(Stock'[Dec(r)], x)
                     => HeadIn(Gathered[Buf], x) \/ HeadIn(Gathered[Dec(r)], x)
    <3>1. OnceIn(b, x)
      BY <1>3, <2>5, <2>10 DEF Apart
    <3> QED BY <1>3, <2>6, <2>8, <2>9, <3>1, NoHead
  <2>11. Passes(Gathered, Stock', Buf, Dec(r))
    BY <2>7, <2>10 DEF Passes
  <2>12. Keeps(Gathered, Stock')
    BY <2>5, <2>11, PassesKeeps
  <2>13. Keeps(Stock, Stock')
    BY <1>3, <2>12, KeepsThrough
  <2>14. ~HeadIn(rest, r)
    <3>1. OnceIn(b, r)
      BY <1>3, <2>1, <2>5 DEF Apart
    <3>2. PICK l \in Nat : l = Len(b)
      BY <2>1
    <3>3. \A i \in 1..l : b[i] \in ReqItem
      BY <1>3, <3>2, ElementOfSeq
    <3>4. 3 \in Int /\ l \in Int /\ \A i \in 3..l : b[i] \in ReqItem
      BY <3>2, <3>3
    <3>5. /\ SubSeq(b, 3, l) \in Seq(ReqItem)
          /\ Len(SubSeq(b, 3, l)) = IF 3 <= l THEN l - 3 + 1 ELSE 0
          /\ \A i \in 1..l - 3 + 1 : SubSeq(b, 3, l)[i] = b[3 + i - 1]
      BY <3>4, SubSeqProperties
    <3>6. DOMAIN rest = 1..(IF 3 <= l THEN l - 3 + 1 ELSE 0)
      BY <3>2, <3>5, LenProperties DEF rest
    <3>7. \A i \in DOMAIN rest : rest[i] = b[3 + i - 1] /\ 3 + i - 1 \in 1..l /\ 3 + i - 1 # 1
      BY <3>2, <3>5, <3>6 DEF rest
    <3>8. DOMAIN b = 1..l /\ 1 \in 1..l
      BY <1>3, <2>1, <3>2, LenProperties
    <3> QED BY <2>1, <3>1, <3>7, <3>8 DEF HeadIn, OnceIn
  <2>15. Nowhere(Stock', r)
    <3>1. \A p \in Places : HeadIn(Gathered[p], r) => p = Buf
      BY <2>1, <2>5 DEF Apart
    <3>2. \A p \in Places : ~HeadIn(Stock'[p], r)
      BY <2>1, <2>6, <2>7, <2>14, <3>1, NoHead
    <3> QED BY <3>2 DEF Nowhere
  <2> SUFFICES ASSUME NEW x \in Reqs PROVE HeadOnce(x)'
    BY DEF ParsedOnce
  <2>16. /\ Apart(Stock, x)
         /\ Unsent(x) \/ hd[x].pc # "off" => Nowhere(Stock, x)
         /\ Unsent(x) => hd[x].pc = "off"
         /\ Unsent(x)' <=> Unsent(x)
    BY <1>1 DEF ParsedOnce, HeadOnce, Unsent
  <2>17. Apart(Stock', x) /\ (Nowhere(Stock, x) => Nowhere(Stock', x))
    BY <2>13, <2>16 DEF Keeps
  <2>18. Apart(Stock, x)' /\ (Nowhere(Stock, x) => Nowhere(Stock, x)')
    BY <2>17 DEF Apart, Nowhere
  <2>19. Nowhere(Stock, r)'
    BY <2>15 DEF Nowhere
  <2>20. CASE x = r
    BY <2>1, <2>16, <2>18, <2>19, <2>20 DEF HeadOnce
  <2>21. CASE x # r
    BY <2>4, <2>16, <2>18, <2>21 DEF HeadOnce
  <2> QED BY <2>20, <2>21
<1> QED BY <1>5, <1>7, <1>8, <1>9

\* At first nothing was sent.
LEMMA ParsedOnceInit == Init => ParsedOnce
<1> SUFFICES ASSUME Init PROVE ParsedOnce
  OBVIOUS
<1>1. /\ net = <<>> /\ me.buf = <<>> /\ me.w.data = <<>> /\ serve.data = <<>>
      /\ \A x \in Reqs : dec[x].buf = <<>> /\ body[x].data = <<>> /\ wt[x].data = <<>> /\ hd[x].pc = "off"
  BY DEF Init, NoWatcher
<1>2. ASSUME NEW p \in Places PROVE Stock[p] = <<>>
  <2>1. \/ p = Net \/ p = Buf \/ p = Slot \/ p = Loop
        \/ \E x \in Reqs : p = Dec(x) \/ p = Read(x) \/ p = Watched(x)
    BY PlacesAre, Zenon
  <2>2. CASE p = Net \/ p = Buf \/ p = Slot \/ p = Loop
    BY <1>1, <2>2, StockIs
  <2>3. ASSUME NEW x \in Reqs, p = Dec(x) \/ p = Read(x) \/ p = Watched(x)
        PROVE  Stock[p] = <<>>
    BY <1>1, <2>3, StockIs
  <2> QED BY <2>1, <2>2, <2>3
<1> QED BY <1>1, <1>2, NoHead DEF ParsedOnce, HeadOnce, Apart, Nowhere

\* No head is parsed twice, in whatever order its octets are read and handed over.
LEMMA NextOnce == ASSUME CoreInv, ParsedOnce, [Next]_vars PROVE ParsedOnce'
<1>1. CASE UNCHANGED vars
  <2>1. Keeps(Stock, Stock')
    BY <1>1, LessKeeps DEF vars
  <2> QED BY <1>1, <2>1, KeepsOnce DEF vars
<1>2. CASE ClientSends
  BY <1>2, ClientSendsOnce
<1>3. CASE AcceptHead
  BY <1>3, AcceptHeadOnce
<1>4. CASE (AcceptLoop \/ Close) /\ ~AcceptHead
  BY <1>4, LoopKeeps, KeepsOnce
<1>5. CASE Overdue \/ RequestShutdown \/ ClientShutsDown \/ ClientResets
  BY <1>5, TimeKeeps, KeepsOnce
<1>6. ASSUME NEW r \in Reqs, Handler(r) \/ Detach(r) PROVE ParsedOnce'
  BY <1>6, HandlerKeeps, KeepsOnce
<1>7. ASSUME NEW r \in Reqs, ReadBody(r) \/ BodyReader(r) \/ PeerClosed(r) \/ PeerWaiter(r) \/ Watcher(r)
      PROVE  ParsedOnce'
  BY <1>7, OthersKeep, KeepsOnce
<1> QED BY <1>1, <1>2, <1>3, <1>4, <1>5, <1>6, <1>7 DEF Next, Client

(***************************************************************************)
(* The 100 Continue and the head of the response.                           *)
(***************************************************************************)

\* The head of the response is written.
HeadOut(r) == \E i \in DOMAIN wire : wire[i] = Item(r, "head")
\* Where the handler has not written it.
BeforeHead == {"off", "start", "cont", "again", "store", "join", "head"}
\* The reader that is to write a 100 Continue found the response not claimed, and the
\* responder that claims it then waits for the write (continue_sent, head_pending).
SaysOK(r) ==
    /\ hd[r].pc = "off" => body[r].pc = "off"
    /\ hd[r].pc \in BeforeHead => ~HeadOut(r)
    /\ hd[r].pc = "start" => ~me.cur.pending
    /\ IsCurrent(r) /\ ~me.cur.responded /\ hd[r].pc # "off" => hd[r].pc = "start"
    /\ body[r].pc = "100" =>
         /\ hd[r].pc \in {"start", "cont", "over"} /\ ~HeadOut(r)
         /\ hd[r].pc = "start" => me.cur.cont
\* What the server writes.
Spoken == [r : Reqs, part : {"100", "head"}] \cup {Item(None, "400")}
WireOK ==
    /\ \A i \in DOMAIN wire : wire[i] \in Spoken
    /\ ContinueFirst
SayInv == WireOK /\ \A r \in Reqs : SaysOK(r)

\* What of the request in progress the 100 Continue depends on.
SameClaim(q, c) == q.seq = c.seq /\ q.responded = c.responded /\ q.pending = c.pending /\ q.cont = c.cont

\* A step that writes nothing and moves no handler.
LEMMA QuietSays ==
    ASSUME SayInv, UNCHANGED <<wire, hd>>, SameClaim(me'.cur, me.cur),
           \A x \in Reqs : body'[x].pc = body[x].pc \/ (hd[x].pc # "off" /\ body'[x].pc # "100")
    PROVE  SayInv'
<1>1. WireOK'
  BY DEF SayInv, WireOK, ContinueFirst, Spoken
<1>2. \A x \in Reqs : HeadOut(x)' <=> HeadOut(x)
  BY DEF HeadOut
<1>3. ASSUME NEW x \in Reqs PROVE SaysOK(x)'
  <2>1. SaysOK(x) /\ (HeadOut(x)' <=> HeadOut(x))
    BY <1>2 DEF SayInv
  <2>2. body'[x].pc = body[x].pc \/ (hd[x].pc # "off" /\ body'[x].pc # "100")
    OBVIOUS
  <2> QED BY <2>1, <2>2 DEF SaysOK, SameClaim, IsCurrent
<1> QED BY <1>1, <1>3 DEF SayInv

\* What the server writes: a 100 Continue only before the head of the response.
LEMMA WriteSays ==
    ASSUME CoreInv, WireOK, NEW e \in Spoken, wire' = Append(wire, e), e.part = "100" => ~HeadOut(e.r)
    PROVE  /\ WireOK'
           /\ \A x \in Reqs : HeadOut(x)' => HeadOut(x) \/ e = Item(x, "head")
<1>1. wire \in Seq(Items)
  BY DEF CoreInv, Typed, ClientTyped
<1>2. e \in Items
  BY DEF Spoken, Items, Item, Parts
<1> DEFINE l == Len(wire)
<1>3. /\ l \in Nat /\ DOMAIN wire = 1..l
      /\ DOMAIN wire' = 1..l + 1
      /\ \A i \in 1..l : wire'[i] = wire[i]
      /\ wire'[l + 1] = e
  BY <1>1, <1>2, LenProperties, AppendProperties
<1> HIDE DEF l
<1>4. \A i \in DOMAIN wire' : i = l + 1 \/ (i \in DOMAIN wire /\ wire'[i] = wire[i])
  BY <1>3
<1>5. \A i, j \in DOMAIN wire' : i < j => i \in DOMAIN wire
  BY <1>3
<1>6. \A i \in DOMAIN wire' : wire'[i] \in Spoken
  BY <1>3, <1>4 DEF WireOK
<1>7. ASSUME NEW i \in DOMAIN wire', NEW j \in DOMAIN wire', i < j, wire'[j].part = "100"
      PROVE  wire'[i].part = "100" \/ wire'[i].r # wire'[j].r
  <2>1. i \in DOMAIN wire /\ wire'[i] = wire[i]
    BY <1>3, <1>5, <1>7
  <2>2. CASE j \in DOMAIN wire
    BY <1>3, <1>7, <2>1, <2>2 DEF WireOK, ContinueFirst
  <2>3. CASE j = l + 1
    <3>1. wire'[j] = e /\ e.part = "100" /\ ~HeadOut(e.r)
      BY <1>3, <1>7, <2>3
    <3>2. wire[i] \in Spoken
      BY <2>1 DEF WireOK
    <3>3. e.r \in Reqs
      BY <3>1 DEF Spoken, Item
    <3>4. CASE wire[i] = Item(None, "400")
      <4>1. wire[i].r = None
        BY <3>4 DEF Item
      <4>2. e.r # None
        BY <3>3 DEF Reqs, None
      <4> QED BY <2>1, <3>1, <4>1, <4>2
    <3>5. CASE wire[i] \in [r : Reqs, part : {"100", "head"}]
      <4>1. wire[i].part = "head" => wire[i] = Item(wire[i].r, "head")
        BY <3>5 DEF Item
      <4> QED BY <2>1, <3>1, <3>5, <4>1 DEF HeadOut
    <3> QED BY <3>2, <3>4, <3>5 DEF Spoken
  <2> QED BY <1>4, <2>2, <2>3
<1>8. WireOK'
  BY <1>6, <1>7 DEF WireOK, ContinueFirst, Spoken
<1>9. \A x \in Reqs : HeadOut(x)' => HeadOut(x) \/ e = Item(x, "head")
  BY <1>3, <1>4 DEF HeadOut
<1> QED BY <1>8, <1>9

\* The handler of the current request goes on, its response claimed.
LEMMA HandlerSays ==
    ASSUME CoreInv, SayInv, NEW r \in Reqs, Working(r), body' = body,
           \A x \in Reqs : x # r => hd'[x] = hd[x],
           hd'[r].pc \notin {"off", "start"},
           hd'[r].pc \in BeforeHead => hd[r].pc \in BeforeHead,
           body[r].pc = "100" => hd'[r].pc \in {"cont", "over"},
           me'.cur.seq = me.cur.seq, me'.cur.responded,
           WireOK', \A x \in Reqs : HeadOut(x)' => HeadOut(x) \/ (x = r /\ hd'[r].pc \notin BeforeHead \cup {"over"})
    PROVE  SayInv'
<1>1. r = me.cur.seq /\ \A x \in Reqs : x # r => ~Working(x)
  BY DEF CoreInv, ServeOK
<1>2. SaysOK(r)'
  <2>1. SaysOK(r) /\ body'[r] = body[r]
    BY DEF SayInv
  <2>2. hd'[r].pc \in BeforeHead => ~HeadOut(r)'
    BY <2>1 DEF SaysOK
  <2>3. body[r].pc = "100" => hd'[r].pc \in {"cont", "over"} /\ ~HeadOut(r)'
    <3>1. hd'[r].pc \in {"cont", "over"} => ~(hd'[r].pc \notin BeforeHead \cup {"over"})
      BY DEF BeforeHead
    <3> QED BY <2>1, <3>1 DEF SaysOK
  <2> QED BY <2>1, <2>2, <2>3 DEF SaysOK, IsCurrent
<1>3. ASSUME NEW x \in Reqs, x # r PROVE SaysOK(x)'
  <2>1. SaysOK(x) /\ hd'[x] = hd[x] /\ body'[x] = body[x] /\ (HeadOut(x)' => HeadOut(x))
    BY <1>3 DEF SayInv
  <2>2. hd[x].pc \in {"off", "over"} /\ me'.cur.seq # x
    BY <1>1, <1>3 DEF Working
  <2> QED BY <2>1, <2>2 DEF SaysOK, IsCurrent
<1> QED BY <1>2, <1>3 DEF SayInv

\* An answer that is claimed stays so.
LEMMA Claimed ==
    ASSUME CoreInv, SayInv, NEW r \in Reqs, hd[r].pc \notin {"off", "over", "start"}
    PROVE  me.cur.responded /\ Working(r) /\ (body[r].pc = "100" => hd[r].pc = "cont")
<1>1. Working(r)
  BY DEF Working
<1>2. IsCurrent(r)
  BY <1>1 DEF CoreInv, ServeOK, IsCurrent
<1>3. SaysOK(r)
  BY DEF SayInv
<1> QED BY <1>1, <1>2, <1>3 DEF SaysOK

\* A step of the handler that writes nothing.
LEMMA HandlerQuiet ==
    ASSUME CoreInv, SayInv, NEW r \in Reqs, Working(r), UNCHANGED <<body, wire>>,
           NEW p \in HandlerPlaces \ {"off", "start"}, hd'[r].pc = p,
           \A x \in Reqs : x # r => hd'[x] = hd[x],
           p \in BeforeHead => hd[r].pc \in BeforeHead,
           body[r].pc = "100" => p \in {"cont", "over"},
           me'.cur.seq = me.cur.seq, me'.cur.responded
    PROVE  SayInv'
<1>1. WireOK'
  BY DEF SayInv, WireOK, ContinueFirst, Spoken
<1>2. \A x \in Reqs : HeadOut(x)' => HeadOut(x)
  BY DEF HeadOut
<1> QED BY <1>1, <1>2, HandlerSays

\* The handler writes the head after the 100 Continue, or instead of it.
LEMMA HandlerSpeaks == ASSUME CoreInv, SayInv, NEW r \in Reqs, Handler(r) \/ Detach(r) PROVE SayInv'
<1> USE Requests
<1>1. hd \in Handlers /\ body \in Bodies /\ Typed /\ (me.cur.seq = None => me.cur.done) /\ SaysOK(r)
  BY DEF CoreInv, Typed, ServeOK, SayInv
<1>2. ASSUME NEW p \in HandlerPlaces, HdGoes(r, p)
      PROVE  hd'[r].pc = p /\ \A x \in Reqs : x # r => hd'[x] = hd[x]
  BY <1>1, <1>2 DEF HdGoes, Handlers
<1>3. body' = body
  BY DEF Handler, Detach, RespondHead, AfterContinue, HandlerStores, HandlerJoins, WriteHead, ArmForBody,
         StreamBody, FinishResponse, FailResponse, hdFrame
<1>4. CASE RespondHead(r)
  <2>1. PICK m \in Locked : Alike(m) /\ m.cur.responded /\ (Arm(m) \/ (me' = m /\ UNCHANGED <<dec, wt>>))
    BY <1>4, RespondHeadIs
  <2>2. PICK p \in {"cont", "fail", "userError", "store", "head"} :
          /\ \E mode : hd' = [hd EXCEPT ![r] = [pc |-> p, mode |-> mode]]
          /\ p = "cont" \/ me.cur.pending \/ ~me.cur.cont
    BY <1>4, RespondHeadIs DEF HeadGoes
  <2>3. me'.cur.seq = me.cur.seq /\ me'.cur.responded
    <3>1. CASE Arm(m)
      <4>1. m.cur.seq = None => m.cur.done
        BY <1>1, <2>1 DEF Alike
      <4>2. me'.cur = m.cur
        BY <1>1, <3>1, <4>1, ArmIs
      <4> QED BY <2>1, <4>2 DEF Alike
    <3>2. CASE me' = m
      BY <2>1, <3>2 DEF Alike
    <3> QED BY <2>1, <3>1, <3>2
  <2>4. hd[r].pc \in {"start", "again"} /\ wire' = wire
    BY <1>4 DEF RespondHead
  <2>5. hd'[r].pc = p /\ \A x \in Reqs : x # r => hd'[x] = hd[x]
    BY <1>1, <2>2 DEF Handlers
  <2>6. body[r].pc = "100" => p = "cont"
    BY <1>1, <2>2, <2>4 DEF SaysOK
  <2>7. p \in HandlerPlaces \ {"off", "start"}
    BY <2>2 DEF HandlerPlaces
  <2>8. Working(r) /\ hd[r].pc \in BeforeHead
    BY <2>4 DEF Working, BeforeHead
  <2> QED BY <1>3, <2>3, <2>4, <2>5, <2>6, <2>7, <2>8, HandlerQuiet
<1>5. CASE WriteHead(r) /\ sock = "open"
  <2> DEFINE e == Item(r, "head")
             w == CASE hd[r].mode = "bytes" -> "finish" [] hd[r].mode = "async" -> "arm"
                    [] hd[r].mode = "push" -> "stream"
  <2>1. wire' = Append(wire, e) /\ HdGoes(r, w) /\ me' = me /\ hd[r].pc = "head"
    BY <1>5 DEF WriteHead
  <2>2. w \in {"finish", "arm", "stream"}
    <3>1. hd[r].mode \in {"bytes", "async", "push"}
      BY <1>1, <2>1 DEF CoreInv, ServeOK, ModeOK, Handlers
    <3> QED BY <3>1
  <2>3. e \in Spoken /\ e.part # "100" /\ \A x \in Reqs : e = Item(x, "head") => x = r
    BY DEF Spoken, Item
  <2> HIDE DEF w, e
  <2>4. WireOK' /\ \A x \in Reqs : HeadOut(x)' => HeadOut(x) \/ e = Item(x, "head")
    BY <2>1, <2>3, WriteSays DEF SayInv
  <2>5. w \in HandlerPlaces /\ w \notin BeforeHead \cup {"over", "off", "start"}
    BY <2>2 DEF HandlerPlaces, BeforeHead
  <2>6. hd'[r].pc = w /\ \A x \in Reqs : x # r => hd'[x] = hd[x]
    BY <1>2, <2>1, <2>5
  <2>7. me.cur.responded /\ Working(r) /\ body[r].pc # "100"
    BY <2>1, Claimed
  <2>8. \A x \in Reqs : HeadOut(x)' => HeadOut(x) \/ (x = r /\ hd'[r].pc \notin BeforeHead \cup {"over"})
    BY <2>3, <2>4, <2>5, <2>6
  <2> QED BY <1>3, <2>1, <2>4, <2>5, <2>6, <2>7, <2>8, HandlerSays
<1>6. CASE \/ AfterContinue(r) \/ HandlerStores(r) \/ HandlerJoins(r) \/ (WriteHead(r) /\ sock # "open")
           \/ ArmForBody(r) \/ StreamBody(r) \/ FinishResponse(r) \/ FailResponse(r)
  <2>1. hd[r].pc \notin {"off", "over", "start"}
    BY <1>6 DEF AfterContinue, HandlerStores, HandlerJoins, WriteHead, ArmForBody, StreamBody, FinishResponse,
                FailResponse
  <2>2. me.cur.responded /\ Working(r) /\ (body[r].pc = "100" => hd[r].pc = "cont")
    BY <2>1, Claimed
  <2>3. PICK p \in HandlerPlaces \ {"off", "start"} :
          HdGoes(r, p) /\ (p \in BeforeHead => hd[r].pc \in BeforeHead)
    <3>1. CASE AfterContinue(r)
      BY <3>1 DEF AfterContinue, HandlerPlaces, BeforeHead
    <3>2. CASE HandlerStores(r)
      BY <3>2 DEF HandlerStores, HandlerPlaces, BeforeHead
    <3>3. CASE HandlerJoins(r)
      BY <3>3 DEF HandlerJoins, HandlerPlaces, BeforeHead
    <3>4. CASE (WriteHead(r) /\ sock # "open") \/ StreamBody(r) \/ FinishResponse(r) \/ FailResponse(r)
      BY <3>4 DEF WriteHead, StreamBody, FinishResponse, FailResponse, HandlerPlaces, BeforeHead
    <3>5. CASE ArmForBody(r)
      BY <3>5 DEF ArmForBody, IfToStore, HandlerPlaces, BeforeHead
    <3> QED BY <1>6, <3>1, <3>2, <3>3, <3>4, <3>5
  <2>4. hd'[r].pc = p /\ \A x \in Reqs : x # r => hd'[x] = hd[x]
    BY <1>2, <2>3
  <2>5. wire' = wire
    BY <1>6 DEF AfterContinue, HandlerStores, HandlerJoins, WriteHead, ArmForBody, StreamBody, FinishResponse,
                FailResponse
  <2>6. body[r].pc # "100"
    BY <1>6, <2>2 DEF AfterContinue, HandlerStores, HandlerJoins, WriteHead, ArmForBody, StreamBody,
                      FinishResponse, FailResponse
  <2>7. me'.cur.seq = me.cur.seq /\ me'.cur.responded
    <3>1. CASE FinishResponse(r)
      <4> DEFINE n == Finished
      <4>1. n \in Locked /\ n.cur.seq = me.cur.seq /\ n.cur.responded = me.cur.responded
        <5>1. Finished.cur = [me.cur EXCEPT !.done = TRUE]
          BY DEF Finished, Locked
        <5> QED BY <5>1, FinishedIs DEF Current
      <4>2. me' = n \/ me' = CloseNow(n) \/ me' = [CloseNow(n) EXCEPT !.upgraded = TRUE, !.buf = <<>>]
        BY <3>1 DEF FinishResponse, Finished
      <4> HIDE DEF n
      <4>3. CloseNow(n) \in Locked /\ CloseNow(n).cur = n.cur
        BY <4>1, CloseNowIs
      <4>4. CASE me' = [CloseNow(n) EXCEPT !.upgraded = TRUE, !.buf = <<>>]
        BY <2>2, <4>1, <4>3, <4>4 DEF Locked
      <4> QED BY <2>2, <4>1, <4>2, <4>3, <4>4
    <3>2. CASE FailResponse(r)
      <4> DEFINE n == [me EXCEPT !.cur.done = TRUE]
      <4>1. n \in Locked /\ n.cur.seq = me.cur.seq /\ n.cur.responded = me.cur.responded /\ me' = CloseNow(n)
        BY <3>2 DEF FailResponse, Locked, Current
      <4> HIDE DEF n
      <4> QED BY <2>2, <4>1, CloseNowIs
    <3>3. CASE ArmForBody(r)
      <4> DEFINE m == [me EXCEPT !.cur.wanted = TRUE]
      <4>1. m \in Locked /\ m.cur.seq = me.cur.seq /\ m.cur.done = me.cur.done /\ m.cur.responded = me.cur.responded
        BY DEF Locked, Current
      <4>2. Arm(m)
        BY <3>3 DEF ArmForBody
      <4> HIDE DEF m
      <4>3. me'.cur = m.cur
        BY <1>1, <4>1, <4>2, ArmIs
      <4> QED BY <2>2, <4>1, <4>3
    <3>4. CASE me' = me \/ me' = Stored(me, r)
      BY <2>2, <3>4 DEF Stored, Locked
    <3> QED BY <1>6, <3>1, <3>2, <3>3, <3>4
            DEF AfterContinue, HandlerStores, HandlerJoins, WriteHead, StreamBody
  <2> QED BY <1>3, <2>2, <2>3, <2>4, <2>5, <2>6, <2>7, HandlerQuiet
<1>7. CASE Detach(r)
  <2> DEFINE n == CloseNow(me)
  <2>1. n \in Locked /\ n.cur = me.cur
    BY CloseNowIs
  <2>2. me' = [n EXCEPT !.upgraded = TRUE, !.buf = <<>>, !.w.data = <<>>,
                        !.cur.responded = TRUE, !.cur.done = TRUE]
    BY <1>7 DEF Detach
  <2> HIDE DEF n
  <2>3. me'.cur.seq = me.cur.seq /\ me'.cur.responded
    BY <2>1, <2>2 DEF Locked, Current
  <2>4. HdGoes(r, "over") /\ hd[r].pc = "start" /\ wire' = wire
    BY <1>7 DEF Detach
  <2>5. "over" \in HandlerPlaces \ {"off", "start"} /\ "over" \notin BeforeHead
    BY DEF HandlerPlaces, BeforeHead
  <2>6. hd'[r].pc = "over" /\ \A x \in Reqs : x # r => hd'[x] = hd[x]
    BY <1>2, <2>4, <2>5
  <2>7. Working(r)
    BY <2>4 DEF Working
  <2> QED BY <1>3, <2>3, <2>4, <2>5, <2>6, <2>7, HandlerQuiet
<1> QED BY <1>4, <1>5, <1>6, <1>7 DEF Handler

\* The accept loop writes nothing but the answer to a malformed head.
LEMMA LoopQuiet ==
    ASSUME CoreInv, AcceptLoop \/ Close, ~AcceptHead
    PROVE  UNCHANGED <<wire, hd, body>> /\ SameClaim(me'.cur, me.cur)
<1> USE Requests
<1>1. UNCHANGED <<wire, hd, body>>
  BY DEF AcceptLoop, BeginRead, Drain, DrainDone, HeadRead, TakeWatcherHandle, TakeWatcherResult, RecvHeadBytes,
         StopServing, CloseJoins, Closed, Close, serveFrame
<1>2. ASSUME NEW m \in Locked, SameClaim(m.cur, me.cur), Ready(m), m.open = me.open, m.closed = me.closed,
             m.reusable = me.reusable, m.w = me.w, m.buf = me.buf
      PROVE  SameClaim(me'.cur, me.cur)
  <2>1. me'.cur = [m.cur EXCEPT !.done = TRUE, !.bodyDone = TRUE] /\ m.cur \in Current
    BY <1>2, ReadyIs DEF SameClaim, Locked
  <2> QED BY <1>2, <2>1 DEF SameClaim, Current
<1>3. ASSUME NEW m \in Locked, m.cur = me.cur, NEW res, HeadReadEnds(m, res)
      PROVE  SameClaim(me'.cur, me.cur)
  <2> DEFINE n == [m EXCEPT !.parked = FALSE]
  <2>1. n \in Locked /\ n.cur = me.cur /\ (me' = n \/ me' = CloseNow(n))
    BY <1>3 DEF HeadReadEnds, Locked
  <2> HIDE DEF n
  <2> QED BY <2>1, CloseNowIs DEF SameClaim
<1>4. CASE BeginRead
  <2>1. \/ me' = me \/ me' = CloseNow(me) \/ me' = [me EXCEPT !.cur.reading = TRUE]
        \/ Ready(me)
    BY <1>4 DEF BeginRead
  <2>2. CASE me' = [me EXCEPT !.cur.reading = TRUE]
    BY <1>1, <2>2 DEF Locked, Current, SameClaim
  <2>3. CASE me' = me \/ me' = CloseNow(me)
    BY <1>1, <2>3, CloseNowIs DEF SameClaim
  <2>4. CASE Ready(me)
    BY <1>1, <1>2, <2>4 DEF SameClaim
  <2> QED BY <2>1, <2>2, <2>3, <2>4
<1>5. CASE DrainDone
  <2> DEFINE m == [me EXCEPT !.cur.reading = FALSE]
  <2>1. /\ m \in Locked /\ SameClaim(m.cur, me.cur) /\ m.open = me.open /\ m.closed = me.closed
        /\ m.reusable = me.reusable /\ m.w = me.w /\ m.buf = me.buf
    BY DEF Locked, Current, SameClaim
  <2>2. Ready(m) \/ me' = CloseNow(m)
    BY <1>5 DEF DrainDone
  <2> HIDE DEF m
  <2>3. CASE me' = CloseNow(m)
    BY <1>1, <2>1, <2>3, CloseNowIs
  <2> QED BY <1>1, <1>2, <2>1, <2>2, <2>3
<1>6. CASE HeadRead
  <2>1. me' = me \/ \E res : HeadReadEnds(me, res)
    BY <1>6 DEF HeadRead
  <2> QED BY <1>1, <1>3, <2>1 DEF SameClaim
<1>7. CASE TakeWatcherResult
  <2> DEFINE m == [me EXCEPT !.w = IF me.w.handle = None THEN NoWatcher
                                 ELSE [@ EXCEPT !.res = "none", !.data = <<>>]]
  <2>1. m \in Locked /\ m.cur = me.cur
    <3>1. NoWatcher \in Watch
      BY EmptySeq DEF NoWatcher, Watch
    <3>2. [me.w EXCEPT !.res = "none", !.data = <<>>] \in Watch
      BY EmptySeq DEF Watch
    <3> QED BY <3>1, <3>2 DEF Locked
  <2>2. me' = m \/ HeadReadEnds(m, me.w.res)
    BY <1>7 DEF TakeWatcherResult
  <2> HIDE DEF m
  <2> QED BY <1>1, <1>3, <2>1, <2>2 DEF SameClaim
<1>8. CASE Drain \/ TakeWatcherHandle \/ RecvHeadBytes \/ StopServing \/ Close \/ CloseJoins \/ Closed
  <2>1. \/ me' = me \/ me' = [me EXCEPT !.w.handle = None] \/ me' = CloseNow(me)
        \/ me' = [me EXCEPT !.closed = TRUE, !.reusable = FALSE]
    BY <1>8 DEF Drain, TakeWatcherHandle, RecvHeadBytes, StopServing, Close, CloseJoins, Closed
  <2>2. me'.cur = me.cur
    <3>1. CASE me' = [me EXCEPT !.w.handle = None]
      BY <3>1 DEF Locked
    <3>2. CASE me' = [me EXCEPT !.closed = TRUE, !.reusable = FALSE]
      BY <3>2 DEF Locked
    <3> QED BY <2>1, <3>1, <3>2, CloseNowIs
  <2> QED BY <1>1, <2>2 DEF SameClaim
<1> QED BY <1>4, <1>5, <1>6, <1>7, <1>8 DEF AcceptLoop

\* accept_head: the request that begins is one nothing was said to.
LEMMA AcceptHeadSays == ASSUME CoreInv, ParsedOnce, SayInv, AcceptHead PROVE SayInv'
<1> USE Requests
<1> DEFINE b == me.buf \o serve.data
           n == [me EXCEPT !.parked = FALSE, !.buf = b]
<1>1. body' = body /\ hd \in Handlers /\ body \in Bodies
  BY DEF AcceptHead, CoreInv, Typed
<1>2. b \in Seq(ReqItem)
  BY GatheredIs
<1>3. n \in Locked /\ n.cur = me.cur /\ n.buf = b
  BY <1>2 DEF Locked
<1>4. \/ /\ \/ me' = [me EXCEPT !.parked = FALSE] \/ me' = n \/ me' = CloseNow(n)
         /\ hd' = hd
         /\ wire' = wire \/ wire' = Append(wire, Item(None, "400"))
      \/ /\ IsHead(b)
         /\ LET r == b[1].r IN
              /\ me' = [n EXCEPT !.buf = <<>>, !.since = FALSE,
                                 !.cur = [NoRequest EXCEPT !.seq = r, !.done = FALSE,
                                                           !.bodyDone = ~HasBody(r)]]
              /\ hd' = [hd EXCEPT ![r].pc = "start"]
         /\ wire' = wire
  BY <1>3 DEF AcceptHead
<1> HIDE DEF b, n
<1>5. CASE /\ me' = [me EXCEPT !.parked = FALSE] \/ me' = n \/ me' = CloseNow(n)
           /\ hd' = hd
           /\ wire' = wire \/ wire' = Append(wire, Item(None, "400"))
  <2>1. me'.cur = me.cur
    <3>1. CASE me' = [me EXCEPT !.parked = FALSE]
      BY <3>1 DEF Locked
    <3> QED BY <1>3, <1>5, <3>1, CloseNowIs
  <2>2. CASE wire' = wire
    BY <1>1, <1>5, <2>1, <2>2, QuietSays DEF SameClaim
  <2>3. CASE wire' = Append(wire, Item(None, "400"))
    <3>1. Item(None, "400") \in Spoken /\ Item(None, "400").part # "100"
          /\ \A x \in Reqs : Item(None, "400") # Item(x, "head")
      BY DEF Spoken, Item
    <3>2. WireOK' /\ \A x \in Reqs : HeadOut(x)' => HeadOut(x)
      BY <2>3, <3>1, WriteSays DEF SayInv
    <3>3. ASSUME NEW x \in Reqs PROVE SaysOK(x)'
      <4>1. SaysOK(x) /\ (HeadOut(x)' => HeadOut(x))
        BY <3>2 DEF SayInv
      <4> QED BY <1>1, <1>5, <2>1, <4>1 DEF SaysOK, IsCurrent
    <3> QED BY <3>2, <3>3 DEF SayInv
  <2> QED BY <1>5, <2>2, <2>3
<1>6. ASSUME IsHead(b), NEW r, r = b[1].r,
             me' = [n EXCEPT !.buf = <<>>, !.since = FALSE,
                             !.cur = [NoRequest EXCEPT !.seq = r, !.done = FALSE,
                                                       !.bodyDone = ~HasBody(r)]],
             hd' = [hd EXCEPT ![r].pc = "start"], wire' = wire
      PROVE  SayInv'
  <2>1. r \in Reqs /\ hd[r].pc = "off"
    BY <1>6, HeadIsNew DEF b
  <2>2. hd'[r].pc = "start" /\ \A x \in Reqs : x # r => hd'[x] = hd[x]
    BY <1>1, <1>6, <2>1 DEF Handlers
  <2>3. me'.cur = [NoRequest EXCEPT !.seq = r, !.done = FALSE, !.bodyDone = ~HasBody(r)]
    BY <1>3, <1>6 DEF Locked
  <2>4. me'.cur.seq = r /\ ~me'.cur.pending
    BY <2>3 DEF NoRequest
  <2>5. WireOK' /\ \A x \in Reqs : HeadOut(x)' => HeadOut(x)
    BY <1>6 DEF SayInv, WireOK, ContinueFirst, Spoken, HeadOut
  <2>6. serve.pc \in Heading
    BY DEF AcceptHead, Heading
  <2>7. ASSUME NEW x \in Reqs, x # r PROVE SaysOK(x)'
    <3>1. SaysOK(x) /\ hd[x].pc \in {"off", "over"} /\ (HeadOut(x)' => HeadOut(x))
      BY <2>5, <2>6, AtRest DEF SayInv, Working
    <3> QED BY <1>1, <2>2, <2>4, <2>7, <3>1 DEF SaysOK, IsCurrent
  <2>8. SaysOK(r)'
    <3>1. SaysOK(r) /\ (HeadOut(r)' => HeadOut(r))
      BY <2>1, <2>5 DEF SayInv
    <3>2. body[r].pc = "off" /\ ~HeadOut(r)
      BY <2>1, <3>1 DEF SaysOK, BeforeHead
    <3> QED BY <1>1, <2>2, <2>4, <3>1, <3>2 DEF SaysOK
  <2> QED BY <2>5, <2>7, <2>8 DEF SayInv
<1> QED BY <1>4, <1>5, <1>6

\* What else runs writes nothing but the 100 Continue, before the head of the response.
LEMMA OthersSpeak ==
    ASSUME CoreInv, SayInv, NEW r \in Reqs,
           ReadBody(r) \/ BodyReader(r) \/ PeerClosed(r) \/ PeerWaiter(r) \/ Watcher(r)
    PROVE  SayInv'
<1> USE Requests
<1>1. hd' = hd
  BY DEF ReadBody, BodyReader, PeerClosed, PeerWaiter, Watcher, WriteContinue, DecodeBody, ReadBodyMore, FeedBody,
         EndBody, BodyStores, PeerStores, PeerWaits, WatcherStarts, WatcherReads, WatcherCompleted,
         bodyFrame, peerFrame, watchFrame
<1>2. Typed /\ (me.cur.seq = None => me.cur.done) /\ body \in Bodies /\ wt \in Watchers /\ SaysOK(r)
  BY DEF CoreInv, ServeOK, Typed, SayInv
<1>3. ASSUME wire' = wire, body' = body, SameClaim(me'.cur, me.cur) PROVE SayInv'
  BY <1>1, <1>3, QuietSays
<1>4. ASSUME NEW p \in BodyPlaces \ {"100"}, NEW e \in {"none", "clean", "error"}, NEW g \in BOOLEAN,
             NEW d \in Seq(ReqItem),
             \/ body' = [body EXCEPT ![r].pc = p]
             \/ body' = [body EXCEPT ![r].pc = p, ![r].end = e]
             \/ body' = [body EXCEPT ![r].pc = p, ![r].got = g]
             \/ body' = [body EXCEPT ![r].pc = p, ![r].data = d],
             hd[r].pc # "off", wire' = wire, SameClaim(me'.cur, me.cur)
      PROVE  SayInv'
  <2>1. p \in BodyPlaces /\ p # "100"
    BY <1>4
  <2>2. body'[r].pc = p /\ \A x \in Reqs \ {r} : body'[x] = body[x]
    BY <1>2, <1>4, <2>1, BodyWrites, Zenon
  <2>3. \A x \in Reqs : body'[x].pc = body[x].pc \/ (hd[x].pc # "off" /\ body'[x].pc # "100")
    BY <1>4, <2>1, <2>2
  <2> QED BY <1>1, <1>4, <2>3, QuietSays
<1>5. body[r].pc # "off" => hd[r].pc # "off"
  BY <1>2 DEF SaysOK
<1>6. {"over", "loop", "done", "reading", "feed", "store", "join"} \subseteq BodyPlaces \ {"100"} /\ <<>> \in Seq(ReqItem)
  BY EmptySeq DEF BodyPlaces
<1>7. ASSUME NEW m \in Locked, SameClaim(m.cur, me.cur), m.cur.done = me.cur.done, Arm(m)
      PROVE  SameClaim(me'.cur, me.cur)
  <2>1. m.cur.seq = None => m.cur.done
    BY <1>2, <1>7 DEF SameClaim
  <2>2. me'.cur = m.cur
    BY <1>2, <1>7, <2>1, ArmIs
  <2> QED BY <1>7, <2>2
<1>8. CASE ReadBody(r)
  <2>1. hd[r].pc # "off" /\ body[r].pc = "off" /\ wire' = wire
    BY <1>8 DEF ReadBody
  <2>2. CASE me' = me /\ (body' = [body EXCEPT ![r].pc = "over", ![r].end = "clean"] \/ BodyGoes(r, "loop"))
    BY <1>4, <1>6, <2>1, <2>2 DEF BodyGoes, SameClaim
  <2>3. CASE IsCurrent(r) /\ ~me.cur.responded /\ me' = [me EXCEPT !.cur.cont = TRUE] /\ BodyGoes(r, "100")
    <3>1. body'[r].pc = "100" /\ \A x \in Reqs \ {r} : body'[x] = body[x]
      BY <1>2, <2>3, BodyMoves DEF BodyPlaces, BodyGoes
    <3>2. /\ me'.cur.seq = me.cur.seq /\ me'.cur.responded = me.cur.responded /\ me'.cur.pending = me.cur.pending
          /\ me'.cur.cont
      BY <2>3 DEF Locked, Current
    <3>3. hd[r].pc = "start" /\ ~HeadOut(r)
      BY <1>2, <2>1, <2>3 DEF SaysOK, BeforeHead
    <3>4. WireOK' /\ \A x \in Reqs : HeadOut(x)' <=> HeadOut(x)
      BY <2>1 DEF SayInv, WireOK, ContinueFirst, Spoken, HeadOut
    <3>5. ASSUME NEW x \in Reqs, x # r PROVE SaysOK(x)'
      <4>1. SaysOK(x) /\ (HeadOut(x)' <=> HeadOut(x)) /\ body'[x] = body[x]
        BY <3>1, <3>4, <3>5 DEF SayInv
      <4> QED BY <1>1, <3>2, <4>1 DEF SaysOK, IsCurrent
    <3>6. SaysOK(r)'
      <4>1. HeadOut(r)' <=> HeadOut(r)
        BY <3>4
      <4> QED BY <1>1, <1>2, <3>1, <3>2, <3>3, <4>1 DEF SaysOK, IsCurrent
    <3> QED BY <3>4, <3>5, <3>6 DEF SayInv
  <2> QED BY <1>8, <2>2, <2>3 DEF ReadBody
<1>9. CASE WriteContinue(r)
  <2>1. me' = me /\ body[r].pc = "100"
    BY <1>9 DEF WriteContinue
  <2>2. CASE body' = [body EXCEPT ![r].pc = "over", ![r].end = "error"] /\ wire' = wire
    BY <1>4, <1>5, <1>6, <2>1, <2>2 DEF SameClaim
  <2>3. CASE wire' = Append(wire, Item(r, "100")) /\ BodyGoes(r, "loop")
    <3>1. Item(r, "100") \in Spoken /\ Item(r, "100").r = r /\ \A x \in Reqs : Item(r, "100") # Item(x, "head")
      BY DEF Spoken, Item
    <3>2. ~HeadOut(r)
      BY <1>2, <2>1 DEF SaysOK
    <3>3. WireOK' /\ \A x \in Reqs : HeadOut(x)' => HeadOut(x)
      BY <2>3, <3>1, <3>2, WriteSays DEF SayInv
    <3>4. body'[r].pc = "loop" /\ \A x \in Reqs \ {r} : body'[x] = body[x]
      BY <1>2, <2>3, BodyMoves DEF BodyPlaces, BodyGoes
    <3>5. ASSUME NEW x \in Reqs PROVE SaysOK(x)'
      <4>1. SaysOK(x) /\ (HeadOut(x)' => HeadOut(x))
        BY <3>3 DEF SayInv
      <4>2. body'[x] = body[x] \/ (body'[x].pc = "loop" /\ hd[x].pc # "off")
        BY <1>5, <2>1, <3>4
      <4> QED BY <1>1, <2>1, <4>1, <4>2 DEF SaysOK, IsCurrent
    <3> QED BY <3>3, <3>5 DEF SayInv
  <2> QED BY <1>9, <2>2, <2>3 DEF WriteContinue
<1>10. CASE DecodeBody(r)
  <2>1. hd[r].pc # "off" /\ wire' = wire
    BY <1>5, <1>10 DEF DecodeBody
  <2>2. me' = me \/ me' = [me EXCEPT !.reusable = FALSE] \/ me' = [me EXCEPT !.cur.reading = TRUE]
    BY <1>10 DEF DecodeBody, BodyRaises
  <2>3. SameClaim(me'.cur, me.cur)
    <3>1. CASE me' = [me EXCEPT !.reusable = FALSE]
      BY <3>1 DEF Locked, SameClaim
    <3>2. CASE me' = [me EXCEPT !.cur.reading = TRUE]
      BY <3>2 DEF Locked, Current, SameClaim
    <3> QED BY <2>2, <3>1, <3>2 DEF SameClaim
  <2>4. \/ body' = [body EXCEPT ![r].pc = "done"]
        \/ body' = [body EXCEPT ![r].pc = "done", ![r].got = TRUE]
        \/ body' = [body EXCEPT ![r].pc = "over", ![r].end = "error"]
        \/ body' = [body EXCEPT ![r].pc = "reading"]
    BY <1>10 DEF DecodeBody, BodyRaises, BodyGoes
  <2> QED BY <1>4, <1>6, <2>1, <2>3, <2>4
<1>11. CASE FeedBody(r)
  <2>1. /\ me' = me /\ wire' = wire /\ hd[r].pc # "off"
        /\ body' = [body EXCEPT ![r].pc = "loop", ![r].data = <<>>]
    BY <1>5, <1>11 DEF FeedBody
  <2> QED BY <1>4, <1>6, <2>1 DEF SameClaim
<1>12. CASE ReadBodyMore(r)
  <2> DEFINE n == IF IsCurrent(r) THEN [me EXCEPT !.cur.reading = FALSE] ELSE me
  <2>1. n \in Locked /\ SameClaim(n.cur, me.cur)
    <3>1. [me EXCEPT !.cur.reading = FALSE] \in Locked /\ SameClaim([me EXCEPT !.cur.reading = FALSE].cur, me.cur)
      BY DEF Locked, Current, SameClaim
    <3> QED BY <3>1 DEF SameClaim
  <2>2. wire' = wire /\ hd[r].pc # "off"
    BY <1>5, <1>12 DEF ReadBodyMore
  <2>3. PICK data \in Readable :
          \/ BodyRaises(r, n)
          \/ /\ me' = n
             /\ body' = [body EXCEPT ![r].pc = "feed", ![r].data = data] \/ BodyGoes(r, "loop")
    BY <1>12 DEF ReadBodyMore
  <2> HIDE DEF n
  <2>4. data \in Seq(ReqItem)
    BY <1>2, ReadableIs DEF Typed
  <2>5. CASE BodyRaises(r, n)
    <3>1. me' = [n EXCEPT !.reusable = FALSE] /\ body' = [body EXCEPT ![r].pc = "over", ![r].end = "error"]
      BY <2>5 DEF BodyRaises
    <3>2. SameClaim(me'.cur, me.cur)
      BY <2>1, <3>1 DEF Locked
    <3> QED BY <1>4, <1>6, <2>2, <3>1, <3>2
  <2>6. CASE me' = n /\ (body' = [body EXCEPT ![r].pc = "feed", ![r].data = data] \/ BodyGoes(r, "loop"))
    BY <1>4, <1>6, <2>1, <2>2, <2>4, <2>6 DEF BodyGoes
  <2> QED BY <2>3, <2>5, <2>6
<1>13. CASE EndBody(r)
  <2> DEFINE m == [me EXCEPT !.cur.reading = FALSE, !.cur.bodyDone = TRUE]
  <2>1. m \in Locked /\ SameClaim(m.cur, me.cur) /\ m.cur.done = me.cur.done
    BY DEF Locked, Current, SameClaim
  <2>2. wire' = wire /\ hd[r].pc # "off" /\ (Arm(m) \/ me' = me)
    BY <1>5, <1>13 DEF EndBody
  <2>3. \/ body' = [body EXCEPT ![r].pc = "store", ![r].end = "clean"]
        \/ body' = [body EXCEPT ![r].pc = "over", ![r].end = "clean"]
    BY <1>13 DEF EndBody, IfToStore
  <2> HIDE DEF m
  <2>4. SameClaim(me'.cur, me.cur)
    BY <1>7, <2>1, <2>2 DEF SameClaim
  <2> QED BY <1>4, <1>6, <2>2, <2>3, <2>4
<1>14. CASE BodyStores(r)
  <2>1. /\ me' = me \/ me' = Stored(me, r)
        /\ wire' = wire /\ hd[r].pc # "off"
        /\ body' = [body EXCEPT ![r].pc = "join"] \/ body' = [body EXCEPT ![r].pc = "over"]
    BY <1>5, <1>14 DEF BodyStores, BodyGoes
  <2>2. SameClaim(me'.cur, me.cur)
    BY <2>1 DEF Stored, Locked, SameClaim
  <2> QED BY <1>4, <1>6, <2>1, <2>2
<1>15. CASE PeerClosed(r)
  <2> DEFINE m == [me EXCEPT !.cur.wanted = TRUE]
  <2>1. m \in Locked /\ SameClaim(m.cur, me.cur) /\ m.cur.done = me.cur.done
    BY DEF Locked, Current, SameClaim
  <2>2. wire' = wire /\ body' = body /\ (Arm(m) \/ me' = me)
    BY <1>15 DEF PeerClosed, peerFrame
  <2> HIDE DEF m
  <2>3. SameClaim(me'.cur, me.cur)
    BY <1>7, <2>1, <2>2 DEF SameClaim
  <2> QED BY <1>3, <2>2, <2>3
<1>16. CASE PeerWaiter(r) \/ WatcherStarts(r)
  <2>1. me' = me \/ me' = Stored(me, r) \/ me' = [me EXCEPT !.w.completed = TRUE]
    BY <1>16 DEF PeerWaiter, PeerStores, PeerWaits, WatcherStarts
  <2>2. SameClaim(me'.cur, me.cur)
    BY <2>1 DEF Stored, Locked, SameClaim
  <2>3. wire' = wire /\ body' = body
    BY <1>16 DEF PeerWaiter, PeerStores, PeerWaits, WatcherStarts, peerFrame, watchFrame
  <2> QED BY <1>3, <2>2, <2>3
<1>17. CASE WatcherReads(r) \/ WatcherCompleted(r)
  <2> DEFINE n == [me EXCEPT !.w = [@ EXCEPT !.res = wt[r].res, !.data = wt[r].data,
                                             !.completed = TRUE]]
  <2>1. me' = me \/ me' = n \/ me' = [n EXCEPT !.reusable = FALSE, !.cur.gone = TRUE]
    BY <1>17 DEF WatcherReads, WatcherCompleted
  <2>2. wire' = wire /\ body' = body
    BY <1>17 DEF WatcherReads, WatcherCompleted, watchFrame
  <2>3. n \in Locked /\ n.cur = me.cur
    BY <1>2 DEF Locked, Watch, Watchers
  <2> HIDE DEF n
  <2>4. SameClaim(me'.cur, me.cur)
    <3>1. CASE me' = [n EXCEPT !.reusable = FALSE, !.cur.gone = TRUE]
      BY <2>3, <3>1 DEF Locked, Current, SameClaim
    <3> QED BY <2>1, <2>3, <3>1 DEF SameClaim
  <2> QED BY <1>3, <2>2, <2>4
<1> QED BY <1>8, <1>9, <1>10, <1>11, <1>12, <1>13, <1>14, <1>15, <1>16, <1>17 DEF BodyReader, PeerWaiter, Watcher

\* The deadline, the graceful shutdown and the client say nothing for the server.
LEMMA TimeQuiet ==
    ASSUME CoreInv, Overdue \/ RequestShutdown \/ Client
    PROVE  UNCHANGED <<wire, hd, body>> /\ SameClaim(me'.cur, me.cur)
<1> USE Requests
<1> DEFINE n == [me EXCEPT !.reusable = FALSE, !.shutdown = TRUE]
<1>1. n \in Locked /\ n.cur = me.cur
  BY DEF Locked
<1>2. UNCHANGED <<wire, hd, body>>
  BY DEF Overdue, RequestShutdown, Client, ClientSends, ClientShutsDown, ClientResets, timeFrame
<1>3. me' \in {me, CloseNow(me), n, CloseNow(n)}
  BY DEF Overdue, RequestShutdown, Client, ClientSends, ClientShutsDown, ClientResets
<1> HIDE DEF n
<1>4. me'.cur = me.cur
  BY <1>1, <1>3, CloseNowIs
<1> QED BY <1>2, <1>4 DEF SameClaim

\* At first nothing was said.
LEMMA SaysInit == Init => SayInv
<1> SUFFICES ASSUME Init PROVE SayInv
  OBVIOUS
<1>1. wire = <<>> /\ ~me.cur.pending /\ me.cur.seq = None
      /\ \A x \in Reqs : hd[x].pc = "off" /\ body[x].pc = "off"
  BY DEF Init, NoRequest
<1>2. DOMAIN wire = {}
  BY <1>1
<1>3. WireOK /\ \A x \in Reqs : ~HeadOut(x)
  BY <1>2 DEF WireOK, ContinueFirst, HeadOut
<1>4. \A x \in Reqs : SaysOK(x)
  BY <1>1, <1>3 DEF SaysOK
<1> QED BY <1>3, <1>4 DEF SayInv

\* No step writes a 100 Continue after the head, in whatever order the two tasks come.
LEMMA NextSays == ASSUME CoreInv, ParsedOnce, SayInv, [Next]_vars PROVE SayInv'
<1>1. CASE UNCHANGED vars
  BY <1>1, QuietSays DEF vars, SameClaim
<1>2. CASE AcceptHead
  BY <1>2, AcceptHeadSays
<1>3. CASE (AcceptLoop \/ Close) /\ ~AcceptHead
  BY <1>3, LoopQuiet, QuietSays
<1>4. CASE Overdue \/ RequestShutdown \/ Client
  BY <1>4, TimeQuiet, QuietSays
<1>5. ASSUME NEW r \in Reqs, Handler(r) \/ Detach(r) PROVE SayInv'
  BY <1>5, HandlerSpeaks
<1>6. ASSUME NEW r \in Reqs, ReadBody(r) \/ BodyReader(r) \/ PeerClosed(r) \/ PeerWaiter(r) \/ Watcher(r)
      PROVE  SayInv'
  BY <1>6, OthersSpeak
<1> QED BY <1>1, <1>2, <1>3, <1>4, <1>5, <1>6 DEF Next

\* Every head the client sends is parsed at most once and lies in one place until then,
\* whoever reads it: the accept loop, a body reader, the drain or the watcher (accept_head).
THEOREM ServerParsesOnce == Spec => []ParsedOnce
<1>1. CoreInv /\ ParsedOnce /\ [Next]_vars => CoreInv' /\ ParsedOnce'
  BY NextCore, NextOnce
<1> QED BY <1>1, InitCore, ParsedOnceInit, PTL DEF Spec

\* A 100 Continue never follows the response head it would have preceded, whatever the
\* reader of the body and the responder do at once (try_send_continue, respond_head).
THEOREM ServerContinuesFirst == Spec => []ContinueFirst
<1>1. CoreInv /\ ParsedOnce /\ SayInv /\ [Next]_vars => CoreInv' /\ ParsedOnce' /\ SayInv'
  BY NextCore, NextOnce, NextSays
<1>2. SayInv => ContinueFirst
  BY DEF SayInv, WireOK
<1> QED BY <1>1, <1>2, InitCore, ParsedOnceInit, SaysInit, PTL DEF Spec

=============================================================================
