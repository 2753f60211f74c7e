---------------------------- MODULE H1ClientProofs ----------------------------
(***************************************************************************)
(* What H1Client's runs check for two requests, for any number of them: the *)
(* transport has one reader and an idle connection a watcher, exchanges do  *)
(* not mix, and no task sleeps on a free slot.                              *)
(***************************************************************************)
EXTENDS H1Client, FiniteSetTheorems, SequenceTheorems, TLAPS

(***************************************************************************)
(* The invariant: who holds the connection, and who reads it.               *)
(***************************************************************************)

Item ==
    [kind : {"head", "part", "data", "stray", "late", "eof", "broken"}, of : Tasks \cup {None},
     body : BOOLEAN]

Locals ==
    [has : BOOLEAN, rest : Seq(Item), keep : BOOLEAN, take : Tasks \cup {None},
     of : Tasks \cup {None}, early : BOOLEAN, sending : BOOLEAN, cancelled : BOOLEAN]

ItemsOK ==
    /\ loc \in [Tasks -> Locals]
    /\ data \in Seq(Item) /\ wgot \in Seq(Item) /\ inb \in Seq(Item)

\* The places of a task that found the connection alive, up to its release or failure.
Past ==
    {"peek", "writable", "start", "spawn", "store", "refused", "handoff", "head", "body", "finish",
     "detach", "djoin", "detached", "verdict", "shut", "arm", "watch", "handle", "tear", "join"}

\* A cancellation inside the release goes on to its own failure, with no slot to release.
MayBeCancelled == {"release", "wake", "over", "fail", "failed", "fjoin", "fwatch", "ended"}

\* The task is the one the slot was claimed for.
Holds(t) == pc[t] \in Past \cup {"send", "release"} \/ (pc[t] = "fail" /\ ~loc[t].cancelled)

\* One task at a time is in an exchange, and on a live connection it has the slot; on a
\* transport handed to a tunnel there is none.
Alone ==
    /\ \A t, u \in Tasks :
         /\ pc[t] \in Past /\ pc[u] \in Past => t = u
         /\ tr /\ Holds(t) /\ Holds(u) => t = u
    /\ \A t \in Tasks :
         /\ tr /\ Holds(t) => busy
         /\ sock = "open" /\ ~tr => pc[t] \notin Past
         /\ pc[t] \in {"failed", "fjoin", "fwatch", "shut"} => ~tr
         /\ loc[t].cancelled => pc[t] \in MayBeCancelled

\* The watcher task and its slot.
WatcherOK ==
    /\ slot = "none" \/ wdone => wpc = "none"
    /\ wgot # <<>> => wpc = "got"
    /\ wpc \in {"start", "read", "got", "poison"} => data = <<>>

\* The watcher reads, or has read under the idle rules.
Watched == ~active /\ slot # "none" /\ wpc \in {"start", "read", "got", "poison"}

\* The places after the hand-off of the watcher's read, up to the next watcher.
AfterHandoff ==
    {"head", "body", "finish", "detach", "djoin", "detached", "verdict", "shut", "arm"}

\* Who reads: a live connection between exchanges is watched, and so is one whose
\* exchange is still to start or is over; after the hand-off there is no watcher.
ReaderOK ==
    /\ tr /\ ~busy => Watched
    /\ \A t \in Tasks :
         /\ tr /\ pc[t] \in {"send", "peek", "writable", "start", "handle", "tear", "join", "release"}
              => Watched
         /\ pc[t] \in {"peek", "writable", "start"} => ~active
         /\ pc[t] \in {"peek", "writable", "start", "spawn", "store", "refused", "handoff"}
              => loc[t].has
         /\ pc[t] \in AfterHandoff => slot = "none" /\ data = <<>>
         /\ pc[t] = "watch" =>
              /\ wpc = "none" /\ slot = "armed" /\ ~wdone /\ data = <<>>
              /\ tr => ~active

CoreInv == TypeOK /\ ItemsOK /\ Alone /\ WatcherOK /\ ReaderOK

(***************************************************************************)
(* The invariant: what is on the wire.                                      *)
(***************************************************************************)

\* The items that take what the peer owes t from p to r.
Between(t, p, r) ==
    LET P == Part(t)
        H(b) == ResponseHead(t, b)
        D == Data(t)
    IN  CASE p = r -> {<<>>}
          [] p = "any" /\ r = "head" -> {<<P>>}
          [] p = "any" /\ r = "data" -> {<<H(TRUE)>>, <<P, H(TRUE)>>}
          [] p = "any" /\ r = "none" ->
               {<<H(FALSE)>>, <<P, H(FALSE)>>, <<H(TRUE), D>>, <<P, H(TRUE), D>>}
          [] p = "head" /\ r = "data" -> {<<H(TRUE)>>}
          [] p = "head" /\ r = "none" -> {<<H(FALSE)>>, <<H(TRUE), D>>}
          [] p = "data" /\ r = "none" -> {<<D>>}
          [] OTHER -> {}

Owed == {"any", "head", "data", "none"}

\* The arrived items continue what the first ones began, up to what is still owed.
Continues(t, p, items) ==
    \E m \in Owed : items \in Between(t, p, m) /\ BeforeEnd(inb) \in Between(t, m, asked[t])

Endless == {<<Eof>>, <<Broken>>}
Blank == {<<>>} \cup Endless

\* Nothing is owed, and nothing is left of an answer.
Fresh ==
    /\ \A u \in Tasks : asked[u] = "none"
    /\ inb \in {<<>>, <<Eof>>} /\ data \in Blank /\ wgot \in Blank

\* The watcher's read is lost to the exchange, which will fail.
Lost == data \in Endless \/ wgot \in Endless \/ (data = <<>> /\ wpc \in {"poison", "done", "none"})

BeforeWriter ==
    {"idle", "try1", "clear", "try2", "wait", "parked", "send", "peek", "writable", "start", "spawn"}
UnderWay ==
    {"store", "refused", "handoff", "head", "body", "finish", "detach", "djoin", "detached", "verdict"}

\* A request is written by the exchange under way only.
WriterOK ==
    /\ \A t \in Tasks : pc[t] \in BeforeWriter => wr[t] = "none"
    /\ tr => \A t \in Tasks :
         /\ wr[t] = "writing" => ~wfin /\ (pc[t] \in UnderWay \/ (pc[t] = "fail" /\ ~loc[t].cancelled))
         /\ pc[t] \in {"send", "peek", "writable", "start", "spawn"} => ~wfin

\* What is on the wire for a request at each of its places, and what it was answered.
AnswerOK(t) ==
    /\ pc[t] \in {"peek", "writable", "start", "spawn", "finish", "arm"} => Fresh
    /\ pc[t] = "verdict" /\ loc[t].keep => Fresh
    /\ tr /\ pc[t] \in {"send", "watch", "handle", "tear", "join", "release"} => Fresh
    /\ pc[t] \in UnderWay => \A u \in Tasks \ {t} : asked[u] = "none"
    /\ pc[t] \in {"store", "handoff"} =>
         Lost \/ Continues(t, "any", IF data # <<>> THEN data ELSE wgot)
    /\ pc[t] = "head" => \E p \in {"any", "head"} : Continues(t, p, <<>>)
    /\ pc[t] = "body" => Continues(t, "data", loc[t].rest)
    /\ loc[t].of # None => loc[t].of = t

\* What is on the wire belongs to the exchange under way, in the order it was sent.
AnswersOK ==
    /\ strays = 0
    /\ tr /\ ~busy => Fresh
    /\ \A t \in Tasks : AnswerOK(t)

ExchangeInv == WriterOK /\ ("stray" \notin scene => AnswersOK)

\* A task that is about to sleep on a free slot will see the event set, or somebody is
\* about to set it or to claim the slot.
WakeOK ==
    \A t \in Tasks :
        pc[t] = "wait" => evt \/ busy \/ \E u \in Tasks : pc[u] \in {"wake", "try2"}

(***************************************************************************)
(* Sequences and locals.                                                    *)
(***************************************************************************)

\* What a read takes and leaves.
LEMMA ReadTypes ==
    ASSUME NEW items \in Seq(Item)
    PROVE  BeforeEnd(items) \in Seq(Item) /\ FromEnd(items) \in Seq(Item)
<1>1. CASE Ended(items)
  <2>1. /\ Len(items) \in Nat \ {0}
        /\ SubSeq(items, 1, Len(items) - 1) \in Seq(Item)
    BY <1>1, SubSeqProperties DEF Ended
  <2> QED BY <1>1, <2>1 DEF BeforeEnd, FromEnd, Eof, Item
<1> QED BY <1>1 DEF BeforeEnd, FromEnd

\* What does not begin with the end holds something to read.
LEMMA BeforeEndNotEmpty ==
    ASSUME NEW items \in Seq(Item), items # <<>>, items[1] # Eof
    PROVE  BeforeEnd(items) # <<>>
<1>1. Len(items) \in Nat \ {0}
  BY EmptySeq
<1>2. CASE Ended(items)
  <2>1. Len(items) # 1
    BY <1>2 DEF Ended
  <2>2. Len(SubSeq(items, 1, Len(items) - 1)) = Len(items) - 1
    <3>1. \A i \in 1..Len(items) - 1 : items[i] \in Item
      BY <1>1, ElementOfSeq
    <3>2. Len(items) - 1 \in Int /\ 1 <= Len(items) - 1
      <4>1. \A n \in Nat \ {0} : n # 1 => n - 1 \in Int /\ 1 <= n - 1
        OBVIOUS
      <4> QED BY <1>1, <2>1, <4>1, Zenon
    <3> QED BY <1>1, <3>1, <3>2, SubSeqProperties
  <2>3. Len(SubSeq(items, 1, Len(items) - 1)) # 0
    BY <1>1, <2>1, <2>2
  <2>4. Len(<<>>) = 0
    OBVIOUS
  <2> QED BY <1>2, <2>3, <2>4, Zenon DEF BeforeEnd
<1> QED BY <1>2 DEF BeforeEnd

\* More than one item leaves some.
LEMMA LongTail ==
    ASSUME NEW items \in Seq(Item), items # <<>>, Len(items) # 1
    PROVE  Tail(items) \in Seq(Item) /\ Tail(items) # <<>>
<1>1. /\ Tail(items) \in Seq(Item) /\ Len(Tail(items)) \in Nat
      /\ Len(Tail(items)) = Len(items) - 1 /\ Len(items) \in Nat
  BY HeadTailProperties
<1>2. Len(Tail(items)) # 0
  BY <1>1
<1>3. Len(<<>>) = 0
  OBVIOUS
<1> QED BY <1>1, <1>2, <1>3, Zenon

\* A step that gives one task new locals.
LEMMA LocalsKept ==
    ASSUME CoreInv, NEW t \in Tasks, NEW r \in Locals, loc' = [loc EXCEPT ![t] = r]
    PROVE  loc' \in [Tasks -> Locals]
BY DEF CoreInv, ItemsOK

\* Parsing a head moves the task on, with locals that hold what is left over.
LEMMA ParsedMoves ==
    ASSUME CoreInv, NEW t \in Tasks, NEW items \in Seq(Item), items # <<>>, Parsed(t, items)
    PROVE  /\ loc' \in [Tasks -> Locals]
           /\ \A u \in Tasks : loc'[u].has = loc[u].has /\ loc'[u].cancelled = loc[u].cancelled
           /\ \E p \in {"head", "body", "finish", "detach"} : pc' = [pc EXCEPT ![t] = p]
<1>1. CASE items[1].kind = "part" /\ Len(items) = 1
  BY <1>1 DEF Parsed, Goto, CoreInv, ItemsOK
<1>2. CASE ~(items[1].kind = "part" /\ Len(items) = 1)
  <2> DEFINE head == IF items[1].kind = "part" THEN Tail(items) ELSE items
  <2>1. Len(items) \in Nat \ {0} /\ items[1] \in Item
    BY ElementOfSeq
  <2>2. head \in Seq(Item) /\ head # <<>>
    <3>1. CASE items[1].kind = "part"
      <4>1. Tail(items) \in Seq(Item) /\ Tail(items) # <<>>
        BY <1>2, <3>1, LongTail
      <4> QED BY <3>1, <4>1, Zenon
    <3> QED BY <3>1
  <2>3. head[1] \in Item /\ Tail(head) \in Seq(Item)
    BY <2>2, HeadTailProperties, ElementOfSeq
  <2>4. PICK keep \in BOOLEAN, early \in BOOLEAN, sending \in BOOLEAN,
            next \in {"body", "finish", "detach"} :
          /\ loc' = [loc EXCEPT ![t].of = head[1].of, ![t].early = early,
                                ![t].rest = Tail(head), ![t].keep = keep,
                                ![t].sending = sending]
          /\ pc' = [pc EXCEPT ![t] = next]
    <3>1. \E keep \in BOOLEAN, next \in {"body", "finish", "detach"} :
            /\ loc' = [loc EXCEPT ![t].of = head[1].of, ![t].early = (head[1].kind = "stray"),
                                  ![t].rest = Tail(head), ![t].keep = keep,
                                  ![t].sending = (next # "body")]
            /\ pc' = [pc EXCEPT ![t] = next]
      BY <1>2, ZenonT(30) DEF Parsed, Goto
    <3>2. (head[1].kind = "stray") \in BOOLEAN /\ \A next : (next # "body") \in BOOLEAN
      BY Zenon
    <3> QED BY <3>1, <3>2, ZenonT(30)
  <2> HIDE DEF head
  <2> DEFINE r == [loc[t] EXCEPT !.of = head[1].of, !.early = early,
                                 !.rest = Tail(head), !.keep = keep, !.sending = sending]
  <2>5. loc[t] \in Locals /\ loc \in [Tasks -> Locals]
    BY DEF CoreInv, ItemsOK
  <2>6. r \in Locals /\ r.has = loc[t].has /\ r.cancelled = loc[t].cancelled
    BY <2>3, <2>5 DEF Locals, Item
  <2>7. loc' = [loc EXCEPT ![t] = r]
    BY <2>4, <2>5
  <2> HIDE DEF r
  <2>8. /\ loc' \in [Tasks -> Locals]
        /\ \A u \in Tasks : loc'[u].has = loc[u].has /\ loc'[u].cancelled = loc[u].cancelled
    BY <2>5, <2>6, <2>7
  <2> QED BY <2>4, <2>8
<1> QED BY <1>1, <1>2

(***************************************************************************)
(* One reader: one lemma per operation.                                     *)
(***************************************************************************)

\* try_begin_exchange: on a live connection a free slot has no holder.
LEMMA TryBeginCore == ASSUME CoreInv, NEW t \in Tasks, TryBegin(t) PROVE CoreInv'
<1>1. CASE busy
  <2>1. TypeOK' /\ ItemsOK'
    BY <1>1 DEF CoreInv, TypeOK, ItemsOK, Places, TryBegin, Goto, watchVars, closeVars, wireVars
  <2>2. Alone'
    BY <1>1 DEF CoreInv, TypeOK, Alone, Past, MayBeCancelled, Holds, TryBegin, Goto, wireVars
  <2>3. WatcherOK' /\ ReaderOK'
    BY <1>1 DEF CoreInv, TypeOK, WatcherOK, ReaderOK, AfterHandoff, Watched, TryBegin, Goto, watchVars
  <2> QED BY <2>1, <2>2, <2>3 DEF CoreInv
<1>2. CASE ~busy
  <2> DEFINE r == [loc[t] EXCEPT !.sending = TRUE]
  <2>1. r \in Locals /\ r.has = loc[t].has /\ r.cancelled = loc[t].cancelled
    BY DEF CoreInv, ItemsOK, Locals
  <2>2. loc' = [loc EXCEPT ![t] = r]
    BY <1>2 DEF TryBegin, CoreInv, ItemsOK
  <2> HIDE DEF r
  <2>3. /\ loc' \in [Tasks -> Locals]
        /\ \A u \in Tasks : loc'[u].has = loc[u].has /\ loc'[u].cancelled = loc[u].cancelled
    BY <2>1, <2>2, LocalsKept DEF CoreInv, ItemsOK
  <2>4. TypeOK'
    BY <1>2, ZenonT(30) DEF CoreInv, TypeOK, Places, TryBegin, Goto, watchVars, closeVars, wireVars
  <2>5. ItemsOK'
    BY <2>3 DEF CoreInv, ItemsOK, TryBegin, watchVars, wireVars
  <2>6. Alone'
    BY <1>2, <2>3 DEF CoreInv, TypeOK, Alone, Past, MayBeCancelled, Holds, TryBegin, Goto, wireVars
  <2>7. WatcherOK' /\ ReaderOK'
    BY <1>2, <2>3 DEF CoreInv, TypeOK, Alone, Holds, WatcherOK, ReaderOK, Past, AfterHandoff, Watched,
       TryBegin, Goto, watchVars
  <2> QED BY <2>4, <2>5, <2>6, <2>7 DEF CoreInv
<1> QED BY <1>1, <1>2

\* The end of a request, or of a cancellation inside its release.
LEMMA OverCore == ASSUME CoreInv, NEW t \in Tasks, Over(t) PROVE CoreInv'
<1> DEFINE r == [NoLocals EXCEPT !.cancelled = loc[t].cancelled]
<1>1. r \in Locals /\ r.cancelled = loc[t].cancelled
  BY EmptySeq DEF CoreInv, ItemsOK, Locals, NoLocals
<1>2. loc' = [loc EXCEPT ![t] = r]
  BY DEF Over
<1> HIDE DEF r
<1>3. /\ loc' \in [Tasks -> Locals]
      /\ \A u \in Tasks : /\ loc'[u].cancelled = loc[u].cancelled
                          /\ u # t => loc'[u] = loc[u]
  BY <1>1, <1>2, LocalsKept DEF CoreInv, ItemsOK
<1>4. TypeOK' /\ ItemsOK'
  BY <1>3 DEF CoreInv, TypeOK, ItemsOK, Places, Over, Goto, stateVars, watchVars, closeVars, wireVars
<1>5. Alone'
  BY <1>3 DEF CoreInv, TypeOK, Alone, Past, MayBeCancelled, Holds, Over, Goto, stateVars, wireVars
<1>6. WatcherOK' /\ ReaderOK'
  BY <1>3 DEF CoreInv, TypeOK, WatcherOK, ReaderOK, AfterHandoff, Watched, Over, Goto, stateVars, watchVars
<1> QED BY <1>4, <1>5, <1>6 DEF CoreInv

\* begin_send: a live connection has a watcher, and the task knows.
LEMMA BeginSendCore == ASSUME CoreInv, NEW t \in Tasks, BeginSend(t) PROVE CoreInv'
<1>1. CASE err \/ ~tr
  <2>1. ItemsOK' /\ TypeOK'
    BY <1>1 DEF CoreInv, TypeOK, ItemsOK, Places, BeginSend, Goto, stateVars, watchVars, closeVars, wireVars
  <2>2. Alone'
    BY <1>1 DEF CoreInv, TypeOK, Alone, Past, MayBeCancelled, Holds, BeginSend, Goto, stateVars, wireVars
  <2>3. WatcherOK' /\ ReaderOK'
    BY <1>1 DEF CoreInv, TypeOK, WatcherOK, ReaderOK, AfterHandoff, Watched, BeginSend, Goto, stateVars,
       watchVars
  <2> QED BY <2>1, <2>2, <2>3 DEF CoreInv
<1>2. CASE ~err /\ tr
  <2> DEFINE r == [loc[t] EXCEPT !.has = slot # "none"]
  <2>1. slot # "none" /\ pc[t] = "send" /\ Holds(t)
    BY <1>2 DEF CoreInv, ReaderOK, Watched, BeginSend, Holds
  <2>2. r \in Locals /\ r.has = TRUE /\ r.cancelled = loc[t].cancelled
    BY <2>1 DEF CoreInv, ItemsOK, Locals
  <2>3. loc' = [loc EXCEPT ![t] = r]
    BY <1>2 DEF BeginSend, CoreInv, ItemsOK
  <2> HIDE DEF r
  <2>4. /\ loc' \in [Tasks -> Locals] /\ loc'[t].has = TRUE
        /\ \A u \in Tasks : /\ loc'[u].cancelled = loc[u].cancelled
                            /\ u # t => loc'[u] = loc[u]
    BY <2>2, <2>3, LocalsKept DEF CoreInv, ItemsOK
  <2>5. TypeOK' /\ ItemsOK'
    BY <1>2, <2>4 DEF CoreInv, TypeOK, ItemsOK, Places, BeginSend, Goto, stateVars, watchVars, closeVars,
       wireVars
  <2>6. Alone'
    <3>1. \A u \in Tasks : Holds(u) => u = t
      BY <1>2, <2>1 DEF CoreInv, Alone
    <3>2. pc' = [pc EXCEPT ![t] = "peek"]
      BY <1>2 DEF BeginSend, Goto
    <3> QED BY <1>2, <2>1, <2>4, <3>1, <3>2 DEF CoreInv, TypeOK, Alone, Past, MayBeCancelled, Holds,
          BeginSend, stateVars, wireVars
  <2>7. WatcherOK' /\ ReaderOK'
    BY <1>2, <2>4 DEF CoreInv, TypeOK, WatcherOK, ReaderOK, AfterHandoff, Watched, BeginSend, Goto,
       stateVars, watchVars
  <2> QED BY <2>5, <2>6, <2>7 DEF CoreInv
<1> QED BY <1>1, <1>2

\* receive_nowait: bytes beside the parked watcher close the connection.
LEMMA PeekCore == ASSUME CoreInv, NEW t \in Tasks, Peek(t) PROVE CoreInv'
<1>1. CASE sock = "open" /\ ~AtEnd(inb)
  <2>1. TypeOK'
    BY <1>1, ZenonT(30) DEF CoreInv, TypeOK, Places, Peek, CloseNow, Goto, watchVars, closeVars
  <2>2. ItemsOK'
    BY <1>1, ReadTypes DEF CoreInv, ItemsOK, Peek, watchVars
  <2>3. Alone'
    BY <1>1 DEF CoreInv, TypeOK, Alone, Past, MayBeCancelled, Holds, Peek, CloseNow, Goto
  <2>4. WatcherOK' /\ ReaderOK'
    BY <1>1 DEF CoreInv, TypeOK, WatcherOK, ReaderOK, AfterHandoff, Watched, Peek, CloseNow, Goto, watchVars
  <2> QED BY <2>1, <2>2, <2>3, <2>4 DEF CoreInv
<1>2. CASE ~(sock = "open" /\ ~AtEnd(inb))
  <2>1. PICK p \in {"writable", "fail"} :
          pc' = [pc EXCEPT ![t] = p] /\ UNCHANGED <<inb, err, closed, tr, sock>>
    BY <1>2 DEF Peek, Goto
  <2>2. TypeOK' /\ ItemsOK'
    BY <2>1 DEF CoreInv, TypeOK, ItemsOK, Places, Peek, watchVars, closeVars
  <2>3. Alone'
    BY <2>1 DEF CoreInv, TypeOK, Alone, Past, MayBeCancelled, Holds, Peek
  <2>4. WatcherOK' /\ ReaderOK'
    BY <2>1 DEF CoreInv, TypeOK, WatcherOK, ReaderOK, AfterHandoff, Watched, Peek, watchVars
  <2> QED BY <2>2, <2>3, <2>4 DEF CoreInv
<1> QED BY <1>1, <1>2

\* take_watcher_handoff: the watcher is done, and its slot is cleared.
LEMMA TakeHandoffCore == ASSUME CoreInv, NEW t \in Tasks, TakeHandoff(t) PROVE CoreInv'
<1>1. pc[t] = "handoff" /\ loc[t].has /\ wdone /\ wpc = "none"
  BY DEF CoreInv, ReaderOK, WatcherOK, TakeHandoff
<1>2. slot' = "none" /\ data' = <<>>
  BY <1>1 DEF TakeHandoff
<1>3. /\ loc' \in [Tasks -> Locals]
      /\ \A u \in Tasks : loc'[u].has = loc[u].has /\ loc'[u].cancelled = loc[u].cancelled
      /\ \E p \in {"head", "body", "finish", "detach", "fail"} : pc' = [pc EXCEPT ![t] = p]
  <2>1. CASE ~AtEnd(data)
    <3>1. data \in Seq(Item) /\ data # <<>> /\ Parsed(t, data)
      BY <1>1, <2>1 DEF TakeHandoff, AtEnd, CoreInv, ItemsOK
    <3> QED BY <3>1, ParsedMoves
  <2>2. CASE AtEnd(data)
    BY <1>1, <2>2 DEF TakeHandoff, Goto, CoreInv, ItemsOK
  <2> QED BY <2>1, <2>2
<1>4. PICK p \in {"head", "body", "finish", "detach", "fail"} : pc' = [pc EXCEPT ![t] = p]
  BY <1>3
<1>5. TypeOK'
  BY <1>2, <1>4 DEF CoreInv, TypeOK, Places, TakeHandoff, stateVars, closeVars, wireVars
<1>6. ItemsOK'
  BY <1>2, <1>3, EmptySeq DEF CoreInv, ItemsOK, TakeHandoff, wireVars
<1>7. Alone'
  BY <1>1, <1>3, <1>4 DEF CoreInv, TypeOK, Alone, Past, MayBeCancelled, Holds, TakeHandoff, stateVars,
     wireVars
<1>8. \A u \in Tasks : pc[u] \in Past => u = t
  BY <1>1 DEF CoreInv, Alone, Past
<1>9. WatcherOK' /\ ReaderOK'
  <2>1. wgot = <<>>
    BY <1>1 DEF CoreInv, WatcherOK
  <2>2. ~(tr /\ ~busy)
    BY <1>1 DEF CoreInv, Alone, Holds, Past
  <2>3. \A u \in Tasks : u # t => pc'[u] = pc[u] /\ (tr => pc[u] \notin {"send", "release"})
    BY <1>1, <1>4 DEF CoreInv, TypeOK, Alone, Holds, Past
  <2>4. pc'[t] = p
    BY <1>4 DEF CoreInv, TypeOK
  <2> QED BY <1>1, <1>2, <1>3, <1>8, <2>1, <2>2, <2>3, <2>4 DEF CoreInv, TypeOK, WatcherOK, ReaderOK, Past,
        AfterHandoff, Watched, TakeHandoff, stateVars
<1> QED BY <1>5, <1>6, <1>7, <1>9 DEF CoreInv

\* _read_head: the task's own read.
LEMMA ReadHeadCore == ASSUME CoreInv, NEW t \in Tasks, ReadHead(t) PROVE CoreInv'
<1>1. pc[t] = "head"
  BY DEF ReadHead
<1>2. /\ loc' \in [Tasks -> Locals] /\ inb' \in Seq(Item)
      /\ \A u \in Tasks : loc'[u].has = loc[u].has /\ loc'[u].cancelled = loc[u].cancelled
      /\ \E p \in {"head", "body", "finish", "detach", "fail"} : pc' = [pc EXCEPT ![t] = p]
  <2>1. CASE sock = "open" /\ ~AtEnd(inb) /\ Parsed(t, BeforeEnd(inb)) /\ inb' = FromEnd(inb)
    <3>1. inb \in Seq(Item) /\ inb # <<>> /\ inb[1] # Eof
      BY <2>1 DEF CoreInv, ItemsOK, AtEnd
    <3>2. BeforeEnd(inb) # <<>>
      BY <3>1, BeforeEndNotEmpty
    <3> QED BY <2>1, <3>1, <3>2, ReadTypes, ParsedMoves
  <2>2. CASE Goto(t, "fail") /\ UNCHANGED <<loc, inb>>
    BY <2>2 DEF Goto, CoreInv, ItemsOK
  <2> QED BY <2>1, <2>2 DEF ReadHead
<1>3. PICK p \in {"head", "body", "finish", "detach", "fail"} : pc' = [pc EXCEPT ![t] = p]
  BY <1>2
<1>4. TypeOK'
  BY <1>3 DEF CoreInv, TypeOK, Places, ReadHead, stateVars, watchVars, closeVars
<1>5. ItemsOK'
  BY <1>2 DEF CoreInv, ItemsOK, ReadHead, watchVars
<1>6. Alone'
  BY <1>1, <1>2, <1>3 DEF CoreInv, TypeOK, Alone, Past, MayBeCancelled, Holds, ReadHead, stateVars
<1>7. WatcherOK' /\ ReaderOK'
  BY <1>1, <1>2, <1>3 DEF CoreInv, TypeOK, WatcherOK, ReaderOK, AfterHandoff, Watched, ReadHead, stateVars,
     watchVars
<1> QED BY <1>4, <1>5, <1>6, <1>7 DEF CoreInv

\* The body's item, or the end of the body, whatever is left over.
LEMMA BodyCore ==
    ASSUME CoreInv, NEW t \in Tasks, pc[t] = "body",
           NEW rest \in Seq(Item), NEW keep \in BOOLEAN,
           loc' = [loc EXCEPT ![t].rest = rest, ![t].keep = keep],
           \E p \in {"finish", "verdict"} : pc' = [pc EXCEPT ![t] = p],
           inb' \in Seq(Item),
           UNCHANGED <<stateVars, watchVars, evt, wr, closeVars, sock, asked, strays>>
    PROVE  CoreInv'
<1> DEFINE r == [loc[t] EXCEPT !.rest = rest, !.keep = keep]
<1>1. r \in Locals /\ r.cancelled = loc[t].cancelled /\ r.has = loc[t].has
  BY ZenonT(30) DEF CoreInv, ItemsOK, Locals
<1>2. loc' = [loc EXCEPT ![t] = r]
  BY DEF CoreInv, ItemsOK
<1> HIDE DEF r
<1>3. /\ loc' \in [Tasks -> Locals]
      /\ \A u \in Tasks : loc'[u].has = loc[u].has /\ loc'[u].cancelled = loc[u].cancelled
  BY <1>1, <1>2, LocalsKept DEF CoreInv, ItemsOK
<1>4. TypeOK' /\ ItemsOK'
  BY <1>3 DEF CoreInv, TypeOK, ItemsOK, Places, stateVars, watchVars, closeVars
<1>5. Alone'
  BY <1>3 DEF CoreInv, TypeOK, Alone, Past, MayBeCancelled, Holds, stateVars
<1>6. WatcherOK' /\ ReaderOK'
  BY <1>3 DEF CoreInv, TypeOK, WatcherOK, ReaderOK, AfterHandoff, Watched, stateVars, watchVars
<1> QED BY <1>4, <1>5, <1>6 DEF CoreInv

\* The body's only item, or its early end.
LEMMA ReadBodyCore == ASSUME CoreInv, NEW t \in Tasks, ReadBody(t) PROVE CoreInv'
<1>1. /\ loc \in [Tasks -> Locals] /\ loc[t].rest \in Seq(Item) /\ loc[t].keep \in BOOLEAN
      /\ inb \in Seq(Item)
  BY DEF CoreInv, ItemsOK, Locals
<1>2. CASE loc[t].rest # <<>> /\ loc' = [loc EXCEPT ![t].rest = Tail(@)] /\ Goto(t, "finish")
           /\ UNCHANGED inb
  <2>1. Tail(loc[t].rest) \in Seq(Item)
    BY <1>1, <1>2, HeadTailProperties
  <2>2. loc' = [loc EXCEPT ![t].rest = Tail(loc[t].rest), ![t].keep = loc[t].keep]
    BY <1>1, <1>2 DEF Locals
  <2> QED BY <1>1, <1>2, <2>1, <2>2, BodyCore DEF ReadBody, Goto
<1>3. CASE /\ sock = "open" /\ ~AtEnd(inb)
           /\ loc' = [loc EXCEPT ![t].rest = Tail(BeforeEnd(inb))]
           /\ inb' = FromEnd(inb) /\ Goto(t, "finish")
  <2>1. BeforeEnd(inb) \in Seq(Item) /\ BeforeEnd(inb) # <<>> /\ inb' \in Seq(Item)
    BY <1>1, <1>3, ReadTypes, BeforeEndNotEmpty DEF AtEnd
  <2>2. Tail(BeforeEnd(inb)) \in Seq(Item)
    BY <2>1, HeadTailProperties
  <2>3. loc' = [loc EXCEPT ![t].rest = Tail(BeforeEnd(inb)), ![t].keep = loc[t].keep]
    BY <1>1, <1>3 DEF Locals
  <2> QED BY <1>1, <1>3, <2>1, <2>2, <2>3, BodyCore DEF ReadBody, Goto
<1>4. CASE loc' = [loc EXCEPT ![t].keep = FALSE] /\ Goto(t, "verdict") /\ UNCHANGED inb
  <2>1. loc' = [loc EXCEPT ![t].rest = loc[t].rest, ![t].keep = FALSE]
    BY <1>1, <1>4 DEF Locals
  <2> QED BY <1>1, <1>4, <2>1, BodyCore DEF ReadBody, Goto
<1> QED BY <1>2, <1>3, <1>4 DEF ReadBody

\* aclose() of an unfinished body.
LEMMA DropBodyCore == ASSUME CoreInv, NEW t \in Tasks, DropBody(t) PROVE CoreInv'
<1>1. loc \in [Tasks -> Locals] /\ loc[t].rest \in Seq(Item) /\ inb \in Seq(Item)
  BY DEF CoreInv, ItemsOK, Locals
<1>2. loc' = [loc EXCEPT ![t].rest = loc[t].rest, ![t].keep = FALSE]
  BY <1>1 DEF Locals, DropBody
<1> QED BY <1>1, <1>2, BodyCore DEF DropBody, Goto, wireVars

\* H1ResponseBody._finish: bytes past the body close the connection.
LEMMA FinishCore == ASSUME CoreInv, NEW t \in Tasks, Finish(t) PROVE CoreInv'
<1>1. /\ loc' \in [Tasks -> Locals]
      /\ \A u \in Tasks : loc'[u].has = loc[u].has /\ loc'[u].cancelled = loc[u].cancelled
  <2>1. CASE loc[t].rest = <<>>
    BY <2>1 DEF Finish, CoreInv, ItemsOK
  <2>2. CASE loc[t].rest # <<>>
    <3> DEFINE r == [loc[t] EXCEPT !.keep = FALSE, !.rest = <<>>]
    <3>1. r \in Locals /\ r.cancelled = loc[t].cancelled /\ r.has = loc[t].has
      BY EmptySeq DEF CoreInv, ItemsOK, Locals
    <3>2. loc' = [loc EXCEPT ![t] = r]
      BY <2>2 DEF Finish, CoreInv, ItemsOK
    <3> HIDE DEF r
    <3> QED BY <3>1, <3>2, LocalsKept DEF CoreInv, ItemsOK
  <2> QED BY <2>1, <2>2
<1>2. \/ UNCHANGED <<err, closed, tr, sock>>
      \/ err' = TRUE /\ CloseNow
  BY DEF Finish
<1>3. pc[t] = "finish" /\ pc' = [pc EXCEPT ![t] = "verdict"]
  BY DEF Finish, Goto
<1>4. TypeOK' /\ ItemsOK'
  <2>1. CASE UNCHANGED <<err, closed, tr, sock>>
    BY <1>1, <1>3, <2>1 DEF CoreInv, TypeOK, ItemsOK, Places, Finish, watchVars, closeVars
  <2>2. CASE err' = TRUE /\ CloseNow
    BY <1>1, <1>3, <2>2 DEF CoreInv, TypeOK, ItemsOK, Places, Finish, CloseNow, watchVars, closeVars
  <2> QED BY <1>2, <2>1, <2>2
<1>5. Alone'
  BY <1>1, <1>2, <1>3 DEF CoreInv, TypeOK, Alone, Past, MayBeCancelled, Holds, Finish, CloseNow
<1>6. WatcherOK' /\ ReaderOK'
  BY <1>1, <1>2, <1>3 DEF CoreInv, TypeOK, WatcherOK, ReaderOK, AfterHandoff, Watched, Finish, CloseNow,
     watchVars
<1> QED BY <1>4, <1>5, <1>6 DEF CoreInv

\* finish_exchange: what is not reused is closed.
LEMMA FinishExchangeCore == ASSUME CoreInv, NEW t \in Tasks, FinishExchange(t) PROVE CoreInv'
<1>1. PICK p \in {"arm", "shut", "tear"} :
        /\ pc[t] = "verdict" /\ pc' = [pc EXCEPT ![t] = p]
        /\ \/ p = "arm" /\ UNCHANGED <<closed, tr, sock>>
           \/ p # "arm" /\ CloseNow
  BY DEF FinishExchange, Goto
<1>2. TypeOK' /\ ItemsOK'
  <2>1. CASE UNCHANGED <<closed, tr, sock>>
    BY <1>1, <2>1 DEF CoreInv, TypeOK, ItemsOK, Places, FinishExchange, watchVars, closeVars
  <2>2. CASE CloseNow
    BY <1>1, <2>2, ZenonT(30) DEF CoreInv, TypeOK, ItemsOK, Places, FinishExchange, CloseNow, watchVars, closeVars
  <2> QED BY <1>1, <2>1, <2>2
<1>3. Alone'
  BY <1>1 DEF CoreInv, TypeOK, Alone, Past, MayBeCancelled, Holds, FinishExchange, CloseNow
<1>4. WatcherOK' /\ ReaderOK'
  BY <1>1 DEF CoreInv, TypeOK, WatcherOK, ReaderOK, AfterHandoff, Watched, FinishExchange, CloseNow, watchVars
<1> QED BY <1>2, <1>3, <1>4 DEF CoreInv

\* arm_watcher: only for a live connection without a watcher.
LEMMA ArmWatcherCore == ASSUME CoreInv, NEW t \in Tasks, ArmWatcher(t) PROVE CoreInv'
<1>1. pc[t] = "arm" /\ slot = "none" /\ wpc = "none" /\ wgot = <<>>
  BY DEF CoreInv, ReaderOK, AfterHandoff, WatcherOK, ArmWatcher
<1>2. CASE closed \/ err \/ ~tr \/ slot # "none"
  <2>1. ~tr
    BY <1>1, <1>2 DEF CoreInv, TypeOK
  <2>2. TypeOK' /\ ItemsOK'
    BY <1>2 DEF CoreInv, TypeOK, ItemsOK, Places, ArmWatcher, Goto, closeVars, wireVars
  <2>3. Alone'
    BY <1>2 DEF CoreInv, TypeOK, Alone, Past, MayBeCancelled, Holds, ArmWatcher, Goto, wireVars
  <2>4. WatcherOK' /\ ReaderOK'
    BY <1>2, <2>1 DEF CoreInv, TypeOK, WatcherOK, ReaderOK, AfterHandoff, Watched, ArmWatcher, Goto
  <2> QED BY <2>2, <2>3, <2>4 DEF CoreInv
<1>3. CASE ~(closed \/ err \/ ~tr \/ slot # "none")
  <2>1. /\ active' = FALSE /\ slot' = "armed" /\ data' = <<>> /\ wdone' = FALSE
        /\ pc' = [pc EXCEPT ![t] = "watch"]
    BY <1>3 DEF ArmWatcher, Goto
  <2>2. TypeOK' /\ ItemsOK'
    BY <2>1, EmptySeq DEF CoreInv, TypeOK, ItemsOK, Places, ArmWatcher, closeVars, wireVars
  <2>3. Alone'
    BY <1>1, <2>1 DEF CoreInv, TypeOK, Alone, Past, MayBeCancelled, Holds, ArmWatcher, wireVars
  <2>4. \A u \in Tasks : Holds(u) => u = t
    BY <1>1, <1>3 DEF CoreInv, Alone, Holds, Past
  <2>5. WatcherOK' /\ ReaderOK'
    BY <1>1, <1>3, <2>1, <2>4 DEF CoreInv, TypeOK, Alone, Holds, Past, WatcherOK, ReaderOK, AfterHandoff, Watched,
       ArmWatcher
  <2> QED BY <2>2, <2>3, <2>5 DEF CoreInv
<1> QED BY <1>2, <1>3

\* take_writer: the writer changes hands, and the task goes on to join it.
LEMMA TakeWriterCore == ASSUME CoreInv, NEW t \in Tasks, TakeWriter(t) PROVE CoreInv'
<1> DEFINE r == [loc[t] EXCEPT !.take = wslot]
<1>1. r \in Locals /\ r.cancelled = loc[t].cancelled /\ r.has = loc[t].has
  BY ZenonT(30) DEF CoreInv, TypeOK, ItemsOK, Locals
<1>2. loc' = [loc EXCEPT ![t] = r]
  BY DEF TakeWriter, CoreInv, ItemsOK
<1> HIDE DEF r
<1>3. /\ loc' \in [Tasks -> Locals]
      /\ \A u \in Tasks : loc'[u].has = loc[u].has /\ loc'[u].cancelled = loc[u].cancelled
  BY <1>1, <1>2, LocalsKept DEF CoreInv, ItemsOK
<1>4. TypeOK' /\ ItemsOK'
  BY <1>3 DEF CoreInv, TypeOK, ItemsOK, Places, TakeWriter, Goto, watchVars, closeVars, wireVars
<1>5. Alone'
  BY <1>3 DEF CoreInv, TypeOK, Alone, Past, MayBeCancelled, Holds, TakeWriter, Goto, wireVars
<1>6. WatcherOK' /\ ReaderOK'
  BY <1>3 DEF CoreInv, TypeOK, WatcherOK, ReaderOK, AfterHandoff, Watched, TakeWriter, Goto, watchVars
<1> QED BY <1>4, <1>5, <1>6 DEF CoreInv

\* A cancelled await fails the request, gives up a wait, or still releases the slot.
LEMMA CancelledCore == ASSUME CoreInv, NEW t \in Tasks, Cancelled(t) PROVE CoreInv'
<1>1. CASE UNCHANGED loc
  <2>1. TypeOK' /\ ItemsOK'
    BY <1>1 DEF CoreInv, TypeOK, ItemsOK, Places, Cancelled, Goto, stateVars, watchVars, closeVars, wireVars
  <2>2. Alone'
    BY <1>1 DEF CoreInv, TypeOK, Alone, Past, MayBeCancelled, Holds, Cancelled, Goto, stateVars, wireVars
  <2>3. WatcherOK' /\ ReaderOK'
    BY <1>1 DEF CoreInv, TypeOK, Alone, WatcherOK, ReaderOK, AfterHandoff, Watched, Cancelled, Goto, stateVars,
       watchVars
  <2> QED BY <2>1, <2>2, <2>3 DEF CoreInv
<1>2. CASE /\ pc[t] = "shut" \/ (pc[t] = "handle" /\ closed) \/ pc[t] = "join"
           /\ Goto(t, "release") /\ loc' = [loc EXCEPT ![t].cancelled = TRUE]
  <2> DEFINE r == [loc[t] EXCEPT !.cancelled = TRUE]
  <2>1. r \in Locals /\ r.has = loc[t].has
    BY DEF CoreInv, ItemsOK, Locals
  <2>2. loc' = [loc EXCEPT ![t] = r]
    BY <1>2 DEF CoreInv, ItemsOK
  <2> HIDE DEF r
  <2>3. /\ loc' \in [Tasks -> Locals]
        /\ \A u \in Tasks : loc'[u].has = loc[u].has /\ (u # t => loc'[u] = loc[u])
    BY <2>1, <2>2, LocalsKept DEF CoreInv, ItemsOK
  <2>4. TypeOK' /\ ItemsOK'
    BY <1>2, <2>3 DEF CoreInv, TypeOK, ItemsOK, Places, Cancelled, Goto, stateVars, watchVars, closeVars, wireVars
  <2>5. Alone'
    BY <1>2, <2>3 DEF CoreInv, TypeOK, Alone, Past, MayBeCancelled, Holds, Cancelled, Goto, stateVars, wireVars
  <2>6. WatcherOK' /\ ReaderOK'
    BY <1>2, <2>3 DEF CoreInv, TypeOK, Alone, WatcherOK, ReaderOK, AfterHandoff, Watched, Cancelled, Goto,
       stateVars, watchVars
  <2> QED BY <2>4, <2>5, <2>6 DEF CoreInv
<1> QED BY <1>1, <1>2 DEF Cancelled

\* The watcher's one read.
LEMMA WatchReadCore == ASSUME CoreInv, WatchRead PROVE CoreInv'
<1>1. wpc = "read" /\ wpc' = "got"
  BY DEF WatchRead
<1>2. inb' \in Seq(Item) /\ wgot' \in Seq(Item)
  <2>1. inb \in Seq(Item) /\ <<Broken>> \in Seq(Item)
    BY DEF CoreInv, ItemsOK, Broken, Item
  <2> QED BY <2>1, ReadTypes DEF WatchRead
<1>3. TypeOK' /\ ItemsOK'
  BY <1>1, <1>2 DEF CoreInv, TypeOK, ItemsOK, WatchRead, stateVars, taskVars, closeVars
<1>4. Alone'
  BY DEF CoreInv, Alone, Holds, WatchRead, stateVars, taskVars
<1>5. WatcherOK' /\ ReaderOK'
  BY <1>1 DEF CoreInv, WatcherOK, ReaderOK, Watched, WatchRead, stateVars, taskVars
<1> QED BY <1>3, <1>4, <1>5 DEF CoreInv

\* watcher_completed: the read goes to the exchange, or closes the connection.
LEMMA WatcherCompletedCore == ASSUME CoreInv, WatcherCompleted PROVE CoreInv'
<1>1. /\ wpc = "got" /\ slot # "none" /\ slot' = "completed" /\ wgot' = <<>>
      /\ wgot \in Seq(Item)
  BY DEF CoreInv, ItemsOK, WatcherOK, WatcherCompleted
<1>2. \/ ~active /\ closed /\ wpc' = "done" /\ UNCHANGED <<data, closed, tr, sock>>
      \/ active /\ data' = wgot /\ wpc' = "done" /\ UNCHANGED <<closed, tr, sock>>
      \/ ~active /\ wpc' = "done" /\ CloseNow /\ UNCHANGED data
      \/ ~active /\ wpc' = "poison" /\ UNCHANGED <<data, closed, tr, sock>>
  BY <1>1 DEF WatcherCompleted
<1>3. ItemsOK'
  BY <1>1, <1>2, EmptySeq DEF CoreInv, ItemsOK, WatcherCompleted, taskVars
<1>4. TypeOK'
  <2>1. CASE CloseNow
    BY <1>1, <1>2, <2>1 DEF CoreInv, TypeOK, WatcherCompleted, CloseNow, taskVars, closeVars
  <2>2. CASE UNCHANGED <<closed, tr, sock>>
    BY <1>1, <1>2, <2>2 DEF CoreInv, TypeOK, WatcherCompleted, taskVars, closeVars
  <2> QED BY <1>2, <2>1, <2>2
<1>5. Alone'
  BY <1>2 DEF CoreInv, Alone, Holds, WatcherCompleted, CloseNow, taskVars
<1>6. WatcherOK' /\ ReaderOK'
  BY <1>1, <1>2 DEF CoreInv, TypeOK, WatcherOK, ReaderOK, AfterHandoff, Watched, WatcherCompleted, CloseNow,
     taskVars
<1> QED BY <1>3, <1>4, <1>5, <1>6 DEF CoreInv

\* What the peer sends arrives.
LEMMA PeerCore == ASSUME CoreInv, Peer PROVE CoreInv'
<1>1. PICK i \in Item : inb' = Append(inb, i)
  BY DEF Peer, PeerSendsPart, PeerResponds, PeerSendsBody, PeerSendsStray, PeerCloses, Part, ResponseHead,
     Data, Stray, Eof, Item
<1>2. inb' \in Seq(Item)
  BY <1>1, AppendProperties DEF CoreInv, ItemsOK
<1>3. asked' \in [Tasks -> {"none", "any", "head", "data"}]
  BY DEF CoreInv, TypeOK, Peer, PeerSendsPart, PeerResponds, PeerSendsBody, PeerSendsStray, PeerCloses
<1>4. UNCHANGED <<stateVars, watchVars, evt, taskVars, closeVars, sock>>
  BY DEF Peer, PeerSendsPart, PeerResponds, PeerSendsBody, PeerSendsStray, PeerCloses
<1> QED BY <1>2, <1>3, <1>4 DEF CoreInv, TypeOK, ItemsOK, Alone, Holds, WatcherOK, ReaderOK, Watched, stateVars,
      watchVars, taskVars, closeVars

\* The initial connection is watched.
LEMMA InitCore == ASSUME Init PROVE CoreInv
<1>1. NoLocals \in Locals
  BY EmptySeq DEF NoLocals, Locals
<1>2. TypeOK
  BY H1ClientConstants DEF Init, TypeOK, Places
<1>3. ItemsOK
  BY <1>1, EmptySeq DEF Init, ItemsOK
<1>4. Alone /\ WatcherOK /\ ReaderOK
  BY DEF Init, NoLocals, Alone, Holds, Past, MayBeCancelled, WatcherOK, ReaderOK, Watched, AfterHandoff
<1> QED BY <1>2, <1>3, <1>4 DEF CoreInv

\* The slot and its event.
LEMMA AcquireCore ==
    ASSUME CoreInv, NEW t \in Tasks, Acquire(t) PROVE CoreInv'
<1>1. CASE ClearIdleEvt(t)
  <2>1. TypeOK' /\ ItemsOK'
    BY <1>1 DEF CoreInv, TypeOK, ItemsOK, Places, ClearIdleEvt, Goto, stateVars, watchVars,
       closeVars, wireVars
  <2>2. Alone'
    BY <1>1 DEF CoreInv, TypeOK, Alone, Past, MayBeCancelled, Holds, ClearIdleEvt, Goto,
       stateVars, watchVars, closeVars, wireVars
  <2>3. WatcherOK' /\ ReaderOK'
    BY <1>1 DEF CoreInv, TypeOK, WatcherOK, ReaderOK, AfterHandoff, Watched, ClearIdleEvt, Goto,
       stateVars, watchVars, closeVars, wireVars
  <2> QED BY <2>1, <2>2, <2>3 DEF CoreInv
<1>2. CASE WaitIdleEvt(t)
  <2>1. TypeOK' /\ ItemsOK'
    BY <1>2 DEF CoreInv, TypeOK, ItemsOK, Places, WaitIdleEvt, Goto, stateVars, watchVars,
       closeVars, wireVars
  <2>2. Alone'
    BY <1>2 DEF CoreInv, TypeOK, Alone, Past, MayBeCancelled, Holds, WaitIdleEvt, Goto, stateVars,
       watchVars, closeVars, wireVars
  <2>3. WatcherOK' /\ ReaderOK'
    BY <1>2 DEF CoreInv, TypeOK, WatcherOK, ReaderOK, AfterHandoff, Watched, WaitIdleEvt, Goto,
       stateVars, watchVars, closeVars, wireVars
  <2> QED BY <2>1, <2>2, <2>3 DEF CoreInv
<1>3. CASE EndExchange(t)
  <2>1. TypeOK' /\ ItemsOK'
    BY <1>3 DEF CoreInv, TypeOK, ItemsOK, Places, EndExchange, Goto, watchVars, closeVars,
       wireVars
  <2>2. Alone'
    BY <1>3 DEF CoreInv, TypeOK, Alone, Past, MayBeCancelled, Holds, EndExchange, Goto, watchVars,
       closeVars, wireVars
  <2>3. WatcherOK' /\ ReaderOK'
    BY <1>3 DEF CoreInv, TypeOK, WatcherOK, ReaderOK, AfterHandoff, Watched, EndExchange, Goto,
       watchVars, closeVars, wireVars
  <2> QED BY <2>1, <2>2, <2>3 DEF CoreInv
<1>4. CASE SetIdleEvt(t)
  BY <1>4 DEF CoreInv, TypeOK, ItemsOK, Alone, WatcherOK, ReaderOK, Places, Past, MayBeCancelled,
     Holds, AfterHandoff, Watched, SetIdleEvt, stateVars, watchVars, closeVars, wireVars
<1> QED BY <1>1, <1>2, <1>3, <1>4, TryBeginCore, OverCore DEF Acquire

\* send_request up to the spawn of the writer.
LEMMA SendCore ==
    ASSUME CoreInv, NEW t \in Tasks, Send(t) PROVE CoreInv'
<1>1. CASE Writable(t)
  BY <1>1 DEF CoreInv, TypeOK, ItemsOK, Alone, WatcherOK, ReaderOK, Places, Past, MayBeCancelled,
     Holds, AfterHandoff, Watched, Writable, Goto, stateVars, watchVars, closeVars, wireVars
<1>2. CASE ReadableFirst(t)
  BY <1>2 DEF CoreInv, TypeOK, ItemsOK, Alone, WatcherOK, ReaderOK, Places, Past, MayBeCancelled,
     Holds, AfterHandoff, Watched, ReadableFirst, Goto, stateVars, watchVars, closeVars, wireVars
<1>3. CASE ExchangeStarted(t)
  BY <1>3 DEF CoreInv, TypeOK, ItemsOK, Alone, WatcherOK, ReaderOK, Places, Past, MayBeCancelled,
     Holds, AfterHandoff, Watched, ExchangeStarted, Goto, watchVars, closeVars, wireVars
<1>4. CASE SpawnWriter(t)
  BY <1>4 DEF CoreInv, TypeOK, ItemsOK, Alone, WatcherOK, ReaderOK, Places, Past, MayBeCancelled,
     Holds, AfterHandoff, Watched, SpawnWriter, Goto, stateVars, watchVars, closeVars
<1>5. CASE StoreWriter(t)
  <2>1. TypeOK' /\ ItemsOK'
    BY <1>5 DEF CoreInv, TypeOK, ItemsOK, Places, StoreWriter, Goto, watchVars, closeVars,
       wireVars
  <2>2. Alone'
    BY <1>5 DEF CoreInv, TypeOK, Alone, Past, MayBeCancelled, Holds, StoreWriter, Goto, watchVars,
       closeVars, wireVars
  <2>3. WatcherOK' /\ ReaderOK'
    BY <1>5 DEF CoreInv, TypeOK, WatcherOK, ReaderOK, AfterHandoff, Watched, StoreWriter, Goto,
       watchVars, closeVars, wireVars
  <2> QED BY <2>1, <2>2, <2>3 DEF CoreInv
<1>6. CASE RefusedJoined(t)
  BY <1>6 DEF CoreInv, TypeOK, ItemsOK, Alone, WatcherOK, ReaderOK, Places, Past, MayBeCancelled,
     Holds, AfterHandoff, Watched, RefusedJoined, Goto, stateVars, watchVars, closeVars, wireVars
<1> QED BY <1>1, <1>2, <1>3, <1>4, <1>5, <1>6, BeginSendCore, PeekCore DEF Send

\* The response.
LEMMA ReceiveCore ==
    ASSUME CoreInv, NEW t \in Tasks, Receive(t) PROVE CoreInv'
<1>1. CASE Detach(t)
  <2>1. TypeOK' /\ ItemsOK'
    BY <1>1 DEF CoreInv, TypeOK, ItemsOK, Places, Detach, Goto, watchVars, closeVars, wireVars
  <2>2. Alone'
    BY <1>1 DEF CoreInv, TypeOK, Alone, Past, MayBeCancelled, Holds, Detach, Goto, watchVars,
       closeVars, wireVars
  <2>3. WatcherOK' /\ ReaderOK'
    BY <1>1 DEF CoreInv, TypeOK, WatcherOK, ReaderOK, AfterHandoff, Watched, Detach, Goto,
       watchVars, closeVars, wireVars
  <2> QED BY <2>1, <2>2, <2>3 DEF CoreInv
<1> QED BY <1>1, TakeHandoffCore, ReadHeadCore, ReadBodyCore, FinishCore DEF Receive

\* release_slot and the failure path.
LEMMA ReleaseSlotCore ==
    ASSUME CoreInv, NEW t \in Tasks, ReleaseSlot(t) PROVE CoreInv'
<1>1. CASE Shutdown(t)
  BY <1>1 DEF CoreInv, TypeOK, ItemsOK, Alone, WatcherOK, ReaderOK, Places, Past, MayBeCancelled,
     Holds, AfterHandoff, Watched, Shutdown, Goto, stateVars, watchVars, closeVars, wireVars
<1>2. CASE SpawnWatcher(t)
  BY <1>2 DEF CoreInv, TypeOK, ItemsOK, Alone, WatcherOK, ReaderOK, Places, Past, MayBeCancelled,
     Holds, AfterHandoff, Watched, SpawnWatcher, Goto, stateVars, closeVars, wireVars
<1>3. CASE StoreHandle(t)
  BY <1>3 DEF CoreInv, TypeOK, ItemsOK, Alone, WatcherOK, ReaderOK, Places, Past, MayBeCancelled,
     Holds, AfterHandoff, Watched, StoreHandle, Goto, stateVars, watchVars, closeVars, wireVars
<1>4. CASE JoinWriter(t)
  BY <1>4 DEF CoreInv, TypeOK, ItemsOK, Alone, WatcherOK, ReaderOK, Places, Past, MayBeCancelled,
     Holds, AfterHandoff, Watched, JoinWriter, Goto, stateVars, watchVars, closeVars, wireVars
<1>5. CASE Fail(t)
  <2>1. TypeOK' /\ ItemsOK'
    BY <1>5, ZenonT(30) DEF CoreInv, TypeOK, ItemsOK, Places, Fail, Goto, CloseNow, watchVars, closeVars
  <2>2. Alone'
    BY <1>5 DEF CoreInv, TypeOK, Alone, Past, MayBeCancelled, Holds, Fail, Goto, CloseNow,
       watchVars, closeVars
  <2>3. WatcherOK' /\ ReaderOK'
    BY <1>5 DEF CoreInv, TypeOK, WatcherOK, ReaderOK, AfterHandoff, Watched, Fail, Goto, CloseNow,
       watchVars, closeVars
  <2> QED BY <2>1, <2>2, <2>3 DEF CoreInv
<1>6. CASE JoinWatcher(t)
  BY <1>6 DEF CoreInv, TypeOK, ItemsOK, Alone, WatcherOK, ReaderOK, Places, Past, MayBeCancelled,
     Holds, AfterHandoff, Watched, JoinWatcher, Goto, stateVars, watchVars, closeVars, wireVars
<1> QED BY <1>1, <1>2, <1>3, <1>4, <1>5, <1>6, FinishExchangeCore, ArmWatcherCore, TakeWriterCore DEF ReleaseSlot

\* The writer of a request.
LEMMA WriteCore ==
    ASSUME CoreInv, NEW t \in Tasks, Write(t) PROVE CoreInv'
<1>1. CASE WriterSent(t)
  BY <1>1 DEF CoreInv, TypeOK, ItemsOK, Alone, WatcherOK, ReaderOK, Places, Past, MayBeCancelled,
     Holds, AfterHandoff, Watched, WriterSent, watchVars, closeVars, wireVars
<1>2. CASE WriterStopped(t)
  BY <1>2 DEF CoreInv, TypeOK, ItemsOK, Alone, WatcherOK, ReaderOK, Places, Past, MayBeCancelled,
     Holds, AfterHandoff, Watched, WriterStopped, stateVars, watchVars, closeVars, wireVars
<1>3. CASE WriterBodyError(t)
  <2>1. TypeOK' /\ ItemsOK'
    BY <1>3 DEF CoreInv, TypeOK, ItemsOK, Places, WriterBodyError, CloseNow, watchVars, closeVars
  <2>2. Alone'
    BY <1>3 DEF CoreInv, TypeOK, Alone, Past, MayBeCancelled, Holds, WriterBodyError, CloseNow,
       watchVars, closeVars
  <2>3. WatcherOK' /\ ReaderOK'
    BY <1>3 DEF CoreInv, TypeOK, WatcherOK, ReaderOK, AfterHandoff, Watched, WriterBodyError,
       CloseNow, watchVars, closeVars
  <2> QED BY <2>1, <2>2, <2>3 DEF CoreInv
<1>4. CASE WriterDone(t)
  BY <1>4 DEF CoreInv, TypeOK, ItemsOK, Alone, WatcherOK, ReaderOK, Places, Past, MayBeCancelled,
     Holds, AfterHandoff, Watched, WriterDone, stateVars, watchVars, closeVars, wireVars
<1> QED BY <1>1, <1>2, <1>3, <1>4 DEF Write

\* The idle watcher.
LEMMA WatchCore ==
    ASSUME CoreInv, Watch PROVE CoreInv'
<1>1. CASE WatchStart
  BY <1>1 DEF CoreInv, TypeOK, ItemsOK, Alone, WatcherOK, ReaderOK, Places, Past, MayBeCancelled,
     Holds, AfterHandoff, Watched, WatchStart, stateVars, taskVars, closeVars, wireVars
<1>2. CASE WatchPoison
  BY <1>2 DEF CoreInv, TypeOK, ItemsOK, Alone, WatcherOK, ReaderOK, Places, Past, MayBeCancelled,
     Holds, AfterHandoff, Watched, WatchPoison, CloseNow, taskVars, closeVars
<1>3. CASE WatchDone
  BY <1>3 DEF CoreInv, TypeOK, ItemsOK, Alone, WatcherOK, ReaderOK, Places, Past, MayBeCancelled,
     Holds, AfterHandoff, Watched, WatchDone, stateVars, taskVars, closeVars, wireVars
<1> QED BY <1>1, <1>2, <1>3, WatchReadCore, WatcherCompletedCore DEF Watch

\* Every step keeps the reader's invariant.
LEMMA NextCore == ASSUME CoreInv, [Next]_vars PROVE CoreInv'
<1>1. ASSUME NEW t \in Tasks, Begin(t) PROVE CoreInv'
  BY <1>1 DEF CoreInv, TypeOK, ItemsOK, Alone, WatcherOK, ReaderOK, Places, Past, MayBeCancelled,
     Holds, AfterHandoff, Watched, Begin, Goto, stateVars, watchVars, closeVars, wireVars
<1>2. ASSUME NEW t \in Tasks, Run(t) PROVE CoreInv'
  BY <1>2, AcquireCore, SendCore, ReceiveCore, ReleaseSlotCore DEF Run
<1>3. CASE MarkClosed
  BY <1>3, ZenonT(30) DEF CoreInv, TypeOK, ItemsOK, Alone, WatcherOK, ReaderOK, Places, Past, MayBeCancelled,
     Holds, AfterHandoff, Watched, MarkClosed, CloseNow, watchVars, taskVars
<1>4. CASE CloseJoined
  BY <1>4 DEF CoreInv, TypeOK, ItemsOK, Alone, WatcherOK, ReaderOK, Places, Past, MayBeCancelled,
     Holds, AfterHandoff, Watched, CloseJoined, stateVars, watchVars, taskVars, wireVars
<1>5. CASE UNCHANGED vars
  BY <1>5 DEF CoreInv, TypeOK, ItemsOK, Alone, WatcherOK, ReaderOK, Places, Past, MayBeCancelled,
     Holds, AfterHandoff, Watched, vars, stateVars, watchVars, taskVars, closeVars, wireVars
<1> QED BY <1>1, <1>2, <1>3, <1>4, <1>5, DropBodyCore, CancelledCore, WriteCore, WatchCore, PeerCore DEF Next, Quiet

(***************************************************************************)
(* The two theorems that need no account of the wire.                       *)
(***************************************************************************)

\* At most one task reads, and only while no watcher does.
LEMMA CoreReads == ASSUME CoreInv PROVE ReadInterest
<1> DEFINE Reads(t) == pc[t] = "head" \/ (pc[t] = "body" /\ loc[t].rest = <<>>)
           readers == {t \in Tasks : Reads(t)}
<1>1. TypeOK /\ IdleWatched
  BY DEF CoreInv, ReaderOK, Watched, IdleWatched, Reusable, TypeOK
<1>2. \A t, u \in readers : t = u
  BY DEF CoreInv, Alone, Past
<1>3. readers # {} => wpc = "none"
  BY DEF CoreInv, ReaderOK, WatcherOK, AfterHandoff
<1>4. readers = {} \/ \E t \in Tasks : readers = {t}
  <2> HIDE DEF Reads
  <2> QED BY <1>2
<1>5. Cardinality(readers) \in {0, 1} /\ (Cardinality(readers) = 1 => wpc = "none")
  <2> HIDE DEF readers
  <2>1. CASE readers = {}
    BY <2>1, FS_EmptySet
  <2>2. ASSUME NEW t \in Tasks, readers = {t} PROVE Cardinality(readers) = 1 /\ wpc = "none"
    BY <1>3, <2>2, FS_Singleton
  <2> QED BY <1>4, <2>1, <2>2
<1>6. OneReader
  <2>1. wpc = "none" => wpc # "read"
    BY Zenon
  <2> HIDE DEF readers
  <2>2. Cardinality(readers) + (IF wpc = "read" THEN 1 ELSE 0) <= 1
    BY <1>5, <2>1
  <2> QED BY <2>2 DEF OneReader, readers
<1> QED BY <1>1, <1>6 DEF ReadInterest

\* The transport has one reader at most, and an idle connection is always watched (the
\* hand-over of _read_head, release_slot and the idle watcher).
THEOREM ClientReaders == Spec => []ReadInterest
<1>1. Init => CoreInv
  BY InitCore
<1>2. CoreInv /\ [Next]_vars => CoreInv'
  BY NextCore
<1>3. CoreInv => ReadInterest
  BY CoreReads
<1> QED BY <1>1, <1>2, <1>3, PTL DEF Spec

\* The places of a task that sleeps, or that will wake the sleepers.
Sleepers == {"wait", "parked"}
Wakers == {"wake", "try2"}

\* A task that moves inside its exchange strands nobody.
LEMMA MoveWakes ==
    ASSUME CoreInv, WakeOK, NoStrandedWaiter, UNCHANGED <<busy, evt>>,
           NEW t \in Tasks, NEW p, pc[t] \notin Wakers, p \notin Sleepers,
           pc' = [pc EXCEPT ![t] = p]
    PROVE  WakeOK' /\ NoStrandedWaiter'
BY DEF CoreInv, TypeOK, WakeOK, NoStrandedWaiter, Wakers, Sleepers

\* An exchange moves that way from the claim of the slot to its release.
LEMMA SendMoves ==
    ASSUME NEW t \in Tasks, Send(t)
    PROVE  /\ UNCHANGED <<busy, evt>> /\ pc[t] \notin Wakers
           /\ \E p : p \notin Sleepers /\ pc' = [pc EXCEPT ![t] = p]
BY DEF Send, BeginSend, Peek, Writable, ReadableFirst, ExchangeStarted, SpawnWriter, StoreWriter,
   RefusedJoined, Goto, Wakers, Sleepers, stateVars

\* A head that is parsed leads to the rest of the exchange.
LEMMA ParsedAwake ==
    ASSUME NEW t \in Tasks, NEW items, Parsed(t, items)
    PROVE  \E p : p \notin Sleepers /\ pc' = [pc EXCEPT ![t] = p]
BY Zenon DEF Parsed, Goto, Sleepers

\* So does the response.
LEMMA ReceiveMoves ==
    ASSUME NEW t \in Tasks, Receive(t) \/ DropBody(t)
    PROVE  /\ UNCHANGED <<busy, evt>> /\ pc[t] \notin Wakers
           /\ \E p : p \notin Sleepers /\ pc' = [pc EXCEPT ![t] = p]
BY ParsedAwake DEF Receive, TakeHandoff, ReadHead, ReadBody, DropBody, Finish, Detach, Goto, Wakers,
   Sleepers, stateVars

\* So do the release and the failure path.
LEMMA ReleaseMoves ==
    ASSUME NEW t \in Tasks, ReleaseSlot(t)
    PROVE  /\ UNCHANGED <<busy, evt>> /\ pc[t] \notin Wakers
           /\ \E p : p \notin Sleepers /\ pc' = [pc EXCEPT ![t] = p]
BY DEF ReleaseSlot, FinishExchange, Shutdown, ArmWatcher, SpawnWatcher, StoreHandle, TakeWriter, JoinWriter,
   Fail, JoinWatcher, Goto, Wakers, Sleepers, stateVars

\* The slot itself, and its event.
LEMMA AcquireWakes ==
    ASSUME CoreInv, WakeOK, NoStrandedWaiter, NEW t \in Tasks, Acquire(t)
    PROVE  WakeOK' /\ NoStrandedWaiter'
<1>1. CASE TryBegin(t)
  BY <1>1 DEF CoreInv, TypeOK, WakeOK, NoStrandedWaiter, TryBegin, Goto
<1>2. CASE ClearIdleEvt(t)
  BY <1>2 DEF CoreInv, TypeOK, WakeOK, NoStrandedWaiter, ClearIdleEvt, Goto, stateVars
<1>3. CASE WaitIdleEvt(t)
  BY <1>3 DEF CoreInv, TypeOK, WakeOK, NoStrandedWaiter, WaitIdleEvt, Goto, stateVars
<1>4. CASE EndExchange(t)
  BY <1>4 DEF CoreInv, TypeOK, Alone, Holds, WakeOK, NoStrandedWaiter, EndExchange, Goto
<1>5. CASE SetIdleEvt(t)
  BY <1>5 DEF CoreInv, TypeOK, WakeOK, NoStrandedWaiter, SetIdleEvt, stateVars
<1>6. CASE Over(t)
  BY <1>6, MoveWakes DEF Over, Goto, Wakers, Sleepers, stateVars
<1> QED BY <1>1, <1>2, <1>3, <1>4, <1>5, <1>6 DEF Acquire

\* Every step keeps the sleepers in somebody's care.
LEMMA NextWakes ==
    ASSUME CoreInv, WakeOK, NoStrandedWaiter, [Next]_vars
    PROVE  WakeOK' /\ NoStrandedWaiter'
<1>1. ASSUME NEW t \in Tasks, Begin(t) PROVE WakeOK' /\ NoStrandedWaiter'
  BY <1>1, MoveWakes DEF Begin, Goto, Wakers, Sleepers, stateVars
<1>2. ASSUME NEW t \in Tasks, Run(t) \/ DropBody(t) PROVE WakeOK' /\ NoStrandedWaiter'
  <2>1. CASE Acquire(t)
    BY <2>1, AcquireWakes
  <2>2. CASE Send(t)
    BY <2>2, SendMoves, MoveWakes, Zenon
  <2>3. CASE Receive(t) \/ DropBody(t)
    BY <2>3, ReceiveMoves, MoveWakes, Zenon
  <2>4. CASE ReleaseSlot(t)
    BY <2>4, ReleaseMoves, MoveWakes, Zenon
  <2> QED BY <1>2, <2>1, <2>2, <2>3, <2>4 DEF Run
<1>3. ASSUME NEW t \in Tasks, Cancelled(t) PROVE WakeOK' /\ NoStrandedWaiter'
  <2>1. \/ pc' = [pc EXCEPT ![t] = "ended"] \/ pc' = [pc EXCEPT ![t] = "fail"]
        \/ pc' = [pc EXCEPT ![t] = "release"]
    BY <1>3 DEF Cancelled, Goto
  <2>2. UNCHANGED <<busy, evt>> /\ pc[t] \notin Wakers
    BY <1>3 DEF Cancelled, Wakers, stateVars
  <2> QED BY <2>1, <2>2, MoveWakes DEF Sleepers
<1>4. CASE UNCHANGED <<busy, evt, pc>>
  BY <1>4 DEF WakeOK, NoStrandedWaiter
<1>5. ASSUME NEW t \in Tasks, Write(t) PROVE UNCHANGED <<busy, evt, pc>>
  BY <1>5 DEF Write, WriterSent, WriterStopped, WriterBodyError, WriterDone, stateVars
<1>6. Watch \/ MarkClosed \/ CloseJoined => UNCHANGED <<busy, evt, pc>>
  BY DEF Watch, WatchStart, WatchRead, WatcherCompleted, WatchPoison, WatchDone, MarkClosed, CloseJoined,
     stateVars, taskVars
<1>7. Peer => UNCHANGED <<busy, evt, pc>>
  BY DEF Peer, PeerSendsPart, PeerResponds, PeerSendsBody, PeerSendsStray, PeerCloses, stateVars, taskVars
<1>8. Quiet \/ UNCHANGED vars => UNCHANGED <<busy, evt, pc>>
  BY DEF Quiet, vars, stateVars, taskVars
<1> QED BY <1>1, <1>2, <1>3, <1>4, <1>5, <1>6, <1>7, <1>8 DEF Next

\* No task sleeps on a free slot, however many wait for it (_acquire, wait_idle).
THEOREM ClientStrandsNobody == Spec => []NoStrandedWaiter
<1> DEFINE Awake == CoreInv /\ WakeOK /\ NoStrandedWaiter
<1>1. Init => Awake
  BY InitCore DEF Init, WakeOK, NoStrandedWaiter
<1>2. Awake /\ [Next]_vars => Awake'
  BY NextCore, NextWakes
<1>3. Awake => NoStrandedWaiter
  OBVIOUS
<1> QED BY <1>1, <1>2, <1>3, PTL DEF Spec

(***************************************************************************)
(* Exchanges apart: the items of an answer.                                 *)
(***************************************************************************)

\* Where one part of an answer ends the next begins.
LEMMA BetweenSame ==
    ASSUME NEW t, NEW p \in Owed, NEW r \in Owed
    PROVE  <<>> \in Between(t, p, r) <=> p = r
BY DEF Between, Owed

\* All items of an answer are t's.
LEMMA BetweenOwn ==
    ASSUME NEW t, NEW p \in Owed, NEW r \in Owed, NEW s \in Between(t, p, r), s # <<>>
    PROVE  s[1].of = t /\ s[1] # Eof /\ s[1] # Broken
BY DEF Between, Owed, Part, ResponseHead, Data, Eof, Broken

\* A sequence is known by what is appended to what.
LEMMA AppendIs ==
    ASSUME NEW S, NEW s \in Seq(S), NEW e \in S, NEW u \in Seq(S),
           Len(u) = Len(s) + 1, u[Len(s) + 1] = e, \A i \in 1..Len(s) : u[i] = s[i]
    PROVE  Append(s, e) = u
<1>1. /\ Append(s, e) \in Seq(S) /\ Len(Append(s, e)) = Len(s) + 1 /\ Len(s) \in Nat
      /\ Append(s, e)[Len(s) + 1] = e
      /\ \A i \in 1..Len(s) : Append(s, e)[i] = s[i]
  BY AppendProperties
<1>2. \A i \in 1..Len(s) + 1 : i \in 1..Len(s) \/ i = Len(s) + 1
  BY <1>1
<1>3. \A i \in 1..Len(u) : Append(s, e)[i] = u[i]
  BY <1>1, <1>2, Zenon
<1> QED BY <1>1, <1>3, SeqEqual, Zenon

\* Two items, and three.
LEMMA AppendTuples ==
    ASSUME NEW x, NEW y, NEW z
    PROVE  Append(<<x>>, y) = <<x, y>> /\ Append(<<x, y>>, z) = <<x, y, z>>
<1> DEFINE S == {x, y, z}
<1>1. /\ y \in S /\ z \in S /\ <<x>> \in Seq(S)
      /\ <<x, y>> \in Seq(S) /\ <<x, y, z>> \in Seq(S)
  OBVIOUS
<1>2. Append(<<x>>, y) = <<x, y>>
  <2>1. Len(<<x, y>>) = Len(<<x>>) + 1 /\ <<x, y>>[Len(<<x>>) + 1] = y
    OBVIOUS
  <2>2. \A i \in 1..Len(<<x>>) : <<x, y>>[i] = <<x>>[i]
    OBVIOUS
  <2> HIDE DEF S
  <2> QED BY <1>1, <2>1, <2>2, AppendIs, Zenon
<1>3. Append(<<x, y>>, z) = <<x, y, z>>
  <2>1. Len(<<x, y, z>>) = Len(<<x, y>>) + 1 /\ <<x, y, z>>[Len(<<x, y>>) + 1] = z
    OBVIOUS
  <2>2. \A i \in 1..Len(<<x, y>>) : <<x, y, z>>[i] = <<x, y>>[i]
    OBVIOUS
  <2> HIDE DEF S
  <2> QED BY <1>1, <2>1, <2>2, AppendIs, Zenon
<1> QED BY <1>2, <1>3

\* What the peer owes next continues what it sent.
LEMMA BetweenAppend ==
    ASSUME NEW t, NEW p \in Owed, NEW r \in Owed, NEW s \in Between(t, p, r)
    PROVE  /\ r = "any" => Append(s, Part(t)) \in Between(t, p, "head")
           /\ r \in {"any", "head"} =>
                /\ Append(s, ResponseHead(t, TRUE)) \in Between(t, p, "data")
                /\ Append(s, ResponseHead(t, FALSE)) \in Between(t, p, "none")
           /\ r = "data" => Append(s, Data(t)) \in Between(t, p, "none")
<1> DEFINE P == Part(t)
           H(b) == ResponseHead(t, b)
           D == Data(t)
<1>1. \A x : Append(<<>>, x) = <<x>>
  OBVIOUS
<1>2. \A x, y : Append(<<x>>, y) = <<x, y>>
  BY AppendTuples
<1>3. \A x, y, z : Append(<<x, y>>, z) = <<x, y, z>>
  BY AppendTuples
<1>4. r = "any" => p = "any" /\ s = <<>>
  BY DEF Between, Owed
<1>5. r = "head" => (p = "any" /\ s = <<P>>) \/ (p = "head" /\ s = <<>>)
  BY DEF Between, Owed
<1>6. r = "data" => \/ p = "any" /\ s \in {<<H(TRUE)>>, <<P, H(TRUE)>>}
                    \/ p = "head" /\ s = <<H(TRUE)>>
                    \/ p = "data" /\ s = <<>>
  BY DEF Between, Owed
<1> QED BY <1>1, <1>2, <1>3, <1>4, <1>5, <1>6, ZenonT(30) DEF Between, Owed

\* An item arrives on a stream that has not ended.
LEMMA ArrivalBeforeEnd ==
    ASSUME NEW items \in Seq(Item), NEW x \in Item, \A i \in 1..Len(items) : items[i] # Eof
    PROVE  /\ BeforeEnd(items) = items
           /\ BeforeEnd(Append(items, x)) = IF x = Eof THEN items ELSE Append(items, x)
<1>1. BeforeEnd(items) = items
  BY ElementOfSeq DEF BeforeEnd, Ended
<1>2. /\ Append(items, x) # <<>> /\ Len(Append(items, x)) = Len(items) + 1
      /\ Append(items, x)[Len(items) + 1] = x
  BY AppendProperties
<1>3. SubSeq(Append(items, x), 1, Len(items)) = items
  OBVIOUS
<1>4. Len(items) + 1 - 1 = Len(items)
  OBVIOUS
<1>5. Ended(Append(items, x)) <=> x = Eof
  BY <1>2, Zenon DEF Ended
<1>6. SubSeq(Append(items, x), 1, Len(Append(items, x)) - 1) = items
  <2> DEFINE a == Append(items, x)
  <2> HIDE DEF a
  <2>1. Len(a) = Len(items) + 1 /\ Len(items) \in Nat
    BY <1>2 DEF a
  <2>2. Len(a) - 1 = Len(items)
    BY <2>1
  <2>3. SubSeq(a, 1, Len(a) - 1) = items
    BY <1>3, <2>2, Zenon DEF a
  <2> QED BY <2>3 DEF a
<1>7. BeforeEnd(Append(items, x)) = IF x = Eof THEN items ELSE Append(items, x)
  <2>1. CASE x = Eof
    BY <1>5, <1>6, <2>1, Zenon DEF BeforeEnd
  <2>2. CASE x # Eof
    BY <1>5, <2>2, Zenon DEF BeforeEnd
  <2> QED BY <2>1, <2>2
<1> QED BY <1>1, <1>7

\* After a read the end is all that is left, and it holds nothing.
LEMMA LeftByRead ==
    ASSUME NEW items \in Seq(Item)
    PROVE  /\ FromEnd(items) \in {<<>>, <<Eof>>}
           /\ BeforeEnd(FromEnd(items)) = <<>>
           /\ BeforeEnd(<<>>) = <<>> /\ BeforeEnd(<<Eof>>) = <<>>
<1>1. BeforeEnd(<<>>) = <<>>
  BY DEF BeforeEnd, Ended
<1>2. SubSeq(<<Eof>>, 1, 0) = <<>>
  BY SubSeqEmpty
<1>3. BeforeEnd(<<Eof>>) = <<>>
  BY <1>2 DEF BeforeEnd, Ended
<1> QED BY <1>1, <1>3 DEF FromEnd

\* What arrived begins with what can be read of it; if nothing can, it is the end.
LEMMA BeforeEndFirst ==
    ASSUME NEW items \in Seq(Item), items # <<>>
    PROVE  /\ BeforeEnd(items) # <<>> => BeforeEnd(items)[1] = items[1]
           /\ BeforeEnd(items) = <<>> => items = <<Eof>>
<1>1. Len(items) \in Nat \ {0}
  BY EmptySeq
<1>2. CASE ~Ended(items)
  BY <1>2 DEF BeforeEnd
<1>3. CASE Ended(items) /\ Len(items) = 1
  <2>1. SubSeq(items, 1, 0) = <<>>
    BY SubSeqEmpty
  <2>2. items = <<Eof>>
    BY <1>3 DEF Ended
  <2> QED BY <1>3, <2>1, <2>2 DEF BeforeEnd
<1>4. CASE Ended(items) /\ Len(items) # 1
  <2>1. items[1] # Eof => BeforeEnd(items) # <<>>
    BY BeforeEndNotEmpty
  <2>2. \A i \in 1..Len(items) - 1 : items[i] \in Item
    BY <1>1, ElementOfSeq
  <2>3. Len(items) - 1 \in Int /\ 1 <= Len(items) - 1
    <3>1. \A n \in Nat \ {0} : n # 1 => n - 1 \in Int /\ 1 <= n - 1
      OBVIOUS
    <3> QED BY <1>1, <1>4, <3>1, Zenon
  <2>4. /\ Len(SubSeq(items, 1, Len(items) - 1)) = Len(items) - 1
        /\ \A i \in 1..Len(items) - 1 : SubSeq(items, 1, Len(items) - 1)[i] = items[1 + i - 1]
    BY <2>2, <2>3, SubSeqProperties
  <2>5. SubSeq(items, 1, Len(items) - 1)[1] = items[1]
    BY <2>3, <2>4
  <2>6. SubSeq(items, 1, Len(items) - 1) # <<>>
    <3>1. Len(<<>>) = 0 /\ Len(items) - 1 # 0
      BY <2>3
    <3> QED BY <2>4, <3>1, Zenon
  <2> QED BY <1>4, <2>5, <2>6 DEF BeforeEnd
<1> QED BY <1>2, <1>3, <1>4

\* The first of the items, and the rest.
LEMMA Tuples ==
    /\ \A x : <<x>>[1] = x /\ Len(<<x>>) = 1 /\ Tail(<<x>>) = <<>>
    /\ \A x, y : <<x, y>>[1] = x /\ Len(<<x, y>>) = 2 /\ Tail(<<x, y>>) = <<y>>
    /\ \A x, y, z : <<x, y, z>>[1] = x /\ Len(<<x, y, z>>) = 3 /\ Tail(<<x, y, z>>) = <<y, z>>
OBVIOUS

\* What is parsed, from the head's first item on.
FromHead(items) == IF items[1].kind = "part" THEN Tail(items) ELSE items

\* An answer is its first bytes only, or has a head, with or without its body.
LEMMA AnswerForms ==
    ASSUME NEW t, NEW p \in {"any", "head"}, NEW m \in Owed, NEW items \in Between(t, p, m), items # <<>>
    PROVE  \/ items = <<Part(t)>> /\ m = "head" /\ items[1].kind = "part" /\ Len(items) = 1
           \/ /\ ~(items[1].kind = "part" /\ Len(items) = 1)
              /\ \/ FromHead(items) = <<ResponseHead(t, TRUE)>> /\ m = "data"
                 \/ FromHead(items) = <<ResponseHead(t, TRUE), Data(t)>> /\ m = "none"
                 \/ FromHead(items) = <<ResponseHead(t, FALSE)>> /\ m = "none"
<1> DEFINE P == Part(t)
           T == ResponseHead(t, TRUE)
           F == ResponseHead(t, FALSE)
           D == Data(t)
<1>1. P.kind = "part" /\ T.kind = "head" /\ F.kind = "head" /\ "head" # "part" /\ 2 # 1 /\ 3 # 1
  BY DEF Part, ResponseHead
<1>2. \/ items = <<P>> /\ m = "head"
      \/ items \in {<<P, T>>, <<T>>} /\ m = "data"
      \/ items \in {<<P, T, D>>, <<T, D>>} /\ m = "none"
      \/ items \in {<<P, F>>, <<F>>} /\ m = "none"
  BY DEF Between, Owed
<1> HIDE DEF P, T, F, D
<1>3. CASE items = <<P>>
  BY <1>1, <1>2, <1>3, Tuples, Zenon DEF P
<1>4. CASE items = <<P, T>> /\ m = "data"
  <2>1. items[1] = P /\ Len(items) = 2 /\ Tail(items) = <<T>>
    BY <1>4, Tuples, Zenon
  <2>2. Len(items) # 1 /\ FromHead(items) = <<T>>
    BY <1>1, <2>1 DEF FromHead
  <2> QED BY <1>4, <2>2, Zenon DEF T
<1>5. CASE items = <<T>> /\ m = "data"
  BY <1>1, <1>5, Tuples, Zenon DEF FromHead, T
<1>6. CASE items = <<P, T, D>> /\ m = "none"
  <2>1. items[1] = P /\ Len(items) = 3 /\ Tail(items) = <<T, D>>
    BY <1>6, Tuples, Zenon
  <2>2. Len(items) # 1 /\ FromHead(items) = <<T, D>>
    BY <1>1, <2>1 DEF FromHead
  <2> QED BY <1>6, <2>2, Zenon DEF T, D
<1>7. CASE items = <<T, D>> /\ m = "none"
  BY <1>1, <1>7, Tuples, Zenon DEF FromHead, T, D
<1>8. CASE items = <<P, F>> /\ m = "none"
  <2>1. items[1] = P /\ Len(items) = 2 /\ Tail(items) = <<F>>
    BY <1>8, Tuples, Zenon
  <2>2. Len(items) # 1 /\ FromHead(items) = <<F>>
    BY <1>1, <2>1 DEF FromHead
  <2> QED BY <1>8, <2>2, Zenon DEF F
<1>9. CASE items = <<F>> /\ m = "none"
  BY <1>1, <1>9, Tuples, Zenon DEF FromHead, F
<1> QED BY <1>2, <1>3, <1>4, <1>5, <1>6, <1>7, <1>8, <1>9, Zenon

\* What is read begins an answer; what is left over is its rest.
LEMMA ParsedAnswer ==
    ASSUME CoreInv, NEW t \in Tasks, NEW p \in {"any", "head"}, NEW m \in Owed,
           NEW items \in Between(t, p, m), items # <<>>, Parsed(t, items)
    PROVE  /\ \A u \in Tasks \ {t} : loc'[u] = loc[u]
           /\ \/ pc' = [pc EXCEPT ![t] = "head"] /\ m = "head" /\ loc' = loc
              \/ /\ pc' = [pc EXCEPT ![t] = "body"]
                 /\ loc'[t].of = t /\ loc'[t].rest \in Between(t, "data", m)
              \/ /\ \E q \in {"finish", "detach"} : pc' = [pc EXCEPT ![t] = q]
                 /\ loc'[t].of = t /\ m = "none"
<1> DEFINE head == FromHead(items)
<1>1. CASE m = "head" /\ items[1].kind = "part" /\ Len(items) = 1
  BY <1>1 DEF Parsed, Goto
<1>2. CASE ~(items[1].kind = "part" /\ Len(items) = 1)
  <2> DEFINE nexts == IF head[1].body THEN {"body"} ELSE {"finish"} \cup ({"detach"} \cap scene)
  <2>1. PICK keep \in BOOLEAN, early \in BOOLEAN, sending \in BOOLEAN, next \in nexts :
          /\ loc' = [loc EXCEPT ![t].of = head[1].of, ![t].early = early,
                                ![t].rest = Tail(head), ![t].keep = keep,
                                ![t].sending = sending]
          /\ pc' = [pc EXCEPT ![t] = next]
    <3>1. PICK keep \in BOOLEAN, next \in nexts :
            /\ loc' = [loc EXCEPT ![t].of = head[1].of, ![t].early = (head[1].kind = "stray"),
                                  ![t].rest = Tail(head), ![t].keep = keep,
                                  ![t].sending = (next # "body")]
            /\ pc' = [pc EXCEPT ![t] = next]
      BY <1>2, Zenon DEF Parsed, Goto, FromHead
    <3> DEFINE early == head[1].kind = "stray"
               sending == next # "body"
    <3>2. early \in BOOLEAN /\ sending \in BOOLEAN
      BY Zenon
    <3>3. /\ loc' = [loc EXCEPT ![t].of = head[1].of, ![t].early = early,
                                ![t].rest = Tail(head), ![t].keep = keep,
                                ![t].sending = sending]
          /\ pc' = [pc EXCEPT ![t] = next]
      BY <3>1, Zenon
    <3> HIDE DEF nexts, head, early, sending
    <3> QED BY <3>2, <3>3, Zenon
  <2>2. \/ head = <<ResponseHead(t, TRUE)>> /\ m = "data"
        \/ head = <<ResponseHead(t, TRUE), Data(t)>> /\ m = "none"
        \/ head = <<ResponseHead(t, FALSE)>> /\ m = "none"
    BY <1>2, AnswerForms
  <2> HIDE DEF head
  <2>3. /\ head[1].of = t
        /\ head[1].body => Tail(head) \in Between(t, "data", m)
        /\ ~head[1].body => m = "none"
    <3>1. CASE head = <<ResponseHead(t, TRUE)>> /\ m = "data"
      <4>1. head[1] = ResponseHead(t, TRUE) /\ Tail(head) = <<>>
        BY <3>1, Tuples, Zenon
      <4> QED BY <3>1, <4>1 DEF ResponseHead, Between
    <3>2. CASE head = <<ResponseHead(t, TRUE), Data(t)>> /\ m = "none"
      <4>1. head[1] = ResponseHead(t, TRUE) /\ Tail(head) = <<Data(t)>>
        BY <3>2, Tuples, Zenon
      <4> QED BY <3>2, <4>1 DEF ResponseHead, Between
    <3>3. CASE head = <<ResponseHead(t, FALSE)>> /\ m = "none"
      <4>1. head[1] = ResponseHead(t, FALSE)
        BY <3>3, Tuples, Zenon
      <4> QED BY <3>3, <4>1 DEF ResponseHead
    <3> QED BY <2>2, <3>1, <3>2, <3>3
  <2>4. /\ loc'[t].of = head[1].of /\ loc'[t].rest = Tail(head)
        /\ \A u \in Tasks \ {t} : loc'[u] = loc[u]
    BY <2>1 DEF CoreInv, ItemsOK, Locals
  <2>5. CASE head[1].body
    BY <2>1, <2>3, <2>4, <2>5
  <2>6. CASE ~head[1].body
    BY <2>1, <2>3, <2>4, <2>6
  <2> QED BY <2>5, <2>6
<1> QED BY <1>1, <1>2, AnswerForms

(***************************************************************************)
(* Exchanges apart: one lemma per operation.                                *)
(***************************************************************************)

\* A step of the task whose exchange is under way is no business of the others'.
LEMMA OwnStep ==
    ASSUME CoreInv, AnswersOK, NEW t \in Tasks, pc[t] \in Past \/ (tr' => Holds(t)),
           UNCHANGED strays, tr' => tr /\ busy',
           \A u \in Tasks \ {t} : pc'[u] = pc[u] /\ loc'[u] = loc[u] /\ pc[u] \notin Past,
           AnswerOK(t)'
    PROVE  AnswersOK'
<1>1. ASSUME NEW u \in Tasks \ {t} PROVE AnswerOK(u)'
  <2>1. pc'[u] = pc[u] /\ loc'[u] = loc[u] /\ pc[u] \notin Past /\ (loc[u].of # None => loc[u].of = u)
    BY DEF AnswersOK, AnswerOK
  <2>2. tr' => ~Holds(u)
    BY <2>1 DEF CoreInv, Alone, Holds
  <2> QED BY <2>1, <2>2 DEF AnswerOK, Past, UnderWay, Holds
<1>2. strays' = 0 /\ (tr' /\ ~busy' => Fresh')
  BY DEF AnswersOK
<1> QED BY <1>1, <1>2 DEF AnswersOK

\* Nobody else is in an exchange.
LEMMA OthersOut ==
    ASSUME CoreInv, NEW t \in Tasks, pc[t] \in Past, NEW p, pc' = [pc EXCEPT ![t] = p]
    PROVE  /\ \A u \in Tasks \ {t} : pc'[u] = pc[u] /\ pc[u] \notin Past
           /\ pc'[t] = p /\ (tr => busy)
BY DEF CoreInv, TypeOK, Alone, Holds

\* Nothing owed, and nothing but the end behind what was read: the stream is fresh.
LEMMA Settled ==
    ASSUME ItemsOK, NEW t \in Tasks, NEW p \in Owed, BeforeEnd(inb) \in Between(t, p, asked[t]),
           p = "none", asked[t] \in Owed
    PROVE  asked[t] = "none" /\ inb \in {<<>>, <<Eof>>}
<1>1. asked[t] = "none" /\ BeforeEnd(inb) = <<>>
  BY DEF Between, Owed
<1> QED BY <1>1, BeforeEndFirst DEF ItemsOK

\* A read that begins an answer leaves the exchange with what the answer still lacks.
LEMMA AnswerTaken ==
    ASSUME CoreInv, CoreInv', AnswersOK, NEW t \in Tasks, pc[t] \in {"handoff", "head"},
           NEW p \in {"any", "head"}, NEW m \in Owed, NEW items \in Between(t, p, m), items # <<>>,
           Parsed(t, items), BeforeEnd(inb') \in Between(t, m, asked[t]),
           UNCHANGED <<strays, tr, busy, asked>>, data' = <<>>, wgot' = <<>>
    PROVE  AnswersOK'
<1>1. /\ pc[t] \in Past /\ (loc[t].of # None => loc[t].of = t)
      /\ \A u \in Tasks \ {t} : asked[u] = "none"
  BY DEF AnswersOK, AnswerOK, Past, UnderWay
<1>2. asked[t] \in Owed /\ None \notin Tasks
  BY H1ClientConstants DEF CoreInv, TypeOK, Owed
<1>3. \A u \in Tasks \ {t} : loc'[u] = loc[u]
  BY ParsedAnswer
<1>4. CASE pc' = [pc EXCEPT ![t] = "head"] /\ m = "head" /\ loc' = loc
  <2>1. pc'[t] = "head" /\ loc'[t] = loc[t]
    BY <1>4 DEF CoreInv, TypeOK
  <2>2. <<>> \in Between(t, "head", "head") /\ "head" \in Owed
    BY BetweenSame DEF Owed
  <2>3. Continues(t, "head", <<>>)'
    BY <1>4, <2>2 DEF Continues
  <2>4. AnswerOK(t)'
    BY <1>1, <2>1, <2>3 DEF AnswerOK, UnderWay
  <2> QED BY <1>1, <1>3, <1>4, <2>4, OthersOut, OwnStep
<1>5. CASE /\ pc' = [pc EXCEPT ![t] = "body"]
           /\ loc'[t].of = t /\ loc'[t].rest \in Between(t, "data", m)
  <2>1. pc'[t] = "body"
    BY <1>5 DEF CoreInv, TypeOK
  <2>2. Continues(t, "data", loc[t].rest)'
    BY <1>5 DEF Continues
  <2>3. AnswerOK(t)'
    BY <1>1, <1>5, <2>1, <2>2 DEF AnswerOK, UnderWay
  <2> QED BY <1>1, <1>3, <1>5, <2>3, OthersOut, OwnStep
<1>6. ASSUME NEW q \in {"finish", "detach"}, pc' = [pc EXCEPT ![t] = q],
             loc'[t].of = t, m = "none"
      PROVE  AnswersOK'
  <2>1. pc'[t] = q
    BY <1>6 DEF CoreInv, TypeOK
  <2>2. Fresh'
    <3>1. asked[t] = "none" /\ BeforeEnd(inb') = <<>>
      BY <1>2, <1>6 DEF Between, Owed
    <3>2. inb' \in {<<>>, <<Eof>>}
      BY <3>1, BeforeEndFirst DEF CoreInv, ItemsOK
    <3> QED BY <1>1, <3>1, <3>2 DEF Fresh, Blank
  <2>3. AnswerOK(t)'
    BY <1>1, <1>6, <2>1, <2>2 DEF AnswerOK, UnderWay
  <2> QED BY <1>1, <1>3, <1>6, <2>3, OthersOut, OwnStep
<1> QED BY <1>4, <1>5, <1>6, ParsedAnswer

\* take_watcher_handoff: the watcher's read is the beginning of the answer.
LEMMA TakeHandoffAnswers ==
    ASSUME CoreInv, AnswersOK, NEW t \in Tasks, TakeHandoff(t) PROVE AnswersOK'
<1>1. pc[t] = "handoff" /\ loc[t].has /\ wdone /\ wpc = "none" /\ wgot = <<>> /\ AnswerOK(t)
  BY DEF CoreInv, ReaderOK, WatcherOK, TakeHandoff, AnswersOK
<1>2. /\ data' = <<>> /\ UNCHANGED <<strays, tr, busy, asked, inb, wgot>>
      /\ \A u \in Tasks \ {t} : asked[u] = "none"
  BY <1>1 DEF TakeHandoff, stateVars, wireVars, AnswerOK, UnderWay
<1>3. CASE AtEnd(data)
  <2>1. pc' = [pc EXCEPT ![t] = "fail"] /\ loc' = loc
    BY <1>1, <1>3 DEF TakeHandoff, Goto
  <2>2. pc'[t] = "fail" /\ loc'[t] = loc[t]
    BY <2>1 DEF CoreInv, TypeOK
  <2>3. AnswerOK(t)'
    BY <1>1, <2>2 DEF AnswerOK, UnderWay
  <2> QED BY <1>1, <1>2, <2>1, <2>3, OthersOut, OwnStep DEF Past
<1>4. CASE ~AtEnd(data)
  <2>1. data # <<>> /\ data \notin Endless /\ Parsed(t, data)
    BY <1>1, <1>4 DEF TakeHandoff, AtEnd, Endless
  <2>2. PICK m \in Owed : data \in Between(t, "any", m) /\ BeforeEnd(inb) \in Between(t, m, asked[t])
    BY <1>1, <2>1 DEF AnswerOK, Continues, Lost, Endless
  <2> QED BY <1>1, <1>2, <2>1, <2>2, TakeHandoffCore, AnswerTaken
<1> QED BY <1>3, <1>4

\* _read_head: the task's own read is the beginning of the answer, or goes on with it.
LEMMA ReadHeadAnswers ==
    ASSUME CoreInv, AnswersOK, NEW t \in Tasks, ReadHead(t) PROVE AnswersOK'
<1>1. pc[t] = "head" /\ wpc = "none" /\ wgot = <<>> /\ data = <<>> /\ AnswerOK(t)
  BY DEF CoreInv, ReaderOK, WatcherOK, AfterHandoff, ReadHead, AnswersOK
<1>2. UNCHANGED <<strays, tr, busy, asked, wgot, data>>
  BY DEF ReadHead, stateVars, watchVars
<1>3. CASE Goto(t, "fail") /\ UNCHANGED <<loc, inb>>
  <2>1. pc' = [pc EXCEPT ![t] = "fail"] /\ loc' = loc
    BY <1>3 DEF Goto
  <2>2. pc'[t] = "fail" /\ loc'[t] = loc[t]
    BY <2>1 DEF CoreInv, TypeOK
  <2>3. AnswerOK(t)'
    BY <1>1, <2>2 DEF AnswerOK, UnderWay
  <2> QED BY <1>1, <1>2, <2>1, <2>3, OthersOut, OwnStep DEF Past
<1>4. CASE ~AtEnd(inb) /\ Parsed(t, BeforeEnd(inb)) /\ inb' = FromEnd(inb)
  <2>1. PICK p \in {"any", "head"} : BeforeEnd(inb) \in Between(t, p, asked[t])
    BY <1>1, BetweenSame DEF AnswerOK, Continues, Owed
  <2>2. BeforeEnd(inb) # <<>>
    BY <1>4, BeforeEndNotEmpty DEF AtEnd, CoreInv, ItemsOK
  <2>3. asked[t] \in Owed
    BY DEF CoreInv, TypeOK, Owed
  <2>4. BeforeEnd(inb') \in Between(t, asked[t], asked[t])
    BY <1>4, <2>3, LeftByRead, BetweenSame DEF CoreInv, ItemsOK
  <2> QED BY <1>1, <1>2, <1>4, <2>1, <2>2, <2>3, <2>4, ReadHeadCore, AnswerTaken
<1> QED BY <1>3, <1>4 DEF ReadHead

\* The body's item ends the answer, and an early end the connection.
LEMMA ReadBodyAnswers ==
    ASSUME CoreInv, AnswersOK, NEW t \in Tasks, ReadBody(t) PROVE AnswersOK'
<1>1. pc[t] = "body" /\ wpc = "none" /\ wgot = <<>> /\ data = <<>> /\ AnswerOK(t) /\ pc[t] \in Past
  BY DEF CoreInv, ReaderOK, WatcherOK, AfterHandoff, ReadBody, AnswersOK, Past
<1>2. /\ UNCHANGED <<strays, tr, busy, asked, wgot, data>>
      /\ \A u \in Tasks \ {t} : asked[u] = "none"
  BY <1>1 DEF ReadBody, stateVars, watchVars, AnswerOK, UnderWay
<1>3. asked[t] \in Owed /\ inb \in Seq(Item)
  BY DEF CoreInv, TypeOK, ItemsOK, Owed
<1>4. PICK m \in Owed : loc[t].rest \in Between(t, "data", m) /\ BeforeEnd(inb) \in Between(t, m, asked[t])
  BY <1>1 DEF AnswerOK, Continues
<1>5. (\A u \in Tasks \ {t} : loc'[u] = loc[u]) /\ loc'[t].of = loc[t].of
  BY DEF ReadBody, CoreInv, ItemsOK, Locals
<1>6. CASE pc' = [pc EXCEPT ![t] = "verdict"] /\ ~loc'[t].keep
  <2>1. pc'[t] = "verdict"
    BY <1>6 DEF CoreInv, TypeOK
  <2>2. AnswerOK(t)'
    BY <1>1, <1>2, <1>5, <1>6, <2>1 DEF AnswerOK, UnderWay
  <2> QED BY <1>1, <1>2, <1>5, <1>6, <2>2, OthersOut, OwnStep
<1>7. CASE pc' = [pc EXCEPT ![t] = "finish"] /\ asked[t] = "none" /\ inb' \in {<<>>, <<Eof>>}
  <2>1. pc'[t] = "finish"
    BY <1>7 DEF CoreInv, TypeOK
  <2>2. Fresh'
    BY <1>1, <1>2, <1>7 DEF Fresh, Blank
  <2>3. AnswerOK(t)'
    BY <1>1, <1>2, <1>5, <2>1, <2>2 DEF AnswerOK, UnderWay
  <2> QED BY <1>1, <1>2, <1>5, <1>7, <2>3, OthersOut, OwnStep
<1>8. CASE loc[t].rest # <<>> /\ Goto(t, "finish") /\ UNCHANGED inb
  <2>1. m = "none"
    BY <1>4, <1>8 DEF Between, Owed
  <2>2. asked[t] = "none" /\ BeforeEnd(inb) = <<>>
    BY <1>3, <1>4, <2>1 DEF Between, Owed
  <2> QED BY <1>3, <1>7, <1>8, <2>2, BeforeEndFirst DEF Goto
<1>9. CASE /\ loc[t].rest = <<>> /\ ~AtEnd(inb) /\ inb' = FromEnd(inb) /\ Goto(t, "finish")
  <2>1. m = "data"
    BY <1>4, <1>9, BetweenSame DEF Owed
  <2>2. BeforeEnd(inb) # <<>>
    BY <1>3, <1>9, BeforeEndNotEmpty DEF AtEnd
  <2>3. asked[t] = "none"
    BY <1>3, <1>4, <2>1, <2>2 DEF Between, Owed
  <2> QED BY <1>3, <1>7, <1>9, <2>3, LeftByRead DEF Goto
<1>10. CASE loc' = [loc EXCEPT ![t].keep = FALSE] /\ Goto(t, "verdict")
  BY <1>6, <1>10 DEF CoreInv, ItemsOK, Locals, Goto
<1> QED BY <1>8, <1>9, <1>10 DEF ReadBody

\* A dropped body spoils the connection; a finished one leaves nothing.
LEMMA FinishAnswers ==
    ASSUME CoreInv, AnswersOK, NEW t \in Tasks, DropBody(t) \/ Finish(t) PROVE AnswersOK'
<1>1. /\ pc[t] \in {"body", "finish"} /\ pc[t] \in Past /\ AnswerOK(t)
      /\ pc' = [pc EXCEPT ![t] = "verdict"] /\ pc'[t] = "verdict"
  BY DEF DropBody, Finish, Goto, Past, AnswersOK, CoreInv, TypeOK
<1>2. /\ UNCHANGED <<strays, busy, asked, inb, wgot, data>> /\ (tr' => tr)
      /\ \A u \in Tasks \ {t} : asked[u] = "none"
  BY <1>1 DEF DropBody, Finish, CloseNow, stateVars, watchVars, wireVars, AnswerOK, UnderWay
<1>3. (\A u \in Tasks \ {t} : loc'[u] = loc[u]) /\ loc'[t].of = loc[t].of
  BY DEF DropBody, Finish, CoreInv, ItemsOK, Locals
<1>4. loc'[t].keep => Fresh'
  <2>1. CASE DropBody(t)
    BY <2>1 DEF DropBody, CoreInv, ItemsOK, Locals
  <2>2. CASE Finish(t)
    <3>1. Fresh
      BY <1>1, <2>2 DEF Finish, AnswerOK
    <3> QED BY <1>2, <3>1 DEF Fresh
  <2> QED BY <2>1, <2>2
<1>5. AnswerOK(t)'
  BY <1>1, <1>2, <1>3, <1>4 DEF AnswerOK, UnderWay
<1> QED BY <1>1, <1>2, <1>3, <1>5, OthersOut, OwnStep

\* SpawnWriter: the answer to a new request begins with what arrives from here on.
LEMMA SpawnWriterAnswers ==
    ASSUME CoreInv, AnswersOK, NEW t \in Tasks, SpawnWriter(t) PROVE AnswersOK'
<1>1. /\ pc[t] = "spawn" /\ pc[t] \in Past /\ AnswerOK(t) /\ Fresh
      /\ pc' = [pc EXCEPT ![t] = "store"] /\ pc'[t] = "store"
  BY DEF SpawnWriter, Goto, Past, AnswersOK, AnswerOK, CoreInv, TypeOK
<1>2. /\ UNCHANGED <<strays, busy, tr, inb, wgot, data, loc>>
      /\ asked'[t] = "any" /\ \A u \in Tasks \ {t} : asked'[u] = "none"
  BY <1>1 DEF SpawnWriter, stateVars, watchVars, Fresh, CoreInv, TypeOK
<1>3. Lost' \/ Continues(t, "any", IF data # <<>> THEN data ELSE wgot)'
  <2>1. CASE data = <<>> /\ wgot = <<>>
    <3>1. BeforeEnd(inb) = <<>>
      BY <1>1, LeftByRead, EmptySeq DEF Fresh
    <3>2. <<>> \in Between(t, "any", "any") /\ "any" \in Owed
      BY BetweenSame DEF Owed
    <3> QED BY <1>2, <2>1, <3>1, <3>2 DEF Continues
  <2>2. CASE data \in Endless \/ wgot \in Endless
    BY <1>2, <2>2 DEF Lost, Endless
  <2> QED BY <1>1, <2>1, <2>2 DEF Fresh, Blank
<1>4. AnswerOK(t)'
  BY <1>1, <1>2, <1>3 DEF AnswerOK, UnderWay
<1> QED BY <1>1, <1>2, <1>4, OthersOut, OwnStep

\* Up to the spawn of the writer nothing is asked.
LEMMA SendAnswers ==
    ASSUME CoreInv, AnswersOK, NEW t \in Tasks, Send(t) PROVE AnswersOK'
<1>1. CASE BeginSend(t)
  <2>1. pc[t] = "send" /\ Holds(t) /\ AnswerOK(t)
    BY <1>1 DEF BeginSend, Holds, AnswersOK
  <2>2. UNCHANGED <<strays, busy, tr, asked, inb, wgot, data>>
    BY <1>1 DEF BeginSend, stateVars, watchVars, wireVars
  <2>3. /\ \A u \in Tasks \ {t} : loc'[u] = loc[u] /\ pc'[u] = pc[u]
        /\ loc'[t].of = loc[t].of /\ pc'[t] \in {"fail", "peek"}
        /\ pc'[t] = "peek" => tr
    BY <1>1 DEF BeginSend, CoreInv, TypeOK, ItemsOK, Locals, Goto
  <2>4. AnswerOK(t)'
    BY <2>1, <2>2, <2>3 DEF AnswerOK, UnderWay, Fresh
  <2>5. CASE tr
    <3>1. busy /\ \A u \in Tasks \ {t} : pc[u] \notin Past
      BY <2>1, <2>5 DEF CoreInv, Alone, Holds
    <3> QED BY <2>1, <2>2, <2>3, <2>4, <3>1, OwnStep
  <2>6. CASE ~tr
    <3>1. \A u \in Tasks \ {t} : AnswerOK(u)'
      <4>1. \A u \in Tasks \ {t} : AnswerOK(u)
        BY DEF AnswersOK
      <4>2. wpc' = wpc
        BY <1>1 DEF BeginSend, watchVars
      <4> QED BY <2>2, <2>3, <4>1, <4>2 DEF AnswerOK, Fresh, Continues, Lost
    <3> QED BY <2>2, <2>4, <2>6, <3>1 DEF AnswersOK
  <2> QED BY <2>5, <2>6
<1>2. CASE Peek(t) \/ Writable(t) \/ ReadableFirst(t) \/ ExchangeStarted(t) \/ StoreWriter(t) \/ RefusedJoined(t)
  <2>1. pc[t] \in Past /\ AnswerOK(t)
    BY <1>2 DEF Peek, Writable, ReadableFirst, ExchangeStarted, StoreWriter, RefusedJoined, Past, AnswersOK
  <2>2. UNCHANGED <<strays, busy, asked, wgot, data, wpc, loc>> /\ (tr' => tr)
    BY <1>2 DEF Peek, Writable, ReadableFirst, ExchangeStarted, StoreWriter, RefusedJoined, CloseNow, stateVars,
       watchVars, wireVars
  <2>3. PICK p : /\ pc' = [pc EXCEPT ![t] = p]
                 /\ \/ p \in {"fail", "refused"}
                    \/ p \in {"writable", "start", "spawn"} /\ Fresh /\ UNCHANGED inb
                    \/ p = "handoff" /\ pc[t] = "store" /\ UNCHANGED inb
    BY <1>2, <2>1 DEF Peek, Writable, ReadableFirst, ExchangeStarted, StoreWriter, RefusedJoined, Goto, AnswerOK,
       wireVars
  <2>4. p = "refused" => pc[t] = "store"
    BY <1>2, <2>3 DEF Peek, Writable, ReadableFirst, ExchangeStarted, StoreWriter, RefusedJoined, Goto,
       CoreInv, TypeOK
  <2>5. pc'[t] = p
    BY <2>3 DEF CoreInv, TypeOK
  <2>6. AnswerOK(t)'
    BY <2>1, <2>2, <2>3, <2>4, <2>5 DEF AnswerOK, UnderWay, Fresh, Continues, Lost
  <2> QED BY <2>1, <2>2, <2>3, <2>6, OthersOut, OwnStep
<1> QED BY <1>1, <1>2, SpawnWriterAnswers DEF Send

\* A step of one task that leaves the wire alone.
LEMMA QuietStep ==
    ASSUME AnswersOK, NEW t \in Tasks, UNCHANGED <<asked, inb, data, wgot, wpc, strays>>,
           tr' => tr, tr' /\ ~busy' => Fresh,
           \A u \in Tasks \ {t} : pc'[u] = pc[u] /\ loc'[u] = loc[u],
           AnswerOK(t)'
    PROVE  AnswersOK'
<1>1. Fresh' <=> Fresh
  BY DEF Fresh
<1>2. \A u \in Tasks \ {t} : AnswerOK(u)'
  BY <1>1 DEF AnswersOK, AnswerOK, Continues, Lost
<1> QED BY <1>1, <1>2 DEF AnswersOK

\* The slot: it is claimed and given back on a fresh stream, or a dead one.
LEMMA AcquireAnswers ==
    ASSUME CoreInv, AnswersOK, NEW t \in Tasks, Begin(t) \/ Acquire(t) PROVE AnswersOK'
<1>1. AnswerOK(t) /\ (tr /\ ~busy => Fresh) /\ strays = 0 /\ None \notin Tasks
  BY H1ClientConstants DEF AnswersOK
<1>2. UNCHANGED <<asked, inb, data, wgot, wpc, strays, tr>>
  BY DEF Begin, Acquire, TryBegin, ClearIdleEvt, WaitIdleEvt, EndExchange, SetIdleEvt, Over, stateVars,
     watchVars, wireVars
<1>3. CASE SetIdleEvt(t)
  <2>1. \A u \in Tasks : loc'[u] = loc[u] /\ (pc'[u] = pc[u] \/ pc'[u] \in {"over", "try1"})
    BY <1>3 DEF SetIdleEvt
  <2>2. UNCHANGED busy /\ (Fresh' <=> Fresh)
    BY <1>2, <1>3 DEF SetIdleEvt, stateVars, Fresh
  <2>3. \A u \in Tasks : AnswerOK(u)'
    BY <1>2, <2>1, <2>2 DEF AnswersOK, AnswerOK, UnderWay, Continues, Lost
  <2> QED BY <1>1, <1>2, <2>2, <2>3 DEF AnswersOK
<1>4. CASE TryBegin(t) \/ EndExchange(t) \/ Begin(t) \/ ClearIdleEvt(t) \/ WaitIdleEvt(t) \/ Over(t)
  <2>1. /\ \A u \in Tasks \ {t} : pc'[u] = pc[u] /\ loc'[u] = loc[u]
        /\ loc'[t].of \in {loc[t].of, None}
    <3>1. CASE Over(t)
      <4>1. /\ \A u \in Tasks \ {t} : pc'[u] = pc[u] /\ loc'[u] = loc[u]
            /\ loc'[t] = [NoLocals EXCEPT !.cancelled = loc[t].cancelled]
        BY <3>1 DEF Over, Goto, CoreInv, TypeOK, ItemsOK
      <4> QED BY <4>1 DEF NoLocals
    <3>2. CASE TryBegin(t)
      BY <3>2 DEF TryBegin, Goto, CoreInv, TypeOK, ItemsOK, Locals
    <3>3. CASE EndExchange(t) \/ Begin(t) \/ ClearIdleEvt(t) \/ WaitIdleEvt(t)
      BY <3>3 DEF EndExchange, Begin, ClearIdleEvt, WaitIdleEvt, Goto, CoreInv, TypeOK, ItemsOK
    <3> QED BY <1>4, <3>1, <3>2, <3>3
  <2>2. \/ pc'[t] \in {"try1", "try2", "clear", "wait", "parked", "wake", "over", "fail", "ended"}
        \/ pc'[t] = "send" /\ ~busy
    BY <1>4 DEF TryBegin, EndExchange, Begin, ClearIdleEvt, WaitIdleEvt, Over, Goto, CoreInv, TypeOK
  <2>3. tr' /\ ~busy' => Fresh
    BY <1>1, <1>2, <1>4 DEF TryBegin, EndExchange, Begin, ClearIdleEvt, WaitIdleEvt, Over, stateVars, AnswerOK
  <2>4. AnswerOK(t)'
    BY <1>1, <1>2, <2>1, <2>2 DEF AnswerOK, UnderWay, Fresh
  <2> QED BY <1>2, <2>1, <2>3, <2>4, QuietStep
<1> QED BY <1>3, <1>4 DEF Acquire

\* release_slot: a stream that is to be reused is fresh, and stays so.
LEMMA ReleaseSlotAnswers ==
    ASSUME CoreInv, AnswersOK, NEW t \in Tasks, ReleaseSlot(t) \/ Detach(t) PROVE AnswersOK'
<1>1. AnswerOK(t) /\ (tr /\ ~busy => Fresh)
  BY DEF AnswersOK
<1>2. CASE FinishExchange(t)
  <2>1. pc[t] = "verdict" /\ pc[t] \in Past /\ UNCHANGED <<strays, busy, loc, asked, inb, data, wgot>>
    BY <1>2 DEF FinishExchange, Past, watchVars
  <2>2. PICK p : /\ pc' = [pc EXCEPT ![t] = p]
                 /\ \/ p = "arm" /\ loc[t].keep /\ UNCHANGED tr
                    \/ p \in {"shut", "tear"} /\ ~tr'
    BY <1>2 DEF FinishExchange, Goto, CloseNow
  <2>3. pc'[t] = p
    BY <2>2 DEF CoreInv, TypeOK
  <2>4. AnswerOK(t)'
    BY <1>1, <2>1, <2>2, <2>3 DEF AnswerOK, UnderWay, Fresh
  <2>5. /\ \A u \in Tasks \ {t} : pc'[u] = pc[u] /\ pc[u] \notin Past
        /\ tr => busy
    BY <2>1, <2>2, OthersOut
  <2>6. tr' => tr /\ busy'
    BY <2>1, <2>2, <2>5
  <2> QED BY <2>1, <2>4, <2>5, <2>6, OwnStep
<1>3. CASE ArmWatcher(t) \/ SpawnWatcher(t)
  <2>1. /\ pc[t] \in {"arm", "watch"} /\ pc[t] \in Past /\ UNCHANGED <<strays, busy, tr, loc, asked, inb, wgot>>
        /\ data' \in {data, <<>>}
    BY <1>3 DEF ArmWatcher, SpawnWatcher, Past, stateVars, wireVars
  <2>2. PICK p \in {"tear", "watch", "handle"} : pc' = [pc EXCEPT ![t] = p]
    BY <1>3 DEF ArmWatcher, SpawnWatcher, Goto
  <2>3. pc'[t] = p
    BY <2>2 DEF CoreInv, TypeOK
  <2>4. Fresh => Fresh'
    BY <2>1 DEF Fresh, Blank
  <2>5. AnswerOK(t)'
    BY <1>1, <2>1, <2>2, <2>3, <2>4 DEF AnswerOK, UnderWay
  <2> QED BY <2>1, <2>2, <2>5, OthersOut, OwnStep
<1>4. CASE Detach(t) \/ Shutdown(t) \/ StoreHandle(t) \/ TakeWriter(t) \/ JoinWriter(t) \/ Fail(t) \/ JoinWatcher(t)
  <2>1. UNCHANGED <<strays, busy, asked, inb, data, wgot, wpc>> /\ (tr' => tr)
    <3>1. CASE Detach(t)
      BY <3>1 DEF Detach, watchVars, wireVars
    <3>3. CASE Fail(t)
      BY <3>3 DEF Fail, CloseNow, watchVars
    <3>4. CASE TakeWriter(t)
      BY <3>4 DEF TakeWriter, watchVars, wireVars
    <3>2. CASE Shutdown(t) \/ StoreHandle(t) \/ JoinWriter(t) \/ JoinWatcher(t)
      BY <3>2 DEF Shutdown, StoreHandle, JoinWriter, JoinWatcher, stateVars, watchVars, wireVars
    <3> QED BY <1>4, <3>1, <3>2, <3>3, <3>4
  <2>2. /\ \A u \in Tasks \ {t} : loc'[u] = loc[u] /\ pc'[u] = pc[u]
        /\ loc'[t].of = loc[t].of
    <3>1. CASE TakeWriter(t)
      BY <3>1 DEF TakeWriter, Goto, CoreInv, TypeOK, ItemsOK, Locals
    <3>2. CASE Detach(t) \/ Fail(t)
      BY <3>2 DEF Detach, Fail, Goto, CoreInv, TypeOK
    <3>3. CASE Shutdown(t) \/ StoreHandle(t) \/ JoinWriter(t) \/ JoinWatcher(t)
      <4>1. loc' = loc
        BY <3>3 DEF Shutdown, StoreHandle, JoinWriter, JoinWatcher
      <4>2. \E p : pc' = [pc EXCEPT ![t] = p]
        BY <3>3 DEF Shutdown, StoreHandle, JoinWriter, JoinWatcher, Goto
      <4> QED BY <4>1, <4>2 DEF CoreInv, TypeOK
    <3> QED BY <1>4, <3>1, <3>2, <3>3
  <2>3. \/ pc'[t] \in {"fjoin", "failed", "fwatch"}
        \/ pc'[t] \in {"djoin", "detached"} /\ pc[t] \in {"detach", "djoin"}
        \/ pc'[t] \in {"tear", "join", "release"} /\ (tr' => pc[t] \in {"handle", "tear", "join"})
    BY <1>4 DEF Detach, Shutdown, StoreHandle, TakeWriter, JoinWriter, Fail, JoinWatcher, Goto, CoreInv, TypeOK,
       Alone, CloseNow, stateVars
  <2>4. AnswerOK(t)'
    BY <1>1, <2>1, <2>2, <2>3 DEF AnswerOK, UnderWay, Fresh
  <2> QED BY <1>1, <2>1, <2>2, <2>4, QuietStep
<1> QED BY <1>2, <1>3, <1>4 DEF ReleaseSlot

\* A cancelled join gives back a stream that is fresh, or closed.
LEMMA CancelledAnswers ==
    ASSUME CoreInv, AnswersOK, NEW t \in Tasks, Cancelled(t) PROVE AnswersOK'
<1>1. AnswerOK(t) /\ (tr /\ ~busy => Fresh)
  BY DEF AnswersOK
<1>2. UNCHANGED <<strays, busy, asked, inb, data, wgot, wpc, tr>>
  BY DEF Cancelled, stateVars, watchVars, wireVars
<1>3. /\ \A u \in Tasks \ {t} : loc'[u] = loc[u] /\ pc'[u] = pc[u]
      /\ loc'[t].of = loc[t].of
  BY DEF Cancelled, Goto, CoreInv, TypeOK, ItemsOK, Locals
<1>4. \/ pc'[t] \in {"ended", "fail"}
      \/ pc'[t] = "release" /\ (tr => pc[t] = "join")
  BY DEF Cancelled, Goto, CoreInv, TypeOK, Alone
<1>5. AnswerOK(t)'
  BY <1>1, <1>2, <1>3, <1>4 DEF AnswerOK, UnderWay, Fresh
<1> QED BY <1>1, <1>2, <1>3, <1>5, QuietStep

\* A step that keeps every task where it is, and that loses at most the exchange's read.
LEMMA StillStep ==
    ASSUME AnswersOK, UNCHANGED <<pc, loc, busy, asked, strays>>, tr' => tr, Fresh => Fresh',
           BeforeEnd(inb') = BeforeEnd(inb),
           \A t \in Tasks : LET items == IF data # <<>> THEN data ELSE wgot
                            IN  Lost \/ Continues(t, "any", items) =>
                                  (Lost \/ Continues(t, "any", items))'
    PROVE  AnswersOK'
<1>1. \A t \in Tasks, p \in {"any", "head", "data"} :
        /\ Continues(t, p, <<>>)' = Continues(t, p, <<>>)
        /\ Continues(t, p, loc[t].rest)' = Continues(t, p, loc[t].rest)
  BY DEF Continues
<1>2. \A t \in Tasks : AnswerOK(t)'
  BY <1>1 DEF AnswersOK, AnswerOK
<1> QED BY <1>2 DEF AnswersOK

\* The writer, close() and the watcher's own bookkeeping.
LEMMA StillAnswers ==
    ASSUME CoreInv, AnswersOK,
           \/ \E t \in Tasks : Write(t)
           \/ WatchStart \/ WatchPoison \/ WatchDone \/ MarkClosed \/ CloseJoined
           \/ UNCHANGED vars
    PROVE  AnswersOK'
<1>1. ASSUME NEW t \in Tasks, Write(t)
      PROVE  UNCHANGED <<pc, loc, busy, asked, inb, strays, data, wgot, wpc>> /\ (tr' => tr)
  BY <1>1 DEF Write, WriterSent, WriterStopped, WriterBodyError, WriterDone, CloseNow, stateVars, watchVars, wireVars
<1>2. ASSUME WatchStart \/ WatchPoison \/ WatchDone
      PROVE  /\ UNCHANGED <<pc, loc, busy, asked, inb, strays, data, wgot>> /\ (tr' => tr)
             /\ Lost => Lost'
  <2>1. CASE WatchStart
    BY <2>1 DEF WatchStart, Lost, stateVars, taskVars, wireVars
  <2>2. CASE WatchPoison
    BY <2>2 DEF WatchPoison, CloseNow, Lost, taskVars
  <2>3. CASE WatchDone
    BY <2>3 DEF WatchDone, Lost, stateVars, taskVars, wireVars
  <2> QED BY <1>2, <2>1, <2>2, <2>3
<1>3. ASSUME MarkClosed \/ CloseJoined \/ UNCHANGED vars
      PROVE  UNCHANGED <<pc, loc, busy, asked, inb, strays, data, wgot, wpc>> /\ (tr' => tr)
  <2>1. CASE MarkClosed
    BY <2>1 DEF MarkClosed, CloseNow, taskVars, watchVars
  <2>2. CASE CloseJoined
    BY <2>2 DEF CloseJoined, stateVars, taskVars, watchVars, wireVars
  <2>3. CASE UNCHANGED vars
    BY <2>3 DEF vars, stateVars, taskVars, watchVars, wireVars
  <2> QED BY <1>3, <2>1, <2>2, <2>3
<1>4. /\ UNCHANGED <<pc, loc, busy, asked, inb, strays, data, wgot>> /\ (tr' => tr)
      /\ Lost => Lost'
  <2>1. UNCHANGED <<data, wgot, wpc>> => (Lost => Lost')
    BY DEF Lost
  <2> QED BY <1>1, <1>2, <1>3, <2>1
<1>5. Fresh => Fresh'
  BY <1>4 DEF Fresh
<1>6. \A t \in Tasks : \A items : Continues(t, "any", items) => Continues(t, "any", items)'
  BY <1>4 DEF Continues
<1> QED BY <1>4, <1>5, <1>6, StillStep

\* watcher_completed: the exchange's first read, or one that the idle rules throw away.
LEMMA WatcherCompletedAnswers == ASSUME CoreInv, AnswersOK, WatcherCompleted PROVE AnswersOK'
<1>1. /\ wpc = "got" /\ slot # "none" /\ data = <<>> /\ wgot' = <<>>
      /\ UNCHANGED <<pc, loc, busy, asked, inb, strays>> /\ (tr' => tr)
  BY DEF CoreInv, WatcherOK, WatcherCompleted, CloseNow, taskVars
<1>2. CASE data' = wgot
  <2>1. Fresh => Fresh'
    BY <1>1, <1>2 DEF Fresh, Blank
  <2>2. Lost => Lost'
    BY <1>1, <1>2 DEF Lost, Endless
  <2>3. \A t \in Tasks : Continues(t, "any", wgot) => Continues(t, "any", IF data # <<>> THEN data ELSE wgot)'
    BY <1>1, <1>2 DEF Continues
  <2> QED BY <1>1, <2>1, <2>2, <2>3, StillStep
<1>3. CASE wpc' \in {"done", "poison"} /\ data' = <<>>
  <2>1. Fresh => Fresh'
    BY <1>1, <1>3 DEF Fresh, Blank
  <2>2. Lost'
    BY <1>1, <1>3 DEF Lost
  <2> QED BY <1>1, <2>1, <2>2, StillStep
<1> QED BY <1>1, <1>2, <1>3 DEF WatcherCompleted

\* The watcher's read takes what has arrived, and what is owed goes on from there.
LEMMA WatchReadAnswers == ASSUME CoreInv, AnswersOK, WatchRead PROVE AnswersOK'
<1>1. /\ wpc = "read" /\ data = <<>> /\ wgot = <<>> /\ data' = <<>> /\ ~Lost /\ slot # "none"
      /\ UNCHANGED <<pc, loc, busy, asked, strays, tr, data>> /\ inb \in Seq(Item)
  <2>1. /\ wpc = "read" /\ UNCHANGED <<pc, loc, busy, asked, strays, tr, data>>
    BY DEF WatchRead, stateVars, taskVars
  <2>2. data = <<>> /\ wgot = <<>> /\ slot # "none" /\ inb \in Seq(Item)
    BY <2>1 DEF CoreInv, ItemsOK, WatcherOK
  <2> QED BY <2>1, <2>2 DEF Lost, Endless
<1>2. AnswersOK /\ \A t \in Tasks : pc[t] \notin {"head", "body"} /\ asked[t] \in Owed
  BY <1>1 DEF CoreInv, TypeOK, ReaderOK, AfterHandoff, Owed
<1>3. Fresh => Fresh'
  <2>1. CASE inb # <<>> /\ wgot' = (IF AtEnd(inb) THEN inb ELSE BeforeEnd(inb)) /\ inb' = FromEnd(inb)
    <3>1. Fresh => inb = <<Eof>> /\ AtEnd(inb)
      BY <2>1 DEF Fresh, AtEnd
    <3> QED BY <1>1, <2>1, <3>1, LeftByRead DEF Fresh, Blank, Endless
  <2>2. CASE wgot' = <<Broken>> /\ UNCHANGED inb
    BY <1>1, <2>2 DEF Fresh, Blank, Endless
  <2> QED BY <2>1, <2>2 DEF WatchRead
<1>4. ASSUME NEW t \in Tasks, Continues(t, "any", <<>>) PROVE (Lost \/ Continues(t, "any", wgot))'
  <2>1. BeforeEnd(inb) \in Between(t, "any", asked[t])
    BY <1>4, BetweenSame DEF Continues, Owed
  <2>2. CASE wgot' = <<Broken>>
    BY <2>2 DEF Lost, Endless
  <2>3. CASE inb # <<>> /\ AtEnd(inb) /\ wgot' = inb
    <3>1. inb[1] \in {Eof, Broken}
      BY <2>3 DEF AtEnd
    <3>2. BeforeEnd(inb) = <<>>
      BY <1>1, <1>2, <2>1, <2>3, <3>1, BeforeEndFirst, BetweenOwn DEF Owed
    <3>3. inb = <<Eof>>
      BY <1>1, <2>3, <3>2, BeforeEndFirst
    <3> QED BY <2>3, <3>3 DEF Lost, Endless
  <2>4. CASE ~AtEnd(inb) /\ wgot' = BeforeEnd(inb) /\ inb' = FromEnd(inb)
    <3>1. BeforeEnd(inb') \in Between(t, asked[t], asked[t])
      BY <1>1, <1>2, <2>4, LeftByRead, BetweenSame
    <3>2. Continues(t, "any", wgot)'
      BY <1>1, <1>2, <2>1, <2>4, <3>1 DEF Continues
    <3> QED BY <3>2
  <2> QED BY <2>2, <2>3, <2>4 DEF WatchRead
<1>5. \A t \in Tasks : AnswerOK(t)'
  BY <1>1, <1>2, <1>3, <1>4 DEF AnswersOK, AnswerOK
<1> QED BY <1>1, <1>3, <1>5 DEF AnswersOK

\* What the peer sends is owed: nothing is when the stream is fresh, and otherwise it goes
\* on with the answer to the one request under way.
LEMMA PeerAnswers == ASSUME CoreInv, AnswersOK, Peer PROVE AnswersOK'
<1>1. UNCHANGED <<pc, loc, busy, tr, data, wgot, wpc>> /\ strays = 0 /\ NoEof /\ inb \in Seq(Item)
  BY DEF Peer, PeerSendsPart, PeerResponds, PeerSendsBody, PeerSendsStray, PeerCloses, stateVars, taskVars,
     watchVars, AnswersOK, CoreInv, ItemsOK
<1>2. Lost' <=> Lost
  BY <1>1 DEF Lost
<1>3. BeforeEnd(inb) = inb
  BY <1>1, ElementOfSeq DEF BeforeEnd, Ended, NoEof
<1>4. CASE PeerCloses
  <2>1. inb' = Append(inb, Eof) /\ UNCHANGED <<asked, strays>> /\ Eof \in Item
    BY <1>4 DEF PeerCloses, Eof, Item
  <2>2. BeforeEnd(inb') = BeforeEnd(inb)
    BY <1>1, <1>3, <2>1, ArrivalBeforeEnd DEF NoEof
  <2>3. inb # <<Eof>>
    BY <1>1 DEF NoEof
  <2>4. Fresh => Fresh'
    <3>1. Append(<<>>, Eof) = <<Eof>>
      OBVIOUS
    <3>2. inb = <<>> => inb' = <<Eof>>
      BY <2>1, <3>1
    <3> QED BY <1>1, <2>1, <2>3, <3>2 DEF Fresh
  <2>5. \A t \in Tasks : \A p, items : Continues(t, p, items) => Continues(t, p, items)'
    BY <2>1, <2>2 DEF Continues
  <2>6. ASSUME NEW t \in Tasks
        PROVE  LET items == IF data # <<>> THEN data ELSE wgot
               IN  Lost \/ Continues(t, "any", items) => (Lost \/ Continues(t, "any", items))'
    BY <1>1, <1>2, <2>5
  <2>7. UNCHANGED <<pc, loc, busy, asked, strays>> /\ (tr' => tr)
    BY <1>1, <2>1
  <2> QED BY <2>2, <2>4, <2>6, <2>7, StillStep
<1>5. ASSUME NEW q \in Tasks, NEW n \in Owed, NEW x \in Item, x # Eof,
             asked[q] # "none", inb' = Append(inb, x), asked' = [asked EXCEPT ![q] = n],
             UNCHANGED strays,
             \A m \in Owed : \A s : s \in Between(q, m, asked[q]) => Append(s, x) \in Between(q, m, n)
      PROVE  AnswersOK'
  <2>1. ~Fresh
    BY <1>5 DEF Fresh
  <2>2. BeforeEnd(inb') = Append(inb, x)
    BY <1>1, <1>5, ArrivalBeforeEnd DEF NoEof
  <2>3. asked'[q] = n /\ \A u \in Tasks \ {q} : asked'[u] = asked[u]
    BY <1>5 DEF CoreInv, TypeOK
  <2>4. \A p, items : Continues(q, p, items) => Continues(q, p, items)'
    BY <1>3, <1>5, <2>2, <2>3 DEF Continues
  <2>5. \A t \in Tasks : AnswerOK(t)
    BY DEF AnswersOK
  <2>6. ASSUME NEW t \in Tasks PROVE AnswerOK(t)'
    <3>1. pc[t] \in UnderWay => t = q
      BY <1>5, <2>5 DEF AnswerOK
    <3>2. pc[t] \in UnderWay => \A u \in Tasks \ {t} : asked'[u] = "none"
      BY <2>3, <2>5, <3>1 DEF AnswerOK
    <3>3. pc[t] \in {"store", "handoff"} => (Lost \/ Continues(t, "any", IF data # <<>> THEN data ELSE wgot))'
      BY <1>1, <1>2, <2>4, <2>5, <3>1 DEF AnswerOK, UnderWay
    <3>4. pc[t] = "head" => (\E p \in {"any", "head"} : Continues(t, p, <<>>))'
      BY <2>4, <2>5, <3>1 DEF AnswerOK, UnderWay
    <3>5. pc[t] = "body" => Continues(t, "data", loc[t].rest)'
      BY <1>1, <2>4, <2>5, <3>1 DEF AnswerOK, UnderWay
    <3> QED BY <1>1, <2>1, <2>5, <3>2, <3>3, <3>4, <3>5 DEF AnswerOK
  <2> QED BY <1>1, <1>5, <2>1, <2>6 DEF AnswersOK
<1>6. CASE PeerSendsPart
  <2>1. PICK q \in Tasks : /\ asked[q] = "any" /\ inb' = Append(inb, Part(q))
                           /\ asked' = [asked EXCEPT ![q] = "head"] /\ UNCHANGED strays
    BY <1>6 DEF PeerSendsPart
  <2>2. Part(q) \in Item /\ Part(q) # Eof /\ "head" \in Owed
    BY DEF Part, Item, Eof, Owed
  <2>3. \A m \in Owed : \A s : s \in Between(q, m, "any") => Append(s, Part(q)) \in Between(q, m, "head")
    BY BetweenAppend DEF Owed
  <2> QED BY <1>5, <2>1, <2>2, <2>3
<1>7. CASE PeerResponds
  <2>1. PICK q \in Tasks, b \in BOOLEAN :
          /\ asked[q] \in {"any", "head"} /\ inb' = Append(inb, ResponseHead(q, b))
          /\ asked' = [asked EXCEPT ![q] = IF b THEN "data" ELSE "none"] /\ UNCHANGED strays
    BY <1>7 DEF PeerResponds
  <2> DEFINE n == IF b THEN "data" ELSE "none"
  <2>2. ResponseHead(q, b) \in Item /\ ResponseHead(q, b) # Eof /\ n \in Owed
    BY DEF ResponseHead, Item, Eof, Owed
  <2>3. \A m \in Owed : \A s : s \in Between(q, m, asked[q]) => Append(s, ResponseHead(q, b)) \in Between(q, m, n)
    BY <2>1, BetweenAppend DEF Owed
  <2> QED BY <1>5, <2>1, <2>2, <2>3
<1>8. CASE PeerSendsBody
  <2>1. PICK q \in Tasks : /\ asked[q] = "data" /\ inb' = Append(inb, Data(q))
                           /\ asked' = [asked EXCEPT ![q] = "none"] /\ UNCHANGED strays
    BY <1>8 DEF PeerSendsBody
  <2>2. Data(q) \in Item /\ Data(q) # Eof /\ "none" \in Owed
    BY DEF Data, Item, Eof, Owed
  <2>3. \A m \in Owed : \A s : s \in Between(q, m, "data") => Append(s, Data(q)) \in Between(q, m, "none")
    BY BetweenAppend DEF Owed
  <2> QED BY <1>5, <2>1, <2>2, <2>3
<1>9. ~PeerSendsStray
  BY <1>1 DEF PeerSendsStray
<1> QED BY <1>4, <1>6, <1>7, <1>8, <1>9 DEF Peer

\* Every step keeps the answers apart.
LEMMA NextAnswers == ASSUME CoreInv, AnswersOK, [Next]_vars PROVE AnswersOK'
<1>1. ASSUME NEW t \in Tasks, Run(t) PROVE AnswersOK'
  BY <1>1, AcquireAnswers, SendAnswers, TakeHandoffAnswers, ReadHeadAnswers, ReadBodyAnswers, FinishAnswers,
     ReleaseSlotAnswers DEF Run, Receive
<1>2. ASSUME Watch PROVE AnswersOK'
  BY <1>2, StillAnswers, WatchReadAnswers, WatcherCompletedAnswers DEF Watch
<1> QED BY <1>1, <1>2, AcquireAnswers, FinishAnswers, CancelledAnswers, StillAnswers, PeerAnswers DEF Next, Quiet

\* A request is written by the exchange under way only: one task's step.
LEMMA WriterStep ==
    ASSUME CoreInv, WriterOK, NEW t \in Tasks, pc[t] \in UnderWay, NEW p, p \in UnderWay \cup {"fail"},
           pc' = [pc EXCEPT ![t] = p], UNCHANGED <<wr, wfin>>, tr' => tr,
           \A u \in Tasks : loc'[u].cancelled = loc[u].cancelled
    PROVE  WriterOK'
BY DEF CoreInv, TypeOK, Alone, MayBeCancelled, WriterOK, BeforeWriter, UnderWay

\* The slot and the requests up to their writers.
LEMMA StartWriters ==
    ASSUME CoreInv, WriterOK, NEW t \in Tasks, Begin(t) \/ Acquire(t) \/ Send(t) PROVE WriterOK'
<1>1. CASE TryBegin(t)
  BY <1>1 DEF CoreInv, TypeOK, ItemsOK, Alone, Past, Holds, MayBeCancelled, WriterOK, BeforeWriter, UnderWay,
     TryBegin, Goto
<1>2. CASE Begin(t) \/ ClearIdleEvt(t) \/ WaitIdleEvt(t)
  BY <1>2 DEF CoreInv, TypeOK, WriterOK, BeforeWriter, UnderWay, Begin, ClearIdleEvt, WaitIdleEvt, Goto,
     stateVars
<1>9. CASE EndExchange(t)
  BY <1>9 DEF CoreInv, TypeOK, WriterOK, BeforeWriter, UnderWay, EndExchange, Goto
<1>3. CASE SetIdleEvt(t)
  BY <1>3 DEF CoreInv, TypeOK, WriterOK, BeforeWriter, UnderWay, SetIdleEvt, stateVars
<1>4. CASE Over(t)
  BY <1>4 DEF CoreInv, TypeOK, ItemsOK, Locals, NoLocals, WriterOK, BeforeWriter, UnderWay, Over, Goto, stateVars
<1>5. CASE BeginSend(t)
  BY <1>5, ZenonT(30) DEF CoreInv, TypeOK, ItemsOK, Locals, WriterOK, BeforeWriter, UnderWay, BeginSend, Goto, stateVars
<1>6. CASE Peek(t) \/ Writable(t) \/ ReadableFirst(t) \/ ExchangeStarted(t)
  BY <1>6 DEF CoreInv, TypeOK, WriterOK, BeforeWriter, UnderWay, Peek, Writable, ReadableFirst,
     ExchangeStarted, CloseNow, Goto, stateVars
<1>7. CASE SpawnWriter(t)
  BY <1>7 DEF CoreInv, TypeOK, WriterOK, BeforeWriter, UnderWay, SpawnWriter, Goto, stateVars
<1>8. CASE StoreWriter(t) \/ RefusedJoined(t)
  BY <1>8, WriterStep DEF StoreWriter, RefusedJoined, UnderWay, Goto, stateVars
<1> QED BY <1>1, <1>2, <1>3, <1>4, <1>5, <1>6, <1>7, <1>8, <1>9 DEF Acquire, Send

\* The response, the release, and a cancellation of either.
LEMMA EndWriters ==
    ASSUME CoreInv, WriterOK, NEW t \in Tasks,
           Receive(t) \/ DropBody(t) \/ ReleaseSlot(t) \/ Cancelled(t)
    PROVE  WriterOK'
<1>1. CASE TakeHandoff(t)
  <2>1. \A u \in Tasks : loc'[u].cancelled = loc[u].cancelled
    <3>1. CASE Parsed(t, data) /\ ~AtEnd(data)
      BY <3>1, ParsedMoves DEF AtEnd, CoreInv, ItemsOK
    <3>2. CASE UNCHANGED loc
      BY <3>2
    <3> QED BY <1>1, <3>1, <3>2 DEF TakeHandoff
  <2>2. \E p : p \in {"head", "body", "finish", "detach", "fail"} /\ pc' = [pc EXCEPT ![t] = p]
    <3>1. CASE Parsed(t, data) /\ ~AtEnd(data)
      BY <3>1, ParsedMoves DEF AtEnd, CoreInv, ItemsOK
    <3>2. CASE Goto(t, IF loc[t].has THEN "fail" ELSE "head")
      BY <3>2 DEF Goto
    <3> QED BY <1>1, <3>1, <3>2 DEF TakeHandoff
  <2> QED BY <1>1, <2>1, <2>2, WriterStep DEF TakeHandoff, UnderWay, stateVars
<1>2. CASE ReadHead(t)
  <2>1. /\ \A u \in Tasks : loc'[u].cancelled = loc[u].cancelled
        /\ \E p : p \in {"head", "body", "finish", "detach", "fail"} /\ pc' = [pc EXCEPT ![t] = p]
    <3>1. CASE Parsed(t, BeforeEnd(inb)) /\ ~AtEnd(inb)
      <4>1. BeforeEnd(inb) \in Seq(Item) /\ BeforeEnd(inb) # <<>>
        BY <3>1, ReadTypes, BeforeEndNotEmpty DEF AtEnd, CoreInv, ItemsOK
      <4> QED BY <3>1, <4>1, ParsedMoves
    <3>2. CASE Goto(t, "fail") /\ UNCHANGED loc
      BY <3>2 DEF Goto
    <3> QED BY <1>2, <3>1, <3>2 DEF ReadHead
  <2> QED BY <1>2, <2>1, WriterStep DEF ReadHead, UnderWay, stateVars
<1>3. CASE ReadBody(t) \/ DropBody(t) \/ Finish(t)
  <2>1. \A u \in Tasks : loc'[u].cancelled = loc[u].cancelled
    <3>1. CASE ReadBody(t)
      <4>1. \/ \E r : loc' = [loc EXCEPT ![t].rest = r]
            \/ loc' = [loc EXCEPT ![t].keep = FALSE]
        BY <3>1 DEF ReadBody, CoreInv, ItemsOK
      <4>2. ASSUME NEW r, loc' = [loc EXCEPT ![t].rest = r]
            PROVE  \A u \in Tasks : loc'[u].cancelled = loc[u].cancelled
        BY <4>2 DEF CoreInv, ItemsOK, Locals
      <4>3. CASE loc' = [loc EXCEPT ![t].keep = FALSE]
        BY <4>3 DEF CoreInv, ItemsOK, Locals
      <4> QED BY <4>1, <4>2, <4>3
    <3>2. CASE DropBody(t)
      BY <3>2 DEF CoreInv, ItemsOK, Locals, DropBody
    <3>3. CASE Finish(t)
      BY <3>3 DEF CoreInv, ItemsOK, Locals, Finish
    <3> QED BY <1>3, <3>1, <3>2, <3>3
  <2>2. \E p : p \in {"finish", "verdict"} /\ pc' = [pc EXCEPT ![t] = p]
    BY <1>3 DEF ReadBody, DropBody, Finish, Goto
  <2>3. pc[t] \in UnderWay /\ UNCHANGED <<wr, wfin>> /\ (tr' => tr)
    BY <1>3 DEF ReadBody, DropBody, Finish, CloseNow, UnderWay, stateVars
  <2> QED BY <2>1, <2>2, <2>3, WriterStep DEF UnderWay
<1>4. CASE Detach(t)
  BY <1>4 DEF CoreInv, TypeOK, WriterOK, BeforeWriter, Detach, Goto
<1>5. CASE FinishExchange(t)
  BY <1>5 DEF CoreInv, TypeOK, WriterOK, BeforeWriter, UnderWay, FinishExchange, CloseNow, Goto
<1>6. CASE Shutdown(t) \/ StoreHandle(t)
  BY <1>6 DEF CoreInv, TypeOK, WriterOK, BeforeWriter, UnderWay, Shutdown, StoreHandle, Goto, stateVars
<1>7. CASE ArmWatcher(t) \/ SpawnWatcher(t)
  BY <1>7 DEF CoreInv, TypeOK, WriterOK, BeforeWriter, UnderWay, ArmWatcher, SpawnWatcher, Goto, stateVars
<1>8. CASE TakeWriter(t)
  BY <1>8 DEF CoreInv, TypeOK, ItemsOK, Locals, Alone, WriterOK, BeforeWriter, UnderWay, TakeWriter, Goto
<1>9. CASE JoinWriter(t)
  BY <1>9 DEF CoreInv, TypeOK, Alone, WriterOK, BeforeWriter, UnderWay, JoinWriter, Goto, stateVars
<1>10. CASE Fail(t)
  BY <1>10 DEF CoreInv, TypeOK, WriterOK, BeforeWriter, UnderWay, Fail, CloseNow, Goto
<1>12. CASE JoinWatcher(t)
  BY <1>12 DEF CoreInv, TypeOK, Alone, WriterOK, BeforeWriter, UnderWay, JoinWatcher, Goto, stateVars
<1>11. CASE Cancelled(t)
  <2>1. /\ UNCHANGED <<wr, wfin, tr>>
        /\ \A u \in Tasks \ {t} : pc'[u] = pc[u] /\ loc'[u] = loc[u]
    BY <1>11 DEF CoreInv, TypeOK, ItemsOK, Cancelled, Goto, stateVars
  <2>2. \/ pc'[t] = "fail" /\ loc'[t] = loc[t] /\ pc[t] \in Past
        \/ pc'[t] \in {"ended", "release"} /\ pc[t] \notin BeforeWriter \ {"parked"}
    BY <1>11 DEF CoreInv, TypeOK, Cancelled, Goto, BeforeWriter, Past
  <2>3. pc[t] \in Past => ~loc[t].cancelled
    BY DEF CoreInv, Alone, MayBeCancelled, Past
  <2>4. pc'[t] \in {"ended", "release"} => (wr[t] = "writing" => ~tr')
    BY <1>11, <2>1 DEF CoreInv, TypeOK, Alone, WriterOK, Cancelled, Goto, BeforeWriter, UnderWay
  <2> QED BY <2>1, <2>2, <2>3, <2>4 DEF CoreInv, WriterOK, BeforeWriter, UnderWay
<1> QED BY <1>1, <1>2, <1>3, <1>4, <1>5, <1>6, <1>7, <1>8, <1>9, <1>10, <1>11, <1>12 DEF Receive, ReleaseSlot

\* A request is written by the exchange under way only.
LEMMA NextWriters == ASSUME CoreInv, WriterOK, [Next]_vars PROVE WriterOK'
<1>1. ASSUME NEW t \in Tasks, Write(t) PROVE WriterOK'
  <2>1. CASE WriterSent(t)
    BY <2>1 DEF CoreInv, TypeOK, Alone, Past, Holds, MayBeCancelled, WriterOK, BeforeWriter, UnderWay, WriterSent
  <2>2. CASE WriterStopped(t)
    BY <2>2 DEF CoreInv, TypeOK, WriterOK, WriterStopped, stateVars
  <2>3. CASE WriterBodyError(t)
    BY <2>3 DEF CoreInv, TypeOK, WriterOK, WriterBodyError, CloseNow
  <2>4. CASE WriterDone(t)
    BY <2>4 DEF CoreInv, TypeOK, WriterOK, WriterDone, stateVars
  <2> QED BY <1>1, <2>1, <2>2, <2>3, <2>4 DEF Write
<1>2. CASE UNCHANGED <<pc, loc, wr, wfin>> /\ (tr' => tr)
  BY <1>2 DEF WriterOK
<1>3. Watch => UNCHANGED <<pc, loc, wr, wfin>> /\ (tr' => tr)
  BY DEF Watch, WatchStart, WatchRead, WatcherCompleted, WatchPoison, WatchDone, CloseNow, stateVars, taskVars
<1>4. MarkClosed \/ CloseJoined \/ Quiet \/ UNCHANGED vars => UNCHANGED <<pc, loc, wr, wfin>> /\ (tr' => tr)
  BY DEF MarkClosed, CloseJoined, CloseNow, Quiet, vars, stateVars, taskVars
<1>5. Peer => UNCHANGED <<pc, loc, wr, wfin>> /\ (tr' => tr)
  BY DEF Peer, PeerSendsPart, PeerResponds, PeerSendsBody, PeerSendsStray, PeerCloses, stateVars, taskVars
<1>6. ASSUME NEW t \in Tasks, Run(t) \/ Begin(t) \/ DropBody(t) \/ Cancelled(t) PROVE WriterOK'
  BY <1>6, StartWriters, EndWriters DEF Run
<1> QED BY <1>1, <1>2, <1>3, <1>4, <1>5, <1>6 DEF Next

\* An idle connection has nothing of an exchange left, and no caller has another's answer.
LEMMA ExchangeApart == ASSUME CoreInv, ExchangeInv PROVE ExchangesApart
<1>1. ASSUME "stray" \notin scene, Reusable PROVE \A t \in Tasks : wr[t] # "writing" /\ asked[t] = "none"
  <2>1. tr /\ ~busy
    BY <1>1 DEF CoreInv, TypeOK, Reusable
  <2>2. \A t \in Tasks : ~Holds(t)
    BY <2>1 DEF CoreInv, Alone
  <2>3. \A t \in Tasks : wr[t] # "writing"
    BY <2>1, <2>2 DEF ExchangeInv, WriterOK, Holds, Past, UnderWay
  <2>4. Fresh
    BY <1>1, <2>1 DEF ExchangeInv, AnswersOK
  <2> QED BY <2>3, <2>4 DEF Fresh
<1>2. OwnResponse
  BY DEF ExchangeInv, AnswersOK, AnswerOK, OwnResponse
<1> QED BY <1>1, <1>2 DEF ExchangesApart, ReuseClean

\* The first connection is fresh.
LEMMA InitExchange == ASSUME Init PROVE ExchangeInv
<1>1. WriterOK
  BY DEF Init, WriterOK, UnderWay
<1>2. ASSUME "stray" \notin scene PROVE AnswersOK
  BY <1>2 DEF Init, NoLocals, AnswersOK, AnswerOK, UnderWay, Fresh, Blank
<1> QED BY <1>1, <1>2 DEF ExchangeInv

\* Exchanges on one connection never mix: neither in what is left when one starts, nor in
\* what a caller is answered (release_slot, finish_exchange).
THEOREM ClientKeepsApart == Spec => []ExchangesApart
<1> DEFINE Inv == CoreInv /\ ExchangeInv
<1>1. Init => Inv
  BY InitCore, InitExchange
<1>2. Inv /\ [Next]_vars => Inv'
  <2>1. [Next]_vars => scene' = scene
    BY DEF Next, Quiet, vars
  <2> QED BY <2>1, NextCore, NextWriters, NextAnswers DEF ExchangeInv
<1>3. Inv => ExchangesApart
  BY ExchangeApart
<1> QED BY <1>1, <1>2, <1>3, PTL DEF Spec

=============================================================================
