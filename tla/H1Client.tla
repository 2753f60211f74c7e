------------------------------- MODULE H1Client -------------------------------
(***************************************************************************)
(* One HTTP/1 client connection: H1ClientState (src/h1/conn.rs) and its     *)
(* driver Connection (httpunk/h1/client.py), with the response body that    *)
(* ends an exchange (httpunk/h1/share.py).                                  *)
(*                                                                         *)
(* The actors are the tasks that send requests, the idle watcher that holds *)
(* the connection's one read between exchanges, the detached writer of each *)
(* request, a task that closes the connection, and the peer. An action is   *)
(* one critical section of the state's mutex, one act on an event or one    *)
(* await; taking the transport out of the state and closing it is one       *)
(* action. Tasks run in parallel (tonio's threads; asyncio has fewer        *)
(* interleavings).                                                          *)
(*                                                                         *)
(* What the peer sends is a sequence of items: heads, body data, bytes      *)
(* nobody asked for, the end of the stream. A read takes all that arrived.  *)
(***************************************************************************)
EXTENDS Naturals, Sequences, FiniteSets

CONSTANTS
    Tasks,          \* the requests, each sent by a task of its own
    None,           \* no task
    MaxStrays,      \* unsolicited items the peer sends, a bound
    Scenarios       \* the sets of endings that happen together

Endings == {"eof", "reset", "stray", "bodyError", "asyncBody", "cancel", "close", "detach"}

ASSUME H1ClientConstants ==
    /\ None \notin Tasks /\ MaxStrays \in Nat
    /\ Scenarios \subseteq SUBSET Endings

VARIABLES
    scene,      \* the endings of this behaviour
    busy,       \* the slot is held
    active,     \* exchange_active
    closed, err, upgraded,
    tr,         \* the state holds the transport
    wslot,      \* writer: whose writer is stored, or None
    wfin,       \* writer_finished
    slot,       \* the watcher slot: "none", "armed", "completed"
    data,       \* what the watcher handed off, <<>> if nothing
    wdone,      \* the armed watcher's done event
    wpc,        \* where the watcher task is
    wgot,       \* what its read returned
    evt,        \* _idle_evt
    pc,         \* [Tasks -> where the task is]
    loc,        \* [Tasks -> the task's locals]
    wr,         \* [Tasks -> where the writer of its request is]
    cpc,        \* where close() is
    ctake,      \* the writer it took
    sock,       \* the socket: "open", "closed"
    inb,        \* the items that have arrived and were not read
    asked,      \* [Tasks -> what the peer has still to send for its request]
    strays      \* bound

stateVars == <<busy, active, closed, err, upgraded, tr, wslot, wfin>>
watchVars == <<slot, data, wdone, wpc, wgot>>
taskVars == <<pc, loc, wr>>
closeVars == <<cpc, ctake>>
wireVars == <<sock, inb, asked, strays>>
vars == <<scene, stateVars, watchVars, evt, taskVars, closeVars, wireVars>>

ResponseHead(t, b) == [kind |-> "head", of |-> t, body |-> b]
Part(t) == [kind |-> "part", of |-> t, body |-> FALSE]
Data(t) == [kind |-> "data", of |-> t, body |-> FALSE]
Stray(early) == [kind |-> IF early THEN "stray" ELSE "late", of |-> None, body |-> FALSE]
Eof == [kind |-> "eof", of |-> None, body |-> FALSE]
Broken == [kind |-> "broken", of |-> None, body |-> FALSE]   \* the error of a read

\* A task's locals: it found a watcher armed; the decoder's
\* unread items; the response allows reuse; the writer it took to join; the
\* request whose answer it took for its own; it took bytes that were there before its
\* request; it is still inside send_request; it was cancelled while it released the slot.
NoLocals ==
    [has |-> FALSE, rest |-> <<>>, keep |-> FALSE, take |-> None,
     of |-> None, early |-> FALSE, sending |-> FALSE, cancelled |-> FALSE]

Init ==
    /\ scene \in Scenarios
    /\ busy = FALSE /\ active = FALSE /\ closed = FALSE /\ err = FALSE /\ upgraded = FALSE
    /\ tr = TRUE /\ wslot = None /\ wfin = FALSE
    /\ slot = "armed" /\ data = <<>> /\ wdone = FALSE /\ wpc = "start" /\ wgot = <<>>
    /\ evt = FALSE
    /\ pc = [t \in Tasks |-> "idle"] /\ loc = [t \in Tasks |-> NoLocals]
    /\ wr = [t \in Tasks |-> "none"]
    /\ cpc = "open" /\ ctake = None /\ sock = "open" /\ inb = <<>>
    /\ asked = [t \in Tasks |-> "none"]
    /\ strays = IF "stray" \in scene THEN MaxStrays ELSE 0

Goto(t, place) == pc' = [pc EXCEPT ![t] = place]

\* close_now() and the close of the transport it returns; a transport handed to a
\* tunnel is not touched.
CloseNow ==
    /\ closed' = TRUE
    /\ tr' = FALSE
    /\ sock' = IF tr THEN "closed" ELSE sock

\* A read takes what arrived and leaves the end of the stream, after which nothing comes.
Ended(items) == items # <<>> /\ items[Len(items)] = Eof
BeforeEnd(items) == IF Ended(items) THEN SubSeq(items, 1, Len(items) - 1) ELSE items
FromEnd(items) == IF Ended(items) THEN <<Eof>> ELSE <<>>

\* The first item is the end of the stream, or there is nothing to read any more.
AtEnd(items) == items = <<>> \/ items[1] \in {Eof, Broken}

-----------------------------------------------------------------------------
(* The slot: _acquire, wait_idle.                                            *)

Begin(t) ==
    /\ pc[t] = "idle"
    /\ Goto(t, "try1")
    /\ UNCHANGED <<stateVars, watchVars, evt, loc, wr, closeVars, wireVars>>

\* try_begin_exchange.
TryBegin(t) ==
    /\ pc[t] \in {"try1", "try2"}
    /\ IF busy
       THEN /\ Goto(t, IF pc[t] = "try1" THEN "clear" ELSE "wait")
            /\ UNCHANGED <<busy, active, wfin, loc>>
       ELSE /\ busy' = TRUE /\ active' = FALSE /\ wfin' = FALSE
            /\ Goto(t, "send")
            /\ loc' = [loc EXCEPT ![t].sending = TRUE]
    /\ UNCHANGED <<closed, err, upgraded, tr, wslot, watchVars, evt, wr, closeVars, wireVars>>

\* A plausible bug: no second try after the clear.
ClearIdleEvtMutant(t) ==
    /\ pc[t] = "clear"
    /\ evt' = FALSE
    /\ Goto(t, "wait")
    /\ UNCHANGED <<stateVars, watchVars, loc, wr, closeVars, wireVars>>

ClearIdleEvt(t) ==
    /\ pc[t] = "clear"
    /\ evt' = FALSE
    /\ Goto(t, "try2")
    /\ UNCHANGED <<stateVars, watchVars, loc, wr, closeVars, wireVars>>

WaitIdleEvt(t) ==
    /\ pc[t] = "wait"
    /\ Goto(t, IF evt THEN "try1" ELSE "parked")
    /\ UNCHANGED <<stateVars, watchVars, evt, loc, wr, closeVars, wireVars>>

\* end_exchange, exactly once; the event is set afterwards.
EndExchange(t) ==
    /\ pc[t] = "release"
    /\ busy' = FALSE
    /\ active' = IF busy THEN FALSE ELSE active
    /\ Goto(t, IF busy THEN "wake" ELSE "over")
    /\ UNCHANGED <<closed, err, upgraded, tr, wslot, wfin, watchVars, evt, loc, wr, closeVars, wireVars>>

\* A plausible bug: the waiters are not woken.
SetIdleEvtMutant(t) ==
    /\ pc[t] = "wake"
    /\ evt' = TRUE
    /\ pc' = [u \in Tasks |-> IF u = t THEN "over" ELSE pc[u]]
    /\ UNCHANGED <<stateVars, watchVars, loc, wr, closeVars, wireVars>>

SetIdleEvt(t) ==
    /\ pc[t] = "wake"
    /\ evt' = TRUE
    /\ pc' = [u \in Tasks |-> IF u = t THEN "over" ELSE IF pc[u] = "parked" THEN "try1" ELSE pc[u]]
    /\ UNCHANGED <<stateVars, watchVars, loc, wr, closeVars, wireVars>>

\* The request is over. A cancellation inside release_slot that send_request still
\* awaits goes on to its `except`.
Over(t) ==
    /\ pc[t] = "over"
    /\ Goto(t, IF loc[t].cancelled /\ loc[t].sending THEN "fail" ELSE "ended")
    /\ loc' = [loc EXCEPT ![t] = [NoLocals EXCEPT !.cancelled = loc[t].cancelled]]
    /\ UNCHANGED <<stateVars, watchVars, evt, wr, closeVars, wireVars>>

-----------------------------------------------------------------------------
(* send_request up to the spawn of the writer.                               *)

\* A plausible bug: the watcher's done event is not passed on, and the task reads beside
\* the parked watcher.
BeginSendMutant(t) ==
    /\ pc[t] = "send"
    /\ Goto(t, IF err \/ ~tr THEN "fail" ELSE "peek")
    /\ UNCHANGED <<stateVars, watchVars, evt, loc, wr, closeVars, wireVars>>

\* begin_send: a dead connection gives the request back unsent.
BeginSend(t) ==
    /\ pc[t] = "send"
    /\ IF err \/ ~tr
       THEN Goto(t, "fail") /\ UNCHANGED loc
       ELSE /\ Goto(t, "peek")
            /\ loc' = [loc EXCEPT ![t].has = slot # "none"]
    /\ UNCHANGED <<stateVars, watchVars, evt, wr, closeVars, wireVars>>

\* receive_nowait beside the parked watcher: delivered bytes poison the connection; a
\* transport closed meanwhile raises or has nothing.
Peek(t) ==
    /\ pc[t] = "peek"
    /\ IF sock = "open" /\ ~AtEnd(inb)
       THEN /\ inb' = FromEnd(inb)
            /\ err' = TRUE /\ CloseNow
            /\ Goto(t, "fail")
       ELSE /\ \E next \in {"writable"} \cup (IF sock = "closed" THEN {"fail"} ELSE {}) : Goto(t, next)
            /\ UNCHANGED <<inb, err, closed, tr, sock>>
    /\ UNCHANGED <<busy, active, upgraded, wslot, wfin, watchVars, evt, loc, wr, closeVars, asked, strays>>

\* The transport is writable: at once, or while the watcher's read is still parked.
Writable(t) ==
    /\ pc[t] = "writable"
    /\ Goto(t, "start")
    /\ UNCHANGED <<stateVars, watchVars, evt, loc, wr, closeVars, wireVars>>

\* The watcher's read completed first, under the idle rules.
ReadableFirst(t) ==
    /\ pc[t] = "writable" /\ loc[t].has /\ wdone
    /\ Goto(t, "fail")
    /\ UNCHANGED <<stateVars, watchVars, evt, loc, wr, closeVars, wireVars>>

\* exchange_started: from here the watcher's read belongs to the exchange.
ExchangeStarted(t) ==
    /\ pc[t] = "start"
    /\ active' = TRUE
    /\ Goto(t, "spawn")
    /\ UNCHANGED <<busy, closed, err, upgraded, tr, wslot, wfin, watchVars, evt, loc, wr, closeVars, wireVars>>

SpawnWriter(t) ==
    /\ pc[t] = "spawn"
    /\ wr' = [wr EXCEPT ![t] = "writing"]
    /\ asked' = [asked EXCEPT ![t] = "any"]
    /\ Goto(t, "store")
    /\ UNCHANGED <<stateVars, watchVars, evt, loc, closeVars, sock, inb, strays>>

\* store_writer: refused if the connection closed meanwhile; the task then joins the
\* writer itself.
StoreWriter(t) ==
    /\ pc[t] = "store"
    /\ wslot' = IF closed THEN wslot ELSE t
    /\ Goto(t, IF closed THEN "refused" ELSE "handoff")
    /\ UNCHANGED <<busy, active, closed, err, upgraded, tr, wfin, watchVars, evt, loc, wr, closeVars, wireVars>>

RefusedJoined(t) ==
    /\ pc[t] = "refused" /\ wr[t] = "over"
    /\ Goto(t, "fail")
    /\ UNCHANGED <<stateVars, watchVars, evt, loc, wr, closeVars, wireVars>>

-----------------------------------------------------------------------------
(* The response: _read_head, H1ResponseBody.                                 *)

\* A head is parsed from the items read, once it is complete: an upgrade, a response without a body, or
\* one whose body is read next. Whatever arrived first is taken for the head.
Parsed(t, items) ==
    IF items[1].kind = "part" /\ Len(items) = 1
    THEN Goto(t, "head") /\ UNCHANGED loc
    ELSE LET head == IF items[1].kind = "part" THEN Tail(items) ELSE items IN
         \E keep \in BOOLEAN :
         \E next \in IF head[1].body THEN {"body"}
                     ELSE {"finish"} \cup ({"detach"} \cap scene) :
             /\ loc' = [loc EXCEPT ![t].of = head[1].of, ![t].early = head[1].kind = "stray",
                                   ![t].rest = Tail(head), ![t].keep = keep,
                                   ![t].sending = next # "body"]
             /\ Goto(t, next)

\* A plausible bug: the watcher's slot is not cleared.
TakeHandoffMutant(t) ==
    /\ pc[t] = "handoff" /\ (loc[t].has => wdone)
    /\ data' = <<>> /\ UNCHANGED slot
    /\ IF loc[t].has /\ ~AtEnd(data)
       THEN Parsed(t, data)
       ELSE Goto(t, IF loc[t].has THEN "fail" ELSE "head") /\ UNCHANGED loc
    /\ UNCHANGED <<stateVars, wdone, wpc, wgot, evt, wr, closeVars, wireVars>>

\* take_watcher_handoff: the watcher's completed read is the first one. Without a
\* watcher the task reads for itself (IdleWatched says that there always is one).
TakeHandoff(t) ==
    /\ pc[t] = "handoff" /\ (loc[t].has => wdone)
    /\ slot' = (IF loc[t].has THEN "none" ELSE slot) /\ data' = <<>>
    /\ IF loc[t].has /\ ~AtEnd(data)
       THEN Parsed(t, data)
       ELSE Goto(t, IF loc[t].has THEN "fail" ELSE "head") /\ UNCHANGED loc
    /\ UNCHANGED <<stateVars, wdone, wpc, wgot, evt, wr, closeVars, wireVars>>

\* The task's own read of the head; a closed transport ends it.
ReadHead(t) ==
    /\ pc[t] = "head"
    /\ \/ /\ sock = "open" /\ ~AtEnd(inb)
          /\ Parsed(t, BeforeEnd(inb))
          /\ inb' = FromEnd(inb)
       \/ /\ sock = "closed" \/ (inb # <<>> /\ AtEnd(inb))
          /\ Goto(t, "fail") /\ UNCHANGED <<loc, inb>>
    /\ UNCHANGED <<stateVars, watchVars, evt, wr, closeVars, sock, asked, strays>>

\* The body's only item: decoded, or read from the transport.
ReadBody(t) ==
    /\ pc[t] = "body"
    /\ \/ /\ loc[t].rest # <<>>
          /\ loc' = [loc EXCEPT ![t].rest = Tail(@)]
          /\ Goto(t, "finish") /\ UNCHANGED inb
       \/ /\ loc[t].rest = <<>> /\ sock = "open" /\ ~AtEnd(inb)
          /\ loc' = [loc EXCEPT ![t].rest = Tail(BeforeEnd(inb))]
          /\ inb' = FromEnd(inb)
          /\ Goto(t, "finish")
       \/ /\ loc[t].rest = <<>> /\ (sock = "closed" \/ (inb # <<>> /\ AtEnd(inb)))
          /\ loc' = [loc EXCEPT ![t].keep = FALSE]
          /\ Goto(t, "verdict") /\ UNCHANGED inb
    /\ UNCHANGED <<stateVars, watchVars, evt, wr, closeVars, sock, asked, strays>>

\* A plausible bug: an unread body leaves the connection reusable.
DropBodyMutant(t) ==
    /\ pc[t] = "body"
    /\ Goto(t, "verdict")
    /\ UNCHANGED <<stateVars, watchVars, evt, loc, wr, closeVars, wireVars>>

\* aclose() of an unfinished body, or its reader cancelled: the connection cannot be
\* reused.
DropBody(t) ==
    /\ pc[t] = "body"
    /\ loc' = [loc EXCEPT ![t].keep = FALSE]
    /\ Goto(t, "verdict")
    /\ UNCHANGED <<stateVars, watchVars, evt, wr, closeVars, wireVars>>

\* A plausible bug: the connection is poisoned and left open.
FinishMutant(t) ==
    /\ pc[t] = "finish"
    /\ IF loc[t].rest # <<>>
       THEN /\ err' = TRUE /\ UNCHANGED <<closed, tr, sock>>
            /\ loc' = [loc EXCEPT ![t].keep = FALSE, ![t].rest = <<>>]
       ELSE UNCHANGED <<err, closed, tr, sock, loc>>
    /\ Goto(t, "verdict")
    /\ UNCHANGED <<busy, active, upgraded, wslot, wfin, watchVars, evt, wr, closeVars, inb, asked, strays>>

\* H1ResponseBody._finish: bytes past the body poison the connection.
Finish(t) ==
    /\ pc[t] = "finish"
    /\ IF loc[t].rest # <<>>
       THEN /\ err' = TRUE /\ CloseNow
            /\ loc' = [loc EXCEPT ![t].keep = FALSE, ![t].rest = <<>>]
       ELSE UNCHANGED <<err, closed, tr, sock, loc>>
    /\ Goto(t, "verdict")
    /\ UNCHANGED <<busy, active, upgraded, wslot, wfin, watchVars, evt, wr, closeVars, inb, asked, strays>>

\* upgrade(), after the writer was joined: the transport leaves the state for good.
Detach(t) ==
    /\ pc[t] = "detached"
    /\ upgraded' = TRUE /\ closed' = TRUE /\ tr' = FALSE
    /\ Goto(t, "release")
    /\ UNCHANGED <<busy, active, err, wslot, wfin, watchVars, evt, loc, wr, closeVars, wireVars>>

-----------------------------------------------------------------------------
(* release_slot and the failure path.                                        *)

\* A plausible bug: the writer's flag is not read.
FinishExchangeMutant(t) ==
    /\ pc[t] = "verdict"
    /\ IF loc[t].keep
       THEN Goto(t, "arm") /\ UNCHANGED <<closed, tr, sock>>
       ELSE Goto(t, IF wfin THEN "shut" ELSE "tear") /\ CloseNow
    /\ UNCHANGED <<busy, active, err, upgraded, wslot, wfin, watchVars, evt, loc, wr, closeVars,
                   inb, asked, strays>>

\* finish_exchange: reuse only after a keep-alive response and a request sent in full.
FinishExchange(t) ==
    /\ pc[t] = "verdict"
    /\ IF loc[t].keep /\ wfin
       THEN Goto(t, "arm") /\ UNCHANGED <<closed, tr, sock>>
       ELSE Goto(t, IF wfin THEN "shut" ELSE "tear") /\ CloseNow
    /\ UNCHANGED <<busy, active, err, upgraded, wslot, wfin, watchVars, evt, loc, wr, closeVars,
                   inb, asked, strays>>

\* _shutdown: the orderly end of the transport, awaited.
Shutdown(t) ==
    /\ pc[t] = "shut"
    /\ Goto(t, "tear")
    /\ UNCHANGED <<stateVars, watchVars, evt, loc, wr, closeVars, wireVars>>

\* arm_watcher: the idle read starts before the slot is released.
ArmWatcher(t) ==
    /\ pc[t] = "arm"
    /\ IF closed \/ err \/ ~tr \/ slot # "none"
       THEN Goto(t, "tear") /\ UNCHANGED <<active, slot, data, wdone>>
       ELSE /\ active' = FALSE
            /\ slot' = "armed" /\ data' = <<>> /\ wdone' = FALSE
            /\ Goto(t, "watch")
    /\ UNCHANGED <<busy, closed, err, upgraded, tr, wslot, wfin, wpc, wgot, evt, loc, wr, closeVars, wireVars>>

SpawnWatcher(t) ==
    /\ pc[t] = "watch"
    /\ wpc' = "start"
    /\ Goto(t, "handle")
    /\ UNCHANGED <<stateVars, slot, data, wdone, wgot, evt, loc, wr, closeVars, wireVars>>

\* store_watcher_handle: refused once closed, and then joined here.
StoreHandle(t) ==
    /\ pc[t] = "handle"
    /\ closed => wpc = "none"
    /\ Goto(t, "tear")
    /\ UNCHANGED <<stateVars, watchVars, evt, loc, wr, closeVars, wireVars>>

\* take_writer: one owner joins the stored writer.
TakeWriter(t) ==
    /\ pc[t] \in {"tear", "detach", "failed"}
    /\ wslot' = None
    /\ loc' = [loc EXCEPT ![t].take = wslot]
    /\ Goto(t, CASE pc[t] = "tear" -> "join"
                 [] pc[t] = "detach" -> "djoin"
                 [] pc[t] = "failed" -> "fjoin")
    /\ UNCHANGED <<busy, active, closed, err, upgraded, tr, wfin, watchVars, evt, wr, closeVars, wireVars>>

JoinWriter(t) ==
    /\ pc[t] \in {"join", "djoin", "fjoin"}
    /\ loc[t].take # None => wr[loc[t].take] = "over"
    /\ Goto(t, CASE pc[t] = "join" -> "release"
                 [] pc[t] = "djoin" -> "detached"
                 [] pc[t] = "fjoin" -> "fwatch")
    /\ UNCHANGED <<stateVars, watchVars, evt, loc, wr, closeVars, wireVars>>

\* _fail: the error is stored, the connection is closed before anything suspends.
Fail(t) ==
    /\ pc[t] = "fail"
    /\ \E e \in {err, TRUE} : err' = e
    /\ CloseNow
    /\ Goto(t, "failed")
    /\ UNCHANGED <<busy, active, upgraded, wslot, wfin, watchVars, evt, loc, wr, closeVars,
                   inb, asked, strays>>

JoinWatcher(t) ==
    /\ pc[t] = "fwatch" /\ (slot = "none" \/ wdone)
    /\ Goto(t, "release")
    /\ UNCHANGED <<stateVars, watchVars, evt, loc, wr, closeVars, wireVars>>

\* A cancellation at one of the awaits: of the slot, of the head, or of a join.
Cancelled(t) ==
    /\ "cancel" \in scene
    /\ \/ /\ pc[t] = "parked" /\ Goto(t, "ended") /\ UNCHANGED loc
       \/ /\ \/ pc[t] \in {"head", "refused"} \/ (pc[t] = "djoin" /\ loc[t].take # None)
             \/ pc[t] \in {"writable", "handoff"} /\ loc[t].has
          /\ Goto(t, "fail") /\ UNCHANGED loc
       \/ /\ (pc[t] = "fjoin" /\ loc[t].take # None) \/ (pc[t] = "fwatch" /\ slot # "none")
          /\ Goto(t, "release") /\ UNCHANGED loc
       \/ /\ pc[t] = "shut" \/ (pc[t] = "handle" /\ closed)
             \/ (pc[t] = "join" /\ loc[t].take # None /\ wr[loc[t].take] # "over")
          /\ Goto(t, "release") /\ loc' = [loc EXCEPT ![t].cancelled = TRUE]
    /\ UNCHANGED <<stateVars, watchVars, evt, wr, closeVars, wireVars>>

-----------------------------------------------------------------------------
(* The writer of task t's request: _write_request.                           *)

WriterSent(t) ==
    /\ wr[t] = "writing" /\ sock = "open"
    /\ wr' = [wr EXCEPT ![t] = "sent"]
    /\ wfin' = TRUE
    /\ UNCHANGED <<busy, active, closed, err, upgraded, tr, wslot, watchVars, evt, pc, loc, closeVars, wireVars>>

\* The transport failed under the write, or an async body's scope was cancelled by
\* who joins the writer: recorded, not fatal by itself.
WriterStopped(t) ==
    /\ wr[t] = "writing"
    /\ \/ sock = "closed" \/ "reset" \in scene
       \/ "asyncBody" \in scene /\ \E u \in Tasks : loc[u].take = t /\ pc[u] = "djoin"
    /\ wr' = [wr EXCEPT ![t] = "over"]
    /\ UNCHANGED <<stateVars, watchVars, evt, pc, loc, closeVars, wireVars>>

\* A plausible bug: the error is stored and the connection left open.
WriterBodyErrorMutant(t) ==
    /\ "bodyError" \in scene
    /\ wr[t] = "writing"
    /\ err' = TRUE
    /\ wr' = [wr EXCEPT ![t] = "over"]
    /\ UNCHANGED <<busy, active, closed, tr, upgraded, wslot, wfin, watchVars, evt, pc, loc, closeVars, wireVars>>

\* The application's body raised: the connection fails at once.
WriterBodyError(t) ==
    /\ "bodyError" \in scene
    /\ wr[t] = "writing"
    /\ err' = TRUE /\ CloseNow
    /\ wr' = [wr EXCEPT ![t] = "over"]
    /\ UNCHANGED <<busy, active, upgraded, wslot, wfin, watchVars, evt, pc, loc, closeVars, inb, asked, strays>>

WriterDone(t) ==
    /\ wr[t] = "sent"
    /\ wr' = [wr EXCEPT ![t] = "over"]
    /\ UNCHANGED <<stateVars, watchVars, evt, pc, loc, closeVars, wireVars>>

-----------------------------------------------------------------------------
(* The idle watcher: _watch_idle.                                            *)

WatchStart ==
    /\ wpc = "start"
    /\ wpc' = IF tr THEN "read" ELSE "done"
    /\ slot' = IF tr \/ slot = "none" THEN slot ELSE "completed"
    /\ UNCHANGED <<stateVars, data, wdone, wgot, evt, taskVars, closeVars, wireVars>>

\* The one read returns bytes, the end, or the error of a closed transport.
WatchRead ==
    /\ wpc = "read"
    /\ \/ /\ sock = "open" /\ inb # <<>>
          /\ wgot' = IF AtEnd(inb) THEN inb ELSE BeforeEnd(inb)
          /\ inb' = FromEnd(inb)
          /\ wpc' = "got"
       \/ /\ sock = "closed" \/ "reset" \in scene
          /\ wgot' = <<Broken>> /\ wpc' = "got" /\ UNCHANGED inb
    /\ UNCHANGED <<stateVars, slot, data, wdone, evt, taskVars, closeVars, sock, asked, strays>>

\* watcher_completed: the exchange's first read if one is active, else the idle rules.
WatcherCompleted ==
    /\ wpc = "got"
    /\ slot' = IF slot = "none" THEN "none" ELSE "completed"
    /\ \/ /\ slot = "none" \/ (~active /\ wgot = <<Broken>> /\ closed)
          /\ wpc' = "done" /\ UNCHANGED <<data, closed, tr, sock>>
       \/ /\ slot # "none" /\ active
          /\ data' = wgot
          /\ wpc' = "done" /\ UNCHANGED <<closed, tr, sock>>
       \/ /\ slot # "none" /\ ~active /\ wgot[1] = Eof
          /\ wpc' = "done" /\ CloseNow /\ UNCHANGED data
       \/ /\ slot # "none" /\ ~active /\ wgot[1] # Eof /\ (wgot[1] = Broken => ~closed)
          /\ wpc' = "poison" /\ UNCHANGED <<data, closed, tr, sock>>
    /\ wgot' = <<>>
    /\ UNCHANGED <<busy, active, err, upgraded, wslot, wfin, wdone, evt, taskVars, closeVars, inb, asked, strays>>

\* poison_unexpected, or _fail with the transport's error.
WatchPoison ==
    /\ wpc = "poison"
    /\ err' = TRUE /\ CloseNow
    /\ wpc' = "done"
    /\ UNCHANGED <<busy, active, upgraded, wslot, wfin, slot, data, wdone, wgot, evt, taskVars, closeVars,
                   inb, asked, strays>>

WatchDone ==
    /\ wpc = "done"
    /\ wdone' = TRUE
    /\ wpc' = "none"
    /\ UNCHANGED <<stateVars, slot, data, wgot, evt, taskVars, closeVars, wireVars>>

-----------------------------------------------------------------------------
(* close(), the peer.                                                        *)

\* A plausible bug: the transport is dropped without being closed.
MarkClosedMutant ==
    /\ "close" \in scene
    /\ cpc = "open"
    /\ closed' = TRUE /\ tr' = FALSE
    /\ wslot' = None
    /\ ctake' = wslot
    /\ cpc' = "joining"
    /\ UNCHANGED <<busy, active, err, upgraded, wfin, watchVars, evt, taskVars, wireVars>>

\* mark_closed and the transport's close, which ends every parked read and write.
MarkClosed ==
    /\ "close" \in scene
    /\ cpc = "open"
    /\ CloseNow
    /\ wslot' = None
    /\ ctake' = wslot
    /\ cpc' = "joining"
    /\ UNCHANGED <<busy, active, err, upgraded, wfin, watchVars, evt, taskVars, inb, asked, strays>>

\* The watcher and the writer are joined.
CloseJoined ==
    /\ cpc = "joining"
    /\ slot = "none" \/ wdone
    /\ ctake # None => wr[ctake] = "over"
    /\ cpc' = "closed"
    /\ UNCHANGED <<stateVars, watchVars, evt, taskVars, ctake, wireVars>>

NoEof == \A i \in 1..Len(inb) : inb[i] # Eof

\* The first bytes of a response, or an informational one before it.
PeerSendsPart ==
    /\ sock = "open" /\ NoEof
    /\ \E t \in Tasks :
         /\ asked[t] = "any"
         /\ inb' = Append(inb, Part(t))
         /\ asked' = [asked EXCEPT ![t] = "head"]
    /\ UNCHANGED <<stateVars, watchVars, evt, taskVars, closeVars, sock, strays>>

PeerResponds ==
    /\ sock = "open" /\ NoEof
    /\ \E t \in Tasks, b \in BOOLEAN :
         /\ asked[t] \in {"any", "head"}
         /\ inb' = Append(inb, ResponseHead(t, b))
         /\ asked' = [asked EXCEPT ![t] = IF b THEN "data" ELSE "none"]
    /\ UNCHANGED <<stateVars, watchVars, evt, taskVars, closeVars, sock, strays>>

PeerSendsBody ==
    /\ sock = "open" /\ NoEof
    /\ \E t \in Tasks :
         /\ asked[t] = "data"
         /\ asked' = [asked EXCEPT ![t] = "none"]
         /\ inb' = Append(inb, Data(t))
    /\ UNCHANGED <<stateVars, watchVars, evt, taskVars, closeVars, sock, strays>>

\* Bytes nobody asked for: before the next request was submitted, or during one.
PeerSendsStray ==
    /\ sock = "open" /\ NoEof /\ strays > 0
    /\ strays' = strays - 1
    /\ inb' = Append(inb, Stray(~busy))
    /\ UNCHANGED <<stateVars, watchVars, evt, taskVars, closeVars, sock, asked>>

PeerCloses ==
    /\ "eof" \in scene
    /\ sock = "open" /\ NoEof
    /\ inb' = Append(inb, Eof)
    /\ UNCHANGED <<stateVars, watchVars, evt, taskVars, closeVars, sock, asked, strays>>

-----------------------------------------------------------------------------

Acquire(t) ==
    \/ TryBegin(t) \/ ClearIdleEvt(t) \/ WaitIdleEvt(t)
    \/ EndExchange(t) \/ SetIdleEvt(t) \/ Over(t)

Send(t) ==
    \/ BeginSend(t) \/ Peek(t) \/ Writable(t) \/ ReadableFirst(t)
    \/ ExchangeStarted(t) \/ SpawnWriter(t) \/ StoreWriter(t) \/ RefusedJoined(t)

Receive(t) ==
    \/ TakeHandoff(t) \/ ReadHead(t) \/ ReadBody(t) \/ Finish(t) \/ Detach(t)

ReleaseSlot(t) ==
    \/ FinishExchange(t) \/ Shutdown(t) \/ ArmWatcher(t) \/ SpawnWatcher(t) \/ StoreHandle(t)
    \/ TakeWriter(t) \/ JoinWriter(t) \/ Fail(t) \/ JoinWatcher(t)

Run(t) == Acquire(t) \/ Send(t) \/ Receive(t) \/ ReleaseSlot(t)

Write(t) == WriterSent(t) \/ WriterStopped(t) \/ WriterBodyError(t) \/ WriterDone(t)

Watch == WatchStart \/ WatchRead \/ WatcherCompleted \/ WatchPoison \/ WatchDone

Peer == PeerSendsPart \/ PeerResponds \/ PeerSendsBody \/ PeerSendsStray \/ PeerCloses

\* Nobody has anything left to do, or the tasks wait for a peer that stays silent.
Quiet ==
    /\ \A t \in Tasks : pc[t] \in {"ended", "handoff", "head", "body", "djoin", "parked"}
    /\ UNCHANGED vars

Next ==
    \/ \E t \in Tasks : Begin(t) /\ UNCHANGED scene
    \/ \E t \in Tasks : Run(t) /\ UNCHANGED scene
    \/ \E t \in Tasks : DropBody(t) /\ UNCHANGED scene
    \/ \E t \in Tasks : Cancelled(t) /\ UNCHANGED scene
    \/ \E t \in Tasks : Write(t) /\ UNCHANGED scene
    \/ Watch /\ UNCHANGED scene
    \/ MarkClosed /\ UNCHANGED scene
    \/ CloseJoined /\ UNCHANGED scene
    \/ Peer /\ UNCHANGED scene
    \/ Quiet

Spec == Init /\ [][Next]_vars

\* The tasks, the watcher and close() are scheduled; a write on a closed transport
\* fails. The peer owes nothing.
LiveSpec ==
    /\ Spec
    /\ \A t \in Tasks :
         /\ WF_vars(Run(t) /\ UNCHANGED scene)
         /\ WF_vars(sock = "closed" /\ WriterStopped(t) /\ UNCHANGED scene)
         /\ WF_vars(WriterDone(t) /\ UNCHANGED scene)
    /\ WF_vars(Watch /\ UNCHANGED scene) /\ WF_vars(CloseJoined /\ UNCHANGED scene)

-----------------------------------------------------------------------------
(* Properties.                                                               *)

Places ==
    {"idle", "try1", "try2", "clear", "wait", "parked", "send", "peek", "writable", "start",
     "spawn", "store", "refused", "handoff", "head", "body", "finish", "detach", "djoin",
     "detached", "verdict", "shut", "arm", "watch", "handle", "tear", "join", "fail", "failed",
     "fjoin", "fwatch", "release", "wake", "over", "ended"}

\* Every variable keeps its type; a connection that stored an error is closed, and a
\* closed one gave its transport up: to the socket's close, or to a tunnel.
TypeOK ==
    /\ \A b \in {busy, active, closed, err, upgraded, tr, wfin, wdone, evt} : b \in BOOLEAN
    /\ {wslot, ctake} \subseteq Tasks \cup {None}
    /\ slot \in {"none", "armed", "completed"}
    /\ wpc \in {"none", "start", "read", "got", "poison", "done"}
    /\ cpc \in {"open", "joining", "closed"}
    /\ pc \in [Tasks -> Places]
    /\ wr \in [Tasks -> {"none", "writing", "sent", "over"}]
    /\ asked \in [Tasks -> {"none", "any", "head", "data"}]
    /\ (err => closed) /\ (closed <=> ~tr)
    /\ (tr => sock = "open") /\ (~tr /\ ~upgraded => sock = "closed")

\* A task between the claim of the slot and its release.
InExchange(t) ==
    pc[t] \notin {"idle", "ended", "try1", "clear", "try2", "wait", "parked", "wake", "over"}

\* The connection can be picked for the next request, by a task or by a pool.
Reusable == ~busy /\ ~closed /\ ~err

\* "the connection's single reader" (_read_head): no two tasks ever read the open
\* transport at once, across the hand-over from watcher to exchange and back.
OneReader ==
    sock = "open" =>
        LET Reads(t) == pc[t] = "head" \/ (pc[t] = "body" /\ loc[t].rest = <<>>)
        IN  Cardinality({t \in Tasks : Reads(t)}) + (IF wpc = "read" THEN 1 ELSE 0) <= 1

\* "an interrupted join never leaves a reusable connection without read interest"
\* (release_slot): a reusable connection has a watcher that will see the peer's close
\* or stray bytes.
IdleWatched ==
    Reusable => slot # "none" /\ wpc \in {"start", "read", "got", "poison"}

\* The transport always has its one reader: never two, and never none while it is idle.
ReadInterest == TypeOK /\ OneReader /\ IdleWatched

\* Reuse "only once both the read and write halves" are done (release_slot): while the
\* connection is reusable no request is still being written, none is unanswered, and
\* nothing is left of an answer. (Stray bytes taken for a response spoil it, as they
\* spoil OwnResponse: README, known divergences.)
ReuseClean ==
    "stray" \notin scene /\ Reusable => \A t \in Tasks : wr[t] # "writing" /\ asked[t] = "none"

\* A caller gets the answer to its own request, however exchanges before it were
\* cancelled, answered early or dropped.
OwnResponse == "stray" \notin scene => \A t \in Tasks : loc[t].of # None => loc[t].of = t

\* Exchanges on one connection never mix: neither in what is left when one starts, nor in
\* what a caller is answered.
ExchangesApart == ReuseClean /\ OwnResponse

\* Bytes delivered before a request "are always a violation, never that request's
\* response" (send_request).
StrayNeverResponse == \A t \in Tasks : ~loc[t].early

\* No task sleeps on a free slot: either its release is still to be announced, or a task
\* that cleared the announcement meanwhile is about to claim it.
NoStrandedWaiter ==
    \A t \in Tasks :
        pc[t] = "parked" => busy \/ \E u \in Tasks : pc[u] \in {"wake", "try2"}

\* "a pool never observes a held slot as idle" (_acquire): the slot of a request that
\* is under way is never free.
HeldIsBusy == \A t \in Tasks : InExchange(t) /\ ~loc[t].cancelled => busy

\* "the transport is closed by now, which ends a write parked on it"
\* (_teardown_writer): who joins a writer that still writes has closed the transport.
JoinedWriterCanEnd ==
    \A t \in Tasks :
        pc[t] \in {"join", "djoin", "fjoin"} /\ loc[t].take # None =>
            wr[loc[t].take] # "writing" \/ sock = "closed"

\* "Hand the transport ... to an H1Upgraded the caller owns" (send_request): the tunnel
\* of an upgraded connection has a transport.
TunnelHasTransport == upgraded => sock = "open"

\* close() ends, without any help from the peer.
CloseEnds == cpc = "joining" ~> cpc = "closed"

\* Every request on a connection that is closed, by whomever, ends.
ClosedEndsRequests == \A t \in Tasks : closed /\ pc[t] # "idle" ~> pc[t] = "ended"

\* Once the connection is closed all that goes on over it ends: close() and the requests.
ClosedEnds == CloseEnds /\ ClosedEndsRequests

=============================================================================
