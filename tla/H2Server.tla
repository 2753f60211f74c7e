------------------------------- MODULE H2Server -------------------------------
(***************************************************************************)
(* The life of an HTTP/2 server connection: the requests the read pump      *)
(* opens and publishes to the accept loop (httpunk/h2/server.py), the caps  *)
(* on what the peer may open and reset, the two-phase graceful shutdown     *)
(* with its GOAWAYs and its PING (src/h2/conn.rs), the failure of the       *)
(* connection, and close(), which joins the write pump and the read pump    *)
(* (httpunk/h2/connection.py).                                              *)
(*                                                                         *)
(* The state behind the mutex is one record, me, and an operator that takes *)
(* and returns it is one function called with the lock held. What a task    *)
(* does for a verdict after it has left the lock (publish a request, end    *)
(* the accept loop) are acts of its own, one step each: tasks run in        *)
(* parallel (tonio). The write event is set in the step that queues a       *)
(* frame; the interleavings of that wake-up, and bodies and windows, are    *)
(* those of H2Send and H2Recv, and a PING of the peer's is left out. The    *)
(* peer may send anything.                                                  *)
(***************************************************************************)
EXTENDS Naturals, Sequences, FiniteSets

CONSTANTS
    N,              \* the peer's stream ids are 1..N, in order
    MaxResets,      \* max_pending_accept_reset_streams
    MaxErrors,      \* max_local_error_reset_streams
    Scenes          \* what may happen to the connection, how many streams may be active,
                    \* and, a bound, how many frames the peer sends, its PING ACK apart

ASSUME H2ServerConstants ==
    /\ {N, MaxResets, MaxErrors} \subseteq Nat
    /\ Scenes \subseteq
         [env : SUBSET {"bad", "reset", "goaway", "shutdown", "eof", "broken", "leave"},
          maxConcurrent : Nat, frames : Nat]

Ids == 1..N
Top == N + 1        \* MAX_STREAM_ID
End == 0            \* the None that ends the accept loop
NoId == 0

\* The tasks that act on a verdict: the handler of request s is task s.
Reader == N + 1
Writer == N + 2
Stopper == N + 3
Closer == N + 4
Actors == 1..(N + 4)

VARIABLES
    scene,      \* the scenario
    me,         \* the locked state
    acts,       \* [Actors -> what the task has still to send to the accept queue]
    queue,      \* the accept queue
    writeEvt,   \* _write_evt
    sendLock,   \* who holds _send_lock while it writes, or NoId
    shut,       \* the transport was shut down
    ping,       \* where the shutdown PING is
    rp,         \* the read pump, and the stream its error is about
    wp,         \* the write pump, and the stop flag it took
    lp,         \* the accept loop, and the request it has received
    handler,    \* [Ids -> the task that answers the request]
    cp,         \* the caller of close()
    framesLeft  \* bound: frames left to the peer

pumps == <<rp, wp>>
bounds == <<framesLeft, scene>>
serverVars ==
    <<me, acts, queue, writeEvt, sendLock, shut, ping, pumps, lp, handler, cp, bounds>>

ServerInit ==
    /\ scene \in Scenes
    /\ me = [stream |-> [s \in Ids |-> "idle"], active |-> 0,
             lastRecv |-> 0, lastProcessed |-> 0, maxId |-> Top,
             pendingAccept |-> {}, resetPending |-> {}, errors |-> 0, ignored |-> {},
             graceful |-> FALSE, final |-> FALSE, peerGoAway |-> FALSE, replied |-> FALSE,
             error |-> FALSE, stop |-> FALSE, pending |-> FALSE, sent |-> <<>>, flags |-> {}]
    /\ acts = [a \in Actors |-> <<>>]
    /\ queue = <<>> /\ writeEvt = FALSE /\ sendLock = NoId /\ shut = FALSE /\ ping = "none"
    /\ rp = [pc |-> "read", on |-> NoId] /\ wp = [pc |-> "wait", stopping |-> FALSE]
    /\ lp = [pc |-> "receive", on |-> NoId] /\ handler = [s \in Ids |-> "none"]
    /\ cp = "off" /\ framesLeft = scene.frames

-----------------------------------------------------------------------------
(* The locked state                                                          *)

\* A frame is queued for the writer.
Enqueue(m) == [m EXCEPT !.pending = TRUE, !.flags = @ \cup {"wake"}]

SendGoAway(m, last) == [Enqueue(m) EXCEPT !.sent = Append(@, last)]

\* The acknowledging GOAWAY: the peer said GOAWAY and nothing is active.
GoAwayReply(m) ==
    IF m.replied \/ m.error \/ m.active # 0 \/ ~m.peerGoAway THEN m
    ELSE [SendGoAway(m, m.lastProcessed) EXCEPT
            !.replied = TRUE, !.error = TRUE, !.flags = @ \cup {"done"}]

\* A stream left the active set: the drain of phase 2 may be complete.
OnStreamGoneMutant(m) == GoAwayReply(m)
OnStreamGone(m) ==
    GoAwayReply(IF m.final /\ m.active = 0
                THEN [m EXCEPT !.flags = @ \cup {"stop"}] ELSE m)

\* how: "gone", or "reset" for a stream that was reset locally.
CloseStream(m, s, how) ==
    IF m.stream[s] # "active" THEN m
    ELSE OnStreamGone([m EXCEPT !.stream[s] = how, !.active = @ - 1])

\* The connection failed: every stream ends with it.
Fail(m) ==
    [m EXCEPT !.error = TRUE, !.active = 0,
              !.stream = [s \in Ids |-> IF @[s] = "active" THEN "gone" ELSE @[s]]]

\* Task a leaves the lock with state m; what it has still to publish is `first` and
\* then the ends of the accept loop that the flags ask for (_after).
Commit(a, m, first) ==
    /\ me' = [m EXCEPT !.flags = {}]
    /\ writeEvt' = (writeEvt \/ "wake" \in m.flags)
    /\ acts' = [acts EXCEPT ![a] = first \o (IF "done" \in m.flags THEN <<End>> ELSE <<>>)
                                         \o (IF "stop" \in m.flags THEN <<End>> ELSE <<>>)]

Free(a) == acts[a] = <<>>

\* Task a sends to the accept queue.
Act(a) ==
    /\ ~Free(a)
    /\ acts' = [acts EXCEPT ![a] = Tail(@)]
    /\ queue' = Append(queue, Head(acts[a]))
    /\ UNCHANGED <<me, writeEvt, sendLock, shut, ping, pumps, lp, handler, cp, bounds>>

-----------------------------------------------------------------------------
(* The read pump                                                             *)

\* The pump takes a frame: the first of a read, or the next of its batch.
Receive ==
    /\ rp.pc \in (IF shut THEN {"batch"} ELSE {"read", "batch"})
    /\ Free(Reader)
    /\ UNCHANGED <<queue, sendLock, shut, ping, wp, lp, handler, cp>>

PeerFrame == framesLeft > 0 /\ framesLeft' = framesLeft - 1 /\ UNCHANGED scene

\* How a frame is done with: its verdict's acts, a stream error, a connection error.
Verdict(m, first) == Commit(Reader, m, first) /\ rp' = [pc |-> "batch", on |-> NoId]
StreamError(m, s, why) ==
    me' = m /\ UNCHANGED <<acts, writeEvt>> /\ rp' = [pc |-> why, on |-> s]
ConnError(s) == UNCHANGED <<me, acts, writeEvt>> /\ rp' = [pc |-> "goaway", on |-> s]

\* HEADERS of a stream the server does not know: an id that does not go up is an
\* error; past the limit of active streams the stream is refused; otherwise it opens,
\* and is published, or ended at once for its content-length or its size (a 431).
NewRequest(s) ==
    LET m == [me EXCEPT !.lastRecv = s, !.lastProcessed = s,
                        !.stream[s] = "active", !.active = @ + 1]
    IN  IF s <= me.lastRecv THEN ConnError(s)
        ELSE IF me.active >= scene.maxConcurrent
        THEN StreamError([me EXCEPT !.lastRecv = s], s, "refuse")
        ELSE \/ Verdict([m EXCEPT !.pendingAccept = @ \cup {s}], <<s>>)
             \/ "bad" \in scene.env /\ StreamError(m, s, "reset")
             \/ /\ "bad" \in scene.env
                /\ \E how \in {"gone", "reset"} : Verdict(Enqueue(CloseStream(m, s, how)), <<>>)

\* Above the last id of a final GOAWAY it is ignored.
OpenRequestMutant(s) == NewRequest(s)
OpenRequest(s) ==
    IF s > me.maxId THEN Verdict([me EXCEPT !.ignored = @ \cup {s}], <<>>) ELSE NewRequest(s)

\* recv_headers: late HEADERS on a stream reset locally are ignored while the store
\* remembers it; on a stream that is active they are trailers, good or bad.
RecvHeaders(s) ==
    /\ Receive /\ PeerFrame
    /\ CASE me.stream[s] = "idle" -> OpenRequest(s)
         [] me.stream[s] = "active" ->
                Verdict(me, <<>>) \/ ("bad" \in scene.env /\ StreamError(me, s, "reset"))
         [] me.stream[s] = "gone" -> IF s > me.maxId THEN Verdict(me, <<>>) ELSE ConnError(s)
         [] OTHER -> Verdict(me, <<>>) \/ ConnError(s)

\* The cap on streams that are reset before the accept loop took them.
AtResetCapMutant == Cardinality(me.resetPending) > MaxResets
AtResetCap == Cardinality(me.resetPending) >= MaxResets

RecvReset(s) ==
    /\ "reset" \in scene.env /\ Receive /\ PeerFrame
    /\ IF me.stream[s] # "active"
       THEN IF me.stream[s] = "idle" /\ s > me.lastRecv THEN ConnError(s) ELSE Verdict(me, <<>>)
       ELSE IF s \in me.pendingAccept /\ AtResetCap THEN ConnError(s)
       ELSE Verdict(CloseStream([me EXCEPT !.resetPending = @ \cup ({s} \cap me.pendingAccept)],
                                s, "gone"), <<>>)

\* recv_go_away: the server only remembers it.
RecvGoAway ==
    /\ "goaway" \in scene.env /\ Receive /\ PeerFrame
    /\ Verdict([me EXCEPT !.peerGoAway = TRUE], <<>>)

\* recv_ping: the ACK of the shutdown PING brings phase 2 and the final GOAWAY; the
\* accept loop ends at once when nothing is active.
FinalGoAwayMutant(m) ==
    [SendGoAway(m, m.lastProcessed) EXCEPT
        !.final = TRUE, !.maxId = m.lastProcessed, !.flags = @ \cup {"stop"}]
FinalGoAway(m) ==
    [SendGoAway(m, m.lastProcessed) EXCEPT
        !.final = TRUE, !.maxId = m.lastProcessed,
        !.flags = @ \cup (IF m.active = 0 THEN {"stop"} ELSE {})]

RecvPingAck ==
    /\ ping = "wire" /\ ping' = "acked"
    /\ rp.pc \in (IF shut THEN {"batch"} ELSE {"read", "batch"})
    /\ Free(Reader)
    /\ Verdict(FinalGoAway(me), <<>>)
    /\ UNCHANGED <<queue, sendLock, shut, wp, lp, handler, cp, bounds>>

\* reset_on_error: the stream is reset, up to a cap; a refused one was never stored.
ResetOnError ==
    /\ rp.pc \in {"refuse", "reset"}
    /\ IF me.errors >= MaxErrors
       THEN ConnError(rp.on)
       ELSE LET m == Enqueue([me EXCEPT !.errors = @ + 1]) IN
            Verdict(IF rp.pc = "reset" THEN CloseStream(m, rp.on, "reset") ELSE m, <<>>)
    /\ UNCHANGED <<queue, sendLock, shut, ping, wp, lp, handler, cp, bounds>>

\* The end of a batch: the acknowledging GOAWAY may be due, and ends the pump.
BatchEnd ==
    /\ rp.pc = "batch" /\ Free(Reader)
    /\ Commit(Reader, GoAwayReply(me), <<>>)
    /\ rp' = [pc |-> IF GoAwayReply(me).replied /\ ~me.replied THEN "over" ELSE "read",
              on |-> NoId]
    /\ UNCHANGED <<queue, sendLock, shut, ping, wp, lp, handler, cp, bounds>>

\* A connection error: GOAWAY, an inline flush, then fail().
ReaderGoAway ==
    /\ rp.pc = "goaway"
    /\ Commit(Reader, SendGoAway(me, me.lastProcessed), <<>>)
    /\ rp' = [rp EXCEPT !.pc = "flush"]
    /\ UNCHANGED <<queue, sendLock, shut, ping, wp, lp, handler, cp, bounds>>

\* The peer closed, the transport failed, or close() shut it down.
ReaderEof ==
    /\ rp.pc = "read" /\ Free(Reader)
    /\ "eof" \in scene.env \/ shut
    /\ rp' = [pc |-> "fail", on |-> NoId]
    /\ UNCHANGED <<me, acts, queue, writeEvt, sendLock, shut, ping, wp, lp, handler, cp, bounds>>

ReaderFail ==
    /\ rp.pc = "fail" /\ Free(Reader)
    /\ Commit(Reader, Fail(me), <<End>>)
    /\ rp' = [rp EXCEPT !.pc = "over"]
    /\ UNCHANGED <<queue, sendLock, shut, ping, wp, lp, handler, cp, bounds>>

-----------------------------------------------------------------------------
(* The write pump, and the flush of the pump's error path and of close()     *)

\* take_pending, under the send lock, which is kept only while there is data to write.
TakePending(a) ==
    /\ sendLock = NoId
    /\ me' = [me EXCEPT !.pending = FALSE]
    /\ sendLock' = IF me.pending THEN a ELSE NoId
    /\ ping' = IF ping = "queued" THEN "taken" ELSE ping

\* The batch of the lock's holder is written, or lost with the transport.
Written(ok) ==
    /\ IF ok THEN ~shut ELSE shut \/ "broken" \in scene.env
    /\ sendLock' = NoId
    /\ ping' = IF ping = "taken" THEN IF ok THEN "wire" ELSE "lost" ELSE ping

\* The event is cleared before the buffer is taken, so that no wake is lost.
PumpWake ==
    /\ wp.pc = "wait" /\ writeEvt
    /\ writeEvt' = FALSE
    /\ wp' = [wp EXCEPT !.pc = "take"]
    /\ UNCHANGED <<me, acts, queue, sendLock, shut, ping, rp, lp, handler, cp, bounds>>

PumpTake ==
    /\ wp.pc = "take"
    /\ TakePending(Writer)
    /\ wp' = [pc |-> IF me.pending THEN "send" ELSE "check", stopping |-> me.stop]
    /\ UNCHANGED <<acts, queue, writeEvt, shut, rp, lp, handler, cp, bounds>>

PumpWritten(ok) ==
    /\ wp.pc = "send"
    /\ Written(ok)
    /\ wp' = [wp EXCEPT !.pc = IF ok THEN "check" ELSE "fail"]
    /\ UNCHANGED <<me, acts, queue, writeEvt, shut, rp, lp, handler, cp, bounds>>

\* Once stopped, the pump ends when nothing is left to write.
PumpCheckMutant ==
    /\ wp.pc = "check"
    /\ wp' = [wp EXCEPT !.pc = IF wp.stopping /\ ~me.pending THEN "over" ELSE "wait"]
    /\ writeEvt' = FALSE
    /\ UNCHANGED <<me, acts, queue, sendLock, shut, ping, rp, lp, handler, cp, bounds>>
PumpCheck ==
    /\ wp.pc = "check"
    /\ wp' = [wp EXCEPT !.pc = IF wp.stopping /\ ~me.pending THEN "over" ELSE "wait"]
    /\ UNCHANGED <<me, acts, queue, writeEvt, sendLock, shut, ping, rp, lp, handler, cp, bounds>>

PumpFail ==
    /\ wp.pc = "fail"
    /\ Commit(Writer, Fail(me), <<End>>)
    /\ wp' = [wp EXCEPT !.pc = "over"]
    /\ UNCHANGED <<queue, sendLock, shut, ping, rp, lp, handler, cp, bounds>>

ReaderFlush ==
    /\ rp.pc = "flush" /\ Free(Reader)
    /\ TakePending(Reader)
    /\ rp' = [rp EXCEPT !.pc = IF me.pending THEN "flushing" ELSE "fail"]
    /\ UNCHANGED <<acts, queue, writeEvt, shut, wp, lp, handler, cp, bounds>>

ReaderFlushed ==
    /\ rp.pc = "flushing"
    /\ \E ok \in BOOLEAN : Written(ok)
    /\ rp' = [rp EXCEPT !.pc = "fail"]
    /\ UNCHANGED <<me, acts, queue, writeEvt, shut, wp, lp, handler, cp, bounds>>

-----------------------------------------------------------------------------
(* The accept loop, the handlers and graceful_shutdown()                     *)

\* next_request: the next of the queue; None ends the loop.
LoopReceive ==
    /\ lp.pc = "receive" /\ queue # <<>>
    /\ queue' = Tail(queue)
    /\ lp' = [pc |-> IF Head(queue) = End THEN "ended" ELSE "accept", on |-> Head(queue)]
    /\ UNCHANGED <<me, acts, writeEvt, sendLock, shut, ping, pumps, handler, cp, bounds>>

\* accepted(): the request leaves the books of the accept queue.
AcceptedMutant(m, s) == [m EXCEPT !.pendingAccept = @ \ {s}]
Accepted(m, s) == [m EXCEPT !.pendingAccept = @ \ {s}, !.resetPending = @ \ {s}]

LoopAccepted ==
    /\ lp.pc = "accept"
    /\ me' = Accepted(me, lp.on)
    /\ handler' = [handler EXCEPT ![lp.on] = "running"]
    /\ lp' = [pc |-> "receive", on |-> NoId]
    /\ UNCHANGED <<acts, queue, writeEvt, sendLock, shut, ping, pumps, cp, bounds>>

\* An error or a cancellation takes the caller out of its loop.
LoopLeft ==
    /\ "leave" \in scene.env
    /\ lp.pc = "receive"
    /\ lp' = [lp EXCEPT !.pc = "left"]
    /\ UNCHANGED <<me, acts, queue, writeEvt, sendLock, shut, ping, pumps, handler, cp, bounds>>

\* The handler ends its stream, by the whole response or by a reset; an unread request
\* body is reset with it. A stream that has ended already answers with its stop.
HandlerEnds(s) ==
    /\ handler[s] = "running"
    /\ IF me.stream[s] = "active"
       THEN \E how \in {"gone", "reset"} : Commit(s, Enqueue(CloseStream(me, s, how)), <<>>)
       ELSE UNCHANGED <<me, acts, writeEvt>>
    /\ handler' = [handler EXCEPT ![s] = "over"]
    /\ UNCHANGED <<queue, sendLock, shut, ping, pumps, lp, cp, bounds>>

\* begin_graceful_shutdown: phase 1, once.
BeginShutdown ==
    /\ "shutdown" \in scene.env
    /\ Free(Stopper)
    /\ IF me.graceful
       THEN UNCHANGED <<me, acts, writeEvt, ping>>
       ELSE /\ Commit(Stopper, [SendGoAway(me, Top) EXCEPT !.graceful = TRUE], <<>>)
            /\ ping' = "queued"
    /\ UNCHANGED <<queue, sendLock, shut, pumps, lp, handler, cp, bounds>>

-----------------------------------------------------------------------------
(* close()                                                                   *)

\* stop_pump().
CloseStops ==
    /\ cp = "off" /\ lp.pc \in {"ended", "left"}
    /\ me' = [me EXCEPT !.stop = TRUE]
    /\ cp' = "signal"
    /\ UNCHANGED <<acts, queue, writeEvt, sendLock, shut, ping, pumps, lp, handler, bounds>>

CloseSignals ==
    /\ cp = "signal"
    /\ writeEvt' = TRUE
    /\ cp' = "join writer"
    /\ UNCHANGED <<me, acts, queue, sendLock, shut, ping, pumps, lp, handler, bounds>>

CloseJoinsWriter ==
    /\ cp = "join writer" /\ wp.pc = "over" /\ Free(Writer)
    /\ cp' = "flush"
    /\ UNCHANGED <<me, acts, queue, writeEvt, sendLock, shut, ping, pumps, lp, handler, bounds>>

CloseFlush ==
    /\ cp = "flush"
    /\ TakePending(Closer)
    /\ cp' = IF me.pending THEN "flushing" ELSE "shutdown"
    /\ UNCHANGED <<acts, queue, writeEvt, shut, pumps, lp, handler, bounds>>

CloseFlushed ==
    /\ cp = "flushing"
    /\ \E ok \in BOOLEAN : Written(ok)
    /\ cp' = "shutdown"
    /\ UNCHANGED <<me, acts, queue, writeEvt, shut, pumps, lp, handler, bounds>>

CloseShutsDown ==
    /\ cp = "shutdown"
    /\ shut' = TRUE
    /\ cp' = "join reader"
    /\ UNCHANGED <<me, acts, queue, writeEvt, sendLock, ping, pumps, lp, handler, bounds>>

CloseJoinsReader ==
    /\ cp = "join reader" /\ rp.pc = "over" /\ Free(Reader)
    /\ cp' = "fail"
    /\ UNCHANGED <<me, acts, queue, writeEvt, sendLock, shut, ping, pumps, lp, handler, bounds>>

\* fail(None) for the stragglers; a server has no background writers to wait for.
CloseFails ==
    /\ cp = "fail"
    /\ Commit(Closer, Fail(me), <<End>>)
    /\ cp' = "closed"
    /\ UNCHANGED <<queue, sendLock, shut, ping, pumps, lp, handler, bounds>>

-----------------------------------------------------------------------------

FromPeer ==
    \/ \E s \in Ids : RecvHeaders(s) \/ RecvReset(s)
    \/ RecvGoAway

ReadPump ==
    \/ ResetOnError \/ BatchEnd \/ ReaderGoAway \/ ReaderFlush \/ ReaderFlushed \/ ReaderFail

WritePump ==
    \/ PumpWake \/ PumpTake \/ PumpWritten(TRUE) \/ PumpCheck \/ PumpFail

CloseSteps ==
    \/ CloseStops \/ CloseSignals \/ CloseJoinsWriter \/ CloseFlush \/ CloseFlushed
    \/ CloseShutsDown \/ CloseJoinsReader \/ CloseFails

Serving == LoopReceive \/ LoopAccepted \/ \E s \in Ids : HandlerEnds(s)

\* The connection is closed and its handlers are over.
ServerFinished == cp = "closed" /\ UNCHANGED serverVars

ServerNext ==
    \/ \E a \in Actors : Act(a)
    \/ FromPeer \/ RecvPingAck \/ ReaderEof \/ ReadPump
    \/ WritePump \/ PumpWritten(FALSE)
    \/ Serving \/ LoopLeft \/ BeginShutdown
    \/ CloseSteps \/ ServerFinished

ServerSpec == ServerInit /\ [][ServerNext]_serverVars

\* The tasks go on, handlers included; the transport takes a batch or fails, a read of
\* a transport that was shut down ends, and the peer answers the PING that reached it.
ServerFair ==
    /\ \A a \in Actors : WF_serverVars(Act(a))
    /\ WF_serverVars(ReadPump) /\ WF_serverVars(shut /\ ReaderEof) /\ WF_serverVars(RecvPingAck)
    /\ WF_serverVars(WritePump \/ (shut /\ PumpWritten(FALSE)))
    /\ WF_serverVars(LoopReceive \/ LoopAccepted) /\ WF_serverVars(CloseSteps)
    /\ \A s \in Ids : WF_serverVars(HandlerEnds(s))

ServerLive == ServerSpec /\ ServerFair

-----------------------------------------------------------------------------
(* Properties.                                                               *)

ServerTypeOK ==
    /\ me.stream \in [Ids -> {"idle", "active", "gone", "reset"}]
    /\ {me.active, me.lastRecv, me.lastProcessed, me.maxId} \subseteq 0..Top
    /\ queue \in Seq(0..N) /\ sendLock \in 0..Closer
    /\ ping \in {"none", "queued", "taken", "wire", "acked", "lost"}
    /\ handler \in [Ids -> {"none", "running", "over"}]

\* The requests that are published, about to be, or in the accept loop's hands.
Unaccepted ==
    {s \in Ids : \/ \E i \in 1..Len(queue) : queue[i] = s
                 \/ \E i \in 1..Len(acts[Reader]) : acts[Reader][i] = s
                 \/ (lp.pc = "accept" /\ lp.on = s)}

\* "a separate, smaller cap bounds a HEADERS+RST flood" (recv_reset): the books of the
\* accept queue are exactly the requests not yet accepted, the reset ones among them
\* are what the cap counts, never more than it allows and none once accepted; active
\* streams are counted one by one, within what SETTINGS advertised.
AcceptBooks ==
    /\ me.pendingAccept = Unaccepted
    /\ me.resetPending \subseteq {s \in Unaccepted : me.stream[s] # "active"}
    /\ Cardinality(me.resetPending) <= MaxResets
    /\ me.active = Cardinality({s \in Ids : me.stream[s] = "active"})
    /\ me.active <= scene.maxConcurrent

\* "a request the client already put on the wire before it saw our GOAWAY is served,
\* not refused" (graceful_shutdown): on a connection that has not failed the accept loop
\* is ended only when no stream is active, and no request is published behind its end.
DrainedBeforeEnd ==
    \A i \in 1..Len(queue) :
        queue[i] = End /\ ~me.error =>
            /\ me.active = 0
            /\ \A j \in i..Len(queue) : queue[j] = End
            /\ \A a \in 1..Len(acts[Reader]) : acts[Reader][a] = End

\* The connection still serves: no GOAWAY has announced its end.
InService == ~me.replied /\ rp.pc \in {"read", "batch", "refuse", "reset", "goaway"}

\* The GOAWAYs of a connection in service tell the truth: their last-stream-ids never
\* grow, and after the final one no request above it is opened, so that the client may
\* retry those elsewhere. (A shutdown called after the GOAWAY of a connection error, or
\* a request opened after the peer's own GOAWAY was acknowledged, breaks this: README.)
GoAwaysTrue ==
    InService =>
        /\ \A i \in 1..Len(me.sent) : i > 1 => me.sent[i] <= me.sent[i - 1]
        /\ me.final => me.lastProcessed = me.maxId

\* What above_goaway says ("late frames are silently ignored"), which recv_reset breaks
\* (README, known divergences): no frame of a stream whose HEADERS were ignored, above
\* the final GOAWAY, brings the connection down.
LateFramesIgnored == rp.pc = "goaway" => rp.on \notin me.ignored

LoopOver == lp.pc \in {"ended", "left"}

\* A graceful shutdown ends the accept loop once the active requests are answered, and
\* so does a failed connection; close() returns, whatever its pumps were doing. (The
\* frames of the peer are bounded: what is not so in the end was waited for in vain.)
ServerEnds ==
    <>[](/\ me.graceful \/ me.error => LoopOver
         /\ cp \in {"off", "closed"})

=============================================================================
