------------------------------- MODULE H2Send -------------------------------
(***************************************************************************)
(* The sending half of one HTTP/2 connection: the flow-controlled DATA      *)
(* path of H2Streams (src/h2/conn.rs), which decides under one mutex, and   *)
(* the driver of httpunk/h2/connection.py, which acts on the verdicts after *)
(* the mutex is released: the body senders, the read pump and the write     *)
(* pump.                                                                    *)
(*                                                                         *)
(* One action is one critical section of the mutex, or one act on an event  *)
(* between two of them.  The scene says which backend schedules the tasks:  *)
(* on tonio they run on several threads and any two acts of different tasks *)
(* may interleave; on asyncio a task runs alone until it awaits.            *)
(*                                                                         *)
(* Bytes are counted in small units; a stream is one entry of the store and *)
(* the sender that owns it (one producer per body, by the API's contract).  *)
(***************************************************************************)
EXTENDS Integers, Sequences, FiniteSets

CONSTANTS
    Streams,        \* the streams the application opens
    ConnInit,       \* every send window's initial size (65535 in the protocol)
    InitWindows,    \* SETTINGS_INITIAL_WINDOW_SIZE values the peer may announce
    MaxWindow,      \* the largest legal window (2^31-1)
    Increments,     \* WINDOW_UPDATE increments the peer sends
    ConnGrant,      \* a peer that behaves keeps the connection window at or below this
    StreamGrant,    \* and a stream's window at or below this
    MaxSendBuf,     \* max_send_buf_size
    MaxFrame,       \* the peer's SETTINGS_MAX_FRAME_SIZE
    BurstFrames,    \* burst_frames: DATA frames of one turn
    Scenarios       \* the circumstances explored, records of the kind below

\* What else the peer, the network and the application may do.
EnvironmentKinds ==
    {"settings", "overflow", "peerEnd", "peerReset", "appReset", "eof", "writeError"}

\* The tasks run in parallel (tonio) or until they await (asyncio); the role of this end
\* of the connection; the chunks bodies are made of; what else may happen.
SceneOK(c) ==
    /\ c.preemptive \in BOOLEAN /\ c.server \in BOOLEAN
    /\ c.chunks \subseteq [want : Nat, eos : BOOLEAN]
    /\ c.env \subseteq EnvironmentKinds

ASSUME SendConstants ==
    /\ MaxWindow \in Nat /\ ConnInit \in 0..MaxWindow
    /\ InitWindows \subseteq 0..MaxWindow /\ ConnInit \in InitWindows
    /\ Increments \subseteq Nat
    /\ ConnGrant \in Nat /\ StreamGrant \in Nat
    /\ MaxSendBuf \in Nat /\ MaxFrame \in Nat \ {0} /\ BurstFrames \in Nat \ {0}
    /\ \A c \in Scenarios : SceneOK(c)
    /\ {"rd", "wp", "app"} \cap Streams = {}

VARIABLES
    scene,      \* the scenario of this behaviour
    sst,        \* [Streams -> send-side state of the entry]
    recvDone,   \* [Streams -> BOOLEAN]: END_STREAM received
    failed,     \* the error slot is set
    initWin,    \* peer.initial_window_size
    conn,       \* conn_send: [win, avail]
    flow,       \* [Streams -> send_flow: [win, avail]]
    buffered,   \* [Streams -> send_buffered]
    credit,     \* [Streams -> DATA bytes queued since the last flush]
    inflight,   \* [Streams -> DATA bytes in the batch being written]
    q,          \* pending_send, pending_capacity and the entries' queue flags
    evt,        \* [Streams -> window_evt]
    writeEvt,   \* _write_evt
    pc,         \* [Streams -> where the sender of the stream is]
    chunk,      \* [Streams -> [want, eos]: what is left of the chunk being sent]
    wpc,        \* where the write pump is
    rpc,        \* where the read pump is
    owes        \* [Actors -> the acts a verdict asked for, not yet performed]

stateVars == <<sst, recvDone, failed, initWin, conn, flow, buffered, credit, inflight, q>>
vars == <<scene, sst, recvDone, failed, initWin, conn, flow, buffered, credit, inflight, q,
          evt, writeEvt, pc, chunk, wpc, rpc, owes>>

\* The tasks that act on verdicts: the senders, the read pump, the write pump
\* and any other application task (a reader that cancels a stream).
Actors == Streams \cup {"rd", "wp", "app"}

\* What a verdict asks for: window events to set, FLAG_WAKE, FLAG_CAPACITY.
Verdict(S, w, c) == [set |-> S, wake |-> w, cap |-> c]

\* Nothing left to do: the actor may take its next step.
Clear == Verdict({}, FALSE, FALSE)
Free(a) == owes[a] = Clear

-----------------------------------------------------------------------------
(* Flow control: vendor_h2 FlowControl as the send side uses it.             *)

Min2(a, b) == IF a <= b THEN a ELSE b

\* Window::as_size: a window a SETTINGS change made negative offers nothing.
WindowSize(f) == IF f.win < 0 THEN 0 ELSE f.win

\* inc_window then assign_capacity; Overflows is inc_window's refusal.
OverflowsMutant(f, n) == f.win + n > MaxWindow + 1
Overflows(f, n) == f.win + n > MaxWindow
GrownMutant(f, n) == [win |-> f.win + n, avail |-> f.avail]
Grown(f, n) == [win |-> f.win + n, avail |-> f.avail + n]

\* dec_send_window then claim_capacity, and FlowControl::send_data.
Shrunk(f, n) == [win |-> f.win - n, avail |-> f.avail - n]

\* stream_room: the bytes the stream may queue on its own account.
StreamRoomMutant(s) == WindowSize(flow[s])
StreamRoom(s) ==
    Min2(WindowSize(flow[s]), IF buffered[s] >= MaxSendBuf THEN 0 ELSE MaxSendBuf - buffered[s])

Budget(s) == Min2(StreamRoom(s), WindowSize(conn))

\* The streams num_active counts, and the ones a SETTINGS change still concerns.
Active == {s \in Streams : sst[s] \in {"awaiting", "streaming", "halfclosed"}}
SendOpen == {s \in Streams : sst[s] \in {"awaiting", "streaming"}}

-----------------------------------------------------------------------------
(* The two queues.  qq is the record of both, cw the connection window.      *)

NoQueues == [send |-> <<>>, cap |-> <<>>,
             inSend |-> [s \in Streams |-> FALSE],
             inCap |-> [s \in Streams |-> FALSE],
             turn |-> [s \in Streams |-> 0]]

\* pop_front when s leads, retain(id != s) otherwise; a queue holds s once.
Without(queue, s) ==
    LET at == {i \in 1..Len(queue) : queue[i] = s}
        k == CHOOSE i \in at : TRUE
    IN  IF at = {} THEN queue
        ELSE SubSeq(queue, 1, k - 1) \o SubSeq(queue, k + 1, Len(queue))

Leads(queue, s) == queue # <<>> /\ Head(queue) = s

\* The queue from its first live entry on.
FromFirst(queue, live) ==
    LET at == {i \in 1..Len(queue) : queue[i] \in live}
        k == CHOOSE i \in at : \A j \in at : i <= j
    IN  IF at = {} THEN <<>> ELSE SubSeq(queue, k, Len(queue))

\* send_front / capacity_front drop the stale entries at the front.
PruneSend(qq) ==
    [qq EXCEPT !.send = FromFirst(@, {s \in Streams : qq.inSend[s] /\ sst[s] = "streaming"})]

PruneCap(qq) ==
    [qq EXCEPT !.cap = FromFirst(@, {s \in Streams : qq.inCap[s] /\ sst[s] = "streaming"})]

EnqueueSend(qq, s) ==
    IF qq.inSend[s] THEN qq
    ELSE [qq EXCEPT !.inSend[s] = TRUE, !.turn[s] = 0, !.send = Append(@, s)]

EnqueueCapacity(qq, s) ==
    IF qq.inCap[s] THEN qq
    ELSE [qq EXCEPT !.inCap[s] = TRUE, !.cap = Append(@, s)]

\* queue_wake_flag: FLAG_CAPACITY.
QueueWakeMutant(qq, cw) == qq.send # <<>>
QueueWake(qq, cw) == qq.send # <<>> \/ (qq.cap # <<>> /\ cw > 0)

LeaveSend(qq, s) ==
    IF ~qq.inSend[s] THEN qq
    ELSE [qq EXCEPT !.inSend[s] = FALSE, !.turn[s] = 0, !.send = Without(@, s)]

\* The flag leave_send_queue returns: the turn moved, because s was the front.
LeaveSendFlag(qq, s, cw) ==
    qq.inSend[s] /\ Leads(qq.send, s) /\ QueueWake(LeaveSend(qq, s), cw)

LeaveCapacityMutant(qq, s) ==
    IF ~qq.inCap[s] THEN qq ELSE [qq EXCEPT !.inCap[s] = FALSE]
LeaveCapacity(qq, s) ==
    IF ~qq.inCap[s] THEN qq
    ELSE [qq EXCEPT !.inCap[s] = FALSE, !.cap = Without(@, s)]

LeaveCapacityFlag(qq, s, cw) ==
    qq.inCap[s] /\ Leads(qq.cap, s) /\ QueueWake(LeaveCapacity(qq, s), cw)

\* close_stream: a closed stream leaves both queues.
LeaveQueues(qq, s) == LeaveCapacity(LeaveSend(qq, s), s)
LeaveQueuesFlagMutant(qq, s, cw) == FALSE
LeaveQueuesFlag(qq, s, cw) ==
    LeaveSendFlag(qq, s, cw) \/ LeaveCapacityFlag(LeaveSend(qq, s), s, cw)

\* yield_send_turn: the front goes to the back.
YieldTurn(qq, s) ==
    IF Leads(qq.send, s)
    THEN [qq EXCEPT !.send = Append(Tail(@), s), !.turn[s] = 0]
    ELSE qq

\* admit_capacity_front: the first waiter for connection window joins an empty
\* rotation when there is window.
AdmitCapacityFrontMutant(qq, cw) == qq
AdmitCapacityFront(qq, cw) ==
    LET p == PruneSend(qq)
        c == PruneCap(p)
    IN  IF cw = 0 THEN qq
        ELSE IF p.send # <<>> THEN p
        ELSE IF c.cap = <<>> THEN c
        ELSE LET s == Head(c.cap)
             IN  EnqueueSend([c EXCEPT !.inCap[s] = FALSE, !.cap = Tail(@)], s)

-----------------------------------------------------------------------------
TypeOK ==
    /\ sst \in [Streams -> {"idle", "awaiting", "streaming", "halfclosed", "gone"}]
    /\ recvDone \in [Streams -> BOOLEAN]
    /\ failed \in BOOLEAN
    /\ initWin \in InitWindows
    /\ conn \in [win : Int, avail : Int]
    /\ flow \in [Streams -> [win : Int, avail : Int]]
    /\ buffered \in [Streams -> 0..MaxSendBuf]
    /\ credit \in [Streams -> Nat]
    /\ inflight \in [Streams -> Nat]
    /\ q \in [send : Seq(Streams), cap : Seq(Streams),
              inSend : [Streams -> BOOLEAN], inCap : [Streams -> BOOLEAN],
              turn : [Streams -> Nat]]
    /\ evt \in [Streams -> BOOLEAN]
    /\ writeEvt \in BOOLEAN
    /\ pc \in [Streams -> {"start", "idle", "try1", "clear", "try2", "wait", "end"}]
    /\ chunk \in [Streams -> [want : Nat, eos : BOOLEAN]]
    /\ wpc \in {"wait", "take", "write", "fail", "exit"}
    /\ rpc \in {"read", "dying", "flush", "fail", "done"}
    /\ owes \in [Actors -> [set : SUBSET Streams, wake : BOOLEAN, cap : BOOLEAN]]

Init ==
    /\ scene \in Scenarios
    /\ sst = [s \in Streams |-> "idle"]
    /\ recvDone = [s \in Streams |-> FALSE]
    /\ failed = FALSE
    /\ initWin = ConnInit
    /\ conn = [win |-> ConnInit, avail |-> ConnInit]
    /\ flow = [s \in Streams |-> [win |-> 0, avail |-> 0]]
    /\ buffered = [s \in Streams |-> 0]
    /\ credit = [s \in Streams |-> 0]
    /\ inflight = [s \in Streams |-> 0]
    /\ q = NoQueues
    /\ evt = [s \in Streams |-> FALSE]
    /\ writeEvt = FALSE
    /\ pc = [s \in Streams |-> "start"]
    /\ chunk = [s \in Streams |-> [want |-> 0, eos |-> FALSE]]
    /\ wpc = "wait"
    /\ rpc = "read"
    /\ owes = [a \in Actors |-> Clear]

-----------------------------------------------------------------------------
(* Acting on a verdict: H2ConnectionBase._after and the notify helpers.      *)

\* handle.window_evt.set() for one of the handles a verdict named.
SetWindowEvt(a, s) ==
    /\ s \in owes[a].set
    /\ evt' = [evt EXCEPT ![s] = TRUE]
    /\ owes' = [owes EXCEPT ![a].set = @ \ {s}]
    /\ UNCHANGED <<stateVars, writeEvt, pc, chunk, wpc, rpc>>

\* FLAG_WAKE: bytes were queued, wake the write pump.
AfterWake(a) ==
    /\ owes[a].set = {} /\ owes[a].wake
    /\ writeEvt' = TRUE
    /\ owes' = [owes EXCEPT ![a].wake = FALSE]
    /\ UNCHANGED <<stateVars, evt, pc, chunk, wpc, rpc>>

\* FLAG_CAPACITY: next_capacity_wake admits a waiter and names the front.
AfterCapacity(a) ==
    /\ owes[a].set = {} /\ ~owes[a].wake /\ owes[a].cap
    /\ LET p == PruneSend(AdmitCapacityFront(q, WindowSize(conn)))
       IN  /\ q' = p
           /\ owes' = [owes EXCEPT ![a] =
                  Verdict(IF p.send = <<>> THEN {} ELSE {Head(p.send)}, FALSE, FALSE)]
    /\ UNCHANGED <<sst, recvDone, failed, initWin, conn, flow, buffered, credit, inflight,
                   evt, writeEvt, pc, chunk, wpc, rpc>>

Act(a) ==
    \/ \E s \in Streams : SetWindowEvt(a, s)
    \/ AfterWake(a)
    \/ AfterCapacity(a)

-----------------------------------------------------------------------------
(* The sender of stream s: _try_send_data and _send_data over send_data.     *)

\* Client: open_stream; server: send_response_head on a stored request.
Open(s) ==
    /\ pc[s] = "start"
    /\ IF scene.server THEN sst[s] = "awaiting" ELSE sst[s] = "idle" /\ ~failed
    /\ sst' = [sst EXCEPT ![s] = "streaming"]
    /\ flow' = IF scene.server THEN flow
               ELSE [flow EXCEPT ![s] = [win |-> initWin, avail |-> initWin]]
    /\ pc' = [pc EXCEPT ![s] = "idle"]
    /\ owes' = [owes EXCEPT ![s].wake = TRUE]
    /\ UNCHANGED <<recvDone, failed, initWin, conn, buffered, credit, inflight, q,
                   evt, writeEvt, chunk, wpc, rpc>>

\* The connection is dead, or the request was reset before its response.
OpenStopped(s) ==
    /\ pc[s] = "start"
    /\ IF scene.server THEN sst[s] = "gone" ELSE failed
    /\ pc' = [pc EXCEPT ![s] = "end"]
    /\ UNCHANGED <<stateVars, evt, writeEvt, chunk, wpc, rpc, owes>>

\* The application yields the body's next chunk.
NextChunk(s) ==
    /\ pc[s] = "idle" /\ Free(s)
    /\ \E c \in scene.chunks : chunk' = [chunk EXCEPT ![s] = c]
    /\ pc' = [pc EXCEPT ![s] = "try1"]
    /\ UNCHANGED <<stateVars, evt, writeEvt, wpc, rpc, owes>>

\* A call of send_data is due.
Trying(s) == pc[s] \in {"try1", "try2"} /\ Free(s)
Sending(s) == Trying(s) /\ sst[s] = "streaming"

\* "No window now": clear the event and try again, or park.
Parked(s) == [pc EXCEPT ![s] = IF @ = "try1" THEN "clear" ELSE "wait"]

\* After a DATA frame: the loop of _try_send_data goes on, or the chunk is queued.
AfterFrame(s, done) ==
    [pc EXCEPT ![s] = IF ~done THEN @ ELSE IF chunk[s].eos THEN "end" ELSE "idle"]

\* The state once END_STREAM is queued.  On the server the request's receive half
\* goes with the response (finish_stream), so the stream is closed.
AfterEndStream(s) ==
    [sst EXCEPT ![s] = IF scene.server \/ recvDone[s] THEN "gone" ELSE "halfclosed"]

\* The stream stopped: the sender raises.
SendStopped(s) ==
    /\ Trying(s) /\ sst[s] # "streaming"
    /\ pc' = [pc EXCEPT ![s] = "end"]
    /\ UNCHANGED <<stateVars, evt, writeEvt, chunk, wpc, rpc, owes>>

\* An empty chunk is an empty DATA frame: no window, no turn.
SendEmpty(s) ==
    /\ Sending(s) /\ chunk[s].want = 0
    /\ sst' = IF chunk[s].eos THEN AfterEndStream(s) ELSE sst
    /\ pc' = AfterFrame(s, TRUE)
    /\ q' = IF sst'[s] = "gone" THEN LeaveQueues(q, s) ELSE q
    /\ owes' = [owes EXCEPT ![s] =
          Verdict({}, TRUE, sst'[s] = "gone" /\ LeaveQueuesFlag(q, s, WindowSize(conn)))]
    /\ UNCHANGED <<recvDone, failed, initWin, conn, flow, buffered, credit, inflight,
                   evt, writeEvt, chunk, wpc, rpc>>

\* Readiness first: without window the stream leaves the rotation, and lines up
\* for connection window when that is what it lacks.
SendNoWindow(s) ==
    /\ Sending(s) /\ chunk[s].want > 0 /\ Budget(s) = 0
    /\ LET lined == IF WindowSize(conn) = 0 /\ StreamRoom(s) > 0
                    THEN EnqueueCapacity(q, s) ELSE q
       IN  /\ q' = LeaveSend(lined, s)
           /\ owes' = [owes EXCEPT ![s].cap = LeaveSendFlag(lined, s, WindowSize(conn))]
    /\ pc' = Parked(s)
    /\ UNCHANGED <<sst, recvDone, failed, initWin, conn, flow, buffered, credit, inflight,
                   evt, writeEvt, chunk, wpc, rpc>>

\* The queues as send_data sees them once the stream is ready: it no longer waits
\* for connection window, and stale fronts are gone.
ReadyQueues(s) == PruneSend(LeaveCapacity(q, s))

Ready(s) == Sending(s) /\ chunk[s].want > 0 /\ Budget(s) > 0

\* Another stream has the turn: line up behind it.
SendNotMyTurn(s) ==
    /\ Ready(s)
    /\ LET r == ReadyQueues(s)
       IN  /\ r.send # <<>> /\ Head(r.send) # s
           /\ q' = EnqueueSend(r, s)
    /\ pc' = Parked(s)
    /\ UNCHANGED <<sst, recvDone, failed, initWin, conn, flow, buffered, credit, inflight,
                   evt, writeEvt, chunk, wpc, rpc, owes>>

MyTurn(s) ==
    Ready(s) /\ LET r == ReadyQueues(s) IN r.send # <<>> => Head(r.send) = s

\* The queues with s at the front of the rotation.
TurnQueues(s) ==
    LET r == ReadyQueues(s) IN IF r.send = <<>> THEN EnqueueSend(r, s) ELSE r

TurnOver(s) == TurnQueues(s).turn[s] >= BurstFrames

\* The turn is over and others wait: to the back.
SendYield(s) ==
    /\ MyTurn(s) /\ TurnOver(s) /\ Len(TurnQueues(s).send) > 1
    /\ q' = YieldTurn(TurnQueues(s), s)
    /\ owes' = [owes EXCEPT ![s].cap = QueueWake(YieldTurn(TurnQueues(s), s), WindowSize(conn))]
    /\ pc' = Parked(s)
    /\ UNCHANGED <<sst, recvDone, failed, initWin, conn, flow, buffered, credit, inflight,
                   evt, writeEvt, chunk, wpc, rpc>>

\* The turn is over, other streams are active but none has lined up: pause as the
\* front until the flush credit.
SendPause(s) ==
    /\ MyTurn(s) /\ TurnOver(s) /\ Len(TurnQueues(s).send) <= 1
    /\ Cardinality(Active) > 1
    /\ q' = TurnQueues(s)
    /\ pc' = Parked(s)
    /\ UNCHANGED <<sst, recvDone, failed, initWin, conn, flow, buffered, credit, inflight,
                   evt, writeEvt, chunk, wpc, rpc, owes>>

\* The rotation after a frame of s: the chunk is queued, the connection window or
\* the stream's own room ran out, or the turn goes on.
LinedAfterFrame(qq, s, n, room, cw) ==
    IF n # chunk[s].want /\ cw = 0 /\ room > 0 THEN EnqueueCapacity(qq, s) ELSE qq

LeavesAfterFrame(s, n, room, cw) == n = chunk[s].want \/ cw = 0 \/ room = 0

FrameSize(s) == Min2(Min2(Budget(s), chunk[s].want), MaxFrame)

\* One DATA frame: reserve against both windows and the send buffer, queue it.
SendFrame(s) ==
    /\ MyTurn(s)
    /\ TurnOver(s) => Cardinality(Active) <= 1 /\ Len(TurnQueues(s).send) <= 1
    /\ LET n == FrameSize(s)
           done == n = chunk[s].want
           framed == [TurnQueues(s) EXCEPT !.turn[s] = @ + 1]
       IN  /\ conn' = Shrunk(conn, n)
           /\ flow' = [flow EXCEPT ![s] = Shrunk(@, n)]
           /\ buffered' = [buffered EXCEPT ![s] = @ + n]
           /\ credit' = [credit EXCEPT ![s] = @ + n]
           /\ chunk' = [chunk EXCEPT ![s].want = @ - n]
           /\ pc' = AfterFrame(s, done)
           /\ sst' = IF done /\ chunk[s].eos THEN AfterEndStream(s) ELSE sst
           /\ LET cw == WindowSize(conn')
                  room == StreamRoom(s)'
                  lined == LinedAfterFrame(framed, s, n, room, cw)
                  leaves == LeavesAfterFrame(s, n, room, cw)
                  left == IF leaves THEN LeaveSend(lined, s) ELSE lined
              IN  /\ q' = IF sst'[s] = "gone" THEN LeaveQueues(left, s) ELSE left
                  /\ owes' = [owes EXCEPT ![s] =
                        Verdict({}, TRUE,
                                \/ leaves /\ LeaveSendFlag(lined, s, cw)
                                \/ sst'[s] = "gone" /\ LeaveQueuesFlag(left, s, cw))]
    /\ UNCHANGED <<recvDone, failed, initWin, inflight, evt, writeEvt, wpc, rpc>>

SendData(s) ==
    \/ SendStopped(s) \/ SendEmpty(s) \/ SendNoWindow(s) \/ SendNotMyTurn(s)
    \/ SendYield(s) \/ SendPause(s) \/ SendFrame(s)

\* The waiter idiom: try, clear, try again, wait.
ClearWindowEvtMutant(s) ==
    /\ pc[s] = "clear" /\ Free(s)
    /\ evt' = [evt EXCEPT ![s] = FALSE]
    /\ pc' = [pc EXCEPT ![s] = "wait"]
    /\ UNCHANGED <<stateVars, writeEvt, chunk, wpc, rpc, owes>>

ClearWindowEvt(s) ==
    /\ pc[s] = "clear" /\ Free(s)
    /\ evt' = [evt EXCEPT ![s] = FALSE]
    /\ pc' = [pc EXCEPT ![s] = "try2"]
    /\ UNCHANGED <<stateVars, writeEvt, chunk, wpc, rpc, owes>>

WindowEvtWakes(s) ==
    /\ pc[s] = "wait" /\ Free(s) /\ evt[s]
    /\ pc' = [pc EXCEPT ![s] = "try1"]
    /\ UNCHANGED <<stateVars, evt, writeEvt, chunk, wpc, rpc, owes>>

SenderStep(s) == SendData(s) \/ ClearWindowEvt(s) \/ WindowEvtWakes(s)

-----------------------------------------------------------------------------
(* The read pump: one frame of the peer, dispatched, then the verdict's acts. *)

Reading == rpc = "read" /\ Free("rd")

\* A request's HEADERS create the server's entry.
RecvRequest(s) ==
    /\ scene.server /\ Reading /\ sst[s] = "idle" /\ ~failed
    /\ sst' = [sst EXCEPT ![s] = "awaiting"]
    /\ flow' = [flow EXCEPT ![s] = [win |-> initWin, avail |-> initWin]]
    /\ UNCHANGED <<recvDone, failed, initWin, conn, buffered, credit, inflight, q,
                   evt, writeEvt, pc, chunk, wpc, rpc, owes>>

\* The peer ends its half (HEADERS or DATA with END_STREAM).
RecvEndStream(s) ==
    /\ "peerEnd" \in scene.env /\ Reading /\ s \in Active /\ ~recvDone[s]
    /\ recvDone' = [recvDone EXCEPT ![s] = TRUE]
    /\ sst' = [sst EXCEPT ![s] = IF @ = "halfclosed" THEN "gone" ELSE @]
    /\ q' = IF sst[s] = "halfclosed" THEN LeaveQueues(q, s) ELSE q
    /\ owes' = [owes EXCEPT !["rd"].cap =
          sst[s] = "halfclosed" /\ LeaveQueuesFlag(q, s, WindowSize(conn))]
    /\ UNCHANGED <<failed, initWin, conn, flow, buffered, credit, inflight,
                   evt, writeEvt, pc, chunk, wpc, rpc>>

\* A connection error: the pump stops reading, queues GOAWAY and flushes.
ConnectionError ==
    /\ rpc' = "dying"
    /\ owes' = [owes EXCEPT !["rd"].wake = TRUE]

\* WINDOW_UPDATE(0): the window grows, the first waiter for it joins an empty
\* rotation, the front of the rotation is woken.
RecvConnWindowUpdate(n) ==
    /\ Reading /\ (conn.win + n <= ConnGrant \/ "overflow" \in scene.env)
    /\ IF Overflows(conn, n)
       THEN ConnectionError /\ UNCHANGED <<conn, q>>
       ELSE /\ conn' = Grown(conn, n)
            /\ LET p == PruneSend(AdmitCapacityFront(q, WindowSize(conn')))
               IN  /\ q' = p
                   /\ owes' = [owes EXCEPT !["rd"].set =
                          IF p.send = <<>> THEN {} ELSE {Head(p.send)}]
            /\ rpc' = rpc
    /\ UNCHANGED <<sst, recvDone, failed, initWin, flow, buffered, credit, inflight,
                   evt, writeEvt, pc, chunk, wpc>>

\* reset_stream: the entry closes and leaves both queues, RST_STREAM is queued, the
\* sender is woken.
ResetBy(a, s) ==
    /\ sst' = [sst EXCEPT ![s] = "gone"]
    /\ q' = LeaveQueues(q, s)
    /\ owes' = [owes EXCEPT ![a] =
          Verdict({s}, TRUE, LeaveQueuesFlag(q, s, WindowSize(conn)))]

\* WINDOW_UPDATE of a stream: an overflow resets the stream only.
RecvStreamWindowUpdate(s, n) ==
    /\ Reading /\ s \in Active
    /\ flow[s].win + n <= StreamGrant \/ "overflow" \in scene.env
    /\ IF Overflows(flow[s], n)
       THEN ResetBy("rd", s) /\ flow' = flow
       ELSE /\ flow' = [flow EXCEPT ![s] = Grown(@, n)]
            /\ owes' = [owes EXCEPT !["rd"].set = {s}]
            /\ UNCHANGED <<sst, q>>
    /\ UNCHANGED <<recvDone, failed, initWin, conn, buffered, credit, inflight,
                   evt, writeEvt, pc, chunk, wpc, rpc>>

\* A new SETTINGS_INITIAL_WINDOW_SIZE moves the window of every stream that may
\* still send by the difference.  An overflow leaves the streams visited before it
\* (in no particular order) adjusted, and is a connection error.
RecvSettings(w) ==
    /\ "settings" \in scene.env /\ Reading /\ w # initWin
    /\ initWin' = w
    /\ LET d == w - initWin
           over == {s \in SendOpen : d > 0 /\ Overflows(flow[s], d)}
       IN  IF over = {}
           THEN /\ flow' = [s \in Streams |-> IF s \in SendOpen THEN Grown(flow[s], d) ELSE flow[s]]
                /\ owes' = [owes EXCEPT !["rd"] =
                       Verdict(IF d > 0 THEN SendOpen ELSE {}, TRUE, FALSE)]
                /\ rpc' = rpc
           ELSE /\ \E visited \in SUBSET (SendOpen \ over) :
                      flow' = [s \in Streams |->
                                  IF s \in visited THEN Grown(flow[s], d) ELSE flow[s]]
                /\ ConnectionError
    /\ UNCHANGED <<sst, recvDone, failed, conn, buffered, credit, inflight, q,
                   evt, writeEvt, pc, chunk, wpc>>

\* RST_STREAM: as a local reset, but nothing is queued.
RecvReset(s) ==
    /\ "peerReset" \in scene.env /\ Reading /\ s \in Active
    /\ sst' = [sst EXCEPT ![s] = "gone"]
    /\ q' = LeaveQueues(q, s)
    /\ owes' = [owes EXCEPT !["rd"] =
          Verdict({s}, FALSE, LeaveQueuesFlag(q, s, WindowSize(conn)))]
    /\ UNCHANGED <<recvDone, failed, initWin, conn, flow, buffered, credit, inflight,
                   evt, writeEvt, pc, chunk, wpc, rpc>>

\* _fail: the error is recorded and every stored stream is aborted and woken.
FailAll(a) ==
    /\ failed' = TRUE
    /\ sst' = [s \in Streams |-> IF s \in Active THEN "gone" ELSE sst[s]]
    /\ q' = NoQueues
    /\ owes' = [owes EXCEPT ![a] = Verdict(Active, FALSE, FALSE)]

\* EOF, or the end of a connection error.
ReadFails ==
    /\ rpc = "fail" \/ (rpc = "read" /\ "eof" \in scene.env)
    /\ Free("rd")
    /\ FailAll("rd")
    /\ rpc' = "done"
    /\ UNCHANGED <<recvDone, initWin, conn, flow, buffered, credit, inflight,
                   evt, writeEvt, pc, chunk, wpc>>

\* The inline _flush of a dying read pump: the send lock orders its write against
\* the write pump's; the credit batch is shared.
TakePendingMutant ==
    /\ inflight' = [s \in Streams |-> inflight[s] + credit[s]]
    /\ UNCHANGED credit

TakePending ==
    /\ inflight' = [s \in Streams |-> inflight[s] + credit[s]]
    /\ credit' = [s \in Streams |-> 0]

FlushTake ==
    /\ rpc = "dying" /\ Free("rd") /\ wpc # "write"
    /\ TakePending
    /\ rpc' = "flush"
    /\ UNCHANGED <<sst, recvDone, failed, initWin, conn, flow, buffered, q,
                   evt, writeEvt, pc, chunk, wpc, owes>>

\* credit_written: the batch's bytes leave the send buffers, the burst bound of its
\* streams starts afresh and their senders are woken.
Credited == {s \in Active : inflight[s] > 0}

CreditWritten(a) ==
    /\ inflight' = [s \in Streams |-> 0]
    /\ buffered' = [s \in Streams |->
          IF s \notin Credited THEN buffered[s]
          ELSE IF buffered[s] <= inflight[s] THEN 0 ELSE buffered[s] - inflight[s]]
    /\ q' = [q EXCEPT !.turn = [s \in Streams |-> IF s \in Credited THEN 0 ELSE @[s]]]
    /\ owes' = [owes EXCEPT ![a].set = Credited]

\* The write ended: credited, or the exception suppressed.
FlushWritten ==
    /\ rpc = "flush"
    /\ CreditWritten("rd")
    /\ rpc' = "fail"
    /\ UNCHANGED <<sst, recvDone, failed, initWin, conn, flow, credit,
                   evt, writeEvt, pc, chunk, wpc>>

FlushFails ==
    /\ rpc = "flush" /\ "writeError" \in scene.env
    /\ rpc' = "fail"
    /\ UNCHANGED <<stateVars, evt, writeEvt, pc, chunk, wpc, owes>>

-----------------------------------------------------------------------------
(* The write pump, and a reader that cancels its stream.                     *)

\* Woken: the event is cleared before the buffer is taken.
PumpWake ==
    /\ wpc = "wait" /\ Free("wp") /\ writeEvt
    /\ writeEvt' = FALSE
    /\ wpc' = "take"
    /\ UNCHANGED <<stateVars, evt, pc, chunk, rpc, owes>>

PumpTake ==
    /\ wpc = "take" /\ rpc # "flush"
    /\ TakePending
    /\ wpc' = "write"
    /\ UNCHANGED <<sst, recvDone, failed, initWin, conn, flow, buffered, q,
                   evt, writeEvt, pc, chunk, rpc, owes>>

\* The write ended, or failed: either way the batch is credited.
PumpWrittenMutant ==
    /\ wpc = "write"
    /\ CreditWritten("wp")
    /\ wpc' = "wait" /\ writeEvt' = FALSE
    /\ UNCHANGED <<sst, recvDone, failed, initWin, conn, flow, credit, evt, pc, chunk, rpc>>

PumpWritten ==
    /\ wpc = "write"
    /\ CreditWritten("wp")
    /\ \/ wpc' = "wait"
       \/ "writeError" \in scene.env /\ wpc' = "fail"
    /\ UNCHANGED <<sst, recvDone, failed, initWin, conn, flow, credit,
                   evt, writeEvt, pc, chunk, rpc>>

\* A failed write fails the connection; the pump exits.
PumpFails ==
    /\ wpc = "fail" /\ Free("wp")
    /\ FailAll("wp")
    /\ wpc' = "exit"
    /\ UNCHANGED <<recvDone, initWin, conn, flow, buffered, credit, inflight,
                   evt, writeEvt, pc, chunk, rpc>>

\* _reset (or the aclose of an unfinished body) from another task.
AppReset(s) ==
    /\ "appReset" \in scene.env /\ Free("app") /\ s \in Active
    /\ ResetBy("app", s)
    /\ UNCHANGED <<recvDone, failed, initWin, conn, flow, buffered, credit, inflight,
                   evt, writeEvt, pc, chunk, wpc, rpc>>

-----------------------------------------------------------------------------
ReadStep ==
    \/ \E s \in Streams : RecvRequest(s) \/ RecvEndStream(s) \/ RecvReset(s)
    \/ \E n \in Increments : RecvConnWindowUpdate(n)
    \/ \E s \in Streams, n \in Increments : RecvStreamWindowUpdate(s, n)
    \/ \E w \in InitWindows : RecvSettings(w)
    \/ ReadFails \/ FlushTake \/ FlushWritten \/ FlushFails

PumpStep == PumpWake \/ PumpTake \/ PumpWritten \/ PumpFails

\* An actor between two awaits: acts are due, or a sender has not parked yet.
Busy(a) == ~Free(a) \/ (a \in Streams /\ pc[a] \in {"try1", "clear", "try2"})

\* The actor may run now.
Scheduled(a) == scene.preemptive \/ \A b \in Actors \ {a} : ~Busy(b)

Next ==
    \/ \E s \in Streams :
          /\ Scheduled(s) /\ (Open(s) \/ OpenStopped(s) \/ NextChunk(s) \/ SenderStep(s))
          /\ UNCHANGED scene
    \/ \E s \in Streams : Scheduled("app") /\ AppReset(s) /\ UNCHANGED scene
    \/ Scheduled("rd") /\ ReadStep /\ UNCHANGED scene
    \/ Scheduled("wp") /\ PumpStep /\ UNCHANGED scene
    \/ \E a \in Actors : Scheduled(a) /\ Act(a) /\ UNCHANGED scene

Spec == Init /\ [][Next]_vars

\* Busy actors go on.  A task that is ready again and again runs (threads are fair,
\* and the event loop's ready queue is first in, first out).  A peer that reads
\* keeps granting window: both windows are replenished again and again while they
\* are below its limit.  Nothing obliges the application to yield another chunk, or
\* the peer to do more.
BusyStep(a) ==
    /\ Scheduled(a) /\ Busy(a) /\ (Act(a) \/ (a \in Streams /\ SenderStep(a)))
    /\ UNCHANGED scene

PeerGrants(n) == Scheduled("rd") /\ RecvConnWindowUpdate(n) /\ UNCHANGED scene
PeerGrantsStream(s, n) == Scheduled("rd") /\ RecvStreamWindowUpdate(s, n) /\ UNCHANGED scene

Fairness ==
    /\ \A a \in Actors : WF_vars(BusyStep(a))
    /\ \A s \in Streams : SF_vars(Scheduled(s) /\ WindowEvtWakes(s) /\ UNCHANGED scene)
    /\ SF_vars(Scheduled("wp") /\ PumpStep /\ UNCHANGED scene)
    /\ SF_vars(Scheduled("rd") /\ rpc # "read" /\ ReadStep /\ UNCHANGED scene)
    /\ SF_vars(\E n \in Increments : PeerGrants(n))
    /\ \A s \in Streams : SF_vars(\E n \in Increments : PeerGrantsStream(s, n))

LiveSpec == Spec /\ Fairness

-----------------------------------------------------------------------------
(* Properties.                                                               *)

\* Each send window's available capacity equals the window: what stream_room's
\* DIVERGENCE comment relies on, across frames, WINDOW_UPDATEs and SETTINGS.
AvailEqualsWindow ==
    /\ conn.avail = conn.win
    /\ \A s \in Streams : flow[s].avail = flow[s].win

\* The connection window is never overrun nor overflowed, and no stream window
\* exceeds the protocol's limit.
WindowsBounded ==
    /\ conn.win \in 0..MaxWindow
    /\ \A s \in Streams : flow[s].win <= MaxWindow

\* A stored stream's send_buffered is exactly its bytes queued or being written, and
\* it covers every frame counted in its turn: a sender paused at the burst bound has
\* a credit coming.
BufferLedger ==
    \A s \in Active :
        /\ buffered[s] = credit[s] + inflight[s]
        /\ q.turn[s] <= buffered[s]

\* The sending half's accounts: the windows and the buffers of all streams.
SendLedgers == TypeOK /\ AvailEqualsWindow /\ WindowsBounded /\ BufferLedger

\* The queues hold each stream at most once, exactly when its flag says so, and
\* only streams that may still send; a stream waits in one of them at a time.
QueuesMatchFlags ==
    /\ \A s \in Streams :
          /\ q.inSend[s] <=> \E i \in DOMAIN q.send : q.send[i] = s
          /\ q.inCap[s] <=> \E i \in DOMAIN q.cap : q.cap[i] = s
          /\ q.inSend[s] => sst[s] = "streaming" /\ ~q.inCap[s]
          /\ q.inCap[s] => sst[s] = "streaming"
    /\ \A i, j \in DOMAIN q.send : q.send[i] = q.send[j] => i = j
    /\ \A i, j \in DOMAIN q.cap : q.cap[i] = q.cap[j] => i = j

\* Queued bytes always have a wake of the write pump on its way: the clear precedes
\* the take.
QueuedBytesGetFlushed ==
    (\E s \in Streams : credit[s] > 0) =>
        \/ writeEvt \/ wpc # "wait"
        \/ \E a \in Actors : owes[a].wake

\* Nobody has anything left to do but wait for the peer or the application.
Quiet ==
    /\ \A a \in Actors : Free(a)
    /\ wpc = "exit" \/ (wpc = "wait" /\ ~writeEvt)
    /\ rpc \in {"read", "done"}
    /\ \A s \in Streams : pc[s] \in {"start", "idle", "end"} \/ (pc[s] = "wait" /\ ~evt[s])

\* No lost wakeup: when everyone waits, no parked sender has window it could use,
\* none is parked on a stopped stream, and no waiter for connection window is left
\* while there is some.
NoStrandedSender ==
    Quiet => \A s \in Streams : pc[s] = "wait" => sst[s] = "streaming" /\ Budget(s) = 0

\* No wake-up is lost, of the write pump or of a sender.
NoLostWakeup == QueuedBytesGetFlushed /\ NoStrandedSender

\* "The waiters take the window strictly in order" (pending_capacity): a stream that
\* may still send leaves the line only from its front.
CapacityInOrder ==
    [][\A s \in Streams :
          q.inCap[s] /\ ~q'.inCap[s] /\ sst'[s] = "streaming" => Head(q.cap) = s]_vars

\* Every chunk a sender starts on is queued in the end, or its stream stops.
SenderProgress ==
    \A s \in Streams : pc[s] = "try1" ~> pc[s] \in {"idle", "end"}
=============================================================================
