-------------------------------- MODULE H2Recv --------------------------------
(***************************************************************************)
(* The receiving half of an HTTP/2 connection: what H2Streams               *)
(* (src/h2/conn.rs) does with DATA, HEADERS, RST_STREAM and GOAWAY, the     *)
(* receive windows and the framing budget it keeps for them, the read pump  *)
(* that dispatches the frames (httpunk/h2/connection.py) and the readers of *)
(* the bodies.                                                              *)
(*                                                                         *)
(* The state behind the mutex is one record, me, and an operator that takes *)
(* and returns it is one function called with the lock held. An action is   *)
(* one critical section, or one act of the pump on a stream's body queue:   *)
(* readers and the application run in parallel with the pump (tonio).       *)
(*                                                                         *)
(* A WINDOW_UPDATE counts as sent when it is encoded. The peer may send     *)
(* anything, legal or not.                                                  *)
(***************************************************************************)
EXTENDS Integers, Sequences, FiniteSets, Functions

CONSTANTS
    Scenarios,      \* what the connection may be: its role, the endings that happen,
                    \* the payload lengths of DATA frames, and, a bound, how many
                    \* frames the peer sends
    N,              \* the streams are 1..N
    ConnWindow,     \* the connection's receive window
    RecvInit,       \* a stream's receive window before our SETTINGS are acknowledged
    StreamWindow,   \* the one we asked for
    Pads,           \* padding lengths of DATA frames
    Threshold,      \* DEFAULT_DATA_FRAME_OVERHEAD_THRESHOLD
    BudgetMax,      \* the DATA-framing budget
    MaxEmpty,       \* MAX_RECV_EMPTY_DATA_FRAMES
    ResetMax,       \* reset_stream_max
    MaxErrors       \* max_local_error_resets

Streams == 1..N

ASSUME H2RecvConstants ==
    /\ Scenarios \subseteq
         [role : {"client", "server"},
          env : SUBSET {"goaway", "fail", "settings", "bad"}, lens : SUBSET Nat,
          frames : Nat]
    /\ N \in Nat /\ ConnWindow \in Nat \ {0}
    /\ StreamWindow \in Nat \ {0} /\ RecvInit \in Nat /\ StreamWindow <= RecvInit
    /\ Pads \subseteq Nat
    /\ {Threshold, BudgetMax, MaxEmpty, ResetMax, MaxErrors} \subseteq Nat

VARIABLES
    scene,      \* the scenario
    me,         \* the locked state
    pump,       \* what the read pump has still to do for the frame it dispatched
    q,          \* [Streams -> the body queue]
    rd,         \* [Streams -> the reader]
    frames      \* bound

vars == <<scene, me, pump, q, rd, frames>>

NoStream == 0
NoGoAway == N + 1   \* no GOAWAY received yet

Chunk(n, b) == [kind |-> "chunk", len |-> n, budgeted |-> b]
EndOfBody == [kind |-> "eof", len |-> 0, budgeted |-> FALSE]
Stopped == [kind |-> "stop", len |-> 0, budgeted |-> FALSE]

Flow(n) == [win |-> n, avail |-> n]

\* A stream's entry. recv: the receiving half; cause: why the stream is closed, with
\* "after" a reset of a message already received in full; total: payload received;
\* app: the application has the stream; spoiled: END_STREAM came on HEADERS that were
\* refused.
NoEntry ==
    [stored |-> FALSE, recv |-> "idle", sent |-> FALSE, cause |-> "none", fin |-> FALSE,
     unrel |-> 0, charged |-> 0, reclaimed |-> FALSE, flow |-> Flow(0), total |-> 0, app |-> FALSE,
     spoiled |-> FALSE]

Reading == [pc |-> "wait", item |-> EndOfBody, end |-> "none", got |-> 0]
IdlePump == [push |-> <<>>, err |-> "none", on |-> NoStream]
PumpOver == [IdlePump EXCEPT !.err = "over"]

Init ==
    /\ scene \in Scenarios
    /\ me = [e |-> [s \in Streams |-> NoEntry], conn |-> Flow(ConnWindow),
             budget |-> BudgetMax, empty |-> 0, errors |-> 0, store |-> {}, active |-> 0,
             init |-> RecvInit, goaway |-> NoGoAway, error |-> FALSE]
    /\ pump = IdlePump
    /\ q = [s \in Streams |-> <<>>]
    /\ rd = [s \in Streams |-> Reading]
    /\ frames = 0

-----------------------------------------------------------------------------
(* Flow control.                                                             *)

\* unclaimed_capacity and inc_window: re-advertise what was given back, once it is half
\* of what the peer still has.
Claimed(f) ==
    LET half == IF f.win < 0 THEN 0 ELSE f.win \div 2
    IN  IF f.win < f.avail /\ f.avail - f.win >= half THEN [f EXCEPT !.win = f.avail] ELSE f

Assign(f, n) == [f EXCEPT !.avail = @ + n]
Consume(f, n) == [win |-> f.win - n, avail |-> f.avail - n]
HasWindow(f, n) == n = 0 \/ f.win >= n

ReclaimConn(m, n) == IF n = 0 THEN m ELSE [m EXCEPT !.conn = Claimed(Assign(@, n))]

Replenish(b, n) == IF b + n > BudgetMax THEN BudgetMax ELSE b + n

-----------------------------------------------------------------------------
(* The life of an entry.                                                     *)

Closed(m, s) == m.e[s].cause # "none"
RecvEnded(m, s) ==
    \/ m.e[s].cause \in {"end", "after"}
    \/ m.e[s].cause = "none" /\ m.e[s].recv = "ended"

\* maybe_remove_settled.
Settle(m, s) ==
    IF m.e[s].fin /\ m.e[s].unrel = 0 /\ m.e[s].charged = 0
    THEN [m EXCEPT !.e[s].stored = FALSE] ELSE m

\* Mutant: the ledgers are cleared and nothing is given back.
ReclaimMutant(m, s) ==
    Settle([m EXCEPT !.e[s].charged = 0, !.e[s].unrel = 0, !.e[s].reclaimed = TRUE], s)

\* reclaim_stream_accounting: what the reader will never give back.
Reclaim(m, s) ==
    IF ~m.e[s].stored THEN m
    ELSE Settle(ReclaimConn([m EXCEPT !.budget = Replenish(@, m.e[s].charged),
                                      !.e[s].charged = 0, !.e[s].unrel = 0,
                                      !.e[s].reclaimed = TRUE],
                            m.e[s].unrel), s)

\* maybe_goaway_reply: the peer said GOAWAY and the last stream is gone.
GoAwayReply(m) == IF m.goaway # NoGoAway /\ m.active = 0 THEN [m EXCEPT !.error = TRUE] ELSE m

\* close_stream: a closed stream leaves the active set, and the store unless its
\* reader still owes credit.
CloseStream(m, s) ==
    IF ~m.e[s].stored \/ ~Closed(m, s) \/ m.e[s].fin THEN m
    ELSE GoAwayReply(Settle([m EXCEPT !.e[s].fin = TRUE, !.active = @ - 1], s))

\* drop_closed_stored: what is left of a stream that is over.
DropClosed(m, s) == CloseStream(Reclaim(m, s), s)

\* Mutant: the reset store has no cap.
RememberMutant(m, s) == [m EXCEPT !.store = @ \cup {s}]

\* enqueue_reset_expiration.
Remember(m, s) == IF Cardinality(m.store) >= ResetMax THEN m ELSE [m EXCEPT !.store = @ \cup {s}]

\* reset_stream.
ResetStream(m, s) ==
    IF ~m.e[s].stored THEN m
    ELSE LET n == IF m.e[s].cause \in {"none", "end"} THEN [m EXCEPT !.e[s].cause = "local"] ELSE m
             c == DropClosed(n, s)
         IN  IF n.e[s].cause = "local" THEN Remember(c, s) ELSE c

\* Mutant: a reset always ends the body queue as an end of body.
ReaderStopMutant(m, s) == EndOfBody

\* What _notify_reset ends the body queue with: a clean end only if the message stood.
ReaderStop(m, s) ==
    IF m.e[s].cause = "none" \/ RecvEnded(m, s) THEN EndOfBody ELSE Stopped

\* abort_stream: the ledgers are dropped with the entry.
Abort(x) ==
    [x EXCEPT !.stored = FALSE, !.fin = TRUE, !.cause = IF @ = "none" THEN "broken" ELSE @,
              !.unrel = 0, !.charged = 0, !.reclaimed = TRUE]

\* fail_all, and the loop of recv_go_away: whatever the order, the last stream to leave
\* the active set may fire the GOAWAY reply.
AbortAll(m, S) ==
    LET hit == {s \in S : m.e[s].stored}
        live == {s \in hit : ~m.e[s].fin}
        n == [m EXCEPT !.e = [s \in Streams |-> IF s \in hit THEN Abort(m.e[s]) ELSE m.e[s]],
                       !.active = @ - Cardinality(live)]
    IN  IF live = {} THEN n ELSE GoAwayReply(n)

\* Mutant: only the streams whose body flows are told.
AbortedMutant(m, S) == {s \in S : m.e[s].stored /\ ~Closed(m, s) /\ m.e[s].recv = "streaming"}
Aborted(m, S) == {s \in S : m.e[s].stored /\ ~Closed(m, s)}

-----------------------------------------------------------------------------
(* The pump.                                                                 *)

\* It reads on whatever the error slot says, until it fails or acknowledges a GOAWAY.
PumpIdle == pump = IdlePump /\ frames < scene.frames

\* The verdict of a frame: the new state, and what the pump does next.
Verdict(m, push, err, s) ==
    /\ me' = m
    /\ pump' = IF push = <<>> /\ err = "none" THEN IdlePump
               ELSE [push |-> push, err |-> err, on |-> s]
    /\ frames' = frames + 1
    /\ UNCHANGED <<q, rd>>

NewEntry(m, s, r, told) ==
    [m EXCEPT !.e[s] = [NoEntry EXCEPT !.stored = TRUE, !.recv = r, !.flow = Flow(m.init), !.app = told],
              !.active = @ + 1]

\* open_stream, by the application.
OpenStream(s) ==
    /\ scene.role = "client" /\ ~me.error /\ me.goaway = NoGoAway
    /\ \A u \in Streams : (me.e[u].recv = "idle") <=> (u >= s)
    /\ me' = NewEntry(me, s, "head", TRUE)
    /\ UNCHANGED <<pump, q, rd, frames>>

\* recv_headers opening a request; with a wrong content-length, a stream error before
\* the application is told of it.
RecvRequest(s) ==
    /\ scene.role = "server" /\ PumpIdle
    /\ \A u \in Streams : u >= s => me.e[u].recv = "idle"
    /\ \E end \in BOOLEAN, bad \in {FALSE} \cup {b \in {TRUE} : "bad" \in scene.env} :
         LET m == NewEntry(me, s, IF end THEN "ended" ELSE "streaming", ~bad)
         IN  Verdict(m, IF end /\ ~bad THEN <<[on |-> s, item |-> EndOfBody]>> ELSE <<>>,
                     IF bad THEN "stream" ELSE "none", s)

\* recv_lookup: live, ignored, or an error.
Lookup(m, s) ==
    IF m.e[s].stored
    THEN IF m.e[s].cause = "local" THEN "ignore" ELSE IF Closed(m, s) THEN "closed" ELSE "live"
    ELSE IF s \in m.store THEN "ignore" ELSE IF m.e[s].recv = "idle" THEN "idle" ELSE "closed"

\* The receiving half ends; with the sending half it closes the stream.
EndRecv(m, s) ==
    [m EXCEPT !.e[s].recv = "ended", !.e[s].cause = IF m.e[s].sent THEN "end" ELSE @]

\* recv_headers of a stream that exists: a response head, or trailers.
RecvHeaders(s) ==
    /\ PumpIdle
    /\ scene.role = "server" => Lookup(me, s) # "idle"
    /\ \E end \in BOOLEAN, bad \in {FALSE} \cup {b \in {TRUE} : "bad" \in scene.env} :
         LET eof == <<[on |-> s, item |-> EndOfBody]>>
             spoilt(m) == [m EXCEPT !.e[s].spoiled = end]
             opened == IF end THEN EndRecv(me, s) ELSE [me EXCEPT !.e[s].recv = "streaming"]
         IN  CASE Lookup(me, s) = "ignore" -> Verdict(me, <<>>, "none", s)
               [] Lookup(me, s) = "idle" -> Verdict(me, <<>>, "conn", s)
               [] Lookup(me, s) = "closed" ->
                    Verdict(DropClosed(me, s), <<>>,
                            IF scene.role = "client" THEN "stream" ELSE "conn", s)
               [] Lookup(me, s) = "live" /\ me.e[s].recv = "head" ->
                    IF bad THEN Verdict(spoilt(opened), <<>>, "stream", s)
                    ELSE Verdict(CloseStream(opened, s), IF end THEN eof ELSE <<>>, "none", s)
               [] Lookup(me, s) = "live" /\ me.e[s].recv = "streaming" ->
                    IF ~end THEN Verdict(me, <<>>, "stream", s)
                    ELSE IF bad THEN Verdict(spoilt(EndRecv(me, s)), <<>>, "stream", s)
                    ELSE Verdict(CloseStream(EndRecv(me, s), s), eof, "none", s)
               [] Lookup(me, s) = "live" /\ me.e[s].recv = "ended" ->
                    Verdict(me, <<>>, IF end THEN "conn" ELSE "stream", s)

\* Mutants: no WINDOW_UPDATE for the stream; the owed bytes not reduced; a settled entry
\* not dropped.
ReleaseQuiet(m, s, n) ==
    IF ~m.e[s].stored \/ m.e[s].reclaimed THEN m
    ELSE Settle(ReclaimConn([m EXCEPT !.e[s].unrel = IF n > @ THEN 0 ELSE @ - n,
                                      !.e[s].flow = Assign(@, n)], n), s)
ReleaseOwed(m, s, n) ==
    IF ~m.e[s].stored \/ m.e[s].reclaimed THEN m
    ELSE ReclaimConn([m EXCEPT !.e[s].flow = Claimed(Assign(@, n))], n)
ReleaseKept(m, s, n) ==
    IF ~m.e[s].stored \/ m.e[s].reclaimed THEN m
    ELSE ReclaimConn([m EXCEPT !.e[s].unrel = IF n > @ THEN 0 ELSE @ - n,
                               !.e[s].flow = Claimed(Assign(@, n))], n)

\* release_capacity_inner.
ReleaseCapacity(m, s, n) ==
    IF ~m.e[s].stored \/ m.e[s].reclaimed THEN m
    ELSE LET given == [m EXCEPT !.e[s].unrel = IF n > @ THEN 0 ELSE @ - n,
                                !.e[s].flow = Assign(@, n)]
             adv == IF RecvEnded(m, s) THEN given ELSE [given EXCEPT !.e[s].flow = Claimed(@)]
         IN  Settle(ReclaimConn(adv, n), s)

\* DataFrameCounts::record: small frames pay, large ones earn, empty ones are counted.
RecordOk(m, len) ==
    IF len = 0 THEN m.empty < MaxEmpty ELSE len >= Threshold \/ Threshold - len <= m.budget
Record(m, s, len) ==
    IF len = 0 THEN [m EXCEPT !.empty = @ + 1]
    ELSE IF len < Threshold
    THEN [m EXCEPT !.budget = @ - (Threshold - len), !.e[s].charged = @ + (Threshold - len)]
    ELSE [m EXCEPT !.budget = Replenish(@, len - Threshold)]

\* recv_data on a live stream whose receiving half is streaming.
DataOn(s, len, pad, end, bad) ==
    LET sz == len + pad
        taken == [me EXCEPT !.conn = Consume(@, sz)]
        refused == ReclaimConn(taken, sz)
        kept == [taken EXCEPT !.e[s].flow = Consume(@, sz), !.e[s].unrel = @ + sz,
                              !.e[s].total = @ + len]
        padded == IF pad > 0 THEN ReleaseCapacity(kept, s, pad) ELSE kept
        item == [on |-> s, item |-> Chunk(len, ~end)]
        eof == [on |-> s, item |-> EndOfBody]
    IN  IF ~HasWindow(me.conn, sz) THEN Verdict(me, <<>>, "conn", s)
        ELSE IF ~HasWindow(me.e[s].flow, sz) THEN Verdict(refused, <<>>, "stream", s)
        ELSE IF bad
        THEN Verdict([refused EXCEPT !.e[s].flow = Consume(@, sz)], <<>>, "stream", s)
        ELSE IF end THEN Verdict(CloseStream(EndRecv(padded, s), s), <<item, eof>>, "none", s)
        ELSE IF ~RecordOk(padded, len) THEN Verdict(padded, <<>>, "conn", s)
        ELSE Verdict(Record(padded, s, len), IF len = 0 THEN <<>> ELSE <<item>>, "none", s)

\* recv_data: ignored and refused DATA is still counted, and given back at once.
RecvData(s) ==
    /\ PumpIdle
    /\ \E len \in scene.lens, pad \in Pads, end \in BOOLEAN,
         bad \in {FALSE} \cup {b \in {TRUE} : "bad" \in scene.env} :
         LET sz == len + pad
             swallowed == ReclaimConn([me EXCEPT !.conn = Consume(@, sz)], sz)
             dropped == DropClosed(swallowed, s)
         IN  CASE Lookup(me, s) = "live" ->
                    IF me.e[s].recv = "streaming" THEN DataOn(s, len, pad, end, bad)
                    ELSE Verdict(me, <<>>, "conn", s)
               [] Lookup(me, s) = "idle" -> Verdict(me, <<>>, "conn", s)
               [] Lookup(me, s) = "ignore" ->
                    IF HasWindow(me.conn, sz) THEN Verdict(swallowed, <<>>, "none", s)
                    ELSE Verdict(me, <<>>, "conn", s)
               [] Lookup(me, s) = "closed" ->
                    IF HasWindow(me.conn, sz) THEN Verdict(dropped, <<>>, "stream", s)
                    ELSE Verdict(DropClosed(me, s), <<>>, "conn", s)

\* recv_reset: the reader is told only if the message had not stood.
RecvReset(s) ==
    /\ PumpIdle
    /\ IF ~me.e[s].stored
       THEN Verdict(me, <<>>, IF s \notin me.store /\ me.e[s].recv = "idle" THEN "conn" ELSE "none", s)
       ELSE IF me.e[s].fin THEN Verdict(me, <<>>, "none", s)
       ELSE LET n == [me EXCEPT !.e[s].cause = IF RecvEnded(me, s) THEN "after" ELSE "remote"]
            IN  Verdict(DropClosed(n, s),
                        IF RecvEnded(me, s) THEN <<>> ELSE <<[on |-> s, item |-> Stopped]>>,
                        "none", s)

\* recv_go_away: the client drops the streams above the last one the peer processed, in
\* the order of its hash map. A second GOAWAY may only lower it.
RecvGoAway ==
    /\ "goaway" \in scene.env /\ PumpIdle
    /\ \E last \in 0..N :
         LET over == IF scene.role = "client" THEN {s \in Streams : s > last} ELSE {}
             told == Aborted(me, over)
         IN  IF last > me.goaway THEN Verdict(me, <<>>, "conn", NoStream)
             ELSE \E order \in Surjection(1..Cardinality(told), told) :
                    Verdict(AbortAll([me EXCEPT !.goaway = last], over),
                            [i \in 1..Cardinality(told) |-> [on |-> order[i], item |-> Stopped]],
                            "none", NoStream)

\* A malformed header block: the codec's StreamErrorFrame.
MalformedFrame(s) ==
    /\ "bad" \in scene.env /\ PumpIdle
    /\ me.e[s].recv # "idle"
    /\ Verdict(me, <<>>, "stream", s)

\* reset_on_error: one RST_STREAM, counted; too many are a connection error.
ResetOnError ==
    /\ pump.err = "stream"
    /\ LET s == pump.on IN
         IF me.errors >= MaxErrors
         THEN me' = me /\ pump' = [pump EXCEPT !.err = "conn"]
         ELSE LET n == [me EXCEPT !.errors = @ + 1] IN
              IF me.e[s].stored
              THEN /\ me' = ResetStream(n, s)
                   /\ pump' = [IdlePump EXCEPT !.push =
                        <<[on |-> s, item |-> ReaderStop(ResetStream(n, s), s)]>>]
              ELSE me' = Remember(n, s) /\ pump' = IdlePump
    /\ UNCHANGED <<q, rd, frames>>

\* The pump's send on a body queue, after the lock was released.
Push ==
    /\ pump.push # <<>>
    /\ LET p == Head(pump.push) IN q' = [q EXCEPT ![p.on] = Append(@, p.item)]
    /\ pump' = IF Len(pump.push) = 1 THEN IdlePump ELSE [pump EXCEPT !.push = Tail(@)]
    /\ UNCHANGED <<me, rd, frames>>

\* fail: every stream ends with the connection.
FailWith(m) ==
    /\ me' = [AbortAll(m, Streams) EXCEPT !.error = TRUE]
    /\ q' = [s \in Streams |-> IF s \in Aborted(m, Streams) THEN Append(q[s], Stopped) ELSE q[s]]

PumpFails ==
    /\ pump.err = "conn"
    /\ FailWith([me EXCEPT !.error = TRUE])
    /\ pump' = PumpOver
    /\ UNCHANGED <<rd, frames>>

\* EOF or a transport error, in the read pump, which ends, or in the write pump.
TransportFails ==
    /\ "fail" \in scene.env
    /\ FailWith([me EXCEPT !.error = TRUE])
    /\ \/ pump = IdlePump /\ pump' = PumpOver
       \/ UNCHANGED pump
    /\ UNCHANGED <<rd, frames>>

\* After a read the pump acknowledges the peer's GOAWAY, if no stream is left, and ends.
AckGoAway ==
    /\ pump = IdlePump /\ ~me.error /\ GoAwayReply(me) # me
    /\ me' = GoAwayReply(me)
    /\ pump' = PumpOver
    /\ UNCHANGED <<q, rd, frames>>

\* apply_local_settings, on the acknowledgement of our SETTINGS.
RecvSettingsAck ==
    /\ "settings" \in scene.env /\ pump = IdlePump
    /\ me.init # StreamWindow
    /\ LET d == me.init - StreamWindow IN
         me' = [me EXCEPT !.init = StreamWindow,
                          !.e = [s \in Streams |->
                                   IF me.e[s].stored THEN [me.e[s] EXCEPT !.flow = Consume(@, d)]
                                   ELSE me.e[s]]]
    /\ UNCHANGED <<pump, q, rd, frames>>

-----------------------------------------------------------------------------
(* The application.                                                          *)

\* Ends the queue of a stream it reset.
Notify(m, s) == q' = [q EXCEPT ![s] = Append(@, ReaderStop(m, s))]

\* The END_STREAM of the sending half: finish_stream. A server drops what it did not
\* read of the request.
FinishSend(s) ==
    /\ me.e[s].app /\ me.e[s].stored /\ ~Closed(me, s) /\ ~me.e[s].sent
    /\ LET n == [me EXCEPT !.e[s].sent = TRUE,
                           !.e[s].cause = IF me.e[s].recv = "ended" THEN "end" ELSE @]
           c == CloseStream(n, s)
       IN  IF scene.role = "client" \/ ~c.e[s].stored THEN me' = c /\ UNCHANGED q
           ELSE IF Closed(c, s) THEN me' = Reclaim(c, s) /\ UNCHANGED q
           ELSE me' = ResetStream(c, s) /\ Notify(ResetStream(c, s), s)
    /\ UNCHANGED <<pump, rd, frames>>

\* A reset by the application: a cancelled request, a body that raised.
Reset(s) ==
    /\ me.e[s].app /\ me.e[s].stored
    /\ me' = ResetStream(me, s)
    /\ Notify(ResetStream(me, s), s)
    /\ UNCHANGED <<pump, rd, frames>>

\* aclose_body, by the reader.
AcloseBody(s) ==
    /\ rd[s].pc = "wait" /\ me.e[s].app
    /\ rd' = [rd EXCEPT ![s].pc = "over"]
    /\ IF ~me.e[s].stored THEN UNCHANGED <<me, q>>
       ELSE IF RecvEnded(me, s) THEN me' = DropClosed(me, s) /\ UNCHANGED q
       ELSE me' = ResetStream(me, s) /\ Notify(ResetStream(me, s), s)
    /\ UNCHANGED <<pump, frames>>

\* _aiter_body: an item of the queue.
Receive(s) ==
    /\ rd[s].pc = "wait" /\ q[s] # <<>>
    /\ q' = [q EXCEPT ![s] = Tail(@)]
    /\ LET item == Head(q[s]) IN
         rd' = [rd EXCEPT ![s] = CASE item.kind = "chunk" ->
                                        [@ EXCEPT !.pc = IF item.budgeted THEN "charge" ELSE "release",
                                                  !.item = item, !.got = rd[s].got + item.len]
                                   [] OTHER -> [@ EXCEPT !.pc = "over", !.end = item.kind]]
    /\ UNCHANGED <<me, pump, frames>>

\* release_data_frame, clamped to the stream's outstanding charge.
ReleaseDataFrame(s) ==
    /\ rd[s].pc = "charge"
    /\ LET len == rd[s].item.len
           charge == IF Threshold - len <= me.e[s].charged THEN Threshold - len ELSE me.e[s].charged
       IN  me' = IF ~me.e[s].stored \/ len = 0 \/ len >= Threshold THEN me
                 ELSE Settle([me EXCEPT !.e[s].charged = @ - charge,
                                        !.budget = Replenish(@, charge)], s)
    /\ rd' = [rd EXCEPT ![s].pc = "release"]
    /\ UNCHANGED <<pump, q, frames>>

\* release_capacity.
Release(s) ==
    /\ rd[s].pc = "release"
    /\ me' = ReleaseCapacity(me, s, rd[s].item.len)
    /\ rd' = [rd EXCEPT ![s].pc = "wait", ![s].item = EndOfBody]
    /\ UNCHANGED <<pump, q, frames>>

\* An entry of the reset store is older than reset_stream_duration.
Expire(s) ==
    /\ s \in me.store
    /\ me' = [me EXCEPT !.store = @ \ {s}]
    /\ UNCHANGED <<pump, q, rd, frames>>

-----------------------------------------------------------------------------

RecvFrame ==
    \/ \E s \in Streams : RecvRequest(s)
    \/ \E s \in Streams : RecvHeaders(s)
    \/ \E s \in Streams : RecvData(s)
    \/ \E s \in Streams : RecvReset(s)
    \/ RecvGoAway
    \/ \E s \in Streams : MalformedFrame(s)
    \/ RecvSettingsAck

Pump == ResetOnError \/ Push \/ PumpFails \/ AckGoAway

Read(s) == Receive(s) \/ ReleaseDataFrame(s) \/ Release(s)

Application ==
    \/ \E s \in Streams : OpenStream(s)
    \/ \E s \in Streams : FinishSend(s)
    \/ \E s \in Streams : Reset(s)
    \/ \E s \in Streams : AcloseBody(s)

Next ==
    \/ RecvFrame /\ UNCHANGED scene
    \/ Pump /\ UNCHANGED scene
    \/ TransportFails /\ UNCHANGED scene
    \/ Application /\ UNCHANGED scene
    \/ \E s \in Streams : Read(s) /\ UNCHANGED scene
    \/ \E s \in Streams : Expire(s) /\ UNCHANGED scene

Spec == Init /\ [][Next]_vars

-----------------------------------------------------------------------------
(* Properties.                                                               *)

\* f[1] + ... + f[n].
SumTo(f, n) == LET sum[k \in Nat] == IF k = 0 THEN 0 ELSE sum[k - 1] + f[k] IN sum[n]

Stored == {s \in Streams : me.e[s].stored}

\* What the readers of all the streams are to give back: bytes, and budget.
Owed(m) == SumTo([s \in Streams |-> IF m.e[s].stored THEN m.e[s].unrel ELSE 0], N)
Spent(m) == SumTo([s \in Streams |-> IF m.e[s].stored THEN m.e[s].charged ELSE 0], N)

Items == [kind : {"chunk", "eof", "stop"}, len : scene.lens \cup {0}, budgeted : BOOLEAN]
Entries ==
    [stored : BOOLEAN, recv : {"idle", "head", "streaming", "ended"}, sent : BOOLEAN,
     cause : {"none", "end", "local", "remote", "after", "broken"}, fin : BOOLEAN,
     unrel : Nat, charged : Nat, reclaimed : BOOLEAN, flow : [win : Int, avail : Int], total : Nat,
     app : BOOLEAN, spoiled : BOOLEAN]

\* Every variable keeps its type: the budget stays within its maximum, the connection
\* window is never negative, the error cap and the reset store's cap hold.
TypeOK ==
    /\ me.e \in [Streams -> Entries]
    /\ me.conn \in [win : Nat, avail : Int]
    /\ me.budget \in 0..BudgetMax /\ me.empty \in 0..MaxEmpty /\ me.errors \in 0..MaxErrors
    /\ me.store \subseteq Streams /\ Cardinality(me.store) <= ResetMax
    /\ me.active = Cardinality({s \in Streams : me.e[s].stored /\ ~me.e[s].fin})
    /\ pump.push \in Seq([on : Streams, item : Items]) /\ pump.err \in {"none", "stream", "conn", "over"}
    /\ q \in [Streams -> Seq(Items)]

\* The connection is up, and the pump is not about to take it down.
Up == ~me.error /\ pump.err # "conn"

\* ... and the peer has not said GOAWAY, which leaves bytes and charges unaccounted for
\* (README, known divergences).
Running == Up /\ me.goaway = NoGoAway

\* Every byte the peer was charged for on the connection window is either available
\* again or owed by a reader: padding, ignored, refused, reset and half-read bodies give
\* back what they took, once.
ConnLedger == Running => me.conn.avail + Owed(me) = ConnWindow

\* A stream that flows, is not about to be reset and owes nothing.
Open(s) ==
    /\ me.e[s].recv = "streaming" /\ ~Closed(me, s) /\ me.e[s].unrel = 0
    /\ pump.err = "none" \/ pump.on # s

\* Our SETTINGS take no more than two thirds off the window that streams were opened with.
MildSettings == me.init = RecvInit \/ RecvInit <= 3 * StreamWindow + 1

\* A peer is never left without a window while every reader has read: the thresholds of
\* unclaimed_capacity hold nothing back that would stop the connection, or an open stream.
NoWindowStall ==
    Running =>
        /\ Owed(me) = 0 => me.conn.win > 0
        /\ MildSettings => \A s \in Stored : Open(s) => me.e[s].flow.win > 0

\* The framing budget spent is charged to a stream that will give it back.
BudgetLedger == Running => me.budget + Spent(me) >= BudgetMax

\* What a stream's reader owes is what lies in its queue, is on its way there, or is in
\* the reader's hands: no chunk is credited twice, none is forgotten.
BytesIn(items) == SumTo([i \in DOMAIN items |-> items[i].len], Len(items))
Held(s) == IF rd[s].pc \in {"charge", "release"} THEN rd[s].item.len ELSE 0
Coming(s) ==
    SumTo([i \in DOMAIN pump.push |-> IF pump.push[i].on = s THEN pump.push[i].item.len ELSE 0],
          Len(pump.push))
QueueLedger ==
    Running =>
        \A s \in Stored : ~me.e[s].reclaimed => me.e[s].unrel = BytesIn(q[s]) + Coming(s) + Held(s)

\* Nothing the peer was charged is lost or given back twice, in the connection window,
\* in the framing budget and in what each reader owes, and no window stays shut on it.
CreditLedgers == TypeOK /\ ConnLedger /\ BudgetLedger /\ QueueLedger /\ NoWindowStall

\* A closed stream is kept only for a reader that owes credit (maybe_remove_settled).
SettledIsGone ==
    \A s \in Stored : me.e[s].fin => me.e[s].unrel > 0 \/ me.e[s].charged > 0

\* A reader sees a clean end only of a message the peer ended, and after all of it.
WholeBody ==
    \A s \in Streams :
        rd[s].end = "eof" => me.e[s].recv = "ended" /\ rd[s].got = me.e[s].total

\* Nothing is left that could end the reader's wait on a stream that is over.
Stranded(s) ==
    /\ me.e[s].app /\ (me.e[s].fin \/ pump = PumpOver)
    /\ pump \in {IdlePump, PumpOver} /\ q[s] = <<>> /\ rd[s].pc = "wait"

\* A reader is never left waiting on a stream that is over, however it ended: what
\* ends its body queue is in the queue, or on its way there. (All but one way: see
\* NoReaderStranded.)
NoStrandedReader == \A s \in Streams : ~me.e[s].spoiled => ~Stranded(s)

\* Every reader is told the end of its message, and the true one.
TrueEndTold == WholeBody /\ NoStrandedReader

\* The connection's ledger with a GOAWAY, whose abort_stream clears the ledgers of bodies
\* not read yet "regardless": the connection goes on without their bytes (README, known
\* divergences).
GoAwayLedger == Up => me.conn.avail + Owed(me) = ConnWindow

\* _notify_reset is to tell the reader of every stream the pump resets. It does not when
\* the stream's HEADERS with END_STREAM are refused and the sending half ends it before
\* reset_on_error looks for it (README, known divergences).
NoReaderStranded == \A s \in Streams : ~Stranded(s)

\* A stream's window without the proviso: SETTINGS that take more off it may leave an
\* open stream without a window, and nothing owed that would open it again (README,
\* known divergences).
NoStreamStall == Running => \A s \in Stored : Open(s) => me.e[s].flow.win > 0

=============================================================================
