------------------------------- MODULE H1Server -------------------------------
(***************************************************************************)
(* One HTTP/1 server connection: the locked state H1ServerState             *)
(* (src/h1/conn.rs) and the tasks of httpunk/h1/server.py around it: the    *)
(* accept loop with its head read and one-poll drain, the handler that      *)
(* responds, the reader of the request body, peer_closed(), the mid-message *)
(* watcher, the head-read deadline, graceful_shutdown() and close().        *)
(*                                                                         *)
(* The record me is what the mutex guards; one action is one critical       *)
(* section or one act on the transport. Taking the transport and closing it *)
(* are one step. The client's bytes are items: the two halves of a head, a  *)
(* body, the bytes of a tunnel. Requests are numbered as the client sends   *)
(* them, and seq is that number.                                            *)
(***************************************************************************)
EXTENDS Naturals, Sequences, FiniteSets, SequencesExt

CONSTANTS
    MaxReq,         \* requests the client sends, a bound
    Scenarios       \* what happens on the connection, see H1ServerConstants

Reqs == 1..MaxReq

ASSUME H1ServerConstants ==
    /\ MaxReq \in Nat
    /\ Scenarios \subseteq
         [kinds : SUBSET {"plain", "body", "expect", "upgrade", "bad"},  \* the requests
          modes : SUBSET {"bytes", "async", "push", "error", "detach"},  \* the answers
          threads : BOOLEAN,   \* tonio: tasks run in parallel
          env : SUBSET {"shutdown", "deadline", "reset", "leave", "late"}]  \* what else happens

VARIABLES
    scene,      \* the scenario
    kind,       \* [Reqs -> the kind of the request]
    at,         \* the request the client is sending, and the place in it
    sent,       \* the items the client has sent
    fin,        \* the client shut down its side
    net,        \* items sent and not yet read
    sock,       \* the socket: "open", "reset", or how it ended
    me,         \* the locked state
    dec,        \* [Reqs -> the body decoder]
    serve,      \* the accept loop
    hd,         \* [Reqs -> the handler]
    body,       \* [Reqs -> the reader of the request body]
    peer,       \* [Reqs -> a peer_closed() call]
    evt,        \* [Reqs -> _peer_closed_evt]
    wt,         \* [Reqs -> the watcher task armed for the request]
    wire,       \* what the server wrote
    used        \* items parsed, decoded or handed over with a tunnel

vars == <<scene, kind, at, sent, fin, net, sock, me, dec, serve, hd, body, peer, evt, wt, wire, used>>

None == 0

Item(r, part) == [r |-> r, part |-> part]

\* The items of a request.
Message(r, k) ==
    CASE k = "plain" -> <<Item(r, "h"), Item(r, "H")>>
      [] k \in {"body", "expect"} -> <<Item(r, "h"), Item(r, "H"), Item(r, "b")>>
      [] k = "upgrade" -> <<Item(r, "h"), Item(r, "H"), Item(r, "raw")>>
      [] k = "bad" -> <<Item(r, "x")>>

NoWatcher == [slot |-> FALSE, on |-> None, handle |-> None, completed |-> FALSE,
              res |-> "none", data |-> <<>>]
\* Current::none.
NoRequest ==
    [seq |-> None, responded |-> FALSE, pending |-> FALSE, done |-> TRUE, bodyDone |-> TRUE,
     reading |-> FALSE, cont |-> FALSE, gone |-> FALSE, negotiated |-> FALSE,
     switch |-> FALSE, keep |-> FALSE, wanted |-> FALSE]

Init ==
    /\ scene \in Scenarios
    /\ kind \in [Reqs -> scene.kinds]
    /\ at = [r |-> 1, i |-> 1] /\ sent = <<>> /\ fin = FALSE /\ net = <<>> /\ sock = "open"
    /\ me = [open |-> TRUE, closed |-> FALSE, reusable |-> TRUE, upgraded |-> FALSE,
             shutdown |-> FALSE, parked |-> FALSE, since |-> FALSE, buf |-> <<>>,
             cur |-> NoRequest, w |-> NoWatcher]
    /\ dec = [r \in Reqs |-> [buf |-> <<>>, complete |-> FALSE]]
    /\ serve = [pc |-> "start", data |-> <<>>, on |-> None, end |-> "none"]
    /\ hd = [r \in Reqs |-> [pc |-> "off", mode |-> "none"]]
    /\ body = [r \in Reqs |-> [pc |-> "off", data |-> <<>>, got |-> FALSE, end |-> "none"]]
    /\ peer = [r \in Reqs |-> "off"]
    /\ evt = [r \in Reqs |-> FALSE]
    /\ wt = [r \in Reqs |-> [pc |-> "none", res |-> "none", data |-> <<>>]]
    /\ wire = <<>> /\ used = <<>>

-----------------------------------------------------------------------------
(* The client.                                                               *)

ClientSends ==
    /\ sock \in {"open", "caller"} /\ ~fin /\ at.r \in Reqs
    /\ LET items == Message(at.r, kind[at.r])
       IN  /\ sent' = Append(sent, items[at.i])
           /\ net' = Append(net, items[at.i])
           /\ at' = IF at.i < Len(items) THEN [at EXCEPT !.i = @ + 1] ELSE [r |-> at.r + 1, i |-> 1]
    /\ UNCHANGED <<scene, kind, fin, sock, me, dec, serve, hd, body, peer, evt, wt, wire, used>>

ClientShutsDown ==
    /\ sock = "open" /\ ~fin
    /\ fin' = TRUE
    /\ UNCHANGED <<scene, kind, at, sent, net, sock, me, dec, serve, hd, body, peer, evt, wt, wire, used>>

ClientResets ==
    /\ "reset" \in scene.env /\ sock = "open"
    /\ sock' = "reset" /\ net' = <<>>
    /\ UNCHANGED <<scene, kind, at, sent, fin, me, dec, serve, hd, body, peer, evt, wt, wire, used>>

\* What a read of the transport may return: some of the bytes there, the end, an error.
Reads(res, data) ==
    \/ /\ sock = "open" /\ net # <<>> /\ res = "data"
       /\ data # <<>>
    \/ sock = "open" /\ net = <<>> /\ fin /\ res = "eof" /\ data = <<>>
    \/ sock # "open" /\ res = "error" /\ data = <<>>

Rest(data) == SubSeq(net, Len(data) + 1, Len(net))
Results == {"data", "eof", "error"}
Readable == {<<>>} \cup {SubSeq(net, 1, k) : k \in {1, Len(net)} \cap DOMAIN net}

-----------------------------------------------------------------------------
(* Steps of the locked state.                                                *)

IsCurrent(r) == me.cur.seq = r

\* Mutant: the transport is given up and the connection not marked closed.
CloseNowMutant(m) == [m EXCEPT !.reusable = FALSE, !.open = FALSE]

\* close_now: poison the state and give the transport up.
CloseNow(m) == [m EXCEPT !.closed = TRUE, !.reusable = FALSE, !.open = FALSE]
Ends(how) == sock' = IF me.open /\ sock = "open" THEN how ELSE sock

\* Mutant: the bytes past the body are forgotten.
LeftoverMutant(m) == <<>>

\* feed_decoder_leftover: bytes past the body go back into the codec's buffer.
Leftover(m) == IF m.cur.seq = None THEN <<>> ELSE dec[m.cur.seq].buf
LeftoverTaken(m) == IF m.cur.seq = None THEN dec ELSE [dec EXCEPT ![m.cur.seq].buf = <<>>]

\* arm_decision: may a read be parked for the mid-message window?
Armable(m) ==
    /\ m.cur.wanted
    /\ ~m.closed /\ m.open /\ ~m.w.slot
    /\ m.cur.bodyDone /\ ~m.cur.done
    /\ kind[m.cur.seq] = "upgrade" => m.cur.negotiated /\ ~m.cur.switch
    /\ m.buf = <<>>
Armed(m) == Armable(m) /\ dec[m.cur.seq].buf = <<>>
ArmDecision(m) ==
    IF Armed(m) THEN [m EXCEPT !.w = [NoWatcher EXCEPT !.slot = TRUE, !.on = m.cur.seq,
                                                       !.handle = IF scene.threads THEN None ELSE m.cur.seq]]
    ELSE IF Armable(m) THEN [m EXCEPT !.buf = dec[m.cur.seq].buf]
    ELSE m
\* The decoder's leftover moves with a decision not to arm; the task is spawned with
\* one to arm.
ArmDec(m) ==
    IF Armable(m) /\ ~Armed(m) THEN [dec EXCEPT ![m.cur.seq].buf = <<>>] ELSE dec
Spawned(m) == IF Armed(m) THEN [wt EXCEPT ![m.cur.seq].pc = "spawned"] ELSE wt

\* read_verdict: what the accept loop does for the next head.
ReadVerdict(m) ==
    CASE m.buf # <<>> -> [m |-> [m EXCEPT !.since = TRUE], pc |-> "parse", on |-> None]
      [] m.buf = <<>> /\ m.shutdown -> [m |-> m, pc |-> "none", on |-> None]
      [] m.buf = <<>> /\ ~m.shutdown /\ m.w.slot ->
           [m |-> [m EXCEPT !.parked = TRUE, !.since = TRUE], pc |-> "watch", on |-> m.w.on]
      [] m.buf = <<>> /\ ~m.shutdown /\ ~m.w.slot /\ m.open ->
           [m |-> [m EXCEPT !.parked = TRUE, !.since = TRUE], pc |-> "read", on |-> None]
      [] OTHER -> [m |-> m, pc |-> "none", on |-> None]

\* ready_for_next, then the verdict.
Ready(m) ==
    LET v == ReadVerdict([m EXCEPT !.buf = @ \o Leftover(m), !.cur.done = TRUE,
                                   !.cur.bodyDone = TRUE])
    IN  /\ me' = v.m
        /\ dec' = LeftoverTaken(m)
        /\ serve' = [serve EXCEPT !.pc = v.pc, !.on = v.on]

-----------------------------------------------------------------------------
(* The accept loop: next_request.                                            *)

serveFrame == UNCHANGED <<scene, kind, at, sent, fin, hd, body, peer, evt, wt>>

\* begin_read, once the handler has returned.
BeginRead ==
    /\ \/ serve.pc = "start"
       \/ serve.pc = "serving" /\ hd[me.cur.seq].pc = "over"
    /\ \/ /\ me.closed \/ ~me.reusable
          /\ serve' = [serve EXCEPT !.pc = "out"]
          /\ UNCHANGED <<sock, me, dec>>
       \/ /\ ~me.closed /\ me.reusable /\ ~me.cur.bodyDone /\ me.cur.reading
          /\ me' = CloseNow(me) /\ Ends("orderly")
          /\ serve' = [serve EXCEPT !.pc = "out"]
          /\ UNCHANGED dec
       \/ /\ ~me.closed /\ me.reusable /\ ~me.cur.bodyDone /\ ~me.cur.reading
          /\ me' = [me EXCEPT !.cur.reading = TRUE]
          /\ serve' = [serve EXCEPT !.pc = "drain"]
          /\ UNCHANGED <<sock, dec>>
       \/ ~me.closed /\ me.reusable /\ me.cur.bodyDone /\ Ready(me) /\ UNCHANGED sock
    /\ UNCHANGED <<net, wire, used>> /\ serveFrame

\* _drain_unread_body: one frame of what is buffered, or of one read that does not wait.
Drain ==
    /\ serve.pc = "drain"
    /\ LET r == me.cur.seq
           peeks == me.open /\ ~dec[r].complete /\ dec[r].buf = <<>>
                    /\ ~(me.w.slot /\ ~me.w.completed) /\ sock = "open"
       IN  \E data \in IF peeks THEN Readable ELSE {<<>>} :
             /\ peeks /\ net # <<>> => data # <<>>
             /\ LET all == dec[r].buf \o data
                    eats == me.open /\ ~dec[r].complete /\ all # <<>>
                IN  /\ net' = Rest(data)
                    /\ dec' = [dec EXCEPT ![r] =
                                 [buf |-> IF eats THEN Tail(all) ELSE all, complete |-> @.complete \/ eats]]
                    /\ used' = IF eats THEN Append(used, Head(all)) ELSE used
                    /\ serve' = [serve EXCEPT !.pc = IF me.open /\ (dec[r].complete \/ eats)
                                                    THEN "drained" ELSE "undrained"]
    /\ UNCHANGED <<sock, me, wire>> /\ serveFrame

\* drain_done.
DrainDone ==
    /\ \/ /\ serve.pc = "drained"
          /\ Ready([me EXCEPT !.cur.reading = FALSE]) /\ UNCHANGED sock
       \/ /\ serve.pc = "undrained"
          /\ me' = CloseNow([me EXCEPT !.cur.reading = FALSE]) /\ Ends("orderly")
          /\ serve' = [serve EXCEPT !.pc = "out"]
          /\ UNCHANGED dec
    /\ UNCHANGED <<net, wire, used>> /\ serveFrame

\* The head read returned without bytes: unpark_idle_read, and fail_read for an error
\* that is not the connection's own close.
HeadReadEnds(m, res) ==
    LET n == [m EXCEPT !.parked = FALSE] IN
    IF res = "error" /\ ~m.closed
    THEN /\ me' = CloseNow(n) /\ Ends("abort")
         /\ serve' = [serve EXCEPT !.pc = "out", !.on = None]
    ELSE /\ me' = n /\ UNCHANGED sock
         /\ serve' = [serve EXCEPT !.pc = "none", !.on = None,
                                   !.end = IF m.closed THEN "closed" ELSE "eof"]

\* The read of the transport, between requests or in a head.
HeadRead ==
    /\ serve.pc = "read"
    /\ \E res \in Results, data \in Readable :
         /\ Reads(res, data)
         /\ net' = Rest(data)
         /\ IF res = "data" THEN /\ serve' = [serve EXCEPT !.pc = "got", !.data = data]
                                /\ UNCHANGED <<me, sock>>
            ELSE HeadReadEnds(me, res)
    /\ UNCHANGED <<dec, wire, used>> /\ serveFrame

\* _take_watcher: the hand-off of the watcher's read. Its handle is taken and joined.
TakeWatcherHandle ==
    /\ serve.pc = "watch" /\ wt[serve.on].pc = "over"
    /\ serve' = [serve EXCEPT !.pc = "take", !.on = me.w.handle]
    /\ me' = [me EXCEPT !.w.handle = None]
    /\ UNCHANGED <<net, sock, dec, wire, used>> /\ serveFrame

\* Mutant: the slot is not freed.
TakeWatcherResultMutant ==
    /\ serve.pc = "take" /\ (serve.on # None => wt[serve.on].pc = "over")
    /\ LET m == [me EXCEPT !.w.res = "none", !.w.data = <<>>]
       IN  IF me.w.res = "data"
           THEN /\ me' = m /\ UNCHANGED sock
                /\ serve' = [serve EXCEPT !.pc = "got", !.data = me.w.data, !.on = None]
           ELSE HeadReadEnds(m, me.w.res)
    /\ UNCHANGED <<net, dec, wire, used>> /\ serveFrame

\* take_watcher_result: the slot is freed unless a handle is still in it.
TakeWatcherResult ==
    /\ serve.pc = "take" /\ (serve.on # None => wt[serve.on].pc = "over")
    /\ LET m == [me EXCEPT !.w = IF me.w.handle = None THEN NoWatcher
                                 ELSE [@ EXCEPT !.res = "none", !.data = <<>>]]
       IN  IF me.w.res = "data"
           THEN /\ me' = m /\ UNCHANGED sock
                /\ serve' = [serve EXCEPT !.pc = "got", !.data = me.w.data, !.on = None]
           ELSE HeadReadEnds(m, me.w.res)
    /\ UNCHANGED <<net, dec, wire, used>> /\ serveFrame

IsHead(s) == Len(s) >= 2 /\ s[1].part = "h" /\ s[2].part = "H"
IsPartialHead(s) == Len(s) = 1 /\ s[1].part = "h"
HasBody(r) == kind[r] \in {"body", "expect"}

\* accept_head: the park ends, and the bytes are parsed unless the connection was closed
\* under the read. A malformed head is answered and ends the connection (fail_read).
AcceptHead ==
    /\ serve.pc \in {"got", "parse"}
    /\ LET n == [me EXCEPT !.parked = FALSE, !.buf = @ \o serve.data] IN
         \/ /\ me.closed
            /\ me' = [me EXCEPT !.parked = FALSE]
            /\ serve' = [serve EXCEPT !.pc = "mid", !.data = <<>>]
            /\ UNCHANGED <<sock, dec, hd, wire, used>>
         \/ /\ ~me.closed /\ IsPartialHead(n.buf)
            /\ me' = n
            /\ serve' = [serve EXCEPT !.pc = "mid", !.data = <<>>]
            /\ UNCHANGED <<sock, dec, hd, wire, used>>
         \/ /\ ~me.closed /\ IsHead(n.buf)
            /\ LET r == n.buf[1].r IN
                 /\ me' = [n EXCEPT !.buf = <<>>, !.since = FALSE,
                                    !.cur = [NoRequest EXCEPT !.seq = r, !.done = FALSE,
                                                              !.bodyDone = ~HasBody(r)]]
                 /\ dec' = [dec EXCEPT ![r] = [buf |-> SubSeq(n.buf, 3, Len(n.buf)),
                                               complete |-> ~HasBody(r)]]
                 /\ hd' = [hd EXCEPT ![r].pc = "start"]
            /\ serve' = [serve EXCEPT !.pc = "serving", !.data = <<>>]
            /\ used' = used \o SubSeq(n.buf, 1, 2)
            /\ UNCHANGED <<sock, wire>>
         \/ /\ ~me.closed /\ ~IsHead(n.buf) /\ ~IsPartialHead(n.buf)
            /\ me' = CloseNow(n) /\ Ends("orderly")
            /\ wire' = IF sock = "open" THEN Append(wire, Item(None, "400")) ELSE wire
            /\ serve' = [serve EXCEPT !.pc = "out", !.data = <<>>, !.end = "parse"]
            /\ UNCHANGED <<dec, hd, used>>
    /\ UNCHANGED <<scene, kind, at, sent, fin, net, body, peer, evt, wt>>

\* _recv_head_bytes: the next read of a head that has begun.
RecvHeadBytes ==
    /\ serve.pc = "mid"
    /\ serve' = IF me.w.slot THEN [serve EXCEPT !.pc = "watch", !.on = me.w.on]
                ELSE IF me.open THEN [serve EXCEPT !.pc = "read"]
                ELSE [serve EXCEPT !.pc = "none", !.end = "closed"]
    /\ UNCHANGED <<net, sock, me, dec, wire, used>> /\ serveFrame

\* stop_serving.
StopServing ==
    /\ serve.pc = "none"
    /\ me' = [me EXCEPT !.closed = TRUE, !.reusable = FALSE]
    /\ serve' = [serve EXCEPT !.pc = "out"]
    /\ UNCHANGED <<net, sock, dec, wire, used>> /\ serveFrame

\* close, after the loop or on leaving it early: mark_closed, then the watcher is joined.
Close ==
    /\ serve.pc = "out" \/ ("leave" \in scene.env /\ serve.pc = "serving")
    /\ me' = CloseNow(me)
    /\ Ends(IF me.closed THEN "orderly" ELSE "abort")
    /\ serve' = [serve EXCEPT !.pc = IF me.w.slot THEN "closing" ELSE "closed", !.on = me.w.on]
    /\ UNCHANGED <<net, dec, wire, used>> /\ serveFrame

CloseJoins ==
    /\ serve.pc = "closing" /\ wt[serve.on].pc = "over"
    /\ serve' = [serve EXCEPT !.pc = "joining", !.on = me.w.handle]
    /\ me' = [me EXCEPT !.w.handle = None]
    /\ UNCHANGED <<net, sock, dec, wire, used>> /\ serveFrame

Closed ==
    /\ serve.pc = "joining" /\ (serve.on # None => wt[serve.on].pc = "over")
    /\ serve' = [serve EXCEPT !.pc = "closed", !.on = None]
    /\ UNCHANGED <<net, sock, me, dec, wire, used>> /\ serveFrame

-----------------------------------------------------------------------------
(* Arming the watcher. On threads the spawn and store_watcher_handle come    *)
(* after the decision; otherwise nothing runs in between.                    *)

\* store_watcher_handle: refused once the connection is closed, the slot gone or taken.
Refused(m) == m.closed \/ ~m.w.slot \/ m.w.handle # None
Stored(m, r) == IF Refused(m) THEN m ELSE [m EXCEPT !.w.handle = r]

\* arm_watcher with the state m. On threads the handle of the task it spawns is still
\* to be stored: the caller goes on at yes, else at no.
Arm(m) == me' = ArmDecision(m) /\ dec' = ArmDec(m) /\ wt' = Spawned(m)
IfToStore(m, yes, no) == IF Armed(m) /\ scene.threads THEN yes ELSE no

-----------------------------------------------------------------------------
(* The handler.                                                              *)

hdFrame == UNCHANGED <<scene, kind, at, sent, fin, serve, body, peer>>
HdGoes(r, pc) == hd' = [hd EXCEPT ![r].pc = pc]

\* respond_head: claim the response and wait for a 100 Continue in flight; then the
\* head is encoded, the reuse and hand-off decisions recorded, the watcher armed.
RespondHead(r) ==
    /\ hd[r].pc \in {"start", "again"}
    /\ \E mode \in IF hd[r].pc = "again" THEN {hd[r].mode} ELSE scene.modes \ {"detach"} :
         LET claimed == [me EXCEPT !.cur.responded = TRUE, !.cur.pending = FALSE]
             goes(pc) == hd' = [hd EXCEPT ![r] = [pc |-> pc, mode |-> mode]]
         IN  \/ /\ ~me.cur.pending /\ me.cur.cont
                /\ me' = [claimed EXCEPT !.cur.pending = TRUE]
                /\ goes("cont") /\ UNCHANGED <<dec, wt>>
             \/ /\ me.cur.pending \/ ~me.cur.cont
                /\ me.cur.gone \/ mode = "error"
                /\ me' = claimed
                /\ goes(IF me.cur.gone THEN "fail" ELSE "userError") /\ UNCHANGED <<dec, wt>>
             \/ /\ me.cur.pending \/ ~me.cur.cont
                /\ ~me.cur.gone /\ mode # "error"
                /\ \E keep \in BOOLEAN, switch \in {FALSE} \cup {b \in {TRUE} : kind[r] = "upgrade"} :
                     LET m == [claimed EXCEPT !.cur.keep = keep /\ ~me.shutdown, !.cur.switch = switch,
                                              !.cur.negotiated = TRUE,
                                              !.cur.wanted = @ \/ mode = "push"]
                     IN  Arm(m) /\ goes(IfToStore(m, "store", IF me.open THEN "head" ELSE "fail"))
    /\ UNCHANGED <<net, sock, evt, wire, used>> /\ hdFrame

\* Mutants: the responder does not wait; a write that failed does not set the event.
AfterContinueMutant(r) ==
    /\ hd[r].pc = "cont"
    /\ HdGoes(r, "again")
    /\ UNCHANGED <<net, sock, me, dec, evt, wt, wire, used>> /\ hdFrame
AfterContinueNever(r) ==
    /\ hd[r].pc = "cont" /\ body[r].pc # "100" /\ body[r].end # "error"
    /\ HdGoes(r, "again")
    /\ UNCHANGED <<net, sock, me, dec, evt, wt, wire, used>> /\ hdFrame

\* The continue event: the reader has written its 100 Continue, or failed to.
AfterContinue(r) ==
    /\ hd[r].pc = "cont" /\ body[r].pc # "100"
    /\ HdGoes(r, "again")
    /\ UNCHANGED <<net, sock, me, dec, evt, wt, wire, used>> /\ hdFrame

\* After the spawn; a refused handle is joined here.
HandlerStores(r) ==
    /\ hd[r].pc \in {"store", "storeBody"}
    /\ me' = Stored(me, r)
    /\ HdGoes(r, IF hd[r].pc = "store" THEN (IF Refused(me) THEN "join" ELSE "head")
                 ELSE (IF Refused(me) THEN "joinBody" ELSE "stream"))
    /\ UNCHANGED <<net, sock, dec, evt, wt, wire, used>> /\ hdFrame

HandlerJoins(r) ==
    /\ hd[r].pc \in {"join", "joinBody"} /\ wt[r].pc = "over"
    /\ HdGoes(r, IF hd[r].pc = "join" THEN "head" ELSE "stream")
    /\ UNCHANGED <<net, sock, me, dec, evt, wt, wire, used>> /\ hdFrame

\* The write of the head, with a small body in the same write.
WriteHead(r) ==
    /\ hd[r].pc = "head"
    /\ IF sock = "open"
       THEN /\ wire' = Append(wire, Item(r, "head"))
            /\ HdGoes(r, CASE hd[r].mode = "bytes" -> "finish"
                           [] hd[r].mode = "async" -> "arm"
                           [] hd[r].mode = "push" -> "stream")
       ELSE HdGoes(r, "fail") /\ UNCHANGED wire
    /\ UNCHANGED <<net, sock, me, dec, evt, wt, used>> /\ hdFrame

\* _send_async_body parks a read for the client's FIN.
ArmForBody(r) ==
    /\ hd[r].pc = "arm"
    /\ LET m == [me EXCEPT !.cur.wanted = TRUE] IN
         Arm(m) /\ HdGoes(r, IfToStore(m, "storeBody", "stream"))
    /\ UNCHANGED <<net, sock, evt, wire, used>> /\ hdFrame

\* The rest of a streamed body: written, or the client gone, the transport broken, the
\* producer raising.
StreamBody(r) ==
    /\ hd[r].pc = "stream"
    /\ \/ me.open /\ sock = "open" /\ ~me.cur.gone /\ HdGoes(r, "finish")
       \/ HdGoes(r, "fail")
    /\ UNCHANGED <<net, sock, me, dec, evt, wt, wire, used>> /\ hdFrame

\* Without "late" the body is read before the response is complete.
ReaderDone(r) == "late" \in scene.env \/ body[r].pc \in {"off", "over"}

\* finish_response.
FinishResponse(r) ==
    /\ hd[r].pc = "finish" /\ ReaderDone(r)
    /\ LET n == [me EXCEPT !.cur.done = TRUE, !.reusable = @ /\ me.cur.keep] IN
         \/ /\ me.cur.switch
            /\ me' = [CloseNow(n) EXCEPT !.upgraded = TRUE, !.buf = <<>>]
            /\ used' = used \o me.buf \o Leftover(me) /\ dec' = LeftoverTaken(me)
            /\ Ends("caller")
         \/ /\ ~me.cur.switch /\ n.reusable
            /\ me' = n /\ UNCHANGED <<sock, dec, used>>
         \/ /\ ~me.cur.switch /\ ~n.reusable
            /\ me' = CloseNow(n) /\ Ends("orderly") /\ UNCHANGED <<dec, used>>
    /\ evt' = [evt EXCEPT ![r] = TRUE]
    /\ HdGoes(r, "over")
    /\ UNCHANGED <<net, wt, wire>> /\ hdFrame

\* fail_response: abortive, but for an encoder's user error.
FailResponse(r) ==
    /\ hd[r].pc \in {"fail", "userError"} /\ ReaderDone(r)
    /\ me' = CloseNow([me EXCEPT !.cur.done = TRUE])
    /\ Ends(IF hd[r].pc = "fail" THEN "abort" ELSE "orderly")
    /\ evt' = [evt EXCEPT ![r] = TRUE]
    /\ HdGoes(r, "over")
    /\ UNCHANGED <<net, dec, wt, wire, used>> /\ hdFrame

\* Mutant: the transport is handed over under a parked read.
DetachMutant(r) ==
    /\ "detach" \in scene.modes /\ hd[r].pc = "start" /\ ReaderDone(r)
    /\ me' = [CloseNow(me) EXCEPT !.upgraded = TRUE, !.buf = <<>>, !.w.data = <<>>,
                                  !.cur.responded = TRUE, !.cur.done = TRUE]
    /\ used' = used \o me.buf \o Leftover(me) \o me.w.data /\ dec' = LeftoverTaken(me)
    /\ Ends("caller")
    /\ evt' = [evt EXCEPT ![r] = TRUE]
    /\ HdGoes(r, "over")
    /\ UNCHANGED <<net, wt, wire>> /\ hdFrame

\* detach: refused while a read is parked.
Detach(r) ==
    /\ "detach" \in scene.modes /\ hd[r].pc = "start" /\ ReaderDone(r)
    /\ ~(me.w.slot /\ ~me.w.completed)
    /\ me' = [CloseNow(me) EXCEPT !.upgraded = TRUE, !.buf = <<>>, !.w.data = <<>>,
                                  !.cur.responded = TRUE, !.cur.done = TRUE]
    /\ used' = used \o me.buf \o Leftover(me) \o me.w.data /\ dec' = LeftoverTaken(me)
    /\ Ends("caller")
    /\ evt' = [evt EXCEPT ![r] = TRUE]
    /\ HdGoes(r, "over")
    /\ UNCHANGED <<net, wt, wire>> /\ hdFrame

-----------------------------------------------------------------------------
(* The reader of the request body: aiter_bytes.                              *)

bodyFrame == UNCHANGED <<scene, kind, at, sent, fin, serve, hd, peer, evt>>
BodyGoes(r, pc) == body' = [body EXCEPT ![r].pc = pc]
\* It ends: "clean", or with an error, which makes the connection unusable.
BodyRaises(r, m) ==
    /\ me' = [m EXCEPT !.reusable = FALSE]
    /\ body' = [body EXCEPT ![r].pc = "over", ![r].end = "error"]

\* try_send_continue.
ReadBody(r) ==
    /\ body[r].pc = "off" /\ hd[r].pc # "off"
    /\ "late" \in scene.env \/ (hd[r].pc # "over" /\ serve.pc = "serving")
    /\ \/ /\ dec[r].complete
          /\ body' = [body EXCEPT ![r].pc = "over", ![r].end = "clean"] /\ UNCHANGED me
       \/ /\ ~dec[r].complete
          /\ IF IsCurrent(r) /\ kind[r] = "expect" /\ ~me.cur.responded
             THEN me' = [me EXCEPT !.cur.cont = TRUE] /\ BodyGoes(r, "100")
             ELSE BodyGoes(r, "loop") /\ UNCHANGED me
    /\ UNCHANGED <<net, sock, dec, wt, wire, used>> /\ bodyFrame

WriteContinue(r) ==
    /\ body[r].pc = "100"
    /\ IF me.open /\ sock = "open"
       THEN wire' = Append(wire, Item(r, "100")) /\ BodyGoes(r, "loop")
       ELSE body' = [body EXCEPT ![r].pc = "over", ![r].end = "error"] /\ UNCHANGED wire
    /\ UNCHANGED <<net, sock, me, dec, wt, used>> /\ bodyFrame

\* Decode what is buffered; else become the one reader of the transport, or be refused.
DecodeBody(r) ==
    /\ body[r].pc = "loop"
    /\ \/ /\ dec[r].complete
          /\ BodyGoes(r, "done") /\ UNCHANGED <<me, dec, used>>
       \/ /\ ~dec[r].complete /\ dec[r].buf # <<>>
          /\ dec' = [dec EXCEPT ![r] = [buf |-> Tail(@.buf), complete |-> TRUE]]
          /\ used' = Append(used, Head(dec[r].buf))
          /\ body' = [body EXCEPT ![r].pc = "done", ![r].got = TRUE] /\ UNCHANGED me
       \/ /\ ~dec[r].complete /\ dec[r].buf = <<>>
          /\ IF ~IsCurrent(r) \/ me.cur.bodyDone \/ me.cur.reading
             THEN BodyRaises(r, me)
             ELSE me' = [me EXCEPT !.cur.reading = TRUE] /\ BodyGoes(r, "reading")
          /\ UNCHANGED <<dec, used>>
    /\ UNCHANGED <<net, sock, wt, wire>> /\ bodyFrame

\* read_body_more and end_body_read; what was read is fed to the decoder after it.
ReadBodyMore(r) ==
    /\ body[r].pc = "reading"
    /\ LET n == IF IsCurrent(r) THEN [me EXCEPT !.cur.reading = FALSE] ELSE me IN
         \E res \in Results, data \in Readable :
            /\ Reads(res, data)
            /\ IF res # "data"
               THEN BodyRaises(r, n) /\ UNCHANGED <<net, dec>>
               ELSE /\ me' = n /\ net' = Rest(data)
                    /\ IF scene.threads
                       THEN body' = [body EXCEPT ![r].pc = "feed", ![r].data = data] /\ UNCHANGED dec
                       ELSE dec' = [dec EXCEPT ![r].buf = @ \o data] /\ BodyGoes(r, "loop")
    /\ UNCHANGED <<sock, wt, wire, used>> /\ bodyFrame

FeedBody(r) ==
    /\ body[r].pc = "feed"
    /\ dec' = [dec EXCEPT ![r].buf = @ \o body[r].data]
    /\ body' = [body EXCEPT ![r].pc = "loop", ![r].data = <<>>]
    /\ UNCHANGED <<net, sock, me, wt, wire, used>> /\ bodyFrame

\* end_body_read of a complete body, and the arm of a peer_closed() asked for earlier.
EndBody(r) ==
    /\ body[r].pc = "done"
    /\ LET goes(pc) == body' = [body EXCEPT ![r].pc = pc, ![r].end = "clean"]
           m == [me EXCEPT !.cur.reading = FALSE, !.cur.bodyDone = TRUE]
       IN
         IF IsCurrent(r)
         THEN Arm(m) /\ goes(IfToStore(m, "store", "over"))
         ELSE goes("over") /\ UNCHANGED <<me, dec, wt>>
    /\ UNCHANGED <<net, sock, wire, used>> /\ bodyFrame

BodyStores(r) ==
    /\ \/ /\ body[r].pc = "store"
          /\ me' = Stored(me, r)
          /\ BodyGoes(r, IF Refused(me) THEN "join" ELSE "over")
       \/ /\ body[r].pc = "join" /\ wt[r].pc = "over"
          /\ BodyGoes(r, "over") /\ UNCHANGED me
    /\ UNCHANGED <<net, sock, dec, wt, wire, used>> /\ bodyFrame

-----------------------------------------------------------------------------
(* peer_closed() and the watcher.                                            *)

peerFrame == UNCHANGED <<scene, kind, at, sent, fin, net, sock, serve, hd, body, evt, wire, used>>
PeerGoes(r, pc) == peer' = [peer EXCEPT ![r] = pc]

\* peer_closed_now, and the arm if the window is open.
PeerClosed(r) ==
    /\ peer[r] = "off" /\ hd[r].pc # "off"
    /\ LET m == [me EXCEPT !.cur.wanted = TRUE] IN
         IF ~IsCurrent(r) \/ me.cur.done
         THEN PeerGoes(r, "over") /\ UNCHANGED <<me, dec, wt>>
         ELSE Arm(m) /\ PeerGoes(r, IfToStore(m, "store", "wait"))
    /\ peerFrame

PeerStores(r) ==
    /\ peer[r] = "store"
    /\ me' = Stored(me, r)
    /\ PeerGoes(r, IF Refused(me) THEN "join" ELSE "wait")
    /\ UNCHANGED <<dec, wt>> /\ peerFrame

PeerWaits(r) ==
    /\ \/ peer[r] = "join" /\ wt[r].pc = "over" /\ PeerGoes(r, "wait")
       \/ peer[r] = "wait" /\ evt[r] /\ PeerGoes(r, "over")
    /\ UNCHANGED <<me, dec, wt>> /\ peerFrame

watchFrame == UNCHANGED <<scene, kind, at, sent, fin, sock, dec, serve, hd, body, peer, wire, used>>

\* Mutant: a watcher that finds no transport leaves its slot waiting.
WatcherStartsMutant(r) ==
    /\ wt[r].pc = "spawned" /\ me.open
    /\ wt' = [wt EXCEPT ![r].pc = "reading"]
    /\ UNCHANGED <<me, net, evt>> /\ watchFrame

\* _watch_mid_message: one read, never cancelled; watcher_aborted if the transport is gone.
WatcherStarts(r) ==
    /\ wt[r].pc = "spawned"
    /\ IF me.open THEN wt' = [wt EXCEPT ![r].pc = "reading"] /\ UNCHANGED me
       ELSE /\ wt' = [wt EXCEPT ![r].pc = "over"]
            /\ me' = IF me.w.slot THEN [me EXCEPT !.w.completed = TRUE] ELSE me
    /\ UNCHANGED <<net, evt>> /\ watchFrame

WatcherReads(r) ==
    /\ wt[r].pc = "reading"
    /\ \E res \in Results, data \in Readable :
         /\ Reads(res, data)
         /\ net' = Rest(data)
         /\ wt' = [wt EXCEPT ![r] = [pc |-> "result", res |-> res, data |-> data]]
    /\ UNCHANGED <<me, evt>> /\ watchFrame

\* Mutant: bytes of the next request are taken for the end of the client.
WatcherCompletedMutant(r) ==
    /\ wt[r].pc = "result" /\ me.w.slot
    /\ me' = [me EXCEPT !.reusable = FALSE, !.cur.gone = ~me.cur.done,
                        !.w = [@ EXCEPT !.res = wt[r].res, !.data = wt[r].data, !.completed = TRUE]]
    /\ evt' = [evt EXCEPT ![r] = TRUE]
    /\ wt' = [wt EXCEPT ![r] = [pc |-> "over", res |-> "none", data |-> <<>>]]
    /\ UNCHANGED net /\ watchFrame

\* watcher_completed: an end while the response is in flight is the client gone.
WatcherCompleted(r) ==
    /\ wt[r].pc = "result"
    /\ LET n == [me EXCEPT !.w = [@ EXCEPT !.res = wt[r].res, !.data = wt[r].data,
                                           !.completed = TRUE]]
           gone == wt[r].res # "data" /\ ~me.cur.done /\ ~me.cur.gone
       IN  /\ me' = IF ~me.w.slot THEN me
                    ELSE IF gone THEN [n EXCEPT !.reusable = FALSE, !.cur.gone = TRUE] ELSE n
           /\ evt' = [evt EXCEPT ![r] = @ \/ (me.w.slot /\ gone)]
    /\ wt' = [wt EXCEPT ![r] = [pc |-> "over", res |-> "none", data |-> <<>>]]
    /\ UNCHANGED net /\ watchFrame

-----------------------------------------------------------------------------
(* The deadline and the graceful shutdown.                                   *)

InRequest == me.cur.seq # None /\ ~me.cur.done
timeFrame == UNCHANGED <<scene, kind, at, sent, fin, net, dec, serve, hd, body, peer, evt, wt, wire, used>>

\* Mutant: the clock is not stopped once a head is parsed.
OverdueMutant ==
    /\ "deadline" \in scene.env /\ ~me.closed /\ (me.since \/ InRequest)
    /\ me' = CloseNow(me) /\ Ends("abort")
    /\ timeFrame

\* head_read_overdue, in the watchdog: a head has been in the reading for too long.
Overdue ==
    /\ "deadline" \in scene.env /\ ~me.closed /\ me.since
    /\ me' = CloseNow(me) /\ Ends("abort")
    /\ timeFrame

\* request_shutdown: closes the connection if its read is parked between requests.
RequestShutdown ==
    /\ "shutdown" \in scene.env /\ ~me.shutdown
    /\ LET n == [me EXCEPT !.reusable = FALSE, !.shutdown = TRUE] IN
         IF me.parked THEN me' = CloseNow(n) /\ Ends("orderly") ELSE me' = n /\ UNCHANGED sock
    /\ timeFrame

-----------------------------------------------------------------------------

Client == ClientSends \/ ClientShutsDown \/ ClientResets

AcceptLoop ==
    \/ BeginRead \/ Drain \/ DrainDone
    \/ HeadRead \/ TakeWatcherHandle \/ TakeWatcherResult
    \/ AcceptHead \/ RecvHeadBytes \/ StopServing
    \/ CloseJoins \/ Closed

Handler(r) ==
    \/ RespondHead(r) \/ AfterContinue(r) \/ HandlerStores(r) \/ HandlerJoins(r)
    \/ WriteHead(r) \/ ArmForBody(r) \/ StreamBody(r) \/ FinishResponse(r) \/ FailResponse(r)

BodyReader(r) ==
    WriteContinue(r) \/ DecodeBody(r) \/ ReadBodyMore(r) \/ FeedBody(r) \/ EndBody(r) \/ BodyStores(r)

PeerWaiter(r) == PeerStores(r) \/ PeerWaits(r)
Watcher(r) == WatcherStarts(r) \/ WatcherReads(r) \/ WatcherCompleted(r)

Next ==
    \/ Client \/ AcceptLoop \/ Close \/ Overdue \/ RequestShutdown
    \/ \E r \in Reqs : Handler(r)
    \/ \E r \in Reqs : Detach(r)
    \/ \E r \in Reqs : ReadBody(r) \/ BodyReader(r)
    \/ \E r \in Reqs : PeerClosed(r) \/ PeerWaiter(r)
    \/ \E r \in Reqs : Watcher(r)

Spec == Init /\ [][Next]_vars

\* Every task that has begun a step goes on with it: the backend runs ready tasks.
Scheduled ==
    /\ WF_vars(AcceptLoop)
    /\ \A r \in Reqs : WF_vars(hd[r].pc # "start" /\ Handler(r)) /\ WF_vars(BodyReader(r))
    /\ \A r \in Reqs : WF_vars(PeerWaiter(r)) /\ WF_vars(Watcher(r))

\* Handlers may never answer.
WaitSpec == Spec /\ Scheduled

\* Handlers answer, the header-read deadline runs, and the caller closes after the loop.
LiveSpec == Spec /\ Scheduled /\ WF_vars(Overdue) /\ WF_vars(serve.pc = "out" /\ Close)
                 /\ \A r \in Reqs : WF_vars(Handler(r))

-----------------------------------------------------------------------------
(* Properties.                                                               *)

Parts == {"h", "H", "b", "raw", "x", "100", "head", "400"}
Items == [r : Reqs \cup {None}, part : Parts]

\* Every variable keeps its type, and only a closed connection has no transport.
TypeOK ==
    /\ kind \in [Reqs -> scene.kinds] /\ at \in [r : Nat \ {0}, i : 1..3] /\ fin \in BOOLEAN
    /\ sock \in {"open", "reset", "orderly", "abort", "caller"}
    /\ {sent, net, me.buf, me.w.data, serve.data, wire, used} \subseteq Seq(Items)
    /\ \A f \in {"open", "closed", "reusable", "upgraded", "shutdown", "parked", "since"} :
         me[f] \in BOOLEAN
    /\ DOMAIN me.cur = DOMAIN NoRequest /\ me.cur.seq \in Reqs \cup {None}
    /\ me.w.on \in Reqs \cup {None} /\ me.w.handle \in Reqs \cup {None}
    /\ peer \in [Reqs -> {"off", "store", "join", "wait", "over"}]
    /\ evt \in [Reqs -> BOOLEAN]
    /\ ~me.open => me.closed /\ ~me.reusable

\* At most one task reads the transport, the drain's peek included: a second reader
\* would take bytes that are not its own. Once the transport is handed over, none does,
\* but for a reader of a body that its handler left behind.
Readers ==
    {<<"head", None>> : x \in {y \in {1} : serve.pc = "read"}}
        \cup {<<"body", r>> : r \in {s \in Reqs : body[s].pc = "reading"}}
        \cup {<<"watch", r>> : r \in {s \in Reqs : wt[s].pc \in {"spawned", "reading"}}}
OneReader ==
    /\ TypeOK
    /\ sock = "open" => Cardinality(Readers) <= 1
    /\ sock = "open" /\ serve.pc = "drain" => \A r \in Reqs : body[r].pc # "reading"
    /\ sock = "caller" => \A x \in Readers : "late" \in scene.env /\ x[1] = "body"

\* Every byte the client sent is parsed or decoded once and in order, or still lies in
\* exactly one buffer, in order, across bodies, pipelined heads, hand-offs and tunnels.
Buffered ==
    LET each(F(_)) == FoldLeft(LAMBDA acc, r : acc \o F(r), <<>>, [r \in Reqs |-> r])
    IN  me.buf \o each(LAMBDA r : dec[r].buf) \o each(LAMBDA r : body[r].data)
               \o me.w.data \o each(LAMBDA r : wt[r].data) \o serve.data
NothingLost ==
    (~me.closed \/ me.upgraded) /\ sock # "reset" => used \o Buffered \o net = sent

\* A 100 Continue never follows the response head it would have preceded.
ContinueFirst ==
    \A i, j \in DOMAIN wire :
        i < j /\ wire[j].part = "100" => wire[i].part = "100" \/ wire[i].r # wire[j].r

\* The transport of a request in progress is given up only by its own response, or by
\* the caller that leaves the loop: neither a shutdown nor the head-read deadline cuts
\* it short.
NeverCutShort == [][InRequest /\ me.open /\ ~me'.open => me'.cur.done \/ serve.pc # serve'.pc]_vars

\* The accept loop takes a connection to be at its end only if the client ended it. (On
\* threads it may be wrong: README, known divergences.)
NoFalseEof == ~scene.threads /\ serve.end = "eof" => fin

\* A client that sends well-formed requests is never told that it did not, unless it
\* went on to speak a protocol it was not switched to.
InSync == serve.end = "parse" => \E i \in DOMAIN me.buf : me.buf[i].part \in {"x", "raw"}

\* The client's octets reach the right request, each once.
StreamKept == NothingLost /\ InSync

\* A request is reported as abandoned by its client only if the client or the server
\* ended the connection.
GoneIsGone == me.cur.gone => fin \/ sock # "open"

\* The server never takes the client for gone when it is not, in the accept loop or in
\* a request.
TrueEnds == NoFalseEof /\ GoneIsGone

\* A graceful shutdown ends the transport in the orderly way, not by an abort.
GracefulIsOrderly ==
    me.shutdown /\ ~fin /\ wire # <<>> /\ serve.pc = "closed" => sock # "abort"

\* A refused watcher handle is joined at once: the connection is closed.
RefusedEndsAtOnce ==
    \A r \in Reqs : hd[r].pc \in {"join", "joinBody"} => me.closed \/ wt[r].pc = "over"

\* A request body that ends cleanly was delivered.
WholeBody == \A r \in Reqs : body[r].end = "clean" /\ HasBody(r) => body[r].got

\* close() returns: the watcher it joins ends with the transport.
CloseEnds == serve.pc \in {"closing", "joining"} ~> serve.pc = "closed"

\* After graceful_shutdown the accept loop comes to its end, and the connection closes.
ShutdownEnds == me.shutdown ~> serve.pc = "closed"

\* However it is told to end, by close() or by a graceful shutdown, the connection ends.
ConnectionEnds == CloseEnds /\ ShutdownEnds

\* peer_closed() never hangs on a connection that is over.
PeerClosedReturns == \A r \in Reqs : serve.pc = "closed" /\ peer[r] = "wait" ~> peer[r] = "over"

=============================================================================
