------------------------------- MODULE H1Wire --------------------------------
(***************************************************************************)
(* Two HTTP/1 codecs over one connection: httpunk's client and httpunk's   *)
(* server ("both"), httpunk's server with a foreign client that may        *)
(* pipeline and err ("client"), httpunk's client with a foreign server     *)
(* ("server").  What is sent arrives in reads of any size.  The question   *)
(* is whether the two ends cut the octet stream into the same messages:    *)
(* each end's encoder and the other end's parser are different code that   *)
(* derives the framing from the same head.                                 *)
(***************************************************************************)
EXTENDS H1Codec

CONSTANTS
    Requests,       \* what the application asks of the client codec
    Responses,      \* what the application asks of the server codec
    ForeignRequests,    \* messages of a foreign client
    Pipelined,          \* those it may send without awaiting the answer
    ForeignResponses,   \* messages of a foreign server
    ConnectNoContent    \* whether an application may answer CONNECT with 204

VARIABLES
    mode,       \* "both", "client" or "server": which end is foreign
    cl, sv,     \* the two codecs with what their drivers keep per exchange
    up, down,   \* units in flight to the server, to the client
    upEnd, downEnd,     \* the sender has closed that direction
    reqs, ress  \* messages sent and not yet received whole: ghosts

wireVars == <<mode, cl, sv, up, down, upEnd, downEnd, reqs, ress>>

-----------------------------------------------------------------------------
\* A message as its sender meant it.  `ok' says whether the receiver "must",
\* "may" or may "never" accept it; `whole': the sender wrote all of it.
Ghost(head, body, trailers, ok, whole) ==
    [head |-> head, body |-> body, trailers |-> trailers, ok |-> ok, whole |-> whole]

Idle(http10) ==
    [ph |-> "idle", buf |-> <<>>, method |-> "", close |-> FALSE, http10 |-> http10,
     dec |-> NewBodyDecoder(Length(0)), wants |-> FALSE, head |-> NoHead, err |-> ""]

\* H1Codec::reset keeps the read buffer.
Await(buf) ==
    [ph |-> "head", buf |-> buf, method |-> "", ka |-> FALSE, http10 |-> FALSE,
     upgrade |-> FALSE, te |-> FALSE, dec |-> NewBodyDecoder(Length(0)), head |-> NoHead,
     parse |-> NewParse(NoHead), err |-> ""]

\* The client may have learnt on this connection that the peer speaks HTTP/1.0:
\* an earlier answer came through a 1.0 intermediary.
WireInit ==
    /\ mode \in {"both", "client", "server"}
    /\ \E http10 \in BOOLEAN : cl = Idle(http10)
    /\ sv = Await(<<>>)
    /\ up = <<>> /\ down = <<>> /\ upEnd = FALSE /\ downEnd = FALSE
    /\ reqs = <<>> /\ ress = <<>>

-----------------------------------------------------------------------------
(* The client. *)

\* serialize_request, the body through the encoder, and the reset before it.
SendRequest(q) ==
    \E e \in {EncodeRequest(q.method, q.lines, q.plan, cl.http10)} :
    \E w \in {WriteBody(e.enc, q.chunks, q.trailers)} :
        /\ cl' = [Idle(cl.http10) EXCEPT !.ph = "head", !.method = q.method,
                                         !.close = ConnectionAnyClose(q.lines)]
        /\ up' = up \o HeadOnWire(e.head) \o w.units
        /\ upEnd' = ~w.whole
        /\ reqs' = Append(reqs, Ghost(e.head, w.body, w.trailers, "must", w.whole))
        /\ UNCHANGED <<mode, sv, down, downEnd, ress>>

\* receive_head on what the buffer holds: the head, its framing, the body octets
\* that came with it.
ClientHead(c, p, f) ==
    LET b == [c EXCEPT !.buf = p.buf]
    IN  CASE p.st = "partial" -> b
          [] p.st \in {"token", "too_large"} -> [b EXCEPT !.ph = "closed", !.err = p.st]
          [] p.st = "complete" /\ f.k \notin {"length", "chunked", "close", "upgrade"} ->
                [b EXCEPT !.ph = "closed", !.err = f.k, !.head = p.head]
          [] p.st = "complete" /\ f.k = "upgrade" ->
                [b EXCEPT !.ph = "tunnel", !.head = p.head]
          [] OTHER ->
                [b EXCEPT !.ph = "body", !.buf = <<>>, !.head = p.head,
                          !.dec = Feed(NewBodyDecoder(f), p.buf), !.http10 = p.head.v10,
                          !.wants = ClientKeepAlive(p.head) /\ f.k # "close" /\ ~c.close]

ClientDecode(c, p) == ClientHead(c, p, ClientDecoder(p.head, c.method))

ClientParse(c) == ClientDecode(c, ParseHead(FALSE, c.buf, c.method))

ClientRead(n) ==
    /\ cl.ph \in {"head", "body"} /\ n \in 1..Len(down)
    /\ cl' = LET data == SubSeq(down, 1, n)
             IN  IF cl.ph = "head" THEN ClientParse([cl EXCEPT !.buf = @ \o data])
                 ELSE [cl EXCEPT !.dec = Feed(@, data)]
    /\ down' = SubSeq(down, n + 1, Len(down))
    /\ ress' = IF cl'.ph = "tunnel" THEN Tail(ress) ELSE ress
    /\ UNCHANGED <<mode, sv, up, upEnd, downEnd, reqs>>

ClientEof ==
    /\ cl.ph \in {"head", "body"} /\ ~cl.dec.eof /\ down = <<>> /\ downEnd
    /\ cl' = IF cl.ph = "head" THEN [cl EXCEPT !.ph = "closed", !.err = "incomplete"]
             ELSE [cl EXCEPT !.dec = Decode([@ EXCEPT !.eof = TRUE])]
    /\ UNCHANGED <<mode, sv, up, down, upEnd, downEnd, reqs, ress>>

\* The body is complete or failed: the connection is reused only if every verdict
\* allows it and nothing is buffered past the message.
ReleaseSlot ==
    /\ cl.ph = "body" /\ (cl.dec.done \/ cl.dec.err # "")
    /\ IF cl.dec.done /\ cl.wants /\ cl.dec.buf = <<>> /\ ~upEnd
       THEN cl' = Idle(cl.http10) /\ upEnd' = upEnd
       ELSE cl' = [cl EXCEPT !.ph = "closed", !.err = cl.dec.err] /\ upEnd' = TRUE
    /\ ress' = IF ress = <<>> THEN ress ELSE Tail(ress)
    /\ UNCHANGED <<mode, sv, up, down, downEnd, reqs>>

-----------------------------------------------------------------------------
(* The server. *)

Refusal(s, buf, err) == [s EXCEPT !.ph = "refuse", !.buf = buf, !.err = err]

\* receive_request_head on what the buffer holds.
ServerTake(s, p, r) ==
    CASE p.st = "partial" -> [s EXCEPT !.buf = p.buf]
      [] p.st \in {"token", "too_large", "uri_too_long"} -> Refusal(s, p.buf, p.st)
      [] p.st = "complete" /\ r.err # "" ->
            [Refusal(s, <<>>, r.err) EXCEPT !.head = p.head, !.parse = r]
      [] OTHER ->
            [s EXCEPT !.ph = "body", !.buf = <<>>, !.method = p.head.method, !.ka = r.ka,
                      !.http10 = p.head.v10, !.upgrade = r.upgrade, !.head = p.head,
                      !.te = AnyHas(p.head.lines, "te", "trailers"), !.parse = r,
                      !.dec = Feed(NewBodyDecoder(r.body), p.buf)]

ServerDecode(s, p) == ServerTake(s, p, ServerParse(p.head))

ServerHead(s) == ServerDecode(s, ParseHead(TRUE, s.buf, ""))

\* The interim answer goes out when the request asks for it and its body is not
\* there yet.
Continue(s, t) ==
    IF s.ph = "head" /\ t.ph = "body" /\ t.parse.expect /\ ~t.dec.done
    THEN HeadOnWire(MsgHead("", 100, FALSE, <<>>, HeadUnits)) ELSE <<>>

ServerRead(n) ==
    /\ mode # "server" /\ sv.ph \in {"head", "body"} /\ n \in 1..Len(up)
    /\ sv' = LET data == SubSeq(up, 1, n)
             IN  IF sv.ph = "head" THEN ServerHead([sv EXCEPT !.buf = @ \o data])
                 ELSE [sv EXCEPT !.dec = Feed(@, data)]
    /\ down' = IF mode = "client" THEN down ELSE down \o Continue(sv, sv')
    /\ up' = SubSeq(up, n + 1, Len(up))
    /\ UNCHANGED <<mode, cl, upEnd, downEnd, reqs, ress>>

\* The peer has closed its direction: an awaited body is truncated, an idle
\* connection ends.
ServerEof ==
    /\ mode # "server" /\ sv.ph \in {"head", "body"} /\ up = <<>> /\ upEnd /\ ~sv.dec.eof
    /\ sv' = IF sv.ph = "head" THEN [sv EXCEPT !.ph = "closed"]
             ELSE [sv EXCEPT !.dec = Decode([@ EXCEPT !.eof = TRUE])]
    /\ downEnd' = (sv.ph = "head" \/ downEnd)
    /\ UNCHANGED <<mode, cl, up, down, upEnd, reqs, ress>>

TakeRequest ==
    /\ sv.ph = "body" /\ (sv.dec.done \/ sv.dec.err # "")
    /\ sv' = [sv EXCEPT !.ph = IF sv.dec.done THEN "respond" ELSE "closed",
                        !.buf = sv.dec.buf, !.err = sv.dec.err,
                        !.dec = NewBodyDecoder(Length(0)), !.head = NoHead,
                        !.parse = NewParse(NoHead)]
    /\ downEnd' = (downEnd \/ ~sv.dec.done)
    /\ reqs' = Tail(reqs)
    /\ UNCHANGED <<mode, cl, up, down, upEnd, ress>>

\* The automatic answer to a head that cannot be parsed, then close.
Refuse ==
    /\ sv.ph = "refuse"
    /\ LET e == EncodeResponse("", OnError(sv.buf, sv.err), <<>>, [k |-> "none", n |-> 0],
                               FALSE, sv.http10)
       IN  IF OnError(sv.buf, sv.err) # 0 /\ mode = "both"
           THEN /\ down' = down \o HeadOnWire(e.head)
                /\ ress' = Append(ress, Ghost(e.head, <<>>, <<>>, "must", TRUE))
           ELSE UNCHANGED <<down, ress>>
    /\ sv' = [sv EXCEPT !.ph = "closed"]
    /\ downEnd' = TRUE
    /\ UNCHANGED <<mode, cl, up, upEnd, reqs>>

\* respond_head_locked and the body; then the connection is kept with what the
\* body decoder had left, handed over, or closed.
KeepLeftoverMutant(s) == ServerHead(Await(<<>>))

KeepLeftover(s) == ServerHead(Await(s.buf))

AfterResponse(q, e, w) ==
    LET switch == \/ q.status = 101 /\ sv.upgrade
                  \/ sv.method = "CONNECT" /\ q.status \in 200..299
        keep == ~e.enc.last /\ e.enc.k # "close" /\ w.whole
    IN  CASE e.err # ""            -> [sv EXCEPT !.ph = "closed"]
          [] e.err = "" /\ switch  -> [sv EXCEPT !.ph = "tunnel"]
          [] e.err = "" /\ ~switch -> IF keep THEN KeepLeftover(sv) ELSE [sv EXCEPT !.ph = "closed"]

\* `stopping': a graceful shutdown, or keep_alive(false), turns reuse off.  (To an
\* HTTP/1.0 peer enforce_version adds no close then, so an application's own
\* `Connection: keep-alive' would promise what the server does not keep.)
Respond(q, stopping) ==
    \E e \in {EncodeResponse(sv.method, q.status, q.lines, q.plan, sv.ka /\ ~stopping, sv.http10)} :
    \E w \in {WriteBody(e.enc, q.chunks, IF sv.te THEN q.trailers ELSE <<>>)} :
        /\ q.status = 101 => sv.upgrade
        /\ stopping /\ sv.http10 => ~AnyHas(q.lines, "connection", "keep-alive")
        /\ q.status = 204 /\ sv.method = "CONNECT" => ConnectNoContent
        /\ sv' = AfterResponse(q, e, w)
        /\ downEnd' = (downEnd \/ sv'.ph = "closed")
        /\ IF mode = "client" \/ e.err # "" THEN UNCHANGED <<down, ress>>
           ELSE /\ down' = down \o HeadOnWire(e.head) \o w.units
                /\ ress' = Append(ress, Ghost(e.head, w.body, w.trailers, "must", w.whole))
        /\ UNCHANGED <<mode, cl, up, upEnd, reqs>>

-----------------------------------------------------------------------------
(* Foreign peers. *)

ForeignSend(m) ==
    /\ up' = up \o m.units
    /\ reqs' = Append(reqs, Ghost(m.head, m.body, m.trailers, m.ok, TRUE))
    /\ UNCHANGED <<mode, cl, sv, down, upEnd, downEnd, ress>>

ForeignRequest ==
    /\ mode = "client" /\ reqs = <<>> /\ sv.ph = "head" /\ sv.buf = <<>> /\ up = <<>>
    /\ \E m \in ForeignRequests : ForeignSend(m)

\* A second request is sent without awaiting the first's answer.
Pipeline ==
    /\ mode = "client" /\ Len(reqs) = 1 /\ reqs[1].ok = "must"
    /\ \E m \in Pipelined : ForeignSend(m)

\* A foreign server takes the request whole and answers it.
ForeignResponse ==
    /\ mode = "server" /\ cl.ph = "head" /\ reqs # <<>>
    /\ \E m \in ForeignResponses :
          /\ m.for = cl.method
          /\ down' = m.units
          /\ downEnd' = m.ends
          /\ ress' = <<Ghost(m.head, m.body, m.trailers, m.ok, TRUE)>>
    /\ up' = <<>> /\ reqs' = <<>>
    /\ UNCHANGED <<mode, cl, sv, upEnd>>

WireNext ==
    \/ mode # "client" /\ cl.ph = "idle" /\ \E q \in Requests : SendRequest(q)
    \/ \E n \in 1..Len(down) : ClientRead(n)
    \/ ClientEof \/ ReleaseSlot
    \/ \E n \in 1..Len(up) : ServerRead(n)
    \/ ServerEof \/ TakeRequest \/ Refuse
    \/ mode # "server" /\ sv.ph = "respond"
          /\ \E q \in Responses, stopping \in BOOLEAN : Respond(q, stopping)
    \/ ForeignRequest \/ Pipeline \/ ForeignResponse

WireSpec == WireInit /\ [][WireNext]_wireVars

-----------------------------------------------------------------------------
(* Properties. *)

\* What the decoder has handed out so far is the beginning of the message m; it
\* ends with all of it, trailers included, and fails only on a message that is
\* ill-formed, over a limit or was cut off by its sender.
Faithful(d, m) ==
    /\ d.err = "" /\ m.ok # "never" => IsPrefix(d.got, m.body)
    /\ d.done => m.ok # "never" /\ m.whole /\ d.got = m.body /\ d.trailers = m.trailers
    /\ d.err # "" => ~(m.ok = "must" /\ m.whole)

\* Whatever framing the sender's encoder chose, and however the octets are cut
\* into reads, the receiver takes the same head and hands its application the
\* same body (Server::encode and Client::set_length against Client::decoder and
\* Server::parse, the chunked state machine, the hand-over of pipelined octets).
BodyAgrees ==
    /\ sv.ph = "body" => reqs # <<>> /\ sv.head = reqs[1].head /\ Faithful(sv.dec, reqs[1])
    /\ cl.ph = "body" => ress # <<>> /\ cl.head = ress[1].head /\ Faithful(cl.dec, ress[1])
    /\ sv.ph = "refuse" => reqs[1].ok # "must"
    /\ cl.ph = "closed" /\ cl.err \notin {"", "incomplete"} /\ ress # <<>>
          => ~(ress[1].ok = "must" /\ ress[1].whole)

\* A message that has arrived whole is never waited for: with nothing in flight
\* the receiver is not short of octets, unless only the close can end the body.
NothingAwaited ==
    /\ mode # "server" /\ up = <<>> /\ reqs # <<>> /\ reqs[1].whole
          => sv.ph \notin {"head"} /\ (sv.ph = "body" => sv.dec.done \/ sv.dec.err # "" \/ reqs[1].ok = "never")
    /\ down = <<>> /\ ress # <<>> /\ ress[1].whole /\ cl.ph \in {"head", "body"}
          => \/ cl.ph = "body" /\ (cl.dec.done \/ cl.dec.err # "" \/ ress[1].ok = "never")
             \/ cl.ph = "body" /\ cl.dec.k = "close" /\ downEnd

\* Both ends decide alike what becomes of the connection: the client only goes
\* back to idle when the server awaits another request, and one end has a tunnel
\* exactly when the other has.
FatesAgree ==
    mode = "both" /\ up = <<>> /\ down = <<>> /\ ress = <<>> =>
        /\ cl.ph = "idle" => sv.ph = "head"
        /\ ~(cl.ph = "head" /\ reqs = <<>> /\ sv.ph = "head")
        /\ sv.ph = "tunnel" <=> cl.ph = "tunnel"
        /\ cl.ph = "closed" /\ cl.err = "" => sv.ph \in {"closed", "head"}

\* Neither end waits for what the other will not send.
EndsAgree == NothingAwaited /\ FatesAgree

\* "2xx to CONNECT: the connection becomes a raw tunnel": once the server has handed
\* the connection over (respond_head_locked's is_switch), the client's codec never
\* takes it for an idle HTTP/1 connection to send the next request on.
TunnelOnConnect == mode = "both" /\ sv.ph = "tunnel" => cl.ph # "idle"

\* The framing a request's header lines call for, read together: RFC 9112, 6.3.
RequestFraming(h) ==
    LET te  == FlattenSeq([i \in DOMAIN Named(h.lines, "transfer-encoding") |->
                              Named(h.lines, "transfer-encoding")[i].v])
        cls == {l.v : l \in ToSet(Named(h.lines, "content-length"))}
        ns  == {FromDigits(v[1]) : v \in cls}
    IN  CASE te # <<>> /\ (h.v10 \/ Last(te) # "chunked") -> [k |-> "refuse", n |-> 0]
          [] te # <<>> -> Chunked
          [] te = <<>> /\ cls = {} -> Length(0)
          [] OTHER -> IF /\ \A v \in cls : Len(v) = 1
                         /\ Cardinality(ns) = 1 /\ ns \subseteq 0..MaxLen
                      THEN Length(CHOOSE n \in ns : TRUE)
                      ELSE [k |-> "refuse", n |-> 0]

\* The line-by-line parse of Server::parse gives the framing the lines call for
\* taken together, in whatever order they come; with both a length and an
\* encoding the connection is not kept.  The application is told the framing that
\* was used and no other: no length next to an encoding, and a length once.
FramingOrderFree ==
    sv.head # NoHead /\ sv.ph \in {"body", "refuse"} =>
        LET want == RequestFraming(sv.head)
            both == Has(sv.head.lines, "content-length") /\ Has(sv.head.lines, "transfer-encoding")
            told == Named(sv.parse.lines, "content-length")
            said == want.k = "length" /\ Has(sv.head.lines, "content-length")
        IN  IF sv.parse.err # ""
            THEN want.k = "refuse" \/ both
            ELSE /\ sv.parse.body = want /\ (both => ~sv.ka)
                 /\ Len(told) = (IF said THEN 1 ELSE 0)
                 /\ \A l \in ToSet(told) : ContentLengthParse(l) = want.n
=============================================================================
