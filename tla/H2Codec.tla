------------------------------ MODULE H2Codec ------------------------------
(***************************************************************************)
(* HTTP/2 frames from one endpoint's encoder to the other's decoder         *)
(* (src/h2/codec.rs over vendor-h2's frame and hpack): header blocks split  *)
(* into HEADERS and CONTINUATION, padding, the control frames, and the      *)
(* SETTINGS that change the HPACK table and the frame size while blocks are *)
(* in flight.  The wire is a stream of units that arrives in reads of any   *)
(* length: a frame head is two units, a representation two, a pad length, a *)
(* dependency, a padding octet or a body octet one.                         *)
(*                                                                         *)
(* The sender is httpunk's Encoder, or a peer that splits and pads as it    *)
(* likes and may err.  The receiver is httpunk's Decoder under its read     *)
(* pump, which decodes a whole read before it acts on the SETTINGS ACK in   *)
(* it, or a peer that acts on each frame in turn and may change its         *)
(* SETTINGS again.                                                          *)
(***************************************************************************)
EXTENDS Hpack

CONSTANTS Lists,            \* header lists an application sends (well-formed)
          PeerLists,        \* header lists a peer may send, in order or not, of any size
          TableSizes,       \* the SETTINGS_HEADER_TABLE_SIZE values advertised
          DefaultTable,     \* its value before any SETTINGS (4096)
          FrameSizes,       \* the SETTINGS_MAX_FRAME_SIZE values advertised
          DefaultFrame,     \* its value before any SETTINGS (16384)
          MaxList,          \* SETTINGS_MAX_HEADER_LIST_SIZE
          ContFloor,        \* the least cap on CONTINUATION frames (5)
          NSends, NSettings, NTotal \* bounds: frames (or blocks) sent, SETTINGS sent, both together

VARIABLES enc, sendMax,     \* the sender: HPACK encoder, send_max_frame_size
          wire,             \* units in flight
          rx,               \* the receiver: struct Decoder
          pump,             \* "batched": httpunk's read pump; "framed": each frame in turn
          settings,         \* SETTINGS in flight to the sender
          unacked,          \* SETTINGS the receiver awaits the ACK of
          err,              \* the connection error the receiver raised
          got,              \* what the receiver made of the frames
          sent,             \* what it may make of each (history)
          legal,            \* "yes"; "fatal" or "unclear" once something ill-formed was sent (history)
          asked,            \* table sizes applied since the last block (history)
          sends, offers     \* counters behind NSends, NSettings, NTotal

codecVars == <<enc, sendMax, wire, rx, pump, settings, unacked, err, got, sent, legal,
          asked, sends, offers>>

HeaderLen == 2
AbuseMultiplier == 4
Preface == <<[t |-> "pri", n |-> 1], [t |-> "pri", n |-> 2]>>

----------------------------------------------------------------------------
(* Frames.                                                                  *)

\* The value of a setting outside its range: a flag that is neither 0 nor 1, a
\* window past 2^31-1, a frame size below 2^14 or past 2^24-1.
OutOfRange == 9

Event(ev, sid) == [ev |-> ev, sid |-> sid, fields |-> << >>, pseudo |-> {},
                   over |-> FALSE, end |-> FALSE, flow |-> 0, padding |-> 0]

\* Head::encode: the declared length is that of the payload.
Frame(kind, flags, sid, payload) ==
    <<[t |-> "head", kind |-> kind, flags |-> flags, sid |-> sid, len |-> Len(payload)],
      [t |-> "tail"]>> \o payload

Pad(n) == [i \in 1..n |-> [t |-> "zero"]]
DataOctets(n) == [i \in 1..n |-> [t |-> "octet"]]

\* The units of an encoded block.
Units(block) == [i \in 1..(2 * Len(block)) |->
                   [t |-> "rep", r |-> block[(i + 1) \div 2], half |-> 2 - (i % 2)]]

\* EncodingHeaderBlock::encode, over and over: full frames, END_HEADERS on the last.
EncodeFrames(sid, end, units, max) ==
    LET n == Max({1, (Len(units) + max - 1) \div max})
        part(i) == SubSeq(units, (i - 1) * max + 1, Min({i * max, Len(units)}))
        flags(i) == (IF i = n THEN {"END_HEADERS"} ELSE {})
                    \cup (IF i = 1 /\ end THEN {"END_STREAM"} ELSE {})
        frame(i) == Frame(IF i = 1 THEN "HEADERS" ELSE "CONTINUATION", flags(i), sid, part(i))
    IN FlattenSeq([i \in 1..n |-> frame(i)])

\* The frames with a fixed payload, as their encoders write them.
Words(n) == [i \in 1..n |-> [t |-> "setting", n |-> 3]]
EncodeSettings(n) == Frame("SETTINGS", {}, 0, Words(n))
EncodeSettingsAck == Frame("SETTINGS", {"ACK"}, 0, << >>)
EncodePing == Frame("PING", {}, 0, Words(2))
EncodeGoAway == Frame("GOAWAY", {}, 0, Words(2))
EncodeWindowUpdate(sid) == Frame("WINDOW_UPDATE", {}, sid, Words(1))
EncodeRstStream(sid) == Frame("RST_STREAM", {}, sid, Words(1))

CalcMaxContinuationFrames(headerMax, frameMax) ==
    LET n == Max({headerMax \div frameMax, 1}) IN Max({n + n \div 4, ContFloor})

----------------------------------------------------------------------------
(* The receiver.                                                            *)

NoPartial == [sid |-> 0]
NewBlock == [fields |-> << >>, pseudo |-> {}, over |-> FALSE]

NewRx(frame) ==
    [hpack |-> NewDecoder(DefaultTable), buf |-> << >>, preface |-> << >>,
     maxFrame |-> frame, maxCont |-> CalcMaxContinuationFrames(MaxList, frame),
     partial |-> NoPartial]

BlockSize(b) == TotalLen(b.fields) + MapThenSumSet(LAMBDA h : h.len, b.pseudo)

\* Mutant: a malformed field ends the decoding.
AddFieldMutant(a, h) ==
    IF h.cls = "connection" \/ (h.cls = "pseudo" /\ a.reg) THEN [a EXCEPT !.st = "Malformed"]
    ELSE [a EXCEPT !.reg = @ \/ h.cls = "field",
                   !.block.fields = IF h.cls = "pseudo" THEN @ ELSE Append(@, h),
                   !.block.pseudo = IF h.cls # "pseudo" THEN @ ELSE @ \cup {h}]

\* One decoded field joins the block: a connection-level field, a pseudo field
\* after a regular one or a repeated one makes the message malformed; the list
\* size is counted, and past the limit the fields are no longer kept.
AddField(a, h) ==
    LET size == a.size + h.len
        over == a.block.over \/ size >= MaxList
        wrong == \/ h.cls = "connection"
                 \/ h.cls = "pseudo" /\ (a.reg \/ \E p \in a.block.pseudo : p.name = h.name)
        reg == a.reg \/ h.cls = "field"
    IN IF wrong THEN [a EXCEPT !.malformed = TRUE]
       ELSE IF size > AbuseMultiplier * MaxList
            THEN [a EXCEPT !.reg = reg, !.size = size, !.st = "WayTooLarge"]
       ELSE [a EXCEPT !.reg = reg, !.size = size, !.block.over = over,
                      !.block.fields = IF over \/ h.cls = "pseudo" THEN @ ELSE Append(@, h),
                      !.block.pseudo = IF over \/ h.cls # "pseudo" THEN @ ELSE @ \cup {h}]

\* One representation r of a block, x being what the HPACK decoder makes of it.
DecodeUnit(a, r, x) ==
    CASE a.st # "Ok" -> a
      [] a.st = "Ok" /\ (~x.ok \/ (r.kind = "SizeUpdate" /\ ~a.resize)) -> [a EXCEPT !.st = "Hpack"]
      [] OTHER -> IF r.kind = "SizeUpdate" THEN [a EXCEPT !.hpack = x.dec]
                  ELSE AddField([a EXCEPT !.hpack = x.dec, !.resize = FALSE], x.h)

DecodeAny(hpack, r) ==
    IF r.kind = "SizeUpdate" THEN ProcessSizeUpdate(hpack, r.n) ELSE DecodeRep(hpack, r)

\* HeaderBlock::load over Decoder::decode: what the units at hand give.  Whole
\* representations are consumed; a half one is left for the next fragment, and
\* then what was malformed before it is forgotten with the call.
Loaded(whole, units) ==
    LET torn == Len(units) % 2 = 1
    IN [hpack |-> whole.hpack, block |-> whole.block,
        rest |-> IF torn THEN <<Last(units)>> ELSE << >>,
        st |-> IF whole.st # "Ok" THEN whole.st
               ELSE IF torn THEN "NeedMore"
               ELSE IF whole.malformed THEN "Malformed" ELSE "Ok"]

LoadHpack(block, units, hpack) ==
    Loaded(FoldLeft(LAMBDA a, i : DecodeUnit(a, units[2 * i].r, DecodeAny(a.hpack, units[2 * i].r)),
                    [hpack |-> TakeSizeUpdate(hpack), block |-> block,
                     resize |-> TRUE, reg |-> block.fields # << >>,
                     malformed |-> FALSE, size |-> BlockSize(block), st |-> "Ok"],
                    [i \in 1..(Len(units) \div 2) |-> i]),
           units)

Result(d, out, e) == [rx |-> d, out |-> out, err |-> e]

HeadersEvent(sid, end, block) ==
    [Event("headers", sid) EXCEPT !.fields = block.fields, !.pseudo = block.pseudo,
                                  !.over = block.over, !.end = end]

\* classify_hpack and what decode_one does with the outcome: part is the block
\* assembled so far, with the units not yet decoded.
Classify(d, part, endHeaders, x) ==
    LET d1 == [d EXCEPT !.hpack = x.hpack, !.partial = NoPartial]
    IN CASE x.st = "WayTooLarge" -> Result(d1, << >>, "ENHANCE_YOUR_CALM")
         [] x.st = "Malformed" -> Result(d1, <<Event("reset", part.sid)>>, "none")
         [] x.st = "Hpack" \/ (x.st = "NeedMore" /\ endHeaders) ->
              Result(d1, << >>, "PROTOCOL_ERROR")
         [] OTHER ->
              IF endHeaders
              THEN Result(d1, <<HeadersEvent(part.sid, part.end, x.block)>>, "none")
              ELSE Result([d1 EXCEPT !.partial = [part EXCEPT !.block = x.block,
                                                              !.buf = x.rest]],
                          << >>, "none")

AfterHpack(d, part, endHeaders) ==
    Classify(d, part, endHeaders, LoadHpack(part.block, part.buf, d.hpack))

\* Headers::load: padding length, dependency and padding come off; a stream
\* that depends on itself is reset with its block unread.
LoadHeaders(d, f, payload) ==
    LET padded == "PADDED" \in f.flags
        prio == "PRIORITY" \in f.flags
        fixed == (IF padded THEN 1 ELSE 0) + (IF prio THEN 1 ELSE 0)
        pad == IF padded THEN payload[1].n ELSE 0
        room == Len(payload) - fixed
        part == [sid |-> f.sid, end |-> "END_STREAM" \in f.flags, block |-> NewBlock,
                 buf |-> SubSeq(payload, fixed + 1, Len(payload) - pad), count |-> 0]
    IN IF f.sid = 0 \/ room < 0 THEN Result(d, << >>, "PROTOCOL_ERROR")
       ELSE IF prio /\ payload[fixed].sid = f.sid THEN Result(d, <<Event("reset", f.sid)>>, "none")
       ELSE IF pad > room THEN Result(d, << >>, "PROTOCOL_ERROR")
       ELSE AfterHpack(d, part, "END_HEADERS" \in f.flags)

\* Mutant: the fragment replaces the octets left over of the one before.
LoadContinuationMutant(d, f, payload) ==
    IF d.partial = NoPartial \/ d.partial.sid # f.sid THEN Result(d, << >>, "PROTOCOL_ERROR")
    ELSE AfterHpack(d, [d.partial EXCEPT !.buf = payload], "END_HEADERS" \in f.flags)

LoadContinuation(d, f, payload) ==
    LET p == d.partial
        endHeaders == "END_HEADERS" \in f.flags
        count == IF endHeaders THEN 0 ELSE p.count + 1
    IN IF p = NoPartial \/ p.sid # f.sid
       THEN Result([d EXCEPT !.partial = NoPartial], << >>, "PROTOCOL_ERROR")
       ELSE IF count > d.maxCont THEN Result(d, << >>, "ENHANCE_YOUR_CALM")
       ELSE IF p.buf # << >> /\ p.block.over
               /\ Len(p.buf) + HeaderLen + Len(payload) > MaxList
            THEN Result(d, << >>, "COMPRESSION_ERROR")
       ELSE AfterHpack(d, [p EXCEPT !.count = count, !.buf = @ \o payload], endHeaders)

\* Data::load and strip_padding: padding counts against the windows.
LoadData(d, f, payload) ==
    LET padded == "PADDED" \in f.flags
        pad == IF padded /\ payload # << >> THEN payload[1].n ELSE 0
        body == SubSeq(payload, IF padded THEN 2 ELSE 1, Len(payload) - pad)
    IN IF f.sid = 0 \/ (padded /\ pad >= Len(payload))
       THEN Result(d, << >>, "PROTOCOL_ERROR")
       ELSE Result(d, <<[Event("data", f.sid) EXCEPT
                           !.end = "END_STREAM" \in f.flags, !.fields = body,
                           !.flow = Len(body) + (IF padded THEN pad + 1 ELSE 0),
                           !.padding = Len(payload) - Len(body)]>>, "none")

\* The frames with no state behind them, and whether each loads; four octets are
\* a unit (a setting, or a dependency, too).
LoadSettings(f, payload) ==
    /\ f.sid = 0
    /\ "ACK" \in f.flags => payload = << >>
    /\ \A i \in DOMAIN payload : payload[i].t = "setting" /\ payload[i].n # OutOfRange

LoadPing(f, payload) == f.sid = 0 /\ Len(payload) = 2

LoadGoAway(f, payload) == f.sid = 0 /\ Len(payload) >= 2

LoadWindowUpdate(f, payload) == Len(payload) = 1 /\ payload[1].n # 0

LoadReset(f, payload) == Len(payload) = 1

LoadPriority(f, payload) == f.sid # 0 /\ Len(payload) = 1

LoadControl(d, f, payload) ==
    LET ok == CASE f.kind = "SETTINGS" -> LoadSettings(f, payload)
                [] f.kind = "PING" -> LoadPing(f, payload)
                [] f.kind = "GOAWAY" -> LoadGoAway(f, payload)
                [] f.kind = "WINDOW_UPDATE" -> LoadWindowUpdate(f, payload)
                [] f.kind = "RST_STREAM" -> LoadReset(f, payload)
                [] OTHER -> LoadPriority(f, payload)
    IN IF ~ok THEN Result(d, << >>, "PROTOCOL_ERROR")
       ELSE IF f.kind = "PRIORITY" /\ payload[1].n = f.sid
       THEN Result(d, <<Event("reset", f.sid)>>, "none")
       ELSE Result(d, <<Event(IF "ACK" \in f.flags THEN "ack" ELSE f.kind, f.sid)>>, "none")

DecodeOne(d, f, payload) ==
    IF d.partial # NoPartial /\ f.kind # "CONTINUATION" THEN Result(d, << >>, "PROTOCOL_ERROR")
    ELSE CASE f.kind = "HEADERS" -> LoadHeaders(d, f, payload)
           [] f.kind = "CONTINUATION" -> LoadContinuation(d, f, payload)
           [] f.kind = "DATA" -> LoadData(d, f, payload)
           [] f.kind = "PUSH_PROMISE" -> Result(d, << >>, "PROTOCOL_ERROR")
           [] f.kind = "UNKNOWN" -> Result(d, << >>, "none")
           [] OTHER -> LoadControl(d, f, payload)

\* apply_local_settings, on the ACK of one SETTINGS.
ApplyLocalSettings(d, s) ==
    [d EXCEPT !.hpack = QueueSizeUpdate(@, s.table), !.maxFrame = s.frame,
              !.maxCont = CalcMaxContinuationFrames(MaxList, s.frame)]

\* The frame loop of receive_frames.  Acting on each frame in turn, an ACK takes
\* effect before the next frame is looked at; `acked` counts them.
RECURSIVE DecodeFrames(_, _, _), AfterFrame(_, _, _)

Stop(d, out, e, acked) == Result(d, out, e) @@ [acked |-> acked]

AfterFrame(r, out, acked) ==
    LET isAck == r.out # << >> /\ r.out[1].ev = "ack"
        now == pump = "framed" /\ isAck /\ acked < Len(unacked)
    IN IF r.err # "none" THEN Stop(r.rx, out, r.err, acked)
       ELSE DecodeFrames(IF now THEN ApplyLocalSettings(r.rx, unacked[acked + 1]) ELSE r.rx,
                         out \o r.out, IF isAck THEN acked + 1 ELSE acked)

DecodeFrames(d, out, acked) ==
    LET f == d.buf[1]
        total == HeaderLen + f.len
    IN IF Len(d.buf) < HeaderLen THEN Stop(d, out, "none", acked)
       ELSE IF f.len > d.maxFrame THEN Stop(d, out, "FRAME_SIZE_ERROR", acked)
       ELSE IF Len(d.buf) < total THEN Stop(d, out, "none", acked)
       ELSE AfterFrame(DecodeOne([d EXCEPT !.buf = SubSeq(@, total + 1, Len(@))], f,
                                 SubSeq(d.buf, HeaderLen + 1, total)), out, acked)

\* What a read changes once its frames are decoded: a connection error loses the
\* frames decoded in its read; a SETTINGS ACK nobody awaits is one, too.
TakeFrames(r) ==
    LET late == IF pump = "batched" THEN Min({r.acked, Len(unacked)}) ELSE 0
    IN /\ rx' = FoldLeft(ApplyLocalSettings, r.rx, SubSeq(unacked, 1, late))
       /\ err' = IF r.err = "none" /\ r.acked > Len(unacked) THEN "PROTOCOL_ERROR" ELSE r.err
       /\ got' = IF r.err # "none" /\ pump = "batched" THEN got ELSE got \o r.out
       /\ unacked' = SubSeq(unacked, 1 + Min({r.acked, Len(unacked)}), Len(unacked))

\* A read of n units: receive_frames (the client's preface first), then the
\* frames' effects.
Receive(n) ==
    LET pre == rx.preface \o SubSeq(wire, 1, Min({n, Len(Preface) - Len(rx.preface)}))
        d == [rx EXCEPT !.preface = pre,
                        !.buf = @ \o SubSeq(wire, 1 + Len(pre) - Len(rx.preface), n)]
    IN /\ err = "none"
       /\ wire' = SubSeq(wire, n + 1, Len(wire))
       /\ IF pre # SubSeq(Preface, 1, Len(pre))
          THEN err' = "PROTOCOL_ERROR" /\ UNCHANGED <<rx, got, unacked>>
          ELSE IF Len(pre) < Len(Preface)
          THEN rx' = d /\ UNCHANGED <<err, got, unacked>>
          ELSE TakeFrames(DecodeFrames(d, << >>, 0))
       /\ UNCHANGED <<enc, sendMax, pump, settings, sent, legal, asked, sends, offers>>

\* prime: the bytes of the protocol sniff, which reads no further than the preface.
Prime ==
    /\ err = "none" /\ rx.preface = << >> /\ Len(wire) >= Len(Preface)
    /\ wire' = SubSeq(wire, Len(Preface) + 1, Len(wire))
    /\ IF SubSeq(wire, 1, Len(Preface)) = Preface
       THEN rx' = [rx EXCEPT !.preface = Preface] /\ UNCHANGED err
       ELSE err' = "PROTOCOL_ERROR" /\ UNCHANGED rx
    /\ UNCHANGED <<enc, sendMax, pump, settings, unacked, got, sent, legal, asked, sends, offers>>

\* The receiver's SETTINGS: httpunk sends one, a peer may send more.
Advertise(t) ==
    /\ err = "none"
    /\ offers < (IF pump = "batched" THEN 1 ELSE NSettings)
    /\ sends + offers < NTotal
    /\ LET s == [table |-> t, frame |-> rx.maxFrame]
       IN settings' = Append(settings, s) /\ unacked' = Append(unacked, s)
    /\ offers' = offers + 1
    /\ UNCHANGED <<enc, sendMax, wire, rx, pump, err, got, sent, legal, asked, sends>>

----------------------------------------------------------------------------
(* The sender.                                                              *)

\* The bounds on what is sent.
MaySend == sends < NSends /\ sends + offers < NTotal

\* What the frames of one step add: units, and what may come of them.  An
\* ill-formed frame is the last one.
Put(units, expect) ==
    /\ err = "none" /\ legal = "yes"
    /\ wire' = wire \o units
    /\ sent' = sent \o expect

\* apply_remote_settings: the ACK is queued and the values take effect at once.
TakeSettings ==
    /\ settings # << >>
    /\ Put(EncodeSettingsAck, <<{Event("ack", 0)}>>)
    /\ enc' = UpdateMaxSize(enc, Head(settings).table)
    /\ sendMax' = Head(settings).frame
    /\ asked' = Append(asked, Head(settings).table)
    /\ settings' = Tail(settings)
    /\ UNCHANGED <<rx, pump, unacked, err, got, legal, sends, offers>>

\* What a header list comes to, when nothing is lost: the fields that were in
\* order, up to the list-size limit.
Reading(list) ==
    LET inOrder(i) == \/ list[i].cls = "field"
                      \/ list[i].cls = "pseudo" /\ \A j \in 1..(i - 1) :
                           list[j].cls # "field" /\ list[j].name # list[i].name
        kept == SelectSeq([i \in DOMAIN list |-> i], inOrder)
        size(i) == TotalLen([k \in 1..i |-> list[kept[k]]])
        under == {i \in DOMAIN kept : size(i) < MaxList}
    IN [malformed |-> Len(kept) < Len(list),
        size |-> size(Len(kept)),
        over |-> under # DOMAIN kept,
        pseudo |-> {h \in {list[kept[i]] : i \in under} : h.cls = "pseudo"},
        fields |-> SelectSeq([i \in 1..Cardinality(under) |-> list[kept[i]]],
                             LAMBDA h : h.cls = "field")]

\* send_request, send_response, send_trailers: one block, in as many frames as
\* the peer's frame size makes it.
SendHeaders(sid, list, end) ==
    \E x \in {Encode(enc, list)} :
       /\ MaySend
       /\ Put(EncodeFrames(sid, end, Units(x.block), sendMax),
              <<{HeadersEvent(sid, end, Reading(list))}>>)
       /\ enc' = x.enc
       /\ asked' = << >>
       /\ sends' = sends + 1
       /\ UNCHANGED <<sendMax, rx, pump, settings, unacked, err, got, legal, offers>>

\* encode_data, and the padding only a peer adds.
SendData(sid, n, pad, padded) ==
    LET payload == (IF padded THEN <<[t |-> "pad", n |-> pad]>> ELSE << >>)
                   \o DataOctets(n) \o Pad(IF padded THEN pad ELSE 0)
    IN /\ MaySend /\ Len(payload) <= sendMax
       /\ Put(Frame("DATA", IF padded THEN {"PADDED"} ELSE {}, sid, payload),
              <<{[Event("data", sid) EXCEPT !.fields = DataOctets(n), !.flow = Len(payload),
                                            !.padding = Len(payload) - n]}>>)
       /\ sends' = sends + 1
       /\ UNCHANGED <<enc, sendMax, rx, pump, settings, unacked, err, got, legal, asked, offers>>

\* Any other well-formed frame; PRIORITY and unknown ones come from a peer only,
\* and an unknown one is skipped.
SendControl(kind, frame) ==
    /\ MaySend
    /\ Put(frame, IF kind = "UNKNOWN" THEN << >> ELSE <<{Event(kind, frame[1].sid)}>>)
    /\ sends' = sends + 1
    /\ UNCHANGED <<enc, sendMax, rx, pump, settings, unacked, err, got, legal, asked, offers>>

ControlFrames ==
    {EncodeSettings(1), EncodePing, EncodeGoAway, EncodeWindowUpdate(1), EncodeRstStream(1),
     Frame("PRIORITY", {}, 1, Words(1)), Frame("UNKNOWN", {}, 0, Words(1))}

\* A block as any peer may send it: cut into frames where it likes, the first
\* padded or with a dependency.  A malformed list in one frame, and a list past
\* the size limit, are answered on the stream; a flood of CONTINUATIONs and a
\* list way past the limit end the connection.  A malformed list in several
\* frames, and a stream that depends on itself, put the tables out of step.
PeerFrames(sid, units, first, each, pad, dep) ==
    LET more == Len(units) - first
        n == IF more <= 0 THEN 1 ELSE 1 + (more + each - 1) \div each
        at(i) == IF i = 0 THEN 0 ELSE Min({Len(units), first + (i - 1) * each})
        fixed == (IF pad > 0 THEN <<[t |-> "pad", n |-> pad]>> ELSE << >>)
                 \o (IF dep > 0 THEN <<[t |-> "dep", sid |-> dep]>> ELSE << >>)
        flags(i) == (IF i = n THEN {"END_HEADERS"} ELSE {})
                    \cup (IF i = 1 /\ pad > 0 THEN {"PADDED"} ELSE {})
                    \cup (IF i = 1 /\ dep > 0 THEN {"PRIORITY"} ELSE {})
        part(i) == SubSeq(units, at(i - 1) + 1, at(i))
    IN [i \in 1..n |->
          IF i = 1 THEN Frame("HEADERS", flags(1), sid, fixed \o part(1) \o Pad(pad))
          ELSE Frame("CONTINUATION", flags(i), sid, part(i))]

PeerPut(sid, x, frames, r, dep) ==
    LET n == Len(frames)
    IN /\ \A i \in 1..n : Len(frames[i]) - HeaderLen <= sendMax
       /\ Put(FlattenSeq(frames),
              <<{IF r.malformed THEN Event("reset", sid) ELSE HeadersEvent(sid, FALSE, r)}>>)
       /\ legal' = CASE dep = sid \/ (r.malformed /\ n > 1) \/ (r.over /\ n > 1) -> "unclear"
                     [] n - 2 > rx.maxCont \/ r.size > AbuseMultiplier * MaxList -> "fatal"
                     [] OTHER -> "yes"
       /\ enc' = x.enc
       /\ asked' = << >>
       /\ sends' = sends + 1
       /\ UNCHANGED <<sendMax, rx, pump, settings, unacked, err, got, offers>>

PeerHeaders(sid, list, first, each, pad, dep) ==
    /\ MaySend
    /\ \E x \in {Encode(enc, list)} :
          PeerPut(sid, x, PeerFrames(sid, Units(x.block), first, each, pad, dep), Reading(list), dep)

\* A frame no peer may send.
SendIllFormed(kind, flags, sid, payload) ==
    /\ MaySend
    /\ Put(Frame(kind, flags, sid, payload), << >>)
    /\ legal' = "fatal"
    /\ sends' = sends + 1
    /\ UNCHANGED <<enc, sendMax, rx, pump, settings, unacked, err, got, asked, offers>>

----------------------------------------------------------------------------
CodecInit ==
    /\ enc = NewEncoder(DefaultTable)
    /\ sendMax = DefaultFrame
    /\ \/ /\ pump = "batched"
          /\ \E f \in FrameSizes : rx = NewRx(f)
          /\ \/ wire = Preface /\ legal = "yes"
             \/ wire = Reverse(Preface) /\ legal = "fatal"
       \/ /\ pump = "framed"
          /\ rx = [NewRx(Max(FrameSizes)) EXCEPT !.preface = Preface]
          /\ wire = << >> /\ legal = "yes"
    /\ settings = << >> /\ unacked = << >> /\ err = "none"
    /\ got = << >> /\ sent = << >> /\ asked = << >>
    /\ sends = 0 /\ offers = 0

Zero == [t |-> "setting", n |-> 0]
SelfDep == [t |-> "setting", n |-> 1]

IllFormed ==
    {<<"SETTINGS", {}, 1, << >>>>, <<"SETTINGS", {"ACK"}, 0, <<Zero>>>>, <<"SETTINGS", {}, 0, Pad(1)>>,
     <<"SETTINGS", {}, 0, <<Zero, [Zero EXCEPT !.n = OutOfRange]>>>>,
     <<"PING", {}, 0, <<Zero>>>>, <<"GOAWAY", {}, 0, <<Zero>>>>, <<"WINDOW_UPDATE", {}, 1, <<Zero>>>>,
     <<"RST_STREAM", {}, 1, << >>>>, <<"PRIORITY", {}, 0, <<SelfDep>>>>,
     <<"PUSH_PROMISE", {}, 1, <<Zero>>>>, <<"CONTINUATION", {"END_HEADERS"}, 1, << >>>>,
     <<"DATA", {}, 0, << >>>>, <<"DATA", {"PADDED"}, 1, <<[Zero EXCEPT !.n = 2], Zero>>>>,
     <<"DATA", {"PADDED"}, 1, << >>>>, <<"HEADERS", {"PADDED"}, 1, << >>>>,
     <<"HEADERS", {"PADDED", "END_HEADERS"}, 1, <<[Zero EXCEPT !.n = 1]>>>>,
     <<"HEADERS", {"END_HEADERS"}, 0, << >>>>,
     <<"DATA", {}, 1, DataOctets(Max(FrameSizes) + 1)>>}

\* Where a peer cuts a block (the first frame's units, each other frame's), how
\* it pads it and on what it makes it depend.
PeerShapes ==
    {<<0, 1, 0, 0>>, <<1, 4, 0, 0>>, <<1, 3, 2, 0>>, <<2, 4, 0, 5>>, <<3, 5, 1, 5>>, <<4, 5, 0, 0>>,
     <<4, 5, 0, 1>>}

\* The bounds: a read takes a unit, two or all there is (so it ends anywhere);
\* control frames and what only a peer does come first, and what only a peer does
\* goes to httpunk's receiver.  Trailers end the stream.
CodecNext ==
    \/ \E n \in {1, 2, Len(wire)} : n \in 1..Len(wire) /\ Receive(n)
    \/ Prime
    \/ \E t \in TableSizes : Advertise(t)
    \/ TakeSettings
    \/ \E list \in Lists : SendHeaders(1, list, list[1].cls # "pseudo")
    \/ \E c \in {<<1, 0, FALSE>>, <<0, 1, TRUE>>, <<1, 2, TRUE>>} : SendData(3, c[1], c[2], c[3])
    \/ \E f \in ControlFrames : sends = 0 /\ SendControl(f[1].kind, f)
    \/ \E list \in PeerLists, c \in PeerShapes :
         sends = 0 /\ pump = "batched" /\ PeerHeaders(1, list, c[1], c[2], c[3], c[4])
    \/ \E c \in IllFormed : sends = 0 /\ pump = "batched" /\ SendIllFormed(c[1], c[2], c[3], c[4])

CodecSpec == CodecInit /\ [][CodecNext]_codecVars

----------------------------------------------------------------------------
(* Properties.                                                              *)

Consumed == wire = << >> /\ rx.buf = << >>

\* What was sent is what is read, in order and complete, whatever the cuts of
\* the blocks into frames and of the frames into reads, the padding, the
\* SETTINGS between two blocks and what they do to the tables (receive_frames,
\* decode_one, encode_headers_frame); a stream's own error costs the stream only,
\* and a frame that no peer may send ends the connection.
RoundTrip ==
    /\ legal = "yes" => err = "none"
    /\ err = "none" /\ legal # "unclear" =>
         Len(got) <= Len(sent) /\ \A i \in DOMAIN got : got[i] \in sent[i]
    /\ legal = "yes" /\ Consumed => Len(got) = Len(sent)
    /\ legal = "fatal" /\ Consumed => err # "none"

\* Once a receiver has read all there is, its HPACK table holds what the
\* encoder's does, entry for entry and within the same limit, also when blocks
\* were malformed or past the list size (HeaderBlock::load decodes them to the
\* end): the next block's indices mean the same on both sides.
SameTables ==
    legal = "yes" /\ Consumed /\ rx.partial = NoPartial =>
        rx.hpack.tab = enc.tab /\ rx.hpack.max = enc.max

\* Whatever sequence of table sizes the peer's SETTINGS asked for since the last
\* block, the updates that update_max_size left to be sent cut the table to the
\* least of them, and leave it at the last: the peer may have evicted down to
\* the least already (RFC 7541 4.2).
SizeUpdatesExact ==
    LET after == EncodeSizeUpdates(enc).enc
        least == Min({enc.max} \cup Range(asked))
    IN /\ after.tab = Newest(enc.tab, least)
       /\ after.max = Min({MaxAllowed, IF asked = << >> THEN enc.max ELSE Last(asked)})

\* The two HPACK tables agree, or will once the pending updates are sent.
TablesAgree == SameTables /\ SizeUpdatesExact
=============================================================================
