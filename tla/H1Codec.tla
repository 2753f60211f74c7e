------------------------------- MODULE H1Codec -------------------------------
(***************************************************************************)
(* The HTTP/1 codec as pure operators: what a head on the wire says about  *)
(* its message (Server::parse, Client::parse), what head and which body    *)
(* encoder the two encoders produce for what the application asked, and    *)
(* the body decoder, octet by octet.                                       *)
(*                                                                         *)
(* A header line is [n |-> name, v |-> tokens]: a value is its list of     *)
(* comma-separated tokens, names and tokens in lower case (the code        *)
(* compares both ignoring case).  A head is [method, status, v10, lines,   *)
(* size, uri], `uri' being the length of the target; on the wire it takes  *)
(* `size' units, so it can arrive torn.  An octet of a body is a unit      *)
(* [t |-> "b", c |-> octet].  The chunk-size radix and the limits are      *)
(* constants so that small bodies exercise them.                           *)
(***************************************************************************)
EXTENDS Integers, Sequences, SequencesExt, FiniteSets

CONSTANTS
    Radix,          \* of chunk sizes; 16 in the code
    MaxSize,        \* largest chunk size the counter holds; 2^64-1 in the code
    MaxLen,         \* DecodedLength::MAX_LEN
    ExtLimit,       \* CHUNKED_EXTENSIONS_LIMIT
    MaxHeaders,     \* max_headers, the bound on trailer lines
    MaxTrailer,     \* bound on trailer octets
    MaxBuf,         \* max_buf_size / max_header_size, the bound on a head
    MaxUri          \* MAX_URI_LEN, the bound on the target

-----------------------------------------------------------------------------
(* Header lines. *)

Named(lines, n) == SelectSeq(lines, LAMBDA l : l.n = n)

Without(lines, n) == SelectSeq(lines, LAMBDA l : l.n # n)

Has(lines, n) == \E l \in ToSet(lines) : l.n = n

LineHas(l, tok) == tok \in ToSet(l.v)

AnyHas(lines, n, tok) == \E l \in ToSet(Named(lines, n)) : LineHas(l, tok)

\* HeaderMap keeps the lines of one name together.
AddLine(lines, n, v) ==
    LET at == {i \in DOMAIN lines : lines[i].n = n}
        p  == IF at = {} THEN Len(lines)
              ELSE CHOOSE i \in at : \A j \in at : j <= i
    IN  InsertAt(lines, p + 1, [n |-> n, v |-> v])

ConnectionAnyClose(lines) == AnyHas(lines, "connection", "close")

\* `chunked' is the last token of the line.
IsChunked(l) == l.v # <<>> /\ Last(l.v) = "chunked"

TransferEncodingIsChunked(lines) ==
    LET te == Named(lines, "transfer-encoding")
    IN  te # <<>> /\ IsChunked(Last(te))

\* from_digits: -1 where the code has None.  "huge" is a number past MaxLen
\* that still fits 64 bits.
FromDigits(tok) ==
    CASE tok = "0" -> 0 [] tok = "1" -> 1 [] tok = "2" -> 2 [] tok = "3" -> 3
      [] tok = "huge" -> MaxLen + 1
      [] OTHER -> -1

Digits(n) == <<"0", "1", "2", "3">>[n + 1]

\* content_length_parse: the whole value is one number.
ContentLengthParse(l) == IF Len(l.v) = 1 THEN FromDigits(l.v[1]) ELSE -1

\* content_length_parse_all: every number of every line is the same.
ContentLengthParseAll(lines) ==
    LET all == UNION {ToSet(l.v) : l \in ToSet(Named(lines, "content-length"))}
        ns  == {FromDigits(t) : t \in all}
    IN  IF Cardinality(ns) = 1 THEN CHOOSE n \in ns : TRUE ELSE -1

\* What the last connection line so far says, for both parsers.
KeepAliveAfter(a, l) ==
    IF a.close \/ LineHas(l, "close")
    THEN [a EXCEPT !.close = TRUE, !.ka = FALSE]
    ELSE [a EXCEPT !.ka = a.ka \/ LineHas(l, "keep-alive")]

-----------------------------------------------------------------------------
(* Framing: how a body is delimited. *)

Length(n) == [k |-> "length", n |-> n]
Chunked == [k |-> "chunked", n |-> 0]
CloseDelimited == [k |-> "close", n |-> 0]

\* Server::parse once the head is complete.  A refused head has `err' set; `lines'
\* are the header lines the application is given.
NewParse(h) ==
    [err |-> "", body |-> Length(0), con |-> -1, cl |-> FALSE, te |-> FALSE,
     chunked |-> FALSE, ka |-> ~h.v10, close |-> FALSE, expect |-> FALSE,
     upgrade |-> h.method = "CONNECT", lines |-> <<>>]

KeepLine(a, l) == [a EXCEPT !.lines = AddLine(@, l.n, l.v)]

ServerLine(h, a, l) ==
    CASE a.err # "" -> a
      [] l.n = "transfer-encoding" ->
            IF h.v10 THEN [a EXCEPT !.err = "te_unexpected"]
            ELSE KeepLine([a EXCEPT !.te = TRUE, !.con = -1, !.chunked = IsChunked(l),
                                    !.body = IF IsChunked(l) THEN Chunked ELSE @,
                                    !.lines = IF a.con >= 0 THEN Without(@, "content-length")
                                              ELSE @], l)
      [] l.n = "content-length" ->
            LET n == ContentLengthParse(l)
                b == [a EXCEPT !.cl = TRUE]
            IN  IF a.te THEN b
                ELSE IF n < 0 \/ (a.con >= 0 /\ a.con # n)
                THEN [b EXCEPT !.err = "cl_invalid"]
                ELSE IF a.con >= 0 THEN b
                ELSE IF n > MaxLen THEN [b EXCEPT !.err = "too_large"]
                ELSE KeepLine([b EXCEPT !.body = Length(n), !.con = n], l)
      [] l.n = "connection" -> KeepLine(KeepAliveAfter(a, l), l)
      [] l.n = "expect" -> KeepLine([a EXCEPT !.expect = (l.v = <<"100-continue">>)], l)
      [] l.n = "upgrade" -> KeepLine([a EXCEPT !.upgrade = ~h.v10], l)
      [] OTHER -> KeepLine(a, l)

\* The checks after the last line.
ServerVerdictMutant(a) ==
    IF a.err # "" THEN a ELSE [a EXCEPT !.ka = @ /\ ~(a.te /\ a.cl)]

ServerVerdict(a) ==
    CASE a.err # "" -> a
      [] a.te /\ ~a.chunked -> [a EXCEPT !.err = "te_invalid"]
      [] OTHER -> [a EXCEPT !.ka = @ /\ ~(a.te /\ a.cl)]

ServerParse(h) ==
    ServerVerdict(FoldLeft(LAMBDA a, l : ServerLine(h, a, l), NewParse(h), h.lines))

\* Client::decoder: the framing of a response's body, "skip" for a 1xx.
ClientDecoderMutant(h, method) ==
    CASE h.status = 101 -> [k |-> "upgrade", n |-> 0]
      [] h.status \in 100..199 -> [k |-> "skip", n |-> 0]
      [] h.status \in {204, 304} -> Length(0)
      [] method = "CONNECT" /\ h.status \in 200..299 -> [k |-> "upgrade", n |-> 0]
      [] Has(h.lines, "transfer-encoding") ->
            IF h.v10 THEN [k |-> "te_unexpected", n |-> 0]
            ELSE IF TransferEncodingIsChunked(h.lines) THEN Chunked
            ELSE CloseDelimited
      [] Has(h.lines, "content-length") ->
            LET n == ContentLengthParseAll(h.lines)
            IN  IF n < 0 THEN [k |-> "cl_invalid", n |-> 0] ELSE Length(n)
      [] OTHER -> CloseDelimited

ClientDecoder(h, method) ==
    CASE h.status = 101 -> [k |-> "upgrade", n |-> 0]
      [] h.status \in 100..199 -> [k |-> "skip", n |-> 0]
      [] h.status \in {204, 304} -> Length(0)
      [] method = "HEAD" -> Length(0)
      [] method = "CONNECT" /\ h.status \in 200..299 -> [k |-> "upgrade", n |-> 0]
      [] Has(h.lines, "transfer-encoding") ->
            IF h.v10 THEN [k |-> "te_unexpected", n |-> 0]
            ELSE IF TransferEncodingIsChunked(h.lines) THEN Chunked
            ELSE CloseDelimited
      [] Has(h.lines, "content-length") ->
            LET n == ContentLengthParseAll(h.lines)
            IN  IF n < 0 THEN [k |-> "cl_invalid", n |-> 0]
                ELSE IF n > MaxLen THEN [k |-> "too_large", n |-> 0]
                ELSE Length(n)
      [] OTHER -> CloseDelimited

ClientKeepAlive(h) ==
    FoldLeft(LAMBDA a, l : IF l.n = "connection" THEN KeepAliveAfter(a, l) ELSE a,
             [ka |-> ~h.v10, close |-> FALSE], h.lines).ka

\* server_parse_failure: the status of the automatic answer, 0 for none (an
\* HTTP/2 preface).
OnError(buf, err) ==
    IF buf # <<>> /\ buf[1].t = "b" /\ buf[1].c = "PRI" THEN 0
    ELSE CASE err = "too_large" -> 431 [] err = "uri_too_long" -> 414 [] OTHER -> 400

-----------------------------------------------------------------------------
(* Encoders.  A body is asked for as "none", "known" or "unknown" length.   *)
(* An encoder is a framing with the trailer names it may send and whether   *)
(* the connection ends with the message.                                    *)

Encoder(f, names, last) == [k |-> f.k, n |-> f.n, allowed |-> names, last |-> last]

TrailerNames(lines) == UNION {ToSet(l.v) : l \in ToSet(Named(lines, "trailer"))}

EnforceVersionMutant(lines, http10, keepAlive) ==
    IF http10 /\ keepAlive /\ ~AnyHas(lines, "connection", "keep-alive")
    THEN AddLine(lines, "connection", <<"keep-alive">>)
    ELSE lines

EnforceVersion(lines, http10, keepAlive) ==
    CASE http10 /\ keepAlive /\ ~AnyHas(lines, "connection", "keep-alive") ->
            AddLine(lines, "connection", <<"keep-alive">>)
      [] ~http10 /\ ~keepAlive /\ ~ConnectionAnyClose(lines) ->
            AddLine(lines, "connection", <<"close">>)
      [] OTHER -> lines

SetContentLength(lines, n) ==
    [lines |-> AddLine(Without(lines, "content-length"), "content-length", <<Digits(n)>>),
     f |-> Length(n)]

\* `chunked' added to the last transfer-encoding line.
AddChunked(lines) ==
    LET p == CHOOSE i \in DOMAIN lines :
                /\ lines[i].n = "transfer-encoding"
                /\ \A j \in DOMAIN lines : lines[j].n = "transfer-encoding" => j <= i
    IN  [lines EXCEPT ![p].v = Append(@, "chunked")]

\* Client::set_length: the framing of a request and its header lines.
SetLength(method, v10, lines, body) ==
    LET con   == ContentLengthParseAll(lines)
        noTe  == Without(lines, "transfer-encoding")
        noCl  == Without(lines, "content-length")
        As(ls, f) == [lines |-> ls, f |-> f]
    IN  CASE body.k = "none" -> As(noTe, Length(0))
          [] body.k # "none" /\ v10 ->
                IF con >= 0 THEN As(noTe, Length(con))
                ELSE IF body.k = "known" THEN SetContentLength(noTe, body.n)
                ELSE As(noTe, Length(0))
          [] body.k # "none" /\ ~v10 /\ Has(lines, "transfer-encoding") ->
                As(IF TransferEncodingIsChunked(lines) THEN noCl ELSE AddChunked(noCl), Chunked)
          [] OTHER ->
                IF con >= 0 THEN As(lines, Length(con))
                ELSE IF body.k = "known" THEN SetContentLength(lines, body.n)
                ELSE IF method \in {"GET", "HEAD", "CONNECT"} THEN As(lines, Length(0))
                ELSE As(AddLine(noCl, "transfer-encoding", <<"chunked">>), Chunked)

MsgHead(method, status, v10, lines, size) ==
    [method |-> method, status |-> status, v10 |-> v10, lines |-> lines, size |-> size,
     uri |-> 1]

HeadUnits == 2      \* what an encoded head takes on the wire

RequestAs(method, http10, set) ==
    [head |-> MsgHead(method, 0, http10, set.lines, HeadUnits),
     enc  |-> Encoder(set.f, IF set.f = Chunked THEN TrailerNames(set.lines) ELSE {}, FALSE)]

\* encode_request: Client::encode over the head enforce_version left.
EncodeRequest(method, lines, body, http10) ==
    RequestAs(method, http10,
              SetLength(method, http10,
                        EnforceVersion(lines, http10, ~ConnectionAnyClose(lines)), body))

CanChunked(method, status) ==
    /\ method # "HEAD"
    /\ ~(method = "CONNECT" /\ status \in 200..299)
    /\ status \notin 100..199 \cup {204, 304}

CanHaveContentLength(method, status) ==
    /\ ~(method = "CONNECT" /\ status \in 200..299)
    /\ status \notin 100..199 \cup {204, 304}

\* A group of lines of one name ends: its line is finished, and `chunked' added
\* when the last transfer-encoding did not end with it.  The flag is never
\* cleared, so every later group written as one line gets the token too.
CloseGroup(a) ==
    [a EXCEPT !.out = IF a.named /\ a.must
                      THEN [@ EXCEPT ![Len(@)].v = Append(@, "chunked")] ELSE @,
              !.named = FALSE]

\* The value is written on the group's line.
WriteValue(a, l) ==
    [a EXCEPT !.out = IF a.named THEN [@ EXCEPT ![Len(@)].v = @ \o l.v] ELSE Append(@, l),
              !.named = TRUE]

\* A content-length line the application set, by what is known of the body.
EncodeContentLength(r, a, l) ==
    LET n == ContentLengthParse(l)
    IN  CASE r.body.k = "known" ->
                IF a.named THEN a
                ELSE [WriteValue(a, l) EXCEPT !.enc = Length(r.body.n), !.wrote = TRUE]
          [] r.body.k = "unknown" ->
                IF n < 0 \/ (a.prev >= 0 /\ a.prev # n)
                THEN [a EXCEPT !.err = "unexpected_header"]
                ELSE IF a.prev >= 0 THEN a
                ELSE [WriteValue(a, l) EXCEPT !.enc = Length(n), !.wrote = TRUE, !.prev = n]
          [] r.body.k = "none" ->
                IF r.method = "HEAD"
                THEN [a EXCEPT !.out = Append(@, l), !.wrote = TRUE] ELSE a

\* One line of Server::encode_headers: r is the request's method and the
\* response's status, version and body.
EncodeInGroup(r, a, l) ==
    LET chunkable == ~r.v10 /\ CanChunked(r.method, r.status)
    IN  CASE a.err # "" -> a
          [] l.n \in {"content-length", "transfer-encoding"} /\ a.wrote /\ ~a.named ->
                [a EXCEPT !.err = "unexpected_header"]
          [] l.n = "content-length" /\ ~(a.wrote /\ ~a.named) -> EncodeContentLength(r, a, l)
          [] l.n = "transfer-encoding" /\ ~(a.wrote /\ ~a.named) ->
                IF ~chunkable THEN a
                ELSE [WriteValue(a, l) EXCEPT !.wrote = TRUE, !.must = ~IsChunked(l),
                                              !.enc = Chunked]
          [] l.n = "connection" ->
                [WriteValue(a, l) EXCEPT !.last = @ \/ LineHas(l, "close")]
          [] l.n = "trailer" ->
                IF ~chunkable THEN a
                ELSE [WriteValue(a, l) EXCEPT !.allowed = @ \cup ToSet(l.v)]
          [] OTHER -> [a EXCEPT !.out = Append(@, l)]

EncodeLine(r, a, l) ==
    EncodeInGroup(r, IF a.err # "" \/ a.cur = l.n THEN a ELSE [CloseGroup(a) EXCEPT !.cur = l.n], l)

\* The framing when no header line set one.
DefaultLength(r, a) ==
    LET Said(tok) == Append(a.out, [n |-> "content-length", v |-> <<tok>>])
    IN  CASE r.body.k = "unknown" ->
                IF ~r.v10 /\ CanChunked(r.method, r.status)
                THEN [a EXCEPT !.enc = Chunked,
                               !.out = Append(@, [n |-> "transfer-encoding", v |-> <<"chunked">>])]
                ELSE [a EXCEPT !.enc = CloseDelimited]
          [] r.body.k = "none" \/ (r.body.k = "known" /\ r.body.n = 0) ->
                [a EXCEPT !.enc = Length(0),
                          !.out = IF /\ CanHaveContentLength(r.method, r.status)
                                     /\ r.method # "HEAD"
                                  THEN Said("0") ELSE @]
          [] OTHER ->
                IF CanHaveContentLength(r.method, r.status)
                THEN [a EXCEPT !.enc = Length(r.body.n), !.out = Said(Digits(r.body.n))]
                ELSE [a EXCEPT !.enc = Length(0)]

\* The end of encode_headers: a body that may not be sent has no octets.
FinishHeaders(r, a) ==
    LET enc == IF CanChunked(r.method, r.status) THEN a.enc ELSE Length(0)
    IN  [err  |-> IF r.status \in 100..199 \ {101} THEN "unsupported_status" ELSE a.err,
         head |-> MsgHead("", r.status, r.v10, a.out, HeadUnits),
         enc  |-> Encoder(enc, IF enc = Chunked THEN a.allowed ELSE {}, a.last)]

EncodeLength(r, a) == FinishHeaders(r, IF a.wrote THEN a ELSE DefaultLength(r, a))

\* encode_response: Server::encode over the head enforce_version left.
EncodeResponse(method, status, lines, body, keepAlive, http10) ==
    LET connect == method = "CONNECT" /\ status \in 200..299
        r  == [method |-> method, status |-> status, v10 |-> http10, body |-> body]
        a0 == [err |-> "", enc |-> Length(0), wrote |-> connect,
               last |-> status = 101 \/ connect \/ ~keepAlive,
               named |-> FALSE, cur |-> "", must |-> FALSE, prev |-> -1,
               out |-> <<>>, allowed |-> {}]
    IN  EncodeLength(r, CloseGroup(FoldLeft(LAMBDA a, l : EncodeLine(r, a, l), a0,
                                            EnforceVersion(lines, http10, keepAlive))))

-----------------------------------------------------------------------------
(* Bodies on the wire. *)

Octet(c) == [t |-> "b", c |-> c]
Octets(cs) == [i \in DOMAIN cs |-> Octet(cs[i])]
CRLF == <<"CR", "LF">>

RECURSIVE ChunkSize(_)
ChunkSize(n) == IF n < Radix THEN <<Digits(n)>>
                ELSE Append(ChunkSize(n \div Radix), Digits(n % Radix))

\* Encoder::encode: the octets written for one chunk, and the encoder after it.
EncodeChunk(e, chunk) ==
    CASE e.k = "chunked" -> [enc |-> e, out |-> ChunkSize(Len(chunk)) \o CRLF \o chunk \o CRLF,
                             body |-> chunk]
      [] e.k = "length"  ->
            LET n == IF e.n < Len(chunk) THEN e.n ELSE Len(chunk)
            IN  [enc |-> [e EXCEPT !.n = @ - n], out |-> SubSeq(chunk, 1, n),
                 body |-> SubSeq(chunk, 1, n)]
      [] e.k = "close"   -> [enc |-> e, out |-> chunk, body |-> chunk]

\* is_valid_trailer_field, on the names the model's messages use.
ValidTrailer(n) == n \notin {"host", "content-length", "transfer-encoding", "trailer", "te"}

TrailerLines(names) == FlattenSeq([i \in DOMAIN names |-> <<names[i]>> \o CRLF])

\* Encoder::end and encode_trailers: the end of the body; `whole' is false when a
\* declared length was not filled.
EndBody(e, trailers) ==
    LET sent == SelectSeq(trailers, LAMBDA n : e.k = "chunked" /\ n \in e.allowed /\ ValidTrailer(n))
    IN  [out |-> CASE e.k # "chunked" -> <<>>
                   [] sent # <<>>     -> <<"0">> \o CRLF \o TrailerLines(sent) \o CRLF
                   [] OTHER           -> <<"0">> \o CRLF \o CRLF,
         trailers |-> sent, whole |-> e.k # "length" \/ e.n = 0]

\* A whole body, chunk by chunk, through the encoder.  A framing that carries no
\* body writes none, whatever the application supplies.
WriteChunks(e, chunks) ==
    FoldLeft(LAMBDA a, w : [enc |-> EncodeChunk(a.enc, w).enc,
                            out |-> a.out \o EncodeChunk(a.enc, w).out,
                            body |-> a.body \o EncodeChunk(a.enc, w).body],
             [enc |-> e, out |-> <<>>, body |-> <<>>],
             IF e.k = "length" /\ e.n = 0 THEN <<>> ELSE chunks)

Written(done, end) == [units |-> Octets(done.out \o end.out), body |-> done.body,
                       trailers |-> end.trailers, whole |-> end.whole]

WriteBodyEnd(done, trailers) == Written(done, EndBody(done.enc, trailers))

WriteBody(e, chunks, trailers) == WriteBodyEnd(WriteChunks(e, chunks), trailers)

-----------------------------------------------------------------------------
(* The body decoder. *)

NewBodyDecoder(f) ==
    [k |-> f.k, rem |-> f.n, st |-> "Start", ext |-> 0, tbuf |-> <<>>, tcnt |-> 0,
     buf |-> <<>>, eof |-> FALSE, done |-> f.k = "length" /\ f.n = 0, err |-> "",
     got |-> <<>>, trailers |-> <<>>]

Fail(d, why) == [d EXCEPT !.err = why]

\* A digit of the chunk size, unless the counter overflows.
Digit(d, c) ==
    LET n == d.rem * Radix + FromDigits(c)
    IN  IF n > MaxSize THEN Fail(d, "overflow") ELSE [d EXCEPT !.rem = n, !.st = "Size"]

IsDigit(c) == FromDigits(c) \in 0..(Radix - 1)

\* put_u8: one more octet of trailers, up to the limit.
PutTrailer(d, c, st) ==
    IF Len(d.tbuf) + 1 >= MaxTrailer THEN Fail(d, "trailers_limit")
    ELSE [d EXCEPT !.tbuf = Append(@, c), !.st = st]

\* decode_trailers, once the end is reached.  "bad" is a name no field may have.
EndChunked(d) ==
    LET names == SelectSeq(d.tbuf, LAMBDA c : c \notin {"CR", "LF"})
    IN  IF "bad" \in ToSet(names) THEN Fail(d, "trailer_name")
        ELSE [d EXCEPT !.st = "End", !.done = TRUE, !.trailers = names]

\* ChunkedState::step on one octet, state by state.
ReadStart(d, c) == IF IsDigit(c) THEN Digit(d, c) ELSE Fail(d, "size")

ReadSizeLws(d, c) ==
    CASE c = "SP" -> [d EXCEPT !.st = "SizeLws"]
      [] c = ";"  -> [d EXCEPT !.st = "Extension"]
      [] c = "CR" -> [d EXCEPT !.st = "SizeLf"]
      [] OTHER    -> Fail(d, "framing")

ReadSize(d, c) == IF IsDigit(c) THEN Digit(d, c) ELSE ReadSizeLws(d, c)

\* Extensions are ignored, and bounded over the whole body.
ReadExtension(d, c) ==
    CASE c = "CR" -> [d EXCEPT !.st = "SizeLf"]
      [] c = "LF" -> Fail(d, "framing")
      [] OTHER    -> IF d.ext + 1 >= ExtLimit THEN Fail(d, "extensions_limit")
                     ELSE [d EXCEPT !.ext = @ + 1]

ReadSizeLf(d) == [d EXCEPT !.st = IF d.rem = 0 THEN "EndCr" ELSE "Body"]

ReadBody(d, c) == [d EXCEPT !.got = Append(@, c), !.rem = @ - 1,
                            !.st = IF d.rem > 1 THEN "Body" ELSE "BodyCr"]

ReadTrailer(d, c) == PutTrailer(d, c, IF c = "CR" THEN "TrailerLf" ELSE "Trailer")

ReadTrailerLf(d, c) ==
    IF d.tcnt >= MaxHeaders THEN Fail(d, "trailers_count")
    ELSE PutTrailer([d EXCEPT !.tcnt = @ + 1], c, "EndCr")

ReadEndCr(d, c) ==
    LET st == IF c = "CR" THEN "EndLf" ELSE "Trailer"
    IN  IF d.tbuf # <<>> THEN PutTrailer(d, c, st)
        ELSE [d EXCEPT !.st = st, !.tbuf = IF c = "CR" THEN <<>> ELSE <<c>>]

ReadEndLf(d, c) ==
    IF d.tbuf = <<>> THEN EndChunked(d)
    ELSE LET e == PutTrailer(d, c, "End") IN IF e.err # "" THEN e ELSE EndChunked(e)

Step(d, c) ==
    CASE d.st = "Start"     -> ReadStart(d, c)
      [] d.st = "Size"      -> ReadSize(d, c)
      [] d.st = "SizeLws"   -> ReadSizeLws(d, c)
      [] d.st = "Extension" -> ReadExtension(d, c)
      [] d.st = "SizeLf" /\ c = "LF"    -> ReadSizeLf(d)
      [] d.st = "Body"      -> ReadBody(d, c)
      [] d.st = "BodyCr" /\ c = "CR"    -> [d EXCEPT !.st = "BodyLf"]
      [] d.st = "BodyLf" /\ c = "LF"    -> [d EXCEPT !.st = "Start"]
      [] d.st = "Trailer"   -> ReadTrailer(d, c)
      [] d.st = "TrailerLf" /\ c = "LF" -> ReadTrailerLf(d, c)
      [] d.st = "EndCr"     -> ReadEndCr(d, c)
      [] d.st = "EndLf" /\ c = "LF"     -> ReadEndLf(d, c)
      [] OTHER -> Fail(d, "framing")

\* BodyDecoder::decode, called until it has nothing more to give.  Units that are
\* not octets of a body (a head's) are octets like any other here.
OctetOf(u) == IF u.t = "b" THEN u.c ELSE "head"

RECURSIVE Decode(_)
Decode(d) ==
    IF d.done \/ d.err # "" THEN d
    ELSE IF d.buf = <<>> THEN
        IF ~d.eof THEN d
        ELSE IF d.k = "close" THEN [d EXCEPT !.done = TRUE] ELSE Fail(d, "unexpected_eof")
    ELSE LET c == OctetOf(d.buf[1])
             e == [d EXCEPT !.buf = Tail(@)]
         IN  CASE d.k = "length" ->
                    Decode([e EXCEPT !.got = Append(@, c), !.rem = @ - 1, !.done = d.rem = 1])
               [] d.k = "close" -> Decode([e EXCEPT !.got = Append(@, c)])
               [] d.k = "chunked" -> Decode(Step(e, c))

Feed(d, units) == Decode([d EXCEPT !.buf = @ \o units])

-----------------------------------------------------------------------------
(* Heads on the wire and in the read buffer. *)

HeadOnWire(h) == [i \in 1..h.size |-> [t |-> "h", i |-> i, head |-> h]]

\* httparse: empty lines before a head are skipped; the head is then whole, torn
\* or not a head at all.
RECURSIVE TakeHead(_)
TakeHead(buf) ==
    CASE buf = <<>> -> [st |-> "partial"]
      [] buf # <<>> /\ buf[1].t = "b" ->
            IF Len(buf) >= 2 /\ buf[1].c = "CR" /\ buf[2].t = "b" /\ buf[2].c = "LF"
            THEN LET t == TakeHead(SubSeq(buf, 3, Len(buf)))
                 IN  IF t.st = "complete" THEN [t EXCEPT !.len = @ + 2] ELSE t
            ELSE IF Len(buf) = 1 /\ buf[1].c = "CR" THEN [st |-> "partial"]
            ELSE [st |-> "token"]
      [] buf # <<>> /\ buf[1].t = "h" ->
            LET n == buf[1].head.size
            IN  IF buf[1].i # 1 THEN [st |-> "token"]
                ELSE IF Len(buf) < n THEN [st |-> "partial"]
                ELSE [st |-> "complete", head |-> buf[1].head, len |-> n,
                      rest |-> SubSeq(buf, n + 1, Len(buf))]

Parsed(st, buf, head) == [st |-> st, buf |-> buf, head |-> head]
NoHead == MsgHead("", 0, FALSE, <<>>, 0)

\* Server::parse on the buffer.
ServerTaken(buf, t) ==
    CASE t.st # "complete" -> Parsed(t.st, buf, NoHead)
      [] t.st = "complete" /\ t.len > MaxBuf -> Parsed("too_large", buf, NoHead)
      [] t.st = "complete" /\ t.len <= MaxBuf /\ t.head.uri > MaxUri ->
            Parsed("uri_too_long", buf, NoHead)
      [] OTHER -> Parsed("complete", t.rest, t.head)

\* Client::parse on the buffer: its loop drops 1xx heads.
RECURSIVE ClientTaken(_, _, _)
ClientTaken(buf, method, t) ==
    CASE t.st # "complete" -> Parsed(t.st, buf, NoHead)
      [] t.st = "complete" /\ t.len > MaxBuf -> Parsed("too_large", buf, NoHead)
      [] OTHER -> IF ClientDecoder(t.head, method).k # "skip" THEN Parsed("complete", t.rest, t.head)
                  ELSE IF t.rest = <<>> THEN Parsed("partial", <<>>, NoHead)
                  ELSE ClientTaken(t.rest, method, TakeHead(t.rest))

ParseBuffer(server, buf, method) ==
    IF server THEN ServerTaken(buf, TakeHead(buf)) ELSE ClientTaken(buf, method, TakeHead(buf))

\* H1Codec::parse_head: at most MaxBuf units are parsed at a time.
RECURSIVE ParseHead(_, _, _)
ParseBounded(server, method, p, rest) ==
    IF p.st = "partial" /\ Len(p.buf) >= MaxBuf THEN Parsed("too_large", p.buf \o rest, NoHead)
    ELSE IF p.st = "partial" /\ rest # <<>> THEN ParseHead(server, p.buf \o rest, method)
    ELSE [p EXCEPT !.buf = @ \o rest]

ParseHead(server, buf, method) ==
    LET n == IF Len(buf) <= MaxBuf THEN Len(buf) ELSE MaxBuf
    IN  ParseBounded(server, method, ParseBuffer(server, SubSeq(buf, 1, n), method),
                     SubSeq(buf, n + 1, Len(buf)))

=============================================================================
