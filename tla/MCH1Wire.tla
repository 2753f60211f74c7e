------------------------------ MODULE MCH1Wire -------------------------------
(* Messages for H1Wire: every framing each end can choose, a body whose octets *)
(* look like framing, and foreign messages at and past each limit.             *)
EXTENDS H1Wire

L(n, v) == [n |-> n, v |-> v]
CL(t) == L("content-length", <<t>>)
TE(t) == L("transfer-encoding", t)
Conn(t) == L("connection", <<t>>)
Trailer == L("trailer", <<"t", "host">>)

NoBody == [k |-> "none", n |-> 0]
Known == [k |-> "known", n |-> 2]
Unknown == [k |-> "unknown", n |-> 0]
Tricky == <<<<"0", "CR">>>>         \* octets that look like the last chunk
Long == <<<<"0", "CR", "LF">>>>     \* one octet more than two

Bodies == {<<NoBody, <<>>>>, <<Known, Tricky>>, <<Unknown, <<>>>>, <<Unknown, Long>>}

Req(m, ls, b) == [method |-> m, lines |-> ls, plan |-> b[1], chunks |-> b[2],
                  trailers |-> <<"t", "u", "host">>]

MCRequests ==
    {Req(m, ls, b) : m \in {"GET", "HEAD", "POST"}, b \in Bodies,
        ls \in {<<>>, <<Conn("close")>>, <<Conn("keep-alive"), Conn("close")>>,
                <<TE(<<"gzip">>)>>, <<TE(<<"chunked">>), TE(<<"gzip">>)>>,
                <<L("te", <<"x", "trailers">>)>>}}
    \cup {Req("POST", ls, b) : b \in Bodies \ {<<NoBody, <<>>>>},
            ls \in {<<CL("2")>>, <<CL("2"), TE(<<"chunked">>)>>, <<CL("2"), CL("2")>>}}
    \cup {Req("POST", <<Trailer, TE(<<"chunked">>), CL("2")>>, <<Unknown, Long>>),
          Req("POST", <<L("expect", <<"100-continue">>)>>, <<Known, Tricky>>)}
    \cup {Req("CONNECT", <<>>, <<NoBody, <<>>>>),
          Req("GET", <<L("upgrade", <<"x">>), Conn("upgrade")>>, <<NoBody, <<>>>>)}

Res(st, ls, b) == [status |-> st, lines |-> ls, plan |-> b[1], chunks |-> b[2],
                   trailers |-> <<"t", "u", "host">>]

MCResponses ==
    {Res(st, ls, b) : st \in {200, 204, 304}, b \in Bodies,
        ls \in {<<>>, <<Conn("x"), Conn("close")>>, <<TE(<<"gzip">>), Conn("x")>>,
                <<TE(<<"chunked">>), TE(<<"gzip">>)>>, <<Trailer>>, <<Conn("keep-alive")>>}}
    \cup {Res(st, ls, b) : st \in {200, 204, 304, 404}, b \in Bodies,
            ls \in {<<CL("2")>>, <<CL("2"), CL("2")>>, <<CL("2"), TE(<<"chunked">>)>>,
                    <<TE(<<"chunked">>), CL("2")>>}}
    \cup {Res(200, ls, <<Unknown, Long>>) : ls \in {<<CL("2"), CL("1")>>, <<CL("x")>>}}
    \cup {Res(101, <<Conn("upgrade")>>, b) : b \in Bodies}
    \cup {Res(100, <<>>, <<NoBody, <<>>>>)}

\* Chunked bodies as a foreign peer may write them: octets, body, trailers, and
\* whether the receiver must take them.
C(cs, body, trailers, ok) == [cs |-> cs, body |-> body, trailers |-> trailers, ok |-> ok]
End == <<"0", "CR", "LF">>
Streams ==
    {C(End \o CRLF, <<>>, <<>>, TRUE),
     C(<<"1", ";", "x", "CR", "LF", "LF", "CR", "LF">> \o End \o CRLF, <<"LF">>, <<>>, TRUE),
     C(<<"1", ";", "x", "CR", "LF", "a", "CR", "LF", "1", ";", "x", "y", "CR", "LF", "a">>,
       <<"a", "a">>, <<>>, FALSE),                       \* extensions over the limit
     C(<<"0", "1", "1", "SP", "CR", "LF", "0", "CR", "LF", "CR", "LF">> \o End \o CRLF,
       <<"0", "CR", "LF">>, <<>>, TRUE),
     C(<<"1", "SP", "1", "CR", "LF", "a", "a", "a", "CR", "LF">> \o End \o CRLF, <<>>, <<>>, FALSE),
     C(<<"1", "0", "0", "0", "CR", "LF">>, <<>>, <<>>, FALSE),      \* overflow
     C(<<"1", "CR", "LF", "a", "LF">> \o End \o CRLF, <<"a">>, <<>>, FALSE),
     C(<<"1", ";", "LF", "a", "CR", "LF">> \o End \o CRLF, <<>>, <<>>, FALSE),
     C(CRLF \o End \o CRLF, <<>>, <<>>, FALSE),
     C(End \o <<"t", "CR", "LF", "u", "CR", "LF">> \o CRLF, <<>>, <<"t", "u">>, TRUE),
     C(End \o <<"t", "CR", "LF", "t", "CR", "LF", "t", "CR", "LF">> \o CRLF, <<>>, <<>>, FALSE),
     C(End \o <<"t", "t", "t", "t", "t", "CR", "LF">> \o CRLF, <<>>, <<>>, FALSE),
     C(End \o <<"bad", "CR", "LF">> \o CRLF, <<>>, <<>>, FALSE)}

Plain(n) == C(SubSeq(<<"0", "CR", "LF">>, 1, n), SubSeq(<<"0", "CR", "LF">>, 1, n), <<>>, TRUE)

\* Head lines of a foreign request, in any order.
FramingLines == {CL("1"), CL("2"), CL("x"), CL("huge"), L("content-length", <<"2", "2">>),
                 TE(<<"chunked">>), TE(<<"gzip", "chunked">>), TE(<<"gzip">>)}
FramingHeads == {MsgHead("POST", 0, v, ls, HeadUnits) :
                    v \in BOOLEAN, ls \in UNION {[1..n -> FramingLines] : n \in 0..3}}

Must(b) == IF b THEN "must" ELSE "never"

Foreign(lead, h, c, ok) ==
    [units |-> lead \o HeadOnWire(h) \o Octets(c.cs), head |-> h, body |-> c.body,
     trailers |-> c.trailers, ok |-> ok]

Accepted(h) ==
    LET both == Has(h.lines, "content-length") /\ Has(h.lines, "transfer-encoding")
    IN  IF RequestFraming(h).k = "refuse" THEN "never" ELSE IF both THEN "may" ELSE "must"
BodyFor(h) == LET f == RequestFraming(h)
              IN  IF f.k = "chunked" THEN C(End \o CRLF, <<>>, <<>>, TRUE)
                  ELSE IF f.k = "length" THEN Plain(f.n) ELSE Plain(0)

ChunkedHead == MsgHead("POST", 0, FALSE, <<TE(<<"chunked">>)>>, HeadUnits)
Sized(n) == MsgHead("GET", 0, FALSE, <<>>, n)

MCForeignRequests ==
    {Foreign(<<>>, h, BodyFor(h), Accepted(h)) : h \in FramingHeads}
    \cup {Foreign(<<>>, ChunkedHead, c, Must(c.ok)) : c \in Streams}
    \cup {Foreign(lead, Sized(n), Plain(0), Must(n + Len(lead) <= MaxBuf)) :
            n \in {MaxBuf - 2, MaxBuf, MaxBuf + 1}, lead \in {<<>>, Octets(CRLF)}}
    \cup {Foreign(<<>>, [Sized(MaxBuf) EXCEPT !.uri = n], Plain(0), Must(n <= MaxUri)) :
            n \in {MaxUri, MaxUri + 1}}
    \cup {Foreign(<<>>, MsgHead("GET", 0, v, ls, HeadUnits), Plain(0), "must") :
            v \in BOOLEAN,
            ls \in {<<Conn("close"), Conn("keep-alive")>>, <<Conn("keep-alive")>>,
                    <<L("upgrade", <<"x">>)>>}}
    \cup {[Foreign(<<>>, Sized(1), Plain(0), "never") EXCEPT !.units = Octets(<<"PRI", "LF">>)]}

MCPipelined == {Foreign(<<>>, Sized(2), Plain(0), "must"),
                Foreign(<<>>, MsgHead("POST", 0, FALSE, <<CL("2")>>, 2), Plain(2), "must")}

\* A foreign server's answer to method m: interim heads, the head, the body.
Answer(m, lead, st, v10, ls, c, ok, ends) ==
    LET h == MsgHead("", st, v10, ls, HeadUnits)
    IN  [for |-> m, ends |-> ends] @@ Foreign(lead, h, c, ok)
Interim(n) == HeadOnWire(MsgHead("", 103, FALSE, <<>>, n))

MCForeignResponses ==
    {Answer("POST", lead, 200, FALSE, <<TE(<<"chunked">>)>>, c, Must(c.ok), FALSE) :
        c \in Streams, lead \in {<<>>, Interim(2)}}
    \cup {Answer("POST", Interim(MaxBuf) \o Interim(2), 200, FALSE, <<CL("2")>>, Plain(2), "must", FALSE),
          Answer("POST", Interim(MaxBuf + 1), 200, FALSE, <<CL("2")>>, Plain(2), "never", FALSE)}
    \cup {Answer("POST", <<>>, 200, v, ls, Plain(3), "must", TRUE) :
            v \in BOOLEAN, ls \in {<<>>, <<Conn("keep-alive")>>}}
    \cup {Answer("POST", <<>>, 200, FALSE, <<TE(<<"gzip">>)>>, Plain(3), "must", TRUE)}
    \cup {Answer("GET", <<>>, 200, v, <<CL("2"), L("content-length", <<"2", "2">>)>> \o ls,
                 Plain(2), "must", FALSE) : v \in BOOLEAN, ls \in {<<>>, <<Conn("keep-alive")>>}}
    \cup {Answer("GET", <<>>, 200, v, ls, Plain(0), "never", FALSE) :
            v \in {TRUE}, ls \in {<<TE(<<"chunked">>)>>, <<CL("1"), CL("2")>>, <<CL("huge")>>}}
    \cup {Answer("HEAD", <<>>, 200, FALSE, ls, Plain(0), "must", FALSE) :
            ls \in {<<CL("2")>>, <<TE(<<"chunked">>)>>, <<>>}}
    \cup {Answer("GET", <<>>, 204, FALSE, <<CL("2")>>, Plain(0), "must", FALSE)}
=============================================================================
