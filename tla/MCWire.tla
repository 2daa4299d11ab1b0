------------------------------- MODULE MCWire -------------------------------
(* Streams, PROXY headers and replies, each with what it means, for Wire.  *)
EXTENDS Wire

Get(fields) == Serialise(<<"GET">>, fields)
Post(fields) == Serialise(<<"P", "OST">>, fields)

\* Chunks: one of one token that looks like the end of a line, then a trailer.
Chunk == <<"1">> \o CrLf \o <<CR>> \o CrLf
Chunked == Chunk \o <<"0", ";", "ext">> \o CrLf \o <<"Accept">> \o End

Empty == [kind |-> "empty", body |-> <<>>]
Of(kind, body) == [kind |-> kind, body |-> body]

Asks(app, requests) == [app |-> app, requests |-> requests, refusals |-> <<>>]
Refuses(app, status) == [app |-> app, requests |-> <<>>, refusals |-> <<status>>]
BreaksOff(app, body) ==
    [app |-> app, requests |-> <<Of("chunked", body)>>, refusals |-> <<400>>]

Pipelined ==
    { Asks(Post(<<"Host", "length 2, 2">>) \o <<LF, CR>> \o Get(<<"Host">>),
           <<Of("length", <<LF, CR>>), Empty>>),
      Asks(Post(<<"Host", "chunked">>) \o Chunked \o Get(<<>>),
           <<Of("chunked", Chunked), Empty>>),
      Asks(Get(<<"Host", "close">>) \o Get(<<"Host">>), <<Empty>>),
      [app |-> Get(<<"Host ?">>) \o Get(<<"Host">>), requests |-> <<Empty>>,
       refusals |-> <<404>>] }
Single ==
    { Asks(Serialise(<<"HEAD">>, <<"Host", "x-hop", "X-Hop">>), <<Empty>>),
      Asks(Serialise(<<"GET/1.0">>, <<"Host", "length 0">>), <<Empty>>),
      Asks(Get(<<"Host", "upgrade", "Upgrade", "X-Real-IP">>), <<Empty>>),
      Asks(Post(<<"Host", "content-length, host", "length 1">>) \o <<LF>>,
           <<Of("length", <<LF>>)>>) }
Refused4xx ==
    { Refuses(Get(<<"Host", "Host">>), 400), Refuses(Get(<<"folded">>), 400),
      Refuses(Get(<<"Host", "length 1, 2">>), 400), Refuses(Get(<<"length +1">>), 400),
      Refuses(Post(<<"chunked", "length 1">>), 400), Refuses(Post(<<"no coding">>), 400),
      Refuses(Get(<<"Host", "Accept", "Accept", "Accept", "Accept">>), 431),
      Refuses(Get(<<"Host", "Accept", "Accept", "Accept", "Accept", "Accept">>), 413),
      Refuses(Post(<<"gzip, chunked">>), 501), Refuses(Serialise(<<"GET/2">>, <<>>), 501),
      Refuses(H2Preface, 502),
      BreaksOff(Post(<<"Host", "chunked">>) \o <<"1", CR, "x">>, <<"1", CR>>),
      BreaksOff(Post(<<"Host", "chunked">>) \o <<"0", ";", "ext", "ext", "ext">>,
                <<"0", ";", "ext", "ext">>),
      BreaksOff(Post(<<"Host", "chunked">>) \o Chunk \o <<"0", "0", "0">>, Chunk \o <<"0", "0">>),
      BreaksOff(Post(<<"Host", "chunked">>) \o <<"0">> \o CrLf \o <<"t", "t", "t", "t">>,
                <<"0">> \o CrLf \o <<"t", "t", "t">>) }
MCStreams == Pipelined \cup Single \cup Refused4xx

Named(tokens, client) == [tokens |-> tokens, st |-> "done", client |-> client]
Bad(tokens, st) == [tokens |-> tokens, st |-> st, client |-> Peer]
MCHeaders ==
    { NoHeader, Bad(<<>>, "error"),
      Named(<<"P", "ROXY", "TCP4 a", CR, LF>>, "a"),
      Named(<<"P", "ROXY", "UNKNOWN", CR, LF>>, Peer),
      Named(<<CR, LF, "QUIT", "PROXY", "INET6", "+3", "b", "b", "tlv">>, "b"),
      Named(<<CR, LF, "QUIT", "LOCAL", "INET", "+1", "a">>, Peer),
      Bad(<<CR, LF, "QUIT", "PROXY", "INET6", "+1", "b">>, "error"),
      Bad(<<"P", "ROXY", "TCP4 a", "text", "text">>, "error") }

Says(head, body) == [interim |-> <<>>, head |-> head, body |-> body, closes |-> FALSE]
MCReplies ==
    { Says(Serialise(<<"200">>, <<"length 2">>), <<CR, LF>>),
      Says(Serialise(<<"200">>, <<"content-length, host", "length 1">>), <<LF>>),
      Says(Serialise(<<"200">>, <<"chunked">>), <<"0">> \o End),
      Says(Serialise(<<"304">>, <<"length 2">>), <<>>),
      [Says(Serialise(<<"204">>, <<>>), <<>>) EXCEPT !.interim = Serialise(<<"100">>, <<>>)],
      [Says(Serialise(<<"200/1.0">>, <<>>), <<LF>>) EXCEPT !.closes = TRUE],
      Says(<<"junk">> \o End, <<>>) }
=============================================================================
