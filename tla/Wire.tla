-------------------------------- MODULE Wire --------------------------------
(***************************************************************************)
(* One client connection as bytes: what the PROXY header, TLS, HTTP/1.1    *)
(* heads and bodies make of a stream that arrives in pieces of any size,   *)
(* on either engine, and across the hand-over between them.                *)
(*                                                                         *)
(* Worker follows descriptors, operations and failures with a byte stream  *)
(* reduced to a few kinds of input; here the stream is tokens (see Codec)  *)
(* and there is one connection.  An origin that answers before it has the  *)
(* whole request is Worker's business, not this module's.                  *)
(***************************************************************************)
EXTENDS Codec, Preface

CONSTANTS
    Streams,    \* what clients say: [app, requests, refusals]
    Headers,    \* PROXY headers: [tokens, st, client]
    Replies,    \* what origins say: [interim, head, body, closes]
    Hellos,     \* what is offered in a ClientHello: "h2", "h1", "bad"
    MaxRead     \* the most tokens one read returns

ASSUME WireAssumption == MaxRead \in Nat \ {0}

VARIABLES
    config,     \* [proxy, tls, dispatch, lane] of the listener
    stream,     \* the client's, with its header and its hello
    net,        \* tokens the client has sent and nobody has read
    c,          \* the engine's Conn, and what it has written so far
    reply,      \* what the origin of the request in hand answers
    unet,       \* tokens the origin has sent and nobody has read
    hyper       \* the connection on the other engine

vars == <<config, stream, net, c, reply, unet, hyper>>

Peer == "socket"
NoHeader == [tokens |-> <<>>, st |-> "done", client |-> Peer]
NoReply == [interim |-> <<>>, head |-> <<>>, body |-> <<>>, closes |-> FALSE]

-----------------------------------------------------------------------------
(* TLS, as rustls does it: a hello of two records, the client's Finished,  *)
(* then a record per token of plaintext.  A corrupt one is refused.        *)

HelloTokens == ("h2" :> <<"hello", "h2">>) @@ ("h1" :> <<"hello", "h1">>)
               @@ ("bad" :> <<"hello", "bad">>)
Cipher(app, offer) ==
    HelloTokens[offer] \o <<"fin">> \o [i \in 1..Len(app) |-> "record"]

\* What a connection's bytes are once the PROXY header is off.
Payload(cfg, s) == IF cfg.tls THEN Cipher(s.app, s.hello) ELSE s.app

\* sent is [client, wire] per request written to an origin, got [reply, wire]
\* per response written to the client, refusals the engine's own answers; taken
\* counts what has left the inbox, and h2 says the inbox looked like HTTP/2.
NewConn(cfg) ==
    [preface |-> cfg.proxy, hdr |-> <<>>, peer |-> Peer,
     tls |-> IF cfg.tls THEN "hello" ELSE "none", replay |-> <<>>, records |-> 0,
     established |-> FALSE, inbox |-> <<>>, eof |-> FALSE, handOff |-> FALSE,
     writing |-> FALSE, phase |-> "Head", scanned |-> 0, method |-> "GET",
     keep |-> TRUE, body |-> NoBody, uinbox |-> <<>>, uscanned |-> 0,
     seen |-> FALSE, rbody |-> NoBody,
     sent |-> <<>>, got |-> <<>>, refusals |-> <<>>, taken |-> 0, h2 |-> FALSE]

NoHyper == [at |-> "none", buffer |-> <<>>, prefix |-> <<>>, read |-> <<>>, client |-> Peer]

Init ==
    /\ config \in [proxy : BOOLEAN, tls : BOOLEAN, dispatch : BOOLEAN,
                   lane : {"engine", "hyper"}]
    /\ config.lane = "hyper" => config.proxy /\ ~config.dispatch
    /\ \E s \in Streams, h \in Headers, o \in Hellos :
          /\ ~config.tls => o = "h1"
          /\ config.proxy <=> h # NoHeader
          /\ stream = [app |-> s.app, requests |-> s.requests, refusals |-> s.refusals,
                       header |-> h, hello |-> o]
    /\ net = stream.header.tokens \o Payload(config, stream)
    /\ c = NewConn(config)
    /\ hyper = [NoHyper EXCEPT !.at = IF config.lane = "hyper" THEN "header" ELSE "none"]
    /\ unet = <<>> /\ reply = NoReply

-----------------------------------------------------------------------------
(* Into the inbox: the PROXY header, then the record layer.                *)

Drop(seq, n) == SubSeq(seq, n + 1, Len(seq))
OntoLast(seq, tokens) == [seq EXCEPT ![Len(seq)].wire = @ \o tokens]

\* feed_live: what rustls decrypts of the records given.
FeedLive(k, cipher) ==
    LET n == Len(SelectSeq(cipher, LAMBDA t : t = "record"))
    IN [k EXCEPT !.established = @ \/ "fin" \in Range(cipher),
                 !.inbox = @ \o SubSeq(stream.app, k.records + 1, k.records + n),
                 !.records = @ + n]

\* feed_hello and the decision ingest takes on it: nothing is committed until
\* the hello is whole, and then the connection is accepted or given away.
FeedHello(k) ==
    IF Len(k.replay) < 2 THEN k
    ELSE CASE k.replay[2] = "bad" -> [k EXCEPT !.tls = "dead", !.phase = "Closing"]
           [] k.replay[2] = "h2" /\ config.dispatch -> [k EXCEPT !.handOff = TRUE]
           [] OTHER -> FeedLive([k EXCEPT !.tls = "live", !.replay = <<>>],
                                Drop(k.replay, 2))

\* Session::feed, or the plaintext lane.
Unwrap(k, bytes) ==
    CASE k.tls = "none" -> [k EXCEPT !.inbox = @ \o bytes]
      [] k.tls = "hello" -> FeedHello([k EXCEPT !.replay = @ \o bytes])
      [] k.tls = "live" -> FeedLive(k, bytes)
      [] k.tls = "dead" -> k

MutSurplusLost(hdr, consumed) == <<>>

\* What is left of a header's last read: the connection's own first bytes.
Surplus(hdr, consumed) == Drop(hdr, consumed)

\* consume_preface, r being what parse made of the header so far: a header is
\* required, and anything else ends the connection.
ConsumePreface(k, hdr, r) ==
    CASE r.st = "more" -> [k EXCEPT !.hdr = hdr]
      [] r.st = "error" -> [k EXCEPT !.phase = "Closing", !.eof = TRUE]
      [] r.st = "done" ->
           Unwrap([k EXCEPT !.preface = FALSE, !.hdr = <<>>,
                            !.peer = IF r.client = Nobody THEN @ ELSE r.client],
                  Surplus(hdr, r.consumed))

Ingest(k, bytes) ==
    IF k.preface THEN ConsumePreface(k, k.hdr \o bytes, Parse(k.hdr \o bytes))
    ELSE Unwrap(k, bytes)

-----------------------------------------------------------------------------
(* The state machine, over the inbox.                                      *)

\* Conn::reset, for the next request.
ResetConn(k) ==
    [k EXCEPT !.phase = "Head", !.scanned = 0, !.body = NoBody, !.uinbox = <<>>,
              !.uscanned = 0, !.seen = FALSE, !.rbody = NoBody, !.method = "GET"]

\* fail: answer for the origin.  A connection whose request is not wholly read,
\* or that was to close anyway, ends; else the head answered is consumed.
Fail(k, status, close, head) ==
    LET told == [k EXCEPT !.refusals = Append(@, status), !.writing = TRUE]
    IN IF close \/ ~k.keep \/ ~Finished(k.body)
       THEN [told EXCEPT !.phase = "Closing"]
       ELSE ResetConn([told EXCEPT !.inbox = Drop(@, head), !.taken = @ + head])

\* is_h2_preface: everything so far agrees with the HTTP/2 preface.
H2Preface == <<"P", "RI">> \o End \o <<"SM">> \o End
IsH2Preface(bytes) ==
    LET n == Min({Len(bytes), Len(H2Preface)})
    IN n > 0 /\ SubSeq(bytes, 1, n) = SubSeq(H2Preface, 1, n)

\* route_request: framing, persistence, the match, the head rewritten.
RouteRequest(k, h, framing) ==
    LET line == RequestLines[h.start]
        r == [k EXCEPT !.body = NewBody(framing), !.method = line.method,
                       !.keep = KeepAlive(h.fields, line.version) /\ ~k.eof]
    IN IF framing.st = "error" THEN Fail(k, framing.status, TRUE, 0)
       ELSE IF "Host ?" \in Range(h.fields) THEN Fail(r, 404, FALSE, h.len)
       ELSE [r EXCEPT !.inbox = Drop(@, h.len), !.taken = @ + h.len,
                      !.phase = "Connecting",
                      !.sent = Append(@, [client |-> k.peer,
                                          wire |-> WriteUpstream(h, framing)])]

\* parse_request, given what parse_request_head made of the inbox.
OnRequestHead(k, r) ==
    CASE r.st = "more" -> [k EXCEPT !.scanned = Len(k.inbox),
                                    !.phase = IF k.eof THEN "Closing" ELSE @]
      [] r.st = "error" -> Fail(k, r.status, TRUE, 0)
      [] r.st = "head" -> RouteRequest(k, r, RequestFraming(r))

ParseRequest(k) ==
    IF ~IsH2Preface(k.inbox) THEN OnRequestHead(k, ParseHead(k.inbox, k.scanned, RequestLines))
    ELSE IF config.dispatch THEN [k EXCEPT !.h2 = TRUE, !.handOff = TRUE]
    ELSE Fail([k EXCEPT !.h2 = TRUE], 502, TRUE, 0)

\* pump_bodies, client to origin: body bytes verbatim, chunk framing included.
Pump(k, r) ==
    LET moved == [k EXCEPT !.sent = OntoLast(@, SubSeq(k.inbox, 1, r.n)),
                           !.inbox = Drop(@, r.n), !.taken = @ + r.n, !.body = r.body]
    IN IF r.bad THEN Fail(k, 400, TRUE, 0)
       ELSE IF ~Finished(r.body) /\ k.eof /\ r.n = Len(k.inbox)
       THEN Fail(moved, 400, TRUE, 0)
       ELSE moved

PumpRequest(k) == Pump(k, Take(k.body, k.inbox))

\* parse_response, a whole head: relayed with this hop's framing and persistence.
RelayHead(k, r, framing) ==
    LET keep == k.keep /\ framing.st # "until close"
    IN IF framing.st = "error" THEN Fail(k, 502, TRUE, 0)
       ELSE [k EXCEPT !.got = Append(@, [method |-> k.method, reply |-> reply,
                                         wire |-> WriteDownstream(r, framing, ~keep)]),
                      !.uinbox = Drop(@, r.len), !.rbody = NewBody(framing),
                      !.seen = TRUE, !.keep = keep, !.phase = "Relaying",
                      !.writing = TRUE]

\* parse_response, given what parse_response_head made of the origin's bytes.
OnResponseHead(k, r) ==
    CASE r.st = "more" -> [k EXCEPT !.uscanned = Len(k.uinbox)]
      [] r.st = "error" -> Fail(k, 502, TRUE, 0)
      [] r.st = "head" -> RelayHead(k, r, ResponseFraming(r, k.method = "HEAD"))

\* Its body: garbage after the head can only end the connection.
RelayTaken(k, r) ==
    IF r.bad THEN [k EXCEPT !.phase = "Closing"]
    ELSE [k EXCEPT !.got = OntoLast(@, SubSeq(k.uinbox, 1, r.n)),
                   !.uinbox = Drop(@, r.n), !.rbody = r.body]

RelayBody(k) == IF k.seen THEN RelayTaken(k, Take(k.rbody, k.uinbox)) ELSE k

ParseResponse(k) ==
    IF k.phase = "Closing" \/ k.uinbox = <<>> THEN k
    ELSE RelayBody(IF k.seen THEN k
                   ELSE OnResponseHead(k, ParseHead(k.uinbox, k.uscanned, StatusLines)))

\* finish_response
FinishResponse(k) ==
    IF k.keep THEN ResetConn(k) ELSE [ResetConn(k) EXCEPT !.phase = "Closing"]

Answered(k) == k.seen /\ Finished(k.rbody)

\* The next request, if the response is over and there may be one.
NextRequest(k) == IF k.phase = "Head" THEN ParseRequest(k) ELSE k

Settle(k) == IF Answered(k) THEN NextRequest(FinishResponse(k)) ELSE k

\* advance: as far as the buffers allow.
Advance(k) ==
    IF k.phase \in {"Exchanging", "Relaying"} THEN Settle(ParseResponse(PumpRequest(k)))
    ELSE NextRequest(k)

-----------------------------------------------------------------------------
(* Steps.                                                                  *)

\* drive, where all that is left to see is the hand-over: the descriptor and
\* every byte read off it that has not been answered.
Drive(k) ==
    IF ~k.handOff THEN c' = k /\ UNCHANGED hyper
    ELSE /\ c' = [k EXCEPT !.phase = "Away"]
         /\ hyper' = [NoHyper EXCEPT !.at = "open", !.client = k.peer,
                                     !.prefix = IF k.tls = "none" THEN k.inbox
                                                ELSE k.replay]

Engine == config.lane = "engine" /\ c.phase # "Away"

\* wants_client_bytes
WantsClientBytes ==
    /\ ~c.eof
    /\ \/ c.phase = "Head"
       \/ c.phase \in {"Connecting", "Exchanging"} /\ ~Finished(c.body)

\* on_client_read, with bytes
Read(n) ==
    /\ Engine /\ WantsClientBytes
    /\ n <= Len(net)
    /\ net' = Drop(net, n)
    /\ Drive(Advance(Ingest(c, SubSeq(net, 1, n))))
    /\ UNCHANGED <<config, stream, reply, unet>>

\* on_client_read at the end of the stream: a handshake cut short is dead.
ReadEof ==
    /\ Engine /\ WantsClientBytes /\ net = <<>>
    /\ Drive(Advance([c EXCEPT !.eof = TRUE,
                               !.tls = IF @ # "none" /\ ~c.established THEN "dead" ELSE @]))
    /\ UNCHANGED <<config, stream, net, reply, unet>>

\* on_client_write
Wrote ==
    /\ Engine /\ c.writing
    /\ Drive(Advance([c EXCEPT !.writing = FALSE]))
    /\ UNCHANGED <<config, stream, net, reply, unet>>

\* What an origin answers to this method.
Body(r, method) == IF method = "HEAD" THEN <<>> ELSE r.body
Spoken(r, method) == r.interim \o r.head \o Body(r, method)

\* on_connected, with the origin's answer to come
Connected(r) ==
    /\ Engine /\ c.phase = "Connecting"
    /\ reply' = r /\ unet' = Spoken(r, c.method)
    /\ Drive(Advance([c EXCEPT !.phase = "Exchanging"]))
    /\ UNCHANGED <<config, stream, net>>

Exchanging == Engine /\ c.phase \in {"Exchanging", "Relaying"} /\ Finished(c.body)

\* on_upstream_read
UpRead(n) ==
    /\ Exchanging /\ n <= Len(unet)
    /\ unet' = Drop(unet, n)
    /\ Drive(Advance([c EXCEPT !.uinbox = @ \o SubSeq(unet, 1, n)]))
    /\ UNCHANGED <<config, stream, net, reply>>

\* on_upstream_eof, of a response that ends there
UpEof ==
    /\ Exchanging /\ unet = <<>> /\ reply.closes
    /\ c.rbody.kind = "until close"
    /\ Drive(FinishResponse([c EXCEPT !.rbody = NoBody]))
    /\ UNCHANGED <<config, stream, net, reply, unet>>

-----------------------------------------------------------------------------
(* The hyper engine: read_header, and Prefixed in front of the socket.     *)

\* read_header: a read, then parse
HyperHeader(n) ==
    LET buffer == hyper.buffer \o SubSeq(net, 1, n)
        r == Parse(buffer)
    IN /\ hyper.at = "header" /\ n <= Len(net)
       /\ net' = Drop(net, n)
       /\ hyper' = CASE r.st = "more" -> [hyper EXCEPT !.buffer = buffer]
                     [] r.st = "error" -> [hyper EXCEPT !.at = "closed"]
                     [] r.st = "done" ->
                          [at |-> "open", buffer |-> <<>>, read |-> <<>>,
                           prefix |-> Surplus(buffer, r.consumed),
                           client |-> IF r.client = Nobody THEN Peer ELSE r.client]
       /\ UNCHANGED <<config, stream, c, reply, unet>>

\* accept: the deadline, or the end of the stream, before a whole header
HyperGivesUp ==
    /\ hyper.at = "header"
    /\ hyper' = [hyper EXCEPT !.at = "closed"]
    /\ UNCHANGED <<config, stream, net, c, reply, unet>>

\* Prefixed::poll_read
PollRead(n) ==
    /\ hyper.at = "open"
    /\ IF hyper.prefix # <<>>
       THEN LET k == Min({n, Len(hyper.prefix)})
            IN /\ hyper' = [hyper EXCEPT !.read = @ \o SubSeq(hyper.prefix, 1, k),
                                         !.prefix = Drop(@, k)]
               /\ UNCHANGED net
       ELSE /\ n <= Len(net)
            /\ hyper' = [hyper EXCEPT !.read = @ \o SubSeq(net, 1, n)]
            /\ net' = Drop(net, n)
    /\ UNCHANGED <<config, stream, c, reply, unet>>

Next ==
    \/ \E n \in 1..MaxRead : Read(n) \/ UpRead(n) \/ HyperHeader(n) \/ PollRead(n)
    \/ \E r \in Replies : Connected(r)
    \/ ReadEof \/ Wrote \/ UpEof \/ HyperGivesUp

Spec == Init /\ [][Next]_vars

-----------------------------------------------------------------------------
(* Properties.                                                             *)

ScanOK(s) ==
    /\ s.digits <= MaxDigits /\ s.v < 16 ^ MaxDigits
    /\ s.line <= MaxChunkLine /\ s.trailer <= MaxTrailer

\* What one connection may make the process hold: a head that is not whole is
\* never longer than MaxHead, nor a chunk line, a trailer section or a PROXY
\* header than theirs, and the cursor never runs past the buffer (find_head_end,
\* ChunkScan::step, parse_v1).
Bounded ==
    /\ c.phase \in {"Head", "Connecting", "Exchanging", "Relaying", "Closing", "Away"}
    /\ c.tls \in {"none", "hello", "live", "dead"}
    /\ hyper.at \in {"none", "header", "open", "closed"}
    /\ c.phase = "Head" => /\ c.scanned <= Len(c.inbox)
                           /\ c.scanned <= MaxHead
    /\ c.uscanned <= MaxHead
    /\ ScanOK(c.body.scan) /\ ScanOK(c.rbody.scan)
    /\ \A hdr \in {c.hdr, hyper.buffer} :
          Len(hdr) < Max({V1MaxLen, Len(V2Signature) + 3 + Max(Range(Widths))})

\* Whichever engine ends up with a connection reads on exactly where the first
\* left off, nothing lost, repeated or reordered, and knows the client the PROXY
\* header named: the surplus of the header's last read is put back, and a
\* hand-over carries every byte the first engine took and did not answer
\* (Prefixed, into_replay).  A session already live has nothing to replay;
\* OnlyH2IsH2 is about how it comes to be handed over.
BytesKept ==
    hyper.at = "open" /\ ~(c.h2 /\ config.tls) =>
        /\ hyper.read \o hyper.prefix \o net = Drop(Payload(config, stream), c.taken)
        /\ hyper.client = stream.header.client

\* A message as the next hop reads it: its framing, its body as far as it has
\* come, whether that is all of it, and how many Hosts it names.  in is FALSE when
\* the bytes do not read as one message.
Framed(h, framing, body) ==
    LET t == Take(NewBody(framing), body)
    IN [in |-> framing.st # "error" /\ t.n = Len(body) /\ ~t.bad,
        kind |-> framing.st, body |-> body, all |-> Finished(t.body),
        hosts |-> Len(SelectSeq(h.fields, LAMBDA f : f \in Hosts))]
Reading(wire, framing(_)) ==
    LET end == FindHeadEnd(wire, 0)
        head(lines) == [start |-> lines[1], fields |-> FlattenSeq(Tail(lines))]
        read(h) == Framed(h, framing(h), Drop(wire, end))
    IN IF end = 0 THEN [in |-> FALSE]
       ELSE read(head(SplitLines(SubSeq(wire, 1, end - 4))))

\* What the origin of request i reads is the request: its framing, its bytes, its
\* end, and one Host.
RequestWhole(i) ==
    LET m == stream.requests[i]
        r == Reading(c.sent[i].wire, RequestFraming)
    IN /\ r.in /\ r.kind = m.kind /\ IsPrefix(r.body, m.body) /\ r.hosts = 1
       /\ i < Len(c.sent) \/ Len(c.got) = i => r.all /\ r.body = m.body

\* And what the client reads of response i is the response.
ResponseWhole(i) ==
    LET g == c.got[i]
        r == Reading(g.wire, LAMBDA h : ResponseFraming(h, g.method = "HEAD"))
    IN /\ r.in /\ IsPrefix(r.body, Body(g.reply, g.method))
       /\ i < Len(c.got) => r.all /\ r.body = Body(g.reply, g.method)

\* A Connection line names a field that is not this hop's to strip.
NamesEndToEnd(tokens) == OptionsOf(tokens) \cap {"content-length", "host"} # {}


\* The engine has been given everything it will read and has nothing left to do.
Quiet ==
    /\ Engine /\ ~c.writing
    /\ c.phase = "Closing" \/ (c.phase = "Head" /\ net = <<>>)

\* A client may also be cut off by an origin: one whose response ends with the
\* connection, or is not HTTP.
CutByOrigin ==
    \/ \E i \in DOMAIN c.got : c.got[i].reply.closes
    \/ ParseHead(reply.head, 0, StatusLines).st = "error"

\* A stream has one reading: however the network cuts it up, the same requests
\* reach origins and the same refusals reach the client (find_head_end,
\* ChunkScan::scan, Session::feed, proxy_protocol::parse).
OneReading ==
    Quiet /\ ~c.h2 /\ ~CutByOrigin =>
        IF stream.header.st = "done" /\ stream.hello # "bad"
        THEN /\ Len(c.sent) = Len(stream.requests)
             /\ c.refusals = stream.refusals
        ELSE c.sent = <<>> /\ c.refusals = <<>>

\* "`PRI` on its own is already unambiguous - no HTTP/1.1 method begins with it":
\* only a client that speaks HTTP/2 is refused or given away for speaking it
\* (is_h2_preface).
OnlyH2IsH2 == c.h2 => IsPrefix(<<"P", "RI">>, stream.app)

=============================================================================
