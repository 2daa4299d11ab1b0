------------------------------- MODULE Codec --------------------------------
(***************************************************************************)
(* The engine's HTTP/1.1 codec and what a hop does to headers.             *)
(*                                                                         *)
(* A token is a byte, or a run of bytes no decision of the codec falls     *)
(* inside: CR and LF are tokens, so is a whole field line, and "P" is the  *)
(* first byte of several different things.  A length is a number of tokens.*)
(* The tables below say what each field line carries.                      *)
(***************************************************************************)
EXTENDS Naturals, Sequences, FiniteSets, FiniteSetsExt, SequencesExt, TLC

CONSTANTS
    MaxHead,        \* MAX_HEAD
    MaxHeaders,     \* MAX_HEADERS
    MaxDigits,      \* hexadecimal digits of a u64: 16
    MaxChunkLine,   \* MAX_CHUNK_LINE
    MaxTrailer      \* MAX_TRAILER

ASSUME CodecAssumption ==
    {MaxHead, MaxHeaders, MaxDigits, MaxChunkLine, MaxTrailer} \subseteq Nat \ {0}

CR == "CR"
LF == "LF"
CrLf == <<CR, LF>>
End == CrLf \o CrLf

-----------------------------------------------------------------------------
(* The vocabulary.                                                         *)

\* Start lines: the tokens of each, what it says and the version it declares.
RequestLines ==
    (<<"GET">> :> [method |-> "GET", version |-> "1.1"])
    @@ (<<"GET/1.0">> :> [method |-> "GET", version |-> "1.0"])
    @@ (<<"HEAD">> :> [method |-> "HEAD", version |-> "1.1"])
    @@ (<<"P", "OST">> :> [method |-> "POST", version |-> "1.1"])
StatusLines ==
    (<<"200">> :> [code |-> 200, version |-> "1.1"])
    @@ (<<"204">> :> [code |-> 204, version |-> "1.1"])
    @@ (<<"304">> :> [code |-> 304, version |-> "1.1"])
    @@ (<<"100">> :> [code |-> 100, version |-> "1.1"])
    @@ (<<"200/1.0">> :> [code |-> 200, version |-> "1.0"])

\* A version past 1.1 is well formed and refused.
FutureLines == {<<"GET/2">>, <<"200/2">>}

\* Content-Length lines, and the values each lists; Nan is not a number.
Nan == MaxHead + 1
Lengths ==
    ("length 0" :> {0}) @@ ("length 1" :> {1}) @@ ("length 2" :> {2})
    @@ ("length 2, 2" :> {2}) @@ ("length 1, 2" :> {1, 2}) @@ ("length +1" :> {Nan})

\* Transfer-Encoding lines, and the codings each lists.
Codings ==
    ("chunked" :> <<"chunked">>) @@ ("gzip, chunked" :> <<"gzip", "chunked">>)
    @@ ("no coding" :> <<>>)

\* Connection lines, and the options each lists.
Options ==
    ("close" :> {"close"}) @@ ("keep-alive" :> {"keep-alive"})
    @@ ("upgrade" :> {"upgrade"}) @@ ("x-hop" :> {"x-hop"})
    @@ ("content-length, host" :> {"content-length", "host"})

\* Lines this hop derives or replaces, never copies: SELF_WRITTEN.
SelfWritten == {"X-Forwarded-For", "X-Real-IP", "X-Forwarded-Proto",
                "X-Forwarded-Host", "X-Request-Id"}

\* HOP_BY_HOP, without the codings.
HopByHop == {"Keep-Alive", "Upgrade"}

\* A host some rule matches, and one none does.
Hosts == {"Host", "Host ?"}

Fields == DOMAIN Lengths \cup DOMAIN Codings \cup DOMAIN Options \cup SelfWritten
          \cup HopByHop \cup Hosts \cup {"X-Hop", "Accept"}

-----------------------------------------------------------------------------
(* Results.                                                                *)

More == [st |-> "more", status |-> 0]
Error(status) == [st |-> "error", status |-> status]
Malformed == Error(400)
TooLarge == Error(413)
TooManyHeaders == Error(431)
Unsupported == Error(501)

-----------------------------------------------------------------------------
(* head.rs                                                                 *)

MutNoBackUp(scanned, buf) == Min({scanned, Len(buf)})

\* Where the search for the end of the head resumes.
Resume(scanned, buf) ==
    IF scanned > 3 THEN Min({scanned - 3, Len(buf)}) ELSE 0

\* find_head_end: just past the first CRLFCRLF at or after the cursor; 0, none.
FindHeadEnd(buf, scanned) ==
    LET from == Resume(scanned, buf)
        ends == {i \in from + 4..Len(buf) : SubSeq(buf, i - 3, i) = End}
    IN IF ends = {} THEN 0 ELSE Min(ends)

\* split_line, over the whole block: the lines CRLFs separate.
SplitLines(block) ==
    LET cuts == {i \in 1..Len(block) - 1 : SubSeq(block, i, i + 1) = CrLf}
        nth(k) == CHOOSE i \in cuts : Cardinality({j \in cuts : j < i}) = k - 1
        n == Cardinality(cuts)
    IN [k \in 1..n + 1 |->
            SubSeq(block, IF k = 1 THEN 1 ELSE nth(k - 1) + 2,
                          IF k = n + 1 THEN Len(block) ELSE nth(k) - 1)]

\* parse_fields, up to the first line refused.
FieldsVerdict(lines) ==
    LET full == {i \in 1..Len(lines) : lines[i] # <<>>}
        bad == {i \in full : Len(lines[i]) # 1 \/ lines[i][1] \notin Fields}
        over == {i \in full : Cardinality({j \in full : j < i}) >= MaxHeaders}
    IN IF bad \cup over = {} THEN More
       ELSE IF Min(bad \cup over) \in bad THEN Malformed ELSE TooManyHeaders

\* A whole head of len tokens: what it says or what is wrong with it.  Two Hosts
\* in a request are two answers to which site it is for (reject_duplicate_host).
HeadVerdict(start, rest, verdict, len, starts) ==
    LET hosts == {i \in 1..Len(rest) : \E h \in Hosts : rest[i] = <<h>>}
    IN IF start \in FutureLines THEN Unsupported
       ELSE IF start \notin DOMAIN starts THEN Malformed
       ELSE IF verdict.st = "error" THEN verdict
       ELSE IF start \in DOMAIN RequestLines /\ Cardinality(hosts) > 1 THEN Malformed
       ELSE [st |-> "head", status |-> 0, len |-> len, start |-> start,
             fields |-> FlattenSeq(rest)]

LinesVerdict(lines, len, starts) ==
    HeadVerdict(lines[1], Tail(lines), FieldsVerdict(Tail(lines)), len, starts)

HeadUpTo(end, buf, starts) ==
    IF end = 0 THEN IF Len(buf) > MaxHead THEN TooLarge ELSE More
    ELSE IF end > MaxHead THEN TooLarge
    ELSE LinesVerdict(SplitLines(SubSeq(buf, 1, end - 4)), end, starts)

\* parse_request_head and parse_response_head: a head, or what is wrong with it,
\* or that it is not all there.
ParseHead(buf, scanned, starts) == HeadUpTo(FindHeadEnd(buf, scanned), buf, starts)

-----------------------------------------------------------------------------
(* mod.rs: framing and persistence                                         *)

Listed(table, fields) == SelectSeq(fields, LAMBDA f : f \in DOMAIN table)

\* transfer_encoding_is_chunked, on the first line that is not just `chunked`.
CodingVerdict(fields) ==
    LET lines == Listed(Codings, fields)
        odd == {i \in 1..Len(lines) : Codings[lines[i]] # <<"chunked">>}
    IN IF lines = <<>> THEN [st |-> "plain", status |-> 0]
       ELSE IF odd = {} THEN [st |-> "chunked", status |-> 0]
       ELSE IF Codings[lines[Min(odd)]] = <<>> THEN Malformed ELSE Unsupported

\* content_length: every value listed, which must be one number.
LengthVerdict(fields) ==
    LET lines == Listed(Lengths, fields)
        values == UNION {Lengths[lines[i]] : i \in 1..Len(lines)}
    IN IF values = {} THEN [st |-> "none", status |-> 0, n |-> 0]
       ELSE IF Nan \in values \/ Cardinality(values) > 1 THEN Malformed
       ELSE [st |-> "some", status |-> 0, n |-> Min(values)]

Framing(kind, n) == [st |-> kind, status |-> 0, n |-> n]

\* Both at once are two answers to where the body ends.
FramingVerdict(coding, length, none) ==
    IF coding.st = "error" THEN coding
    ELSE IF length.st = "error" THEN length
    ELSE IF coding.st = "chunked" /\ length.st = "some" THEN Malformed
    ELSE IF coding.st = "chunked" THEN Framing("chunked", 0)
    ELSE IF length.st = "none" THEN none
    ELSE IF length.n = 0 THEN Framing("empty", 0)
    ELSE Framing("length", length.n)

BodyFraming(fields, none) ==
    FramingVerdict(CodingVerdict(fields), LengthVerdict(fields), none)

RequestFraming(h) == BodyFraming(h.fields, Framing("empty", 0))

ResponseFraming(h, wasHead) ==
    IF wasHead \/ StatusLines[h.start].code < 200
       \/ StatusLines[h.start].code \in {204, 304}
    THEN Framing("empty", 0)
    ELSE BodyFraming(h.fields, Framing("until close", 0))

OptionsOf(fields) == UNION {Options[f] : f \in Range(Listed(Options, fields))}

\* keep_alive
KeepAlive(fields, version) ==
    /\ "close" \notin OptionsOf(fields)
    /\ version = "1.1" \/ "keep-alive" \in OptionsOf(fields)

-----------------------------------------------------------------------------
(* chunked.rs: ChunkScan                                                   *)

Hex == ("0" :> 0) @@ ("1" :> 1) @@ ("2" :> 2)

\* v is the size read so far, or the data still to come.
Scan(st, v) == [st |-> st, v |-> v, digits |-> 0, line |-> 0, trailer |-> 0]
NewScan == Scan("Size", 0)

At(s, st) == [s EXCEPT !.st = st]
Closed(s, b, by, st) == At(s, IF b = by THEN st ELSE "bad")

\* Digits of a chunk size.
StepSize(s, b) ==
    IF s.line = MaxChunkLine THEN At(s, "bad")
    ELSE LET t == [s EXCEPT !.line = @ + 1]
         IN IF b = CR /\ s.digits > 0 THEN At(t, "SizeLf")
            ELSE IF b = ";" /\ s.digits > 0 THEN At(t, "Ext")
            ELSE IF b \notin DOMAIN Hex \/ s.digits >= MaxDigits THEN At(t, "bad")
            ELSE [t EXCEPT !.v = @ * 16 + Hex[b], !.digits = @ + 1]

\* A trailer section of any length.
MutTrailerUnbounded(s, b, max, count, crTo, to) ==
    At(s, IF b = LF THEN "bad" ELSE IF b = CR THEN crTo ELSE to)

\* Text of a chunk extension, and of a trailer field.
StepText(s, b, max, count, crTo, to) ==
    At(s, IF count > max \/ b = LF THEN "bad" ELSE IF b = CR THEN crTo ELSE to)

\* ChunkScan::step, and the bulk path for chunk data, one token at a time.
ScanStep(s, b) ==
    CASE s.st = "Size" -> StepSize(s, b)
      [] s.st = "Ext" ->
           LET t == [s EXCEPT !.line = @ + 1]
           IN StepText(t, b, MaxChunkLine, t.line, "SizeLf", "Ext")
      [] s.st = "SizeLf" ->
           Closed([s EXCEPT !.line = 0, !.digits = 0], b, LF,
                  IF s.v = 0 THEN "TrailerStart" ELSE "Data")
      [] s.st = "Data" ->
           IF s.v = 1 THEN [s EXCEPT !.v = 0, !.st = "DataCr"] ELSE [s EXCEPT !.v = @ - 1]
      [] s.st = "DataCr" -> Closed(s, b, CR, "DataLf")
      [] s.st = "DataLf" -> Closed(s, b, LF, "Size")
      [] s.st \in {"TrailerStart", "TrailerLine"} ->
           LET t == [s EXCEPT !.trailer = @ + 1]
           IN StepText(t, b, MaxTrailer, t.trailer,
                       IF s.st = "TrailerStart" THEN "FinalLf" ELSE "TrailerCr",
                       "TrailerLine")
      [] s.st = "TrailerCr" -> Closed(s, b, LF, "TrailerStart")
      [] s.st = "FinalLf" -> Closed(s, b, LF, "Done")

Over(s) == s.st \in {"Done", "bad"}

\* ChunkScan::scan: the state after the input, and how much of it was taken.
ScanAll(s, input) ==
    FoldLeft(LAMBDA acc, b : IF Over(acc.s) THEN acc
                             ELSE [s |-> ScanStep(acc.s, b), n |-> acc.n + 1],
             [s |-> s, n |-> 0], input)

-----------------------------------------------------------------------------
(* worker.rs: Body                                                         *)

NewBody(framing) == [kind |-> framing.st, left |-> framing.n, scan |-> NewScan]
NoBody == NewBody(Framing("empty", 0))

\* A chunked body after a scan r of its input.
Scanned(body, r) ==
    [n |-> r.n, bad |-> r.s.st = "bad",
     body |-> IF r.s.st = "Done" THEN NoBody ELSE [body EXCEPT !.scan = r.s]]

\* Body::take: how many tokens belong to the body, and the body after them.
Take(body, input) ==
    CASE body.kind = "empty" -> [n |-> 0, body |-> body, bad |-> FALSE]
      [] body.kind = "length" ->
           LET n == Min({body.left, Len(input)})
           IN [n |-> n, bad |-> FALSE,
               body |-> IF n = body.left THEN NoBody ELSE [body EXCEPT !.left = @ - n]]
      [] body.kind = "chunked" -> Scanned(body, ScanAll(body.scan, input))
      [] body.kind = "until close" -> [n |-> Len(input), body |-> body, bad |-> FALSE]

Finished(body) == body.kind = "empty"

-----------------------------------------------------------------------------
(* headers.rs: what crosses the hop                                        *)

\* A Connection option and the field lines of its name: hop-by-hop ones or not.
Names == ("x-hop" :> {"X-Hop"}) @@ ("upgrade" :> {"Upgrade"})
         @@ ("keep-alive" :> {"Keep-Alive"}) @@ ("content-length" :> DOMAIN Lengths)
         @@ ("host" :> Hosts)

\* connection_lists: every field some Connection line lists.
ConnectionNames(fields) ==
    UNION {Names[o] : o \in OptionsOf(fields) \cap DOMAIN Names}

Crosses(f, fields) ==
    /\ f \notin DOMAIN Options \cup DOMAIN Codings \cup HopByHop
    /\ f \notin ConnectionNames(fields)

\* upgrade_protocol
WantsUpgrade(fields) ==
    "upgrade" \in OptionsOf(fields) /\ "Upgrade" \in Range(fields)

\* Field lines, each with its CRLF, after a start line and before the blank.
Serialise(start, fields) ==
    start \o CrLf \o FlattenSeq([i \in 1..Len(fields) |-> <<fields[i]>> \o CrLf]) \o CrLf


Restated(framing) == IF framing.st = "chunked" THEN <<"chunked">> ELSE <<>>

\* The start line upstream: always 1.1, whatever the client spoke.
UpstreamLine(start) == IF start = <<"GET/1.0">> THEN <<"GET">> ELSE start

\* write_upstream_request
WriteUpstream(h, framing) ==
    Serialise(UpstreamLine(h.start),
        SelectSeq(h.fields, LAMBDA f : Crosses(f, h.fields) /\ f \notin SelfWritten)
        \o (IF "Host" \in Range(h.fields) THEN <<>> ELSE <<"Host">>)
        \o <<"X-Forwarded-For", "X-Real-IP", "X-Forwarded-Proto">>
        \o (IF "Host" \in Range(h.fields) THEN <<"X-Forwarded-Host">> ELSE <<>>)
        \o <<"X-Request-Id">>
        \o Restated(framing)
        \o (IF WantsUpgrade(h.fields) THEN <<"upgrade", "Upgrade">> ELSE <<>>))

\* write_downstream_response, of a response that switches no protocols.
WriteDownstream(h, framing, close) ==
    Serialise(IF h.start = <<"200/1.0">> THEN <<"200">> ELSE h.start,
        SelectSeq(h.fields, LAMBDA f : Crosses(f, h.fields))
        \o Restated(framing)
        \o (IF close THEN <<"close">> ELSE <<>>))

=============================================================================
