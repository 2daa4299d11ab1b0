------------------------------ MODULE Preface -------------------------------
(***************************************************************************)
(* The PROXY protocol header, versions 1 and 2, that a load balancer puts  *)
(* in front of a connection, as the pure function over a prefix of the     *)
(* stream that both engines call.  Tokens are as in Codec: a token is a    *)
(* byte or a run of bytes no decision falls inside.                        *)
(***************************************************************************)
EXTENDS Naturals, Sequences, FiniteSetsExt, TLC

CONSTANTS
    V1MaxLen,   \* V1_MAX_LEN
    InetLen,    \* V2_INET_LEN
    Inet6Len,   \* V2_INET6_LEN
    Nobody      \* the header names no client: the socket's own peer stands

ASSUME PrefaceAssumption ==
    /\ V1MaxLen \in Nat /\ V1MaxLen > 3
    /\ InetLen \in Nat \ {0} /\ Inet6Len \in Nat \ {0}

Cr == "CR"
Lf == "LF"

\* V1_SIGNATURE and V2_SIGNATURE.
V1Signature == <<"P", "ROXY">>
V2Signature == <<Cr, Lf, "QUIT">>

\* What follows a v1 signature, and the client it names.
V1Lines == (<<"TCP4 a">> :> "a") @@ (<<"TCP6 b">> :> "b") @@ (<<"UNKNOWN">> :> Nobody)
           @@ (<<"UNKNOWN", "text">> :> Nobody)

\* The bytes of a v2 preamble after the signature, and an address block's first.
Commands == ("PROXY" :> "PROXY") @@ ("LOCAL" :> "LOCAL")
Widths == ("+0" :> 0) @@ ("+1" :> 1) @@ ("+2" :> 2) @@ ("+3" :> 3)
Addresses == {"a", "b"}

Incomplete == [st |-> "more", consumed |-> 0, client |-> Nobody]
Refused == [st |-> "error", consumed |-> 0, client |-> Nobody]
Complete(n, client) == [st |-> "done", consumed |-> n, client |-> client]

\* signature_matches: as far as the input goes it is the signature's.
Agrees(input, sig) ==
    \A i \in 1..Min({Len(input), Len(sig)}) : input[i] = sig[i]

\* parse_v1.  The CR must leave room for its LF inside V1MaxLen.
ParseV1(input) ==
    LET searchable == Min({Len(input), V1MaxLen - 1})
        crs == {i \in 1..searchable : input[i] = Cr}
        cr == Min(crs)
        line == SubSeq(input, Len(V1Signature) + 1, cr - 1)
    IN IF ~Agrees(input, V1Signature) THEN Refused
       ELSE IF Len(input) < Len(V1Signature) THEN Incomplete
       ELSE IF crs = {} THEN IF searchable = V1MaxLen - 1 THEN Refused ELSE Incomplete
       ELSE IF Len(input) = cr THEN Incomplete
       ELSE IF input[cr + 1] # Lf \/ line \notin DOMAIN V1Lines THEN Refused
       ELSE Complete(cr + 1, V1Lines[line])

\* proxied_address: the client a PROXY command's address block names.
Proxied(family, body, n) ==
    LET block(w) == IF Len(body) < w THEN Refused ELSE Complete(n, body[1])
    IN CASE family \in {"UNSPEC", "UNIX"} -> Complete(n, Nobody)
         [] family = "INET" -> block(InetLen)
         [] family = "INET6" -> block(Inet6Len)
         [] OTHER -> Refused

\* parse_v2: signature, version and command, family, length, block and TLVs.
ParseV2(input) ==
    LET s == Len(V2Signature)
        n == s + 3 + Widths[input[s + 3]]
    IN IF ~Agrees(input, V2Signature) THEN Refused
       ELSE IF Len(input) <= s THEN Incomplete
       ELSE IF input[s + 1] \notin DOMAIN Commands THEN Refused
       ELSE IF Len(input) < s + 3 THEN Incomplete
       ELSE IF Len(input) < n THEN Incomplete
       ELSE IF input[s + 1] = "LOCAL" THEN Complete(n, Nobody)
       ELSE Proxied(input[s + 2], SubSeq(input, s + 4, n), n)

\* parse: the first byte tells the versions apart.
Parse(input) ==
    IF input = <<>> THEN Incomplete
    ELSE CASE input[1] = Cr -> ParseV2(input)
           [] input[1] = "P" -> ParseV1(input)
           [] OTHER -> Refused

=============================================================================
