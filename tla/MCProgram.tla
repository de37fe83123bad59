------------------------------ MODULE MCProgram ------------------------------
(***************************************************************************)
(* Texts are good ones and what becomes of them by one change of a line;   *)
(* invocations are good ones and what becomes of them by one change of an  *)
(* argument.                                                               *)
(***************************************************************************)
EXTENDS Program

MCEmpty == ""
MCNumber ==
    ("0" :> 0) @@ ("1" :> 1) @@ ("5" :> 5) @@ ("10" :> 10) @@ ("5000" :> 5000) @@ ("5000x" :> 5000) @@ ("70000" :> 70000)
    @@ ("999999" :> 999999) @@ ("-1" :> -1) @@ ("-995000" :> -995000) @@ ("10.0.0.1" :> 10) @@ ("10.0.0.1:5000" :> 10)
MCDigits == {"0", "1", "5", "10", "5000", "70000", "999999"}
MCDecimal == (1 :> "1") @@ (5 :> "5") @@ (10 :> "10") @@ (5000 :> "5000") @@ (0 :> "0") @@ (70000 :> "70000") @@ (999999 :> "999999")
MCEndpoint ==
    ("10.0.0.1:5000" :> <<"10.0.0.1", "5000">>) @@ ("10.0.0.1:5" :> <<"10.0.0.1", "5">>)
    @@ ("10.0.0.1:1" :> <<"10.0.0.1", "1">>) @@ ("10.0.0.1:10" :> <<"10.0.0.1", "10">>)
    @@ ("10.0.0.1:5000x" :> <<"10.0.0.1", "5000x">>) @@ ("10.0.0.1:0" :> <<"10.0.0.1", "0">>)
    @@ ("10.0.0.1:-995000" :> <<"10.0.0.1", "-995000">>)
    @@ ("10.0.0.1:" :> <<"10.0.0.1", "">>) @@ ("host:5000" :> <<"host", "5000">>) @@ (":5000" :> <<"", "5000">>)
MCAddresses == {"10.0.0.1"}
MCInterface == ("10.0.0.1" :> "10.0.0.1") @@ ("en0" :> "10.0.0.1") @@ ("Wi Fi" :> "10.0.0.1") @@ ("a\\b" :> "10.0.0.1")
    @@ ("a;b" :> "10.0.0.1") @@ ("$a" :> "10.0.0.1")
MCRewritten == "a\\b" :> "a\\\\b"
MCSpecial ==
    ("Wi Fi" :> [words |-> <<"Wi", "Fi">>, ends |-> FALSE]) @@ ("a\\b" :> [words |-> <<"ab">>, ends |-> FALSE])
    @@ ("a;b" :> [words |-> <<"a">>, ends |-> TRUE]) @@ ("$a" :> [words |-> <<>>, ends |-> FALSE])
MCShorter == ("5000" :> {"5"}) @@ ("10" :> {"1"})
MCDashed == {"--client", "--server", "-i", "-t", "-u", "-j", "-x", "-1", "-995000", "--port", "--version", "-V"}
MCOptions == MCDashed \cup {"--config", "--verbose", "--interval-ms", "--count", "--payload-prefix"}
MCWords == {"", "client", "server", "replicate_client", "a\\\\b", "Wi", "Fi", "ab", "host", "a", "b", "serve", "run", "list",
    "show", "validate", "path", "init", "edit", "config", "tunnel", "producer", "control", "p",
    "version", "c d", "x", "mode", "udp_interface", "udp_group", "tcp_server", "tcp_listen_port", "udp_destination"}
MCValues == MCWords \cup MCOptions \cup DOMAIN MCNumber \cup DOMAIN MCEndpoint \cup DOMAIN MCInterface

Field(key, value) == Assignment(key, value, TRUE)
Listens(port) == Assignment("tcp_listen_port", port, FALSE)

Client == <<Section("a"), Field("mode", "client"), Field("udp_interface", "en0"),
            Field("udp_group", "10.0.0.1:5000"), Field("tcp_server", "10.0.0.1:5")>>
Server == <<Section("b"), Field("mode", "server"), Field("udp_interface", "10.0.0.1"),
            Listens("5000"), Field("udp_destination", "10.0.0.1:5000")>>
Replica == <<Section("b"), Listens("5000"), Field("udp_destination", "replicate_client"),
             Field("udp_interface", "Wi Fi"), Field("mode", "server")>>
MCSample == <<Version, BlankLine>> \o Client \o <<BlankLine>> \o SubSeq(Server, 1, 4)

Good == {MCSample, <<Version>> \o Server \o Client, <<Version>> \o Client \o Replica}

Lines ==
    {Version, BlankLine, Assignment("version", "1", TRUE), Assignment("version", "0", FALSE),
     [BlankLine EXCEPT !.kind = "junk"], Section("a"), Section("b"), Section("c d"),
     [Section("b") EXCEPT !.plain = FALSE], [Version EXCEPT !.plain = FALSE]}
    \cup {Field("mode", v) : v \in {"client", "server", "x", ""}}
    \cup {Field("udp_interface", v) : v \in DOMAIN MCInterface \cup {"", "x"}}
    \cup {Field(k, v) : k \in {"udp_group", "tcp_server", "udp_destination"},
                        v \in DOMAIN MCEndpoint \cup {"", "replicate_client", "10.0.0.1"}}
    \cup {Assignment("tcp_listen_port", v, q) : v \in DOMAIN MCNumber \cup {""}, q \in BOOLEAN}
    \cup {Field("x", "1"), Assignment("mode", "client", FALSE)}

Named == {<<"tunnel", "run", "a">>, <<"tunnel", "run", "b", "--verbose">>, <<"tunnel", "show", "b">>,
    <<"tunnel", "validate">>, <<"tunnel", "list">>, <<"config", "edit">>, <<"config", "init">>, <<"config", "path">>,
    <<"control", "serve", "--port", "5000">>,
    <<"producer", "a", "--count", "5", "--interval-ms", "1", "--payload-prefix", "p">>}
DirectOnes == {<<"--client", "-i", "en0", "-t", "host:5000", "-u", "10.0.0.1:5000">>,
    <<"--server", "-i", "10.0.0.1", "-t", "5000", "-u", "10.0.0.1:5000", "--verbose">>, <<"--version">>}

Arguments == MCOptions \cup DOMAIN MCEndpoint \cup {"", "a", "b", "run", "0", "5000x", "70000", "999999", "-1", "-995000"}

\* A few lines whose changes are made twice.
FewLines == {Section("a"), Section("b"), Field("mode", "client"), Field("udp_destination", "replicate_client"),
    Field("tcp_server", "10.0.0.1:5"), Version}

Changed(s, elements) ==
    {s} \cup {ReplaceAt(s, i, e) : i \in 1 .. Len(s), e \in elements}
        \cup {InsertAt(s, i, e) : i \in 1 .. Len(s) + 1, e \in elements}
        \cup {RemoveAt(s, i) : i \in 1 .. Len(s)}

Twice(s, elements) == UNION {Changed(t, elements) : t \in Changed(s, elements)}

Texts == UNION {Changed(s, Lines) : s \in Good} \cup Twice(<<Version>> \o Server, FewLines)

MCInvocations ==
    [argv : {<<"tunnel", "run", "b">>}, file : Texts]
    \cup [argv : UNION {Changed(s, Arguments) : s \in Named \cup DirectOnes}, file : {MCSample, NoFile}]

MCEdits == Good \cup {<<>>}
=============================================================================
