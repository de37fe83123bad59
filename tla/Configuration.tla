---------------------------- MODULE Configuration ----------------------------
(***************************************************************************)
(* The configuration's dialect of TOML: the parser of the C++ code, what   *)
(* it makes of a tunnel's fields, and the reader and writer of the page's  *)
(* form editor.                                                            *)
(*                                                                         *)
(* A text is a sequence of lines.  A line is blank, a section, a field, or *)
(* junk; it is plain if the page, whose regular expressions allow for no   *)
(* comment behind it, can read it as well.  The texts of values are        *)
(* elements of a set; what a conversion makes of them is in tables.        *)
(***************************************************************************)
EXTENDS Integers, Sequences, SequencesExt

CONSTANTS
    Aliases,        \* what isAlias() accepts
    Values,         \* texts of values, of keys, and of command line arguments
    Number,         \* what std::stoul and std::stoi read at the start of some of them
    Digits,         \* those that consist of digits
    Decimal,        \* numbers to their decimal texts
    Endpoint,       \* those with a colon: to <<what is before it, what follows>>
    Addresses,      \* those that inet_pton() takes for an IPv4 address
    Interface,      \* those that resolveInterfaceIpv4() resolves: to the address
    Rewritten,      \* those that the form writes in another way: to what it writes
    MaxPort,        \* UINT16_MAX
    SizeModulus,    \* 2^64: std::stoul and std::stoull wrap a negative number
    Empty,          \* the text without a character
    Refused         \* no result

ClientFields == {"mode", "udp_interface", "udp_group", "tcp_server"}
ServerFields == {"mode", "udp_interface", "tcp_listen_port"}
AllowedFields == ClientFields \cup ServerFields \cup {"udp_destination"}

ASSUME ConfigurationAssumption ==
    /\ AllowedFields \cup {"version", "1", Empty, "client", "server", "replicate_client"} \subseteq Values
    /\ Empty \notin {"client", "server", "replicate_client", "--config", "--verbose"}
    /\ Empty \notin Aliases \cup Addresses
    /\ Empty \notin DOMAIN Number \cup DOMAIN Endpoint \cup DOMAIN Interface
    /\ {"client", "server", "replicate_client"} \cap Digits = {} /\ "1" \in Digits
    /\ Digits \subseteq DOMAIN Number /\ DOMAIN Number \subseteq Values
    /\ \A v \in DOMAIN Number : Number[v] \in Int
    /\ \A v \in Digits : Number[v] >= 0
    /\ \A v \in DOMAIN Endpoint : v \in Values /\ Endpoint[v] \in Values \X Values
    /\ DOMAIN Endpoint \cap Digits = {}
    /\ \A n \in DOMAIN Decimal : Decimal[n] \in Digits /\ Number[Decimal[n]] = n
    /\ \A v \in DOMAIN Interface : v \in Values /\ Interface[v] \in Addresses
    /\ \A a \in Addresses : a \in DOMAIN Interface /\ Interface[a] = a
    /\ {MaxPort, SizeModulus} \subseteq Nat /\ MaxPort < SizeModulus

-----------------------------------------------------------------------------
(* Values *)

\* What std::stoul makes of a number that is not beyond its range.
Unsigned(v) == IF Number[v] < 0 THEN Number[v] + SizeModulus ELSE Number[v]

\* parsePort(): what follows the digits is not looked at.
ValidPort(v) == v \in DOMAIN Number /\ Unsigned(v) \in 1 .. MaxPort

\* parseEndpoint()
ValidEndpoint(v) ==
    v \in DOMAIN Endpoint /\ Endpoint[v][1] \in Addresses /\ ValidPort(Endpoint[v][2])

Address(v) == Endpoint[v][1]
Port(v) == Unsigned(Endpoint[v][2])

\* parseValue() does not throw: in quotes, or digits.
Readable(line) == line.quoted \/ line.value \in Digits

-----------------------------------------------------------------------------
(* DatagramTunneler::Config *)

Config == [
    is_client_ : BOOLEAN, use_clt_grp_ : BOOLEAN,
    udp_iface_reference_ : Values, udp_iface_ip_ : Values,
    tcp_srv_ip_ : Values, tcp_srv_port_ : 0 .. MaxPort, udp_dst_ip_ : Values, udp_dst_port_ : 0 .. MaxPort]

\* No result is none of the results.
ASSUME RefusedAssumption ==
    /\ Refused \notin Config
    /\ \A aliases \in SUBSET Aliases : Refused \notin [aliases -> Config]

NoConfig == [
    is_client_ |-> FALSE, use_clt_grp_ |-> FALSE,
    udp_iface_reference_ |-> Empty, udp_iface_ip_ |-> Empty,
    tcp_srv_ip_ |-> Empty, tcp_srv_port_ |-> 0, udp_dst_ip_ |-> Empty, udp_dst_port_ |-> 0]

Complete(config) ==
    /\ config.udp_iface_ip_ # Empty /\ config.tcp_srv_port_ # 0
    /\ config.is_client_ => config.tcp_srv_ip_ # Empty
    /\ config.is_client_ \/ ~config.use_clt_grp_ => config.udp_dst_ip_ # Empty /\ config.udp_dst_port_ # 0

\* requiredField() does not throw.
Has(fields, name) == name \in DOMAIN fields /\ fields[name] # Empty

\* Mutant: a client's field in a server is passed over.
ClientFieldsPass(fields) == {}
ForeignToServer(fields) == DOMAIN fields \cap {"tcp_server", "udp_group"}

WithInterface(fields) == [NoConfig EXCEPT
    !.udp_iface_reference_ = fields["udp_interface"],
    !.udp_iface_ip_ = Interface[fields["udp_interface"]]]

MakeClient(fields) ==
    IF /\ DOMAIN fields \cap {"tcp_listen_port", "udp_destination"} = {}
       /\ Has(fields, "tcp_server") /\ Has(fields, "udp_group")
       /\ ValidEndpoint(fields["tcp_server"]) /\ ValidEndpoint(fields["udp_group"])
    THEN [WithInterface(fields) EXCEPT
            !.is_client_ = TRUE,
            !.tcp_srv_ip_ = Address(fields["tcp_server"]),
            !.tcp_srv_port_ = Port(fields["tcp_server"]),
            !.udp_dst_ip_ = Address(fields["udp_group"]),
            !.udp_dst_port_ = Port(fields["udp_group"])]
    ELSE Refused

\* Without a destination the server publishes on the client's group.
Replicates(fields) ==
    "udp_destination" \notin DOMAIN fields \/ fields["udp_destination"] = "replicate_client"

MakeServer(fields) ==
    IF /\ ForeignToServer(fields) = {}
       /\ Has(fields, "tcp_listen_port") /\ ValidPort(fields["tcp_listen_port"])
       /\ Replicates(fields) \/ ValidEndpoint(fields["udp_destination"])
    THEN LET server == [WithInterface(fields) EXCEPT
                !.tcp_srv_port_ = Unsigned(fields["tcp_listen_port"])]
         IN  IF Replicates(fields) THEN [server EXCEPT !.use_clt_grp_ = TRUE]
             ELSE [server EXCEPT !.udp_dst_ip_ = Address(fields["udp_destination"]),
                                 !.udp_dst_port_ = Port(fields["udp_destination"])]
    ELSE Refused

MakeTunnel(fields) ==
    LET tunnel ==
            IF \/ ~(DOMAIN fields \subseteq AllowedFields)
               \/ ~Has(fields, "udp_interface") \/ ~Has(fields, "mode")
               \/ fields["udp_interface"] \notin DOMAIN Interface
            THEN Refused
            ELSE CASE fields["mode"] = "client" -> MakeClient(fields)
                   [] fields["mode"] = "server" -> MakeServer(fields)
                   [] OTHER -> Refused
    IN  IF tunnel # Refused /\ Complete(tunnel) THEN tunnel ELSE Refused

-----------------------------------------------------------------------------
(* parseConfiguration() *)

Line == [kind : {"blank", "section", "field", "junk"}, key : Values, value : Values,
         quoted : BOOLEAN, plain : BOOLEAN]

\* The map with one more key.
With(map, key, value) == [k \in {key} \cup DOMAIN map |-> IF k = key THEN value ELSE map[k]]

Unread == [version |-> 0, tunnel_fields |-> <<>>, active_alias |-> Empty, refused |-> FALSE]
Refuse(parser) == [parser EXCEPT !.refused = TRUE]

TakeSection(parser, alias) ==
    IF alias \in Aliases \ DOMAIN parser.tunnel_fields
    THEN [parser EXCEPT !.active_alias = alias, !.tunnel_fields = With(@, alias, <<>>)]
    ELSE Refuse(parser)

TakeVersion(parser, line) ==
    IF line.key = "version" /\ parser.version = 0 /\ line.value = "1"
    THEN [parser EXCEPT !.version = 1]
    ELSE Refuse(parser)

\* Mutant: the last assignment counts, as on the page.
MayAssignAgain(fields, key) == TRUE
MayAssign(fields, key) == key \notin DOMAIN fields

TakeField(parser, line) ==
    IF MayAssign(parser.tunnel_fields[parser.active_alias], line.key)
    THEN [parser EXCEPT !.tunnel_fields[parser.active_alias] = With(@, line.key, line.value)]
    ELSE Refuse(parser)

TakeLine(parser, line) ==
    CASE parser.refused \/ line.kind = "blank" -> parser
      [] ~parser.refused /\ line.kind = "section" -> TakeSection(parser, line.key)
      [] ~parser.refused /\ line.kind = "field" /\ Readable(line) ->
            IF parser.active_alias = Empty THEN TakeVersion(parser, line) ELSE TakeField(parser, line)
      [] OTHER -> Refuse(parser)

ParseConfiguration(text) ==
    LET parser == FoldLeft(TakeLine, Unread, text)
        fields == parser.tunnel_fields
    IN  IF \/ parser.refused \/ parser.version # 1
           \/ \E alias \in DOMAIN fields : MakeTunnel(fields[alias]) = Refused
        THEN Refused
        ELSE [alias \in DOMAIN fields |-> MakeTunnel(fields[alias])]

Section(alias) == [kind |-> "section", key |-> alias, value |-> Empty, quoted |-> FALSE, plain |-> TRUE]
Assignment(key, value, quoted) ==
    [kind |-> "field", key |-> key, value |-> value, quoted |-> quoted, plain |-> TRUE]
Version == Assignment("version", "1", FALSE)
\* What is left of a line that was not written to its end.
Torn == [kind |-> "junk", key |-> Empty, value |-> Empty, quoted |-> FALSE, plain |-> FALSE]
BlankLine == [kind |-> "blank", key |-> Empty, value |-> Empty, quoted |-> FALSE, plain |-> TRUE]

-----------------------------------------------------------------------------
(* The form editor *)

NoFields == [field \in AllowedFields |-> Empty]

\* A port is shown if Number() can read it: not if it is in quotes.
ShownValue(line) ==
    CASE line.key = "tcp_listen_port" ->
            IF line.quoted \/ line.value \notin Digits THEN Empty ELSE Decimal[Number[line.value]]
      [] OTHER -> line.value

PageReads(page, line) ==
    CASE line.kind = "blank" \/ line = Version \/ page = Refused -> page
      [] page # Refused /\ line.kind = "section" /\ line.plain ->
            Append(page, [alias |-> line.key, fields |-> NoFields])
      [] /\ page # Refused /\ line.kind = "field" /\ line.plain /\ page # <<>>
         /\ line.key \in AllowedFields /\ (line.quoted \/ line.key = "tcp_listen_port") ->
            [page EXCEPT ![Len(page)].fields[line.key] = ShownValue(line)]
      [] OTHER -> Refused

\* parseTomlConfiguration()
Form(text) == FoldLeft(PageReads, <<>>, text)

\* tomlValue(), and the escapes that tomlString() resolved.
Quoted(key, value) == Assignment(key, IF value \in DOMAIN Rewritten THEN Rewritten[value] ELSE value, TRUE)

LooksLikeEndpoint(v) == v \in DOMAIN Endpoint /\ Endpoint[v][1] # Empty /\ Endpoint[v][2] \in Digits

\* validateFormTunnels()
FormIsValid(form) ==
    /\ \A i, j \in DOMAIN form : form[i].alias = form[j].alias => i = j
    /\ \A i \in DOMAIN form : LET fields == form[i].fields IN
        /\ fields["mode"] \in {"client", "server"} /\ fields["udp_interface"] # Empty
        /\ fields["mode"] = "client" =>
              LooksLikeEndpoint(fields["udp_group"]) /\ LooksLikeEndpoint(fields["tcp_server"])
        /\ fields["mode"] = "server" =>
              /\ fields["tcp_listen_port"] \in Digits
              /\ \/ fields["udp_destination"] \in {Empty, "replicate_client"}
                 \/ LooksLikeEndpoint(fields["udp_destination"])

\* Mutant: a destination left out is written as an empty one.
WritesEmpty(fields) == TRUE
WritesDestination(fields) == fields["udp_destination"] # Empty

TunnelLines(tunnel) ==
    LET fields == tunnel.fields
        Entry(key) == Quoted(key, fields[key])
    IN  <<BlankLine, Section(tunnel.alias), Entry("mode"), Entry("udp_interface")>> \o
        IF fields["mode"] = "client" THEN <<Entry("udp_group"), Entry("tcp_server")>>
        ELSE <<Assignment("tcp_listen_port", fields["tcp_listen_port"], FALSE)>> \o
             IF WritesDestination(fields) THEN <<Entry("udp_destination")>> ELSE <<>>

AddTunnel(lines, tunnel) == lines \o TunnelLines(tunnel)

\* serializeFormTunnels()
Serialized(form) == FoldLeft(AddTunnel, <<Version>>, form)
=============================================================================
