----------------------------- MODULE CommandLine -----------------------------
(***************************************************************************)
(* What the program makes of its arguments: the commands' options, each a  *)
(* fold over the arguments, the direct invocation without a configuration  *)
(* file, and the direct command that is shown for a tunnel of the file.    *)
(* An argument is a value; option names are values too.                    *)
(***************************************************************************)
EXTENDS Configuration

CONSTANTS
    Dashed,         \* the arguments that begin with a dash
    MaxInt,         \* INT_MAX
    MaxInterval,    \* UINT_MAX
    NoOption,       \* no option waits for its argument
    Special         \* texts that a shell does not take as they are: to what it makes of them

DirectOptions == {"--client", "--server", "-i", "-t", "-u"}

\* A shell makes some arguments of a special text, and may take it for the end of
\* the command.  An address with a port is a text, and not a special one.
ASSUME CommandLineAssumption ==
    /\ {MaxInt, MaxInterval} \subseteq Nat
    /\ MaxPort < MaxInt /\ MaxInt < SizeModulus /\ MaxInterval < SizeModulus
    /\ NoOption \notin Values /\ DirectOptions \cup {"--config", "--verbose"} \subseteq Values
    /\ \A v \in DOMAIN Number : Unsigned(v) \in 1 .. MaxPort => Unsigned(v) \in DOMAIN Decimal
    /\ DOMAIN Special \subseteq Values /\ DOMAIN Special \cap (DirectOptions \cup Digits) = {}
    /\ \A v \in DOMAIN Special : Special[v] \in [words : Seq(Values), ends : BOOLEAN]
    /\ \A a \in Addresses, p \in DOMAIN Decimal : p \in 1 .. MaxPort =>
            \E v \in DOMAIN Endpoint : Endpoint[v] = <<a, Decimal[p]>>
    /\ \A v \in DOMAIN Endpoint : v \in DOMAIN Special =>
            Endpoint[v][1] \notin Addresses \/ Endpoint[v][2] \notin Digits

\* An option that has an argument waits for it in "option", and must get it.
Complies(parsed) == IF parsed # Refused /\ parsed.option # NoOption THEN Refused ELSE parsed

-----------------------------------------------------------------------------
(* The commands' options *)

\* parsePositiveSize(): the whole text, not zero; a minus sign wraps.
Size(v) ==
    IF v \in DOMAIN Number /\ (v \in Digits \/ Number[v] < 0)
       /\ Number[v] \in (1 - SizeModulus) .. (SizeModulus - 1)
    THEN Unsigned(v) ELSE 0

NoArguments == [option |-> NoOption, positional |-> <<>>, verbose_output |-> FALSE, allow_verbose |-> FALSE]

\* Mutant: it is accepted, and forgotten.
Quiet(parsed) == parsed
Verbose(parsed) == [parsed EXCEPT !.verbose_output = TRUE]

TakeCommandArgument(parsed, argument) ==
    CASE parsed = Refused -> Refused
      [] parsed # Refused /\ parsed.option # NoOption -> [parsed EXCEPT !.option = NoOption]
      [] parsed # Refused /\ parsed.option = NoOption ->
            CASE argument = "--config" -> [parsed EXCEPT !.option = argument]
              [] argument = "--verbose" ->
                    IF parsed.allow_verbose THEN Verbose(parsed) ELSE Refused
              [] OTHER -> [parsed EXCEPT !.positional = Append(@, argument)]

\* parseCommandArguments()
CommandArguments(arguments, allow_verbose) ==
    Complies(FoldLeft(TakeCommandArgument, [NoArguments EXCEPT !.allow_verbose = allow_verbose], arguments))

\* ProducerCommand, with the options' defaults; without a count it is endless.
ProducerDefaults == [option |-> NoOption, alias |-> Empty, interval_ms |-> 1000, count |-> 0,
                     payload_prefix |-> "Dummy datagram", verbose_output |-> FALSE]

ProducerOption(parsed, argument) ==
    CASE parsed.option = "--interval-ms" ->
            IF Size(argument) \in 1 .. MaxInterval
            THEN [parsed EXCEPT !.interval_ms = Size(argument), !.option = NoOption] ELSE Refused
      [] parsed.option = "--count" ->
            IF Size(argument) # 0 THEN [parsed EXCEPT !.count = Size(argument), !.option = NoOption] ELSE Refused
      [] parsed.option = "--payload-prefix" -> [parsed EXCEPT !.payload_prefix = argument, !.option = NoOption]
      [] parsed.option = "--config" -> [parsed EXCEPT !.option = NoOption]

TakeProducerArgument(parsed, argument) ==
    CASE parsed = Refused -> Refused
      [] parsed # Refused /\ parsed.option # NoOption -> ProducerOption(parsed, argument)
      [] parsed # Refused /\ parsed.option = NoOption ->
            CASE argument \in {"--config", "--interval-ms", "--count", "--payload-prefix"} ->
                    [parsed EXCEPT !.option = argument]
              [] argument = "--verbose" -> Verbose(parsed)
              [] argument \in Dashed \/ parsed.alias # Empty -> Refused
              [] OTHER -> [parsed EXCEPT !.alias = argument]

\* parseProducerCommand()
ProducerCommand(arguments) ==
    LET parsed == Complies(FoldLeft(TakeProducerArgument, ProducerDefaults, arguments))
    IN  IF parsed # Refused /\ parsed.alias = Empty THEN Refused ELSE parsed

TakeControlArgument(parsed, argument) ==
    CASE parsed = Refused -> Refused
      [] parsed # Refused /\ parsed.option = "--port" ->
            IF Size(argument) \in 1 .. MaxPort
            THEN [parsed EXCEPT !.port = Size(argument), !.option = NoOption] ELSE Refused
      [] parsed # Refused /\ parsed.option = "--config" -> [parsed EXCEPT !.option = NoOption]
      [] OTHER -> IF argument \in {"--config", "--port"}
                  THEN [parsed EXCEPT !.option = argument] ELSE Refused

\* parseControlCommand()
ControlCommand(arguments) ==
    IF arguments = <<>> \/ Head(arguments) # "serve" THEN Refused
    ELSE Complies(FoldLeft(TakeControlArgument, [option |-> NoOption, port |-> 8765], Tail(arguments)))

-----------------------------------------------------------------------------
(* The direct invocation *)

\* How parseCommandLineConfig() may end but by returning.
Died == "DEATH"             \* exit(1)
Aborted == "terminate"      \* an exception nobody catches

\* getPort(): a number beyond an int is out_of_range, which nobody catches.
PortOutcome(v) ==
    CASE v \in DOMAIN Number /\ Number[v] \in 0 .. MaxPort -> "valid"
      [] v \in DOMAIN Number /\ Number[v] \notin -MaxInt - 1 .. MaxInt -> Aborted
      [] OTHER -> Died

\* getIpAndPort(): the address is not looked at.
EndpointOutcome(v) ==
    IF v \in DOMAIN Endpoint /\ Endpoint[v][2] # Empty THEN PortOutcome(Endpoint[v][2]) ELSE Died

Unparsed == [end |-> "none", option |-> NoOption, side_selected |-> FALSE, verbose_output_ |-> FALSE,
             config |-> [NoConfig EXCEPT !.use_clt_grp_ = TRUE]]

Set(parsed, outcome, config) ==
    IF outcome = "valid" THEN [parsed EXCEPT !.config = config, !.option = NoOption]
    ELSE [parsed EXCEPT !.end = outcome]

\* Mutant: -u leaves the destination to the client's group.
StillReplicates(config) == config.use_clt_grp_
AfterGroup(config) == FALSE

WithArgument(parsed, argument) ==
    LET config == parsed.config
    IN  CASE parsed.option \in {"--udpiface", "-i"} ->
                Set(parsed, "valid", [config EXCEPT !.udp_iface_ip_ = argument, !.udp_iface_reference_ = argument])
          [] parsed.option \in {"--tcpiface", "-j"} -> Set(parsed, "valid", config)
          [] parsed.option \in {"--udpgroup", "-u"} ->
                Set(parsed, EndpointOutcome(argument),
                    [config EXCEPT !.use_clt_grp_ = AfterGroup(config),
                                   !.udp_dst_ip_ = Address(argument), !.udp_dst_port_ = Port(argument)])
          [] parsed.option \in {"--tcpsrv", "-t"} /\ config.is_client_ ->
                Set(parsed, EndpointOutcome(argument),
                    [config EXCEPT !.tcp_srv_ip_ = Address(argument), !.tcp_srv_port_ = Port(argument)])
          [] parsed.option \in {"--tcpsrv", "-t"} /\ ~config.is_client_ ->
                Set(parsed, PortOutcome(argument), [config EXCEPT !.tcp_srv_port_ = Number[argument]])
          [] OTHER -> [parsed EXCEPT !.end = Died]

TakeArgument(parsed, argument) ==
    CASE parsed.end # "none" -> parsed
      [] parsed.end = "none" /\ parsed.option # NoOption -> WithArgument(parsed, argument)
      [] parsed.end = "none" /\ parsed.option = NoOption ->
            CASE argument \in {"--server", "-s", "--client", "-c"} ->
                    [parsed EXCEPT !.side_selected = TRUE, !.config.is_client_ = argument \in {"--client", "-c"}]
              [] argument = "--verbose" -> [parsed EXCEPT !.verbose_output_ = TRUE]
              [] OTHER -> IF parsed.side_selected THEN [parsed EXCEPT !.option = argument]
                          ELSE [parsed EXCEPT !.end = Died]

\* parseCommandLineConfig()
ParseCommandLineConfig(arguments) ==
    LET parsed == FoldLeft(TakeArgument, Unparsed, arguments)
    IN  CASE parsed.end # "none" -> parsed
          [] parsed.end = "none" /\ parsed.option # NoOption -> [parsed EXCEPT !.end = Died]
          [] parsed.end = "none" /\ parsed.option = NoOption ->
                IF Complete(parsed.config) THEN parsed ELSE [parsed EXCEPT !.end = "usage"]

\* DatagramTunneler's constructor: the interface is looked up, by name or address.
Constructed(config) ==
    IF config.udp_iface_ip_ \in DOMAIN Interface
    THEN [config EXCEPT !.udp_iface_ip_ = Interface[@]]
    ELSE Refused

-----------------------------------------------------------------------------
(* The direct command shown for a tunnel *)

EndpointText(address, port) ==
    CHOOSE v \in DOMAIN Endpoint : Endpoint[v] = <<address, Decimal[port]>>

\* directCommand(), without the name of the program
DirectCommand(config) ==
    IF config.is_client_
    THEN <<"--client", "-i", config.udp_iface_reference_,
           "-t", EndpointText(config.tcp_srv_ip_, config.tcp_srv_port_),
           "-u", EndpointText(config.udp_dst_ip_, config.udp_dst_port_)>>
    ELSE <<"--server", "-i", config.udp_iface_reference_, "-t", Decimal[config.tcp_srv_port_]>> \o
         IF config.use_clt_grp_ THEN <<>>
         ELSE <<"-u", EndpointText(config.udp_dst_ip_, config.udp_dst_port_)>>

\* What a shell makes of it, which is nothing after the end of the command: the
\* interface's name is not quoted.
TypeWord(typed, word) ==
    IF typed.ends THEN typed
    ELSE IF word \in DOMAIN Special
    THEN [words |-> typed.words \o Special[word].words, ends |-> Special[word].ends]
    ELSE [typed EXCEPT !.words = Append(@, word)]

Typed(command) == FoldLeft(TypeWord, [words |-> <<>>, ends |-> FALSE], command).words
=============================================================================
