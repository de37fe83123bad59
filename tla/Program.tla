------------------------------- MODULE Program -------------------------------
(***************************************************************************)
(* main(): what one invocation of the program does, with the file that its *)
(* configuration is in.  A command reads its options, loads the file, and  *)
(* sets the display; only then is a tunnel made and run.  Which file it is *)
(* (--config, or the default path) is left out.                            *)
(***************************************************************************)
EXTENDS CommandLine, FiniteSets

CONSTANTS
    Invocations,    \* what is run: records of the arguments and the file
    Edits,          \* what an editor may leave in the file
    Sample,         \* what writeSampleConfiguration() writes
    NoFile,
    Shorter         \* some digits to what may be left of them if a file is cut off

ASSUME ProgramAssumption ==
    /\ \A i \in Invocations : i.argv \in Seq(Values) /\ i.file \in Seq(Line) \cup {NoFile}
    /\ Edits \subseteq Seq(Line) /\ Sample \in Seq(Line)
    /\ DOMAIN Shorter \subseteq Digits /\ \A v \in DOMAIN Shorter : Shorter[v] \subseteq Digits

VARIABLES
    argv,           \* the arguments
    file,           \* the configuration file
    terminal,       \* whether the output is one
    pc,
    config,         \* the tunnel to run or to produce for, Refused before
    verbose,        \* verbose_ of the output
    compact,        \* enabled_ of the output
    code            \* how the program ended

vars == <<argv, file, terminal, pc, config, verbose, compact, code>>
environment == <<argv, terminal>>
display == <<verbose, compact>>

Init ==
    /\ \E i \in Invocations : argv = i.argv /\ file = i.file
    /\ terminal \in BOOLEAN
    /\ pc = "main" /\ config = Refused
    /\ verbose = FALSE /\ compact = FALSE
    /\ code = "none"

Goes(where) == pc' = where /\ UNCHANGED <<environment, code>>
Exit(how) == pc' = "exited" /\ code' = how /\ UNCHANGED environment
ExitIf(good) == Exit(IF good THEN "0" ELSE "1")
Nothing == UNCHANGED <<file, config, display>>

\* configureVerboseOutput() and configureCompactOutput(), which enables only,
\* and only on a terminal
Configure(requested) ==
    /\ verbose' = requested
    /\ compact' = (compact \/ (~requested /\ terminal))

\* ControlService(): the file's tunnels.
Loaded == IF file = NoFile THEN Refused ELSE ParseConfiguration(file)
Finds(alias) == Loaded # Refused /\ alias \in DOMAIN Loaded

Names(command) == argv # <<>> /\ Head(argv) = command
Is(command) == pc = "main" /\ Names(command)
Commands == {"config", "tunnel", "producer", "control"}
AsksVersion == argv \in {<<"--version">>, <<"-V">>}

PrintVersion == pc = "main" /\ AsksVersion /\ Exit("0") /\ Nothing

-----------------------------------------------------------------------------
(* config: writing the sample, and the editor *)

ConfigArguments == CommandArguments(Tail(argv), FALSE)
ConfigIs(subcommand) ==
    Is("config") /\ ConfigArguments # Refused /\ ConfigArguments.positional = <<subcommand>>

ConfigPath == ConfigIs("path") /\ Exit("0") /\ Nothing

\* What may be left of a text that was not written to its end and can be read:
\* its first lines, the last of them with fewer digits than it had.
Cuts(text) ==
    {SubSeq(text, 1, k) : k \in DOMAIN text} \cup
    UNION {{[SubSeq(text, 1, k) EXCEPT ![k].value = v] : v \in Shorter[text[k].value]} :
        k \in {i \in DOMAIN text : text[i].value \in DOMAIN Shorter /\ ~text[i].quoted}}

\* An existing file is not touched; an absent one may be impossible to create.
\* The stream is not looked at again: where a disk is full, less is written.
WriteSample ==
    /\ file = NoFile
    /\ \/ file' \in {Sample, <<>>} \cup Cuts(Sample)
       \/ \E text \in {<<>>} \cup Cuts(Sample) : file' = Append(text, Torn)
    /\ UNCHANGED <<config, display>>

ConfigInit ==
    /\ ConfigIs("init")
    /\ \/ WriteSample /\ Exit("0")
       \/ Exit("1") /\ Nothing

ConfigEdit ==
    /\ ConfigIs("edit")
    /\ \/ file # NoFile /\ Goes("editor") /\ Nothing
       \/ WriteSample /\ Goes("editor")
       \/ file = NoFile /\ Exit("1") /\ Nothing

\* The editor has the file for as long as it likes, and its exit status counts.
Edit ==
    /\ pc = "editor"
    /\ file' \in Edits \cup {file}
    /\ \E good \in BOOLEAN : ExitIf(good)
    /\ UNCHANGED <<config, display>>

ConfigRefused ==
    /\ Is("config") /\ \A subcommand \in {"path", "init", "edit"} : ~ConfigIs(subcommand)
    /\ Exit("1") /\ Nothing

-----------------------------------------------------------------------------
(* tunnel, producer, control: what is loaded, and what is then run *)

TunnelArguments == CommandArguments(Tail(argv), TRUE)

\* The subcommand and how many aliases follow it; --verbose is for run only.
TunnelIs(subcommand, aliases) ==
    /\ Is("tunnel") /\ TunnelArguments # Refused
    /\ Len(TunnelArguments.positional) = 1 + aliases
    /\ TunnelArguments.positional[1] = subcommand
    /\ TunnelArguments.verbose_output => subcommand = "run"

TunnelAlias == TunnelArguments.positional[2]

TunnelList ==
    /\ TunnelIs("list", 0) \/ TunnelIs("validate", 0)
    /\ ExitIf(Loaded # Refused) /\ Nothing

TunnelShow ==
    /\ TunnelIs("show", 1) \/ TunnelIs("validate", 1)
    /\ ExitIf(Finds(TunnelAlias)) /\ Nothing

TunnelRun ==
    /\ TunnelIs("run", 1) /\ Finds(TunnelAlias)
    /\ config' = Loaded[TunnelAlias]
    /\ Configure(TunnelArguments.verbose_output)
    /\ Goes("construct") /\ UNCHANGED file

TunnelRefused ==
    /\ Is("tunnel")
    /\ \A subcommand \in {"list", "validate"} : ~TunnelIs(subcommand, 0)
    /\ \A subcommand \in {"show", "validate"} : ~TunnelIs(subcommand, 1)
    /\ ~(TunnelIs("run", 1) /\ Finds(TunnelAlias))
    /\ Exit("1") /\ Nothing

Producer == ProducerCommand(Tail(argv))
ProducerNamesClient == Producer # Refused /\ Finds(Producer.alias) /\ Loaded[Producer.alias].is_client_

RunProducer ==
    /\ Is("producer") /\ ProducerNamesClient
    /\ config' = Loaded[Producer.alias]
    /\ Configure(Producer.verbose_output)
    /\ IF Producer.payload_prefix # Empty THEN Goes("producing") ELSE Exit("1")
    /\ UNCHANGED file

ProducerRefused == Is("producer") /\ ~ProducerNamesClient /\ Exit("1") /\ Nothing

\* The port may be taken.
RunControl ==
    /\ Is("control")
    /\ \/ ControlCommand(Tail(argv)) # Refused /\ Loaded # Refused /\ Goes("serving")
       \/ Exit("1")
    /\ Nothing

-----------------------------------------------------------------------------
(* The direct invocation *)

\* Mutant: the display is set before --verbose is looked for.
ScansNothing(arguments) == FALSE
\* Any --verbose, be it an option or the argument of one.
ScansVerbose(arguments) == \E i \in DOMAIN arguments : arguments[i] = "--verbose"

Scan ==
    /\ pc = "main" /\ ~AsksVersion
    /\ \A command \in Commands : ~Is(command)
    /\ Configure(ScansVerbose(argv))
    /\ Goes("direct") /\ UNCHANGED <<file, config>>

Direct ==
    /\ pc = "direct"
    /\ LET parsed == ParseCommandLineConfig(argv)
       IN  \/ /\ parsed.end = "none"
              /\ config' = parsed.config
              /\ Configure(parsed.verbose_output_)
              /\ Goes("construct") /\ UNCHANGED file
           \/ /\ parsed.end # "none"
              /\ Exit(IF parsed.end = Aborted THEN Aborted ELSE "1") /\ Nothing

-----------------------------------------------------------------------------
\* The constructor, which also sets up the sockets: that may fail.
Construct ==
    /\ pc = "construct"
    /\ \/ /\ Constructed(config) # Refused
          /\ config' = Constructed(config)
          /\ Goes("running") /\ UNCHANGED <<file, display>>
       \/ Exit("1") /\ Nothing

RunEnds ==
    /\ pc \in {"running", "producing"}
    /\ \E good \in BOOLEAN : ExitIf(good)
    /\ Nothing

Next ==
    \/ PrintVersion
    \/ ConfigPath \/ ConfigInit \/ ConfigEdit \/ Edit \/ ConfigRefused
    \/ TunnelList \/ TunnelShow \/ TunnelRun \/ TunnelRefused
    \/ RunProducer \/ ProducerRefused \/ RunControl
    \/ Scan \/ Direct \/ Construct \/ RunEnds

Spec == Init /\ [][Next]_vars

-----------------------------------------------------------------------------
(* Properties *)

\* Every variable has its type.
TypeOK ==
    /\ terminal \in BOOLEAN /\ verbose \in BOOLEAN /\ compact \in BOOLEAN
    /\ pc \in {"main", "editor", "direct", "construct", "running", "producing", "serving", "exited"}
    /\ code \in {"none", "0", "1", Aborted}
    /\ (code = "none") = (pc # "exited")

Sections(text) == {i \in DOMAIN text : text[i].kind = "section"}
\* The fields between a section and the next one, or before the first one (0).
FieldsOf(text, section) ==
    {i \in DOMAIN text :
        /\ text[i].kind = "field" /\ i > section
        /\ \A s \in Sections(text) : s > section => i < s}

\* What a good section is, by its keys and the values they have.
GoodSection(text, fields) ==
    LET keys == {text[i].key : i \in fields}
        ValueOf(key) == text[CHOOSE i \in fields : text[i].key = key].value
    IN  /\ \A i, j \in fields : text[i].key = text[j].key => i = j
        /\ "udp_interface" \in keys /\ ValueOf("udp_interface") \in DOMAIN Interface
        /\ \/ /\ keys = ClientFields /\ ValueOf("mode") = "client"
              /\ ValidEndpoint(ValueOf("udp_group")) /\ ValidEndpoint(ValueOf("tcp_server"))
           \/ /\ keys \in {ServerFields, ServerFields \cup {"udp_destination"}}
              /\ ValueOf("mode") = "server" /\ ValidPort(ValueOf("tcp_listen_port"))
              /\ "udp_destination" \in keys =>
                    \/ ValueOf("udp_destination") = "replicate_client"
                    \/ ValidEndpoint(ValueOf("udp_destination"))

\* What a good text is, without a word on how it is read.
GoodText(text) ==
    /\ \A i \in DOMAIN text : text[i].kind # "junk" /\ (text[i].kind = "field" => Readable(text[i]))
    /\ \A s \in Sections(text) : text[s].key \in Aliases
    /\ \A s, t \in Sections(text) : text[s].key = text[t].key => s = t
    /\ \E i \in DOMAIN text : FieldsOf(text, 0) = {i} /\ text[i].key = "version" /\ text[i].value = "1"
    /\ \A s \in Sections(text) : GoodSection(text, FieldsOf(text, s))

\* The parser, a loop with the state of the section it is in, accepts exactly the
\* good texts, and finds in them exactly the tunnels that have a section.
AcceptsExactly ==
    file # NoFile =>
        /\ (Loaded # Refused) = GoodText(file)
        /\ Loaded # Refused => DOMAIN Loaded = {file[s].key : s \in Sections(file)}

\* Where a text is cut off (a disk that was full, a file that is being copied),
\* what is left may be taken for a configuration.  Then every client in it is as
\* it was, and so is every server but the last, which may have lost its destination,
\* and publish on the client's group, or digits of its port.  (An interface whose
\* name is a number could lose digits as well.)
OnlyTheLastServerIsCut ==
    file # NoFile /\ Loaded # Refused =>
        \A cut \in Cuts(file) : ParseConfiguration(cut) # Refused =>
            LET left == ParseConfiguration(cut)
            IN  \A alias \in DOMAIN left :
                    \/ left[alias] = Loaded[alias]
                    \/ Loaded[alias].udp_iface_reference_ \in Digits
                    \/ /\ ~left[alias].is_client_
                       /\ \/ left[alias].use_clt_grp_
                          \/ left[alias] = [Loaded[alias] EXCEPT !.tcp_srv_port_ = left[alias].tcp_srv_port_]
                       /\ \A s \in Sections(cut) : cut[s].key # alias =>
                            \E t \in Sections(cut) : cut[t].key = alias /\ s < t

\* A configuration that the page's form can show, saved as it is shown, is the
\* same configuration, unless a value has a lone backslash, which the form doubles.
FormKeepsConfiguration ==
    file # NoFile /\ Loaded # Refused =>
        LET form == Form(file)
        IN  form # Refused /\ FormIsValid(form) =>
                LET saved == ParseConfiguration(Serialized(form))
                IN  \/ saved = Loaded
                    \/ \E i \in DOMAIN file : file[i].value \in DOMAIN Rewritten

\* "Equivalent direct command": typed into a shell, the command shown for a tunnel
\* makes the same tunnel, unless the interface's name is one that the shell does not take as it is.
EquivalentCommand ==
    Loaded # Refused =>
        \A alias \in DOMAIN Loaded : Loaded[alias].udp_iface_reference_ \notin DOMAIN Special =>
            LET parsed == ParseCommandLineConfig(Typed(DirectCommand(Loaded[alias])))
            IN  /\ parsed.end = "none"
                /\ Constructed(parsed.config) = Constructed(Loaded[alias])

\* Argument i belongs to the option before it: an odd number of those that take
\* an argument come one after the other up to there.
Belongs(arguments, takers, i) ==
    \E j \in 0 .. i - 1 :
        /\ j > 0 => arguments[j] \notin takers
        /\ \A k \in j + 1 .. i - 1 : arguments[k] \in takers
        /\ (i - 1 - j) % 2 = 1

Gives(arguments, takers) ==
    \E i \in DOMAIN arguments : arguments[i] = "--verbose" /\ ~Belongs(arguments, takers, i)

CommandTakers == {"--config"}
ProducerTakers == {"--config", "--interval-ms", "--count", "--payload-prefix"}
DirectTakers == Values \ {"--server", "-s", "--client", "-c", "--verbose"}

\* --verbose is given, as an option and not as the argument of one.
VerboseGiven ==
    \/ Names("tunnel") /\ Gives(Tail(argv), CommandTakers)
    \/ Names("producer") /\ Gives(Tail(argv), ProducerTakers)
    \/ ~Names("tunnel") /\ ~Names("producer") /\ Gives(argv, DirectTakers)

\* "On an interactive terminal, tunnels and the built-in producer use the compact
\* live display by default", and not with --verbose: no parser passes over it,
\* none takes an option's argument for it, and though the display cannot be
\* disabled once it is on, and two parsers set it, it never is when --verbose is given.
VerboseIsHeeded ==
    pc \in {"construct", "running", "producing"} =>
        /\ verbose = VerboseGiven
        /\ compact = (terminal /\ ~VerboseGiven)
=============================================================================
