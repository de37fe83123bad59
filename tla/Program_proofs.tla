--------------------------- MODULE Program_proofs ---------------------------
(***************************************************************************)
(* What one invocation of the program makes of its arguments and of its    *)
(* file, for every text and every command line.  The parsers are folds:    *)
(* what they return is shown by induction along the sequence.              *)
(***************************************************************************)
EXTENDS Program, TLAPS

-----------------------------------------------------------------------------
(* Which arguments belong to an option. *)

\* The options that take an argument begin after j, up to k.
Start(arguments, takers, k, j) ==
    /\ j \in 0 .. k
    /\ j > 0 => arguments[j] \notin takers
    /\ \A i \in j + 1 .. k : arguments[i] \in takers

\* An option waits for its argument after an odd number of them.
Waiting(arguments, takers, k, option) ==
    \E j \in 0 .. k : Start(arguments, takers, k, j) /\ (option # NoOption <=> (k - j) % 2 = 1)

\* A --verbose has been given among the first arguments.
GivesBy(arguments, takers, k) ==
    \E i \in 1 .. k : arguments[i] = "--verbose" /\ ~Belongs(arguments, takers, i)

LEMMA WaitingBelongs ==
    ASSUME NEW arguments, NEW takers, NEW k \in Nat, NEW option, Waiting(arguments, takers, k, option)
    PROVE  Belongs(arguments, takers, k + 1) <=> option # NoOption
<1>1. PICK j \in 0 .. k : Start(arguments, takers, k, j) /\ (option # NoOption <=> (k - j) % 2 = 1)
  BY DEF Waiting
<1>2. ASSUME NEW l \in 0 .. k, Start(arguments, takers, k, l) PROVE l = j
  BY <1>1, <1>2 DEF Start
<1>3. Belongs(arguments, takers, k + 1) <=> \E l \in 0 .. k : Start(arguments, takers, k, l) /\ (k - l) % 2 = 1
  BY DEF Belongs, Start
<1>. QED
  BY <1>1, <1>2, <1>3

\* One more argument: an option begins to wait if none does and it takes an argument.
LEMMA WaitingStep ==
    ASSUME NEW arguments, NEW takers, NEW k \in Nat, NEW option, NEW next, Waiting(arguments, takers, k, option),
           next # NoOption <=> option = NoOption /\ arguments[k + 1] \in takers
    PROVE  Waiting(arguments, takers, k + 1, next)
<1>1. PICK j \in 0 .. k : Start(arguments, takers, k, j) /\ (option # NoOption <=> (k - j) % 2 = 1)
  BY DEF Waiting
<1>2. CASE arguments[k + 1] \in takers
  <2>1. Start(arguments, takers, k + 1, j)
    BY <1>1, <1>2 DEF Start
  <2>2. (k + 1 - j) % 2 = 1 <=> ~((k - j) % 2 = 1)
    BY <1>1
  <2>. QED
    BY <1>1, <1>2, <2>1, <2>2 DEF Waiting
<1>3. CASE arguments[k + 1] \notin takers
  <2>1. Start(arguments, takers, k + 1, k + 1) /\ ~((k + 1 - (k + 1)) % 2 = 1)
    BY <1>3 DEF Start
  <2>. QED
    BY <1>3, <2>1 DEF Waiting
<1>. QED
  BY <1>2, <1>3

LEMMA WaitingFirst ==
    ASSUME NEW arguments, NEW takers
    PROVE  Waiting(arguments, takers, 0, NoOption) /\ ~GivesBy(arguments, takers, 0)
<1>1. Start(arguments, takers, 0, 0) /\ ~((0 - 0) % 2 = 1)
  BY DEF Start
<1>. QED
  BY <1>1 DEF Waiting, GivesBy

LEMMA GivesStep ==
    ASSUME NEW arguments, NEW takers, NEW k \in Nat, NEW option, Waiting(arguments, takers, k, option)
    PROVE  GivesBy(arguments, takers, k + 1)
             <=> GivesBy(arguments, takers, k) \/ (option = NoOption /\ arguments[k + 1] = "--verbose")
<1>1. Belongs(arguments, takers, k + 1) <=> option # NoOption
  BY WaitingBelongs
<1>2. 1 .. k + 1 = 1 .. k \cup {k + 1}
  OBVIOUS
<1>. QED
  BY <1>1, <1>2 DEF GivesBy

-----------------------------------------------------------------------------
(* The parsers find a --verbose exactly where one is given. *)

\* Where a parser is after k arguments.
Heeds(arguments, takers, k, option, verbose_output) ==
    /\ Waiting(arguments, takers, k, option)
    /\ verbose_output \in BOOLEAN
    /\ verbose_output <=> GivesBy(arguments, takers, k)

LEMMA HeedsStep ==
    ASSUME NEW arguments, NEW takers, NEW k \in Nat, NEW option, NEW next, NEW given, NEW more \in BOOLEAN,
           Heeds(arguments, takers, k, option, given),
           next # NoOption <=> option = NoOption /\ arguments[k + 1] \in takers,
           more <=> given \/ (option = NoOption /\ arguments[k + 1] = "--verbose")
    PROVE  Heeds(arguments, takers, k + 1, next, more)
<1>1. Waiting(arguments, takers, k + 1, next)
  BY WaitingStep DEF Heeds
<1>2. GivesBy(arguments, takers, k + 1)
        <=> GivesBy(arguments, takers, k) \/ (option = NoOption /\ arguments[k + 1] = "--verbose")
  BY GivesStep DEF Heeds
<1>. QED
  BY <1>1, <1>2 DEF Heeds

CommandVerbose(arguments, k, parsed) ==
    parsed # Refused =>
        /\ DOMAIN parsed = DOMAIN NoArguments
        /\ Heeds(arguments, CommandTakers, k, parsed.option, parsed.verbose_output)

Commanded == INSTANCE SequenceFolds WITH Op <- TakeCommandArgument, Inv <- CommandVerbose

LEMMA CommandStep ==
    ASSUME NEW arguments \in Seq(Values), NEW k \in 0 .. Len(arguments) - 1, NEW parsed,
           CommandVerbose(arguments, k, parsed)
    PROVE  CommandVerbose(arguments, k + 1, TakeCommandArgument(parsed, arguments[k + 1]))
<1>. DEFINE argument == arguments[k + 1]
            next == TakeCommandArgument(parsed, argument)
<1>1. argument \in Values /\ k \in Nat /\ NoOption \notin Values
  BY CommandLineAssumption
<1>. SUFFICES ASSUME parsed # Refused, next # Refused
              PROVE  CommandVerbose(arguments, k + 1, next)
  BY DEF CommandVerbose, TakeCommandArgument
<1>2. /\ DOMAIN parsed = DOMAIN NoArguments /\ parsed.verbose_output \in BOOLEAN
      /\ Heeds(arguments, CommandTakers, k, parsed.option, parsed.verbose_output)
  BY DEF CommandVerbose, Heeds
<1>. HIDE DEF argument
<1>3. /\ DOMAIN next = DOMAIN NoArguments /\ next.verbose_output \in BOOLEAN
      /\ next.option # NoOption <=> parsed.option = NoOption /\ argument \in CommandTakers
      /\ next.verbose_output <=> parsed.verbose_output \/ (parsed.option = NoOption /\ argument = "--verbose")
  BY <1>1, <1>2 DEF TakeCommandArgument, NoArguments, CommandTakers, Verbose
<1>. HIDE DEF next
<1>4. Heeds(arguments, CommandTakers, k + 1, next.option, next.verbose_output)
  BY <1>1, <1>2, <1>3, HeedsStep DEF argument
<1>. QED
  BY <1>3, <1>4 DEF CommandVerbose

LEMMA CommandHeeds ==
    ASSUME NEW arguments \in Seq(Values), NEW allow \in BOOLEAN, CommandArguments(arguments, allow) # Refused
    PROVE  /\ CommandArguments(arguments, allow).verbose_output \in BOOLEAN
           /\ CommandArguments(arguments, allow).verbose_output <=> Gives(arguments, CommandTakers)
<1>. DEFINE start == [NoArguments EXCEPT !.allow_verbose = allow]
            last == Commanded!Result(start, arguments)
<1>1. CommandVerbose(arguments, 0, start)
  BY WaitingFirst DEF CommandVerbose, NoArguments, Heeds
<1>2. CommandVerbose(arguments, Len(arguments), last)
  BY <1>1, CommandStep, Commanded!FoldLeftInduction, DOMAIN arguments = 1 .. Len(arguments), Len(arguments) \in Nat
<1>3. last = FoldLeft(TakeCommandArgument, start, arguments)
  BY DEF Commanded!Result, FoldLeft, Commanded!FoldLeft, MapThenFoldSet, Commanded!MapThenFoldSet, Max, Commanded!Max
<1>. HIDE DEF last, start
<1>4. CommandArguments(arguments, allow) = last /\ last # Refused
  BY <1>3 DEF CommandArguments, Complies, start
<1>5. GivesBy(arguments, CommandTakers, Len(arguments)) <=> Gives(arguments, CommandTakers)
  BY DOMAIN arguments = 1 .. Len(arguments) DEF GivesBy, Gives
<1>. QED
  BY <1>2, <1>4, <1>5 DEF CommandVerbose, Heeds

ProducerVerbose(arguments, k, parsed) ==
    parsed # Refused =>
        /\ DOMAIN parsed = DOMAIN ProducerDefaults
        /\ parsed.option \in {NoOption} \cup ProducerTakers
        /\ Heeds(arguments, ProducerTakers, k, parsed.option, parsed.verbose_output)

Produced == INSTANCE SequenceFolds WITH Op <- TakeProducerArgument, Inv <- ProducerVerbose

LEMMA ProducerStep ==
    ASSUME NEW arguments \in Seq(Values), NEW k \in 0 .. Len(arguments) - 1, NEW parsed,
           ProducerVerbose(arguments, k, parsed)
    PROVE  ProducerVerbose(arguments, k + 1, TakeProducerArgument(parsed, arguments[k + 1]))
<1>. DEFINE argument == arguments[k + 1]
            next == TakeProducerArgument(parsed, argument)
<1>1. argument \in Values /\ k \in Nat /\ NoOption \notin Values
  BY CommandLineAssumption
<1>. SUFFICES ASSUME parsed # Refused, next # Refused
              PROVE  ProducerVerbose(arguments, k + 1, next)
  BY DEF ProducerVerbose, TakeProducerArgument
<1>2. /\ DOMAIN parsed = DOMAIN ProducerDefaults /\ parsed.verbose_output \in BOOLEAN
      /\ parsed.option \in {NoOption} \cup ProducerTakers
      /\ Heeds(arguments, ProducerTakers, k, parsed.option, parsed.verbose_output)
  BY DEF ProducerVerbose, Heeds
<1>. HIDE DEF argument
<1>3. /\ DOMAIN next = DOMAIN ProducerDefaults /\ next.verbose_output \in BOOLEAN
      /\ next.option \in {NoOption} \cup ProducerTakers
      /\ next.option # NoOption <=> parsed.option = NoOption /\ argument \in ProducerTakers
      /\ next.verbose_output <=> parsed.verbose_output \/ (parsed.option = NoOption /\ argument = "--verbose")
  <2>1. CASE parsed.option = NoOption
    <3>1. CASE argument \in ProducerTakers
      <4>1. next = [parsed EXCEPT !.option = argument]
        BY <2>1, <3>1 DEF TakeProducerArgument, ProducerTakers
      <4>. QED
        BY <1>1, <1>2, <2>1, <3>1, <4>1 DEF ProducerTakers, ProducerDefaults
    <3>2. CASE argument = "--verbose"
      <4>1. next = Verbose(parsed)
        BY <2>1, <3>2 DEF TakeProducerArgument
      <4>. QED
        BY <1>1, <1>2, <2>1, <3>2, <4>1 DEF Verbose, ProducerTakers, ProducerDefaults
    <3>3. CASE argument \notin ProducerTakers /\ argument # "--verbose"
      <4>1. next = [parsed EXCEPT !.alias = argument]
        BY <2>1, <3>3 DEF TakeProducerArgument, ProducerTakers
      <4>. QED
        BY <1>2, <2>1, <3>3, <4>1 DEF ProducerDefaults
    <3>. QED
      BY <3>1, <3>2, <3>3
  <2>2. CASE parsed.option # NoOption
    <3>1. next = ProducerOption(parsed, argument)
      BY <2>2 DEF TakeProducerArgument
    <3>2. parsed.option \in ProducerTakers
      BY <1>2, <2>2
    <3>3. /\ DOMAIN next = DOMAIN parsed /\ next.option = NoOption
          /\ next.verbose_output = parsed.verbose_output
      BY <1>2, <3>1, <3>2 DEF ProducerOption, ProducerTakers, ProducerDefaults
    <3>. QED
      BY <1>2, <2>2, <3>3
  <2>. QED
    BY <2>1, <2>2
<1>. HIDE DEF next
<1>4. Heeds(arguments, ProducerTakers, k + 1, next.option, next.verbose_output)
  BY <1>1, <1>2, <1>3, HeedsStep DEF argument
<1>. QED
  BY <1>3, <1>4 DEF ProducerVerbose

LEMMA ProducerHeeds ==
    ASSUME NEW arguments \in Seq(Values), ProducerCommand(arguments) # Refused
    PROVE  /\ ProducerCommand(arguments).verbose_output \in BOOLEAN
           /\ ProducerCommand(arguments).verbose_output <=> Gives(arguments, ProducerTakers)
<1>. DEFINE last == Produced!Result(ProducerDefaults, arguments)
<1>1. ProducerVerbose(arguments, 0, ProducerDefaults)
  BY WaitingFirst DEF ProducerVerbose, ProducerDefaults, Heeds
<1>2. ProducerVerbose(arguments, Len(arguments), last)
  BY <1>1, ProducerStep, Produced!FoldLeftInduction, DOMAIN arguments = 1 .. Len(arguments), Len(arguments) \in Nat
<1>3. last = FoldLeft(TakeProducerArgument, ProducerDefaults, arguments)
  BY DEF Produced!Result, FoldLeft, Produced!FoldLeft, MapThenFoldSet, Produced!MapThenFoldSet, Max, Produced!Max
<1>. HIDE DEF last
<1>4. ProducerCommand(arguments) = last /\ last # Refused
  BY <1>3 DEF ProducerCommand, Complies
<1>5. GivesBy(arguments, ProducerTakers, Len(arguments)) <=> Gives(arguments, ProducerTakers)
  BY DOMAIN arguments = 1 .. Len(arguments) DEF GivesBy, Gives
<1>. QED
  BY <1>2, <1>4, <1>5 DEF ProducerVerbose, Heeds

DirectVerbose(arguments, k, parsed) ==
    /\ DOMAIN parsed = DOMAIN Unparsed
    /\ parsed.verbose_output_ \in BOOLEAN
    /\ parsed.end = "none" => Heeds(arguments, DirectTakers, k, parsed.option, parsed.verbose_output_)

Parsed == INSTANCE SequenceFolds WITH Op <- TakeArgument, Inv <- DirectVerbose

LEMMA DirectStep ==
    ASSUME NEW arguments \in Seq(Values), NEW k \in 0 .. Len(arguments) - 1, NEW parsed,
           DirectVerbose(arguments, k, parsed)
    PROVE  DirectVerbose(arguments, k + 1, TakeArgument(parsed, arguments[k + 1]))
<1>. DEFINE argument == arguments[k + 1]
            next == TakeArgument(parsed, argument)
<1>1. argument \in Values /\ k \in Nat /\ NoOption \notin Values
  BY CommandLineAssumption
<1>2. DOMAIN parsed = DOMAIN Unparsed /\ parsed.verbose_output_ \in BOOLEAN
  BY DEF DirectVerbose
<1>. HIDE DEF argument
<1>3. CASE parsed.end # "none"
  BY <1>2, <1>3 DEF TakeArgument, DirectVerbose
<1>4. CASE parsed.end = "none"
  <2>1. Heeds(arguments, DirectTakers, k, parsed.option, parsed.verbose_output_)
    BY <1>4 DEF DirectVerbose
  <2>2. /\ DOMAIN next = DOMAIN Unparsed /\ next.verbose_output_ \in BOOLEAN
        /\ next.end = "none" =>
             /\ next.option # NoOption <=> parsed.option = NoOption /\ argument \in DirectTakers
             /\ next.verbose_output_ <=> parsed.verbose_output_ \/ (parsed.option = NoOption /\ argument = "--verbose")
    <3>1. CASE parsed.option = NoOption
      BY <1>1, <1>2, <1>4, <3>1 DEF TakeArgument, Unparsed, DirectTakers, Died
    <3>2. CASE parsed.option # NoOption
      <4>1. next = WithArgument(parsed, argument)
        BY <1>4, <3>2 DEF TakeArgument
      <4>2. \A v : PortOutcome(v) # "none" /\ EndpointOutcome(v) # "none"
        BY DEF PortOutcome, EndpointOutcome, Died, Aborted
      <4>3. ASSUME NEW outcome, outcome # "none", NEW c
            PROVE  LET set == Set(parsed, outcome, c) IN
                   /\ DOMAIN set = DOMAIN Unparsed /\ set.verbose_output_ = parsed.verbose_output_
                   /\ set.end = "none" => set.option = NoOption
        BY <1>2, <4>3 DEF Set, Unparsed
      <4>4. LET died == [parsed EXCEPT !.end = Died] IN
            DOMAIN died = DOMAIN Unparsed /\ died.verbose_output_ = parsed.verbose_output_ /\ died.end # "none"
        BY <1>2 DEF Died, Unparsed
      <4>5. /\ DOMAIN next = DOMAIN Unparsed /\ next.verbose_output_ = parsed.verbose_output_
            /\ next.end = "none" => next.option = NoOption
        BY <4>1, <4>2, <4>3, <4>4 DEF WithArgument
      <4>. QED
        BY <1>2, <3>2, <4>5
    <3>. QED
      BY <3>1, <3>2
  <2>. HIDE DEF next
  <2>3. next.end = "none" => Heeds(arguments, DirectTakers, k + 1, next.option, next.verbose_output_)
    BY <1>1, <2>1, <2>2, HeedsStep DEF argument
  <2>. QED
    BY <2>2, <2>3 DEF DirectVerbose, next, argument
<1>. QED
  BY <1>3, <1>4

LEMMA DirectHeeds ==
    ASSUME NEW arguments \in Seq(Values), ParseCommandLineConfig(arguments).end = "none"
    PROVE  /\ ParseCommandLineConfig(arguments).verbose_output_ \in BOOLEAN
           /\ ParseCommandLineConfig(arguments).verbose_output_ <=> Gives(arguments, DirectTakers)
<1>. DEFINE last == Parsed!Result(Unparsed, arguments)
<1>1. DirectVerbose(arguments, 0, Unparsed)
  BY WaitingFirst DEF DirectVerbose, Unparsed, Heeds
<1>2. DirectVerbose(arguments, Len(arguments), last)
  BY <1>1, DirectStep, Parsed!FoldLeftInduction, DOMAIN arguments = 1 .. Len(arguments), Len(arguments) \in Nat
<1>3. last = FoldLeft(TakeArgument, Unparsed, arguments)
  BY DEF Parsed!Result, FoldLeft, Parsed!FoldLeft, MapThenFoldSet, Parsed!MapThenFoldSet, Max, Parsed!Max
<1>. HIDE DEF last
<1>4. ParseCommandLineConfig(arguments) = last /\ last.end = "none"
  BY <1>2, <1>3 DEF ParseCommandLineConfig, DirectVerbose, Unparsed, Died
<1>5. GivesBy(arguments, DirectTakers, Len(arguments)) <=> Gives(arguments, DirectTakers)
  BY DOMAIN arguments = 1 .. Len(arguments) DEF GivesBy, Gives
<1>. QED
  BY <1>2, <1>4, <1>5 DEF DirectVerbose, Heeds

-----------------------------------------------------------------------------
(* The display. *)

\* What is given is a command line, and a text if there is one.
GivenOK == argv \in Seq(Values) /\ file \in Seq(Line) \cup {NoFile}

\* The display while the program makes up its mind about it.
DisplayOK ==
    /\ pc = "main" => ~verbose /\ ~compact
    /\ pc = "direct" =>
         /\ compact <=> terminal /\ ~ScansVerbose(argv)
         /\ ~Names("tunnel") /\ ~Names("producer")
    /\ pc \in {"construct", "running", "producing"} =>
         /\ verbose <=> VerboseGiven
         /\ compact <=> terminal /\ ~VerboseGiven

DisplayInv == TypeOK /\ GivenOK /\ DisplayOK

LEMMA SampleWritten == WriteSample => file' \in Seq(Line)
<1>1. Torn \in Line
  BY ConfigurationAssumption DEF Torn, Line
<1>2. Cuts(Sample) \subseteq Seq(Line)
  <2>1. Sample \in Seq(Line)
    BY ProgramAssumption
  <2>2. ASSUME NEW k \in DOMAIN Sample PROVE SubSeq(Sample, 1, k) \in Seq(Line) /\ k \in DOMAIN SubSeq(Sample, 1, k)
    BY <2>1
  <2>3. ASSUME NEW k \in DOMAIN Sample, NEW v \in Values
        PROVE  [SubSeq(Sample, 1, k) EXCEPT ![k].value = v] \in Seq(Line)
    <3>. DEFINE t == SubSeq(Sample, 1, k)
    <3>1. t \in Seq(Line) /\ k \in DOMAIN t
      BY <2>2
    <3>2. [t[k] EXCEPT !.value = v] \in Line
      BY <3>1 DEF Line
    <3>. HIDE DEF t
    <3>3. [t EXCEPT ![k] = [t[k] EXCEPT !.value = v]] \in Seq(Line)
      BY <3>1, <3>2
    <3>. QED
      BY <3>3 DEF t
  <2>4. \A w \in DOMAIN Shorter : Shorter[w] \subseteq Values
    BY ProgramAssumption, ConfigurationAssumption
  <2>. DEFINE whole == {SubSeq(Sample, 1, k) : k \in DOMAIN Sample}
              positions == {i \in DOMAIN Sample : Sample[i].value \in DOMAIN Shorter /\ ~Sample[i].quoted}
              Less(k) == {[SubSeq(Sample, 1, k) EXCEPT ![k].value = v] : v \in Shorter[Sample[k].value]}
  <2>5. whole \subseteq Seq(Line)
    BY <2>2
  <2>6. \A k \in positions : Less(k) \subseteq Seq(Line)
    BY <2>3, <2>4
  <2>7. Cuts(Sample) = whole \cup UNION {Less(k) : k \in positions}
    BY DEF Cuts
  <2>. HIDE DEF whole, positions, Less
  <2>. QED
    BY <2>5, <2>6, <2>7
<1>3. {Sample, <<>>} \cup Cuts(Sample) \subseteq Seq(Line)
  <2>1. <<>> \in Seq(Line) /\ Sample \in Seq(Line)
    BY ProgramAssumption
  <2>. QED
    BY <1>2, <2>1
<1>4. ASSUME NEW text \in Seq(Line) PROVE Append(text, Torn) \in Seq(Line)
  BY <1>1
<1>. QED
  BY <1>3, <1>4 DEF WriteSample

LEMMA DisplayInit == Init => DisplayInv
BY ProgramAssumption DEF Init, DisplayInv, TypeOK, GivenOK, DisplayOK

LEMMA DisplayStep == DisplayInv /\ [Next]_vars => DisplayInv'
<1>. SUFFICES ASSUME DisplayInv, [Next]_vars PROVE DisplayInv'
  OBVIOUS
<1>. USE DEF DisplayInv
<1>. DEFINE Sets(requested) ==
        /\ verbose' = requested
        /\ compact' = (compact \/ (~requested /\ terminal))
<1>1. CASE UNCHANGED vars
  BY <1>1 DEF vars, TypeOK, GivenOK, DisplayOK, ScansVerbose, VerboseGiven, Names
<1>2. ASSUME \/ PrintVersion \/ ConfigPath \/ ConfigRefused
             \/ TunnelList \/ TunnelShow \/ TunnelRefused \/ ProducerRefused \/ RunEnds
      PROVE  DisplayInv'
  <2>1. UNCHANGED <<argv, terminal, file, verbose, compact>> /\ pc' = "exited" /\ code' \in {"0", "1"}
    BY <1>2 DEF PrintVersion, ConfigPath, ConfigRefused, TunnelList, TunnelShow, TunnelRefused,
        ProducerRefused, RunEnds, Exit, ExitIf, Nothing, environment, display
  <2>. QED
    BY <2>1 DEF TypeOK, GivenOK, DisplayOK
<1>3. ASSUME ConfigInit \/ ConfigEdit \/ Edit
      PROVE  DisplayInv'
  <2>1. /\ UNCHANGED <<argv, terminal, verbose, compact>>
        /\ \/ pc' = "exited" /\ code' \in {"0", "1"}
           \/ pc' = "editor" /\ UNCHANGED code /\ pc = "main"
    BY <1>3 DEF ConfigInit, ConfigEdit, Edit, ConfigIs, Is, WriteSample, Goes, Exit, ExitIf, Nothing, environment, display
  <2>2. file' \in Seq(Line) \cup {NoFile}
    BY <1>3, SampleWritten, ProgramAssumption DEF ConfigInit, ConfigEdit, Edit, Nothing, GivenOK
  <2>. QED
    BY <2>1, <2>2 DEF TypeOK, GivenOK, DisplayOK
<1>4. CASE TunnelRun
  <2>1. Names("tunnel") /\ ~Names("producer") /\ argv # <<>> /\ pc = "main" /\ TunnelArguments # Refused
    BY <1>4 DEF TunnelRun, TunnelIs, Is, Names
  <2>2. TunnelArguments.verbose_output \in BOOLEAN /\ (TunnelArguments.verbose_output <=> VerboseGiven)
    <3>1. Tail(argv) \in Seq(Values)
      BY <2>1 DEF GivenOK
    <3>. QED
      BY <2>1, <3>1, CommandHeeds DEF TunnelArguments, VerboseGiven
  <2>3. /\ UNCHANGED <<argv, terminal, file, code>> /\ pc' = "construct"
        /\ Sets(TunnelArguments.verbose_output)
    BY <1>4 DEF TunnelRun, Configure, Goes, environment
  <2>. QED
    BY <2>1, <2>2, <2>3 DEF TypeOK, GivenOK, DisplayOK, VerboseGiven, Names
<1>5. CASE RunProducer
  <2>1. Names("producer") /\ ~Names("tunnel") /\ argv # <<>> /\ pc = "main" /\ Producer # Refused
    BY <1>5 DEF RunProducer, ProducerNamesClient, Is, Names
  <2>2. Producer.verbose_output \in BOOLEAN /\ (Producer.verbose_output <=> VerboseGiven)
    <3>1. Tail(argv) \in Seq(Values)
      BY <2>1 DEF GivenOK
    <3>. QED
      BY <2>1, <3>1, ProducerHeeds DEF Producer, VerboseGiven
  <2>3. /\ UNCHANGED <<argv, terminal, file>>
        /\ \/ pc' = "producing" /\ UNCHANGED code
           \/ pc' = "exited" /\ code' = "1"
        /\ Sets(Producer.verbose_output)
    BY <1>5 DEF RunProducer, Configure, Goes, Exit, environment
  <2>. QED
    BY <2>1, <2>2, <2>3 DEF TypeOK, GivenOK, DisplayOK, VerboseGiven, Names
<1>6. CASE RunControl
  BY <1>6 DEF RunControl, Is, Goes, Exit, Nothing, environment, display, TypeOK, GivenOK, DisplayOK
<1>7. CASE Scan
  <2>1. /\ pc = "main" /\ UNCHANGED <<argv, terminal, file, code>> /\ pc' = "direct"
        /\ ~Names("tunnel") /\ ~Names("producer")
        /\ Sets(ScansVerbose(argv))
    BY <1>7 DEF Scan, Configure, Goes, environment, Commands, Is
  <2>2. ScansVerbose(argv) \in BOOLEAN
    BY DEF ScansVerbose
  <2>. QED
    BY <2>1, <2>2 DEF TypeOK, GivenOK, DisplayOK, ScansVerbose, Names
<1>8. CASE Direct
  <2>. DEFINE parsed == ParseCommandLineConfig(argv)
  <2>1. parsed.end = "none" =>
          parsed.verbose_output_ \in BOOLEAN /\ (parsed.verbose_output_ <=> Gives(argv, DirectTakers))
    BY DirectHeeds DEF GivenOK
  <2>2. /\ UNCHANGED <<argv, terminal, file>> /\ pc = "direct"
        /\ \/ parsed.end = "none" /\ pc' = "construct" /\ UNCHANGED code /\ Sets(parsed.verbose_output_)
           \/ pc' = "exited" /\ code' \in {"1", Aborted} /\ UNCHANGED <<verbose, compact>>
    BY <1>8 DEF Direct, Configure, Goes, Exit, Nothing, environment, display
  <2>. HIDE DEF parsed
  <2>3. CASE pc' = "exited"
    BY <2>2, <2>3 DEF TypeOK, GivenOK, DisplayOK, Aborted
  <2>4. CASE pc' = "construct"
    <3>1. parsed.verbose_output_ \in BOOLEAN /\ (parsed.verbose_output_ <=> VerboseGiven)
      BY <2>1, <2>2, <2>4 DEF DisplayOK, VerboseGiven
    <3>2. VerboseGiven => ScansVerbose(argv)
      BY <2>2 DEF DisplayOK, VerboseGiven, Gives, ScansVerbose
    <3>3. VerboseGiven' <=> VerboseGiven
      BY <2>2 DEF VerboseGiven, Names
    <3>. QED
      BY <2>2, <2>4, <3>1, <3>2, <3>3 DEF TypeOK, GivenOK, DisplayOK
  <2>. QED
    BY <2>2, <2>3, <2>4
<1>9. CASE Construct
  <2>1. /\ UNCHANGED <<argv, terminal, file, verbose, compact>> /\ pc = "construct"
        /\ \/ pc' = "running" /\ UNCHANGED code
           \/ pc' = "exited" /\ code' = "1"
    BY <1>9 DEF Construct, Goes, Exit, Nothing, environment, display
  <2>. QED
    BY <2>1 DEF TypeOK, GivenOK, DisplayOK, VerboseGiven, Names
<1>. QED
  BY <1>1, <1>2, <1>3, <1>4, <1>5, <1>6, <1>7, <1>8, <1>9 DEF Next

LEMMA DisplayAlways == Spec => []DisplayInv
BY DisplayInit, DisplayStep, PTL DEF Spec

\* Whatever the arguments are, and whichever of the three parsers reads them: when a
\* tunnel or a producer is made, the output is verbose exactly if a --verbose is given
\* as an option, and the display is on exactly on a terminal without one.  That two
\* looks are taken at a direct invocation's arguments does no harm, though the
\* display cannot be disabled: what the first one takes for a --verbose includes
\* what the second one does.
THEOREM VerboseAlwaysHeeded == Spec => []VerboseIsHeeded
<1>1. DisplayInv => VerboseIsHeeded
  <2>1. VerboseGiven \in BOOLEAN
    BY DEF VerboseGiven, Gives
  <2>. QED
    BY <2>1 DEF DisplayInv, DisplayOK, TypeOK, VerboseIsHeeded
<1>. QED
  BY <1>1, DisplayAlways, PTL

\* Every variable has its type, and what is given is a command line and a text.
THEOREM ProgramTypeCorrect == Spec => [](TypeOK /\ GivenOK)
BY DisplayAlways, PTL DEF DisplayInv

-----------------------------------------------------------------------------
(* The parser of texts. *)

\* The sections among the first lines, and the fields that one has among them.
Before(text, k) == Sections(text) \cap 1 .. k
Held(text, section, k) == FieldsOf(text, section) \cap 1 .. k

Header(text, k) ==
    /\ \A i \in Held(text, 0, k) : text[i].key = "version" /\ text[i].value = "1"
    /\ \A i, j \in Held(text, 0, k) : i = j

NamesOnce(text, k) ==
    /\ \A s \in Before(text, k) : text[s].key \in Aliases
    /\ \A s, t \in Before(text, k) : text[s].key = text[t].key => s = t

SetsOnce(text, k) ==
    \A s \in Before(text, k) : \A i, j \in Held(text, s, k) : text[i].key = text[j].key => i = j

\* What the first lines of a good text are.
Sound(text, k) ==
    /\ \A i \in 1 .. k : text[i].kind # "junk" /\ (text[i].kind = "field" => Readable(text[i]))
    /\ NamesOnce(text, k)
    /\ Header(text, k)
    /\ SetsOnce(text, k)

\* The section that the parser is in.
Active(text, k, alias) ==
    \/ Before(text, k) = {} /\ alias = Empty
    \/ \E s \in Before(text, k) : alias = text[s].key /\ \A t \in Before(text, k) : t <= s

\* A map has the fields, and their values.
MapOf(text, fields, map) ==
    /\ map \in [{text[i].key : i \in fields} -> Values]
    /\ \A i \in fields : map[text[i].key] = text[i].value

Collected(text, k, tunnel_fields) ==
    /\ DOMAIN tunnel_fields = {text[s].key : s \in Before(text, k)}
    /\ \A s \in Before(text, k) : MapOf(text, Held(text, s, k), tunnel_fields[text[s].key])

TextRead(text, k, parser) ==
    /\ DOMAIN parser = DOMAIN Unread
    /\ parser.refused \in BOOLEAN
    /\ parser.refused <=> ~Sound(text, k)
    /\ ~parser.refused =>
         /\ parser.version = IF Held(text, 0, k) = {} THEN 0 ELSE 1
         /\ Active(text, k, parser.active_alias)
         /\ Collected(text, k, parser.tunnel_fields)

Text == INSTANCE SequenceFolds WITH Op <- TakeLine, Inv <- TextRead

LEMMA LineAt ==
    ASSUME NEW text \in Seq(Line), NEW i \in 1 .. Len(text)
    PROVE  /\ text[i].kind \in {"blank", "section", "field", "junk"}
           /\ text[i].key \in Values /\ text[i].value \in Values
           /\ i \in DOMAIN text /\ text[i].quoted \in BOOLEAN
<1>1. text[i] \in Line
  OBVIOUS
<1>. QED
  BY <1>1 DEF Line

LEMMA SectionNext ==
    ASSUME NEW text \in Seq(Line), NEW k \in 0 .. Len(text) - 1, text[k + 1].kind = "section"
    PROVE  /\ Before(text, k + 1) = Before(text, k) \cup {k + 1} /\ k + 1 \notin Before(text, k)
           /\ \A s : Held(text, s, k + 1) = Held(text, s, k)
           /\ Held(text, k + 1, k) = {}
BY DEF Before, Held, Sections, FieldsOf

LEMMA FieldNext ==
    ASSUME NEW text \in Seq(Line), NEW k \in 0 .. Len(text) - 1, text[k + 1].kind = "field"
    PROVE  /\ Before(text, k + 1) = Before(text, k)
           /\ Before(text, k) = {} => Held(text, 0, k + 1) = Held(text, 0, k) \cup {k + 1}
           /\ \A s \in Before(text, k) : (\A t \in Before(text, k) : t <= s) =>
                /\ Held(text, s, k + 1) = Held(text, s, k) \cup {k + 1}
                /\ \A u \in {0} \cup Before(text, k) : u # s => Held(text, u, k + 1) = Held(text, u, k)
<1>1. Before(text, k + 1) = Before(text, k)
  BY DEF Before, Sections
<1>2. ASSUME Before(text, k) = {} PROVE Held(text, 0, k + 1) = Held(text, 0, k) \cup {k + 1}
  BY <1>2 DEF Before, Held, Sections, FieldsOf
<1>3. ASSUME NEW s \in Before(text, k), \A t \in Before(text, k) : t <= s
      PROVE  /\ Held(text, s, k + 1) = Held(text, s, k) \cup {k + 1}
             /\ \A u \in {0} \cup Before(text, k) : u # s => Held(text, u, k + 1) = Held(text, u, k)
  <2>1. k + 1 \in FieldsOf(text, s)
    BY <1>3 DEF Before, Sections, FieldsOf
  <2>2. ASSUME NEW u \in {0} \cup Before(text, k), u # s PROVE k + 1 \notin FieldsOf(text, u)
    BY <1>3, <2>2 DEF Before, Sections, FieldsOf
  <2>. QED
    BY <2>1, <2>2 DEF Held
<1>. QED
  BY <1>1, <1>2, <1>3

LEMMA OtherNext ==
    ASSUME NEW text \in Seq(Line), NEW k \in 0 .. Len(text) - 1, text[k + 1].kind \in {"blank", "junk"}
    PROVE  /\ Before(text, k + 1) = Before(text, k)
           /\ \A s : Held(text, s, k + 1) = Held(text, s, k)
BY DEF Before, Held, Sections, FieldsOf

\* What is unsound stays so.
LEMMA UnsoundStays ==
    ASSUME NEW text \in Seq(Line), NEW k \in 0 .. Len(text) - 1, Sound(text, k + 1)
    PROVE  Sound(text, k)
<1>1. Before(text, k) \subseteq Before(text, k + 1) /\ \A s : Held(text, s, k) \subseteq Held(text, s, k + 1)
  BY DEF Before, Held
<1>. QED
  BY <1>1 DEF Sound, NamesOnce, Header, SetsOnce

LEMMA RefusedRead ==
    ASSUME NEW text \in Seq(Line), NEW k \in 0 .. Len(text), NEW parser, DOMAIN parser = DOMAIN Unread, ~Sound(text, k)
    PROVE  TextRead(text, k, Refuse(parser))
BY DEF TextRead, Refuse, Unread

LEMMA SectionRead ==
    ASSUME NEW text \in Seq(Line), NEW k \in 0 .. Len(text) - 1, NEW parser,
           TextRead(text, k, parser), ~parser.refused, text[k + 1].kind = "section"
    PROVE  TextRead(text, k + 1, TakeSection(parser, text[k + 1].key))
<1>. DEFINE alias == text[k + 1].key
            tunnel_fields == parser.tunnel_fields
<1>1. /\ Before(text, k + 1) = Before(text, k) \cup {k + 1} /\ k + 1 \notin Before(text, k)
      /\ \A s : Held(text, s, k + 1) = Held(text, s, k)
      /\ Held(text, k + 1, k) = {}
  BY SectionNext
<1>2. /\ DOMAIN parser = DOMAIN Unread /\ Sound(text, k)
      /\ parser.version = IF Held(text, 0, k) = {} THEN 0 ELSE 1
      /\ Collected(text, k, tunnel_fields)
  BY DEF TextRead
<1>3. CASE alias \in Aliases \ DOMAIN tunnel_fields
  <2>. DEFINE more == With(tunnel_fields, alias, <<>>)
              next == [parser EXCEPT !.active_alias = alias, !.tunnel_fields = more]
  <2>1. TakeSection(parser, alias) = next
    BY <1>3 DEF TakeSection
  <2>2. \A s \in Before(text, k) : text[s].key # alias
    BY <1>2, <1>3 DEF Collected
  <2>3. Sound(text, k + 1)
    <3>1. NamesOnce(text, k + 1)
      BY <1>1, <1>2, <1>3, <2>2 DEF Sound, NamesOnce
    <3>2. Header(text, k + 1) /\ SetsOnce(text, k + 1)
      BY <1>1, <1>2 DEF Sound, Header, SetsOnce
    <3>. QED
      BY <1>2, <3>1, <3>2 DEF Sound
  <2>4. Collected(text, k + 1, more)
    <3>1. DOMAIN more = {alias} \cup DOMAIN tunnel_fields
      BY DEF With
    <3>2. more[alias] = <<>>
      BY DEF With
    <3>3. ASSUME NEW s \in Before(text, k) PROVE more[text[s].key] = tunnel_fields[text[s].key]
      BY <2>2, <3>1, <1>2 DEF With, Collected
    <3>4. MapOf(text, {}, <<>>)
      BY DEF MapOf
    <3>. HIDE DEF more
    <3>. QED
      BY <1>1, <1>2, <3>1, <3>2, <3>3, <3>4 DEF Collected
  <2>. HIDE DEF more
  <2>5. Active(text, k + 1, alias)
    BY <1>1 DEF Active, Before
  <2>6. /\ DOMAIN next = DOMAIN Unread /\ ~next.refused /\ next.version = parser.version
        /\ next.active_alias = alias /\ next.tunnel_fields = more /\ next.refused \in BOOLEAN
    BY <1>2 DEF Unread, TextRead
  <2>. HIDE DEF next
  <2>. QED
    BY <1>1, <1>2, <2>1, <2>3, <2>4, <2>5, <2>6 DEF TextRead
<1>4. CASE alias \notin Aliases \ DOMAIN tunnel_fields
  <2>1. ~Sound(text, k + 1)
    BY <1>1, <1>2, <1>4 DEF Sound, NamesOnce, Collected
  <2>. QED
    BY <1>2, <1>4, <2>1, RefusedRead DEF TakeSection
<1>. QED
  BY <1>3, <1>4

LEMMA VersionRead ==
    ASSUME NEW text \in Seq(Line), NEW k \in 0 .. Len(text) - 1, NEW parser,
           TextRead(text, k, parser), ~parser.refused, text[k + 1].kind = "field", Readable(text[k + 1]),
           Before(text, k) = {}
    PROVE  TextRead(text, k + 1, TakeVersion(parser, text[k + 1]))
<1>. DEFINE line == text[k + 1]
<1>1. /\ Before(text, k + 1) = {}
      /\ Held(text, 0, k + 1) = Held(text, 0, k) \cup {k + 1} /\ k + 1 \notin Held(text, 0, k)
  BY FieldNext DEF Held
<1>2. /\ DOMAIN parser = DOMAIN Unread /\ Sound(text, k)
      /\ parser.version = IF Held(text, 0, k) = {} THEN 0 ELSE 1
      /\ Active(text, k, parser.active_alias) /\ Collected(text, k, parser.tunnel_fields)
  BY DEF TextRead
<1>3. CASE line.key = "version" /\ parser.version = 0 /\ line.value = "1"
  <2>. DEFINE next == [parser EXCEPT !.version = 1]
  <2>1. Held(text, 0, k) = {}
    BY <1>2, <1>3
  <2>2. Sound(text, k + 1)
    BY <1>1, <1>2, <1>3, <2>1 DEF Sound, NamesOnce, Header, SetsOnce
  <2>3. Active(text, k + 1, parser.active_alias) /\ Collected(text, k + 1, parser.tunnel_fields)
    BY <1>1, <1>2 DEF Active, Collected
  <2>4. /\ DOMAIN next = DOMAIN Unread /\ ~next.refused /\ next.version = 1 /\ next.refused \in BOOLEAN
        /\ next.active_alias = parser.active_alias /\ next.tunnel_fields = parser.tunnel_fields
    BY <1>2 DEF Unread, TextRead
  <2>5. TakeVersion(parser, line) = next
    BY <1>3 DEF TakeVersion
  <2>. HIDE DEF next
  <2>. QED
    BY <1>1, <2>2, <2>3, <2>4, <2>5 DEF TextRead
<1>4. CASE ~(line.key = "version" /\ parser.version = 0 /\ line.value = "1")
  <2>1. ~Sound(text, k + 1)
    BY <1>1, <1>2, <1>4 DEF Sound, Header
  <2>. QED
    BY <1>2, <1>4, <2>1, RefusedRead DEF TakeVersion
<1>. QED
  BY <1>3, <1>4

LEMMA FieldRead ==
    ASSUME NEW text \in Seq(Line), NEW k \in 0 .. Len(text) - 1, NEW parser,
           TextRead(text, k, parser), ~parser.refused, text[k + 1].kind = "field", Readable(text[k + 1]),
           Before(text, k) # {}
    PROVE  TextRead(text, k + 1, TakeField(parser, text[k + 1]))
<1>. DEFINE line == text[k + 1]
            tunnel_fields == parser.tunnel_fields
            alias == parser.active_alias
<1>1. /\ DOMAIN parser = DOMAIN Unread /\ Sound(text, k)
      /\ parser.version = IF Held(text, 0, k) = {} THEN 0 ELSE 1
      /\ Active(text, k, alias) /\ Collected(text, k, tunnel_fields)
  BY DEF TextRead
<1>2. PICK s \in Before(text, k) : alias = text[s].key /\ \A t \in Before(text, k) : t <= s
  BY <1>1 DEF Active
<1>3. /\ Before(text, k + 1) = Before(text, k)
      /\ Held(text, s, k + 1) = Held(text, s, k) \cup {k + 1}
      /\ \A u \in {0} \cup Before(text, k) : u # s => Held(text, u, k + 1) = Held(text, u, k)
      /\ s # 0
  BY <1>2, FieldNext DEF Before
<1>4. MapOf(text, Held(text, s, k), tunnel_fields[alias])
  BY <1>1, <1>2 DEF Collected
<1>5. CASE line.key \notin DOMAIN tunnel_fields[alias]
  <2>. DEFINE map == With(tunnel_fields[alias], line.key, line.value)
              more == [tunnel_fields EXCEPT ![alias] = map]
              next == [parser EXCEPT !.tunnel_fields = more]
  <2>1. TakeField(parser, line) = next
    BY <1>5 DEF TakeField, MayAssign
  <2>2. MapOf(text, Held(text, s, k + 1), map)
    <3>1. line.key \in Values /\ line.value \in Values
      BY LineAt
    <3>. DEFINE old == tunnel_fields[alias]
    <3>2. DOMAIN map = {line.key} \cup DOMAIN old /\ map[line.key] = line.value
      BY DEF With
    <3>3. \A key \in DOMAIN old : map[key] = old[key]
      BY <1>5 DEF With
    <3>4. map = [key \in DOMAIN map |-> map[key]]
      BY DEF With
    <3>5. DOMAIN old = {text[i].key : i \in Held(text, s, k)} /\ \A key \in DOMAIN old : old[key] \in Values
      BY <1>4 DEF MapOf
    <3>. HIDE DEF map
    <3>6. DOMAIN map = {text[i].key : i \in Held(text, s, k + 1)}
      BY <1>3, <3>2, <3>5
    <3>7. map \in [{text[i].key : i \in Held(text, s, k + 1)} -> Values]
      BY <3>1, <3>2, <3>3, <3>4, <3>5, <3>6
    <3>8. \A i \in Held(text, s, k) : map[text[i].key] = text[i].value
      BY <1>4, <3>3, <3>5 DEF MapOf
    <3>. QED
      BY <1>3, <3>2, <3>7, <3>8 DEF MapOf
  <2>. HIDE DEF map
  <2>3. Sound(text, k + 1)
    <3>1. SetsOnce(text, k + 1)
      <4>1. \A i \in Held(text, s, k) : text[i].key # line.key
        BY <1>4, <1>5 DEF MapOf
      <4>2. \A i, j \in Held(text, s, k + 1) : text[i].key = text[j].key => i = j
        BY <1>1, <1>2, <1>3, <4>1 DEF Sound, SetsOnce
      <4>. QED
        BY <1>1, <1>3, <4>2 DEF Sound, SetsOnce
    <3>2. NamesOnce(text, k + 1) /\ Header(text, k + 1)
      BY <1>1, <1>3 DEF Sound, NamesOnce, Header
    <3>. QED
      BY <1>1, <3>1, <3>2 DEF Sound
  <2>4. Collected(text, k + 1, more)
    <3>1. DOMAIN more = DOMAIN tunnel_fields /\ alias \in DOMAIN tunnel_fields
      BY <1>1, <1>2 DEF Collected
    <3>2. more[alias] = map /\ \A other \in DOMAIN tunnel_fields : other # alias => more[other] = tunnel_fields[other]
      BY <3>1
    <3>3. \A t \in Before(text, k) : t # s => text[t].key # alias
      BY <1>1, <1>2 DEF Sound, NamesOnce
    <3>. HIDE DEF more
    <3>. QED
      BY <1>1, <1>2, <1>3, <2>2, <3>1, <3>2, <3>3 DEF Collected
  <2>. HIDE DEF more
  <2>5. Active(text, k + 1, alias)
    BY <1>1, <1>3 DEF Active
  <2>6. /\ DOMAIN next = DOMAIN Unread /\ ~next.refused /\ next.version = parser.version /\ next.refused \in BOOLEAN
        /\ next.active_alias = alias /\ next.tunnel_fields = more
    BY <1>1 DEF Unread, TextRead
  <2>. HIDE DEF next
  <2>. QED
    BY <1>1, <1>3, <2>1, <2>3, <2>4, <2>5, <2>6 DEF TextRead
<1>6. CASE line.key \in DOMAIN tunnel_fields[alias]
  <2>1. PICK i \in Held(text, s, k) : text[i].key = line.key
    BY <1>4, <1>6 DEF MapOf
  <2>2. i # k + 1
    BY DEF Held
  <2>3. ~Sound(text, k + 1)
    BY <1>2, <1>3, <2>1, <2>2 DEF Sound, SetsOnce
  <2>. QED
    BY <1>1, <1>6, <2>3, RefusedRead DEF TakeField, MayAssign
<1>. QED
  BY <1>5, <1>6

\* The parser's state after each line says what has been read.
LEMMA LineRead ==
    ASSUME NEW text \in Seq(Line), NEW k \in 0 .. Len(text) - 1, NEW parser, TextRead(text, k, parser)
    PROVE  TextRead(text, k + 1, TakeLine(parser, text[k + 1]))
<1>. DEFINE line == text[k + 1]
<1>1. k + 1 \in 1 .. Len(text) /\ line.kind \in {"blank", "section", "field", "junk"}
  BY LineAt
<1>2. CASE parser.refused
  BY <1>2, UnsoundStays DEF TextRead, TakeLine
<1>3. CASE ~parser.refused /\ line.kind = "blank"
  <2>1. TakeLine(parser, line) = parser
    BY <1>3 DEF TakeLine
  <2>2. Before(text, k + 1) = Before(text, k) /\ \A s : Held(text, s, k + 1) = Held(text, s, k)
    BY <1>3, OtherNext
  <2>3. Sound(text, k) => Sound(text, k + 1)
    BY <1>3, <2>2 DEF Sound, NamesOnce, Header, SetsOnce
  <2>. QED
    BY <1>3, <2>1, <2>2, <2>3 DEF TextRead, Active, Collected
<1>4. CASE ~parser.refused /\ line.kind = "section"
  BY <1>4, SectionRead DEF TakeLine
<1>5. CASE ~parser.refused /\ line.kind = "field" /\ Readable(line)
  <2>1. parser.active_alias = Empty <=> Before(text, k) = {}
    BY <1>5, ConfigurationAssumption DEF TextRead, Active, Sound, NamesOnce
  <2>2. TakeLine(parser, line) =
          IF parser.active_alias = Empty THEN TakeVersion(parser, line) ELSE TakeField(parser, line)
    BY <1>5 DEF TakeLine
  <2>. QED
    BY <1>5, <2>1, <2>2, VersionRead, FieldRead
<1>6. CASE ~parser.refused /\ (line.kind = "junk" \/ (line.kind = "field" /\ ~Readable(line)))
  <2>1. TakeLine(parser, line) = Refuse(parser)
    BY <1>6 DEF TakeLine
  <2>2. ~Sound(text, k + 1)
    BY <1>1, <1>6 DEF Sound
  <2>. QED
    BY <2>1, <2>2, RefusedRead DEF TextRead
<1>. QED
  BY <1>1, <1>2, <1>3, <1>4, <1>5, <1>6

LEMMA TextReadAll ==
    ASSUME NEW text \in Seq(Line)
    PROVE  TextRead(text, Len(text), FoldLeft(TakeLine, Unread, text))
<1>1. TextRead(text, 0, Unread)
  <2>1. Before(text, 0) = {} /\ Held(text, 0, 0) = {}
    BY DEF Before, Held
  <2>2. Sound(text, 0)
    BY <2>1 DEF Sound, NamesOnce, Header, SetsOnce
  <2>. QED
    BY <2>1, <2>2 DEF TextRead, Unread, Active, Collected
<1>2. TextRead(text, Len(text), Text!Result(Unread, text))
  BY <1>1, LineRead, Text!FoldLeftInduction, DOMAIN text = 1 .. Len(text), Len(text) \in Nat
<1>3. Text!Result(Unread, text) = FoldLeft(TakeLine, Unread, text)
  BY DEF Text!Result, FoldLeft, Text!FoldLeft, MapThenFoldSet, Text!MapThenFoldSet, Max, Text!Max
<1>. QED
  BY <1>2, <1>3

-----------------------------------------------------------------------------
(* What is accepted. *)

\* A good section, by the map of its fields.
GoodClient(map) ==
    /\ DOMAIN map = ClientFields /\ map["mode"] = "client"
    /\ ValidEndpoint(map["udp_group"]) /\ ValidEndpoint(map["tcp_server"])

GoodServer(map) ==
    /\ DOMAIN map \in {ServerFields, ServerFields \cup {"udp_destination"}} /\ map["mode"] = "server"
    /\ ValidPort(map["tcp_listen_port"])
    /\ "udp_destination" \in DOMAIN map =>
         map["udp_destination"] = "replicate_client" \/ ValidEndpoint(map["udp_destination"])

GoodMap(map) ==
    /\ "udp_interface" \in DOMAIN map /\ map["udp_interface"] \in DOMAIN Interface
    /\ GoodClient(map) \/ GoodServer(map)

\* The tunnels of good sections, written out.
ClientOf(map) == [
    is_client_ |-> TRUE, use_clt_grp_ |-> FALSE,
    udp_iface_reference_ |-> map["udp_interface"], udp_iface_ip_ |-> Interface[map["udp_interface"]],
    tcp_srv_ip_ |-> Address(map["tcp_server"]), tcp_srv_port_ |-> Port(map["tcp_server"]),
    udp_dst_ip_ |-> Address(map["udp_group"]), udp_dst_port_ |-> Port(map["udp_group"])]

ReplicaOf(map) == [
    is_client_ |-> FALSE, use_clt_grp_ |-> TRUE,
    udp_iface_reference_ |-> map["udp_interface"], udp_iface_ip_ |-> Interface[map["udp_interface"]],
    tcp_srv_ip_ |-> Empty, tcp_srv_port_ |-> Unsigned(map["tcp_listen_port"]),
    udp_dst_ip_ |-> Empty, udp_dst_port_ |-> 0]

ServerOf(map) == [
    is_client_ |-> FALSE, use_clt_grp_ |-> FALSE,
    udp_iface_reference_ |-> map["udp_interface"], udp_iface_ip_ |-> Interface[map["udp_interface"]],
    tcp_srv_ip_ |-> Empty, tcp_srv_port_ |-> Unsigned(map["tcp_listen_port"]),
    udp_dst_ip_ |-> Address(map["udp_destination"]), udp_dst_port_ |-> Port(map["udp_destination"])]

LEMMA EndpointParts ==
    ASSUME NEW v, ValidEndpoint(v)
    PROVE  /\ v # Empty /\ v \in Values
           /\ Address(v) \in Values /\ Address(v) # Empty /\ Address(v) \in Addresses
           /\ Port(v) \in 1 .. MaxPort
BY ConfigurationAssumption DEF ValidEndpoint, ValidPort, Address, Port

LEMMA InterfaceAddress ==
    ASSUME NEW v \in DOMAIN Interface
    PROVE  v \in Values /\ v # Empty /\ Interface[v] \in Values /\ Interface[v] # Empty
BY ConfigurationAssumption

LEMMA ClientConfig ==
    ASSUME NEW reference \in Values, NEW interface \in Values, NEW server \in Values, NEW group \in Values,
           NEW port \in 0 .. MaxPort, NEW groups_port \in 0 .. MaxPort,
           interface # Empty, server # Empty, group # Empty, port # 0, groups_port # 0,
           NEW tunnel,
           tunnel = [
              is_client_ |-> TRUE, use_clt_grp_ |-> FALSE,
              udp_iface_reference_ |-> reference, udp_iface_ip_ |-> interface,
              tcp_srv_ip_ |-> server, tcp_srv_port_ |-> port, udp_dst_ip_ |-> group, udp_dst_port_ |-> groups_port]
    PROVE  tunnel \in Config /\ Complete(tunnel)
<1>1. tunnel \in Config
  BY DEF Config
<1>2. Complete(tunnel)
  BY DEF Complete
<1>. QED
  BY <1>1, <1>2

LEMMA ClientMade ==
    ASSUME NEW map, NEW D, map \in [D -> Values],
           map["mode"] = "client", "mode" \in D, "udp_interface" \in D,
           map["udp_interface"] \in DOMAIN Interface, D \subseteq AllowedFields
    PROVE  /\ MakeClient(map) # Refused <=> GoodClient(map)
           /\ GoodClient(map) =>
                MakeClient(map) = ClientOf(map) /\ MakeClient(map) \in Config /\ Complete(MakeClient(map))
<1>1. DOMAIN map = D
  OBVIOUS
<1>2. Has(map, "tcp_server") /\ ValidEndpoint(map["tcp_server"]) <=> "tcp_server" \in D /\ ValidEndpoint(map["tcp_server"])
  BY <1>1, EndpointParts DEF Has
<1>3. Has(map, "udp_group") /\ ValidEndpoint(map["udp_group"]) <=> "udp_group" \in D /\ ValidEndpoint(map["udp_group"])
  BY <1>1, EndpointParts DEF Has
<1>4. "tcp_server" \in D /\ "udp_group" \in D /\ D \cap {"tcp_listen_port", "udp_destination"} = {} <=> D = ClientFields
  BY DEF AllowedFields, ClientFields, ServerFields
<1>5. /\ map["udp_interface"] \in Values
      /\ Interface[map["udp_interface"]] \in Values /\ Interface[map["udp_interface"]] # Empty
  BY InterfaceAddress
<1>6. ASSUME GoodClient(map)
      PROVE  MakeClient(map) = ClientOf(map)
  BY <1>1, <1>2, <1>3, <1>4, <1>6 DEF GoodClient, MakeClient, WithInterface, NoConfig, ClientOf
<1>7. ASSUME GoodClient(map)
      PROVE  MakeClient(map) \in Config /\ Complete(MakeClient(map))
  <2>1. /\ ValidEndpoint(map["tcp_server"]) /\ ValidEndpoint(map["udp_group"])
        /\ 1 .. MaxPort \subseteq 0 .. MaxPort /\ 0 \notin 1 .. MaxPort
    BY <1>7, ConfigurationAssumption DEF GoodClient
  <2>2. /\ Address(map["tcp_server"]) \in Values \ {Empty} /\ Port(map["tcp_server"]) \in (0 .. MaxPort) \ {0}
        /\ Address(map["udp_group"]) \in Values \ {Empty} /\ Port(map["udp_group"]) \in (0 .. MaxPort) \ {0}
    BY <2>1, EndpointParts
  <2>. QED
    BY <1>5, <1>6, <1>7, <2>2, ClientConfig DEF ClientOf
<1>8. ~GoodClient(map) => MakeClient(map) = Refused
  BY <1>1, <1>2, <1>3, <1>4 DEF GoodClient, MakeClient
<1>. QED
  BY <1>6, <1>7, <1>8, RefusedAssumption

LEMMA ServerMade ==
    ASSUME NEW map, NEW D, map \in [D -> Values],
           map["mode"] = "server", "mode" \in D, "udp_interface" \in D,
           map["udp_interface"] \in DOMAIN Interface, D \subseteq AllowedFields
    PROVE  /\ MakeServer(map) # Refused <=> GoodServer(map)
           /\ GoodServer(map) =>
                /\ MakeServer(map) = IF Replicates(map) THEN ReplicaOf(map) ELSE ServerOf(map)
                /\ MakeServer(map) \in Config /\ Complete(MakeServer(map))
<1>1. DOMAIN map = D
  OBVIOUS
<1>2. Has(map, "tcp_listen_port") /\ ValidPort(map["tcp_listen_port"])
        <=> "tcp_listen_port" \in D /\ ValidPort(map["tcp_listen_port"])
  BY <1>1, ConfigurationAssumption DEF Has, ValidPort
<1>3. "tcp_listen_port" \in D /\ D \cap {"tcp_server", "udp_group"} = {}
        <=> D \in {ServerFields, ServerFields \cup {"udp_destination"}}
  BY DEF AllowedFields, ClientFields, ServerFields
<1>4. /\ map["udp_interface"] \in Values
      /\ Interface[map["udp_interface"]] \in Values /\ Interface[map["udp_interface"]] # Empty
  BY InterfaceAddress
<1>5. ~GoodServer(map) => MakeServer(map) = Refused
  BY <1>1, <1>2, <1>3 DEF GoodServer, MakeServer, ForeignToServer, Replicates
<1>6. ASSUME GoodServer(map)
      PROVE  /\ MakeServer(map) = IF Replicates(map) THEN ReplicaOf(map) ELSE ServerOf(map)
             /\ MakeServer(map) \in Config /\ Complete(MakeServer(map))
  <2>1. /\ Unsigned(map["tcp_listen_port"]) \in 1 .. MaxPort /\ Empty \in Values
        /\ 1 .. MaxPort \subseteq 0 .. MaxPort /\ 0 \notin 1 .. MaxPort /\ 0 \in 0 .. MaxPort
    BY <1>6, ConfigurationAssumption DEF GoodServer, ValidPort
  <2>2. CASE Replicates(map)
    <3>1. MakeServer(map) = ReplicaOf(map)
      BY <1>1, <1>2, <1>3, <1>6, <2>2 DEF GoodServer, MakeServer, ForeignToServer, WithInterface, NoConfig, ReplicaOf, ServerOf
    <3>. QED
      BY <1>4, <2>1, <2>2, <3>1 DEF Config, Complete, ReplicaOf
  <2>3. CASE ~Replicates(map)
    <3>1. ValidEndpoint(map["udp_destination"])
      BY <1>1, <1>6, <2>3 DEF GoodServer, Replicates
    <3>2. MakeServer(map) = ServerOf(map)
      BY <1>1, <1>2, <1>3, <1>6, <2>3, <3>1 DEF GoodServer, MakeServer, ForeignToServer, WithInterface, NoConfig, ReplicaOf, ServerOf
    <3>. QED
      BY <1>4, <2>1, <2>3, <3>1, <3>2, EndpointParts DEF Config, Complete, ServerOf
  <2>. QED
    BY <2>2, <2>3
<1>. QED
  BY <1>5, <1>6, RefusedAssumption

LEMMA TunnelMade ==
    ASSUME NEW map, NEW D, map \in [D -> Values]
    PROVE  /\ MakeTunnel(map) # Refused <=> GoodMap(map)
           /\ GoodMap(map) => MakeTunnel(map) \in Config
           /\ GoodClient(map) /\ GoodMap(map) => MakeTunnel(map) = ClientOf(map)
           /\ GoodServer(map) /\ GoodMap(map) =>
                MakeTunnel(map) = IF Replicates(map) THEN ReplicaOf(map) ELSE ServerOf(map)
<1>1. DOMAIN map = D
  OBVIOUS
<1>. DEFINE readable == /\ D \subseteq AllowedFields /\ "udp_interface" \in D /\ "mode" \in D
                        /\ map["udp_interface"] \in DOMAIN Interface
<1>2. GoodMap(map) => readable /\ map["mode"] \in {"client", "server"}
  BY <1>1 DEF GoodMap, GoodClient, GoodServer, AllowedFields, ClientFields, ServerFields
<1>3. CASE readable /\ map["mode"] = "client"
  <2>1. GoodMap(map) <=> GoodClient(map)
    BY <1>1, <1>3 DEF GoodMap, GoodServer
  <2>2. Has(map, "udp_interface") /\ Has(map, "mode")
    BY <1>1, <1>3, InterfaceAddress, ConfigurationAssumption DEF Has
  <2>3. MakeTunnel(map) = IF MakeClient(map) # Refused /\ Complete(MakeClient(map)) THEN MakeClient(map) ELSE Refused
    BY <1>1, <1>3, <2>2 DEF MakeTunnel
  <2>4. ~GoodServer(map)
    BY <1>3 DEF GoodServer
  <2>. QED
    BY <1>3, <2>1, <2>3, <2>4, ClientMade
<1>4. CASE readable /\ map["mode"] = "server"
  <2>1. GoodMap(map) <=> GoodServer(map)
    BY <1>1, <1>4 DEF GoodMap, GoodClient
  <2>2. Has(map, "udp_interface") /\ Has(map, "mode")
    BY <1>1, <1>4, InterfaceAddress, ConfigurationAssumption DEF Has
  <2>3. MakeTunnel(map) = IF MakeServer(map) # Refused /\ Complete(MakeServer(map)) THEN MakeServer(map) ELSE Refused
    BY <1>1, <1>4, <2>2 DEF MakeTunnel
  <2>4. ~GoodClient(map)
    BY <1>4 DEF GoodClient
  <2>. QED
    BY <1>4, <2>1, <2>3, <2>4, ServerMade
<1>5. CASE ~(readable /\ map["mode"] \in {"client", "server"})
  <2>1. MakeTunnel(map) = Refused
    BY <1>1, <1>5 DEF MakeTunnel, Has
  <2>. QED
    BY <1>2, <1>5, <2>1
<1>. QED
  BY <1>3, <1>4, <1>5

\* A section is good if the map of its fields is.
LEMMA SectionMap ==
    ASSUME NEW text, NEW fields, NEW map, MapOf(text, fields, map),
           \A i, j \in fields : text[i].key = text[j].key => i = j
    PROVE  GoodSection(text, fields) <=> GoodMap(map)
<1>. DEFINE keys == {text[i].key : i \in fields}
            ValueOf(key) == text[CHOOSE i \in fields : text[i].key = key].value
<1>1. DOMAIN map = keys
  BY DEF MapOf
<1>2. \A key \in keys : ValueOf(key) = map[key]
  BY DEF MapOf
<1>3. keys = ClientFields => {"mode", "udp_group", "tcp_server"} \subseteq keys
  BY DEF ClientFields
<1>4. keys \in {ServerFields, ServerFields \cup {"udp_destination"}} => {"mode", "tcp_listen_port"} \subseteq keys
  BY DEF ServerFields
<1>5. GoodSection(text, fields) <=>
        /\ "udp_interface" \in keys /\ ValueOf("udp_interface") \in DOMAIN Interface
        /\ \/ /\ keys = ClientFields /\ ValueOf("mode") = "client"
              /\ ValidEndpoint(ValueOf("udp_group")) /\ ValidEndpoint(ValueOf("tcp_server"))
           \/ /\ keys \in {ServerFields, ServerFields \cup {"udp_destination"}}
              /\ ValueOf("mode") = "server" /\ ValidPort(ValueOf("tcp_listen_port"))
              /\ "udp_destination" \in keys =>
                    \/ ValueOf("udp_destination") = "replicate_client"
                    \/ ValidEndpoint(ValueOf("udp_destination"))
  BY DEF GoodSection
<1>. HIDE DEF keys, ValueOf
<1>. QED
  BY <1>1, <1>2, <1>3, <1>4, <1>5 DEF GoodMap, GoodClient, GoodServer

\* The maps of a text's sections.
LEMMA TextParsed ==
    ASSUME NEW text \in Seq(Line)
    PROVE  /\ ParseConfiguration(text) # Refused <=> GoodText(text)
           /\ ParseConfiguration(text) # Refused =>
                /\ DOMAIN ParseConfiguration(text) = {text[s].key : s \in Sections(text)}
                /\ ParseConfiguration(text) \in [DOMAIN ParseConfiguration(text) -> Config]
                /\ \A s \in Sections(text) : \E map :
                     /\ MapOf(text, FieldsOf(text, s), map) /\ GoodMap(map)
                     /\ ParseConfiguration(text)[text[s].key] = MakeTunnel(map)
<1>. DEFINE parser == FoldLeft(TakeLine, Unread, text)
            n == Len(text)
            fields == parser.tunnel_fields
<1>1. Before(text, n) = Sections(text) /\ \A s : Held(text, s, n) = FieldsOf(text, s)
  BY DOMAIN text = 1 .. Len(text) DEF Before, Held, Sections, FieldsOf
<1>2. TextRead(text, n, parser)
  BY TextReadAll
<1>3. ParseConfiguration(text) =
        IF parser.refused \/ parser.version # 1 \/ \E alias \in DOMAIN fields : MakeTunnel(fields[alias]) = Refused
        THEN Refused ELSE [alias \in DOMAIN fields |-> MakeTunnel(fields[alias])]
  BY DEF ParseConfiguration
<1>. HIDE DEF parser
<1>4. CASE ~Sound(text, n)
  <2>1. ParseConfiguration(text) = Refused
    BY <1>2, <1>3, <1>4 DEF TextRead
  <2>2. ASSUME GoodText(text) PROVE FALSE
    <3>1. NamesOnce(text, n)
      BY <1>1, <2>2 DEF GoodText, NamesOnce
    <3>2. Header(text, n)
      BY <1>1, <2>2 DEF GoodText, Header
    <3>3. SetsOnce(text, n)
      <4>1. ASSUME NEW s \in Sections(text)
            PROVE  \A i, j \in FieldsOf(text, s) : text[i].key = text[j].key => i = j
        BY <2>2 DEF GoodText, GoodSection
      <4>. QED
        BY <1>1, <4>1 DEF SetsOnce
    <3>. QED
      BY <1>4, <2>2, <3>1, <3>2, <3>3, DOMAIN text = 1 .. n DEF GoodText, Sound
  <2>. QED
    BY <2>1, <2>2
<1>5. CASE Sound(text, n)
  <2>1. /\ ~parser.refused /\ Collected(text, n, fields)
        /\ parser.version = IF FieldsOf(text, 0) = {} THEN 0 ELSE 1
    BY <1>1, <1>2, <1>5 DEF TextRead
  <2>2. DOMAIN fields = {text[s].key : s \in Sections(text)}
    BY <1>1, <2>1 DEF Collected
  <2>3. \A s \in Sections(text) : MapOf(text, FieldsOf(text, s), fields[text[s].key])
    BY <1>1, <2>1 DEF Collected
  <2>4. \A s \in Sections(text) : \A i, j \in FieldsOf(text, s) : text[i].key = text[j].key => i = j
    BY <1>1, <1>5 DEF Sound, SetsOnce
  <2>5. \A s \in Sections(text) : GoodSection(text, FieldsOf(text, s)) <=> GoodMap(fields[text[s].key])
    BY <2>3, <2>4, SectionMap
  <2>6. \A s \in Sections(text) : GoodMap(fields[text[s].key]) <=> MakeTunnel(fields[text[s].key]) # Refused
    BY <2>3, TunnelMade DEF MapOf
  <2>7. parser.version = 1 <=>
          \E i \in DOMAIN text : FieldsOf(text, 0) = {i} /\ text[i].key = "version" /\ text[i].value = "1"
    <3>1. \A i, j \in FieldsOf(text, 0) : i = j
      BY <1>1, <1>5 DEF Sound, Header
    <3>2. \A i \in FieldsOf(text, 0) : i \in DOMAIN text /\ text[i].key = "version" /\ text[i].value = "1"
      BY <1>1, <1>5 DEF Sound, Header, FieldsOf
    <3>3. CASE FieldsOf(text, 0) = {}
      <4>1. parser.version = 0
        BY <2>1, <3>3
      <4>2. \A i \in DOMAIN text : FieldsOf(text, 0) # {i}
        BY <3>3
      <4>. QED
        BY <4>1, <4>2
    <3>4. ASSUME NEW i \in FieldsOf(text, 0) PROVE FieldsOf(text, 0) = {i} /\ parser.version = 1
      BY <2>1, <3>1
    <3>. QED
      BY <3>2, <3>3, <3>4
  <2>8. GoodText(text) <=>
          /\ parser.version = 1
          /\ \A s \in Sections(text) : MakeTunnel(fields[text[s].key]) # Refused
    <3>1. /\ \A i \in DOMAIN text : text[i].kind # "junk" /\ (text[i].kind = "field" => Readable(text[i]))
          /\ \A s \in Sections(text) : text[s].key \in Aliases
          /\ \A s, t \in Sections(text) : text[s].key = text[t].key => s = t
      BY <1>1, <1>5, DOMAIN text = 1 .. n DEF Sound, NamesOnce
    <3>. QED
      BY <2>5, <2>6, <2>7, <3>1 DEF GoodText
  <2>9. (\E alias \in DOMAIN fields : MakeTunnel(fields[alias]) = Refused)
          <=> \E s \in Sections(text) : MakeTunnel(fields[text[s].key]) = Refused
    BY <2>2
  <2>10. CASE GoodText(text)
    <3>1. ParseConfiguration(text) = [alias \in DOMAIN fields |-> MakeTunnel(fields[alias])]
      BY <1>3, <2>1, <2>8, <2>9, <2>10
    <3>2. \A alias \in DOMAIN fields : MakeTunnel(fields[alias]) \in Config
      BY <2>2, <2>3, <2>6, <2>8, <2>10, TunnelMade DEF MapOf
    <3>3. DOMAIN fields \in SUBSET Aliases
      BY <2>2, <2>10 DEF GoodText
    <3>4. ParseConfiguration(text) \in [DOMAIN fields -> Config]
      BY <3>1, <3>2
    <3>5. ParseConfiguration(text) # Refused
      BY <3>3, <3>4, RefusedAssumption
    <3>6. \A s \in Sections(text) : ParseConfiguration(text)[text[s].key] = MakeTunnel(fields[text[s].key])
      BY <2>2, <3>1
    <3>7. DOMAIN ParseConfiguration(text) = {text[s].key : s \in Sections(text)}
      BY <2>2, <3>1
    <3>8. \A s \in Sections(text) : GoodMap(fields[text[s].key])
      BY <2>6, <2>8, <2>10
    <3>. QED
      BY <2>3, <2>10, <3>4, <3>5, <3>6, <3>7, <3>8
  <2>11. CASE ~GoodText(text)
    BY <1>3, <2>1, <2>8, <2>9, <2>11
  <2>. QED
    BY <2>10, <2>11
<1>. QED
  BY <1>4, <1>5

LEMMA SectionOfTunnel ==
    ASSUME NEW text \in Seq(Line), ParseConfiguration(text) # Refused, NEW alias \in DOMAIN ParseConfiguration(text)
    PROVE  \E s \in Sections(text) : alias = text[s].key
BY TextParsed

LEMMA MapOfTunnel ==
    ASSUME NEW text \in Seq(Line), ParseConfiguration(text) # Refused, NEW s \in Sections(text)
    PROVE  \E map : /\ MapOf(text, FieldsOf(text, s), map) /\ GoodMap(map)
                    /\ ParseConfiguration(text)[text[s].key] = MakeTunnel(map)
BY TextParsed

\* The parser, a loop that keeps the section it is in, accepts the good texts and no
\* others, whatever they are, and finds in them the tunnels that have a section.
THEOREM ParserAcceptsExactly == Spec => []AcceptsExactly
<1>1. GivenOK => AcceptsExactly
  <2>. SUFFICES ASSUME GivenOK, file # NoFile
                PROVE  /\ (Loaded # Refused) = GoodText(file)
                       /\ Loaded # Refused => DOMAIN Loaded = {file[s].key : s \in Sections(file)}
    BY DEF AcceptsExactly
  <2>1. file \in Seq(Line) /\ Loaded = ParseConfiguration(file)
    BY DEF GivenOK, Loaded
  <2>2. GoodText(file) \in BOOLEAN
    BY DEF GoodText
  <2>. QED
    BY <2>1, <2>2, TextParsed
<1>. QED
  BY <1>1, DisplayAlways, PTL DEF DisplayInv

-----------------------------------------------------------------------------
(* The direct command. *)

TypedSoFar(command, k, typed) ==
    (\A i \in DOMAIN command : command[i] \notin DOMAIN Special) =>
        /\ typed \in [words : Seq(Values), ends : {FALSE}] /\ Len(typed.words) = k
        /\ \A i \in 1 .. k : typed.words[i] = command[i]

Shell == INSTANCE SequenceFolds WITH Op <- TypeWord, Inv <- TypedSoFar

\* Without a special text a command is typed as it is.
LEMMA TypedAsIs ==
    ASSUME NEW command \in Seq(Values), \A i \in DOMAIN command : command[i] \notin DOMAIN Special
    PROVE  Typed(command) = command
<1>. DEFINE start == [words |-> <<>>, ends |-> FALSE]
            last == Shell!Result(start, command)
<1>1. TypedSoFar(command, 0, start)
  BY DEF TypedSoFar
<1>2. ASSUME NEW k \in 0 .. Len(command) - 1, NEW typed, TypedSoFar(command, k, typed)
      PROVE  TypedSoFar(command, k + 1, TypeWord(typed, command[k + 1]))
  <2>. DEFINE words == typed.words
              more == Append(words, command[k + 1])
  <2>1. k + 1 \in DOMAIN command /\ command[k + 1] \in Values
    OBVIOUS
  <2>2. /\ typed \in [words : Seq(Values), ends : {FALSE}] /\ Len(words) = k
        /\ \A i \in 1 .. k : words[i] = command[i]
    BY <1>2 DEF TypedSoFar
  <2>3. TypeWord(typed, command[k + 1]) = [typed EXCEPT !.words = more]
    BY <2>1, <2>2 DEF TypeWord
  <2>4. words \in Seq(Values)
    BY <2>2
  <2>. HIDE DEF words
  <2>5. /\ more \in Seq(Values) /\ Len(more) = k + 1
        /\ \A i \in 1 .. k + 1 : more[i] = command[i]
    BY <2>1, <2>2, <2>4
  <2>. HIDE DEF more
  <2>6. /\ [typed EXCEPT !.words = more] \in [words : Seq(Values), ends : {FALSE}]
        /\ [typed EXCEPT !.words = more].words = more
    BY <2>2, <2>5
  <2>. QED
    BY <2>3, <2>5, <2>6 DEF TypedSoFar
<1>3. TypedSoFar(command, Len(command), last)
  BY <1>1, <1>2, Shell!FoldLeftInduction, DOMAIN command = 1 .. Len(command), Len(command) \in Nat
<1>4. last.words = Typed(command)
  BY DEF Shell!Result, Typed, FoldLeft, Shell!FoldLeft, MapThenFoldSet, Shell!MapThenFoldSet, Max, Shell!Max
<1>. HIDE DEF last
<1>5. last.words \in Seq(Values) /\ Len(last.words) = Len(command) /\ \A i \in 1 .. Len(command) : last.words[i] = command[i]
  BY <1>3 DEF TypedSoFar
<1>. QED
  BY <1>4, <1>5

\* Digits have no minus sign.
LEMMA DigitsUnsigned == \A v \in Digits : v \in DOMAIN Number /\ Unsigned(v) = Number[v]
BY ConfigurationAssumption DEF Unsigned

\* The text of an endpoint is what it was made of.
LEMMA EndpointWritten ==
    ASSUME NEW address \in Addresses, NEW port \in DOMAIN Decimal, port \in 1 .. MaxPort
    PROVE  /\ EndpointText(address, port) \in Values \ DOMAIN Special
           /\ EndpointOutcome(EndpointText(address, port)) = "valid"
           /\ Address(EndpointText(address, port)) = address
           /\ Port(EndpointText(address, port)) = port
<1>. DEFINE v == EndpointText(address, port)
<1>1. v \in DOMAIN Endpoint /\ Endpoint[v] = <<address, Decimal[port]>>
  BY CommandLineAssumption DEF EndpointText
<1>. HIDE DEF v
<1>2. /\ Decimal[port] \in Digits /\ Number[Decimal[port]] = port
      /\ Decimal[port] \in DOMAIN Number /\ Decimal[port] # Empty
  BY ConfigurationAssumption
<1>3. EndpointOutcome(v) = "valid"
  <2>1. PortOutcome(Decimal[port]) = "valid"
    BY <1>2, ConfigurationAssumption, CommandLineAssumption DEF PortOutcome
  <2>. QED
    BY <1>1, <1>2, <2>1 DEF EndpointOutcome
<1>4. v \in Values \ DOMAIN Special
  BY <1>1, <1>2, CommandLineAssumption, ConfigurationAssumption
<1>. QED
  BY <1>1, <1>2, <1>3, <1>4, DigitsUnsigned DEF v, Address, Port

\* The parser of the arguments, between two options.
Reads(parsed, tunnel, option) ==
    /\ DOMAIN parsed = DOMAIN Unparsed
    /\ parsed.end = "none" /\ parsed.option = option /\ parsed.side_selected = TRUE
    /\ parsed.config = tunnel /\ tunnel \in Config

LEMMA OptionTaken ==
    ASSUME NEW parsed, NEW tunnel, Reads(parsed, tunnel, NoOption), NEW option \in {"-i", "-t", "-u"}
    PROVE  Reads(TakeArgument(parsed, option), tunnel, option)
<1>1. TakeArgument(parsed, option) = [parsed EXCEPT !.option = option]
  BY DEF TakeArgument, Reads
<1>. QED
  BY <1>1 DEF Reads, Unparsed

LEMMA ArgumentTaken ==
    ASSUME NEW parsed, NEW tunnel, NEW next \in Config, NEW option \in {"-i", "-t", "-u"}, NEW argument,
           Reads(parsed, tunnel, option), WithArgument(parsed, argument) = Set(parsed, "valid", next)
    PROVE  Reads(TakeArgument(parsed, argument), next, NoOption)
<1>1. option # NoOption
  BY CommandLineAssumption DEF DirectOptions
<1>2. TakeArgument(parsed, argument) = [parsed EXCEPT !.config = next, !.option = NoOption]
  BY <1>1 DEF TakeArgument, Reads, Set
<1>. QED
  BY <1>2 DEF Reads, Unparsed

LEMMA InterfaceTaken ==
    ASSUME NEW parsed, NEW tunnel, Reads(parsed, tunnel, NoOption), NEW v \in Values
    PROVE  Reads(TakeArgument(TakeArgument(parsed, "-i"), v),
                 [tunnel EXCEPT !.udp_iface_ip_ = v, !.udp_iface_reference_ = v], NoOption)
<1>. DEFINE named == TakeArgument(parsed, "-i")
            next == [tunnel EXCEPT !.udp_iface_ip_ = v, !.udp_iface_reference_ = v]
<1>1. Reads(named, tunnel, "-i")
  BY OptionTaken
<1>2. next \in Config
  BY <1>1 DEF Reads, Config
<1>. HIDE DEF named
<1>3. WithArgument(named, v) = Set(named, "valid", next)
  BY <1>1 DEF WithArgument, Reads
<1>. HIDE DEF next
<1>4. Reads(TakeArgument(named, v), next, NoOption)
  BY <1>1, <1>2, <1>3, ArgumentTaken
<1>. QED
  BY <1>4 DEF named, next

LEMMA GroupTaken ==
    ASSUME NEW parsed, NEW tunnel, Reads(parsed, tunnel, NoOption), NEW v,
           EndpointOutcome(v) = "valid", Address(v) \in Values, Port(v) \in 0 .. MaxPort
    PROVE  Reads(TakeArgument(TakeArgument(parsed, "-u"), v),
                 [tunnel EXCEPT !.use_clt_grp_ = FALSE, !.udp_dst_ip_ = Address(v), !.udp_dst_port_ = Port(v)], NoOption)
<1>. DEFINE named == TakeArgument(parsed, "-u")
            next == [tunnel EXCEPT !.use_clt_grp_ = FALSE, !.udp_dst_ip_ = Address(v), !.udp_dst_port_ = Port(v)]
<1>1. Reads(named, tunnel, "-u")
  BY OptionTaken
<1>2. next \in Config
  BY <1>1 DEF Reads, Config
<1>. HIDE DEF named
<1>3. WithArgument(named, v) = Set(named, "valid", next)
  BY <1>1 DEF WithArgument, Reads, AfterGroup
<1>. HIDE DEF next
<1>4. Reads(TakeArgument(named, v), next, NoOption)
  BY <1>1, <1>2, <1>3, ArgumentTaken
<1>. QED
  BY <1>4 DEF named, next

LEMMA ServerTaken ==
    ASSUME NEW parsed, NEW tunnel, Reads(parsed, tunnel, NoOption), tunnel.is_client_, NEW v,
           EndpointOutcome(v) = "valid", Address(v) \in Values, Port(v) \in 0 .. MaxPort
    PROVE  Reads(TakeArgument(TakeArgument(parsed, "-t"), v),
                 [tunnel EXCEPT !.tcp_srv_ip_ = Address(v), !.tcp_srv_port_ = Port(v)], NoOption)
<1>. DEFINE named == TakeArgument(parsed, "-t")
            next == [tunnel EXCEPT !.tcp_srv_ip_ = Address(v), !.tcp_srv_port_ = Port(v)]
<1>1. Reads(named, tunnel, "-t")
  BY OptionTaken
<1>2. next \in Config
  BY <1>1 DEF Reads, Config
<1>. HIDE DEF named
<1>3. WithArgument(named, v) = Set(named, "valid", next)
  BY <1>1 DEF WithArgument, Reads
<1>. HIDE DEF next
<1>4. Reads(TakeArgument(named, v), next, NoOption)
  BY <1>1, <1>2, <1>3, ArgumentTaken
<1>. QED
  BY <1>4 DEF named, next

LEMMA PortTaken ==
    ASSUME NEW parsed, NEW tunnel, Reads(parsed, tunnel, NoOption), ~tunnel.is_client_, NEW v,
           PortOutcome(v) = "valid", Number[v] \in 0 .. MaxPort
    PROVE  Reads(TakeArgument(TakeArgument(parsed, "-t"), v), [tunnel EXCEPT !.tcp_srv_port_ = Number[v]], NoOption)
<1>. DEFINE named == TakeArgument(parsed, "-t")
            next == [tunnel EXCEPT !.tcp_srv_port_ = Number[v]]
<1>1. Reads(named, tunnel, "-t")
  BY OptionTaken
<1>2. next \in Config
  BY <1>1 DEF Reads, Config
<1>. HIDE DEF named
<1>3. WithArgument(named, v) = Set(named, "valid", next)
  BY <1>1 DEF WithArgument, Reads
<1>. HIDE DEF next
<1>4. Reads(TakeArgument(named, v), next, NoOption)
  BY <1>1, <1>2, <1>3, ArgumentTaken
<1>. QED
  BY <1>4 DEF named, next

LEMMA SameSequence ==
    ASSUME NEW V, NEW s \in Seq(V), NEW t \in Seq(V), Len(s) = Len(t), \A i \in 1 .. Len(s) : s[i] = t[i]
    PROVE  s = t
OBVIOUS

LEMMA SameTunnel ==
    ASSUME NEW a \in Config, NEW b \in Config,
           a.is_client_ = b.is_client_, a.use_clt_grp_ = b.use_clt_grp_,
           a.udp_iface_reference_ = b.udp_iface_reference_, a.udp_iface_ip_ = b.udp_iface_ip_,
           a.tcp_srv_ip_ = b.tcp_srv_ip_, a.tcp_srv_port_ = b.tcp_srv_port_,
           a.udp_dst_ip_ = b.udp_dst_ip_, a.udp_dst_port_ = b.udp_dst_port_
    PROVE  a = b
BY DEF Config

\* What is known of a tunnel of the file.
Made(tunnel) ==
    /\ tunnel \in Config
    /\ tunnel.udp_iface_reference_ \in DOMAIN Interface
    /\ tunnel.udp_iface_ip_ = Interface[tunnel.udp_iface_reference_]
    /\ tunnel.tcp_srv_port_ \in DOMAIN Decimal \cap 1 .. MaxPort
    /\ ~tunnel.use_clt_grp_ =>
         tunnel.udp_dst_ip_ \in Addresses /\ tunnel.udp_dst_port_ \in DOMAIN Decimal \cap 1 .. MaxPort
    /\ tunnel.use_clt_grp_ => tunnel.udp_dst_ip_ = Empty /\ tunnel.udp_dst_port_ = 0 /\ ~tunnel.is_client_
    /\ IF tunnel.is_client_ THEN tunnel.tcp_srv_ip_ \in Addresses ELSE tunnel.tcp_srv_ip_ = Empty

LEMMA EndpointMade ==
    ASSUME NEW v, ValidEndpoint(v)
    PROVE  Address(v) \in Addresses /\ Port(v) \in DOMAIN Decimal \cap 1 .. MaxPort
BY CommandLineAssumption DEF ValidEndpoint, ValidPort, Address, Port

LEMMA MapMade ==
    ASSUME NEW map, NEW D, map \in [D -> Values], GoodMap(map)
    PROVE  Made(MakeTunnel(map))
<1>1. MakeTunnel(map) \in Config /\ map["udp_interface"] \in DOMAIN Interface
  BY TunnelMade DEF GoodMap
<1>2. CASE GoodClient(map)
  <2>1. MakeTunnel(map) = ClientOf(map)
    BY <1>2, TunnelMade
  <2>2. ValidEndpoint(map["tcp_server"]) /\ ValidEndpoint(map["udp_group"])
    BY <1>2 DEF GoodClient
  <2>. QED
    BY <1>1, <2>1, <2>2, EndpointMade DEF Made, ClientOf
<1>3. CASE GoodServer(map)
  <2>1. Unsigned(map["tcp_listen_port"]) \in DOMAIN Decimal \cap 1 .. MaxPort
    BY <1>3, CommandLineAssumption DEF GoodServer, ValidPort
  <2>2. CASE Replicates(map)
    <3>1. MakeTunnel(map) = ReplicaOf(map)
      BY <1>3, <2>2, TunnelMade
    <3>. QED
      BY <1>1, <2>1, <3>1 DEF Made, ReplicaOf
  <2>3. CASE ~Replicates(map)
    <3>1. MakeTunnel(map) = ServerOf(map)
      BY <1>3, <2>3, TunnelMade
    <3>2. ValidEndpoint(map["udp_destination"])
      BY <1>3, <2>3 DEF GoodServer, Replicates
    <3>. QED
      BY <1>1, <2>1, <3>1, <3>2, EndpointMade DEF Made, ServerOf
  <2>. QED
    BY <2>2, <2>3
<1>. QED
  BY <1>2, <1>3 DEF GoodMap

LEMMA SideTaken ==
    ASSUME NEW client \in BOOLEAN
    PROVE  Reads(TakeArgument(Unparsed, IF client THEN "--client" ELSE "--server"),
                 [NoConfig EXCEPT !.use_clt_grp_ = TRUE, !.is_client_ = client], NoOption)
<1>. DEFINE argument == IF client THEN "--client" ELSE "--server"
            start == [NoConfig EXCEPT !.use_clt_grp_ = TRUE]
            next == [start EXCEPT !.is_client_ = client]
            given == [NoConfig EXCEPT !.use_clt_grp_ = TRUE, !.is_client_ = client]
<1>1. NoConfig \in Config
  BY ConfigurationAssumption DEF NoConfig, Config
<1>2. given \in Config
  BY <1>1 DEF Config
<1>3. Unparsed.config = start /\ next = given
  BY <1>1 DEF Unparsed, Config
<1>4. TakeArgument(Unparsed, argument) = [Unparsed EXCEPT !.side_selected = TRUE, !.config.is_client_ = client]
  <2>1. CASE client = TRUE
    BY <2>1 DEF TakeArgument, Unparsed
  <2>2. CASE client = FALSE
    <3>1. argument = "--server" /\ (argument \in {"--client", "-c"}) = FALSE
      BY <2>2
    <3>2. TakeArgument(Unparsed, argument) =
            [Unparsed EXCEPT !.side_selected = TRUE, !.config.is_client_ = argument \in {"--client", "-c"}]
      BY <3>1 DEF TakeArgument, Unparsed
    <3>. QED
      BY <2>2, <3>1, <3>2
  <2>. QED
    BY <2>1, <2>2
<1>. HIDE DEF given
<1>5. [Unparsed EXCEPT !.side_selected = TRUE, !.config.is_client_ = client].config = given
  BY <1>1, <1>3 DEF Unparsed
<1>6. Reads(TakeArgument(Unparsed, argument), given, NoOption)
  BY <1>2, <1>4, <1>5 DEF Reads, Unparsed
<1>. QED
  BY <1>6 DEF given

\* What is shown for a tunnel is parsed to the same tunnel, but for the interface's
\* address, which the constructor looks up.
LEMMA DirectAgain ==
    ASSUME NEW tunnel, Made(tunnel), tunnel.udp_iface_reference_ \notin DOMAIN Special
    PROVE  LET parsed == ParseCommandLineConfig(Typed(DirectCommand(tunnel)))
           IN  parsed.end = "none" /\ Constructed(parsed.config) = Constructed(tunnel)
<1>. DEFINE name == tunnel.udp_iface_reference_
            group == EndpointText(tunnel.udp_dst_ip_, tunnel.udp_dst_port_)
            server == EndpointText(tunnel.tcp_srv_ip_, tunnel.tcp_srv_port_)
            listen == Decimal[tunnel.tcp_srv_port_]
            command == DirectCommand(tunnel)
            again == [tunnel EXCEPT !.udp_iface_ip_ = name]
            last == FoldLeft(TakeArgument, Unparsed, command)
            started == [NoConfig EXCEPT !.use_clt_grp_ = TRUE, !.is_client_ = tunnel.is_client_]
            named == [started EXCEPT !.udp_iface_ip_ = name, !.udp_iface_reference_ = name]
<1>1. name \in Values \ DOMAIN Special /\ DirectOptions \subseteq Values \ DOMAIN Special
  BY ConfigurationAssumption, CommandLineAssumption DEF Made
<1>2. /\ listen \in Values \ DOMAIN Special /\ PortOutcome(listen) = "valid"
      /\ Number[listen] = tunnel.tcp_srv_port_
  BY ConfigurationAssumption, CommandLineAssumption DEF Made, PortOutcome
<1>3. ASSUME ~tunnel.use_clt_grp_
      PROVE  /\ group \in Values \ DOMAIN Special /\ EndpointOutcome(group) = "valid"
             /\ Address(group) = tunnel.udp_dst_ip_ /\ Port(group) = tunnel.udp_dst_port_
  BY <1>3, EndpointWritten DEF Made
<1>4. ASSUME tunnel.is_client_
      PROVE  /\ server \in Values \ DOMAIN Special /\ EndpointOutcome(server) = "valid"
             /\ Address(server) = tunnel.tcp_srv_ip_ /\ Port(server) = tunnel.tcp_srv_port_
  BY <1>4, EndpointWritten DEF Made
<1>. HIDE DEF group, server, listen
<1>5. SUFFICES /\ command \in Seq(Values) /\ \A i \in DOMAIN command : command[i] \notin DOMAIN Special
               /\ Reads(last, again, NoOption)
  <2>1. Typed(command) = command
    BY <1>5, TypedAsIs
  <2>2. Complete(again)
    BY ConfigurationAssumption DEF Made, Complete, Config
  <2>3. ParseCommandLineConfig(command) = last /\ last.end = "none" /\ last.config = again
    BY <1>5, <2>2 DEF ParseCommandLineConfig, Reads
  <2>4. Constructed(again) = Constructed(tunnel)
    <3>1. tunnel.udp_iface_ip_ = Interface[name] /\ name \in DOMAIN Interface /\ tunnel \in Config
      BY DEF Made
    <3>2. Interface[name] \in DOMAIN Interface /\ Interface[Interface[name]] = Interface[name]
      BY <3>1, ConfigurationAssumption
    <3>3. Constructed(tunnel) = [tunnel EXCEPT !.udp_iface_ip_ = Interface[name]]
      BY <3>1, <3>2 DEF Constructed, Config
    <3>4. again.udp_iface_ip_ = name /\ again \in Config
      BY <3>1, <1>1 DEF Config
    <3>5. Constructed(again) = [again EXCEPT !.udp_iface_ip_ = Interface[name]]
      BY <3>1, <3>4 DEF Constructed, Config
    <3>6. [again EXCEPT !.udp_iface_ip_ = Interface[name]] = [tunnel EXCEPT !.udp_iface_ip_ = Interface[name]]
      BY <3>1 DEF Config
    <3>. QED
      BY <3>3, <3>5, <3>6
  <2>. QED
    BY <2>1, <2>3, <2>4
<1>6. ASSUME command \in Seq(Values)
      PROVE  \E h : h[0] = Unparsed /\ h[Len(command)] = last
                    /\ \A k \in 0 .. Len(command) - 1 : h[k + 1] = TakeArgument(h[k], command[k + 1])
  <2>1. DOMAIN command = 1 .. Len(command) /\ Len(command) \in Nat
    BY <1>6
  <2>2. Parsed!Result(Unparsed, command) = last
    BY DEF Parsed!Result, FoldLeft, Parsed!FoldLeft, MapThenFoldSet, Parsed!MapThenFoldSet, Max, Parsed!Max
  <2>. HIDE DEF last, command
  <2>3. PICK h : Parsed!States(h, Unparsed, Len(command), command)
    BY <2>1, Parsed!FoldStates
  <2>. QED
    BY <2>2, <2>3 DEF Parsed!States
<1>7. ASSUME NEW side, side = TakeArgument(Unparsed, IF tunnel.is_client_ THEN "--client" ELSE "--server")
      PROVE  Reads(TakeArgument(TakeArgument(side, "-i"), name), named, NoOption)
  <2>1. tunnel.is_client_ \in BOOLEAN
    BY DEF Made, Config
  <2>2. Reads(side, started, NoOption)
    BY <1>7, <2>1, SideTaken
  <2>. HIDE DEF started
  <2>. QED
    BY <1>1, <2>2, InterfaceTaken
<1>. HIDE DEF last
<1>8. CASE tunnel.is_client_
  <2>1. command = <<"--client", "-i", name, "-t", server, "-u", group>> /\ ~tunnel.use_clt_grp_
    BY <1>8 DEF DirectCommand, Made, group, server
  <2>. HIDE DEF command
  <2>2. command \in Seq(Values) /\ Len(command) = 7 /\ \A i \in DOMAIN command : command[i] \notin DOMAIN Special
    BY <1>1, <1>3, <1>4, <1>8, <2>1 DEF DirectOptions
  <2>3. PICK h : h[0] = Unparsed /\ h[7] = last /\ \A k \in 0 .. 6 : h[k + 1] = TakeArgument(h[k], command[k + 1])
    BY <1>6, <2>2
  <2>4. /\ h[1] = TakeArgument(Unparsed, "--client")
        /\ h[3] = TakeArgument(TakeArgument(h[1], "-i"), name)
        /\ h[5] = TakeArgument(TakeArgument(h[3], "-t"), server)
        /\ h[7] = TakeArgument(TakeArgument(h[5], "-u"), group)
    BY <2>1, <2>3
  <2>5. Reads(h[3], named, NoOption)
    BY <1>7, <1>8, <2>4
  <2>. DEFINE served == [named EXCEPT !.tcp_srv_ip_ = tunnel.tcp_srv_ip_, !.tcp_srv_port_ = tunnel.tcp_srv_port_]
              grouped == [served EXCEPT !.use_clt_grp_ = FALSE,
                                        !.udp_dst_ip_ = tunnel.udp_dst_ip_, !.udp_dst_port_ = tunnel.udp_dst_port_]
  <2>6. /\ tunnel.tcp_srv_ip_ \in Values /\ tunnel.udp_dst_ip_ \in Values
        /\ tunnel.tcp_srv_port_ \in 0 .. MaxPort /\ tunnel.udp_dst_port_ \in 0 .. MaxPort
    BY DEF Made, Config
  <2>7. named.is_client_
    BY <1>8 DEF NoConfig
  <2>8. grouped = again
    BY <1>8, <2>1 DEF NoConfig, Made, Config
  <2>. HIDE DEF named
  <2>9. Reads(h[5], served, NoOption)
    <3>1. /\ EndpointOutcome(server) = "valid"
          /\ Address(server) = tunnel.tcp_srv_ip_ /\ Port(server) = tunnel.tcp_srv_port_
      BY <1>4, <1>8
    <3>2. Reads(TakeArgument(TakeArgument(h[3], "-t"), server),
                [named EXCEPT !.tcp_srv_ip_ = Address(server), !.tcp_srv_port_ = Port(server)], NoOption)
      BY <2>5, <2>6, <2>7, <3>1, ServerTaken
    <3>. QED
      BY <2>4, <3>1, <3>2
  <2>. HIDE DEF served
  <2>10. Reads(h[7], grouped, NoOption)
    BY <1>3, <2>1, <2>4, <2>6, <2>9, GroupTaken
  <2>. QED
    BY <2>2, <2>3, <2>8, <2>10
<1>9. CASE ~tunnel.is_client_ /\ tunnel.use_clt_grp_
  <2>1. command = <<"--server", "-i", name, "-t", listen>>
    BY <1>9 DEF DirectCommand, listen
  <2>. HIDE DEF command
  <2>2. command \in Seq(Values) /\ Len(command) = 5 /\ \A i \in DOMAIN command : command[i] \notin DOMAIN Special
    BY <1>1, <1>2, <2>1 DEF DirectOptions
  <2>3. PICK h : h[0] = Unparsed /\ h[5] = last /\ \A k \in 0 .. 4 : h[k + 1] = TakeArgument(h[k], command[k + 1])
    BY <1>6, <2>2
  <2>4. /\ h[1] = TakeArgument(Unparsed, "--server")
        /\ h[3] = TakeArgument(TakeArgument(h[1], "-i"), name)
        /\ h[5] = TakeArgument(TakeArgument(h[3], "-t"), listen)
    BY <2>1, <2>3
  <2>5. Reads(h[3], named, NoOption)
    BY <1>7, <1>9, <2>4
  <2>. DEFINE listening == [named EXCEPT !.tcp_srv_port_ = tunnel.tcp_srv_port_]
  <2>6. tunnel.tcp_srv_port_ \in 0 .. MaxPort
    BY DEF Made, Config
  <2>7. ~named.is_client_
    BY <1>9 DEF NoConfig
  <2>8. listening = again
    <3>1. /\ tunnel.is_client_ = FALSE /\ tunnel.use_clt_grp_ = TRUE /\ tunnel.tcp_srv_ip_ = Empty
          /\ tunnel.udp_dst_ip_ = Empty /\ tunnel.udp_dst_port_ = 0 /\ tunnel \in Config
      BY <1>9 DEF Made, Config
    <3>2. NoConfig \in Config /\ name \in Values
      BY <1>1, ConfigurationAssumption DEF NoConfig, Config
    <3>3. listening \in Config /\ again \in Config
      BY <3>1, <3>2 DEF Config
    <3>4. /\ NoConfig.tcp_srv_ip_ = Empty /\ NoConfig.udp_dst_ip_ = Empty /\ NoConfig.udp_dst_port_ = 0
          /\ DOMAIN NoConfig = DOMAIN tunnel
      BY <3>1 DEF NoConfig, Config
    <3>. QED
      BY <3>1, <3>2, <3>3, <3>4, SameTunnel DEF Config
  <2>. HIDE DEF named
  <2>9. Reads(h[5], listening, NoOption)
    BY <1>2, <2>4, <2>5, <2>6, <2>7, PortTaken
  <2>. QED
    BY <2>2, <2>3, <2>8, <2>9
<1>10. CASE ~tunnel.is_client_ /\ ~tunnel.use_clt_grp_
  <2>1. command = <<"--server", "-i", name, "-t", listen, "-u", group>>
    <3>. DEFINE whole == <<"--server", "-i", name, "-t", listen, "-u", group>>
    <3>1. command = <<"--server", "-i", name, "-t", listen>> \o <<"-u", group>>
      BY <1>10 DEF DirectCommand, listen, group
    <3>. HIDE DEF command
    <3>2. {name, listen, group} \subseteq Values /\ DirectOptions \subseteq Values
      BY <1>1, <1>2, <1>3, <1>10
    <3>3. command \in Seq(Values) /\ Len(command) = 7
      BY <3>1, <3>2 DEF DirectOptions
    <3>4. whole \in Seq(Values) /\ Len(whole) = 7
      BY <3>2 DEF DirectOptions
    <3>5. /\ command[1] = whole[1] /\ command[2] = whole[2] /\ command[3] = whole[3] /\ command[4] = whole[4]
          /\ command[5] = whole[5] /\ command[6] = whole[6] /\ command[7] = whole[7]
      BY <3>1
    <3>6. \A i \in 1 .. 7 : command[i] = whole[i]
      BY <3>5
    <3>. HIDE DEF whole
    <3>7. command = whole
      BY <3>3, <3>4, <3>6, SameSequence
    <3>. QED
      BY <3>7 DEF whole
  <2>. HIDE DEF command
  <2>2. command \in Seq(Values) /\ Len(command) = 7 /\ \A i \in DOMAIN command : command[i] \notin DOMAIN Special
    BY <1>1, <1>2, <1>3, <1>10, <2>1 DEF DirectOptions
  <2>3. PICK h : h[0] = Unparsed /\ h[7] = last /\ \A k \in 0 .. 6 : h[k + 1] = TakeArgument(h[k], command[k + 1])
    BY <1>6, <2>2
  <2>4. /\ h[1] = TakeArgument(Unparsed, "--server")
        /\ h[3] = TakeArgument(TakeArgument(h[1], "-i"), name)
        /\ h[5] = TakeArgument(TakeArgument(h[3], "-t"), listen)
        /\ h[7] = TakeArgument(TakeArgument(h[5], "-u"), group)
    BY <2>1, <2>3
  <2>5. Reads(h[3], named, NoOption)
    BY <1>7, <1>10, <2>4
  <2>. DEFINE listening == [named EXCEPT !.tcp_srv_port_ = tunnel.tcp_srv_port_]
              grouped == [listening EXCEPT !.use_clt_grp_ = FALSE,
                                           !.udp_dst_ip_ = tunnel.udp_dst_ip_, !.udp_dst_port_ = tunnel.udp_dst_port_]
  <2>6. /\ tunnel.udp_dst_ip_ \in Values
        /\ tunnel.tcp_srv_port_ \in 0 .. MaxPort /\ tunnel.udp_dst_port_ \in 0 .. MaxPort
    BY DEF Made, Config
  <2>7. ~named.is_client_
    BY <1>10 DEF NoConfig
  <2>8. grouped = again
    <3>1. /\ tunnel.is_client_ = FALSE /\ tunnel.use_clt_grp_ = FALSE /\ tunnel.tcp_srv_ip_ = Empty
          /\ tunnel \in Config
      BY <1>10 DEF Made, Config
    <3>2. NoConfig \in Config /\ name \in Values
      BY <1>1, ConfigurationAssumption DEF NoConfig, Config
    <3>3. grouped \in Config /\ again \in Config
      BY <3>1, <3>2 DEF Config
    <3>4. /\ NoConfig.tcp_srv_ip_ = Empty /\ NoConfig.udp_dst_ip_ = Empty /\ NoConfig.udp_dst_port_ = 0
          /\ DOMAIN NoConfig = DOMAIN tunnel
      BY <3>1 DEF NoConfig, Config
    <3>. QED
      BY <3>1, <3>2, <3>3, <3>4, SameTunnel DEF Config
  <2>. HIDE DEF named
  <2>9. Reads(h[5], listening, NoOption)
    BY <1>2, <2>4, <2>5, <2>6, <2>7, PortTaken
  <2>. HIDE DEF listening
  <2>10. Reads(h[7], grouped, NoOption)
    BY <1>3, <1>10, <2>4, <2>6, <2>9, GroupTaken
  <2>. QED
    BY <2>2, <2>3, <2>8, <2>10
<1>. QED
  BY <1>8, <1>9, <1>10

\* The command that is shown for a tunnel of the file makes that tunnel, whatever the
\* file is, unless the name of its interface is one that a shell does not take as it
\* is: the command quotes nothing.
THEOREM CommandAlwaysEquivalent == Spec => []EquivalentCommand
<1>1. GivenOK => EquivalentCommand
  <2>. SUFFICES ASSUME GivenOK, Loaded # Refused, NEW alias \in DOMAIN Loaded,
                       Loaded[alias].udp_iface_reference_ \notin DOMAIN Special
                PROVE  LET parsed == ParseCommandLineConfig(Typed(DirectCommand(Loaded[alias])))
                       IN  parsed.end = "none" /\ Constructed(parsed.config) = Constructed(Loaded[alias])
    BY DEF EquivalentCommand
  <2>1. file \in Seq(Line) /\ Loaded = ParseConfiguration(file)
    BY DEF GivenOK, Loaded
  <2>2. PICK s \in Sections(file) : alias = file[s].key
    BY <2>1, SectionOfTunnel
  <2>3. PICK map : MapOf(file, FieldsOf(file, s), map) /\ GoodMap(map) /\ Loaded[alias] = MakeTunnel(map)
    BY <2>1, <2>2, MapOfTunnel
  <2>4. Made(Loaded[alias])
    BY <2>3, MapMade DEF MapOf
  <2>. QED
    BY <2>4, DirectAgain
<1>. QED
  BY <1>1, DisplayAlways, PTL DEF DisplayInv

-----------------------------------------------------------------------------
(* A text that is cut off. *)

\* What is left of a text has its first lines, but for the digits of the last one.
IsCut(text, cut, k) ==
    /\ k \in DOMAIN text /\ cut \in Seq(Line) /\ Len(cut) = k
    /\ \A i \in 1 .. k : cut[i].kind = text[i].kind /\ cut[i].key = text[i].key
    /\ \A i \in 1 .. k : cut[i].value = text[i].value \/ (i = k /\ cut[k].value \in Digits /\ text[k].value \in Digits)

LEMMA CutsAre ==
    ASSUME NEW text \in Seq(Line), NEW cut \in Cuts(text)
    PROVE  \E k \in DOMAIN text : IsCut(text, cut, k)
<1>1. CASE cut \in {SubSeq(text, 1, k) : k \in DOMAIN text}
  <2>1. PICK k \in DOMAIN text : cut = SubSeq(text, 1, k)
    BY <1>1
  <2>2. cut \in Seq(Line) /\ Len(cut) = k /\ \A i \in 1 .. k : cut[i] = text[i]
    BY <2>1
  <2>. QED
    BY <2>2 DEF IsCut
<1>2. CASE cut \notin {SubSeq(text, 1, k) : k \in DOMAIN text}
  <2>0. PICK k \in DOMAIN text :
          /\ text[k].value \in DOMAIN Shorter
          /\ \E v \in Shorter[text[k].value] : cut = [SubSeq(text, 1, k) EXCEPT ![k].value = v]
    BY <1>2 DEF Cuts
  <2>1. PICK v : /\ text[k].value \in DOMAIN Shorter /\ v \in Shorter[text[k].value]
                 /\ cut = [SubSeq(text, 1, k) EXCEPT ![k].value = v]
    BY <2>0
  <2>. DEFINE left == SubSeq(text, 1, k)
              line == [left[k] EXCEPT !.value = v]
  <2>2. left \in Seq(Line) /\ Len(left) = k /\ \A i \in 1 .. k : left[i] = text[i]
    OBVIOUS
  <2>3. text[k].value \in Digits /\ v \in Digits /\ v \in Values
    BY <2>1, ProgramAssumption, ConfigurationAssumption
  <2>4. k \in 1 .. k /\ left[k] \in Line /\ left[k] = text[k]
    BY <2>2
  <2>5. line \in Line /\ line.kind = text[k].kind /\ line.key = text[k].key /\ line.value = v
    BY <2>3, <2>4 DEF Line
  <2>6. cut = [left EXCEPT ![k] = line]
    BY <2>1
  <2>. HIDE DEF left, line
  <2>7. cut \in Seq(Line) /\ Len(cut) = k /\ cut[k] = line /\ \A i \in 1 .. k : i # k => cut[i] = text[i]
    BY <2>2, <2>4, <2>5, <2>6
  <2>. QED
    BY <2>3, <2>5, <2>7 DEF IsCut
<1>. QED
  BY <1>1, <1>2

LEMMA CutSections ==
    ASSUME NEW text \in Seq(Line), NEW cut, NEW k, IsCut(text, cut, k)
    PROVE  /\ Sections(cut) = Sections(text) \cap 1 .. k
           /\ \A s \in Sections(cut) : FieldsOf(cut, s) = FieldsOf(text, s) \cap 1 .. k
<1>1. DOMAIN cut = 1 .. k /\ k \in 1 .. Len(text) /\ DOMAIN text = 1 .. Len(text)
  BY DEF IsCut
<1>2. Sections(cut) = Sections(text) \cap 1 .. k
  BY <1>1 DEF IsCut, Sections
<1>3. ASSUME NEW s \in Sections(cut), NEW i \in 1 .. k
      PROVE  i \in FieldsOf(cut, s) <=> i \in FieldsOf(text, s)
  BY <1>1, <1>2 DEF IsCut, FieldsOf, Sections
<1>4. \A s \in Sections(cut) : FieldsOf(cut, s) \subseteq 1 .. k
  BY <1>1 DEF FieldsOf
<1>. QED
  BY <1>2, <1>3, <1>4

\* Of a server, all but the port is kept, or the destination has been lost.
SameButPort(m, n) ==
    /\ GoodServer(m) /\ GoodServer(n) /\ n["udp_interface"] = m["udp_interface"]
    /\ ~Replicates(n) => ~Replicates(m) /\ n["udp_destination"] = m["udp_destination"]

LEMMA CutMap ==
    ASSUME NEW text \in Seq(Line), NEW cut, NEW k, IsCut(text, cut, k), NEW s \in Sections(cut),
           NEW m, MapOf(text, FieldsOf(text, s), m), GoodMap(m),
           NEW n, MapOf(cut, FieldsOf(cut, s), n), GoodMap(n)
    PROVE  \/ n = m
           \/ m["udp_interface"] \in Digits
           \/ SameButPort(m, n) /\ \A t \in Sections(cut) : t <= s
<1>1. /\ s \in Sections(text) /\ FieldsOf(cut, s) = FieldsOf(text, s) \cap 1 .. k
      /\ Sections(cut) = Sections(text) \cap 1 .. k /\ k \in Nat
  BY CutSections DEF IsCut
<1>2. ASSUME NEW key \in DOMAIN n
      PROVE  key \in DOMAIN m /\ (n[key] = m[key] \/ (n[key] \in Digits /\ m[key] \in Digits))
  <2>1. PICK i \in FieldsOf(cut, s) : key = cut[i].key /\ n[key] = cut[i].value
    BY <1>2 DEF MapOf
  <2>2. i \in FieldsOf(text, s) /\ i \in 1 .. k
    BY <1>1, <2>1
  <2>3. key = text[i].key /\ m[key] = text[i].value /\ key \in DOMAIN m
    BY <2>1, <2>2 DEF IsCut, MapOf
  <2>4. cut[i].value = text[i].value \/ (cut[i].value \in Digits /\ text[i].value \in Digits)
    BY <2>2 DEF IsCut
  <2>. QED
    BY <2>1, <2>3, <2>4
<1>3. /\ m = [key \in DOMAIN m |-> m[key]] /\ n = [key \in DOMAIN n |-> n[key]]
  BY DEF MapOf
<1>4. CASE \E t \in Sections(cut) : ~(t <= s)
  <2>1. PICK t \in Sections(text) \cap 1 .. k : t > s
    BY <1>1, <1>4 DEF Sections, IsCut
  <2>2. \A i \in FieldsOf(text, s) : i \in 1 .. k /\ i # k
    BY <1>1, <2>1 DEF FieldsOf, Sections, IsCut
  <2>3. FieldsOf(cut, s) = FieldsOf(text, s)
    BY <1>1, <2>2
  <2>4. \A i \in FieldsOf(text, s) : cut[i].key = text[i].key /\ cut[i].value = text[i].value
    BY <2>2 DEF IsCut
  <2>5. DOMAIN n = DOMAIN m
    BY <2>3, <2>4 DEF MapOf
  <2>6. \A key \in DOMAIN m : n[key] = m[key]
    BY <2>3, <2>4 DEF MapOf
  <2>. QED
    BY <1>3, <2>5, <2>6
<1>5. CASE \A t \in Sections(cut) : t <= s
  <2>1. /\ "client" \notin Digits /\ "server" \notin Digits /\ "replicate_client" \notin Digits
        /\ \A v : ValidEndpoint(v) => v \notin Digits
    BY ConfigurationAssumption DEF ValidEndpoint
  <2>2. CASE GoodClient(n)
    <3>1. "mode" \in DOMAIN n /\ n["mode"] = "client"
      BY <2>2 DEF GoodClient, ClientFields
    <3>2. m["mode"] = "client"
      BY <1>2, <2>1, <3>1
    <3>3. GoodClient(m)
      BY <3>2 DEF GoodMap, GoodServer
    <3>4. DOMAIN m = DOMAIN n /\ DOMAIN n = {"mode", "udp_interface", "udp_group", "tcp_server"}
      BY <2>2, <3>3 DEF GoodClient, ClientFields
    <3>5. n["udp_group"] = m["udp_group"] /\ n["tcp_server"] = m["tcp_server"]
      BY <1>2, <2>1, <2>2, <3>4 DEF GoodClient
    <3>6. n["udp_interface"] = m["udp_interface"] \/ m["udp_interface"] \in Digits
      BY <1>2, <3>4
    <3>7. CASE n["udp_interface"] = m["udp_interface"]
      <4>1. \A key \in DOMAIN m : n[key] = m[key]
        BY <3>1, <3>2, <3>4, <3>5, <3>7
      <4>. QED
        BY <1>3, <3>4, <4>1
    <3>. QED
      BY <3>6, <3>7
  <2>3. CASE GoodServer(n)
    <3>1. "mode" \in DOMAIN n /\ n["mode"] = "server" /\ "udp_interface" \in DOMAIN n
      BY <2>3 DEF GoodServer, ServerFields
    <3>2. m["mode"] = "server"
      BY <1>2, <2>1, <3>1
    <3>3. GoodServer(m)
      BY <3>2 DEF GoodMap, GoodClient
    <3>4. n["udp_interface"] = m["udp_interface"] \/ m["udp_interface"] \in Digits
      BY <1>2, <3>1
    <3>5. ASSUME ~Replicates(n)
          PROVE  ~Replicates(m) /\ n["udp_destination"] = m["udp_destination"]
      <4>1. "udp_destination" \in DOMAIN n /\ ValidEndpoint(n["udp_destination"])
        BY <2>3, <3>5 DEF Replicates, GoodServer
      <4>2. "udp_destination" \in DOMAIN m /\ n["udp_destination"] = m["udp_destination"]
        BY <1>2, <2>1, <4>1
      <4>. QED
        BY <3>5, <4>1, <4>2 DEF Replicates
    <3>. QED
      BY <1>5, <2>3, <3>3, <3>4, <3>5 DEF SameButPort
  <2>. QED
    BY <2>2, <2>3 DEF GoodMap
<1>. QED
  BY <1>4, <1>5

\* A text that has been cut off, if it is taken for a configuration at all, has the
\* clients it had, and the servers it had but the last, which may have lost digits of
\* its port or the line with its destination: for all texts, wherever they are cut.
THEOREM OnlyTheLastServerLoses == Spec => []OnlyTheLastServerIsCut
<1>1. GivenOK => OnlyTheLastServerIsCut
  <2>. SUFFICES ASSUME GivenOK, file # NoFile, Loaded # Refused, NEW cut \in Cuts(file),
                       ParseConfiguration(cut) # Refused, NEW alias \in DOMAIN ParseConfiguration(cut)
                PROVE  LET left == ParseConfiguration(cut)
                       IN   \/ left[alias] = Loaded[alias]
                            \/ Loaded[alias].udp_iface_reference_ \in Digits
                            \/ /\ ~left[alias].is_client_
                               /\ \/ left[alias].use_clt_grp_
                                  \/ left[alias] = [Loaded[alias] EXCEPT !.tcp_srv_port_ = left[alias].tcp_srv_port_]
                               /\ \A s \in Sections(cut) : cut[s].key # alias =>
                                    \E t \in Sections(cut) : cut[t].key = alias /\ s < t
    BY DEF OnlyTheLastServerIsCut
  <2>. DEFINE left == ParseConfiguration(cut)
  <2>1. file \in Seq(Line) /\ Loaded = ParseConfiguration(file)
    BY DEF GivenOK, Loaded
  <2>2. PICK k \in DOMAIN file : IsCut(file, cut, k)
    BY <2>1, CutsAre
  <2>3. cut \in Seq(Line)
    BY <2>2 DEF IsCut
  <2>4. PICK s \in Sections(cut) : alias = cut[s].key
    BY <2>3, SectionOfTunnel
  <2>5. s \in Sections(file) /\ file[s].key = alias
    BY <2>1, <2>2, <2>4, CutSections DEF IsCut
  <2>6. PICK m : MapOf(file, FieldsOf(file, s), m) /\ GoodMap(m) /\ Loaded[alias] = MakeTunnel(m)
    BY <2>1, <2>5, MapOfTunnel
  <2>7. PICK n : MapOf(cut, FieldsOf(cut, s), n) /\ GoodMap(n) /\ left[alias] = MakeTunnel(n)
    BY <2>3, <2>4, MapOfTunnel
  <2>8. \/ n = m
        \/ m["udp_interface"] \in Digits
        \/ SameButPort(m, n) /\ \A t \in Sections(cut) : t <= s
    BY <2>1, <2>2, <2>4, <2>6, <2>7, CutMap
  <2>. HIDE DEF left
  <2>9. CASE n = m
    BY <2>6, <2>7, <2>9 DEF left
  <2>10. CASE m["udp_interface"] \in Digits
    <3>1. Loaded[alias].udp_iface_reference_ = m["udp_interface"]
      BY <2>6, TunnelMade DEF MapOf, GoodMap, ClientOf, ReplicaOf, ServerOf
    <3>. QED
      BY <2>10, <3>1
  <2>11. CASE SameButPort(m, n) /\ \A t \in Sections(cut) : t <= s
    <3>1. \A t \in Sections(cut) : cut[t].key # alias => t < s
      <4>1. \A t \in Sections(cut) : t \in Nat
        BY <2>3, DOMAIN cut = 1 .. Len(cut) DEF Sections
      <4>. QED
        BY <2>4, <2>11, <4>1
    <3>2. CASE Replicates(n)
      <4>1. left[alias] = ReplicaOf(n)
        BY <2>7, <2>11, <3>2, TunnelMade DEF SameButPort, MapOf
      <4>2. ~left[alias].is_client_ /\ left[alias].use_clt_grp_
        BY <4>1 DEF ReplicaOf
      <4>. QED
        BY <2>4, <3>1, <4>2 DEF left
    <3>3. CASE ~Replicates(n)
      <4>1. left[alias] = ServerOf(n) /\ left[alias] \in Config
        BY <2>7, <2>11, <3>3, TunnelMade DEF SameButPort, MapOf
      <4>2. Loaded[alias] = ServerOf(m) /\ Loaded[alias] \in Config
        BY <2>6, <2>11, <3>3, TunnelMade DEF SameButPort, MapOf
      <4>. DEFINE again == [Loaded[alias] EXCEPT !.tcp_srv_port_ = left[alias].tcp_srv_port_]
      <4>3. n["udp_interface"] = m["udp_interface"] /\ n["udp_destination"] = m["udp_destination"]
        BY <2>11, <3>3 DEF SameButPort
      <4>4. again \in Config
        BY <4>1, <4>2 DEF Config
      <4>5. /\ again.is_client_ = left[alias].is_client_ /\ again.use_clt_grp_ = left[alias].use_clt_grp_
            /\ again.udp_iface_reference_ = left[alias].udp_iface_reference_
            /\ again.udp_iface_ip_ = left[alias].udp_iface_ip_
            /\ again.tcp_srv_ip_ = left[alias].tcp_srv_ip_ /\ again.tcp_srv_port_ = left[alias].tcp_srv_port_
            /\ again.udp_dst_ip_ = left[alias].udp_dst_ip_ /\ again.udp_dst_port_ = left[alias].udp_dst_port_
        BY <4>1, <4>2, <4>3 DEF ServerOf
      <4>6. left[alias] = again
        BY <4>1, <4>4, <4>5, SameTunnel
      <4>7. ~left[alias].is_client_
        BY <4>1 DEF ServerOf
      <4>. QED
        BY <2>4, <3>1, <4>6, <4>7 DEF left
    <3>. QED
      BY <3>2, <3>3
  <2>. QED
    BY <2>8, <2>9, <2>10, <2>11
<1>. QED
  BY <1>1, DisplayAlways, PTL DEF DisplayInv

-----------------------------------------------------------------------------
(* The form. *)

Tunnels == [alias : Values, fields : [AllowedFields -> Values]]

\* The form shows the values of the fields, and nothing where there is none.
Shown(text, fields, shown) ==
    /\ \A i \in fields : text[i].key \in AllowedFields /\ shown[text[i].key] = ShownValue(text[i])
    /\ \A i \in fields : text[i].quoted \/ text[i].key = "tcp_listen_port"
    /\ \A key \in AllowedFields : (\A i \in fields : text[i].key # key) => shown[key] = Empty

ShownSections(text, k, page) ==
    /\ page \in Seq(Tunnels)
    /\ \A i, j \in DOMAIN page : page[i].alias = page[j].alias => i = j
    /\ \A j \in DOMAIN page : \E s \in Before(text, k) :
            page[j].alias = text[s].key /\ Shown(text, Held(text, s, k), page[j].fields)
    /\ \A s \in Before(text, k) : \E j \in DOMAIN page : page[j].alias = text[s].key
    /\ \A s \in Before(text, k) : (\A t \in Before(text, k) : t <= s) => page[Len(page)].alias = text[s].key

PageRead(text, k, page) == GoodText(text) /\ page # Refused => ShownSections(text, k, page)

Page == INSTANCE SequenceFolds WITH Op <- PageReads, Inv <- PageRead

LEMMA PortOfSection ==
    ASSUME NEW text \in Seq(Line), GoodText(text), NEW s \in Sections(text), NEW i \in FieldsOf(text, s),
           text[i].key = "tcp_listen_port"
    PROVE  ValidPort(text[i].value)
<1>1. /\ GoodSection(text, FieldsOf(text, s))
      /\ \A j, l \in FieldsOf(text, s) : text[j].key = text[l].key => j = l
  BY DEF GoodText, GoodSection
<1>2. "tcp_listen_port" \in {text[j].key : j \in FieldsOf(text, s)}
  OBVIOUS
<1>3. text[CHOOSE j \in FieldsOf(text, s) : text[j].key = "tcp_listen_port"].value = text[i].value
  BY <1>1
<1>4. "tcp_listen_port" \notin ClientFields
  BY DEF ClientFields
<1>. QED
  BY <1>1, <1>2, <1>3, <1>4 DEF GoodSection

LEMMA ShownIsValue ==
    ASSUME NEW line \in Line, line.key = "tcp_listen_port" => ValidPort(line.value)
    PROVE  ShownValue(line) \in Values
<1>1. line.value \in Values
  BY DEF Line
<1>2. CASE line.key = "tcp_listen_port"
  BY <1>2, DigitsUnsigned, ConfigurationAssumption, CommandLineAssumption DEF ShownValue, ValidPort
<1>3. CASE line.key # "tcp_listen_port"
  BY <1>1, <1>3 DEF ShownValue
<1>. QED
  BY <1>2, <1>3

LEMMA PageSection ==
    ASSUME NEW text \in Seq(Line), GoodText(text), NEW k \in 0 .. Len(text) - 1, NEW page,
           ShownSections(text, k, page), text[k + 1].kind = "section"
    PROVE  ShownSections(text, k + 1, Append(page, [alias |-> text[k + 1].key, fields |-> NoFields]))
<1>. DEFINE tunnel == [alias |-> text[k + 1].key, fields |-> NoFields]
            next == Append(page, tunnel)
<1>1. /\ Before(text, k + 1) = Before(text, k) \cup {k + 1} /\ k + 1 \notin Before(text, k)
      /\ \A s : Held(text, s, k + 1) = Held(text, s, k)
      /\ Held(text, k + 1, k) = {}
  BY SectionNext
<1>2. \A s \in Before(text, k) : text[s].key # text[k + 1].key
  BY <1>1 DEF GoodText, Before, Sections
<1>3. tunnel \in Tunnels
  BY LineAt, ConfigurationAssumption DEF Tunnels, NoFields
<1>4. page \in Seq(Tunnels)
  BY DEF ShownSections
<1>. HIDE DEF tunnel
<1>5. /\ next \in Seq(Tunnels) /\ Len(next) = Len(page) + 1 /\ next[Len(next)] = tunnel
      /\ DOMAIN next = DOMAIN page \cup {Len(next)} /\ Len(next) \notin DOMAIN page
      /\ \A j \in DOMAIN page : next[j] = page[j]
  BY <1>3, <1>4
<1>6. tunnel.alias = text[k + 1].key /\ Shown(text, {}, tunnel.fields)
  BY DEF tunnel, Shown, NoFields
<1>. HIDE DEF next
<1>7. \A j \in DOMAIN page : next[j].alias # tunnel.alias
  BY <1>2, <1>5, <1>6 DEF ShownSections
<1>8. \A i, j \in DOMAIN next : next[i].alias = next[j].alias => i = j
  BY <1>5, <1>7 DEF ShownSections
<1>9. \A j \in DOMAIN next : \E s \in Before(text, k + 1) :
        next[j].alias = text[s].key /\ Shown(text, Held(text, s, k + 1), next[j].fields)
  <2>1. ASSUME NEW j \in DOMAIN page
        PROVE  \E s \in Before(text, k + 1) :
                  next[j].alias = text[s].key /\ Shown(text, Held(text, s, k + 1), next[j].fields)
    BY <1>1, <1>5 DEF ShownSections
  <2>2. Held(text, k + 1, k + 1) = {}
    BY <1>1
  <2>3. next[Len(next)].alias = text[k + 1].key /\ Shown(text, Held(text, k + 1, k + 1), next[Len(next)].fields)
    BY <1>5, <1>6, <2>2
  <2>. QED
    BY <1>1, <1>5, <2>1, <2>3
<1>10. \A s \in Before(text, k + 1) : \E j \in DOMAIN next : next[j].alias = text[s].key
  <2>1. ASSUME NEW s \in Before(text, k) PROVE \E j \in DOMAIN next : next[j].alias = text[s].key
    <3>1. PICK j \in DOMAIN page : page[j].alias = text[s].key
      BY DEF ShownSections
    <3>2. j \in DOMAIN next /\ next[j].alias = text[s].key
      BY <1>5, <3>1
    <3>. QED
      BY <3>2
  <2>2. Len(next) \in DOMAIN next /\ next[Len(next)].alias = text[k + 1].key
    BY <1>5, <1>6
  <2>3. \A s \in Before(text, k + 1) : s \in Before(text, k) \/ s = k + 1
    BY <1>1
  <2>. QED
    BY <2>1, <2>2, <2>3
<1>11. \A s \in Before(text, k + 1) :
         (\A t \in Before(text, k + 1) : t <= s) => next[Len(next)].alias = text[s].key
  BY <1>1, <1>5, <1>6 DEF Before
<1>12. ShownSections(text, k + 1, next)
  BY <1>5, <1>8, <1>9, <1>10, <1>11 DEF ShownSections
<1>. QED
  BY <1>12 DEF next, tunnel

LEMMA PageField ==
    ASSUME NEW text \in Seq(Line), GoodText(text), NEW k \in 0 .. Len(text) - 1, NEW page,
           ShownSections(text, k, page), text[k + 1].kind = "field", page # <<>>,
           text[k + 1].key \in AllowedFields, text[k + 1].quoted \/ text[k + 1].key = "tcp_listen_port"
    PROVE  ShownSections(text, k + 1, [page EXCEPT ![Len(page)].fields[text[k + 1].key] = ShownValue(text[k + 1])])
<1>. DEFINE line == text[k + 1]
            n == Len(page)
            shown == [page[n].fields EXCEPT ![line.key] = ShownValue(line)]
            tunnel == [page[n] EXCEPT !.fields = shown]
            next == [page EXCEPT ![n] = tunnel]
<1>1. page \in Seq(Tunnels) /\ n \in DOMAIN page /\ page[n] \in Tunnels
  BY DEF ShownSections
<1>2. PICK s \in Before(text, k) : page[n].alias = text[s].key /\ Shown(text, Held(text, s, k), page[n].fields)
  BY <1>1 DEF ShownSections
<1>3. \A t \in Before(text, k) : t <= s
  <2>1. PICK i \in Before(text, k) : \A t \in Before(text, k) : t <= i
    <3>. DEFINE T == Before(text, k)
    <3>1. T \in SUBSET (1 .. k) /\ T # {} /\ k \in Nat
      BY <1>2 DEF Before
    <3>2. Text!Max(T) \in T /\ \A t \in T : t <= Text!Max(T)
      BY <3>1, Text!GreatestPosition
    <3>. QED
      BY <3>2
  <2>2. page[n].alias = text[i].key
    BY <2>1 DEF ShownSections
  <2>3. i = s
    BY <1>2, <2>2 DEF GoodText, Before
  <2>. QED
    BY <2>1, <2>3
<1>4. /\ Before(text, k + 1) = Before(text, k)
      /\ Held(text, s, k + 1) = Held(text, s, k) \cup {k + 1}
      /\ \A u \in {0} \cup Before(text, k) : u # s => Held(text, u, k + 1) = Held(text, u, k)
  BY <1>2, <1>3, FieldNext
<1>5. k + 1 \in FieldsOf(text, s) /\ s \in Sections(text)
  BY <1>2, <1>4 DEF Held, Before
<1>6. \A i, j \in FieldsOf(text, s) : text[i].key = text[j].key => i = j
  BY <1>5 DEF GoodText, GoodSection
<1>7. ShownValue(line) \in Values
  <2>1. line \in Line
    OBVIOUS
  <2>2. line.key = "tcp_listen_port" => ValidPort(line.value)
    BY <1>5, PortOfSection
  <2>. HIDE DEF line
  <2>. QED
    BY <2>1, <2>2, ShownIsValue
<1>8. /\ shown \in [AllowedFields -> Values] /\ shown[line.key] = ShownValue(line)
      /\ \A key \in AllowedFields : key # line.key => shown[key] = page[n].fields[key]
  BY <1>1, <1>7 DEF Tunnels
<1>9. [page EXCEPT ![n].fields[line.key] = ShownValue(line)] = next
  BY <1>1 DEF Tunnels
<1>. HIDE DEF shown
<1>10. tunnel \in Tunnels /\ tunnel.alias = page[n].alias /\ tunnel.fields = shown
  BY <1>1, <1>8 DEF Tunnels
<1>. HIDE DEF tunnel
<1>11. /\ next \in Seq(Tunnels) /\ Len(next) = n /\ DOMAIN next = DOMAIN page /\ next[n] = tunnel
       /\ \A j \in DOMAIN page : j # n => next[j] = page[j]
  BY <1>1, <1>10
<1>. HIDE DEF next
<1>12. Shown(text, Held(text, s, k + 1), shown)
  <2>1. Held(text, s, k) \subseteq FieldsOf(text, s) /\ k + 1 \notin Held(text, s, k)
    BY DEF Held
  <2>2. \A i \in Held(text, s, k) : text[i].key # line.key
    BY <1>5, <1>6, <2>1
  <2>. QED
    BY <1>2, <1>4, <1>8, <2>2 DEF Shown
<1>13. \A j \in DOMAIN next : next[j].alias = page[j].alias
  BY <1>10, <1>11
<1>14. \A j \in DOMAIN next : \E u \in Before(text, k + 1) :
         next[j].alias = text[u].key /\ Shown(text, Held(text, u, k + 1), next[j].fields)
  <2>1. ASSUME NEW j \in DOMAIN page, j # n
        PROVE  \E u \in Before(text, k + 1) :
                 next[j].alias = text[u].key /\ Shown(text, Held(text, u, k + 1), next[j].fields)
    <3>1. PICK u \in Before(text, k) : page[j].alias = text[u].key /\ Shown(text, Held(text, u, k), page[j].fields)
      BY DEF ShownSections
    <3>2. u # s
      BY <1>1, <1>2, <2>1, <3>1 DEF ShownSections
    <3>. QED
      BY <1>4, <1>11, <2>1, <3>1, <3>2
  <2>2. next[n].alias = text[s].key /\ Shown(text, Held(text, s, k + 1), next[n].fields)
    BY <1>2, <1>10, <1>11, <1>12
  <2>. QED
    BY <1>4, <1>11, <2>1, <2>2
<1>15. ShownSections(text, k + 1, next)
  BY <1>1, <1>4, <1>11, <1>13, <1>14 DEF ShownSections
<1>. QED
  BY <1>9, <1>15

LEMMA PageLine ==
    ASSUME NEW text \in Seq(Line), NEW k \in 0 .. Len(text) - 1, NEW page, PageRead(text, k, page)
    PROVE  PageRead(text, k + 1, PageReads(page, text[k + 1]))
<1>. DEFINE line == text[k + 1]
<1>1. SUFFICES ASSUME GoodText(text), PageReads(page, line) # Refused
               PROVE  ShownSections(text, k + 1, PageReads(page, line))
  BY DEF PageRead
<1>2. k + 1 \in 1 .. Len(text) /\ line.kind \in {"blank", "section", "field", "junk"}
  BY LineAt
<1>3. page # Refused /\ ShownSections(text, k, page)
  BY <1>1 DEF PageRead, PageReads
<1>4. CASE line.kind = "blank"
  <2>1. PageReads(page, line) = page
    BY <1>4 DEF PageReads
  <2>2. Before(text, k + 1) = Before(text, k) /\ \A s : Held(text, s, k + 1) = Held(text, s, k)
    BY <1>4, OtherNext
  <2>. QED
    BY <1>3, <2>1, <2>2 DEF ShownSections
<1>5. CASE line.kind = "section"
  <2>1. line # Version
    BY <1>5 DEF Version, Assignment
  <2>2. PageReads(page, line) = Append(page, [alias |-> line.key, fields |-> NoFields])
    BY <1>1, <1>3, <1>5, <2>1 DEF PageReads
  <2>. QED
    BY <1>1, <1>3, <1>5, <2>2, PageSection
<1>6. CASE line.kind = "field" /\ line # Version
  <2>1. /\ page # <<>> /\ line.key \in AllowedFields /\ (line.quoted \/ line.key = "tcp_listen_port")
        /\ PageReads(page, line) = [page EXCEPT ![Len(page)].fields[line.key] = ShownValue(line)]
    BY <1>1, <1>3, <1>6 DEF PageReads
  <2>. QED
    BY <1>1, <1>3, <1>6, <2>1, PageField
<1>7. CASE line.kind = "field" /\ line = Version
  <2>1. PageReads(page, line) = page
    <3>1. line.kind # "section" /\ line.key \notin AllowedFields
      BY <1>7 DEF Version, Assignment, AllowedFields, ClientFields, ServerFields
    <3>. QED
      BY <1>7, <3>1 DEF PageReads
  <2>2. Before(text, k + 1) = Before(text, k)
    BY <1>7, FieldNext
  <2>3. ASSUME NEW s \in Before(text, k) PROVE Held(text, s, k + 1) = Held(text, s, k)
    <3>1. k + 1 \notin FieldsOf(text, s)
      <4>1. SUFFICES ASSUME k + 1 \in FieldsOf(text, s) PROVE FALSE
        OBVIOUS
      <4>2. GoodSection(text, FieldsOf(text, s))
        BY <1>1 DEF GoodText, Before
      <4>3. {text[i].key : i \in FieldsOf(text, s)} \subseteq AllowedFields
        BY <4>2 DEF GoodSection, AllowedFields
      <4>4. line.key = "version"
        BY <1>7 DEF Version, Assignment
      <4>. QED
        BY <4>1, <4>3, <4>4 DEF AllowedFields, ClientFields, ServerFields
    <3>. QED
      BY <3>1 DEF Held
  <2>. QED
    BY <1>3, <2>1, <2>2, <2>3 DEF ShownSections
<1>8. line.kind # "junk"
  BY <1>1, <1>2, DOMAIN text = 1 .. Len(text) DEF GoodText
<1>. QED
  BY <1>2, <1>4, <1>5, <1>6, <1>7, <1>8

LEMMA FormShows ==
    ASSUME NEW text \in Seq(Line), GoodText(text), Form(text) # Refused
    PROVE  ShownSections(text, Len(text), Form(text))
<1>1. PageRead(text, 0, <<>>)
  <2>1. Before(text, 0) = {}
    BY DEF Before
  <2>. QED
    BY <2>1 DEF PageRead, ShownSections
<1>2. PageRead(text, Len(text), Page!Result(<<>>, text))
  BY <1>1, PageLine, Page!FoldLeftInduction, DOMAIN text = 1 .. Len(text), Len(text) \in Nat
<1>3. Page!Result(<<>>, text) = Form(text)
  BY DEF Page!Result, Form, FoldLeft, Page!FoldLeft, MapThenFoldSet, Page!MapThenFoldSet, Max, Page!Max
<1>. QED
  BY <1>2, <1>3 DEF PageRead

\* What is written for a tunnel.
Part(fields, keys) == [key \in keys |-> fields[key]]

SavedKeys(fields) ==
    IF fields["mode"] = "client" THEN ClientFields
    ELSE IF fields["udp_destination"] # Empty THEN ServerFields \cup {"udp_destination"} ELSE ServerFields

Savable(tunnel) ==
    /\ tunnel \in Tunnels /\ tunnel.alias \in Aliases
    /\ \A key \in SavedKeys(tunnel.fields) : key # "tcp_listen_port" => tunnel.fields[key] \notin DOMAIN Rewritten
    /\ tunnel.fields["mode"] # "client" => tunnel.fields["tcp_listen_port"] \in Digits

\* What becomes of a parser that has read part of a section.
InSection(before, after, alias, map) ==
    /\ DOMAIN after = DOMAIN Unread /\ after.refused = FALSE /\ after.version = 1
    /\ after.active_alias = alias
    /\ DOMAIN after.tunnel_fields = DOMAIN before.tunnel_fields \cup {alias}
    /\ \A other \in DOMAIN before.tunnel_fields : after.tunnel_fields[other] = before.tunnel_fields[other]
    /\ after.tunnel_fields[alias] = map

LEMMA SectionWritten ==
    ASSUME NEW before, DOMAIN before = DOMAIN Unread, before.refused = FALSE, before.version = 1,
           NEW alias \in Aliases \ DOMAIN before.tunnel_fields, NEW fields
    PROVE  InSection(before, TakeLine(before, Section(alias)), alias, Part(fields, {}))
<1>. DEFINE more == With(before.tunnel_fields, alias, <<>>)
            after == [before EXCEPT !.active_alias = alias, !.tunnel_fields = more]
<1>1. TakeLine(before, Section(alias)) = after
  BY DEF TakeLine, Section, TakeSection
<1>2. /\ DOMAIN more = DOMAIN before.tunnel_fields \cup {alias} /\ more[alias] = <<>>
      /\ \A other \in DOMAIN before.tunnel_fields : more[other] = before.tunnel_fields[other]
  BY DEF With
<1>3. <<>> = Part(fields, {})
  BY DEF Part
<1>. HIDE DEF more
<1>4. InSection(before, after, alias, <<>>)
  BY <1>2 DEF InSection, Unread
<1>. QED
  BY <1>1, <1>3, <1>4

\* A line that gives a field its value.
LineGives(line, key, fields) ==
    line.kind = "field" /\ Readable(line) /\ line.key = key /\ line.value = fields[key]

LEMMA FieldWritten ==
    ASSUME NEW before, NEW after, NEW alias \in Aliases \ DOMAIN before.tunnel_fields, NEW fields, NEW keys,
           InSection(before, after, alias, Part(fields, keys)),
           NEW line, NEW key, key \notin keys, LineGives(line, key, fields)
    PROVE  InSection(before, TakeLine(after, line), alias, Part(fields, keys \cup {key}))
<1>. DEFINE map == With(after.tunnel_fields[alias], key, fields[key])
            more == [after.tunnel_fields EXCEPT ![alias] = map]
            next == [after EXCEPT !.tunnel_fields = more]
<1>1. line.kind = "field" /\ Readable(line) /\ line.key = key /\ line.value = fields[key]
  BY DEF LineGives
<1>2. after.refused = FALSE /\ after.active_alias = alias /\ alias # Empty
  BY ConfigurationAssumption DEF InSection
<1>3. TakeLine(after, line) = TakeField(after, line)
  BY <1>1, <1>2 DEF TakeLine
<1>4. key \notin DOMAIN after.tunnel_fields[alias]
  BY DEF InSection, Part
<1>5. TakeField(after, line) = next
  BY <1>1, <1>2, <1>4 DEF TakeField, MayAssign
<1>6. map = Part(fields, keys \cup {key})
  BY DEF InSection, Part, With
<1>. HIDE DEF map
<1>7. /\ DOMAIN more = DOMAIN after.tunnel_fields /\ more[alias] = map
      /\ \A other \in DOMAIN before.tunnel_fields : more[other] = after.tunnel_fields[other]
  BY DEF InSection
<1>. HIDE DEF more
<1>8. InSection(before, next, alias, map)
  BY <1>7 DEF InSection, Unread
<1>. QED
  BY <1>3, <1>5, <1>6, <1>8

LEMMA QuotedAsIs ==
    ASSUME NEW key, NEW value, value \notin DOMAIN Rewritten
    PROVE  Quoted(key, value) = Assignment(key, value, TRUE)
BY DEF Quoted

LEMMA LineWritten ==
    ASSUME NEW key \in Values, NEW value \in Values, NEW quoted \in BOOLEAN
    PROVE  Assignment(key, value, quoted) \in Line
BY DEF Assignment, Line

\* The lines written for a tunnel, one after the other.
LEMMA TunnelWritten ==
    ASSUME NEW tunnel, Savable(tunnel)
    PROVE  LET fields == tunnel.fields
               lines == TunnelLines(tunnel)
           IN  /\ lines \in Seq(Line)
               /\ lines[1] = BlankLine /\ lines[2] = Section(tunnel.alias)
               /\ lines[3] = Assignment("mode", fields["mode"], TRUE)
               /\ lines[4] = Assignment("udp_interface", fields["udp_interface"], TRUE)
               /\ fields["mode"] = "client" =>
                    /\ Len(lines) = 6
                    /\ lines[5] = Assignment("udp_group", fields["udp_group"], TRUE)
                    /\ lines[6] = Assignment("tcp_server", fields["tcp_server"], TRUE)
               /\ fields["mode"] # "client" =>
                    /\ Len(lines) = IF fields["udp_destination"] # Empty THEN 6 ELSE 5
                    /\ lines[5] = Assignment("tcp_listen_port", fields["tcp_listen_port"], FALSE)
                    /\ fields["udp_destination"] # Empty =>
                         lines[6] = Assignment("udp_destination", fields["udp_destination"], TRUE)
<1>. DEFINE fields == tunnel.fields
            lines == TunnelLines(tunnel)
            mode == Assignment("mode", fields["mode"], TRUE)
            interface == Assignment("udp_interface", fields["udp_interface"], TRUE)
            group == Assignment("udp_group", fields["udp_group"], TRUE)
            server == Assignment("tcp_server", fields["tcp_server"], TRUE)
            port == Assignment("tcp_listen_port", fields["tcp_listen_port"], FALSE)
            destination == Assignment("udp_destination", fields["udp_destination"], TRUE)
            section == Section(tunnel.alias)
            blank == BlankLine
<1>1. /\ tunnel.alias \in Values /\ \A key \in AllowedFields : key \in Values /\ fields[key] \in Values
      /\ Empty \in Values
  BY ConfigurationAssumption DEF Savable, Tunnels
<1>2. {mode, interface, group, server, port, destination} \subseteq Line
  BY <1>1, LineWritten DEF AllowedFields, ClientFields, ServerFields
<1>3. section \in Line /\ blank \in Line
  BY <1>1 DEF Section, BlankLine, Line
<1>4. /\ {"mode", "udp_interface"} \subseteq SavedKeys(fields)
      /\ fields["mode"] = "client" => {"udp_group", "tcp_server"} \subseteq SavedKeys(fields)
      /\ fields["mode"] # "client" /\ fields["udp_destination"] # Empty => "udp_destination" \in SavedKeys(fields)
  BY DEF SavedKeys, ClientFields, ServerFields
<1>5. Quoted("mode", fields["mode"]) = mode /\ Quoted("udp_interface", fields["udp_interface"]) = interface
  BY <1>4, QuotedAsIs DEF Savable
<1>. HIDE DEF mode, interface, port, section, blank
<1>6. CASE fields["mode"] = "client"
  <2>1. Quoted("udp_group", fields["udp_group"]) = group /\ Quoted("tcp_server", fields["tcp_server"]) = server
    BY <1>4, <1>6, QuotedAsIs DEF Savable
  <2>. HIDE DEF group, server
  <2>2. lines = <<blank, section, mode, interface>> \o <<group, server>>
    BY <1>5, <1>6, <2>1 DEF TunnelLines, section, blank
  <2>. HIDE DEF lines
  <2>3. lines \in Seq(Line) /\ Len(lines) = 6
    BY <1>2, <1>3, <2>2
  <2>4. /\ lines[1] = blank /\ lines[2] = section /\ lines[3] = mode /\ lines[4] = interface
        /\ lines[5] = group /\ lines[6] = server
    BY <2>2
  <2>. QED
    BY <1>6, <2>3, <2>4 DEF lines, blank, section, mode, interface, group, server
<1>7. CASE fields["mode"] # "client" /\ fields["udp_destination"] # Empty
  <2>1. Quoted("udp_destination", fields["udp_destination"]) = destination
    BY <1>4, <1>7, QuotedAsIs DEF Savable
  <2>. HIDE DEF destination
  <2>2. lines = <<blank, section, mode, interface>> \o (<<port>> \o <<destination>>)
    BY <1>5, <1>7, <2>1 DEF TunnelLines, WritesDestination, section, blank, port
  <2>. HIDE DEF lines
  <2>3. lines \in Seq(Line) /\ Len(lines) = 6
    BY <1>2, <1>3, <2>2
  <2>4. /\ lines[1] = blank /\ lines[2] = section /\ lines[3] = mode /\ lines[4] = interface
        /\ lines[5] = port /\ lines[6] = destination
    BY <2>2
  <2>. QED
    BY <1>7, <2>3, <2>4 DEF lines, blank, section, mode, interface, port, destination
<1>8. CASE fields["mode"] # "client" /\ fields["udp_destination"] = Empty
  <2>2. lines = <<blank, section, mode, interface>> \o (<<port>> \o <<>>)
    BY <1>5, <1>8 DEF TunnelLines, WritesDestination, section, blank, port
  <2>. HIDE DEF lines
  <2>3. lines \in Seq(Line) /\ Len(lines) = 5
    BY <1>2, <1>3, <2>2
  <2>4. /\ lines[1] = blank /\ lines[2] = section /\ lines[3] = mode /\ lines[4] = interface
        /\ lines[5] = port
    BY <2>2
  <2>. QED
    BY <1>8, <2>3, <2>4 DEF lines, blank, section, mode, interface, port
<1>. QED
  BY <1>6, <1>7, <1>8

\* The parser finds in those lines the fields of the tunnel.
LEMMA TunnelParsed ==
    ASSUME NEW before, DOMAIN before = DOMAIN Unread, before.refused = FALSE, before.version = 1,
           NEW tunnel, Savable(tunnel), tunnel.alias \notin DOMAIN before.tunnel_fields
    PROVE  InSection(before, Text!Result(before, TunnelLines(tunnel)), tunnel.alias,
                     Part(tunnel.fields, SavedKeys(tunnel.fields)))
<1>. DEFINE fields == tunnel.fields
            alias == tunnel.alias
            lines == TunnelLines(tunnel)
            n == Len(lines)
            Stage(r, keys) == InSection(before, r, alias, Part(fields, keys))
<1>1. alias \in Aliases \ DOMAIN before.tunnel_fields
  BY DEF Savable
<1>2. /\ lines \in Seq(Line) /\ n \in {5, 6}
      /\ lines[1] = BlankLine /\ lines[2] = Section(alias)
      /\ LineGives(lines[3], "mode", fields) /\ LineGives(lines[4], "udp_interface", fields)
      /\ fields["mode"] = "client" =>
           n = 6 /\ LineGives(lines[5], "udp_group", fields) /\ LineGives(lines[6], "tcp_server", fields)
      /\ fields["mode"] # "client" =>
           /\ n = IF fields["udp_destination"] # Empty THEN 6 ELSE 5
           /\ LineGives(lines[5], "tcp_listen_port", fields)
           /\ fields["udp_destination"] # Empty => LineGives(lines[6], "udp_destination", fields)
  <2>1. \A key : LineGives(Assignment(key, fields[key], TRUE), key, fields)
    BY DEF LineGives, Assignment, Readable
  <2>2. fields["mode"] # "client" =>
          LineGives(Assignment("tcp_listen_port", fields["tcp_listen_port"], FALSE), "tcp_listen_port", fields)
    BY DEF LineGives, Assignment, Readable, Savable
  <2>. QED
    BY <2>1, <2>2, TunnelWritten
<1>3. DOMAIN lines = 1 .. n /\ n \in Nat
  BY <1>2
<1>. HIDE DEF fields, alias, lines, n
<1>4. PICK h : Text!States(h, before, n, lines)
  BY <1>3, Text!FoldStates
<1>5. /\ h[0] = before /\ h[n] = Text!Result(before, lines)
      /\ \A k \in 0 .. n - 1 : h[k + 1] = TakeLine(h[k], lines[k + 1])
  BY <1>4 DEF Text!States
<1>6. \A k \in 1 .. n : k - 1 \in 0 .. n - 1 /\ (k - 1) + 1 = k
  BY <1>3
<1>7. \A k \in 1 .. n : h[k] = TakeLine(h[k - 1], lines[k])
  BY <1>5, <1>6
<1>8. /\ h[1] = TakeLine(h[0], lines[1]) /\ h[2] = TakeLine(h[1], lines[2]) /\ h[3] = TakeLine(h[2], lines[3])
      /\ h[4] = TakeLine(h[3], lines[4]) /\ h[5] = TakeLine(h[4], lines[5])
      /\ n = 6 => h[6] = TakeLine(h[5], lines[6])
  <2>1. {1, 2, 3, 4, 5} \subseteq 1 .. n /\ (n = 6 => 6 \in 1 .. n)
    BY <1>2
  <2>. QED
    BY <1>7, <2>1
<1>9. h[1] = before
  <2>1. TakeLine(before, BlankLine) = before
    BY DEF TakeLine, BlankLine
  <2>. QED
    BY <1>2, <1>5, <1>8, <2>1
<1>10. Stage(h[2], {})
  BY <1>1, <1>2, <1>8, <1>9, SectionWritten
<1>11. Stage(h[3], {} \cup {"mode"})
  BY <1>1, <1>2, <1>8, <1>10, FieldWritten
<1>12. Stage(h[4], {"mode"} \cup {"udp_interface"})
  <2>1. {} \cup {"mode"} = {"mode"} /\ "udp_interface" \notin {"mode"}
    OBVIOUS
  <2>2. Stage(h[3], {"mode"})
    BY <1>11, <2>1
  <2>. QED
    BY <1>1, <1>2, <1>8, <2>1, <2>2, FieldWritten
<1>13. CASE fields["mode"] = "client"
  <2>1. Stage(h[5], ({"mode"} \cup {"udp_interface"}) \cup {"udp_group"})
    <3>1. h[5] = TakeLine(h[4], lines[5]) /\ LineGives(lines[5], "udp_group", fields)
      BY <1>2, <1>8, <1>13
    <3>. QED
      BY <1>1, <1>12, <3>1, FieldWritten
  <2>2. Stage(h[6], (({"mode"} \cup {"udp_interface"}) \cup {"udp_group"}) \cup {"tcp_server"})
    <3>1. h[6] = TakeLine(h[5], lines[6]) /\ LineGives(lines[6], "tcp_server", fields)
      BY <1>2, <1>8, <1>13
    <3>. QED
      BY <1>1, <2>1, <3>1, FieldWritten
  <2>3. (({"mode"} \cup {"udp_interface"}) \cup {"udp_group"}) \cup {"tcp_server"} = SavedKeys(fields)
    BY <1>13 DEF SavedKeys, ClientFields
  <2>. QED
    BY <1>2, <1>5, <1>13, <2>2, <2>3 DEF fields, alias, lines
<1>14. ASSUME fields["mode"] # "client" PROVE Stage(h[5], ({"mode"} \cup {"udp_interface"}) \cup {"tcp_listen_port"})
  BY <1>1, <1>2, <1>8, <1>12, <1>14, FieldWritten
<1>15. CASE fields["mode"] # "client" /\ fields["udp_destination"] # Empty
  <2>1. Stage(h[6], (({"mode"} \cup {"udp_interface"}) \cup {"tcp_listen_port"}) \cup {"udp_destination"})
    <3>1. /\ h[6] = TakeLine(h[5], lines[6]) /\ LineGives(lines[6], "udp_destination", fields)
          /\ Stage(h[5], ({"mode"} \cup {"udp_interface"}) \cup {"tcp_listen_port"})
      BY <1>2, <1>8, <1>14, <1>15
    <3>. QED
      BY <1>1, <3>1, FieldWritten
  <2>2. (({"mode"} \cup {"udp_interface"}) \cup {"tcp_listen_port"}) \cup {"udp_destination"} = SavedKeys(fields)
    BY <1>15 DEF SavedKeys, ServerFields
  <2>. QED
    BY <1>2, <1>5, <1>15, <2>1, <2>2 DEF fields, alias, lines
<1>16. CASE fields["mode"] # "client" /\ fields["udp_destination"] = Empty
  <2>1. ({"mode"} \cup {"udp_interface"}) \cup {"tcp_listen_port"} = SavedKeys(fields)
    BY <1>16 DEF SavedKeys, ServerFields
  <2>. QED
    BY <1>2, <1>5, <1>14, <1>16, <2>1 DEF fields, alias, lines
<1>. QED
  BY <1>13, <1>15, <1>16

\* Tunnels that are written as they are.
Storable(form) ==
    /\ \A i \in DOMAIN form : Savable(form[i])
    /\ \A i, j \in DOMAIN form : form[i].alias = form[j].alias => i = j

\* What the parser makes of the lines written for the first tunnels.
ReadBack(form, k, parser) ==
    /\ DOMAIN parser = DOMAIN Unread /\ parser.refused = FALSE /\ parser.version = 1
    /\ DOMAIN parser.tunnel_fields = {form[j].alias : j \in 1 .. k}
    /\ \A j \in 1 .. k : parser.tunnel_fields[form[j].alias] = Part(form[j].fields, SavedKeys(form[j].fields))

SavedRead(form, k, lines) ==
    Storable(form) => lines \in Seq(Line) /\ ReadBack(form, k, Text!Result(Unread, lines))

Saved == INSTANCE SequenceFolds WITH Op <- AddTunnel, Inv <- SavedRead

LEMMA VersionWritten ==
    ASSUME NEW form
    PROVE  SavedRead(form, 0, <<Version>>)
<1>. DEFINE lines == <<Version>>
<1>1. /\ Version \in Line
      /\ Version.kind = "field" /\ Version.key = "version" /\ Version.value = "1" /\ Readable(Version)
  <2>1. "version" \in Values /\ "1" \in Values
    BY ConfigurationAssumption
  <2>2. Version \in Line
    BY <2>1 DEF Version, Assignment, Line
  <2>3. Version.kind = "field" /\ Version.key = "version" /\ Version.value = "1" /\ Readable(Version)
    BY ConfigurationAssumption, CommandLineAssumption DEF Version, Assignment, Readable
  <2>. QED
    BY <2>2, <2>3
<1>2. lines \in Seq(Line) /\ DOMAIN lines = 1 .. 1 /\ lines[1] = Version
  BY <1>1
<1>. HIDE DEF lines
<1>3. PICK h : Text!States(h, Unread, 1, lines)
  BY <1>2, Text!FoldStates
<1>4. Text!Result(Unread, lines) = TakeLine(Unread, Version)
  <2>1. h[0] = Unread /\ h[1] = Text!Result(Unread, lines) /\ \A k \in 0 .. 1 - 1 : h[k + 1] = TakeLine(h[k], lines[k + 1])
    BY <1>3 DEF Text!States
  <2>2. h[0 + 1] = TakeLine(h[0], lines[0 + 1])
    BY <2>1
  <2>. QED
    BY <1>2, <2>1, <2>2
<1>5. TakeLine(Unread, Version) = TakeVersion(Unread, Version)
  BY <1>1 DEF TakeLine, Unread
<1>6. TakeVersion(Unread, Version) = [Unread EXCEPT !.version = 1]
  BY <1>1 DEF TakeVersion, Unread
<1>7. ReadBack(form, 0, [Unread EXCEPT !.version = 1])
  BY DEF ReadBack, Unread
<1>. QED
  BY <1>2, <1>4, <1>5, <1>6, <1>7 DEF SavedRead, lines

LEMMA TunnelAdded ==
    ASSUME NEW form, NEW n \in Nat, DOMAIN form = 1 .. n, NEW k \in 0 .. n - 1, NEW lines, SavedRead(form, k, lines)
    PROVE  SavedRead(form, k + 1, AddTunnel(lines, form[k + 1]))
<1>. DEFINE tunnel == form[k + 1]
            more == TunnelLines(tunnel)
            all == lines \o more
            before == Text!Result(Unread, lines)
            after == Text!Result(before, more)
<1>1. SUFFICES ASSUME Storable(form) PROVE all \in Seq(Line) /\ ReadBack(form, k + 1, Text!Result(Unread, all))
  BY DEF SavedRead, AddTunnel
<1>2. lines \in Seq(Line) /\ ReadBack(form, k, before)
  BY <1>1 DEF SavedRead
<1>3. k + 1 \in DOMAIN form /\ 1 .. k \subseteq DOMAIN form /\ k + 1 \notin 1 .. k /\ 1 .. k + 1 = 1 .. k \cup {k + 1}
  OBVIOUS
<1>4. Savable(tunnel) /\ more \in Seq(Line)
  BY <1>1, <1>3, TunnelWritten DEF Storable
<1>. HIDE DEF more
<1>5. all \in Seq(Line)
  BY <1>2, <1>4
<1>6. Text!Result(Unread, all) = after
  <2>1. /\ Len(lines) \in Nat /\ Len(more) \in Nat
        /\ DOMAIN lines = 1 .. Len(lines) /\ DOMAIN more = 1 .. Len(more)
    BY <1>2, <1>4
  <2>2. /\ DOMAIN all = 1 .. Len(lines) + Len(more)
        /\ \A i \in 1 .. Len(lines) : all[i] = lines[i]
        /\ \A i \in 1 .. Len(more) : all[Len(lines) + i] = more[i]
    BY <1>2, <1>4
  <2>. HIDE DEF all
  <2>3. Text!InParts(all, Len(lines), lines, Len(more), more)
    BY <2>1, <2>2 DEF Text!InParts
  <2>. QED
    BY <2>3, Text!FoldParts
<1>. HIDE DEF before, all
<1>7. tunnel.alias \notin DOMAIN before.tunnel_fields
  <2>1. \A j \in 1 .. k : form[j].alias # form[k + 1].alias
    BY <1>1, <1>3 DEF Storable
  <2>2. DOMAIN before.tunnel_fields = {form[j].alias : j \in 1 .. k}
    BY <1>2 DEF ReadBack
  <2>. QED
    BY <2>1, <2>2
<1>8. InSection(before, after, tunnel.alias, Part(tunnel.fields, SavedKeys(tunnel.fields)))
  <2>1. DOMAIN before = DOMAIN Unread /\ before.refused = FALSE /\ before.version = 1
    BY <1>2 DEF ReadBack
  <2>2. InSection(before, Text!Result(before, TunnelLines(tunnel)), tunnel.alias,
                  Part(tunnel.fields, SavedKeys(tunnel.fields)))
    BY <1>4, <1>7, <2>1, TunnelParsed
  <2>. QED
    BY <2>2 DEF more
<1>. HIDE DEF after
<1>9. ReadBack(form, k + 1, after)
  <2>1. DOMAIN after.tunnel_fields = {form[j].alias : j \in 1 .. k + 1}
    BY <1>2, <1>3, <1>8 DEF InSection, ReadBack
  <2>2. \A j \in 1 .. k : after.tunnel_fields[form[j].alias] = Part(form[j].fields, SavedKeys(form[j].fields))
    BY <1>2, <1>8 DEF InSection, ReadBack
  <2>. QED
    BY <1>3, <1>8, <2>1, <2>2 DEF InSection, ReadBack
<1>. QED
  BY <1>5, <1>6, <1>9

\* What is saved is read back.
LEMMA FormRead ==
    ASSUME NEW form \in Seq(Tunnels), Storable(form)
    PROVE  /\ Serialized(form) \in Seq(Line)
           /\ ReadBack(form, Len(form), FoldLeft(TakeLine, Unread, Serialized(form)))
<1>. DEFINE lines == Saved!Result(<<Version>>, form)
<1>1. Len(form) \in Nat /\ DOMAIN form = 1 .. Len(form)
  OBVIOUS
<1>2. SavedRead(form, 0, <<Version>>)
  BY VersionWritten
<1>3. SavedRead(form, Len(form), lines)
  BY <1>1, <1>2, TunnelAdded, Saved!FoldLeftInduction
<1>4. lines = Serialized(form)
  BY DEF Saved!Result, Serialized, FoldLeft, Saved!FoldLeft, MapThenFoldSet, Saved!MapThenFoldSet, Max, Saved!Max
<1>. HIDE DEF lines
<1>5. Text!Result(Unread, lines) = FoldLeft(TakeLine, Unread, lines)
  BY DEF Text!Result, FoldLeft, Text!FoldLeft, MapThenFoldSet, Text!MapThenFoldSet, Max, Text!Max
<1>. QED
  BY <1>3, <1>4, <1>5 DEF SavedRead

\* A good section, as a map and as it is shown.
ShownMap(text, fields, map, shown) ==
    /\ MapOf(text, fields, map) /\ GoodMap(map)
    /\ shown \in [AllowedFields -> Values] /\ Shown(text, fields, shown)
    /\ shown["mode"] # "client" => shown["tcp_listen_port"] \in Digits

\* What is written of it makes the same tunnel, of the values that it had.
WrittenMap(text, fields, map, shown) ==
    /\ GoodMap(Part(shown, SavedKeys(shown)))
    /\ MakeTunnel(Part(shown, SavedKeys(shown))) = MakeTunnel(map)
    /\ \A key \in SavedKeys(shown) : key # "tcp_listen_port" =>
         \E i \in fields : text[i].key = key /\ shown[key] = text[i].value

\* A section that is shown and written again is the same tunnel's.
LEMMA SameAgain ==
    ASSUME NEW text \in Seq(Line), NEW fields \in SUBSET DOMAIN text,
           NEW map, NEW shown, ShownMap(text, fields, map, shown)
    PROVE  WrittenMap(text, fields, map, shown)
<1>. DEFINE keys == SavedKeys(shown)
            part == Part(shown, keys)
<1>. USE DEF ShownMap
<1>1. /\ DOMAIN map = {text[i].key : i \in fields} /\ map \in [DOMAIN map -> Values]
      /\ \A i \in fields : map[text[i].key] = text[i].value
  BY DEF MapOf
<1>2. \A key \in DOMAIN map : \E i \in fields :
        text[i].key = key /\ map[key] = text[i].value /\ shown[key] = ShownValue(text[i])
  BY <1>1 DEF Shown
<1>3. \A key \in DOMAIN map : key # "tcp_listen_port" => shown[key] = map[key]
  BY <1>2 DEF ShownValue
<1>4. \A key \in AllowedFields \ DOMAIN map : shown[key] = Empty
  BY <1>1 DEF Shown
<1>5. SUFFICES keys = DOMAIN map /\ GoodMap(part) /\ MakeTunnel(part) = MakeTunnel(map)
  BY <1>1, <1>2, <1>3 DEF WrittenMap
<1>6. CASE GoodClient(map)
  <2>1. shown["mode"] = "client" /\ keys = ClientFields /\ DOMAIN map = ClientFields
    BY <1>3, <1>6 DEF GoodClient, SavedKeys, ClientFields
  <2>2. part = map
    <3>1. \A key \in ClientFields : key # "tcp_listen_port"
      BY DEF ClientFields
    <3>. QED
      BY <1>1, <1>3, <2>1, <3>1 DEF Part
  <2>. QED
    BY <2>1, <2>2
<1>7. CASE GoodServer(map)
  <2>1. shown["mode"] = "server" /\ shown["mode"] # "client"
    BY <1>3, <1>7 DEF GoodServer, ServerFields
  <2>2. shown["udp_destination"] # Empty <=> "udp_destination" \in DOMAIN map
    <3>1. ASSUME "udp_destination" \in DOMAIN map PROVE shown["udp_destination"] # Empty
      <4>1. shown["udp_destination"] = map["udp_destination"]
        BY <1>3, <3>1
      <4>. QED
        BY <1>7, <3>1, <4>1, EndpointParts, ConfigurationAssumption DEF GoodServer
    <3>. QED
      BY <1>4, <3>1 DEF AllowedFields
  <2>3. keys = DOMAIN map
    BY <1>7, <2>1, <2>2 DEF GoodServer, SavedKeys, ServerFields
  <2>4. ServerFields \subseteq DOMAIN map
    BY <1>7 DEF GoodServer
  <2>5. ValidPort(shown["tcp_listen_port"]) /\ Unsigned(shown["tcp_listen_port"]) = Unsigned(map["tcp_listen_port"])
    <3>1. "tcp_listen_port" \in DOMAIN map /\ shown["tcp_listen_port"] \in Digits /\ Empty \notin Digits
      BY <2>1, <2>4, ConfigurationAssumption DEF ServerFields
    <3>2. map["tcp_listen_port"] \in Digits /\ shown["tcp_listen_port"] = Decimal[Number[map["tcp_listen_port"]]]
      BY <1>2, <3>1 DEF ShownValue
    <3>3. Unsigned(map["tcp_listen_port"]) \in DOMAIN Decimal /\ Unsigned(map["tcp_listen_port"]) \in 1 .. MaxPort
      BY <1>7, CommandLineAssumption DEF GoodServer, ValidPort
    <3>4. shown["tcp_listen_port"] = Decimal[Unsigned(map["tcp_listen_port"])]
      BY <3>2, DigitsUnsigned
    <3>5. Number[shown["tcp_listen_port"]] = Unsigned(map["tcp_listen_port"])
      BY <3>3, <3>4, ConfigurationAssumption
    <3>. QED
      BY <3>1, <3>3, <3>5, DigitsUnsigned DEF ValidPort
  <2>6. /\ part \in [DOMAIN map -> Values] /\ part["tcp_listen_port"] = shown["tcp_listen_port"]
        /\ \A key \in DOMAIN map : key # "tcp_listen_port" => part[key] = map[key]
    <3>1. DOMAIN map \subseteq AllowedFields
      BY <1>7 DEF GoodServer, AllowedFields
    <3>2. DOMAIN part = DOMAIN map /\ \A key \in DOMAIN map : part[key] = shown[key]
      BY <2>3 DEF Part
    <3>3. part = [key \in DOMAIN map |-> shown[key]]
      BY <2>3 DEF Part
    <3>. HIDE DEF part
    <3>. QED
      BY <1>3, <2>4, <3>1, <3>2, <3>3 DEF ServerFields
  <2>. HIDE DEF part, keys
  <2>7. /\ part["mode"] = map["mode"] /\ part["udp_interface"] = map["udp_interface"]
        /\ "udp_destination" \in DOMAIN map => part["udp_destination"] = map["udp_destination"]
    BY <2>4, <2>6 DEF ServerFields
  <2>8. DOMAIN part = DOMAIN map
    BY <2>6
  <2>9. GoodServer(part) /\ GoodMap(part)
    BY <1>7, <2>5, <2>6, <2>7, <2>8 DEF GoodServer, GoodMap
  <2>10. Replicates(part) <=> Replicates(map)
    BY <2>7, <2>8 DEF Replicates
  <2>11. CASE Replicates(map)
    <3>1. MakeTunnel(part) = ReplicaOf(part) /\ MakeTunnel(map) = ReplicaOf(map)
      BY <1>1, <1>7, <2>6, <2>9, <2>10, <2>11, TunnelMade
    <3>2. ReplicaOf(part) = ReplicaOf(map)
      BY <2>5, <2>6, <2>7 DEF ReplicaOf
    <3>. QED
      BY <2>3, <2>9, <3>1, <3>2
  <2>12. CASE ~Replicates(map)
    <3>1. MakeTunnel(part) = ServerOf(part) /\ MakeTunnel(map) = ServerOf(map)
      BY <1>1, <1>7, <2>6, <2>9, <2>10, <2>12, TunnelMade
    <3>2. ServerOf(part) = ServerOf(map)
      BY <2>5, <2>6, <2>7, <2>12 DEF ServerOf, Replicates
    <3>. QED
      BY <2>3, <2>9, <3>1, <3>2
  <2>. QED
    BY <2>11, <2>12
<1>. QED
  BY <1>6, <1>7 DEF GoodMap

\* A tunnel that the form shows is the tunnel of its section, and can be written.
LEMMA FormTunnel ==
    ASSUME NEW text \in Seq(Line), GoodText(text), \A i \in DOMAIN text : text[i].value \notin DOMAIN Rewritten,
           NEW tunnel \in Tunnels, NEW s \in Sections(text),
           tunnel.alias = text[s].key, Shown(text, FieldsOf(text, s), tunnel.fields),
           tunnel.fields["mode"] # "client" => tunnel.fields["tcp_listen_port"] \in Digits
    PROVE  /\ Savable(tunnel)
           /\ ParseConfiguration(text)[tunnel.alias] = MakeTunnel(Part(tunnel.fields, SavedKeys(tunnel.fields)))
<1>. DEFINE shown == tunnel.fields
<1>1. shown \in [AllowedFields -> Values] /\ FieldsOf(text, s) \in SUBSET DOMAIN text
  BY DEF Tunnels, FieldsOf
<1>2. PICK map : /\ MapOf(text, FieldsOf(text, s), map) /\ GoodMap(map)
                 /\ ParseConfiguration(text)[text[s].key] = MakeTunnel(map)
  BY TextParsed
<1>. HIDE DEF shown
<1>3. /\ MakeTunnel(Part(shown, SavedKeys(shown))) = MakeTunnel(map)
      /\ \A key \in SavedKeys(shown) : key # "tcp_listen_port" =>
           \E i \in FieldsOf(text, s) : text[i].key = key /\ shown[key] = text[i].value
  <2>. DEFINE fields == FieldsOf(text, s)
  <2>1. Shown(text, fields, shown) /\ (shown["mode"] # "client" => shown["tcp_listen_port"] \in Digits)
    BY DEF shown
  <2>2. fields \in SUBSET DOMAIN text /\ ShownMap(text, fields, map, shown)
    BY <1>1, <1>2, <2>1 DEF ShownMap
  <2>. HIDE DEF fields
  <2>3. WrittenMap(text, fields, map, shown)
    BY <2>2, SameAgain
  <2>. QED
    BY <2>3 DEF fields, WrittenMap
<1>4. \A key \in SavedKeys(shown) : key # "tcp_listen_port" => shown[key] \notin DOMAIN Rewritten
  BY <1>1, <1>3
<1>5. tunnel.alias \in Aliases
  BY DEF GoodText
<1>. QED
  BY <1>2, <1>3, <1>4, <1>5 DEF Savable, shown

\* Loading what the form shows and saves again, of a text that has no value that it
\* would write in another way, is loading the text.
LEMMA FormSaved ==
    ASSUME NEW text \in Seq(Line), ParseConfiguration(text) # Refused, Form(text) # Refused, FormIsValid(Form(text)),
           \A i \in DOMAIN text : text[i].value \notin DOMAIN Rewritten
    PROVE  ParseConfiguration(Serialized(Form(text))) = ParseConfiguration(text)
<1>. DEFINE form == Form(text)
            loaded == ParseConfiguration(text)
            parser == FoldLeft(TakeLine, Unread, Serialized(form))
            found == parser.tunnel_fields
            Kept(tunnel) == Part(tunnel.fields, SavedKeys(tunnel.fields))
<1>1. /\ GoodText(text) /\ DOMAIN loaded = {text[s].key : s \in Sections(text)}
      /\ loaded \in [DOMAIN loaded -> Config] /\ DOMAIN loaded \in SUBSET Aliases
  <2>1. /\ GoodText(text) /\ DOMAIN loaded = {text[s].key : s \in Sections(text)}
        /\ loaded \in [DOMAIN loaded -> Config]
    BY TextParsed
  <2>2. \A s \in Sections(text) : text[s].key \in Aliases
    BY <2>1 DEF GoodText
  <2>. HIDE DEF loaded
  <2>. QED
    BY <2>1, <2>2
<1>2. Before(text, Len(text)) = Sections(text) /\ \A s : Held(text, s, Len(text)) = FieldsOf(text, s)
  BY DOMAIN text = 1 .. Len(text) DEF Before, Held, Sections, FieldsOf
<1>3. ShownSections(text, Len(text), form)
  BY <1>1, FormShows
<1>4. FormIsValid(form)
  OBVIOUS
<1>. HIDE DEF form
<1>5. /\ form \in Seq(Tunnels) /\ DOMAIN form = 1 .. Len(form)
      /\ \A i, j \in DOMAIN form : form[i].alias = form[j].alias => i = j
      /\ \A s \in Sections(text) : \E j \in DOMAIN form : form[j].alias = text[s].key
  BY <1>2, <1>3 DEF ShownSections
<1>6. ASSUME NEW j \in DOMAIN form
      PROVE  /\ Savable(form[j]) /\ form[j].alias \in DOMAIN loaded
             /\ loaded[form[j].alias] = MakeTunnel(Kept(form[j]))
  <2>1. PICK s \in Sections(text) :
          form[j].alias = text[s].key /\ Shown(text, FieldsOf(text, s), form[j].fields)
    BY <1>2, <1>3 DEF ShownSections
  <2>2. form[j].fields["mode"] # "client" => form[j].fields["tcp_listen_port"] \in Digits
    BY <1>4 DEF FormIsValid
  <2>3. form[j] \in Tunnels
    BY <1>5
  <2>. QED
    BY <1>1, <2>1, <2>2, <2>3, FormTunnel
<1>7. ReadBack(form, Len(form), parser)
  BY <1>5, <1>6, FormRead DEF Storable
<1>8. ParseConfiguration(Serialized(form)) =
        IF parser.refused \/ parser.version # 1 \/ \E alias \in DOMAIN found : MakeTunnel(found[alias]) = Refused
        THEN Refused ELSE [alias \in DOMAIN found |-> MakeTunnel(found[alias])]
  BY DEF ParseConfiguration
<1>. HIDE DEF parser
<1>9. DOMAIN found = DOMAIN loaded
  BY <1>1, <1>5, <1>6, <1>7 DEF ReadBack
<1>10. \A alias \in DOMAIN loaded : MakeTunnel(found[alias]) = loaded[alias]
  <2>1. \A j \in DOMAIN form : MakeTunnel(found[form[j].alias]) = loaded[form[j].alias]
    BY <1>5, <1>6, <1>7 DEF ReadBack
  <2>. QED
    BY <1>1, <1>5, <2>1
<1>11. \A alias \in DOMAIN loaded : loaded[alias] # Refused
  BY <1>1, RefusedAssumption
<1>. HIDE DEF loaded
<1>12. ParseConfiguration(Serialized(form)) = [alias \in DOMAIN loaded |-> loaded[alias]]
  BY <1>7, <1>8, <1>9, <1>10, <1>11 DEF ReadBack
<1>. QED
  BY <1>1, <1>12 DEF loaded, form

\* A configuration that the form can show is the same one after it has been saved,
\* however many tunnels it has: what the form reads with regular expressions and
\* writes anew is for the parser the text that it has been.
THEOREM FormAlwaysKeeps == Spec => []FormKeepsConfiguration
<1>1. GivenOK => FormKeepsConfiguration
  <2>. SUFFICES ASSUME GivenOK, file # NoFile, Loaded # Refused, Form(file) # Refused, FormIsValid(Form(file)),
                       \A i \in DOMAIN file : file[i].value \notin DOMAIN Rewritten
                PROVE  ParseConfiguration(Serialized(Form(file))) = Loaded
    BY DEF FormKeepsConfiguration
  <2>1. file \in Seq(Line) /\ Loaded = ParseConfiguration(file)
    BY DEF GivenOK, Loaded
  <2>. QED
    BY <2>1, FormSaved
<1>. QED
  BY <1>1, DisplayAlways, PTL DEF DisplayInv
=============================================================================
