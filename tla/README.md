# Verification of DatagramTunneler

DatagramTunneler carries UDP multicast from one subnet to another over a TCP
connection. This directory holds TLA+ models of it: modules translated from the
C++ sources (and, where they meet them, from the dashboard's `app.js`), TLC
configurations that check them on small instances, and theorems about them that
TLAPS proves for all values of the constants. `PROJECT.json` maps each
definition to the lines it models, and lists the runs, the hazards of the code,
the mutants that each property was tried on, and the findings.

To check: `tlc -config X.cfg M` for each row of the table of runs,
`tlapm X_proofs.tla` for each proof module.

## 1. Inventory: the system and its parts

| Component | Source | State | Operations | Talks to |
|---|---|---|---|---|
| DTEP framing and forwarding loops | `DatagramTunneler.cpp`, `Protocol.h` | one `TunnelPacket` on each side, never cleared; write pointer and `len_to_read` of the server | read the group, send a frame or a heartbeat; reassemble, publish | the other side, over TCP |
| Session | the same, `Network.h` | sockets, receive timeouts, stop token | connect with a deadline, accept, time out, notice the other's end, stop | TCP, `ManagedTunnelRuntime` |
| `ManagedTunnelRuntime` | `control/ManagedTunnelRuntime.*` | map of workers, each with a snapshot, a thread and metrics | start, stop, restart of tunnels and producers, snapshots, metrics of datagrams | `ControlService` for definitions, the event sink, its worker threads |
| `LocalControlServer` | `control/LocalControlServer.*` | registered WebSocket clients, a mutex per client; the request in hand | HTTP requests one at a time, subscription, broadcast, metrics every second | browsers, the runtime, `ControlService` |
| `ControlService` | `control/ControlService.*` | configuration in memory, file, temporary file | look up, replace, direct command | the parser, the file system |
| Configuration parser | `Configuration.*` | the section it is in, the fields so far | parse, find a tunnel, write a sample | |
| `DatagramProducer` | `Producer.*` | number of the next datagram | send `count` datagrams, or until stopped | a multicast group |
| `LiveOutput` and reports | `LiveOutput.*`, `DatagramTunneler.cpp` | ring of five lines, windows of latencies, samples of the interval | log, record, render, report | the terminal |
| Dashboard | `web/app.js` | runtimes shown, configuration draft | refresh, events, requests, form editor, save | the control API |
| Command line, main | `CommandLine.*`, `main.cpp` | the tunnel to run, what the display is set to | parse arguments, run one command | all of the above |
| Network helpers | `Network.*` | handles | thin wrappers of system calls | the operating system |

What is hard in it, and what has to be right nevertheless:

- **Fragments.** TCP may cut frames anywhere; both sides keep one buffer that
  still holds the frame before. Every byte must land in the field it belongs to,
  no read may pass the frame or the buffer, and a frame cut off by an error or
  the end of a process must not be published. HTTP requests come in pieces too,
  with lengths that clients may declare wrongly.
- **Timeouts that race.** The client sends a heartbeat after five seconds
  without a datagram, the server gives up after six without a byte. Nobody alive
  may be given up, nobody dead be waited for, and a stop request has to be
  noticed by whatever call the thread is waiting in.
- **The end of the other side.** The server learns of it by `recv`, the client,
  which never reads from the TCP connection, only by a `send` that fails.
- **Threads and one supervisor.** Requests, workers that end at any moment, and
  restarts that join one worker and start the next share the map of workers. No
  thread may be lost or run twice, and a final state must be final.
- **Events.** Three kinds of threads write to the same sockets; publications
  happen outside of the mutex that orders the states they tell of; a browser may
  subscribe, stall or go away in between.
- **A file replaced while the process may die.** Either configuration may be
  found afterwards, never half of one; and what was answered must be true.
- **Things that forget.** Rings and windows are at their limit after a minute
  and stay there: first lines, oldest samples, percentile indices and clocks that
  disagree are where they go wrong.
- **One meaning, several languages.** A tunnel is written in a file, in the
  form of the dashboard and on a command line, and read by different code each
  time.

`PROJECT.json` lists 40 such hazards with their lines and the properties that
are aimed at each.

## 2. Modules, and how they correspond to the code

```
TunnelRelay      what a tunnel promises (a FIFO relay of datagrams)
   ^ refined by
TunnelStream     the two loops and the byte stream       TunnelStream_proofs
TunnelSession    the same two loops in time              TunnelSession_proofs
   ^ stands behind "works", "ends", "heeds a stop"
ManagedRuntime   supervisor and worker threads           ManagedRuntime_proofs
   v refines
Supervisor       what a supervisor of threads promises
   ^ refined by
ControlEvents    the event stream to browsers            ControlEvents_proofs

ConfigStore      the configuration file                  (proofs with the next)
   ^ composed with, and implemented by
ControlRequests  the thread that serves HTTP requests    ControlRequests_proofs

Configuration    the parser and the page's form
   ^ EXTENDS
CommandLine      the parsers of arguments, the direct command
   ^ EXTENDS
Program          main(): one invocation of the program   Program_proofs

Telemetry        display, latency report, metrics        Telemetry_proofs

SequenceFolds    models no code: how to reason by induction along a fold of
                 the community modules, for the two above
```

**TunnelStream** models `runClient`, `sendTCPData` and `runServer` after the
connection is made. A byte is the pair of its frame and its offset there; the
server's buffer is an array of such bytes, never cleared, as in the code, so
that a stale field shows as a byte of another frame. `fill` is the distance of
the pointer `p` from the packet's start and `want` is `len_to_read`. A `send`
takes any part and a `recv` returns any part. Either side may stop at its loop
condition or fail; the client may also die in the middle of a frame; the server
may time out. Clients may speak another protocol version. Left out: the clock
(it is in `Telemetry`), the log lines, and the group address in the header, whose
bytes are there but say nothing that a property uses.

**TunnelRelay** is its abstract specification: datagrams taken are published in
order, at most once, unchanged. `TunnelStream` implements it with
`taken <- taken`, `published <- published` and `open` for a server that reads.

**TunnelSession** has the same loops with time and without bytes. `Tick` is one
unit of time; it waits for whatever is due. `flight` is what TCP holds, each
message with its age, delivered after `MaxDelay` at the latest. Reset, end of
connection, refused connection, a host that vanishes, and TCP giving up on a
host that has vanished are actions of their own. What the client does between
`connect` and its first `recv` (tell its observer, join the group) takes no time here.
`jumbos` says whether the group
carries datagrams longer than the tunnel forwards. It is the release build: one
with assertions ends at the first such datagram (`DatagramTunneler.cpp:246`).

**ManagedRuntime** has one control thread, which serves one request after the
other as `LocalControlServer::run` does, and the worker threads. One step is one
critical section of `mutex_`, one publication (outside of it, as in the code),
one join, or the creation of a thread, which may fail. Worker objects are
destroyed when neither the map, nor the control thread's local variable, nor the
thread's closure refers to them; hence the small set of reusable `Workers`.
Its metrics are in `Telemetry`.

**Supervisor** is its abstract specification, without slots, objects, joins and
publications: of each name a thread that is entered, runs and leaves, and a state
that is shown. A start waits until the last thread has returned, a stop is asked
only of a thread that will heed it, "running" is said at most once and "over" last.
`ManagedRuntime` implements it with the states by their meaning (`Meaning`) and the
thread, found among the workers, by what it has still to make known (`Place`).

**ControlEvents** has the control thread, the metrics thread and the workers as
publishers. `broadcastEvent` is four kinds of steps: copy `clients_`; take a
client's mutex; write a frame (it blocks while the socket has no room) or fail
because the browser is gone; drop the clients that failed. A subscription is
upgraded, has its snapshots taken, is sent them one by one *without* the
client's mutex and is then registered. A browser that reconnects is a new
client. A runtime may also go without a word: when its thread cannot be created after
its start was announced (`SpawnFails`), when a restart or another start takes the
finished worker out of its slot (`Remove`, `Start`), or when what should follow
a removal fails. No write fails because its text is too long for a frame: aliases have
64 characters at most, and errors 512 bytes. A page shows the state in the last
frame it read (`eventFromWire`). The page's `refresh`, at its start and 120 ms after its own requests, is left out:
requests here are those of other clients of the API.

**ConfigStore** is `replaceConfiguration` line by line, with a failure at each
call, a crash after each step, the second rename on Windows, and the buffer of
the output stream: a short text is written only by the stream's destructor,
which cannot report an error. A text is a configuration, one the parser refuses,
or `Cut`, what there is of a file not written to its end; the parser may take
that for a configuration too (`StartFromCut`; which ones, `Program` says).

**ControlRequests** EXTENDS it: `run`, `serveConnection` and `receiveRequest` as
one thread that accepts, receives, acts, answers and closes. A request is so many
units of header, a declared length (none is zero, `None` is not a number) and so
many units of body; `recv` returns any part of what has been sent. A `PUT`
runs `ConfigStore`'s steps while the thread stays with its client; everything
that is thrown is answered 400. `inherits` is a property of the operating
system: whether accepted sockets have the listener's receive timeout, the only
one there is.

**Configuration** has `parseConfiguration` as a fold over lines, with the
section it is in as its state. A line is a section, a field, blank or junk; its
value is a text, of which tables say what number, endpoint, address or interface
it is taken for; a number with a minus sign wraps around where the code's
conversion lets it (`Unsigned`). The form editor of the dashboard, which has a reader and a
writer of its own, is here as well. **CommandLine** has the parsers of arguments
in the same manner, and `directCommand`, with what a shell makes of its words: it quotes
nothing, so that a blank splits a name, a backslash goes, a `$` stands for something
else and a `;` ends the command (the table `Special`). An option that takes an argument is kept
as `option` until the argument has come (`NoOption` when none is awaited).
**Program** is `main`: from the arguments, by way of the file, an editor and the
constructor to a tunnel that runs, with the display that is switched on on the
way. A sample written to a full disk is cut off at some line or within one, with
exit status 0 (`WriteSample`).

**Telemetry** is what a server tunnel remembers of its datagrams:
`CompactOutput` (ring of lines, window of latencies), `LatencyStatistics` (the
report of an interval) and `recordDatagram` (metrics, recent datagrams), step
by step in the order in which the loop calls them. History variables hold
everything there has been. Latencies are whole numbers; percentile indices are
computed with integers, which agree with the code's doubles for every number of
samples below a hundred thousand.

Tunnel, runtime and events are not one large product. `ManagedRuntime` and
`ControlEvents` meet in `Supervisor`: the first implements it, and the runtimes of
the second, of which only states are kept, are shown to do nothing that it would
not allow. `ManagedRuntime` lets a worker work, end and heed stop requests as
`TunnelSession` shows it does (`StopHeeded`); that is by assumption. `ControlRequests` and
`ConfigStore` are composed for real, and so are `Program`, `CommandLine` and
`Configuration`.

## 3. What is checked

| Run | Instance | States | What it shows |
|---|---|---|---|
| `stream` | frames of 2 + 2 + up to 3 bytes, window of 6, 3 frames, versions 1 and 2 | 57 thousand | `NeverReadsPastFrame`, `FrameAligned`, `CountsAgree`, `OnlyOwnVersion`, `IInv`; the refinement `RelaySafety`; `EveryDatagramDelivered` |
| `session` | heartbeat 3, silence 5, delay 1, connect 3, polls 1 and 2, TCP holds 2 | 237 thousand | `NoFalseAlarm`, `CadenceWithoutJumbos`, `StopHeeded`, `BothExitWithoutJumbos` |
| `session-exit` | the same | | violated: `BothExit` |
| `runtime` | one alias (so a tunnel and a producer), two worker objects | 236 thousand | `NoOrphan`, `OneThreadPerKey`, `ActiveMeansAlive`, `EventsTold`, `FinalStays`, `RequestsEnd`, `StopsEnd`; the refinement `SupervisorSafety` |
| `events` | two runtimes and two browsers, sockets of two frames, requests while a runtime has fewer than 2 changes, within `Bound` | 3.6 million, by symmetry | `OneWriter`, `SnapshotsFirst`, `NothingLost` |
| `events-live` | one runtime, one browser, sockets of one frame, requests while fewer than 3 changes | 246 thousand | `PublicationsEnd`; the refinement `SupervisorSafety` |
| `events-gap` | one browser | | violated: `SnapshotIsComplete` |
| `events-stale` | one browser | | violated: `DeckShowsCurrentState` |
| `requests` | two clients, two configurations, 11 requests of up to 8 units, limit of 3 | 226 thousand | `OldOrNew`, `LastReportedIsUsed`, `ReadsWholeRequests`, `MemoryFollowsFile`, `ComesUpAgain`, `EveryoneIsAnswered` |
| `telemetry` | ring and windows of 3, 2 recent datagrams, interval and heartbeat of 2, clock differences -1, 0, 1, 3; 5 datagrams, 7 ticks | 2.2 million | `ScreenShowsLast`, `WindowsAreLast`, `Percentiles`, `ReportedOnce`, `ReportedSoon` |
| `program` | 3 texts with each change of one line (one of them with two changes), 13 invocations with each change of one argument | 77 thousand | `AcceptsExactly`, `OnlyTheLastServerIsCut`, `FormKeepsConfiguration`, `EquivalentCommand`, `VerboseIsHeeded` |
| `store-full` | two configurations | | violated: `ReplacementPersists` |

The type invariants and, but for `stream`'s, the inductive invariants are not run:
they are theorems, for every value of the constants (section 5).

What some of the properties say, in the code's terms:

- *SnapshotsFirst*: a page that is registered has been sent the state of each
  runtime that was there, and no such frame stands behind an event, which it would
  undo. *NothingLost*: it is told of every change that is *published*; of a runtime
  that vanishes nothing is published.
- *ReadsWholeRequests*: a request that says how long it is is acted on only when
  it is there to its last unit, and called malformed only if its client has not
  sent all of it. (One with a body and no `Content-Length`, or with a chunked
  body, is taken or refused according to where TCP cuts it; the property does
  not speak of it.)
- *LastReportedIsUsed*: between two replacements the configuration in use is the
  one last reported as updated, so that an error that was answered has changed
  nothing. *EveryoneIsAnswered*: a client that stalls delays the others, but only
  while no timeout is inherited.
- *WindowsAreLast* is about windows of latencies. `README.md:219-221` speaks of datagrams;
  that is the same, except while the client's clock is ahead, when a datagram has no
  latency.
- *Percentiles*: the figures on the display (index rounded up) and those of the
  metrics (rounded down) each describe the latencies they stand for. *ReportedOnce,
  ReportedSoon*: each latency is in one report, and that within an interval and a
  heartbeat's period, since a report is only made by a frame that arrives (while the
  display is on, to be reported means that the samples are dropped and nothing is
  logged). It does not hold while the client's clock is ahead: such datagrams do not
  make the server report, and keep the client from sending heartbeats.
- *AcceptsExactly* compares the parser's loop with a definition of good texts
  that says nothing of how they are read. *OnlyTheLastServerIsCut*: what is left of
  a file that was cut off may be accepted, and then a server may publish on the
  client's group instead of its own destination, or listen to a shorter port, but
  only the last one (an interface whose name is made of digits might be cut too,
  which the property excepts). *FormKeepsConfiguration*: what the form shows and
  saves is the configuration there was (a lone backslash excepted, which the form
  doubles). *EquivalentCommand*: the direct command, typed into a shell, makes the same
  tunnel, unless a shell does not take the name of its interface as it is (`Special`:
  blanks, backslashes, `$`, `;`). *VerboseIsHeeded*: when something is about to run,
  the output is verbose if and only if `--verbose` was given as an option (not as the
  argument of one), and the compact display is on if and only if there is a terminal and
  it was not; what is an option's argument is said without the parsers, by counting
  the run of option names before it (`Belongs`).

**Why the bounds are enough.** *stream*: the preamble, header and length have
different values, so that no two off-by-one errors cancel; the payload may be
empty, the window is shorter than a full frame, so that both sides wait for each
other in the middle of one, and three frames give a datagram, a heartbeat and a
datagram in all orders with two stale predecessors. *session*: the proportions are
those of 5 s, 6 s and a delay below their difference (`Margin`, an assumption
the instance is checked for); two messages fill TCP. *runtime*: two worker
objects are the most that one key can refer to at once, and make tunnel and
producer compete for them; a second alias would only be independent. *events*:
two runtimes and two browsers with sockets of two frames are too many together, so
`Bound` joins two families: two runtimes, each started once, and one browser that
stays and whose socket holds two frames, which is what an order of snapshots and events
needs (no metrics are due there); and
one runtime, stopped and restarted, with two browsers whose sockets are full with one
frame, one of which may fail while the other is to be told. One runtime already has
three publishers; it may be restarted as soon as it has been announced, and in
`events-live` also after it has run or ended. *requests*: one client to be served and one to wait; each
request's header may be below, at and above the limit, each length right, too
short, too long, absent, or no number; a replacement may succeed, then another fail.
*telemetry*: five datagrams pass the ring and each window by two; seven ticks are
three intervals. *program*: one changed line reaches each check of the parser, and
two of them a section that is left and entered again; each option meets each
position of an invocation; the interfaces have a name with a blank, one with a backslash,
one with a semicolon and one with a dollar sign; one number is negative and wraps to a
port.

**Fairness, and why the code justifies it.** Weak fairness of each thread's next
step, for operating systems run threads. `TunnelStream`: sending what can be sent
and reading what has arrived; no new datagram, stop or failure is promised.
`TunnelSession`: time passes and what is due happens; TCP delivers or gives up.
`ManagedRuntime`: a worker heeds its stop token (that is `StopHeeded`), the
sink returns (that is `PublicationsEnd`); nothing else need end a worker.
`ControlEvents`: a page that is open reads; a mutex released again and again is
taken (strong fairness of `TakeLock`), since the only thread that comes back of
itself sleeps for a second. A browser that stays connected and never reads does
block whoever publishes: the sockets have no send timeout. `ControlRequests`: the
control thread runs, and a service that can start is started; its clients need
never send another byte. `Telemetry` and `Program` have safety properties only.

No run checks for deadlock: every one of these systems may come to rest with
nothing to do.

## 4. Findings

Each is a run that TLC must find violated.

- `session-exit`: "When either endpoint disconnects, both sides exit"
  (`README.md:307`). Each discarded datagram restarts the client's receive
  timeout, so heartbeats may be put off for ever: the server gives up, and the
  client, which notices only by sending, goes on. Without such datagrams both
  sides do exit (`BothExitWithoutJumbos`) and the cadence of heartbeats is kept.
- `events-gap`: "A new connection receives a complete runtime snapshot before
  subsequent events" (`docs/control-api.md:100`). Events between the snapshot
  and the registration are lost.
- `events-stale`: the dashboard promises the "current state". Frames of
  different threads pass each other, and a page may end on Stopping, or Running,
  for a runtime that has stopped.
- `store-full`: a replacement is reported as made although its text never
  reached the disk, and the old file is gone.

Noticed while reading, and not the subject of a run:

- A unit test (`tests/unit_tests.cpp:235-237`) counts three events as soon as a
  snapshot reads Stopped; states change before their events go out. What does hold
  is `EventsTold`: a thread that can be joined has told all of them.
- All errors are answered 400, where `docs/control-api.md:117-123` also promises
  404, 409 and 422.
- `--count -1` is taken for 2^64 - 1, and a number too large or too small for its type
  ends the direct invocation by an exception nobody catches.
- The null latency of `docs/control-api.md:76` never comes back once a latency
  has been measured.
- No event says that a runtime is gone. If the thread of one that was announced as
  starting cannot be created (`ManagedTunnelRuntime.cpp:97-103`), or a restart removes a
  worker (227-233) and the start fails, a page that has read every frame goes on
  showing the last state it was told of, until its connection is renewed.
- "Equivalent direct commands" (`docs/control-api.md:28`) quote nothing
  (`ControlService.cpp:30-35`): for an interface named `Wi Fi` or `a\b` the command,
  typed into a shell, is another tunnel's or none. `EquivalentCommand` excepts them by name.
- A sample configuration cut off by a full disk is left there with exit status 0
  (`Configuration.cpp:253-271`): the stream is not looked at after the text.
- A negative port of the right size wraps around to a valid one (`Configuration.cpp:53`).
- A page whose own reader refuses the text it has just saved shows an error
  although the service has taken it (`web/app.js:391-398`).

## 5. What is proved

Eight modules of proofs, checked by TLAPS with no step left open. Every property
that a passing run checks and that is not about fairness is a theorem in one of them.

**TunnelStream_proofs**, for all lengths, windows and numbers of frames within
`StreamAssumption` (the offsets are ordered as in `TunnelPacket`). The inductive
invariant `IInv` chains the frames in the stream, places the sender in its last
frame and the reader in its frame, and says of every byte of the buffer which
frame it came from. That last part (`FrameAligned`) is why it is needed: what
`want` is set to depends on bytes that arrived earlier, so the number of bytes
still to read is right only if the type and length fields in the buffer are
those of the frame in hand. From it: `TypeCorrect`, `ReadsStayInFrame`,
`BufferAligned`, `CountsAgreeAlways`, `OtherVersionsRejected`, and
`ImplementsRelay`, the refinement of `TunnelRelay`, whence `PublishedInOrder`.

**TunnelSession_proofs**, for all timeouts within `SessionAssumption`. The
invariant says how long each side can have waited by what it is waiting for:
the oldest message in flight, or the other's next one. `StopsHeeded` and
`TypeCorrect` need no more. `NoFalseAlarms` assumes `Margin`: heartbeat period
plus delay is less than the silence timeout. `CadenceKept` adds that without
discarded datagrams a wait of the client begins with a send.

**ManagedRuntime_proofs**, for any sets of aliases and workers. The invariant
ties the slot, the owner of a worker object, its state and the place of its
thread to where the control thread is. The delicate part is the time between
`releaseFinishedSlot` taking a worker out of its slot and having joined it:
`WorkersKept` allows exactly that one. From it `NoOrphans`, `OneThread`,
`ActiveIsAlive`, and the action property `FinalIsFinal`. `EventsAreTold` has an
invariant of its own that counts what each thread has told by where it is.
`RuntimeIsSupervised` is the refinement of `Supervisor`, with one lemma for each
action that is seen; it needs that there is only one thread per key, for what
`Supervisor` sees is chosen among them, and that a worker with no thread yet is
shown as starting. `StatesAreTrue` says what that means for those who look.

**ControlEvents_proofs**, for any number of browsers, runtimes and places in a
socket. `IInv` has five parts: types, the control thread's requests, the
publishers (who holds which mutex, and that what a thread still has to write to
is in nobody else's hands), the subscribers (`clients_` has no duplicates, and a
client being sent its snapshots is in nobody's copy of it), and the sockets. From
it `OneWriterAlways`, `SnapshotsComeFirst` and `NothingIsLost` (every change that is
published, whatever vanishes meanwhile); the last needs that an event not yet in a socket is still on the list of a thread that will write it,
also after a write to another browser has failed. `EventsAreSupervised` is the same
refinement for the runtimes whose events are sent.

**ControlRequests_proofs** is about `ConfigStore` and about the service that runs
it. Of the file, for any set of configurations: an invariant says what the
temporary file and the file hold at each step; `CrashSafe` follows where a rename
replaces a file and the disk has room, `Follows` wherever it has room, and
`Persists`, which is `store-full`'s property with those two assumptions. Of the
service, for any clients, requests and limit: `ImplementsStore`:
each step of the service is a step of `ConfigStore` or leaves it alone, so that
the store's invariant carries over (`RequestsCrashSafe`, `RequestsFollow`). Its own
invariant says how much has been read at each stage (`Reading`) and that a
replacement under way is the request's, while memory is what was last reported
(`Reporting`). From it `ReportedIsUsed` and the action property `ReadsWhole`.

**Telemetry_proofs**, for all capacities, periods and differences of clocks.
`ShowsLast` ties the ring's slots to positions in the list of all lines (slot `i`
holds the latest line whose position is `i` modulo the size), `WindowsKeepLast`
says that cutting off the front of a window and appending commute with taking the
latest, `ReportsOnce` and `ReportsSoon` bound the samples by when the client was
last heard from. `IndicesInRange` and `IndicesAgree` are about the percentile
indices for every number of samples. `PercentilesDescribe` says that no more samples
are below or above the median shown, above the 99th percentile and above the maximum
than those names promise, on the display, in the report and in the metrics; sorting is what the model's `SortSeq` says, so the proof counts
positions of a sorted permutation.

**SequenceFolds** has no code behind it. The prover cannot be told an induction
over a recursive function's argument through the library's theorems, which take an
operator; it can prove one where the operator is a CONSTANT of a module. So the
module has a step `Op` and a predicate `Inv` as constants, and three lemmas:
`FoldLeftInduction` (what holds at the start and is kept by each step holds of the
fold, by the least length for which it does not), `FoldStates` (the sequence of the states passed
through) and `FoldParts` (a fold over a sequence is the fold over its rest from the
fold over its front). Its users take it by `INSTANCE`, once for each loop.

**Program_proofs**, for all invocations, texts and tables within the assumptions of
`Configuration`, `CommandLine` and `Program`, which say what the tables of texts have
in common: digits are numbers, no number is an endpoint, addresses name their own
interface, a number and an endpoint have a text that is read as them, and the words
the parsers know are distinct from all that. The display has an invariant,
`DisplayInv`, that says at each place of `main` what has been switched on;
`ProgramTypeCorrect` follows. The other five are about loops:

- `VerboseAlwaysHeeded`: of each of the three parsers, by induction along the arguments,
  that it waits for an option's argument exactly when an odd number of option names stand
  in a row before the place it is at (`Waiting`), so that it has seen `--verbose`
  exactly if that was given as an option; then `DisplayInv` says what the display is.
- `ParserAcceptsExactly`: after each line the parser's state is described by the
  section it is in, the fields since, and what the lines so far would have to be
  for none of them to have been refused (`LineRead`); at the end that is `GoodText`.
- `OnlyTheLastServerLoses`: every section of a cut text but its last is as it was
  (`CutMap`); a client needs all of its fields, and of their values only the name of
  an interface could be cut.
- `FormAlwaysKeeps`: the page's reader, then its writer, then the program's parser.
  What the page has after each line are the same sections and fields
  (`FormShows`); what it writes is read as each tunnel's lines, one tunnel after
  the other (`FoldParts`), and they make the same tunnel again.
- `CommandAlwaysEquivalent`: each of the up to seven words, unless it is in `Special`, is
  taken by the shell as it stands and by the parser for the field it came from; numbers
  and endpoints are not in `Special`, so only the interface's name can be.

Only model-checked: the seven liveness properties (fairness and ENABLED are out of
the prover's reach), and the four properties of section 4, which are violated.

## 6. Not modelled, and why

- Text: the WebSocket handshake's digest, the JSON of answers, escape sequences
  and the width of a terminal, listings and help, the default path, and the words
  of an editor's command. No state depends on them.
- Averages and throughput: floating point.
- The numbering and pace of `DatagramProducer`'s datagrams: a counter and a sleep.
- A second TCP client in the listener's backlog, which the code takes no step
  about; and several hosts on one group (`replicate_client` on the client's own
  subnet feeds datagrams back), which depends on a topology that no code determines.
- The dashboard's `refresh` and drafts. A refresh may overwrite newer states
  (`web/app.js:406`), which is the same disagreement as `events-stale`'s.
- Files edited by hand while the service runs: `GET /config` shows them, nothing
  else uses them.
- Destruction of the server with workers alive: the program never asks its
  server to stop.
- System calls (`Network.cpp`), packaging, tests: wrappers, build files and
  checks without state of their own.

## 7. Order of the work

The modules were written in the order of what matters most: stream, session,
runtime, events, store, then requests, telemetry and the program, and each was
model-checked before anything of it was proved; the supervisor that runtime and
events share came last. What could come next: a worker of `ManagedRuntime` shown
to be what `TunnelSession` promises; the dashboard's `refresh` and drafts composed
with `ControlRequests`.
