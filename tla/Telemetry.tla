------------------------------ MODULE Telemetry ------------------------------
(***************************************************************************)
(* What a server tunnel remembers of the datagrams it has published:       *)
(* CompactOutput's display (one line of statistics over a ring of event    *)
(* lines), LatencyStatistics' report of every interval, and, for a tunnel  *)
(* of the control service, the metrics and the recent datagrams that       *)
(* ManagedTunnelRuntime::recordDatagram() keeps.  All of them forget: the  *)
(* history variables at the end are there to say what they must still      *)
(* know.  Times are ticks; a latency is a number or None.                  *)
(***************************************************************************)
EXTENDS Integers, Sequences, FiniteSets

CONSTANTS
    EventLines,         \* kEventLines, 5
    LatencyWindow,      \* kMaxLatencySamples, and 1024 in recordDatagram()
    RecentDatagrams,    \* 10 in recordDatagram()
    ReportInterval,     \* kLatencyReportInterval, in ticks
    HeartbeatPeriod,    \* the client is heard from this often, in ticks
    ClockDifferences,   \* the server's time less the client's timestamp
    None,               \* no latency
    MaxDatagrams,       \* bound on the datagrams
    MaxTime             \* bound on the time

ASSUME TelemetryAssumption ==
    /\ EventLines \in Nat \ {0} /\ LatencyWindow \in Nat \ {0}
    /\ RecentDatagrams \in Nat \ {0}
    /\ ReportInterval \in Nat \ {0} /\ HeartbeatPeriod \in Nat \ {0}
    /\ ClockDifferences \subseteq Int /\ None \notin Nat
    /\ MaxDatagrams \in Nat /\ MaxTime \in Nat

VARIABLES
    enabled,            \* CompactOutput::enabled_
    managed,            \* the tunnel has an observer: it is the control service's
    at,                 \* where the server's loop is with a datagram
    latency,            \* the latency of that datagram
    events_, next_event_, event_count_, datagram_count_, latency_samples_,
    samples_, last_report_, report,
    recent_datagrams, latency_window, metrics_count, metrics_latency,
    now, heard,         \* the time, and when the client was last heard from
    observed,           \* history: the latency, or None, of each datagram published
    measured,           \* history: the latencies among them
    lines,              \* history: every event line
    reported            \* history: how many latencies the reports have covered

display == <<events_, next_event_, event_count_, datagram_count_, latency_samples_>>
statistics == <<samples_, last_report_, report>>
snapshot == <<recent_datagrams, latency_window, metrics_count, metrics_latency>>
clock == <<now, heard>>
history == <<observed, measured, lines, reported>>
vars == <<enabled, managed, at, latency, display, statistics, snapshot, clock, history>>

Line == [kind : {"warning", "published"}, number : Nat]
Blank == [kind |-> "blank", number |-> 0]

-----------------------------------------------------------------------------
(* Percentiles of a sequence of samples. *)

\* The i-th smallest element, counted from zero: std::sort(), then an index.
Sorted(s, i) ==
    CHOOSE x \in {s[j] : j \in DOMAIN s} :
        /\ Cardinality({j \in DOMAIN s : s[j] < x}) <= i
        /\ Cardinality({j \in DOMAIN s : s[j] <= x}) > i

\* Mutant: of the size, not of the last index.
FloorIndexOfSize(percent, n) == (percent * n) \div 100
\* static_cast<std::size_t>(p * (size - 1)), as the display and the service have it.
FloorIndex(percent, n) == (percent * (n - 1)) \div 100

\* ceil(p * size) - 1, as the report has it.
CeilIndex(percent, n) == (percent * n + 99) \div 100 - 1

\* What is said of the samples s; nothing of none.
NoFigures == [size |-> 0, p50 |-> None, p99 |-> None, max |-> None]
Figures(s, Index(_, _)) ==
    IF s = <<>> THEN NoFigures
    ELSE [size |-> Len(s), p50 |-> Sorted(s, Index(50, Len(s))),
          p99 |-> Sorted(s, Index(99, Len(s))), max |-> Sorted(s, Len(s) - 1)]

Latest(n, s) == SubSeq(s, IF Len(s) > n THEN Len(s) - n + 1 ELSE 1, Len(s))

-----------------------------------------------------------------------------
Init ==
    /\ enabled \in BOOLEAN /\ managed \in BOOLEAN /\ (managed => ~enabled)
    /\ at = "read" /\ latency = None
    /\ events_ = [i \in 0..EventLines - 1 |-> Blank]
    /\ next_event_ = 0 /\ event_count_ = 0 /\ datagram_count_ = 0
    /\ latency_samples_ = <<>>
    /\ samples_ = <<>> /\ last_report_ = 0 /\ report = NoFigures
    /\ recent_datagrams = <<>> /\ latency_window = <<>>
    /\ metrics_count = 0 /\ metrics_latency = NoFigures
    /\ now = 0 /\ heard = 0
    /\ observed = <<>> /\ measured = <<>> /\ lines = <<>> /\ reported = 0

\* The time passes while the server waits, which it never does for longer than
\* it takes the client to send a heartbeat.
Tick ==
    /\ at = "read" /\ now < MaxTime /\ now - heard < HeartbeatPeriod
    /\ now' = now + 1
    /\ UNCHANGED <<enabled, managed, at, latency, display, statistics, snapshot, heard, history>>

\* Mutant: a slot more than there are lines is counted.
FirstWhenAlmostFull == IF event_count_ >= EventLines - 1 THEN next_event_ ELSE 0
FirstEvent == IF event_count_ = EventLines THEN next_event_ ELSE 0

\* render(): the lines on the terminal, the oldest first.
Rendered ==
    [i \in 1..event_count_ |-> events_[(FirstEvent + i - 1) % EventLines]]

\* statisticsLine(), rendered above them.
StatisticsLine == Figures(latency_samples_, FloorIndex)

CountUp == IF event_count_ < EventLines THEN event_count_ + 1 ELSE event_count_

\* appendEvent(), or a line that is printed and forgotten.
LogEvent(line) ==
    IF enabled
    THEN /\ events_' = [events_ EXCEPT ![next_event_] = line]
         /\ next_event_' = (next_event_ + 1) % EventLines
         /\ event_count_' = CountUp
         /\ lines' = Append(lines, line)
    ELSE UNCHANGED <<events_, next_event_, event_count_, lines>>

\* Mutant: the window is cut before the sample is added.
CutThenPush(s, sample, n) == Append(IF Len(s) > n THEN Tail(s) ELSE s, sample)
\* push_back(), and pop_front() when there are more than n.
PushBounded(s, sample, n) ==
    LET pushed == Append(s, sample) IN IF Len(pushed) > n THEN Tail(pushed) ELSE pushed

\* sendto() has published a datagram; recordDatagram() counts it.
Publish(difference) ==
    /\ at = "read" /\ Len(observed) < MaxDatagrams
    /\ at' = "measure" /\ heard' = now
    /\ latency' = IF difference < 0 THEN None ELSE difference
    /\ datagram_count_' = IF enabled THEN datagram_count_ + 1 ELSE datagram_count_
    /\ observed' = Append(observed, latency')
    /\ UNCHANGED <<enabled, managed, events_, next_event_, event_count_, latency_samples_,
                   statistics, snapshot, now, measured, lines, reported>>

\* "Client timestamp is ahead of the server clock".
MeasureNothing ==
    /\ at = "measure" /\ latency = None
    /\ at' = "observe"
    /\ LogEvent([kind |-> "warning", number |-> Len(observed)])
    /\ UNCHANGED <<enabled, managed, latency, datagram_count_, latency_samples_,
                   statistics, snapshot, clock, observed, measured, reported>>

\* Mutant: the interval is counted from the last message.
DueAfterSilence(samples) == now - heard >= ReportInterval /\ samples # <<>>
Due(samples) == now - last_report_ >= ReportInterval /\ samples # <<>>

\* Mutant: the samples of a report are in the next one, too.
Kept(samples) == samples
Cleared(samples) == <<>>

\* reportIfDue(), with the samples there then are; the display has no use for
\* the report, but begins the next interval all the same.
ReportIfDue(samples) ==
    IF Due(samples)
    THEN /\ samples_' = Cleared(samples) /\ last_report_' = now
         /\ report' = IF enabled THEN report
                      ELSE Figures([i \in DOMAIN samples |-> samples[i].latency], CeilIndex)
         /\ reported' = reported + Len(samples)
    ELSE samples_' = samples /\ UNCHANGED <<last_report_, report, reported>>

\* recordLatency(), then LatencyStatistics.
Measure ==
    /\ at = "measure" /\ latency # None
    /\ at' = "observe"
    /\ latency_samples_' =
         IF enabled THEN PushBounded(latency_samples_, latency, LatencyWindow) ELSE latency_samples_
    /\ measured' = Append(measured, latency)
    /\ ReportIfDue(Append(samples_, [latency |-> latency, since |-> now]))
    /\ UNCHANGED <<enabled, managed, latency, events_, next_event_, event_count_,
                   datagram_count_, snapshot, clock, observed, lines>>

\* ManagedTunnelRuntime::recordDatagram(), all of it under the mutex.
Observe ==
    /\ at = "observe"
    /\ at' = "log"
    /\ IF ~managed THEN UNCHANGED snapshot
       ELSE /\ recent_datagrams' = PushBounded(recent_datagrams, latency, RecentDatagrams)
            /\ metrics_count' = metrics_count + 1
            /\ IF latency = None THEN UNCHANGED <<latency_window, metrics_latency>>
               ELSE /\ latency_window' = PushBounded(latency_window, latency, LatencyWindow)
                    /\ metrics_latency' = Figures(latency_window', FloorIndex)
    /\ UNCHANGED <<enabled, managed, latency, display, statistics, clock, history>>

\* The line for the datagram, and back to recv().
Log ==
    /\ at = "log"
    /\ at' = "read"
    /\ LogEvent([kind |-> "published", number |-> Len(observed)])
    /\ UNCHANGED <<enabled, managed, latency, datagram_count_, latency_samples_,
                   statistics, snapshot, clock, observed, measured, reported>>

\* Its line of verbose output, which is printed and forgotten (the display is off
\* then), is left out.
Heartbeat ==
    /\ at = "read"
    /\ heard' = now
    /\ ReportIfDue(samples_)
    /\ UNCHANGED <<enabled, managed, at, latency, display, snapshot, now, observed, measured, lines>>

Next ==
    \/ Tick \/ Heartbeat
    \/ \E difference \in ClockDifferences : Publish(difference)
    \/ MeasureNothing \/ Measure \/ Observe \/ Log

Spec == Init /\ [][Next]_vars

-----------------------------------------------------------------------------
(* Properties *)

\* Every variable has its type.
TypeOK ==
    /\ enabled \in BOOLEAN /\ managed \in BOOLEAN
    /\ at \in {"read", "measure", "observe", "log"}
    /\ latency \in Nat \cup {None}
    /\ events_ \in [0..EventLines - 1 -> Line \cup {Blank}]
    /\ next_event_ \in 0..EventLines - 1 /\ event_count_ \in 0..EventLines
    /\ datagram_count_ \in Nat
    /\ latency_samples_ \in Seq(Nat) /\ latency_window \in Seq(Nat)
    /\ samples_ \in Seq([latency : Nat, since : Nat]) /\ last_report_ \in Nat
    /\ recent_datagrams \in Seq(Nat \cup {None})
    /\ metrics_count \in Nat
    /\ now \in Nat /\ heard \in Nat
    /\ observed \in Seq(Nat \cup {None}) /\ measured \in Seq(Nat)
    /\ lines \in Seq(Line) /\ reported \in Nat

\* "One statistics line and the five most recent events": the ring of lines is
\* shown from its oldest line on, whether or not it has been filled, and no line
\* is left out, shown twice or shown out of order.
ScreenShowsLast == Rendered = Latest(EventLines, lines)

\* What is left of the datagrams is always the latest of them: the display's
\* and the service's windows of latencies, and the recent datagrams.
WindowsAreLast ==
    /\ enabled /\ at \in {"read", "observe", "log"} => latency_samples_ = Latest(LatencyWindow, measured)
    /\ managed /\ at \in {"read", "log"} =>
         /\ latency_window = Latest(LatencyWindow, measured)
         /\ recent_datagrams = Latest(RecentDatagrams, observed)
         /\ metrics_count = Len(observed)

Above(w, x) == Cardinality({i \in DOMAIN w : w[i] > x})
Below(w, x) == Cardinality({i \in DOMAIN w : w[i] < x})

\* What p50, p99 and max promise of samples w: no more than half of the others
\* are less than p50 and no more than half, rounded up, greater; no more than
\* one in a hundred, rounded up, is greater than p99, and none than max.
Describe(figures, w) ==
    LET others == Len(w) - 1
    IN  /\ figures.size = Len(w)
        /\ w # <<>> =>
             /\ 2 * Below(w, figures.p50) <= others
             /\ 2 * Above(w, figures.p50) <= others + 1
             /\ 100 * Above(w, figures.p99) <= others + 99
             /\ figures.p50 <= figures.p99 /\ figures.p99 <= figures.max
             /\ Above(w, figures.max) = 0

\* The figures on the display, in the metrics and in the last report are those
\* of the latencies they stand for, at one sample and at a full window alike,
\* though the two kinds of percentile index differ.
Percentiles ==
    /\ enabled => Describe(StatisticsLine, latency_samples_)
    /\ managed /\ at \in {"read", "log"} => Describe(metrics_latency, latency_window)
    /\ ~enabled => Describe(report, SubSeq(measured, reported - report.size + 1, reported))

\* Every latency is in exactly one report: those not yet reported are what was
\* measured since the last one.
ReportedOnce ==
    /\ Len(samples_) = Len(measured) - reported
    /\ \A i \in 1..Len(samples_) : samples_[i].latency = measured[reported + i]

\* "Every five seconds": as long as the client sends its heartbeats, and its
\* clock has never been ahead, no latency waits for longer than an interval and
\* a heartbeat's period.  (A datagram without a latency keeps the client from
\* sending a heartbeat and does not make the server report.)
ReportedSoon ==
    (\A i \in 1..Len(observed) : observed[i] # None) =>
        \A i \in 1..Len(samples_) : now - samples_[i].since < ReportInterval + HeartbeatPeriod
=============================================================================
