-------------------------- MODULE Telemetry_proofs --------------------------
(***************************************************************************)
(* What Telemetry's rings and windows still know of all that they have     *)
(* seen, for every capacity and every interval.                            *)
(***************************************************************************)
EXTENDS Telemetry, SequenceTheorems, FiniteSetTheorems, TLAPS

Wrapped(a) == IF a < EventLines THEN a ELSE a - EventLines

\* Until the ring is full its lines are all there are, in order; then the
\* oldest of the last EventLines is where the next line will go.
RingHoldsLast ==
    /\ event_count_ < EventLines =>
         /\ next_event_ = event_count_ /\ Len(lines) = event_count_
         /\ \A i \in 1..event_count_ : events_[i - 1] = lines[i]
    /\ event_count_ = EventLines =>
         /\ Len(lines) >= EventLines
         /\ \A i \in 1..EventLines :
              events_[Wrapped(next_event_ + i - 1)] = lines[Len(lines) - EventLines + i]

\* The windows at every step of the loop: the latency in hand has been measured
\* before the service observes it.
WindowsHoldLast ==
    /\ at = "measure" => Len(observed) > 0 /\ observed[Len(observed)] = latency
    /\ at = "observe" =>
         /\ Len(observed) > 0 /\ observed[Len(observed)] = latency
         /\ latency # None => Len(measured) > 0 /\ measured[Len(measured)] = latency
    /\ enabled => latency_samples_ = Latest(LatencyWindow, measured)
    /\ managed =>
         /\ at \in {"read", "log"} =>
              /\ metrics_count = Len(observed)
              /\ recent_datagrams = Latest(RecentDatagrams, observed)
         /\ at \in {"measure", "observe"} =>
              /\ metrics_count = Len(observed) - 1
              /\ recent_datagrams = Latest(RecentDatagrams, SubSeq(observed, 1, Len(observed) - 1))
         /\ at # "observe" \/ latency = None => latency_window = Latest(LatencyWindow, measured)
         /\ at = "observe" /\ latency # None =>
              latency_window = Latest(LatencyWindow, SubSeq(measured, 1, Len(measured) - 1))

\* What is pending is no older than the interval that is running, and when the
\* server last looked that interval was not over.
PendingIsYoung ==
    /\ last_report_ <= now /\ heard <= now /\ now - heard <= HeartbeatPeriod
    /\ at # "read" => now = heard
    /\ \A i \in 1..Len(samples_) : last_report_ <= samples_[i].since
    /\ (\A i \in 1..Len(observed) : observed[i] # None) /\ samples_ # <<>> =>
         /\ now - last_report_ < ReportInterval + HeartbeatPeriod
         /\ at # "measure" => heard - last_report_ < ReportInterval

\* The metrics are those of the window, and the last report those of the latencies
\* just before the ones still pending: as many as it says.
FiguresHold ==
    /\ managed => metrics_latency = Figures(latency_window, FloorIndex)
    /\ ~enabled =>
         /\ report.size \in 0..reported
         /\ report = Figures(SubSeq(measured, reported - report.size + 1, reported), CeilIndex)

-----------------------------------------------------------------------------
(* Indices and windows *)

\* An index that has gone past the end once is brought back by a subtraction.
LEMMA WrapIsMod ==
    ASSUME NEW a \in 0..(2 * EventLines - 1)
    PROVE  a % EventLines = Wrapped(a)
BY TelemetryAssumption, SMTT(60) DEF Wrapped

\* Both kinds of percentile index lie within the samples, and p50's is not
\* beyond p99's, for every number of samples.
THEOREM IndicesInRange ==
    ASSUME NEW n \in Nat \ {0}
    PROVE  /\ FloorIndex(50, n) \in 0..n - 1 /\ FloorIndex(99, n) \in 0..n - 1
           /\ CeilIndex(50, n) \in 0..n - 1 /\ CeilIndex(99, n) \in 0..n - 1
           /\ FloorIndex(50, n) <= FloorIndex(99, n)
           /\ CeilIndex(50, n) <= CeilIndex(99, n)
BY DEF FloorIndex, CeilIndex

\* The two indices of a percentile differ by at most one.
THEOREM IndicesAgree ==
    ASSUME NEW n \in Nat \ {0}
    PROVE  /\ CeilIndex(50, n) - FloorIndex(50, n) \in {-1, 0, 1}
           /\ CeilIndex(99, n) - FloorIndex(99, n) \in {-1, 0, 1}
BY DEF FloorIndex, CeilIndex

\* What is in a window's sequence.
LEMMA LatestElements ==
    ASSUME NEW S, NEW s \in Seq(S), NEW n \in Nat \ {0}
    PROVE  /\ Latest(n, s) \in Seq(S)
           /\ Len(Latest(n, s)) = (IF Len(s) > n THEN n ELSE Len(s))
           /\ \A i \in 1..Len(Latest(n, s)) : Latest(n, s)[i] = s[Len(s) - Len(Latest(n, s)) + i]
<1> DEFINE m == IF Len(s) > n THEN Len(s) - n + 1 ELSE 1
<1>1. Len(s) \in Nat /\ m \in Nat \ {0}
  OBVIOUS
<1> HIDE DEF m
<1>2. \A i \in m..Len(s) : s[i] \in S
  BY <1>1, ElementOfSeq
<1>3. /\ SubSeq(s, m, Len(s)) \in Seq(S)
      /\ Len(SubSeq(s, m, Len(s))) = (IF m <= Len(s) THEN Len(s) - m + 1 ELSE 0)
      /\ \A i \in 1..Len(s) - m + 1 : SubSeq(s, m, Len(s))[i] = s[m + i - 1]
  BY <1>1, <1>2, SubSeqProperties
<1>4. Latest(n, s) = SubSeq(s, m, Len(s))
  BY DEF Latest, m
<1> DEFINE w == SubSeq(s, m, Len(s))
<1>5. /\ Len(w) = (IF Len(s) > n THEN n ELSE Len(s)) /\ m - 1 = Len(s) - Len(w)
      /\ Len(w) = Len(s) - m + 1
  <2>1. CASE Len(s) > n
    BY <1>1, <1>3, <2>1 DEF m
  <2>2. CASE ~(Len(s) > n)
    BY <1>1, <1>3, <2>2 DEF m
  <2> QED BY <2>1, <2>2
<1>6. \A i \in 1..Len(w) : w[i] = s[Len(s) - Len(w) + i]
  <2> SUFFICES ASSUME NEW i \in 1..Len(w) PROVE w[i] = s[Len(s) - Len(w) + i]
    OBVIOUS
  <2>1. i \in 1..Len(s) - m + 1
    BY <1>5, Zenon
  <2>2. w[i] = s[m + i - 1]
    BY <1>3, <2>1, Zenon
  <2> HIDE DEF w
  <2>3. m + i - 1 = Len(s) - Len(w) + i
    <3>1. Len(w) = Len(s) - m + 1
      BY <1>5
    <3> HIDE DEF w
    <3> QED BY <1>1, <3>1
  <2> QED BY <2>2, <2>3
<1> HIDE DEF m
<1> QED BY <1>3, <1>4, <1>5, <1>6, Zenon

\* Pushing onto the last elements of a sequence gives those of the longer one.
LEMMA PushKeepsLatest ==
    ASSUME NEW S, NEW s \in Seq(S), NEW x \in S, NEW n \in Nat \ {0}
    PROVE  PushBounded(Latest(n, s), x, n) = Latest(n, Append(s, x))
<1> DEFINE w == Latest(n, s)
           p == Append(w, x)
           t == Append(s, x)
<1>1. /\ w \in Seq(S) /\ Len(w) = (IF Len(s) > n THEN n ELSE Len(s))
      /\ \A i \in 1..Len(w) : w[i] = s[Len(s) - Len(w) + i]
  BY LatestElements, Zenon
<1>2. /\ p \in Seq(S) /\ Len(p) = Len(w) + 1 /\ p[Len(w) + 1] = x
      /\ \A i \in 1..Len(w) : p[i] = w[i]
  BY <1>1
<1>3. /\ t \in Seq(S) /\ Len(t) = Len(s) + 1 /\ t[Len(s) + 1] = x
      /\ \A i \in 1..Len(s) : t[i] = s[i]
  OBVIOUS
<1>4. /\ Latest(n, t) \in Seq(S)
      /\ Len(Latest(n, t)) = (IF Len(t) > n THEN n ELSE Len(t))
      /\ \A i \in 1..Len(Latest(n, t)) : Latest(n, t)[i] = t[Len(t) - Len(Latest(n, t)) + i]
  BY ONLY <1>3, n \in Nat \ {0}, LatestElements, Zenon
<1> HIDE DEF w, p, t
<1>5. Len(s) \in Nat /\ Len(w) \in Nat /\ Len(p) \in Nat /\ Len(t) \in Nat /\ Len(Latest(n, t)) \in Nat
  BY <1>1, <1>2, <1>3, <1>4
<1>6. CASE Len(p) > n
  <2>1. Tail(p) \in Seq(S) /\ Len(Tail(p)) = n /\ \A i \in 1..n : Tail(p)[i] = p[i + 1]
    BY <1>1, <1>2, <1>5, <1>6
  <2>2. \A i \in 1..n : Tail(p)[i] = Latest(n, t)[i]
    <3> SUFFICES ASSUME NEW i \in 1..n PROVE Tail(p)[i] = Latest(n, t)[i]
      OBVIOUS
    <3>1. Len(w) = n /\ Len(Latest(n, t)) = n /\ n <= Len(s) /\ Len(t) = Len(s) + 1
      BY <1>1, <1>2, <1>3, <1>4, <1>5, <1>6
    <3>2. Tail(p)[i] = p[i + 1] /\ Latest(n, t)[i] = t[Len(t) - n + i]
      BY <1>4, <2>1, <3>1, Zenon
    <3>3. CASE i = n
      BY <1>2, <1>3, <1>5, <3>1, <3>2, <3>3
    <3>4. CASE i < n
      <4>1. p[i + 1] = w[i + 1] /\ w[i + 1] = s[Len(s) - n + (i + 1)]
        <5>1. i + 1 \in 1..Len(w)
          BY <3>1, <3>4
        <5> QED BY <1>1, <1>2, <3>1, <5>1, Zenon
      <4>2. Len(t) - n + i \in 1..Len(s) /\ Len(s) - n + (i + 1) = Len(t) - n + i
        BY <1>5, <3>1, <3>4
      <4> QED BY <1>3, <3>2, <4>1, <4>2
    <3>5. i = n \/ i < n
      OBVIOUS
    <3> QED BY <3>3, <3>4, <3>5, Zenon
  <2>3. Len(Latest(n, t)) = n
    BY <1>1, <1>2, <1>3, <1>4, <1>5, <1>6
  <2>4. Tail(p) = Latest(n, t)
    BY <1>4, <2>1, <2>2, <2>3, SeqEqual
  <2> QED BY <1>6, <2>4, Zenon DEF PushBounded, p, w, t
<1>7. CASE ~(Len(p) > n)
  <2>1. Len(w) = Len(s) /\ Len(Latest(n, t)) = Len(t) /\ Len(p) = Len(t)
    BY <1>1, <1>2, <1>3, <1>4, <1>5, <1>7
  <2>2. \A i \in 1..Len(p) : p[i] = Latest(n, t)[i]
    <3> SUFFICES ASSUME NEW i \in 1..Len(p) PROVE p[i] = Latest(n, t)[i]
      OBVIOUS
    <3>1. Latest(n, t)[i] = t[i]
      <4>1. Len(t) - Len(Latest(n, t)) + i = i /\ i \in 1..Len(Latest(n, t))
        BY <1>3, <1>5, <2>1
      <4> QED BY <1>4, <4>1
    <3>2. CASE i = Len(s) + 1
      BY <1>2, <1>3, <1>5, <2>1, <3>1, <3>2
    <3>3. CASE i \in 1..Len(s)
      <4>1. i \in 1..Len(w) /\ Len(s) - Len(w) + i = i
        BY <1>5, <2>1, <3>3
      <4>2. p[i] = w[i] /\ w[i] = s[Len(s) - Len(w) + i]
        BY <1>1, <1>2, <4>1, Zenon
      <4> QED BY <1>3, <3>1, <3>3, <4>1, <4>2
    <3> QED BY <1>3, <1>5, <2>1, <3>2, <3>3
  <2>3. p = Latest(n, t)
    BY <1>2, <1>4, <2>1, <2>2, SeqEqual
  <2> QED BY <1>7, <2>3, Zenon DEF PushBounded, p, w, t
<1> QED BY <1>6, <1>7

LEMMA PushTyped ==
    ASSUME NEW S, NEW s \in Seq(S), NEW x \in S, NEW n
    PROVE  PushBounded(s, x, n) \in Seq(S)
<1>1. Append(s, x) \in Seq(S) /\ Tail(Append(s, x)) \in Seq(S)
  BY SMTT(60)
<1> QED BY <1>1, Zenon DEF PushBounded

ButLast(s) == SubSeq(s, 1, Len(s) - 1)

LEMMA AppendButLast ==
    ASSUME NEW S, NEW s \in Seq(S)
    PROVE  /\ \A x \in S : ButLast(Append(s, x)) = s
           /\ Len(s) > 0 => ButLast(s) \in Seq(S) /\ Append(ButLast(s), s[Len(s)]) = s
BY DEF ButLast

-----------------------------------------------------------------------------
(* Types *)

LEMMA TypeInit == Init => TypeOK
BY TelemetryAssumption DEF Init, TypeOK, Line, Blank

LEMMA LogEventTyped ==
    ASSUME TypeOK, NEW l \in Line, LogEvent(l)
    PROVE  /\ events_' \in [0..EventLines - 1 -> Line \cup {Blank}]
           /\ next_event_' \in 0..EventLines - 1 /\ event_count_' \in 0..EventLines
           /\ lines' \in Seq(Line)
<1>1. CASE enabled
  <2>1. (next_event_ + 1) % EventLines \in 0..EventLines - 1
    <3>1. next_event_ + 1 \in 0..(2 * EventLines - 1)
      BY TelemetryAssumption DEF TypeOK
    <3> QED BY <3>1, WrapIsMod, TelemetryAssumption DEF TypeOK, Wrapped
  <2>2. [events_ EXCEPT ![next_event_] = l] \in [0..EventLines - 1 -> Line \cup {Blank}]
    BY DEF TypeOK
  <2>3. Append(lines, l) \in Seq(Line)
    BY DEF TypeOK
  <2>4. CountUp \in 0..EventLines
    BY TelemetryAssumption DEF TypeOK, CountUp
  <2> QED BY <1>1, <2>1, <2>2, <2>3, <2>4 DEF LogEvent
<1>2. CASE ~enabled
  BY <1>2 DEF TypeOK, LogEvent
<1> QED BY <1>1, <1>2

LEMMA ReportTyped ==
    ASSUME TypeOK, NEW samples \in Seq([latency : Nat, since : Nat]), ReportIfDue(samples)
    PROVE  /\ samples_' \in Seq([latency : Nat, since : Nat])
           /\ last_report_' \in Nat /\ reported' \in Nat
<1>1. CASE Due(samples)
  <2>1. samples_' = <<>> /\ last_report_' = now /\ reported' = reported + Len(samples)
    BY <1>1 DEF ReportIfDue, Cleared
  <2> QED BY <2>1 DEF TypeOK
<1>2. CASE ~Due(samples)
  <2>1. samples_' = samples /\ last_report_' = last_report_ /\ reported' = reported
    BY <1>2 DEF ReportIfDue
  <2> QED BY <2>1 DEF TypeOK
<1> QED BY <1>1, <1>2

LEMMA TypeStep == TypeOK /\ [Next]_vars => TypeOK'
<1> SUFFICES ASSUME TypeOK, [Next]_vars PROVE TypeOK'
  OBVIOUS
<1> USE TelemetryAssumption
<1>1. CASE Tick
  BY <1>1 DEF TypeOK, Tick, display, statistics, snapshot, history
<1>2. CASE Heartbeat
  BY <1>2, ReportTyped DEF TypeOK, Heartbeat, display, snapshot
<1>3. ASSUME NEW difference \in ClockDifferences, Publish(difference) PROVE TypeOK'
  <2>1. latency' \in Nat \cup {None}
    BY <1>3 DEF Publish
  <2>2. observed' \in Seq(Nat \cup {None})
    BY <1>3, <2>1 DEF Publish, TypeOK
  <2> QED BY <1>3, <2>1, <2>2 DEF TypeOK, Publish, statistics, snapshot
<1>4. CASE MeasureNothing
  <2>1. [kind |-> "warning", number |-> Len(observed)] \in Line
    BY DEF TypeOK, Line
  <2> QED BY <1>4, <2>1, LogEventTyped DEF TypeOK, MeasureNothing, statistics, snapshot, clock
<1>5. CASE Measure
  <2>1. latency \in Nat
    BY <1>5 DEF TypeOK, Measure
  <2>2. Append(samples_, [latency |-> latency, since |-> now]) \in Seq([latency : Nat, since : Nat])
    BY <2>1 DEF TypeOK
  <2>3. latency_samples_' \in Seq(Nat) /\ measured' \in Seq(Nat)
    <3>1. PushBounded(latency_samples_, latency, LatencyWindow) \in Seq(Nat)
      BY <2>1, PushTyped DEF TypeOK
    <3> QED BY <1>5, <2>1, <3>1 DEF TypeOK, Measure
  <2> QED BY <1>5, <2>1, <2>2, <2>3, ReportTyped DEF TypeOK, Measure, snapshot, clock
<1>6. CASE Observe
  <2>1. CASE ~managed
    BY <1>6, <2>1 DEF TypeOK, Observe, display, statistics, snapshot, clock, history
  <2>2. CASE managed
    <3>1. recent_datagrams' \in Seq(Nat \cup {None}) /\ metrics_count' \in Nat
      <4>1. PushBounded(recent_datagrams, latency, RecentDatagrams) \in Seq(Nat \cup {None})
        BY PushTyped DEF TypeOK
      <4> QED BY <1>6, <2>2, <4>1 DEF TypeOK, Observe
    <3>2. latency_window' \in Seq(Nat)
      <4>1. latency # None => PushBounded(latency_window, latency, LatencyWindow) \in Seq(Nat)
        BY PushTyped DEF TypeOK
      <4> QED BY <1>6, <2>2, <4>1 DEF TypeOK, Observe
    <3> QED BY <1>6, <3>1, <3>2 DEF TypeOK, Observe, display, statistics, clock, history
  <2> QED BY <2>1, <2>2
<1>7. CASE Log
  <2>1. [kind |-> "published", number |-> Len(observed)] \in Line
    BY DEF TypeOK, Line
  <2> QED BY <1>7, <2>1, LogEventTyped DEF TypeOK, Log, statistics, snapshot, clock
<1>8. CASE UNCHANGED vars
  BY <1>8 DEF TypeOK, vars, display, statistics, snapshot, clock, history
<1> QED BY <1>1, <1>2, <1>3, <1>4, <1>5, <1>6, <1>7, <1>8 DEF Next

\* Every variable keeps its type, whatever the capacities.
THEOREM TypeCorrect == Spec => []TypeOK
BY TypeInit, TypeStep, PTL DEF Spec

-----------------------------------------------------------------------------
(* The ring of event lines *)

LEMMA RingInit == Init => RingHoldsLast
BY TelemetryAssumption DEF Init, RingHoldsLast

\* A line more.
LEMMA RingLogs ==
    ASSUME TypeOK, RingHoldsLast, NEW l \in Line, LogEvent(l)
    PROVE  RingHoldsLast'
<1> USE TelemetryAssumption
<1>1. CASE ~enabled
  BY <1>1 DEF LogEvent, RingHoldsLast, Wrapped
<1>2. CASE enabled
  <2> DEFINE next == IF next_event_ = EventLines - 1 THEN 0 ELSE next_event_ + 1
  <2>1. next_event_' = next
    <3>1. next_event_ + 1 \in 0..(2 * EventLines - 1)
      BY DEF TypeOK
    <3>2. (next_event_ + 1) % EventLines = Wrapped(next_event_ + 1)
      BY <3>1, WrapIsMod
    <3> QED BY <1>2, <3>2 DEF TypeOK, LogEvent, Wrapped
  <2>2. /\ events_' = [events_ EXCEPT ![next_event_] = l] /\ lines' = Append(lines, l)
        /\ event_count_' = IF event_count_ < EventLines THEN event_count_ + 1 ELSE event_count_
    BY <1>2 DEF LogEvent, CountUp
  <2>3. /\ Len(lines') = Len(lines) + 1 /\ lines'[Len(lines) + 1] = l
        /\ \A i \in 1..Len(lines) : lines'[i] = lines[i]
        /\ events_'[next_event_] = l
        /\ \A i \in 0..EventLines - 1 : i # next_event_ => events_'[i] = events_[i]
        /\ Len(lines) \in Nat
    BY <2>2 DEF TypeOK
  <2>4. CASE event_count_ < EventLines - 1
    BY <2>1, <2>2, <2>3, <2>4 DEF TypeOK, RingHoldsLast
  <2>5. CASE event_count_ = EventLines - 1
    <3>1. next_event_ = EventLines - 1 /\ Len(lines) = EventLines - 1 /\ next = 0
      BY <2>5 DEF TypeOK, RingHoldsLast
    <3>2. ASSUME NEW i \in 1..EventLines PROVE events_'[Wrapped(i - 1)] = lines'[i]
      <4>1. Wrapped(i - 1) = i - 1
        BY DEF Wrapped
      <4>2. CASE i = EventLines
        BY <2>3, <3>1, <4>1, <4>2
      <4>3. CASE i < EventLines
        <5>1. events_[i - 1] = lines[i]
          BY <2>5, <4>3 DEF RingHoldsLast
        <5> QED BY <2>3, <3>1, <4>1, <4>3, <5>1
      <4> QED BY <4>2, <4>3
    <3>3. event_count_' = EventLines /\ Len(lines') = EventLines /\ next_event_' = 0
      BY <2>1, <2>2, <2>3, <2>5, <3>1 DEF TypeOK
    <3> QED BY <3>2, <3>3 DEF RingHoldsLast, Wrapped
  <2>6. CASE event_count_ = EventLines
    <3>1. event_count_' = EventLines /\ Len(lines') >= EventLines
      BY <2>2, <2>3, <2>6 DEF RingHoldsLast
    <3>0. Len(lines) >= EventLines /\ EventLines \in Nat /\ \A k \in 1..EventLines : k \in Nat /\ 1 <= k
      BY <2>6 DEF RingHoldsLast
    <3>2. ASSUME NEW i \in 1..EventLines
          PROVE  events_'[Wrapped(next_event_' + i - 1)] = lines'[Len(lines') - EventLines + i]
      <4>1. CASE i = EventLines
        <5>1. Wrapped(next_event_' + i - 1) = next_event_
          BY <2>1, <4>1 DEF TypeOK, Wrapped
        <5> QED BY <2>3, <4>1, <5>1
      <4>2. CASE i < EventLines
        <5>1. Wrapped(next_event_' + i - 1) = Wrapped(next_event_ + (i + 1) - 1)
          BY <2>1, <4>2 DEF TypeOK, Wrapped
        <5>2. /\ Wrapped(next_event_ + (i + 1) - 1) # next_event_
              /\ Wrapped(next_event_ + (i + 1) - 1) \in 0..EventLines - 1
          BY <4>2 DEF TypeOK, Wrapped
        <5>3. events_[Wrapped(next_event_ + (i + 1) - 1)] = lines[Len(lines) - EventLines + (i + 1)]
          BY <2>6, <4>2 DEF RingHoldsLast
        <5>4. lines'[Len(lines') - EventLines + i] = lines[Len(lines) - EventLines + (i + 1)]
          <6> DEFINE old == Len(lines)
          <6>1. /\ old \in Nat /\ Len(lines') = old + 1 /\ old >= EventLines
                /\ EventLines \in Nat /\ i \in Nat /\ 1 <= i /\ i < EventLines
            BY <2>3, <2>6, <4>2, Zenon, <3>0
          <6>2. /\ Len(lines') - EventLines + i = old - EventLines + (i + 1)
                /\ old - EventLines + (i + 1) \in 1..old
            <7> HIDE DEF old
            <7> QED BY <6>1
          <6> QED BY <2>3, <6>2, Zenon
        <5> QED BY <2>3, <5>1, <5>2, <5>3, <5>4
      <4> QED BY <4>1, <4>2
    <3> QED BY <3>1, <3>2 DEF RingHoldsLast, Wrapped
  <2> QED BY <2>4, <2>5, <2>6 DEF TypeOK
<1> QED BY <1>1, <1>2

LEMMA RingStep == TypeOK /\ RingHoldsLast /\ [Next]_vars => RingHoldsLast'
<1> SUFFICES ASSUME TypeOK, RingHoldsLast, [Next]_vars PROVE RingHoldsLast'
  OBVIOUS
<1>1. CASE MeasureNothing
  <2>1. [kind |-> "warning", number |-> Len(observed)] \in Line
    BY DEF TypeOK, Line
  <2> QED BY <1>1, <2>1, RingLogs DEF MeasureNothing
<1>2. CASE Log
  <2>1. [kind |-> "published", number |-> Len(observed)] \in Line
    BY DEF TypeOK, Line
  <2> QED BY <1>2, <2>1, RingLogs DEF Log
<1>3. CASE UNCHANGED <<events_, next_event_, event_count_, lines>>
  BY <1>3 DEF RingHoldsLast, Wrapped
<1>4. Next \/ UNCHANGED vars => MeasureNothing \/ Log \/ UNCHANGED <<events_, next_event_, event_count_, lines>>
  BY DEF Next, Tick, Heartbeat, Publish, Measure, Observe, vars, display, history
<1> QED BY <1>1, <1>2, <1>3, <1>4

\* What render() shows of the ring is the last lines.
LEMMA RingShows == TypeOK /\ RingHoldsLast => ScreenShowsLast
<1> SUFFICES ASSUME TypeOK, RingHoldsLast PROVE Rendered = Latest(EventLines, lines)
  BY DEF ScreenShowsLast
<1> USE TelemetryAssumption
<1> DEFINE last == Latest(EventLines, lines)
<1>1. /\ last \in Seq(Line) /\ Len(last) = (IF Len(lines) > EventLines THEN EventLines ELSE Len(lines))
      /\ \A i \in 1..Len(last) : last[i] = lines[Len(lines) - Len(last) + i]
  BY LatestElements DEF TypeOK
<1> HIDE DEF last
<1>2. Len(last) = event_count_
  BY <1>1 DEF TypeOK, RingHoldsLast
<1>3. ASSUME NEW i \in 1..event_count_ PROVE Rendered[i] = last[i]
  <2>1. Rendered[i] = events_[(FirstEvent + i - 1) % EventLines]
    BY DEF Rendered
  <2>2. FirstEvent + i - 1 \in 0..(2 * EventLines - 1)
    BY DEF TypeOK, FirstEvent
  <2>3. (FirstEvent + i - 1) % EventLines = Wrapped(FirstEvent + i - 1)
    BY <2>2, WrapIsMod
  <2>4. last[i] = lines[Len(lines) - event_count_ + i]
    BY <1>1, <1>2
  <2>5. CASE event_count_ < EventLines
    <3>1. FirstEvent + i - 1 = i - 1 /\ Wrapped(i - 1) = i - 1 /\ Len(lines) - event_count_ + i = i
      <4>1. FirstEvent = 0 /\ Len(lines) = event_count_ /\ event_count_ \in Nat
        BY <2>5 DEF TypeOK, FirstEvent, RingHoldsLast
      <4>2. Wrapped(i - 1) = i - 1
        BY <2>5, <4>1 DEF TypeOK, Wrapped
      <4> QED BY <4>1, <4>2
    <3>2. events_[i - 1] = lines[i]
      BY <2>5 DEF RingHoldsLast
    <3>3. Rendered[i] = events_[i - 1]
      BY <2>1, <2>3, <3>1, Zenon
    <3>4. last[i] = lines[i]
      BY <2>4, <3>1, Zenon
    <3> QED BY <3>2, <3>3, <3>4, Zenon
  <2>6. CASE event_count_ = EventLines
    <3>1. events_[Wrapped(next_event_ + i - 1)] = lines[Len(lines) - EventLines + i]
      BY <2>6 DEF RingHoldsLast
    <3>2. FirstEvent = next_event_
      BY <2>6 DEF FirstEvent
    <3> QED BY <2>1, <2>3, <2>4, <2>6, <3>1, <3>2, Zenon
  <2> QED BY <2>5, <2>6 DEF TypeOK
<1>4. Rendered = [i \in 1..event_count_ |-> Rendered[i]] /\ last = [i \in 1..event_count_ |-> last[i]]
  BY <1>1, <1>2, LenProperties DEF Rendered
<1>5. Rendered = last
  BY <1>3, <1>4
<1> QED BY <1>5 DEF last

\* The terminal shows the five most recent events, oldest first.
THEOREM ShowsLast == Spec => []ScreenShowsLast
BY TypeInit, TypeStep, RingInit, RingStep, RingShows, PTL DEF Spec

-----------------------------------------------------------------------------
(* The windows *)

LEMMA WindowsInit == Init => WindowsHoldLast
<1>1. Latest(LatencyWindow, <<>>) = <<>> /\ Latest(RecentDatagrams, <<>>) = <<>>
  BY TelemetryAssumption DEF Latest
<1> QED BY <1>1 DEF Init, WindowsHoldLast

LEMMA WindowsStep == TypeOK /\ WindowsHoldLast /\ [Next]_vars => WindowsHoldLast'
<1> SUFFICES ASSUME TypeOK, WindowsHoldLast, [Next]_vars PROVE WindowsHoldLast'
  OBVIOUS
<1> USE TelemetryAssumption
<1>1. CASE Tick
  BY <1>1 DEF WindowsHoldLast, Tick, display, snapshot, history
<1>2. CASE Heartbeat
  BY <1>2 DEF WindowsHoldLast, Heartbeat, display, snapshot
<1>3. ASSUME NEW difference \in ClockDifferences, Publish(difference) PROVE WindowsHoldLast'
  <2>1. latency' \in Nat \cup {None}
    BY <1>3 DEF Publish
  <2>2. /\ observed' = Append(observed, latency') /\ at = "read" /\ at' = "measure"
        /\ UNCHANGED <<enabled, managed, latency_samples_, snapshot, measured>>
    BY <1>3 DEF Publish
  <2>3. /\ Len(observed') = Len(observed) + 1 /\ observed'[Len(observed')] = latency'
        /\ Len(observed) \in Nat
    BY <2>1, <2>2 DEF TypeOK
  <2>4. SubSeq(observed', 1, Len(observed') - 1) = observed
    BY <2>1, <2>2, AppendButLast DEF TypeOK, ButLast
  <2>5. /\ enabled => latency_samples_ = Latest(LatencyWindow, measured)
        /\ managed => /\ metrics_count = Len(observed)
                      /\ recent_datagrams = Latest(RecentDatagrams, observed)
                      /\ latency_window = Latest(LatencyWindow, measured)
    BY <2>2 DEF WindowsHoldLast
  <2>6. /\ metrics_count' = metrics_count /\ recent_datagrams' = recent_datagrams
        /\ latency_window' = latency_window
    BY <2>2 DEF snapshot
  <2>7. Len(observed') > 0 /\ Len(observed') - 1 = Len(observed)
    BY <2>3
  <2> HIDE TelemetryAssumption
  <2> QED BY <2>2, <2>3, <2>4, <2>5, <2>6, <2>7, Zenon DEF WindowsHoldLast
<1>4. CASE MeasureNothing
  BY <1>4 DEF WindowsHoldLast, MeasureNothing, snapshot, clock
<1>5. CASE Measure
  <2>1. /\ latency \in Nat /\ latency # None /\ at = "measure" /\ at' = "observe"
        /\ measured' = Append(measured, latency)
        /\ UNCHANGED <<enabled, managed, latency, snapshot, observed>>
    BY <1>5 DEF Measure, TypeOK
  <2>2. Len(measured') > 0 /\ measured'[Len(measured')] = latency
    BY <2>1 DEF TypeOK
  <2>3. SubSeq(measured', 1, Len(measured') - 1) = measured
    BY <2>1, AppendButLast DEF TypeOK, ButLast
  <2>4. enabled => latency_samples_' = Latest(LatencyWindow, measured')
    <3>1. PushBounded(Latest(LatencyWindow, measured), latency, LatencyWindow)
            = Latest(LatencyWindow, Append(measured, latency))
      BY <2>1, PushKeepsLatest DEF TypeOK
    <3> QED BY <1>5, <2>1, <3>1 DEF Measure, WindowsHoldLast
  <2> QED BY <2>1, <2>2, <2>3, <2>4 DEF WindowsHoldLast, snapshot
<1>6. CASE Observe
  <2>1. /\ at = "observe" /\ at' = "log"
        /\ UNCHANGED <<enabled, managed, latency, latency_samples_, observed, measured>>
    BY <1>6 DEF Observe, display, history
  <2>2. CASE ~managed
    BY <2>1, <2>2 DEF WindowsHoldLast
  <2>3. CASE managed
    <3>1. metrics_count' = Len(observed)
      BY <1>6, <2>1, <2>3 DEF Observe, WindowsHoldLast, TypeOK
    <3>2. recent_datagrams' = Latest(RecentDatagrams, observed)
      <4>1. /\ Len(observed) > 0 /\ observed[Len(observed)] = latency
            /\ recent_datagrams = Latest(RecentDatagrams, ButLast(observed))
        BY <2>1, <2>3 DEF WindowsHoldLast, ButLast
      <4>2. ButLast(observed) \in Seq(Nat \cup {None}) /\ Append(ButLast(observed), latency) = observed
        BY <4>1, AppendButLast DEF TypeOK
      <4>3. PushBounded(Latest(RecentDatagrams, ButLast(observed)), latency, RecentDatagrams)
              = Latest(RecentDatagrams, Append(ButLast(observed), latency))
        <5>1. latency \in Nat \cup {None} /\ RecentDatagrams \in Nat \ {0}
          BY TelemetryAssumption DEF TypeOK
        <5>2. ButLast(observed) \in Seq(Nat \cup {None})
          BY <4>2
        <5> QED BY <5>1, <5>2, PushKeepsLatest
      <4> QED BY <1>6, <2>3, <4>1, <4>2, <4>3 DEF Observe
    <3>3. latency_window' = Latest(LatencyWindow, measured)
      <4>1. CASE latency = None
        BY <1>6, <2>1, <2>3, <4>1 DEF Observe, WindowsHoldLast
      <4>2. CASE latency # None
        <5>1. /\ Len(measured) > 0 /\ measured[Len(measured)] = latency
              /\ latency_window = Latest(LatencyWindow, ButLast(measured))
          BY <2>1, <2>3, <4>2 DEF WindowsHoldLast, ButLast
        <5>2. ButLast(measured) \in Seq(Nat) /\ Append(ButLast(measured), latency) = measured
          BY <5>1, AppendButLast DEF TypeOK
        <5>3. PushBounded(Latest(LatencyWindow, ButLast(measured)), latency, LatencyWindow)
                = Latest(LatencyWindow, Append(ButLast(measured), latency))
          BY <4>2, <5>2, PushKeepsLatest DEF TypeOK
        <5> QED BY <1>6, <2>3, <4>2, <5>1, <5>2, <5>3 DEF Observe
      <4> QED BY <4>1, <4>2
    <3> QED BY <2>1, <3>1, <3>2, <3>3 DEF WindowsHoldLast
  <2> QED BY <2>2, <2>3
<1>7. CASE Log
  BY <1>7 DEF WindowsHoldLast, Log, snapshot
<1>8. CASE UNCHANGED vars
  BY <1>8 DEF WindowsHoldLast, vars, display, snapshot, history
<1> QED BY <1>1, <1>2, <1>3, <1>4, <1>5, <1>6, <1>7, <1>8 DEF Next

LEMMA WindowsFollow == WindowsHoldLast => WindowsAreLast
BY DEF WindowsHoldLast, WindowsAreLast

\* The windows and the recent datagrams are the latest there have been.
THEOREM WindowsKeepLast == Spec => []WindowsAreLast
BY TypeInit, TypeStep, WindowsInit, WindowsStep, WindowsFollow, PTL DEF Spec

-----------------------------------------------------------------------------
(* The reports *)

LEMMA ReportedInit == Init => ReportedOnce /\ PendingIsYoung
BY TelemetryAssumption DEF Init, ReportedOnce, PendingIsYoung

LEMMA ReportedStep == TypeOK /\ ReportedOnce /\ [Next]_vars => ReportedOnce'
<1> SUFFICES ASSUME TypeOK, ReportedOnce, [Next]_vars PROVE ReportedOnce'
  OBVIOUS
<1>1. CASE UNCHANGED <<samples_, measured, reported>>
  BY <1>1 DEF ReportedOnce
<1>2. CASE Heartbeat
  <2>1. CASE Due(samples_)
    <3>1. samples_' = <<>> /\ reported' = reported + Len(samples_) /\ measured' = measured
      BY <1>2, <2>1 DEF Heartbeat, ReportIfDue, Cleared
    <3>2. Len(samples_) \in Nat /\ Len(measured) \in Nat /\ reported \in Nat
      BY DEF TypeOK
    <3> QED BY <3>1, <3>2 DEF ReportedOnce
  <2>2. CASE ~Due(samples_)
    <3>1. UNCHANGED <<samples_, measured, reported>>
      BY <1>2, <2>2 DEF Heartbeat, ReportIfDue
    <3> QED BY <3>1 DEF ReportedOnce
  <2> QED BY <2>1, <2>2
<1>3. CASE Measure
  <2> DEFINE new == [latency |-> latency, since |-> now]
             added == Append(samples_, new)
  <2>1. latency \in Nat /\ measured' = Append(measured, latency)
    BY <1>3 DEF Measure, TypeOK
  <2>2. /\ Len(added) = Len(samples_) + 1 /\ added[Len(samples_) + 1] = new
        /\ \A i \in 1..Len(samples_) : added[i] = samples_[i]
        /\ Len(samples_) \in Nat
    BY <2>1 DEF TypeOK
  <2>3. /\ Len(measured') = Len(measured) + 1 /\ measured'[Len(measured) + 1] = latency
        /\ \A i \in 1..Len(measured) : measured'[i] = measured[i]
        /\ Len(measured) \in Nat
    BY <2>1 DEF TypeOK
  <2>4. new.latency = latency
    OBVIOUS
  <2>5. CASE Due(added)
    <3>1. samples_' = <<>> /\ reported' = reported + Len(added)
      BY <1>3, <2>5 DEF Measure, ReportIfDue, Cleared
    <3> HIDE DEF added, new
    <3>2. Len(added) = Len(samples_) + 1 /\ Len(measured') = Len(measured) + 1
      BY <2>2, <2>3
    <3>3. reported \in Nat
      BY DEF TypeOK
    <3> QED BY <2>2, <2>3, <3>1, <3>2, <3>3 DEF ReportedOnce
  <2>6. CASE ~Due(added)
    <3>1. samples_' = added /\ reported' = reported
      BY <1>3, <2>6 DEF Measure, ReportIfDue
    <3> HIDE DEF added, new
    <3>0. reported \in Nat
      BY DEF TypeOK
    <3>2. Len(samples_') = Len(measured') - reported'
      <4>1. Len(samples_') = Len(samples_) + 1 /\ Len(measured') = Len(measured) + 1
        BY <2>2, <2>3, <3>1
      <4> QED BY <2>2, <2>3, <3>0, <3>1, <4>1 DEF ReportedOnce
    <3>3. ASSUME NEW i \in 1..Len(samples_') PROVE samples_'[i].latency = measured'[reported' + i]
      <4>1. CASE i = Len(samples_) + 1
        <5>1. reported + i = Len(measured) + 1
          BY <2>2, <2>3, <3>0, <4>1 DEF ReportedOnce
        <5> QED BY <2>2, <2>3, <2>4, <3>1, <4>1, <5>1
      <4>2. CASE i \in 1..Len(samples_)
        <5>1. reported + i \in 1..Len(measured)
          BY <2>2, <2>3, <3>0, <4>2 DEF ReportedOnce
        <5>2. samples_[i].latency = measured[reported + i]
          BY <4>2 DEF ReportedOnce
        <5> QED BY <2>2, <2>3, <3>1, <4>2, <5>1, <5>2
      <4> QED BY <2>2, <3>1, <4>1, <4>2
    <3> QED BY <3>2, <3>3 DEF ReportedOnce
  <2> QED BY <2>5, <2>6
<1>4. Next \/ UNCHANGED vars => UNCHANGED <<samples_, measured, reported>> \/ Heartbeat \/ Measure
  BY DEF Next, Tick, Publish, MeasureNothing, Observe, Log, vars, statistics, history
<1> QED BY <1>1, <1>2, <1>3, <1>4

\* Every latency is reported once.
THEOREM ReportsOnce == Spec => []ReportedOnce
BY TypeInit, TypeStep, ReportedInit, ReportedStep, PTL DEF Spec

LEMMA YoungStep == TypeOK /\ WindowsHoldLast /\ PendingIsYoung /\ [Next]_vars => PendingIsYoung'
<1> SUFFICES ASSUME TypeOK, WindowsHoldLast, PendingIsYoung, [Next]_vars PROVE PendingIsYoung'
  OBVIOUS
<1> USE TelemetryAssumption
<1>1. CASE Tick
  <2>1. /\ at = "read" /\ at' = at /\ now' = now + 1 /\ now \in Nat /\ now' \in Nat
        /\ now - heard < HeartbeatPeriod
    BY <1>1 DEF Tick, TypeOK
  <2>2. /\ heard' = heard /\ last_report_' = last_report_ /\ samples_' = samples_
        /\ observed' = observed /\ heard \in Nat /\ last_report_ \in Nat
    BY <1>1 DEF Tick, TypeOK, statistics, history
  <2>3. /\ last_report_' <= now' /\ heard' <= now' /\ now' - heard' <= HeartbeatPeriod
    BY <2>1, <2>2 DEF PendingIsYoung
  <2>4. heard - last_report_ < ReportInterval => now' - last_report_ < ReportInterval + HeartbeatPeriod
    BY <2>1, <2>2
  <2>5. \A i \in 1..Len(samples_') : last_report_' <= samples_'[i].since
    BY <2>2 DEF PendingIsYoung
  <2> QED BY <2>1, <2>2, <2>3, <2>4, <2>5 DEF PendingIsYoung
<1>2. CASE Heartbeat
  <2>1. /\ at = "read" /\ heard' = now
        /\ UNCHANGED <<at, now, observed>>
    BY <1>2 DEF Heartbeat
  <2>2. CASE Due(samples_)
    <3>1. samples_' = <<>> /\ last_report_' = now
      BY <1>2, <2>2 DEF Heartbeat, ReportIfDue, Cleared
    <3> QED BY <2>1, <3>1 DEF PendingIsYoung, TypeOK
  <2>3. CASE ~Due(samples_)
    <3>1. samples_' = samples_ /\ last_report_' = last_report_
      BY <1>2, <2>3 DEF Heartbeat, ReportIfDue
    <3>2. samples_ # <<>> => now - last_report_ < ReportInterval
      BY <2>3 DEF Due, TypeOK
    <3> QED BY <2>1, <3>1, <3>2 DEF PendingIsYoung, TypeOK
  <2> QED BY <2>2, <2>3
<1>3. ASSUME NEW difference \in ClockDifferences, Publish(difference) PROVE PendingIsYoung'
  <2>1. /\ at = "read" /\ at' = "measure" /\ heard' = now
        /\ observed' = Append(observed, latency')
        /\ UNCHANGED <<now, samples_, last_report_>>
    BY <1>3 DEF Publish, statistics
  <2>2. (\A i \in 1..Len(observed') : observed'[i] # None) =>
           \A i \in 1..Len(observed) : observed[i] # None
    <3>1. latency' \in Nat \cup {None}
      BY <1>3 DEF Publish
    <3>2. /\ Len(observed') = Len(observed) + 1 /\ Len(observed) \in Nat
          /\ \A i \in 1..Len(observed) : observed'[i] = observed[i]
      BY <2>1, <3>1 DEF TypeOK
    <3>3. \A i \in 1..Len(observed) : i \in 1..Len(observed')
      BY <3>2
    <3> QED BY <3>2, <3>3, Zenon
  <2> QED BY <2>1, <2>2 DEF PendingIsYoung, TypeOK
<1>4. CASE MeasureNothing
  <2>1. ~ \A i \in 1..Len(observed) : observed[i] # None
    BY <1>4 DEF MeasureNothing, WindowsHoldLast, TypeOK
  <2> QED BY <1>4, <2>1 DEF MeasureNothing, PendingIsYoung, statistics, clock
<1>5. CASE Measure
  <2> DEFINE new == [latency |-> latency, since |-> now]
             added == Append(samples_, new)
  <2>1. /\ latency \in Nat /\ at = "measure" /\ at' = "observe"
        /\ UNCHANGED <<now, heard, observed>> /\ ReportIfDue(added)
    BY <1>5 DEF Measure, TypeOK, clock
  <2>2. /\ Len(added) = Len(samples_) + 1 /\ added[Len(samples_) + 1] = new
        /\ \A i \in 1..Len(samples_) : added[i] = samples_[i]
        /\ Len(samples_) \in Nat
    BY <2>1 DEF TypeOK
  <2>6. added # <<>>
    BY <2>2
  <2>3. new.since = now /\ now = heard
    BY <2>1 DEF PendingIsYoung
  <2> HIDE DEF added, new
  <2>4. CASE Due(added)
    <3>1. samples_' = <<>> /\ last_report_' = now
      BY <2>1, <2>4 DEF ReportIfDue, Cleared
    <3> QED BY <2>1, <2>3, <3>1 DEF PendingIsYoung, TypeOK
  <2>5. CASE ~Due(added)
    <3>1. samples_' = added /\ last_report_' = last_report_
      BY <2>1, <2>5 DEF ReportIfDue
    <3>2. now - last_report_ < ReportInterval
      BY <2>5, <2>6 DEF Due, TypeOK
    <3>3. ASSUME NEW i \in 1..Len(samples_') PROVE last_report_' <= samples_'[i].since
      <4>1. CASE i = Len(samples_) + 1
        BY <2>2, <2>3, <3>1, <4>1 DEF PendingIsYoung
      <4>2. CASE i \in 1..Len(samples_)
        BY <2>2, <3>1, <4>2 DEF PendingIsYoung
      <4> QED BY <2>2, <3>1, <4>1, <4>2
    <3> QED BY <2>1, <2>3, <3>1, <3>2, <3>3 DEF PendingIsYoung, TypeOK
  <2> QED BY <2>4, <2>5
<1>6. CASE Observe
  BY <1>6 DEF Observe, PendingIsYoung, statistics, clock, history
<1>7. CASE Log
  BY <1>7 DEF Log, PendingIsYoung, statistics, clock
<1>8. CASE UNCHANGED vars
  BY <1>8 DEF vars, PendingIsYoung, statistics, clock, history
<1> QED BY <1>1, <1>2, <1>3, <1>4, <1>5, <1>6, <1>7, <1>8 DEF Next

LEMMA YoungIsSoon == TypeOK /\ PendingIsYoung => ReportedSoon
<1> SUFFICES ASSUME TypeOK, PendingIsYoung PROVE ReportedSoon
  OBVIOUS
<1>1. ASSUME \A i \in 1..Len(observed) : observed[i] # None, NEW i \in 1..Len(samples_)
      PROVE  now - samples_[i].since < ReportInterval + HeartbeatPeriod
  <2> DEFINE Sample == [latency : Nat, since : Nat]
  <2>3. samples_ \in Seq(Sample) /\ samples_ # <<>>
    BY DEF TypeOK
  <2>4. samples_[i] \in Sample
    BY <2>3, ElementOfSeq
  <2>1. samples_ # <<>> /\ samples_[i].since \in Nat
    BY <2>3, <2>4
  <2> HIDE DEF Sample
  <2>2. last_report_ <= samples_[i].since /\ now - last_report_ < ReportInterval + HeartbeatPeriod
    BY <1>1, <2>1 DEF PendingIsYoung
  <2>5. last_report_ \in Nat /\ now \in Nat
    BY DEF TypeOK
  <2> QED BY <2>1, <2>2, <2>5, TelemetryAssumption
<1> QED BY <1>1 DEF ReportedSoon

\* A latency is reported within an interval and a heartbeat's period, while the
\* client's clock is not ahead.
THEOREM ReportsSoon == Spec => []ReportedSoon
BY TypeInit, TypeStep, WindowsInit, WindowsStep, ReportedInit, YoungStep, YoungIsSoon, PTL DEF Spec
-----------------------------------------------------------------------------
(* Percentiles *)

Larger(r, x) == IF x > r THEN x ELSE r
Bounds(s, k, r) == s \in Seq(Nat) => r \in Nat /\ \A j \in 1..k : s[j] <= r
Samples == INSTANCE SequenceFolds WITH Op <- Larger, Inv <- Bounds

AtMost(s, x) == {j \in DOMAIN s : s[j] <= x}
Less(s, x) == {j \in DOMAIN s : s[j] < x}
Greater(s, x) == {j \in DOMAIN s : s[j] > x}

\* Samples have a bound: the largest one, found by a fold.
LEMMA SamplesBounded ==
    ASSUME NEW s \in Seq(Nat)
    PROVE  \E r \in Nat : \A j \in DOMAIN s : s[j] <= r
<1>1. DOMAIN s = 1..Len(s) /\ Len(s) \in Nat
  OBVIOUS
<1>2. Bounds(s, 0, 0)
  BY DEF Bounds
<1>3. \A k \in 0..Len(s) - 1 : \A r : Bounds(s, k, r) => Bounds(s, k + 1, Larger(r, s[k + 1]))
  <2> SUFFICES ASSUME NEW k \in 0..Len(s) - 1, NEW r, r \in Nat, \A j \in 1..k : s[j] <= r
               PROVE  Larger(r, s[k + 1]) \in Nat /\ \A j \in 1..k + 1 : s[j] <= Larger(r, s[k + 1])
    BY DEF Bounds
  <2>1. s[k + 1] \in Nat /\ \A j \in 1..k : s[j] \in Nat
    BY <1>1
  <2>2. \A j \in 1..k + 1 : j \in 1..k \/ j = k + 1
    OBVIOUS
  <2>3. CASE s[k + 1] > r
    <3>1. Larger(r, s[k + 1]) = s[k + 1]
      BY <2>3 DEF Larger
    <3>2. \A j \in 1..k : s[j] <= s[k + 1]
      BY <2>1, <2>3
    <3> QED BY <2>1, <2>2, <3>1, <3>2
  <2>4. CASE ~(s[k + 1] > r)
    <3>1. Larger(r, s[k + 1]) = r
      BY <2>4 DEF Larger
    <3>2. s[k + 1] <= r
      BY <2>1, <2>4
    <3> QED BY <2>2, <3>1, <3>2
  <2> QED BY <2>3, <2>4
<1>4. Bounds(s, Len(s), Samples!Result(0, s))
  BY <1>1, <1>2, <1>3, Samples!FoldLeftInduction
<1> QED BY <1>1, <1>4 DEF Bounds

LEMMA Positions ==
    ASSUME NEW n \in Nat
    PROVE  IsFiniteSet(1..n) /\ Cardinality(1..n) = n
<1>1. IsFiniteSet(1..n) /\ Cardinality(1..n) = IF 1 > n THEN 0 ELSE n - 1 + 1
  BY FS_Interval
<1> QED BY <1>1

\* The samples at most, less and greater than some value are so many.
LEMMA Counts ==
    ASSUME NEW s \in Seq(Nat), NEW x \in Nat
    PROVE  /\ Cardinality(AtMost(s, x)) \in Nat /\ Cardinality(Less(s, x)) \in Nat
           /\ Cardinality(Greater(s, x)) = Len(s) - Cardinality(AtMost(s, x))
           /\ \A y \in Nat : x < y => Cardinality(AtMost(s, x)) <= Cardinality(Less(s, y))
<1>1. DOMAIN s = 1..Len(s) /\ Len(s) \in Nat
  OBVIOUS
<1>2. IsFiniteSet(DOMAIN s) /\ Cardinality(DOMAIN s) = Len(s)
  BY <1>1, Positions
<1>3. AtMost(s, x) \in SUBSET DOMAIN s /\ Less(s, x) \in SUBSET DOMAIN s
  BY DEF AtMost, Less
<1>4. \A y \in Nat : IsFiniteSet(AtMost(s, y)) /\ IsFiniteSet(Less(s, y))
  BY <1>2, FS_Subset DEF AtMost, Less
<1>5. Greater(s, x) = (DOMAIN s) \ AtMost(s, x) /\ (DOMAIN s) \cap AtMost(s, x) = AtMost(s, x)
  BY <1>1 DEF Greater, AtMost
<1>6. Cardinality(Greater(s, x)) = Len(s) - Cardinality(AtMost(s, x))
  BY <1>2, <1>5, FS_Difference
<1>7. ASSUME NEW y \in Nat, x < y PROVE Cardinality(AtMost(s, x)) <= Cardinality(Less(s, y))
  <2>1. AtMost(s, x) \in SUBSET Less(s, y)
    BY <1>1, <1>7 DEF AtMost, Less
  <2> QED BY <1>4, <2>1, FS_Subset
<1> QED BY <1>3, <1>4, <1>6, <1>7, FS_CardinalityType

\* What std::sort() and an index find: no more samples than the index are less,
\* and more than that are no greater.
LEMMA SortedIs ==
    ASSUME NEW s \in Seq(Nat), NEW i \in 0..Len(s) - 1
    PROVE  /\ Sorted(s, i) \in Nat
           /\ Cardinality(Less(s, Sorted(s, i))) <= i
           /\ Cardinality(AtMost(s, Sorted(s, i))) > i
<1>1. DOMAIN s = 1..Len(s) /\ Len(s) \in Nat /\ \A j \in DOMAIN s : s[j] \in Nat
  OBVIOUS
<1> DEFINE T == {x \in Nat : Cardinality(AtMost(s, x)) > i}
<1>2. T \in SUBSET Nat /\ T # {}
  <2>1. PICK r \in Nat : \A j \in DOMAIN s : s[j] <= r
    BY SamplesBounded
  <2>2. AtMost(s, r) = 1..Len(s)
    BY <1>1, <2>1 DEF AtMost
  <2>3. Cardinality(1..Len(s)) = Len(s)
    BY <1>1, Positions
  <2>4. r \in T
    BY <2>2, <2>3
  <2> QED BY <2>4
<1>3. PICK x \in T : \A y \in T : x <= y
  BY <1>2, Samples!LeastNumber
<1>4. x \in Nat /\ Cardinality(AtMost(s, x)) > i
  OBVIOUS
<1>5. Cardinality(Less(s, x)) <= i
  <2>1. CASE x = 0
    <3>1. Less(s, x) = {}
      BY <1>1, <2>1 DEF Less
    <3> QED BY <3>1, FS_EmptySet
  <2>2. CASE x # 0
    <3>1. x - 1 \in Nat /\ x - 1 \notin T
      BY <1>3, <2>2
    <3>2. Cardinality(AtMost(s, x - 1)) <= i
      BY <3>1, Counts
    <3>3. \A j \in DOMAIN s : s[j] < x <=> s[j] <= x - 1
      BY <1>1, <1>4
    <3>4. Less(s, x) = AtMost(s, x - 1)
      BY <3>3 DEF Less, AtMost
    <3> QED BY <3>2, <3>4
  <2> QED BY <2>1, <2>2
<1>6. \E j \in DOMAIN s : s[j] = x
  <2>1. AtMost(s, x) # Less(s, x)
    BY <1>4, <1>5, Counts
  <2> QED BY <1>1, <1>4, <2>1 DEF AtMost, Less
<1> DEFINE Is(y) == /\ Cardinality({j \in DOMAIN s : s[j] < y}) <= i
                    /\ Cardinality({j \in DOMAIN s : s[j] <= y}) > i
<1>7. x \in {s[j] : j \in DOMAIN s} /\ Is(x)
  BY <1>4, <1>5, <1>6 DEF AtMost, Less
<1>8. Sorted(s, i) = CHOOSE y \in {s[j] : j \in DOMAIN s} : Is(y)
  BY DEF Sorted
<1>9. Sorted(s, i) \in {s[j] : j \in DOMAIN s} /\ Is(Sorted(s, i))
  <2> HIDE DEF Is
  <2> QED BY <1>7, <1>8
<1> QED BY <1>1, <1>9 DEF AtMost, Less

\* A greater index finds no smaller sample.
LEMMA SortedIncreases ==
    ASSUME NEW s \in Seq(Nat), NEW i \in 0..Len(s) - 1, NEW k \in 0..Len(s) - 1, i <= k
    PROVE  Sorted(s, i) <= Sorted(s, k)
<1>1. /\ Sorted(s, i) \in Nat /\ Cardinality(Less(s, Sorted(s, i))) <= i
      /\ Sorted(s, k) \in Nat /\ Cardinality(AtMost(s, Sorted(s, k))) > k
  BY SortedIs
<1>2. Sorted(s, k) < Sorted(s, i) =>
        Cardinality(AtMost(s, Sorted(s, k))) <= Cardinality(Less(s, Sorted(s, i)))
  BY <1>1, Counts
<1>3. /\ Cardinality(AtMost(s, Sorted(s, k))) \in Nat
      /\ Cardinality(Less(s, Sorted(s, i))) \in Nat
  BY <1>1, Counts
<1> QED BY <1>1, <1>2, <1>3

\* What an index has to be for a percentile to be what it promises: the same for
\* an index rounded up and one rounded down.
LEMMA FiguresDescribe ==
    ASSUME NEW s \in Seq(Nat), s # <<>>,
           NEW half \in 0..Len(s) - 1, NEW most \in 0..Len(s) - 1, half <= most,
           2 * half <= Len(s) - 1, 2 * half >= Len(s) - 2,
           100 * (Len(s) - 1 - most) <= Len(s) + 98
    PROVE  Describe([size |-> Len(s), p50 |-> Sorted(s, half), p99 |-> Sorted(s, most),
                     max |-> Sorted(s, Len(s) - 1)], s)
<1> DEFINE n == Len(s)
           p50 == Sorted(s, half)
           p99 == Sorted(s, most)
           max == Sorted(s, n - 1)
<1>1. n \in Nat \ {0} /\ n - 1 \in 0..n - 1 /\ half \in Nat /\ most \in Nat
  OBVIOUS
<1>2. /\ p50 \in Nat /\ Cardinality(Less(s, p50)) <= half /\ Cardinality(AtMost(s, p50)) > half
      /\ p99 \in Nat /\ Cardinality(AtMost(s, p99)) > most
      /\ max \in Nat /\ Cardinality(AtMost(s, max)) > n - 1
  BY <1>1, SortedIs
<1>3. p50 <= p99 /\ p99 <= max
  BY <1>1, SortedIncreases
<1>4. ASSUME NEW x \in Nat
      PROVE  /\ Below(s, x) = Cardinality(Less(s, x))
             /\ Above(s, x) = n - Cardinality(AtMost(s, x))
             /\ Cardinality(Less(s, x)) \in Nat /\ Cardinality(AtMost(s, x)) \in Nat
             /\ Above(s, x) \in Nat
  <2>1. Below(s, x) = Cardinality(Less(s, x)) /\ Above(s, x) = Cardinality(Greater(s, x))
    BY DEF Below, Above, Less, Greater
  <2>2. /\ Cardinality(AtMost(s, x)) \in Nat /\ Cardinality(Less(s, x)) \in Nat
        /\ Cardinality(Greater(s, x)) = n - Cardinality(AtMost(s, x))
    BY Counts
  <2>3. Cardinality(Greater(s, x)) \in Nat
    <3>1. IsFiniteSet(DOMAIN s) /\ Greater(s, x) \in SUBSET DOMAIN s
      BY <1>1, Positions DEF Greater
    <3> QED BY <3>1, FS_Subset, FS_CardinalityType
  <2> HIDE DEF n
  <2> QED BY <2>1, <2>2, <2>3
<1>5. /\ Below(s, p50) <= half /\ Below(s, p50) \in Nat
      /\ Above(s, p50) <= n - 1 - half /\ Above(s, p50) \in Nat
  <2> HIDE DEF n, p50
  <2>1. p50 \in Nat
    BY <1>2
  <2> DEFINE less == Cardinality(Less(s, p50))
             upTo == Cardinality(AtMost(s, p50))
  <2>2. /\ less \in Nat /\ less <= half /\ Below(s, p50) = less
        /\ upTo \in Nat /\ upTo > half /\ Above(s, p50) = n - upTo /\ Above(s, p50) \in Nat
    BY <1>2, <1>4, <2>1
  <2> HIDE DEF less, upTo
  <2> QED BY <1>1, <2>2
<1>6. /\ Above(s, p99) <= n - 1 - most /\ Above(s, p99) \in Nat
      /\ Above(s, max) <= 0 /\ Above(s, max) \in Nat
  <2> HIDE DEF n, p99, max
  <2>1. p99 \in Nat /\ max \in Nat
    BY <1>2
  <2> DEFINE upTo99 == Cardinality(AtMost(s, p99))
             upToMax == Cardinality(AtMost(s, max))
  <2>2. /\ upTo99 \in Nat /\ upTo99 > most /\ Above(s, p99) = n - upTo99 /\ Above(s, p99) \in Nat
        /\ upToMax \in Nat /\ upToMax > n - 1 /\ Above(s, max) = n - upToMax /\ Above(s, max) \in Nat
    BY <1>2, <1>4, <2>1
  <2> HIDE DEF upTo99, upToMax
  <2> QED BY <1>1, <2>2
<1> HIDE DEF n, p50, p99, max
<1>7. 2 * Below(s, p50) <= n - 1 /\ 2 * Above(s, p50) <= n - 1 + 1
  BY <1>1, <1>5 DEF n
<1>8. 100 * Above(s, p99) <= n - 1 + 99
  BY <1>1, <1>6 DEF n
<1>9. Above(s, max) = 0
  BY <1>6
<1>10. Describe([size |-> n, p50 |-> p50, p99 |-> p99, max |-> max], s)
  BY <1>3, <1>7, <1>8, <1>9 DEF Describe, n
<1> QED BY <1>10 DEF n, p50, p99, max

\* The display's and the service's figures describe the samples they are made of ...
LEMMA FloorDescribes ==
    ASSUME NEW s \in Seq(Nat)
    PROVE  Describe(Figures(s, FloorIndex), s)
<1>1. CASE s = <<>>
  BY <1>1 DEF Figures, NoFigures, Describe
<1>2. CASE s # <<>>
  <2> DEFINE n == Len(s)
             half == FloorIndex(50, n)
             most == FloorIndex(99, n)
  <2>1. n \in Nat \ {0}
    BY <1>2
  <2> HIDE DEF n
  <2>2. half \in 0..n - 1 /\ most \in 0..n - 1 /\ half <= most
    BY <2>1, IndicesInRange
  <2>3. 2 * half <= n - 1 /\ 2 * half >= n - 2 /\ 100 * (n - 1 - most) <= n + 98
    BY <2>1 DEF FloorIndex
  <2> HIDE DEF half, most
  <2>4. Describe([size |-> n, p50 |-> Sorted(s, half), p99 |-> Sorted(s, most),
                  max |-> Sorted(s, n - 1)], s)
    BY <1>2, <2>2, <2>3, FiguresDescribe DEF n
  <2>5. Figures(s, FloorIndex) = [size |-> n, p50 |-> Sorted(s, half), p99 |-> Sorted(s, most),
                                  max |-> Sorted(s, n - 1)]
    BY <1>2 DEF Figures, n, half, most
  <2> QED BY <2>4, <2>5
<1> QED BY <1>1, <1>2

\* ... and so do those of a report.
LEMMA CeilDescribes ==
    ASSUME NEW s \in Seq(Nat)
    PROVE  Describe(Figures(s, CeilIndex), s)
<1>1. CASE s = <<>>
  BY <1>1 DEF Figures, NoFigures, Describe
<1>2. CASE s # <<>>
  <2> DEFINE n == Len(s)
             half == CeilIndex(50, n)
             most == CeilIndex(99, n)
  <2>1. n \in Nat \ {0}
    BY <1>2
  <2> HIDE DEF n
  <2>2. half \in 0..n - 1 /\ most \in 0..n - 1 /\ half <= most
    BY <2>1, IndicesInRange
  <2>3. 2 * half <= n - 1 /\ 2 * half >= n - 2 /\ 100 * (n - 1 - most) <= n + 98
    BY <2>1 DEF CeilIndex
  <2> HIDE DEF half, most
  <2>4. Describe([size |-> n, p50 |-> Sorted(s, half), p99 |-> Sorted(s, most),
                  max |-> Sorted(s, n - 1)], s)
    BY <1>2, <2>2, <2>3, FiguresDescribe DEF n
  <2>5. Figures(s, CeilIndex) = [size |-> n, p50 |-> Sorted(s, half), p99 |-> Sorted(s, most),
                                 max |-> Sorted(s, n - 1)]
    BY <1>2 DEF Figures, n, half, most
  <2> QED BY <2>4, <2>5
<1> QED BY <1>1, <1>2

LEMMA FiguresInit == Init => FiguresHold
<1> SUFFICES ASSUME Init PROVE FiguresHold
  OBVIOUS
<1>1. Figures(<<>>, FloorIndex) = NoFigures /\ Figures(<<>>, CeilIndex) = NoFigures
  BY DEF Figures
<1>2. /\ metrics_latency = NoFigures /\ latency_window = <<>>
      /\ report = NoFigures /\ reported = 0 /\ measured = <<>>
  BY DEF Init
<1>3. NoFigures.size = 0
  BY DEF NoFigures
<1>4. SubSeq(measured, 1, 0) = <<>>
  BY <1>2
<1>5. report.size = 0 /\ reported - report.size + 1 = 1 /\ report.size \in 0..reported
  BY <1>2, <1>3
<1>6. report = Figures(SubSeq(measured, reported - report.size + 1, reported), CeilIndex)
  <2>1. SubSeq(measured, reported - report.size + 1, reported) = <<>>
    BY <1>2, <1>4, <1>5, Zenon
  <2> QED BY <1>1, <1>2, <2>1, Zenon
<1>7. metrics_latency = Figures(latency_window, FloorIndex)
  BY <1>1, <1>2, Zenon
<1> QED BY <1>5, <1>6, <1>7, Zenon DEF FiguresHold

\* A part of a sequence is in the sequence with one more element, too.
LEMMA SubSeqOfLonger ==
    ASSUME NEW S, NEW s \in Seq(S), NEW t \in Seq(S), NEW a \in Nat \ {0}, NEW b \in Nat,
           b <= Len(s), b <= Len(t), \A i \in 1..b : t[i] = s[i]
    PROVE  SubSeq(t, a, b) = SubSeq(s, a, b)
<1>1. Len(s) \in Nat /\ Len(t) \in Nat
  OBVIOUS
<1>2. \A i \in a..b : i \in 1..b
  OBVIOUS
<1>3. \A i \in a..b : s[i] \in S /\ t[i] \in S
  BY <1>1, <1>2, ElementOfSeq
<1>4. /\ SubSeq(s, a, b) \in Seq(S) /\ SubSeq(t, a, b) \in Seq(S)
      /\ Len(SubSeq(s, a, b)) = (IF a <= b THEN b - a + 1 ELSE 0)
      /\ Len(SubSeq(t, a, b)) = (IF a <= b THEN b - a + 1 ELSE 0)
      /\ \A i \in 1..b - a + 1 : SubSeq(s, a, b)[i] = s[a + i - 1]
      /\ \A i \in 1..b - a + 1 : SubSeq(t, a, b)[i] = t[a + i - 1]
  BY <1>3, SubSeqProperties
<1>5. \A i \in 1..Len(SubSeq(s, a, b)) :
        /\ i \in 1..b - a + 1 /\ a + i - 1 \in 1..b
  BY <1>4
<1>6. \A i \in 1..Len(SubSeq(s, a, b)) : SubSeq(s, a, b)[i] = SubSeq(t, a, b)[i]
  BY <1>4, <1>5
<1> QED BY <1>4, <1>6, SeqEqual

\* A report covers the samples it clears, which are the latest measured.
LEMMA ReportFigures ==
    ASSUME TypeOK, ReportedOnce, FiguresHold, enabled' = enabled, ~enabled, measured' \in Seq(Nat),
           NEW samples \in Seq([latency : Nat, since : Nat]), ReportIfDue(samples),
           Len(samples) = Len(measured') - reported,
           \A i \in 1..Len(samples) : samples[i].latency = measured'[reported + i],
           Len(measured') >= Len(measured),
           \A i \in 1..Len(measured) : measured'[i] = measured[i]
    PROVE  /\ report'.size \in 0..reported'
           /\ report' = Figures(SubSeq(measured', reported' - report'.size + 1, reported'), CeilIndex)
<1>1. /\ Len(measured) \in Nat /\ Len(measured') \in Nat /\ Len(samples) \in Nat /\ reported \in Nat
      /\ Len(samples_) \in Nat /\ measured \in Seq(Nat)
  BY DEF TypeOK
<1>2. CASE Due(samples)
  <2> DEFINE taken == [i \in DOMAIN samples |-> samples[i].latency]
  <2>1. /\ report' = Figures(taken, CeilIndex) /\ reported' = reported + Len(samples)
    BY <1>2 DEF ReportIfDue
  <2>2. /\ taken \in Seq(Nat) /\ Len(taken) = Len(samples)
        /\ \A i \in 1..Len(taken) : taken[i] = measured'[reported + i]
    <3>1. DOMAIN samples = 1..Len(samples) /\ \A i \in DOMAIN samples : samples[i].latency \in Nat
      <4>1. \A i \in 1..Len(samples) : samples[i] \in [latency : Nat, since : Nat]
        BY ElementOfSeq
      <4> QED BY <4>1
    <3>2. taken \in [1..Len(samples) -> Nat]
      BY <3>1
    <3>3. taken \in Seq(Nat) /\ Len(taken) = Len(samples)
      <4> HIDE DEF taken
      <4>1. ASSUME NEW n \in Nat, NEW s \in [1..n -> Nat] PROVE s \in Seq(Nat) /\ Len(s) = n
        OBVIOUS
      <4> QED BY <1>1, <3>2, <4>1
    <3> QED BY <3>1, <3>3
  <2>3. reported' = Len(measured')
    BY <1>1, <2>1
  <2>4. report'.size = Len(taken)
    <3>1. CASE taken = <<>>
      <4>1. report' = NoFigures
        BY <2>1, <3>1 DEF Figures
      <4>2. Len(taken) = 0
        BY <3>1
      <4> QED BY <4>1, <4>2 DEF NoFigures
    <3>2. CASE taken # <<>>
      <4> HIDE DEF taken
      <4> QED BY <2>1, <3>2 DEF Figures
    <3> QED BY <3>1, <3>2
  <2> HIDE DEF taken
  <2> DEFINE last == SubSeq(measured', reported + 1, Len(measured'))
  <2>5. last = taken
    <3>0. \A i \in reported + 1..Len(measured') : measured'[i] \in Nat
      BY <1>1, ElementOfSeq
    <3>1. /\ last \in Seq(Nat) 
          /\ Len(last) = (IF reported + 1 <= Len(measured') THEN Len(measured') - (reported + 1) + 1 ELSE 0)
          /\ \A i \in 1..Len(measured') - (reported + 1) + 1 : last[i] = measured'[reported + 1 + i - 1]
      BY <1>1, <3>0, SubSeqProperties
    <3> HIDE DEF last
    <3>2. Len(last) = Len(taken)
      BY <1>1, <2>2, <3>1
    <3>3. \A i \in 1..Len(taken) : last[i] = taken[i]
      <4> TAKE i \in 1..Len(taken)
      <4>0. Len(taken) = Len(measured') - reported
        BY <2>2
      <4>1. i \in 1..Len(measured') - (reported + 1) + 1 /\ reported + 1 + i - 1 = reported + i
        BY <1>1, <4>0
      <4> QED BY <2>2, <3>1, <4>1
    <3> QED BY <2>2, <3>1, <3>2, <3>3, SeqEqual
  <2>6. reported' - report'.size + 1 = reported + 1
    BY <1>1, <2>1, <2>2, <2>4
  <2>7. report' = Figures(last, CeilIndex)
    BY <2>1, <2>5
  <2> QED BY <1>1, <2>1, <2>2, <2>3, <2>4, <2>6, <2>7 DEF last
<1>3. CASE ~Due(samples)
  <2>1. report' = report /\ reported' = reported
    BY <1>3 DEF ReportIfDue
  <2>2. /\ report.size \in 0..reported
        /\ report = Figures(SubSeq(measured, reported - report.size + 1, reported), CeilIndex)
    BY DEF FiguresHold
  <2>3. reported <= Len(measured) /\ reported - report.size + 1 \in Nat \ {0}
    BY <1>1, <2>2 DEF ReportedOnce
  <2>4. SubSeq(measured', reported - report.size + 1, reported)
          = SubSeq(measured, reported - report.size + 1, reported)
    <3> DEFINE a == reported - report.size + 1
    <3>1. a \in Nat \ {0} /\ reported \in Nat /\ reported <= Len(measured) /\ reported <= Len(measured')
      BY <1>1, <2>3
    <3>2. \A i \in 1..reported : measured'[i] = measured[i]
      BY <1>1, <3>1
    <3> HIDE DEF a
    <3>3. SubSeq(measured', a, reported) = SubSeq(measured, a, reported)
      BY <1>1, <3>1, <3>2, SubSeqOfLonger
    <3> QED BY <3>3 DEF a
  <2> QED BY <2>1, <2>2, <2>4
<1> QED BY <1>2, <1>3

LEMMA FiguresStep ==
    TypeOK /\ TypeOK' /\ ReportedOnce /\ FiguresHold /\ [Next]_vars => FiguresHold'
<1> SUFFICES ASSUME TypeOK, TypeOK', ReportedOnce, FiguresHold, [Next]_vars PROVE FiguresHold'
  OBVIOUS
<1>1. UNCHANGED <<enabled, managed>>
  BY DEF Next, Tick, Heartbeat, Publish, MeasureNothing, Measure, Observe, Log, vars
<1>2. (managed => metrics_latency = Figures(latency_window, FloorIndex))'
  <2>1. CASE UNCHANGED <<latency_window, metrics_latency>>
    BY <1>1, <2>1 DEF FiguresHold
  <2>2. CASE Observe /\ managed /\ latency # None
    <3>1. metrics_latency' = Figures(latency_window', FloorIndex)
      BY <2>2 DEF Observe
    <3> QED BY <3>1
  <2>3. CASE Observe /\ ~(managed /\ latency # None)
    <3>1. UNCHANGED <<latency_window, metrics_latency>>
      BY <2>3 DEF Observe, snapshot
    <3> QED BY <2>1, <3>1
  <2>4. CASE ~Observe
    <3>1. UNCHANGED <<latency_window, metrics_latency>>
      BY <2>4 DEF Next, Tick, Heartbeat, Publish, MeasureNothing, Measure, Log, vars, snapshot
    <3> QED BY <2>1, <3>1
  <2> QED BY <2>1, <2>2, <2>3, <2>4
<1>3. ASSUME ~enabled
      PROVE  /\ report'.size \in 0..reported'
             /\ report' = Figures(SubSeq(measured', reported' - report'.size + 1, reported'), CeilIndex)
  <2>1. CASE UNCHANGED <<report, measured, reported>>
    BY <1>3, <2>1 DEF FiguresHold
  <2>2. /\ samples_ \in Seq([latency : Nat, since : Nat]) /\ measured \in Seq(Nat)
        /\ measured' \in Seq(Nat) /\ reported \in Nat
        /\ Len(samples_) \in Nat /\ Len(measured) \in Nat
    <3>1. samples_ \in Seq([latency : Nat, since : Nat]) /\ measured \in Seq(Nat) /\ reported \in Nat
      BY DEF TypeOK
    <3>2. measured' \in Seq(Nat)
      BY DEF TypeOK
    <3> QED BY <3>1, <3>2, LenProperties
  <2>3. CASE Heartbeat
    <3>1. measured' = measured /\ ReportIfDue(samples_)
      BY <2>3 DEF Heartbeat
    <3>2. /\ Len(samples_) = Len(measured') - reported /\ Len(measured') >= Len(measured)
          /\ \A i \in 1..Len(samples_) : samples_[i].latency = measured'[reported + i]
          /\ \A i \in 1..Len(measured) : measured'[i] = measured[i]
      BY <2>2, <3>1 DEF ReportedOnce
    <3> QED BY <1>1, <1>3, <2>2, <3>1, <3>2, ReportFigures
  <2>4. CASE Measure
    <3> DEFINE new == [latency |-> latency, since |-> now]
               added == Append(samples_, new)
    <3>1. /\ measured' = Append(measured, latency) /\ ReportIfDue(added) /\ latency \in Nat
      BY <2>4 DEF Measure, TypeOK
    <3>2. new \in [latency : Nat, since : Nat] /\ new.latency = latency
      BY <3>1 DEF TypeOK
    <3> HIDE DEF new
    <3>3. /\ added \in Seq([latency : Nat, since : Nat]) /\ Len(added) = Len(samples_) + 1
          /\ added[Len(samples_) + 1] = new /\ \A i \in 1..Len(samples_) : added[i] = samples_[i]
      BY <2>2, <3>2
    <3>4. /\ Len(measured') = Len(measured) + 1 /\ measured'[Len(measured) + 1] = latency
          /\ \A i \in 1..Len(measured) : measured'[i] = measured[i]
      BY <2>2, <3>1
    <3> HIDE DEF added
    <3>5. Len(added) = Len(measured') - reported /\ Len(measured') >= Len(measured)
      BY <2>2, <3>3, <3>4 DEF ReportedOnce
    <3>6. ASSUME NEW i \in 1..Len(added) PROVE added[i].latency = measured'[reported + i]
      <4>1. CASE i = Len(samples_) + 1
        <5>1. reported + i = Len(measured) + 1
          BY <2>2, <4>1 DEF ReportedOnce
        <5> QED BY <3>2, <3>3, <3>4, <4>1, <5>1
      <4>2. CASE i # Len(samples_) + 1
        <5>1. i \in 1..Len(samples_)
          BY <2>2, <3>3, <4>2
        <5>2. samples_[i].latency = measured[reported + i] /\ reported + i \in 1..Len(measured)
          BY <2>2, <5>1 DEF ReportedOnce
        <5> QED BY <3>3, <3>4, <5>1, <5>2
      <4> QED BY <4>1, <4>2
    <3> QED BY <1>1, <1>3, <2>2, <3>1, <3>3, <3>4, <3>5, <3>6, ReportFigures
  <2>5. CASE ~Heartbeat /\ ~Measure
    <3>1. UNCHANGED <<report, measured, reported>>
      BY <2>5 DEF Next, Tick, Publish, MeasureNothing, Observe, Log, vars, statistics, history
    <3> QED BY <2>1, <3>1
  <2> QED BY <2>3, <2>4, <2>5
<1> QED BY <1>1, <1>2, <1>3 DEF FiguresHold

LEMMA FiguresDescribeAll == TypeOK /\ ReportedOnce /\ FiguresHold => Percentiles
<1> SUFFICES ASSUME TypeOK, ReportedOnce, FiguresHold PROVE Percentiles
  OBVIOUS
<1>1. enabled => Describe(StatisticsLine, latency_samples_)
  BY FloorDescribes DEF TypeOK, StatisticsLine
<1>2. managed => Describe(metrics_latency, latency_window)
  BY FloorDescribes DEF TypeOK, FiguresHold
<1>3. ASSUME ~enabled
      PROVE  Describe(report, SubSeq(measured, reported - report.size + 1, reported))
  <2>1. measured \in Seq(Nat) /\ Len(measured) \in Nat /\ reported \in Nat /\ Len(samples_) \in Nat
    BY DEF TypeOK
  <2>2. /\ report.size \in 0..reported
        /\ report = Figures(SubSeq(measured, reported - report.size + 1, reported), CeilIndex)
    BY <1>3 DEF FiguresHold
  <2> DEFINE a == reported - report.size + 1
  <2>3. a \in Nat \ {0} /\ reported <= Len(measured)
    BY <2>1, <2>2 DEF ReportedOnce
  <2> HIDE DEF a
  <2>4. SubSeq(measured, a, reported) \in Seq(Nat)
    <3>1. \A i \in a..reported : measured[i] \in Nat
      BY <2>1, <2>3, ElementOfSeq
    <3> QED BY <2>1, <2>3, <3>1, SubSeqProperties
  <2>5. Describe(Figures(SubSeq(measured, a, reported), CeilIndex), SubSeq(measured, a, reported))
    BY <2>4, CeilDescribes
  <2> QED BY <2>2, <2>5 DEF a
<1> QED BY <1>1, <1>2, <1>3 DEF Percentiles

\* p50, p99 and max are what they promise, on the display, in the metrics and in
\* every report, for any number of samples and any latencies.
THEOREM PercentilesDescribe == Spec => []Percentiles
<1>1. Init => TypeOK /\ ReportedOnce /\ FiguresHold
  BY TypeInit, ReportedInit, FiguresInit
<1>2. TypeOK /\ ReportedOnce /\ FiguresHold /\ [Next]_vars => (TypeOK /\ ReportedOnce /\ FiguresHold)'
  BY TypeStep, ReportedStep, FiguresStep
<1> QED BY <1>1, <1>2, FiguresDescribeAll, PTL DEF Spec

=============================================================================
