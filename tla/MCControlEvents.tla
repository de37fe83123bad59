--------------------------- MODULE MCControlEvents ---------------------------
(* Small instances of the event stream: runtimes and browsers are model      *)
(* values, and one is as good as another.                                    *)
EXTENDS ControlEvents, FiniteSets, TLC

Symmetry == Permutations(Runtimes) \cup Permutations(Clients)

\* Two runtimes at once, whose snapshots queue up in one browser's socket; each
\* is started once, and ends by itself.  Nobody goes away, and no metrics are due.
OneBrowser ==
    /\ Cardinality({c \in Clients : conn[c] # "none"}) <= 1 /\ \A c \in Clients : conn[c] # "closed"
    /\ toSend[Metrics] = {}
    /\ \A r \in Runtimes :
          /\ state[r] # "stopping" /\ version[r] <= 3
          /\ state[r] \in {"absent", "starting"} => version[r] <= 1

\* Two browsers at once, one of which may fail; one runtime, that is stopped and
\* restarted as well, and sockets that are full with one frame.
OneRuntime ==
    /\ Cardinality({r \in Runtimes : version[r] > 0 \/ about = r}) <= 1
    /\ \A c \in Clients : Len(channel[c]) <= 1

\* All of it at once would be too large.
Bound == OneBrowser \/ OneRuntime
=============================================================================
