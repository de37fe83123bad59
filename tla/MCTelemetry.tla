----------------------------- MODULE MCTelemetry -----------------------------
\* Values of Telemetry's constants that a .cfg cannot write.
EXTENDS Telemetry

Differences == {-1, 0, 1, 3}
=============================================================================
