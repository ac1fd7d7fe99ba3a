----------------------------- MODULE MCMonitor -----------------------------
EXTENDS ControlMonitor

BothKinds == {"backup", "recover"}

EveryFault == {"data", "media", "remedy", "late", "gone"}

=============================================================================
