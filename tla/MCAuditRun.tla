----------------------------- MODULE MCAuditRun -----------------------------
\* Instances of AuditRun for TLC.
EXTENDS AuditRun, TLC

\* Every session has a lock of its own.
MCOwnKey == [s \in Sessions |-> s]
=============================================================================
