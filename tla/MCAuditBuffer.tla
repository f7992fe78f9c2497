---------------------------- MODULE MCAuditBuffer ----------------------------
\* A small instance of AuditBuffer for TLC: one record of each sort.
EXTENDS AuditBuffer
=============================================================================
