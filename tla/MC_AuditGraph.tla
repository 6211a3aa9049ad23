--------------------------- MODULE MC_AuditGraph ---------------------------
(* Small instances of AuditGraph: processes are interchangeable.           *)
EXTENDS AuditGraph, TLC

Slots == Permutations(Processes)

=============================================================================
