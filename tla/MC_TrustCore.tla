---------------------------- MODULE MC_TrustCore ----------------------------
(* Small instances of TrustCore: requests are interchangeable.             *)
EXTENDS AuditTrail, TrustCoreRefines, TrustCoreInvariant, TLC

Requests == Permutations(Handlers)

=============================================================================
