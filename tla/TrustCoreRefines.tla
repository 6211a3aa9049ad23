-------------------------- MODULE TrustCoreRefines --------------------------
(***************************************************************************)
(* TrustCore implements AuditedRun: handlers disappear, rows become the    *)
(* state they stand for, and only transactions and network steps count.    *)
(***************************************************************************)
EXTENDS TrustCore

Abstract == INSTANCE AuditedRun WITH
  log      <- [i \in 1 .. Len(events) |-> events[i].kind],
  scored   <- results,
  seals    <- [n \in 1 .. Len(passports) |-> Len(passports[n].audit_log_hash)],
  verdict  <- IF approval = None THEN None
              ELSE [decision |-> approval.decision,
                    number   |-> approval.bound.sequence],
  granted  <- attempt # None,
  sent     <- {t.bound.sequence : t \in mempool},
  recorded <- [i \in 1 .. Len(chain) |-> chain[i].bound.sequence],
  attested <- receipt # None

ASSUME VerdictAssumption == None \notin Abstract!Verdict

\* The trust core, with all its interleavings, abandoned requests, failed
\* statements and a network that delays or loses the transaction, behaves like
\* a run on which every operation is one step.
ImplementsAuditedRun == Abstract!Spec

=============================================================================
