----------------------------- MODULE AuditTrail -----------------------------
(***************************************************************************)
(* What a reader of the event log may conclude from it, and two promises   *)
(* of the documentation that the trust core does not keep.                 *)
(***************************************************************************)
EXTENDS TrustCore

\* What an event does to the status of a run: pairs of the status it may follow and
\* the one it leads to.
Effect(kind) ==
  CASE kind = "run_created"           -> {<<"absent", "pending">>}
    [] kind \in ClientKinds           -> EventProjection[kind]
    [] kind \in Decision              -> {<<"waiting_approval", NextStatus[kind]>>}
    [] kind = "attestation_submitted" -> {<<"running", "success">>}
    [] OTHER                          -> {<<s, Keep>> : s \in RunStatus}

\* The status after an event, or "illegal" if the status before does not allow it;
\* nothing leads out of "illegal".
AfterEvent(old, kind) ==
  LET steps == {p \in Effect(kind) : p[1] = old}
  IN  IF steps = {} THEN "illegal" ELSE Coalesce((CHOOSE p \in steps : TRUE)[2], old)

\* The status that a reader arrives at who replays a log event by event.
Replay(log) ==
  LET after[n \in 0 .. Len(log)] ==
        IF n = 0 THEN "absent" ELSE AfterEvent(after[n - 1], log[n].kind)
  IN  after[Len(log)]

\* The log alone explains the run: replaying it event by event never meets an
\* event that was not allowed when it was appended, and ends in the status of
\* the runs row.  Requests validate against a status they read before their
\* transaction, so this is what the compare-and-set in it must ensure.
LogExplainsStatus == Replay(events) = status

\* docs/technical-design.md, 10.2: POST /approval "atomically stores an
\* immutable human decision bound to the latest frozen hashes".
ApprovalBindsLatest ==
  [][approval = None /\ approval' # None
       => approval'.bound = passports[Len(passports)]]_vars

\* An attestation attempt that was claimed and is over without a receipt.
AttemptFailed ==
  /\ attempt # None /\ receipt = None
  /\ mempool = {} /\ chain = <<>>
  /\ \A h \in Handlers : handler[h].at \notin {"claimed", "awaiting", "record"}

\* docs/testnet-setup.md: "A failed or interrupted attempt is never retried
\* automatically; it returns to manual review."
FailedAttemptReturnsToReview ==
  AttemptFailed => status \in {"waiting_approval"} \cup Terminal

=============================================================================
