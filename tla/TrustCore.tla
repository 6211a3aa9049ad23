------------------------------ MODULE TrustCore ------------------------------
(***************************************************************************)
(* The Rust trust core of one audit run: the HTTP handlers of              *)
(* TrustCoreService running against the rows that Repository keeps in      *)
(* SQLite, and the registry contract that the attestation handler writes.  *)
(*                                                                         *)
(* A handler is an async function: it reads rows on the connection pool,   *)
(* validates the request against what it read, and then runs ONE           *)
(* transaction.  Everything between two awaits is one action here, so      *)
(* other handlers interleave between the reads and the transaction, and a  *)
(* handler whose client disconnects, whose statement fails or whose        *)
(* process is killed disappears between two of them (Abandon).             *)
(*                                                                         *)
(* What is abstracted: a hash is what it commits to; request bodies keep   *)
(* only what decides the outcome; runs do not interact, so there is one.   *)
(***************************************************************************)
EXTENDS Naturals, Sequences, RunLifecycle

CONSTANTS
  Handlers,      \* requests that can be in flight at the same time
  Versions,      \* evidence board versions
  None,          \* the value of an optional row that is absent
  ClientEvents,  \* bound: the kinds of events that clients append
  MaxEvents,     \* bound: a generic event is appended only to a shorter log
  MaxPassports   \* bound: no passport draft starts once so many are frozen

VARIABLES
  status,     \* runs.status, or "absent" before the run is created
  events,     \* run_events rows of the run, in order of insertion
  boards,     \* evidence board versions with a row in evidence_boards
  results,    \* evidence board versions with a row in check_results
  passports,  \* passports JOIN provenances, in order of insertion
  approval,   \* the row of approvals
  attempt,    \* the row of attestation_attempts: the handler that claimed it
  receipt,    \* the row of attestation_receipts
  handler,    \* where each in-flight request is, and what it has read
  mempool,    \* transactions sent and not yet mined
  chain       \* records[toolId][runId] of the registry contract

ledger == <<status, events>>
freezes == <<boards, results, passports>>
decisions == <<approval, attempt, receipt>>
network == <<mempool, chain>>
vars == <<status, events, boards, results, passports, approval, attempt,
          receipt, handler, mempool, chain>>

-----------------------------------------------------------------------------
(* The values of the rows.                                                 *)

\* SHA-256 over the canonical event, which contains prev_event_hash: a hash is
\* the list of events it commits to, and two hashes are equal only if those are.
Hash == Seq(Kinds)
ZeroHash == <<>>
Event == [sequence: Nat, kind: Kinds, prev: Hash]
EventHash(e) == Append(e.prev, e.kind)

Passport == [sequence: Nat, version: Versions, audit_log_hash: Hash]
Approval == [decision: Decision, bound: Passport]
\* A transaction, named by the handler that sent it, carrying a commitment.
Tx == [sender: Handlers, bound: Passport]

ASSUME ConstantsAssumption ==
  /\ None \notin Handlers \cup Approval \cup Tx
  /\ ClientEvents \subseteq ClientKinds
  /\ MaxEvents \in Nat /\ MaxPassports \in Nat

-----------------------------------------------------------------------------
(* The hash chain of the event log.                                        *)

\* The prev_event_hash that belongs at position i of a log.
PrevHash(log, i) == IF i = 1 THEN ZeroHash ELSE EventHash(log[i - 1])

\* A log that is one unbroken chain.
Linked(log) ==
  \A i \in DOMAIN log : /\ log[i].sequence = i
                        /\ log[i].prev = PrevHash(log, i)

\* next_sequence_and_prev_hash: the next place in the chain or, when the query
\* fails and its error is discarded, the place of a first event.
NextSlots(log) ==
  {[sequence |-> Len(log) + 1, prev |-> PrevHash(log, Len(log) + 1)],
   [sequence |-> 1, prev |-> ZeroHash]}

\* Mutant: no unique key on run_events.
SequenceUnchecked(log, n) == TRUE

\* UNIQUE (run_id, sequence) on run_events.
SequenceIsFree(log, n) == \A i \in DOMAIN log : log[i].sequence # n

\* The logs an INSERT of one event may leave.
Inserted(log, kind) ==
  {Append(log, [sequence |-> s.sequence, kind |-> kind, prev |-> s.prev]) :
     s \in {t \in NextSlots(log) : SequenceIsFree(log, t.sequence)}}

\* MAX(sequence) + 1 over the passports, or 1.
NextPassportSequence ==
  IF passports = <<>> THEN 1 ELSE passports[Len(passports)].sequence + 1

-----------------------------------------------------------------------------
(* Handlers: the step a request is at and what it holds from its reads.    *)

Idle == [at |-> "idle"]
Local ==
  [at: {"idle"}]
    \cup [at: {"append"}, kind: ClientKinds, from: RunStatus,
        to: RunStatus \cup {Keep}]
    \cup [at: {"board", "results", "draft"}, version: Versions]
    \cup [at: {"seal"}, version: Versions, sequence: Nat]
    \cup [at: {"review"}, decision: Decision]
    \cup [at: {"decide"}, decision: Decision, bound: Passport]
    \cup [at: {"attest"}]
    \cup [at: {"claim", "claimed", "awaiting", "record"}, bound: Passport]

At(h, step) == handler[h].at = step
Goto(h, local) == handler' = [handler EXCEPT ![h] = local]
Return(h) == Goto(h, Idle)

\* create_run: the run row and its first event in one transaction.
CreateRun ==
  /\ status = "absent"
  /\ status' = "pending"
  /\ events' = <<[sequence |-> 1, kind |-> "run_created", prev |-> ZeroHash]>>
  /\ UNCHANGED <<freezes, decisions, handler, network>>

\* append_event up to the transaction: get_run, then event_projection.
BeginAppend(h) ==
  /\ At(h, "idle")
  /\ Len(events) < MaxEvents
  /\ \E k \in ClientEvents : \E p \in EventProjection[k] :
       /\ p[1] = status
       /\ Goto(h, [at |-> "append", kind |-> k, from |-> p[1], to |-> p[2]])
  /\ UNCHANGED <<ledger, freezes, decisions, network>>

\* Mutant: the UPDATE has no "AND status = ?".
CommitAppendBlindly(h) ==
  /\ At(h, "append")
  /\ status' = Coalesce(handler[h].to, status)
  /\ events' \in Inserted(events, handler[h].kind)
  /\ Return(h)
  /\ UNCHANGED <<freezes, decisions, network>>

\* Repository::append_event: UPDATE .. WHERE status = expected, then INSERT.
CommitAppend(h) ==
  /\ At(h, "append")
  /\ status = handler[h].from
  /\ status' = Coalesce(handler[h].to, status)
  /\ events' \in Inserted(events, handler[h].kind)
  /\ Return(h)
  /\ UNCHANGED <<freezes, decisions, network>>

\* freeze_evidence_board: the run exists; evidence is only ever added, so what
\* the handler validated still holds in its transaction.
BeginBoard(h, v) ==
  /\ At(h, "idle")
  /\ status # "absent"
  /\ Goto(h, [at |-> "board", version |-> v])
  /\ UNCHANGED <<ledger, freezes, decisions, network>>

\* create_evidence_freeze: PRIMARY KEY (run_id, version), then the event.
CommitBoard(h) ==
  /\ At(h, "board")
  /\ handler[h].version \notin boards
  /\ boards' = boards \cup {handler[h].version}
  /\ events' \in Inserted(events, "evidence_board_frozen")
  /\ Return(h)
  /\ UNCHANGED <<status, results, passports, decisions, network>>

\* create_check_results up to the transaction: the board must be frozen.
BeginResults(h, v) ==
  /\ At(h, "idle")
  /\ v \in boards
  /\ Goto(h, [at |-> "results", version |-> v])
  /\ UNCHANGED <<ledger, freezes, decisions, network>>

\* Repository::create_check_results: UNIQUE (run_id, board version).
CommitResults(h) ==
  /\ At(h, "results")
  /\ handler[h].version \notin results
  /\ results' = results \cup {handler[h].version}
  /\ events' \in Inserted(events, "score_changed")
  /\ Return(h)
  /\ UNCHANGED <<status, boards, passports, decisions, network>>

\* freeze_passport: the board and its check results must be stored.
BeginPassport(h, v) ==
  /\ At(h, "idle")
  /\ Len(passports) < MaxPassports
  /\ v \in boards \cap results
  /\ Goto(h, [at |-> "draft", version |-> v])
  /\ UNCHANGED <<ledger, freezes, decisions, network>>

\* next_passport_sequence runs on the pool, before the transaction.
ReadPassportSequence(h) ==
  /\ At(h, "draft")
  /\ Goto(h, [at |-> "seal", version |-> handler[h].version,
              sequence |-> NextPassportSequence])
  /\ UNCHANGED <<ledger, freezes, decisions, network>>

\* Mutant: no unique key on passports.
PassportUnchecked(n) == TRUE

\* UNIQUE (run_id, sequence) on passports.
PassportIsNew(n) == \A i \in DOMAIN passports : passports[i].sequence # n

\* create_passport_freeze: the event first, its hash into the provenance, then
\* both rows; a taken sequence rolls the event back with them.
CommitPassport(h) ==
  /\ At(h, "seal")
  /\ events' \in Inserted(events, "provenance_frozen")
  /\ PassportIsNew(handler[h].sequence)
  /\ passports' = Append(passports,
       [sequence |-> handler[h].sequence, version |-> handler[h].version,
        audit_log_hash |-> EventHash(events'[Len(events')])])
  /\ Return(h)
  /\ UNCHANGED <<status, boards, results, decisions, network>>

\* create_approval: the run must be waiting for a decision.
BeginApproval(h, d) ==
  /\ At(h, "idle")
  /\ status = "waiting_approval"
  /\ Goto(h, [at |-> "review", decision |-> d])
  /\ UNCHANGED <<ledger, freezes, decisions, network>>

\* create_approval: the request must name the latest frozen passport, by its
\* sequence and hashes; any other request is refused.
BindApproval(h) ==
  /\ At(h, "review")
  /\ passports # <<>>
  /\ Goto(h, [at |-> "decide", decision |-> handler[h].decision,
              bound |-> passports[Len(passports)]])
  /\ UNCHANGED <<ledger, freezes, decisions, network>>

\* Mutant: the event of a decision is written on a best-effort basis.
CommitApprovalUnlogged(h) ==
  /\ At(h, "decide")
  /\ status = "waiting_approval"
  /\ status' = NextStatus[handler[h].decision]
  /\ approval = None
  /\ approval' = [decision |-> handler[h].decision, bound |-> handler[h].bound]
  /\ events' \in Inserted(events, handler[h].decision) \cup {events}
  /\ Return(h)
  /\ UNCHANGED <<freezes, attempt, receipt, network>>

\* Repository::create_approval: UPDATE .. WHERE status = expected, then the
\* row (UNIQUE run_id), then the event.
CommitApproval(h) ==
  /\ At(h, "decide")
  /\ status = "waiting_approval"
  /\ status' = NextStatus[handler[h].decision]
  /\ approval = None
  /\ approval' = [decision |-> handler[h].decision, bound |-> handler[h].bound]
  /\ events' \in Inserted(events, handler[h].decision)
  /\ Return(h)
  /\ UNCHANGED <<freezes, attempt, receipt, network>>

\* submit_attestation: the run must be running.
BeginAttestation(h) ==
  /\ At(h, "idle")
  /\ status = "running"
  /\ Goto(h, [at |-> "attest"])
  /\ UNCHANGED <<ledger, freezes, decisions, network>>

\* submit_attestation: no receipt, a testnet approval, and the frozen
\* provenance it is bound to.
LoadApproval(h) ==
  /\ At(h, "attest")
  /\ receipt = None
  /\ approval # None
  /\ approval.decision = "approve_testnet"
  /\ \E i \in DOMAIN passports : passports[i] = approval.bound
  /\ Goto(h, [at |-> "claim", bound |-> approval.bound])
  /\ UNCHANGED <<ledger, freezes, decisions, network>>

\* Mutant: INSERT OR REPLACE lets a second request claim the attempt.
ClaimAttemptAgain(h) ==
  /\ At(h, "claim")
  /\ attempt' = h
  /\ Goto(h, [at |-> "claimed", bound |-> handler[h].bound])
  /\ UNCHANGED <<ledger, freezes, approval, receipt, network>>

\* claim_attestation_attempt: PRIMARY KEY run_id, a transaction of its own.
ClaimAttempt(h) ==
  /\ At(h, "claim")
  /\ attempt = None
  /\ attempt' = h
  /\ Goto(h, [at |-> "claimed", bound |-> handler[h].bound])
  /\ UNCHANGED <<ledger, freezes, approval, receipt, network>>

\* AlloyAttestationSubmitter::submit as far as recordPassport(..).send().
SendTransaction(h) ==
  /\ At(h, "claimed")
  /\ mempool' = mempool \cup {[sender |-> h, bound |-> handler[h].bound]}
  /\ Goto(h, [at |-> "awaiting", bound |-> handler[h].bound])
  /\ UNCHANGED <<ledger, freezes, decisions, chain>>

\* recordPassport executes: it appends, whatever is recorded already.
RecordPassport(t) ==
  /\ t \in mempool
  /\ mempool' = mempool \ {t}
  /\ chain' = Append(chain, t)
  /\ UNCHANGED <<ledger, freezes, decisions, handler>>

\* The transaction is dropped or reverted.
DropTransaction(t) ==
  /\ t \in mempool
  /\ mempool' = mempool \ {t}
  /\ UNCHANGED <<ledger, freezes, decisions, handler, chain>>

\* Mutant: the handler takes the transaction's hash for its receipt.
ConfirmUnmined(h) ==
  /\ At(h, "awaiting")
  /\ Goto(h, [at |-> "record", bound |-> handler[h].bound])
  /\ UNCHANGED <<ledger, freezes, decisions, network>>

\* pending.get_receipt() answers for this handler's transaction.
ConfirmTransaction(h) ==
  /\ At(h, "awaiting")
  /\ \E i \in DOMAIN chain : chain[i] = [sender |-> h, bound |-> handler[h].bound]
  /\ Goto(h, [at |-> "record", bound |-> handler[h].bound])
  /\ UNCHANGED <<ledger, freezes, decisions, network>>

\* Mutant: the success of the run does not depend on its status.
CommitReceiptBlindly(h) ==
  /\ At(h, "record")
  /\ status' = "success"
  /\ receipt = None
  /\ receipt' = [sender |-> h, bound |-> handler[h].bound]
  /\ \E log \in Inserted(events, "attestation_submitted") :
       events' \in Inserted(log, "attestation_confirmed")
  /\ Return(h)
  /\ UNCHANGED <<freezes, approval, attempt, network>>

\* create_attestation_receipt: UPDATE .. WHERE status = 'running', the receipt
\* (UNIQUE run_id), then both events.
CommitReceipt(h) ==
  /\ At(h, "record")
  /\ status = "running"
  /\ status' = "success"
  /\ receipt = None
  /\ receipt' = [sender |-> h, bound |-> handler[h].bound]
  /\ \E log \in Inserted(events, "attestation_submitted") :
       events' \in Inserted(log, "attestation_confirmed")
  /\ Return(h)
  /\ UNCHANGED <<freezes, approval, attempt, network>>

\* The request ends without (further) effect: it is refused, a statement or a
\* transaction fails and rolls back, submit() fails, the client disconnects, or
\* the process stops (every handler then abandons).
Abandon(h) ==
  /\ ~At(h, "idle")
  /\ Return(h)
  /\ UNCHANGED <<ledger, freezes, decisions, network>>

-----------------------------------------------------------------------------
Init ==
  /\ status = "absent"
  /\ events = <<>>
  /\ boards = {} /\ results = {} /\ passports = <<>>
  /\ approval = None /\ attempt = None /\ receipt = None
  /\ handler = [h \in Handlers |-> Idle]
  /\ mempool = {} /\ chain = <<>>

Next ==
  \/ CreateRun
  \/ \E h \in Handlers :
       \/ BeginAppend(h) \/ CommitAppend(h)
       \/ \E v \in Versions : BeginBoard(h, v) \/ BeginResults(h, v) \/ BeginPassport(h, v)
       \/ CommitBoard(h) \/ CommitResults(h)
       \/ ReadPassportSequence(h) \/ CommitPassport(h)
       \/ \E d \in Decision : BeginApproval(h, d)
       \/ BindApproval(h) \/ CommitApproval(h)
       \/ BeginAttestation(h) \/ LoadApproval(h) \/ ClaimAttempt(h)
       \/ SendTransaction(h) \/ ConfirmTransaction(h) \/ CommitReceipt(h)
       \/ Abandon(h)
  \/ \E t \in mempool : RecordPassport(t) \/ DropTransaction(t)

Spec == Init /\ [][Next]_vars

-----------------------------------------------------------------------------
(* Correctness.                                                            *)

Optional(S) == S \cup {None}

\* Every variable has its type.
TypeOK ==
  /\ status \in RunStatus \cup {"absent"}
  /\ events \in Seq(Event)
  /\ boards \subseteq Versions
  /\ results \subseteq Versions
  /\ passports \in Seq(Passport)
  /\ approval \in Optional(Approval)
  /\ attempt \in Optional(Handlers)
  /\ receipt \in Optional(Tx)
  /\ handler \in [Handlers -> Local]
  /\ mempool \subseteq Tx
  /\ chain \in Seq(Tx)

\* The event log is one unbroken hash chain: sequences 1, 2, 3 .. in order of
\* insertion, each event carrying the hash of the one before it.  The insert
\* that follows a failed read of the chain's end must never get in.
ChainLinked == Linked(events)

\* Passports are numbered 1, 2, 3 .. although a handler picks the number
\* before its transaction, and each one seals the log up to an event of its
\* own: the provenance_frozen events of the log are those of the passports, in
\* the same order, and audit_log_hash is the hash of that event.
PassportsSealLog ==
  LET frozen == {i \in DOMAIN events : events[i].kind = "provenance_frozen"}
  IN  /\ \A n \in DOMAIN passports :
           /\ passports[n].sequence = n
           /\ \E i \in frozen : passports[n].audit_log_hash = EventHash(events[i])
      /\ \A i \in frozen : \E n \in DOMAIN passports :
           passports[n].audit_log_hash = EventHash(events[i])
      /\ \A m, n \in DOMAIN passports : m < n =>
           Len(passports[m].audit_log_hash) < Len(passports[n].audit_log_hash)

\* The one human decision of a run: the log has an approval_resolved event if
\* and only if there is an approval, only one, for that decision, and it comes
\* after the seal of the frozen passport that the decision is bound to.
OneDecision ==
  LET decided == {i \in DOMAIN events : events[i].kind \in Decision}
  IN  IF approval = None THEN decided = {}
      ELSE \E i \in decided :
             /\ decided = {i}
             /\ events[i].kind = approval.decision
             /\ Len(approval.bound.audit_log_hash) < i
             /\ approval.bound \in {passports[n] : n \in DOMAIN passports}

\* Nothing reaches the network but the commitment a human approved for it, and
\* at most one transaction of the run is ever sent, however many attestation
\* requests run, fail and are repeated.
OneApprovedTransaction ==
  LET sent == mempool \cup {chain[i] : i \in DOMAIN chain}
  IN  /\ \A t \in sent : /\ approval # None
                         /\ approval.decision = "approve_testnet"
                         /\ t.bound = approval.bound
                         /\ t.sender = attempt
      /\ Len(chain) <= 1
      /\ chain # <<>> => mempool = {}

\* A receipt exists only for a transaction the registry has executed, in a run
\* that ended in success and whose last status event confirms it.
ReceiptIsBacked ==
  receipt # None =>
    /\ \E i \in DOMAIN chain : chain[i] = receipt
    /\ status = "success"
    /\ \E i \in DOMAIN events : events[i].kind = "attestation_confirmed"

\* A terminal status is final, whatever a request that began earlier still
\* commits.
TerminalIsFinal == [][(status \in Terminal) => (status' = status)]_vars

=============================================================================
