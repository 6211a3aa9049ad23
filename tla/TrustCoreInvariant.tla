------------------------- MODULE TrustCoreInvariant -------------------------
(***************************************************************************)
(* The inductive invariant behind the safety properties of TrustCore: what *)
(* is true of a request between its reads and its transaction, and who     *)
(* holds the run's single permission to submit.                            *)
(***************************************************************************)
EXTENDS TrustCore

\* The hash at position i commits to the i - 1 events before it, and only a run
\* that does not exist has no events.
LogInv ==
  /\ Linked(events)
  /\ \A i \in DOMAIN events : Len(events[i].prev) = i - 1
  /\ (events = <<>>) <=> (status = "absent")

\* Passport n seals the log at the event of a freeze; later passports seal a
\* longer log.
SealInv ==
  /\ \A n \in DOMAIN passports :
       /\ passports[n].sequence = n
       /\ \E i \in DOMAIN events :
            /\ events[i].kind = "provenance_frozen"
            /\ passports[n].audit_log_hash = EventHash(events[i])
  /\ \A i \in DOMAIN events : events[i].kind = "provenance_frozen" =>
       \E n \in DOMAIN passports : passports[n].audit_log_hash = EventHash(events[i])
  /\ \A m, n \in DOMAIN passports : m < n =>
       Len(passports[m].audit_log_hash) < Len(passports[n].audit_log_hash)

IsPassport(p) == \E n \in DOMAIN passports : passports[n] = p

\* What request h still knows to be true when it reaches its transaction, l
\* being what it holds.
Request(h, l) ==
  /\ l.at = "append" => <<l.from, l.to>> \in EventProjection[l.kind]
  /\ l.at = "results" => l.version \in boards
  /\ l.at \in {"draft", "seal"} => l.version \in boards \cap results
  /\ l.at = "seal" => l.sequence \in 1 .. Len(passports) + 1
  /\ l.at = "decide" => IsPassport(l.bound)
  /\ l.at \in {"board", "review", "decide", "attest"} => status # "absent"
  /\ l.at \in {"claim", "claimed", "awaiting", "record"} =>
       /\ approval # None
       /\ approval.decision = "approve_testnet"
       /\ approval.bound = l.bound
  /\ l.at \in {"claimed", "awaiting", "record"} => attempt = h
  /\ l.at = "claimed" => mempool = {} /\ chain = <<>>
  /\ l.at = "record" =>
       \E i \in DOMAIN chain : chain[i] = [sender |-> h, bound |-> l.bound]

RequestInv == \A h \in Handlers : Request(h, handler[h])

\* The run's permission to submit is the attempt row: no transaction exists
\* without it, and all there is was sent by its holder for the approval.
SubmissionInv ==
  LET sent == mempool \cup {chain[i] : i \in DOMAIN chain}
  IN  /\ \A t \in sent : /\ approval # None
                         /\ approval.decision = "approve_testnet"
                         /\ t.bound = approval.bound
                         /\ attempt # None /\ t.sender = attempt
      /\ Len(chain) <= 1
      /\ chain # <<>> => mempool = {}

\* The single decision, its event and the passport it is about.
VerdictInv ==
  /\ approval = None => \A i \in DOMAIN events : events[i].kind \notin Decision
  /\ approval # None =>
       /\ IsPassport(approval.bound)
       /\ \E i \in DOMAIN events :
            /\ events[i].kind = approval.decision
            /\ Len(approval.bound.audit_log_hash) < i
            /\ \A j \in DOMAIN events : events[j].kind \in Decision => j = i

\* The order in which the rows of a run appear, and what was decided.
DecisionInv ==
  /\ results \subseteq boards
  /\ boards # {} => status # "absent"
  /\ passports # <<>> => results # {}
  /\ VerdictInv

IInv ==
  /\ TypeOK /\ LogInv /\ SealInv /\ RequestInv /\ DecisionInv
  /\ SubmissionInv /\ ReceiptIsBacked

=============================================================================
