----------------------------- MODULE AuditedRun -----------------------------
(***************************************************************************)
(* What the trust core promises about one audit run, with every operation  *)
(* a single step: no handler, no read that can be stale, no row key, no    *)
(* transaction.  TrustCore implements it.                                  *)
(*                                                                         *)
(* The promise is weaker than the documentation in one place: a decision   *)
(* is bound to SOME frozen passport, not to the latest one.                *)
(***************************************************************************)
EXTENDS Naturals, Sequences, RunLifecycle

CONSTANTS Versions, None

VARIABLES
  status,    \* the status of the run
  log,       \* the kinds of its events
  boards,    \* the frozen evidence boards
  scored,    \* the boards with check results
  seals,     \* for each passport, how much of the log it commits to
  verdict,   \* the human decision and the passport it is about
  granted,   \* whether the single permission to submit has been used
  sent,      \* passports handed to the network, not executed yet
  recorded,  \* passports the registry has recorded
  attested   \* whether the run has a receipt

vars == <<status, log, boards, scored, seals, verdict, granted, sent,
          recorded, attested>>

Verdict == [decision: Decision, number: Nat]

Log(kind) == log' = Append(log, kind)

Create ==
  /\ status = "absent" /\ log = <<>>
  /\ status' = "pending" /\ Log("run_created")
  /\ UNCHANGED <<boards, scored, seals, verdict, granted, sent, recorded, attested>>

\* A client event is accepted in the status it is accepted in.
ClientEvent(kind) ==
  /\ \E p \in EventProjection[kind] :
       /\ p[1] = status
       /\ status' = Coalesce(p[2], status)
  /\ Log(kind)
  /\ UNCHANGED <<boards, scored, seals, verdict, granted, sent, recorded, attested>>

FreezeBoard(v) ==
  /\ status # "absent"
  /\ v \notin boards
  /\ boards' = boards \cup {v}
  /\ Log("evidence_board_frozen")
  /\ UNCHANGED <<status, scored, seals, verdict, granted, sent, recorded, attested>>

Score(v) ==
  /\ v \in boards \ scored
  /\ scored' = scored \cup {v}
  /\ Log("score_changed")
  /\ UNCHANGED <<status, boards, seals, verdict, granted, sent, recorded, attested>>

\* The new passport commits to the log up to and including its own event.
Seal ==
  /\ scored # {}
  /\ Log("provenance_frozen")
  /\ seals' = Append(seals, Len(log'))
  /\ UNCHANGED <<status, boards, scored, verdict, granted, sent, recorded, attested>>

Decide(d) ==
  /\ status = "waiting_approval"
  /\ verdict = None
  /\ \E n \in DOMAIN seals : verdict' = [decision |-> d, number |-> n]
  /\ status' = NextStatus[d]
  /\ Log(d)
  /\ UNCHANGED <<boards, scored, seals, granted, sent, recorded, attested>>

\* Permission to submit is granted once, under a testnet approval ..
Grant ==
  /\ verdict # None /\ verdict.decision = "approve_testnet"
  /\ ~granted /\ granted' = TRUE
  /\ UNCHANGED <<status, log, boards, scored, seals, verdict, sent, recorded, attested>>

\* .. and lets the approved passport be sent once.
Send ==
  /\ granted /\ sent = {} /\ recorded = <<>>
  /\ sent' = {verdict.number}
  /\ UNCHANGED <<status, log, boards, scored, seals, verdict, granted, recorded, attested>>

Record ==
  /\ \E n \in sent : sent' = sent \ {n} /\ recorded' = Append(recorded, n)
  /\ UNCHANGED <<status, log, boards, scored, seals, verdict, granted, attested>>

Lose ==
  /\ \E n \in sent : sent' = sent \ {n}
  /\ UNCHANGED <<status, log, boards, scored, seals, verdict, granted, recorded, attested>>

\* The receipt, its events and the success of the run come together, and only
\* for what the registry has recorded.
Attest ==
  /\ status = "running" /\ recorded # <<>> /\ ~attested
  /\ status' = "success" /\ attested' = TRUE
  /\ log' = log \o <<"attestation_submitted", "attestation_confirmed">>
  /\ UNCHANGED <<boards, scored, seals, verdict, granted, sent, recorded>>

Init ==
  /\ status = "absent" /\ log = <<>>
  /\ boards = {} /\ scored = {} /\ seals = <<>>
  /\ verdict = None /\ granted = FALSE
  /\ sent = {} /\ recorded = <<>> /\ attested = FALSE

Next ==
  \/ Create \/ Seal \/ Grant \/ Send \/ Record \/ Lose \/ Attest
  \/ \E kind \in ClientKinds : ClientEvent(kind)
  \/ \E v \in Versions : FreezeBoard(v) \/ Score(v)
  \/ \E d \in Decision : Decide(d)

Spec == Init /\ [][Next]_vars

=============================================================================
