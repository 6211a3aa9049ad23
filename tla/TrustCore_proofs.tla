-------------------------- MODULE TrustCore_proofs --------------------------
(***************************************************************************)
(* Proofs about TrustCore, for any number of requests, versions, events    *)
(* and passports: its invariants and action properties, then that it keeps *)
(* its promise, AuditedRun, and that the log explains the status.          *)
(***************************************************************************)
EXTENDS TrustCoreRefines, AuditTrail, TrustCoreInvariant, WellFoundedInduction, TLAPS

-----------------------------------------------------------------------------
(* The event log.                                                          *)

\* The row that extends a log by one event.
Entry(log, kind) ==
  [sequence |-> Len(log) + 1, kind |-> kind, prev |-> PrevHash(log, Len(log) + 1)]

\* The end of a log has a hash.
LEMMA PrevHashType ==
  ASSUME NEW log \in Seq(Event)
  PROVE  PrevHash(log, Len(log) + 1) \in Hash
<1>1. CASE log = <<>>
  BY <1>1 DEF PrevHash, Hash, ZeroHash
<1>2. CASE log # <<>>
  <2>1. Len(log) \in Nat \ {0} /\ log[Len(log)] \in Event
    BY <1>2
  <2>2. EventHash(log[Len(log)]) \in Hash
    BY <2>1 DEF Event, EventHash, Hash
  <2>. QED  BY <2>1, <2>2 DEF PrevHash
<1>. QED  BY <1>1, <1>2

\* An INSERT that survives the unique key on (run_id, sequence) extends the
\* chain, whether or not the read of its end failed.
LEMMA InsertedExtends ==
  ASSUME NEW log \in Seq(Event), Linked(log), NEW kind \in Kinds,
         NEW new \in Inserted(log, kind)
  PROVE  /\ new = Append(log, Entry(log, kind))
         /\ Entry(log, kind) \in Event
         /\ new \in Seq(Event)
         /\ Linked(new)
<1>1. PICK s \in NextSlots(log) :
        /\ SequenceIsFree(log, s.sequence)
        /\ new = Append(log, [sequence |-> s.sequence, kind |-> kind, prev |-> s.prev])
  BY DEF Inserted
<1>2. s = [sequence |-> Len(log) + 1, prev |-> PrevHash(log, Len(log) + 1)]
  <2>1. CASE s = [sequence |-> 1, prev |-> ZeroHash]
    <3>1. log = <<>>
      BY <1>1, <2>1 DEF SequenceIsFree, Linked
    <3>. QED  BY <2>1, <3>1 DEF PrevHash
  <2>. QED  BY <1>1, <2>1 DEF NextSlots
<1>3. new = Append(log, Entry(log, kind))
  BY <1>1, <1>2 DEF Entry
<1>4. Entry(log, kind) \in Event
  <2>1. PrevHash(log, Len(log) + 1) \in Hash /\ Len(log) + 1 \in Nat
    BY PrevHashType
  <2>. QED  BY <2>1 DEF Entry, Event
<1>5. new \in Seq(Event)
  BY <1>3, <1>4
<1>6. Linked(new)
  <2> SUFFICES ASSUME NEW i \in 1 .. Len(log) + 1
               PROVE  new[i].sequence = i /\ new[i].prev = PrevHash(new, i)
    BY <1>3, <1>4 DEF Linked
  <2>1. CASE i \in 1 .. Len(log)
    <3>1. new[i] = log[i] /\ (i # 1 => new[i - 1] = log[i - 1])
      BY <1>3, <1>4, <2>1
    <3>. QED  BY <2>1, <3>1 DEF Linked, PrevHash
  <2>2. CASE i = Len(log) + 1
    <3>1. new[i] = Entry(log, kind) /\ (i # 1 => new[i - 1] = log[i - 1])
      BY <1>3, <1>4, <2>2
    <3>. QED  BY <2>2, <3>1 DEF Entry, PrevHash
  <2>. QED  BY <2>1, <2>2
<1>. QED  BY <1>3, <1>4, <1>5, <1>6

\* A log that another one extends, by events of the given kinds only.
Grows(old, new, kinds) ==
  /\ new \in Seq(Event)
  /\ Linked(new)
  /\ \A i \in DOMAIN new : Len(new[i].prev) = i - 1
  /\ Len(new) > Len(old)
  /\ \A i \in 1 .. Len(old) : new[i] = old[i]
  /\ \A i \in Len(old) + 1 .. Len(new) : new[i].kind \in kinds

\* An insert makes the log longer by one event of its kind.
LEMMA InsertGrows ==
  ASSUME NEW log \in Seq(Event), Linked(log),
         \A i \in DOMAIN log : Len(log[i].prev) = i - 1,
         NEW kind \in Kinds, NEW new \in Inserted(log, kind)
  PROVE  Grows(log, new, {kind}) /\ Len(new) = Len(log) + 1
<1>1. /\ new = Append(log, Entry(log, kind))
      /\ Entry(log, kind) \in Event
      /\ new \in Seq(Event)
      /\ Linked(new)
  BY InsertedExtends
<1>2. /\ Len(new) = Len(log) + 1
      /\ \A i \in 1 .. Len(log) : new[i] = log[i]
      /\ new[Len(log) + 1] = Entry(log, kind)
  BY <1>1
<1>3. Len(Entry(log, kind).prev) = Len(log)
  <2>1. CASE log = <<>>
    BY <2>1 DEF Entry, PrevHash, ZeroHash
  <2>2. CASE log # <<>>
    <3>1. /\ Len(log) \in DOMAIN log /\ Len(log) \in Nat /\ Len(log) + 1 # 1
          /\ log[Len(log)] \in Event
      BY <2>2
    <3>2. /\ log[Len(log)].prev \in Seq(Kinds)
          /\ log[Len(log)].kind \in Kinds
          /\ Len(log[Len(log)].prev) = Len(log) - 1
      BY <3>1 DEF Event, Hash
    <3>3. Entry(log, kind).prev = Append(log[Len(log)].prev, log[Len(log)].kind)
      BY <3>1 DEF Entry, PrevHash, EventHash
    <3>. QED  BY <3>1, <3>2, <3>3
  <2>. QED  BY <2>1, <2>2
<1>4. \A i \in DOMAIN new : Len(new[i].prev) = i - 1
  <2> SUFFICES ASSUME NEW i \in 1 .. Len(log) + 1
               PROVE  Len(new[i].prev) = i - 1
    BY <1>1, <1>2
  <2>1. CASE i \in 1 .. Len(log)
    BY <1>2, <2>1
  <2>2. CASE i = Len(log) + 1
    BY <1>2, <1>3, <2>2
  <2>. QED  BY <2>1, <2>2
<1>5. Entry(log, kind).kind = kind
  BY DEF Entry
<1>6. \A i \in Len(log) + 1 .. Len(new) : new[i].kind \in {kind}
  BY <1>2, <1>5
<1>. QED  BY <1>1, <1>2, <1>4, <1>6 DEF Grows

\* What a log grows by is new events only.
LEMMA OldEvents ==
  ASSUME NEW old \in Seq(Event), NEW new, NEW kinds, Grows(old, new, kinds)
  PROVE  /\ \A i \in DOMAIN old : i \in DOMAIN new /\ new[i] = old[i]
         /\ \A i \in DOMAIN new : i \in DOMAIN old \/ new[i].kind \in kinds
<1>1. new \in Seq(Event) /\ Len(old) \in Nat /\ Len(new) \in Nat /\ Len(old) < Len(new)
  BY DEF Grows
<1>2. DOMAIN old = 1 .. Len(old) /\ DOMAIN new = 1 .. Len(new)
  BY <1>1
<1>. QED  BY <1>1, <1>2 DEF Grows

-----------------------------------------------------------------------------
(* Steps.                                                                  *)

\* The kinds of events that each transaction may add to the log.
LEMMA CommitGrows ==
  ASSUME TypeOK, LogInv, NEW h \in Handlers
  PROVE  /\ CommitAppend(h) => Grows(events, events', ClientKinds)
         /\ CommitBoard(h) => Grows(events, events', {"evidence_board_frozen"})
         /\ CommitResults(h) => Grows(events, events', {"score_changed"})
         /\ CommitPassport(h) => /\ Grows(events, events', {"provenance_frozen"})
                                 /\ Len(events') = Len(events) + 1
         /\ CommitApproval(h) => /\ Grows(events, events', {handler[h].decision})
                                 /\ Len(events') = Len(events) + 1
         /\ CommitReceipt(h) =>
              /\ Grows(events, events', {"attestation_submitted", "attestation_confirmed"})
              /\ events'[Len(events')].kind = "attestation_confirmed"
<1>. USE DEF LogInv
<1>l. handler[h] \in Local
  BY DEF TypeOK
<1>t. events \in Seq(Event)
  BY DEF TypeOK
<1>1. CommitAppend(h) => Grows(events, events', ClientKinds)
  <2>1. SUFFICES ASSUME CommitAppend(h)
                 PROVE  Grows(events, events', ClientKinds)
    OBVIOUS
  <2>2. handler[h].kind \in ClientKinds
    BY <1>l, <2>1 DEF CommitAppend, At, Local
  <2>3. Grows(events, events', {handler[h].kind})
    BY <1>t, <2>1, <2>2, InsertGrows DEF CommitAppend, Kinds
  <2>. QED  BY <2>2, <2>3 DEF Grows
<1>2. CommitBoard(h) => Grows(events, events', {"evidence_board_frozen"})
  BY <1>t, InsertGrows DEF CommitBoard, Kinds, CoreKinds
<1>3. CommitResults(h) => Grows(events, events', {"score_changed"})
  BY <1>t, InsertGrows DEF CommitResults, Kinds, CoreKinds
<1>4. CommitPassport(h) => /\ Grows(events, events', {"provenance_frozen"})
                           /\ Len(events') = Len(events) + 1
  BY <1>t, InsertGrows DEF CommitPassport, Kinds, CoreKinds
<1>5. CommitApproval(h) => /\ Grows(events, events', {handler[h].decision})
                           /\ Len(events') = Len(events) + 1
  <2>1. SUFFICES ASSUME CommitApproval(h)
                 PROVE  /\ Grows(events, events', {handler[h].decision})
                        /\ Len(events') = Len(events) + 1
    OBVIOUS
  <2>2. handler[h].decision \in Decision
    BY <1>l, <2>1 DEF CommitApproval, At, Local
  <2>. QED  BY <1>t, <2>1, <2>2, InsertGrows DEF CommitApproval, Kinds, CoreKinds
<1>6. CommitReceipt(h) =>
        /\ Grows(events, events', {"attestation_submitted", "attestation_confirmed"})
        /\ events'[Len(events')].kind = "attestation_confirmed"
  <2>1. SUFFICES ASSUME CommitReceipt(h)
                 PROVE  /\ Grows(events, events', {"attestation_submitted", "attestation_confirmed"})
                        /\ events'[Len(events')].kind = "attestation_confirmed"
    OBVIOUS
  <2>2. PICK log \in Inserted(events, "attestation_submitted") :
          events' \in Inserted(log, "attestation_confirmed")
    BY <2>1 DEF CommitReceipt
  <2>3. Grows(events, log, {"attestation_submitted"}) /\ Len(log) = Len(events) + 1
    BY <1>t, InsertGrows DEF Kinds, CoreKinds
  <2>4. /\ log \in Seq(Event) /\ Linked(log)
        /\ \A i \in DOMAIN log : Len(log[i].prev) = i - 1
    BY <2>3 DEF Grows
  <2>5. "attestation_confirmed" \in Kinds
    BY DEF Kinds, CoreKinds
  <2>6. Grows(log, events', {"attestation_confirmed"}) /\ Len(events') = Len(log) + 1
    BY <2>2, <2>4, <2>5, InsertGrows
  <2>7. Len(events) \in Nat /\ Len(events') = Len(events) + 2
    BY <1>t, <2>3, <2>6
  <2>8. \A i \in 1 .. Len(events) : events'[i] = events[i]
    BY <2>3, <2>6, <2>7 DEF Grows
  <2>9. /\ events'[Len(events) + 1].kind = "attestation_submitted"
        /\ events'[Len(events) + 2].kind = "attestation_confirmed"
    BY <2>3, <2>6, <2>7 DEF Grows
  <2>10. \A i \in Len(events) + 1 .. Len(events') :
           events'[i].kind \in {"attestation_submitted", "attestation_confirmed"}
    <3> SUFFICES ASSUME NEW i \in Len(events) + 1 .. Len(events')
                 PROVE  events'[i].kind \in {"attestation_submitted", "attestation_confirmed"}
      OBVIOUS
    <3>1. i = Len(events) + 1 \/ i = Len(events) + 2
      BY <2>7
    <3>. QED  BY <2>9, <3>1
  <2>11. /\ events' \in Seq(Event) /\ Linked(events')
         /\ \A i \in DOMAIN events' : Len(events'[i].prev) = i - 1
    BY <2>6 DEF Grows
  <2>. QED  BY <2>7, <2>8, <2>9, <2>10, <2>11 DEF Grows
<1>. QED  BY <1>1, <1>2, <1>3, <1>4, <1>5, <1>6

-----------------------------------------------------------------------------
(* Requests.                                                               *)

\* What a request holds at each of its steps.
LEMMA LocalType ==
  ASSUME NEW l \in Local
  PROVE  /\ l.at = "append" => /\ l.kind \in ClientKinds /\ l.from \in RunStatus
                               /\ l.to \in RunStatus \cup {Keep}
         /\ l.at \in {"board", "results", "draft", "seal"} => l.version \in Versions
         /\ l.at = "seal" => l.sequence \in Nat
         /\ l.at \in {"review", "decide"} => l.decision \in Decision
         /\ l.at \in {"decide", "claim", "claimed", "awaiting", "record"} =>
              l.bound \in Passport
BY DEF Local

\* A handler moves on and the others stay.
LEMMA GotoType ==
  ASSUME handler \in [Handlers -> Local], NEW h \in Handlers, NEW l \in Local,
         Goto(h, l)
  PROVE  /\ handler' \in [Handlers -> Local]
         /\ handler'[h] = l
         /\ \A g \in Handlers \ {h} : handler'[g] = handler[g]
BY DEF Goto

\* A handler is done and the others stay.
LEMMA ReturnType ==
  ASSUME handler \in [Handlers -> Local], NEW h \in Handlers, Return(h)
  PROVE  /\ handler' \in [Handlers -> Local]
         /\ handler'[h] = Idle
         /\ \A g \in Handlers \ {h} : handler'[g] = handler[g]
<1>1. Idle \in Local
  BY DEF Idle, Local
<1>. QED  BY <1>1, GotoType DEF Return

\* A projection is a pair of a status and a status or none.
LEMMA ProjectionType ==
  ASSUME NEW k \in ClientKinds, NEW p \in EventProjection[k]
  PROVE  /\ p = <<p[1], p[2]>> /\ p[1] \in RunStatus
         /\ p[2] \in RunStatus \cup {Keep}
<1>1. CASE k = "run_failed"
  <2>1. PICK s \in RunStatus \ Terminal : p = <<s, "failed">>
    BY <1>1 DEF EventProjection
  <2>. QED  BY <2>1 DEF RunStatus, Terminal
<1>2. CASE k = "note"
  <2>1. PICK s \in RunStatus : p = <<s, Keep>>
    BY <1>2 DEF EventProjection
  <2>. QED  BY <2>1
<1>3. CASE k \in {"node_started", "node_finished", "approval_required", "run_success"}
  <2>1. p \in {<<"pending", "running">>, <<"running", Keep>>,
               <<"running", "waiting_approval">>, <<"running", "success">>}
    BY <1>3 DEF EventProjection
  <2>. QED  BY <2>1 DEF RunStatus, Terminal
<1>. QED  BY <1>1, <1>2, <1>3 DEF ClientKinds

-----------------------------------------------------------------------------
(* Types.                                                                  *)

\* Steps that only move a request keep the types.
LEMMA MoveType ==
  ASSUME TypeOK, NEW h \in Handlers, NEW l \in Local, Goto(h, l),
         UNCHANGED <<ledger, freezes, decisions, network>>
  PROVE  TypeOK'
<1>1. handler' \in [Handlers -> Local]
  BY GotoType DEF TypeOK
<1>. QED  BY <1>1 DEF TypeOK, ledger, freezes, decisions, network

\* The last event of a log that has grown.
LEMMA LastEvent ==
  ASSUME TypeOK, NEW kinds, Grows(events, events', kinds)
  PROVE  /\ events' \in Seq(Event)
         /\ Len(events') \in DOMAIN events'
         /\ EventHash(events'[Len(events')]) \in Hash
         /\ Len(EventHash(events'[Len(events')])) = Len(events')
<1>1. /\ events' \in Seq(Event) /\ Len(events') \in Nat \ {0}
      /\ Len(events') \in DOMAIN events'
  BY DEF Grows, TypeOK
<1>2. /\ events'[Len(events')] \in Event
      /\ Len(events'[Len(events')].prev) = Len(events') - 1
  BY <1>1 DEF Grows
<1>3. /\ events'[Len(events')].prev \in Seq(Kinds)
      /\ events'[Len(events')].kind \in Kinds
  BY <1>2 DEF Event, Hash
<1>4. EventHash(events'[Len(events')]) =
        Append(events'[Len(events')].prev, events'[Len(events')].kind)
  BY DEF EventHash
<1>. QED  BY <1>1, <1>2, <1>3, <1>4 DEF Hash

\* The next passport has a number.
LEMMA PassportSequenceType ==
  ASSUME TypeOK
  PROVE  NextPassportSequence \in Nat
<1>1. CASE passports = <<>>
  BY <1>1 DEF NextPassportSequence
<1>2. CASE passports # <<>>
  <2>1. passports[Len(passports)] \in Passport
    BY <1>2 DEF TypeOK
  <2>. QED  BY <1>2, <2>1 DEF NextPassportSequence, Passport
<1>. QED  BY <1>1, <1>2

\* Transactions of the trust core keep the types.
LEMMA CommitType ==
  ASSUME TypeOK, LogInv, NEW h \in Handlers,
         \/ CommitAppend(h) \/ CommitBoard(h) \/ CommitResults(h)
         \/ CommitPassport(h) \/ CommitApproval(h) \/ CommitReceipt(h)
  PROVE  TypeOK'
<1>l. handler[h] \in Local
  BY DEF TypeOK
<1>h. handler' \in [Handlers -> Local]
  BY ReturnType DEF TypeOK, CommitAppend, CommitBoard, CommitResults, CommitPassport,
                    CommitApproval, CommitReceipt
<1>e. events' \in Seq(Event)
  BY CommitGrows DEF Grows
<1>1. CASE CommitAppend(h)
  <2>1. handler[h].to \in RunStatus \cup {Keep} /\ handler[h].from \in RunStatus
    BY <1>1, <1>l, LocalType DEF CommitAppend, At
  <2>2. status' \in RunStatus
    BY <1>1, <2>1 DEF CommitAppend, Coalesce
  <2>. QED  BY <1>1, <1>h, <1>e, <2>2 DEF TypeOK, CommitAppend, freezes, decisions, network
<1>2. CASE CommitBoard(h)
  <2>1. handler[h].version \in Versions
    BY <1>2, <1>l, LocalType DEF CommitBoard, At
  <2>. QED  BY <1>2, <1>h, <1>e, <2>1 DEF TypeOK, CommitBoard, decisions, network
<1>3. CASE CommitResults(h)
  <2>1. handler[h].version \in Versions
    BY <1>3, <1>l, LocalType DEF CommitResults, At
  <2>. QED  BY <1>3, <1>h, <1>e, <2>1 DEF TypeOK, CommitResults, decisions, network
<1>4. CASE CommitPassport(h)
  <2>1. handler[h].version \in Versions /\ handler[h].sequence \in Nat
    BY <1>4, <1>l, LocalType DEF CommitPassport, At
  <2>2. EventHash(events'[Len(events')]) \in Hash
    BY <1>4, CommitGrows, LastEvent
  <2>3. [sequence |-> handler[h].sequence, version |-> handler[h].version,
         audit_log_hash |-> EventHash(events'[Len(events')])] \in Passport
    BY <2>1, <2>2 DEF Passport
  <2>4. passports' \in Seq(Passport)
    BY <1>4, <2>3 DEF CommitPassport, TypeOK
  <2>. QED  BY <1>4, <1>h, <1>e, <2>4 DEF TypeOK, CommitPassport, decisions, network
<1>5. CASE CommitApproval(h)
  <2>1. handler[h].decision \in Decision /\ handler[h].bound \in Passport
    BY <1>5, <1>l, LocalType DEF CommitApproval, At
  <2>2. status' \in RunStatus
    BY <1>5, <2>1 DEF CommitApproval, NextStatus, Decision, RunStatus, Terminal
  <2>3. approval' \in Approval
    BY <1>5, <2>1 DEF CommitApproval, Approval
  <2>. QED  BY <1>5, <1>h, <1>e, <2>2, <2>3
            DEF TypeOK, CommitApproval, Optional, freezes, network
<1>6. CASE CommitReceipt(h)
  <2>1. handler[h].bound \in Passport
    BY <1>6, <1>l, LocalType DEF CommitReceipt, At
  <2>2. receipt' \in Tx
    BY <1>6, <2>1 DEF CommitReceipt, Tx
  <2>. QED  BY <1>6, <1>h, <1>e, <2>2
            DEF TypeOK, CommitReceipt, Optional, RunStatus, Terminal, freezes, network
<1>. QED  BY <1>1, <1>2, <1>3, <1>4, <1>5, <1>6

\* The actions in which a request only reads.
Moves(h) ==
  \/ BeginAppend(h)
  \/ \E v \in Versions : BeginBoard(h, v) \/ BeginResults(h, v) \/ BeginPassport(h, v)
  \/ ReadPassportSequence(h)
  \/ \E d \in Decision : BeginApproval(h, d)
  \/ BindApproval(h) \/ BeginAttestation(h) \/ LoadApproval(h)
  \/ ConfirmTransaction(h) \/ Abandon(h)

\* What such an action reads is true when it is read.
LEMMA MoveStep ==
  ASSUME TypeOK, SealInv, RequestInv, NEW h \in Handlers, Moves(h)
  PROVE  /\ UNCHANGED <<ledger, freezes, decisions, network>>
         /\ \E l \in Local : Goto(h, l) /\ Request(h, l)
<1>l. handler[h] \in Local /\ Request(h, handler[h])
  BY DEF TypeOK, RequestInv
<1>r. UNCHANGED <<ledger, freezes, decisions, network>>
  BY DEF Moves, BeginAppend, BeginBoard, BeginResults, BeginPassport, ReadPassportSequence,
         BeginApproval, BindApproval, BeginAttestation, LoadApproval, ConfirmTransaction,
         Abandon
<1>1. CASE BeginAppend(h)
  <2>1. PICK k \in ClientEvents : \E p \in EventProjection[k] :
          Goto(h, [at |-> "append", kind |-> k, from |-> p[1], to |-> p[2]])
    BY <1>1 DEF BeginAppend
  <2>2. PICK p \in EventProjection[k] :
          Goto(h, [at |-> "append", kind |-> k, from |-> p[1], to |-> p[2]])
    BY <2>1
  <2>3. /\ k \in ClientKinds /\ p = <<p[1], p[2]>>
        /\ p[1] \in RunStatus /\ p[2] \in RunStatus \cup {Keep}
    BY ConstantsAssumption, ProjectionType
  <2>4. [at |-> "append", kind |-> k, from |-> p[1], to |-> p[2]] \in Local
    BY <2>3 DEF Local
  <2>5. Request(h, [at |-> "append", kind |-> k, from |-> p[1], to |-> p[2]])
    BY <2>3 DEF Request
  <2>. QED  BY <1>r, <2>2, <2>4, <2>5
<1>2. ASSUME NEW v \in Versions, BeginBoard(h, v)
      PROVE  \E l \in Local : Goto(h, l) /\ Request(h, l)
  <2>1. /\ [at |-> "board", version |-> v] \in Local
        /\ Request(h, [at |-> "board", version |-> v])
    BY <1>2 DEF Local, BeginBoard, Request
  <2>. QED  BY <1>2, <2>1 DEF BeginBoard
<1>3. ASSUME NEW v \in Versions, BeginResults(h, v)
      PROVE  \E l \in Local : Goto(h, l) /\ Request(h, l)
  <2>1. /\ [at |-> "results", version |-> v] \in Local
        /\ Request(h, [at |-> "results", version |-> v])
    BY <1>3 DEF Local, BeginResults, Request
  <2>. QED  BY <1>3, <2>1 DEF BeginResults
<1>4. ASSUME NEW v \in Versions, BeginPassport(h, v)
      PROVE  \E l \in Local : Goto(h, l) /\ Request(h, l)
  <2>1. /\ [at |-> "draft", version |-> v] \in Local
        /\ Request(h, [at |-> "draft", version |-> v])
    BY <1>4 DEF Local, BeginPassport, Request
  <2>. QED  BY <1>4, <2>1 DEF BeginPassport
<1>5. CASE ReadPassportSequence(h)
  <2>1. handler[h].version \in Versions /\ handler[h].version \in boards \cap results
    BY <1>5, <1>l, LocalType DEF ReadPassportSequence, At, Request
  <2>2. NextPassportSequence \in 1 .. Len(passports) + 1
    <3>1. passports \in Seq(Passport)
      BY DEF TypeOK
    <3>2. CASE passports # <<>>
      <4>1. Len(passports) \in DOMAIN passports /\ Len(passports) \in Nat \ {0}
        BY <3>1, <3>2
      <4>2. passports[Len(passports)].sequence = Len(passports)
        BY <4>1 DEF SealInv
      <4>. QED  BY <3>2, <4>1, <4>2 DEF NextPassportSequence
    <3>3. CASE passports = <<>>
      BY <3>3 DEF NextPassportSequence
    <3>. QED  BY <3>2, <3>3
  <2> DEFINE l == [at |-> "seal", version |-> handler[h].version,
                   sequence |-> NextPassportSequence]
  <2>3. l \in Local
    BY <2>1, PassportSequenceType DEF Local
  <2>4. Request(h, l)
    BY <2>1, <2>2 DEF Request
  <2>. QED  BY <1>5, <2>3, <2>4 DEF ReadPassportSequence
<1>6. ASSUME NEW d \in Decision, BeginApproval(h, d)
      PROVE  \E l \in Local : Goto(h, l) /\ Request(h, l)
  <2>1. /\ [at |-> "review", decision |-> d] \in Local
        /\ Request(h, [at |-> "review", decision |-> d])
    BY <1>6 DEF Local, BeginApproval, Request
  <2>. QED  BY <1>6, <2>1 DEF BeginApproval
<1>7. CASE BindApproval(h)
  <2>1. handler[h].decision \in Decision /\ status # "absent"
    BY <1>7, <1>l, LocalType DEF BindApproval, At, Request
  <2>2. passports[Len(passports)] \in Passport /\ IsPassport(passports[Len(passports)])
    BY <1>7 DEF BindApproval, TypeOK, IsPassport
  <2> DEFINE l == [at |-> "decide", decision |-> handler[h].decision,
                   bound |-> passports[Len(passports)]]
  <2>3. l \in Local
    BY <2>1, <2>2 DEF Local
  <2>4. Request(h, l)
    BY <2>1, <2>2 DEF Request
  <2>. QED  BY <1>7, <2>3, <2>4 DEF BindApproval
<1>8. CASE BeginAttestation(h)
  <2>1. [at |-> "attest"] \in Local /\ Request(h, [at |-> "attest"])
    BY <1>8 DEF Local, BeginAttestation, Request
  <2>. QED  BY <1>8, <2>1 DEF BeginAttestation
<1>9. CASE LoadApproval(h)
  <2>1. PICK i \in DOMAIN passports : passports[i] = approval.bound
    BY <1>9 DEF LoadApproval
  <2>2. approval.bound \in Passport
    BY <2>1 DEF TypeOK
  <2>3. [at |-> "claim", bound |-> approval.bound] \in Local
    BY <2>2 DEF Local
  <2>4. Request(h, [at |-> "claim", bound |-> approval.bound])
    BY <1>9 DEF LoadApproval, Request
  <2>. QED  BY <1>9, <2>3, <2>4 DEF LoadApproval
<1>10. CASE ConfirmTransaction(h)
  <2>1. handler[h].bound \in Passport
    BY <1>10, <1>l, LocalType DEF ConfirmTransaction, At
  <2>2. [at |-> "record", bound |-> handler[h].bound] \in Local
    BY <2>1 DEF Local
  <2>3. Request(h, [at |-> "record", bound |-> handler[h].bound])
    BY <1>10, <1>l DEF ConfirmTransaction, At, Request
  <2>. QED  BY <1>10, <2>2, <2>3 DEF ConfirmTransaction
<1>11. CASE Abandon(h)
  <2>1. Idle \in Local /\ Request(h, Idle)
    BY DEF Idle, Local, Request
  <2>. QED  BY <1>11, <2>1 DEF Abandon, Return
<1>. QED  BY <1>r, <1>1, <1>2, <1>3, <1>4, <1>5, <1>6, <1>7, <1>8, <1>9, <1>10, <1>11
             DEF Moves

\* The transactions on the rows of a run.
Commits(h) ==
  \/ CommitAppend(h) \/ CommitBoard(h) \/ CommitResults(h)
  \/ CommitPassport(h) \/ CommitApproval(h) \/ CommitReceipt(h)

\* The steps, by what kind of row they change.
LEMMA StepCases ==
  ASSUME [Next]_vars
  PROVE  \/ CreateRun
         \/ \E h \in Handlers : Moves(h) \/ Commits(h) \/ ClaimAttempt(h) \/ SendTransaction(h)
         \/ \E t \in mempool : RecordPassport(t) \/ DropTransaction(t)
         \/ UNCHANGED vars
BY DEF Next, Moves, Commits

\* Every step keeps the types.
LEMMA TypeStep ==
  ASSUME TypeOK, LogInv, SealInv, RequestInv, [Next]_vars
  PROVE  TypeOK'
<1>c. CASE CreateRun
  <2>1. "run_created" \in Kinds /\ ZeroHash \in Hash
    BY DEF Kinds, CoreKinds, ZeroHash, Hash
  <2>2. [sequence |-> 1, kind |-> "run_created", prev |-> ZeroHash] \in Event
    BY <2>1 DEF Event
  <2>3. events' \in Seq(Event)
    BY <1>c, <2>2 DEF CreateRun
  <2>. QED  BY <1>c, <2>3
            DEF CreateRun, TypeOK, RunStatus, Terminal, freezes, decisions, network
<1>h. ASSUME NEW h \in Handlers, Moves(h)
      PROVE  TypeOK'
  BY <1>h, MoveStep, MoveType
<1>k. ASSUME NEW h \in Handlers, Commits(h)
      PROVE  TypeOK'
  BY <1>k, CommitType DEF Commits
<1>n. ASSUME NEW h \in Handlers, ClaimAttempt(h) \/ SendTransaction(h)
      PROVE  TypeOK'
  <2>1. handler[h] \in Local /\ handler[h].bound \in Passport
    <3>1. handler[h] \in Local
      BY DEF TypeOK
    <3>. QED  BY <1>n, <3>1, LocalType DEF ClaimAttempt, SendTransaction, At
  <2>2. /\ [at |-> "claimed", bound |-> handler[h].bound] \in Local
        /\ [at |-> "awaiting", bound |-> handler[h].bound] \in Local
    BY <2>1 DEF Local
  <2>3. handler' \in [Handlers -> Local]
    BY <1>n, <2>2, GotoType DEF ClaimAttempt, SendTransaction, TypeOK
  <2>4. [sender |-> h, bound |-> handler[h].bound] \in Tx
    BY <2>1 DEF Tx
  <2>5. CASE ClaimAttempt(h)
    BY <2>3, <2>5 DEF ClaimAttempt, TypeOK, Optional, ledger, freezes, network
  <2>6. CASE SendTransaction(h)
    BY <2>3, <2>4, <2>6 DEF SendTransaction, TypeOK, ledger, freezes, decisions
  <2>. QED  BY <1>n, <2>5, <2>6
<1>t. ASSUME NEW t \in mempool, RecordPassport(t) \/ DropTransaction(t)
      PROVE  TypeOK'
  <2>1. t \in Tx
    BY DEF TypeOK
  <2>2. mempool' \subseteq Tx /\ chain' \in Seq(Tx)
    <3>1. mempool \subseteq Tx /\ chain \in Seq(Tx)
      BY DEF TypeOK
    <3>2. CASE RecordPassport(t)
      BY <2>1, <3>1, <3>2 DEF RecordPassport
    <3>3. CASE DropTransaction(t)
      BY <3>1, <3>3 DEF DropTransaction
    <3>. QED  BY <1>t, <3>2, <3>3
  <2>. QED  BY <1>t, <2>2 DEF RecordPassport, DropTransaction, TypeOK, ledger, freezes,
               decisions
<1>u. CASE UNCHANGED vars
  BY <1>u DEF TypeOK, vars
<1>. QED  BY <1>c, <1>h, <1>k, <1>n, <1>t, <1>u, StepCases

-----------------------------------------------------------------------------
(* What no step takes back.                                                *)

\* A projection never leaves a terminal status.
LEMMA ProjectionKeepsTerminal ==
  ASSUME NEW k \in ClientKinds, NEW p \in EventProjection[k], p[1] \in Terminal
  PROVE  p[2] = Keep
<1>1. CASE k = "run_failed"
  <2>1. PICK s \in RunStatus \ Terminal : p = <<s, "failed">>
    BY <1>1 DEF EventProjection
  <2>. QED  BY <2>1
<1>2. CASE k = "note"
  <2>1. PICK s \in RunStatus : p = <<s, Keep>>
    BY <1>2 DEF EventProjection
  <2>. QED  BY <2>1
<1>3. CASE k \in {"node_started", "node_finished", "approval_required", "run_success"}
  <2>1. p \in {<<"pending", "running">>, <<"running", Keep>>,
               <<"running", "waiting_approval">>, <<"running", "success">>}
    BY <1>3 DEF EventProjection
  <2>. QED  BY <2>1 DEF Terminal
<1>. QED  BY <1>1, <1>2, <1>3 DEF ClientKinds

\* The status of a run: it exists for good, and a terminal one is final.
LEMMA StatusStep ==
  ASSUME TypeOK, LogInv, SealInv, RequestInv, [Next]_vars
  PROVE  /\ status # "absent" => status' # "absent"
         /\ status \in Terminal => status' = status
<1>c. CASE CreateRun
  BY <1>c DEF CreateRun, Terminal
<1>h. ASSUME NEW h \in Handlers, Moves(h)
      PROVE  status' = status
  BY <1>h, MoveStep DEF ledger
<1>a. ASSUME NEW h \in Handlers, CommitAppend(h)
      PROVE  status' # "absent" /\ (status \in Terminal => status' = status)
  <2>1. handler[h] \in Local /\ Request(h, handler[h]) /\ handler[h].at = "append"
    BY <1>a DEF TypeOK, RequestInv, CommitAppend, At
  <2>2. /\ handler[h].kind \in ClientKinds /\ handler[h].to \in RunStatus \cup {Keep}
        /\ handler[h].from \in RunStatus
        /\ <<handler[h].from, handler[h].to>> \in EventProjection[handler[h].kind]
    BY <2>1, LocalType DEF Request
  <2>3. status = handler[h].from /\ status' = Coalesce(handler[h].to, status)
    BY <1>a DEF CommitAppend
  <2>4. status \in Terminal => handler[h].to = Keep
    <3>1. \A p \in EventProjection[handler[h].kind] : p[1] \in Terminal => p[2] = Keep
      BY <2>2, ProjectionKeepsTerminal
    <3>. QED  BY <2>2, <2>3, <3>1
  <2>5. status' # "absent"
    BY <2>2, <2>3 DEF Coalesce, RunStatus, Terminal
  <2>. QED  BY <2>3, <2>4, <2>5 DEF Coalesce
<1>k. ASSUME NEW h \in Handlers, Commits(h), ~CommitAppend(h)
      PROVE  /\ status # "absent" => status' # "absent"
             /\ status \in Terminal => status' = status
  <2>1. CASE CommitApproval(h)
    <3>1. handler[h].decision \in Decision
      BY <2>1, LocalType DEF CommitApproval, At, TypeOK
    <3>. QED  BY <2>1, <3>1 DEF CommitApproval, NextStatus, Decision, Terminal
  <2>2. CASE CommitReceipt(h)
    BY <2>2 DEF CommitReceipt, Terminal
  <2>3. CASE CommitBoard(h) \/ CommitResults(h) \/ CommitPassport(h)
    BY <2>3 DEF CommitBoard, CommitResults, CommitPassport
  <2>. QED  BY <1>k, <2>1, <2>2, <2>3 DEF Commits
<1>n. ASSUME NEW h \in Handlers, ClaimAttempt(h) \/ SendTransaction(h)
      PROVE  status' = status
  BY <1>n DEF ClaimAttempt, SendTransaction, ledger
<1>t. ASSUME NEW t \in mempool, RecordPassport(t) \/ DropTransaction(t)
      PROVE  status' = status
  BY <1>t DEF RecordPassport, DropTransaction, ledger
<1>. QED  BY <1>c, <1>h, <1>a, <1>k, <1>n, <1>t, StepCases DEF vars

\* A run begins with the first event of its log.
LEMMA CreateGrows ==
  ASSUME LogInv, CreateRun
  PROVE  Grows(events, events', {"run_created"}) /\ events' # <<>>
<1>1. events = <<>>
  BY DEF CreateRun, LogInv
<1>2. "run_created" \in Kinds /\ ZeroHash \in Hash /\ Len(ZeroHash) = 0
  BY DEF Kinds, CoreKinds, ZeroHash, Hash
<1>3. [sequence |-> 1, kind |-> "run_created", prev |-> ZeroHash] \in Event
  BY <1>2 DEF Event
<1>4. /\ events' = <<[sequence |-> 1, kind |-> "run_created", prev |-> ZeroHash]>>
      /\ events' \in Seq(Event) /\ Len(events') = 1
  BY <1>3 DEF CreateRun
<1>5. Linked(events') /\ \A i \in DOMAIN events' : Len(events'[i].prev) = i - 1
  BY <1>2, <1>4 DEF Linked, PrevHash
<1>. QED  BY <1>1, <1>4, <1>5 DEF Grows

\* The log is append-only.
LEMMA LogGrows ==
  ASSUME TypeOK, LogInv, SealInv, RequestInv, [Next]_vars
  PROVE  events' = events \/ Grows(events, events', Kinds)
<1>c. CASE CreateRun
  <2>1. "run_created" \in Kinds
    BY DEF Kinds, CoreKinds
  <2>. QED  BY <1>c, <2>1, CreateGrows DEF Grows
<1>h. ASSUME NEW h \in Handlers, Moves(h)
      PROVE  events' = events
  BY <1>h, MoveStep DEF ledger
<1>k. ASSUME NEW h \in Handlers, Commits(h)
      PROVE  Grows(events, events', Kinds)
  <2>1. CommitApproval(h) => handler[h].decision \in Decision
    BY LocalType DEF CommitApproval, At, TypeOK
  <2>2. \E kinds \in SUBSET Kinds : Grows(events, events', kinds)
    BY <1>k, <2>1, CommitGrows DEF Commits, Kinds, CoreKinds
  <2>. QED  BY <2>2 DEF Grows
<1>n. ASSUME NEW h \in Handlers, ClaimAttempt(h) \/ SendTransaction(h)
      PROVE  events' = events
  BY <1>n DEF ClaimAttempt, SendTransaction, ledger
<1>t. ASSUME NEW t \in mempool, RecordPassport(t) \/ DropTransaction(t)
      PROVE  events' = events
  BY <1>t DEF RecordPassport, DropTransaction, ledger
<1>. QED  BY <1>c, <1>h, <1>k, <1>n, <1>t, StepCases DEF vars

\* A sequence that another one extends.
Extends(old, new) == \A i \in DOMAIN old : i \in DOMAIN new /\ new[i] = old[i]

\* To append is to extend.
LEMMA AppendExtends ==
  ASSUME NEW S, NEW s \in Seq(S), NEW e
  PROVE  Extends(s, Append(s, e))
BY DEF Extends

\* Rows are only added, and the rows of decisions only once.
RowsGrow ==
  /\ status # "absent" => status' # "absent"
  /\ boards \subseteq boards' /\ results \subseteq results'
  /\ Len(passports) <= Len(passports') /\ Extends(passports, passports')
  /\ approval # None => approval' = approval
  /\ attempt # None => attempt' = attempt
  /\ Extends(chain, chain')

\* No step removes a row or changes one.
LEMMA RowsStep ==
  ASSUME TypeOK, LogInv, SealInv, RequestInv, [Next]_vars
  PROVE  RowsGrow
<1>t. passports \in Seq(Passport) /\ chain \in Seq(Tx)
  BY DEF TypeOK
<1>s. status # "absent" => status' # "absent"
  BY StatusStep
<1>p. \/ passports' = passports
      \/ \E p : passports' = Append(passports, p)
  <2>1. ASSUME NEW h \in Handlers, Moves(h) PROVE passports' = passports
    BY <2>1, MoveStep DEF freezes
  <2>. QED
    BY <2>1, StepCases DEF CreateRun, Commits, CommitAppend, CommitBoard, CommitResults,
       CommitPassport, CommitApproval, CommitReceipt, ClaimAttempt, SendTransaction,
       RecordPassport, DropTransaction, freezes, vars
<1>c. chain' = chain \/ \E t : chain' = Append(chain, t)
  <2>1. ASSUME NEW h \in Handlers, Moves(h) PROVE chain' = chain
    BY <2>1, MoveStep DEF network
  <2>. QED
    BY <2>1, StepCases DEF CreateRun, Commits, CommitAppend, CommitBoard, CommitResults,
       CommitPassport, CommitApproval, CommitReceipt, ClaimAttempt, SendTransaction,
       RecordPassport, DropTransaction, network, vars
<1>b. boards \subseteq boards' /\ results \subseteq results'
  <2>1. ASSUME NEW h \in Handlers, Moves(h) PROVE boards' = boards /\ results' = results
    BY <2>1, MoveStep DEF freezes
  <2>. QED
    BY <2>1, StepCases DEF CreateRun, Commits, CommitAppend, CommitBoard, CommitResults,
       CommitPassport, CommitApproval, CommitReceipt, ClaimAttempt, SendTransaction,
       RecordPassport, DropTransaction, freezes, vars
<1>a. /\ approval # None => approval' = approval
      /\ attempt # None => attempt' = attempt
  <2>1. ASSUME NEW h \in Handlers, Moves(h) PROVE approval' = approval /\ attempt' = attempt
    BY <2>1, MoveStep DEF decisions
  <2>. QED
    BY <2>1, StepCases DEF CreateRun, Commits, CommitAppend, CommitBoard, CommitResults,
       CommitPassport, CommitApproval, CommitReceipt, ClaimAttempt, SendTransaction,
       RecordPassport, DropTransaction, decisions, vars
<1>1. Len(passports) <= Len(passports') /\ Extends(passports, passports')
  <2>1. CASE passports' = passports
    BY <1>t, <2>1 DEF Extends
  <2>2. ASSUME NEW p, passports' = Append(passports, p)
        PROVE  Len(passports) <= Len(passports') /\ Extends(passports, passports')
    BY <1>t, <2>2, AppendExtends
  <2>. QED  BY <1>p, <2>1, <2>2
<1>2. Extends(chain, chain')
  BY <1>t, <1>c, AppendExtends DEF Extends
<1>. QED  BY <1>s, <1>b, <1>a, <1>1, <1>2 DEF RowsGrow

-----------------------------------------------------------------------------
(* The invariant, part by part.                                            *)

\* No transaction commits for a run that does not exist.
LEMMA CommitsExist ==
  ASSUME TypeOK, RequestInv, DecisionInv, NEW h \in Handlers, Commits(h)
  PROVE  status # "absent"
<1>1. handler[h] \in Local /\ Request(h, handler[h])
  BY DEF TypeOK, RequestInv
<1>2. CASE CommitAppend(h)
  BY <1>1, <1>2, LocalType DEF CommitAppend, At, RunStatus, Terminal
<1>3. CASE CommitBoard(h)
  BY <1>1, <1>3 DEF CommitBoard, At, Request
<1>4. CASE CommitResults(h) \/ CommitPassport(h)
  BY <1>1, <1>4 DEF CommitResults, CommitPassport, At, Request, DecisionInv
<1>5. CASE CommitApproval(h) \/ CommitReceipt(h)
  BY <1>5 DEF CommitApproval, CommitReceipt
<1>. QED  BY <1>2, <1>3, <1>4, <1>5 DEF Commits

\* Every step keeps the chain.
LEMMA LogStep ==
  ASSUME TypeOK, LogInv, SealInv, RequestInv, DecisionInv, [Next]_vars
  PROVE  LogInv'
<1>t. events \in Seq(Event) /\ Len(events) \in Nat
  BY DEF TypeOK
<1>c. CASE CreateRun
  BY <1>c, CreateGrows DEF CreateRun, Grows, LogInv
<1>k. ASSUME NEW h \in Handlers, Commits(h)
      PROVE  LogInv'
  <2>1. status # "absent" /\ status' # "absent"
    BY <1>k, CommitsExist, StatusStep
  <2>2. events # <<>>
    BY <2>1 DEF LogInv
  <2>3. CASE events' = events
    BY <2>1, <2>2, <2>3 DEF LogInv, Linked, PrevHash
  <2>4. CASE Grows(events, events', Kinds)
    <3>1. events' # <<>>
      BY <1>t, <2>4 DEF Grows
    <3>. QED  BY <2>1, <2>4, <3>1 DEF Grows, LogInv
  <2>. QED  BY <2>3, <2>4, LogGrows
<1>o. ASSUME ~CreateRun, \A h \in Handlers : ~Commits(h)
      PROVE  LogInv'
  <2>1. ASSUME NEW h \in Handlers, Moves(h)
        PROVE  events' = events /\ status' = status
    BY <2>1, MoveStep DEF ledger
  <2>2. events' = events /\ status' = status
    BY <1>o, <2>1, StepCases DEF ClaimAttempt, SendTransaction, RecordPassport,
       DropTransaction, ledger, vars
  <2>. QED  BY <2>2 DEF LogInv, Linked, PrevHash
<1>. QED  BY <1>c, <1>k, <1>o

\* The length of a hash is the number of events it commits to.
LEMMA HashLength ==
  ASSUME NEW log \in Seq(Event), NEW i \in DOMAIN log, Len(log[i].prev) = i - 1
  PROVE  EventHash(log[i]) \in Hash /\ Len(EventHash(log[i])) = i
<1>1. log[i] \in Event /\ i \in Nat
  OBVIOUS
<1>2. log[i].prev \in Seq(Kinds) /\ log[i].kind \in Kinds
  BY <1>1 DEF Event, Hash
<1>. QED  BY <1>1, <1>2 DEF EventHash, Hash

\* Events of other kinds do not disturb the seals.
LEMMA SealQuiet ==
  ASSUME TypeOK, SealInv, NEW kinds, Grows(events, events', kinds),
         "provenance_frozen" \notin kinds, passports' = passports
  PROVE  SealInv'
<1>t. events \in Seq(Event) /\ events' \in Seq(Event) /\ Len(events) <= Len(events')
  BY DEF TypeOK, Grows
<1>1. \A i \in DOMAIN events : i \in DOMAIN events' /\ events'[i] = events[i]
  BY <1>t, OldEvents
<1>2. \A i \in DOMAIN events' : events'[i].kind = "provenance_frozen" => i \in DOMAIN events
  BY <1>t, OldEvents
<1>3. \A n \in DOMAIN passports :
        /\ passports[n].sequence = n
        /\ \E i \in DOMAIN events :
             /\ events[i].kind = "provenance_frozen"
             /\ passports[n].audit_log_hash = EventHash(events[i])
  BY DEF SealInv
<1>4. \A n \in DOMAIN passports :
        \E i \in DOMAIN events' :
             /\ events'[i].kind = "provenance_frozen"
             /\ passports[n].audit_log_hash = EventHash(events'[i])
  BY <1>1, <1>3
<1>5. \A i \in DOMAIN events' : events'[i].kind = "provenance_frozen" =>
        \E n \in DOMAIN passports : passports[n].audit_log_hash = EventHash(events'[i])
  BY <1>1, <1>2 DEF SealInv
<1>. QED  BY <1>3, <1>4, <1>5 DEF SealInv

\* A passport that is frozen takes the next number and seals a longer log.
LEMMA SealMore ==
  ASSUME TypeOK, LogInv, SealInv, RequestInv, NEW h \in Handlers, CommitPassport(h)
  PROVE  SealInv'
<1> DEFINE p == [sequence |-> handler[h].sequence, version |-> handler[h].version,
                 audit_log_hash |-> EventHash(events'[Len(events')])]
           k == Len(passports)
<1>t. /\ events \in Seq(Event) /\ passports \in Seq(Passport)
      /\ Len(events) \in Nat /\ k \in Nat
  BY DEF TypeOK
<1>g. /\ Grows(events, events', {"provenance_frozen"})
      /\ events' \in Seq(Event) /\ Len(events') = Len(events) + 1
  BY CommitGrows DEF Grows
<1>e. /\ \A i \in 1 .. Len(events) : events'[i] = events[i]
      /\ events'[Len(events')].kind = "provenance_frozen"
      /\ Len(events') \in DOMAIN events'
  BY <1>t, <1>g DEF Grows
<1>p. /\ passports' = Append(passports, p) /\ Len(passports') = k + 1
      /\ \A n \in 1 .. k : passports'[n] = passports[n]
      /\ passports'[k + 1] = p
  BY <1>t DEF CommitPassport
<1>s. handler[h].sequence = k + 1
  <2>1. handler[h].sequence \in 1 .. k + 1
    BY DEF CommitPassport, At, RequestInv, Request
  <2>2. \A n \in 1 .. k : passports[n].sequence = n
    BY <1>t DEF SealInv
  <2>3. \A n \in 1 .. k : passports[n].sequence # handler[h].sequence
    BY <1>t DEF CommitPassport, PassportIsNew
  <2>. QED  BY <1>t, <2>1, <2>2, <2>3
<1>l. Len(p.audit_log_hash) = Len(events) + 1
  BY <1>g, LastEvent
<1>o. \A n \in 1 .. k : Len(passports[n].audit_log_hash) <= Len(events)
  <2> SUFFICES ASSUME NEW n \in 1 .. k
               PROVE  Len(passports[n].audit_log_hash) <= Len(events)
    OBVIOUS
  <2>0. n \in DOMAIN passports
    BY <1>t
  <2>1. PICK i \in DOMAIN events : passports[n].audit_log_hash = EventHash(events[i])
    BY <2>0 DEF SealInv
  <2>2. Len(events[i].prev) = i - 1
    BY DEF LogInv
  <2>. QED  BY <1>t, <2>1, <2>2, HashLength
<1>q. DOMAIN passports' = 1 .. k + 1
  <2>1. \A x : DOMAIN Append(passports, x) = 1 .. k + 1
    BY <1>t
  <2>. QED  BY <1>p, <2>1
<1>1. \A n \in DOMAIN passports' :
        /\ passports'[n].sequence = n
        /\ \E i \in DOMAIN events' :
             /\ events'[i].kind = "provenance_frozen"
             /\ passports'[n].audit_log_hash = EventHash(events'[i])
  <2> SUFFICES ASSUME NEW n \in 1 .. k + 1
               PROVE  /\ passports'[n].sequence = n
                      /\ \E i \in DOMAIN events' :
                           /\ events'[i].kind = "provenance_frozen"
                           /\ passports'[n].audit_log_hash = EventHash(events'[i])
    BY <1>q
  <2>1. CASE n \in 1 .. k
    <3>1. passports'[n] = passports[n] /\ n \in DOMAIN passports
      BY <1>t, <1>p, <2>1
    <3>2. PICK i \in DOMAIN events :
            /\ events[i].kind = "provenance_frozen"
            /\ passports[n].audit_log_hash = EventHash(events[i])
      BY <3>1 DEF SealInv
    <3>3. i \in DOMAIN events' /\ events'[i] = events[i]
      BY <1>t, <1>g, <1>e
    <3>4. passports[n].sequence = n
      BY <3>1 DEF SealInv
    <3>. QED  BY <3>1, <3>2, <3>3, <3>4
  <2>2. CASE n = k + 1
    BY <1>p, <1>s, <1>e, <2>2
  <2>. QED  BY <1>t, <2>1, <2>2
<1>2. \A i \in DOMAIN events' : events'[i].kind = "provenance_frozen" =>
        \E n \in DOMAIN passports' : passports'[n].audit_log_hash = EventHash(events'[i])
  <2> SUFFICES ASSUME NEW i \in 1 .. Len(events) + 1, events'[i].kind = "provenance_frozen"
               PROVE  \E n \in 1 .. k + 1 : passports'[n].audit_log_hash = EventHash(events'[i])
    <3>1. DOMAIN events' = 1 .. Len(events) + 1
      BY <1>t, <1>g
    <3>2. DOMAIN passports' = 1 .. k + 1
      BY <1>t, <1>p
    <3>. QED  BY <3>1, <3>2
  <2>1. CASE i \in 1 .. Len(events)
    <3>1. events'[i] = events[i] /\ i \in DOMAIN events
      BY <1>t, <1>e, <2>1
    <3>2. PICK n \in DOMAIN passports : passports[n].audit_log_hash = EventHash(events[i])
      BY <3>1 DEF SealInv
    <3>3. n \in 1 .. k + 1 /\ passports'[n] = passports[n]
      BY <1>t, <1>p
    <3>. QED  BY <3>1, <3>2, <3>3
  <2>2. CASE i = Len(events) + 1
    <3>1. k + 1 \in 1 .. k + 1 /\ i = Len(events')
      BY <1>t, <1>g, <2>2
    <3>. QED  BY <1>p, <3>1
  <2>. QED  BY <1>t, <2>1, <2>2
<1>3. \A m, n \in DOMAIN passports' : m < n =>
        Len(passports'[m].audit_log_hash) < Len(passports'[n].audit_log_hash)
  <2> SUFFICES ASSUME NEW m \in 1 .. k + 1, NEW n \in 1 .. k + 1, m < n
               PROVE  Len(passports'[m].audit_log_hash) < Len(passports'[n].audit_log_hash)
    BY <1>t, <1>p
  <2>1. m \in 1 .. k /\ passports'[m] = passports[m]
    BY <1>t, <1>p
  <2>2. CASE n \in 1 .. k
    <3>1. passports'[n] = passports[n]
      BY <1>p, <2>2
    <3>2. m \in DOMAIN passports /\ n \in DOMAIN passports
      BY <1>t, <2>1, <2>2
    <3>. QED  BY <2>1, <3>1, <3>2 DEF SealInv
  <2>3. CASE n = k + 1
    <3>1. passports[m] \in Passport
      BY <1>t, <2>1
    <3>2. Len(passports[m].audit_log_hash) \in Nat
      BY <3>1 DEF Passport, Hash
    <3>3. Len(passports'[n].audit_log_hash) = Len(events) + 1
      BY <1>p, <1>l, <2>3
    <3>4. Len(passports[m].audit_log_hash) <= Len(events)
      BY <1>o, <2>1
    <3>. QED  BY <1>t, <2>1, <3>2, <3>3, <3>4
  <2>. QED  BY <1>t, <2>2, <2>3
<1>. QED  BY <1>1, <1>2, <1>3 DEF SealInv

\* Every step keeps passports and their events in line.
LEMMA SealStep ==
  ASSUME TypeOK, LogInv, SealInv, RequestInv, DecisionInv, [Next]_vars
  PROVE  SealInv'
<1>c. CASE CreateRun
  BY <1>c, CreateGrows, SealQuiet DEF CreateRun, freezes
<1>p. ASSUME NEW h \in Handlers, CommitPassport(h)
      PROVE  SealInv'
  BY <1>p, SealMore
<1>k. ASSUME NEW h \in Handlers, Commits(h), ~CommitPassport(h)
      PROVE  SealInv'
  <2>1. passports' = passports
    BY <1>k DEF Commits, CommitAppend, CommitBoard, CommitResults, CommitApproval,
                CommitReceipt, freezes
  <2>2. CommitApproval(h) => handler[h].decision \in Decision
    BY LocalType DEF CommitApproval, At, TypeOK
  <2>3. CASE CommitAppend(h)
    BY <2>1, <2>3, CommitGrows, SealQuiet DEF ClientKinds
  <2>4. CASE CommitBoard(h)
    BY <2>1, <2>4, CommitGrows, SealQuiet
  <2>5. CASE CommitResults(h)
    BY <2>1, <2>5, CommitGrows, SealQuiet
  <2>6. CASE CommitApproval(h)
    BY <2>1, <2>2, <2>6, CommitGrows, SealQuiet DEF Decision
  <2>7. CASE CommitReceipt(h)
    BY <2>1, <2>7, CommitGrows, SealQuiet
  <2>. QED  BY <1>k, <2>3, <2>4, <2>5, <2>6, <2>7 DEF Commits
<1>o. ASSUME ~CreateRun, \A h \in Handlers : ~Commits(h)
      PROVE  SealInv'
  <2>1. ASSUME NEW h \in Handlers, Moves(h)
        PROVE  events' = events /\ passports' = passports
    BY <2>1, MoveStep DEF ledger, freezes
  <2>2. events' = events /\ passports' = passports
    BY <1>o, <2>1, StepCases DEF ClaimAttempt, SendTransaction, RecordPassport,
       DropTransaction, ledger, freezes, vars
  <2>. QED  BY <2>2 DEF SealInv
<1>. QED  BY <1>c, <1>p, <1>k, <1>o

\* What a request has read stays true while others commit.
LEMMA RequestKept ==
  ASSUME TypeOK, RowsGrow, NEW g \in Handlers, NEW l \in Local, Request(g, l),
         None \notin Handlers,
         l.at = "claimed" => mempool' = {} /\ chain' = <<>>
  PROVE  Request(g, l)'
<1>1. l.at \in {"results", "draft", "seal"} => l.version \in boards'
  BY DEF Request, RowsGrow
<1>2. l.at \in {"draft", "seal"} => l.version \in results'
  BY DEF Request, RowsGrow
<1>3. l.at = "seal" => l.sequence \in 1 .. Len(passports') + 1
  <2> SUFFICES ASSUME l.at = "seal" PROVE l.sequence \in 1 .. Len(passports') + 1
    OBVIOUS
  <2>1. l.sequence \in 1 .. Len(passports) + 1
    BY DEF Request
  <2>. QED  BY <2>1 DEF RowsGrow, TypeOK
<1>4. l.at = "decide" => IsPassport(l.bound)'
  <2> SUFFICES ASSUME l.at = "decide" PROVE IsPassport(l.bound)'
    OBVIOUS
  <2>1. PICK n \in DOMAIN passports : passports[n] = l.bound
    BY DEF Request, IsPassport
  <2>2. n \in DOMAIN passports' /\ passports'[n] = l.bound
    BY <2>1 DEF RowsGrow, Extends
  <2>. QED  BY <2>2 DEF IsPassport
<1>5. l.at \in {"claim", "claimed", "awaiting", "record"} => approval' = approval
  BY DEF Request, RowsGrow
<1>6. l.at \in {"claimed", "awaiting", "record"} => attempt' = attempt
  BY DEF Request, RowsGrow
<1>7. l.at = "record" =>
        \E i \in DOMAIN chain' : chain'[i] = [sender |-> g, bound |-> l.bound]
  <2> SUFFICES ASSUME l.at = "record"
               PROVE  \E i \in DOMAIN chain' : chain'[i] = [sender |-> g, bound |-> l.bound]
    OBVIOUS
  <2>1. PICK i \in DOMAIN chain : chain[i] = [sender |-> g, bound |-> l.bound]
    BY DEF Request
  <2>. QED  BY <2>1 DEF RowsGrow, Extends
<1>8. l.at \in {"board", "review", "decide", "attest"} => status' # "absent"
  BY DEF Request, RowsGrow
<1>. QED  BY <1>1, <1>2, <1>3, <1>4, <1>5, <1>6, <1>7, <1>8 DEF Request

\* Requests: the others keep what they know, and h knows what it did.
LEMMA RequestStep ==
  ASSUME TypeOK, LogInv, SealInv, RequestInv, SubmissionInv, [Next]_vars
  PROVE  RequestInv'
<1>n. None \notin Handlers
  BY ConstantsAssumption
<1>r. RowsGrow
  BY RowsStep
<1>l. \A g \in Handlers : handler[g] \in Local /\ Request(g, handler[g])
  BY DEF TypeOK, RequestInv
<1>o. ASSUME NEW g \in Handlers, handler'[g] = handler[g],
             handler[g].at = "claimed" => mempool' = {} /\ chain' = <<>>
      PROVE  Request(g, handler[g])'
  <2>1. ASSUME NEW l \in Local, l = handler[g]
        PROVE  Request(g, l)'
    BY <1>n, <1>r, <1>l, <1>o, <2>1, RequestKept
  <2>. QED  BY <1>l, <1>o, <2>1 DEF Request
<1>i. ASSUME NEW g \in Handlers, handler'[g] = Idle
      PROVE  Request(g, handler[g])'
  BY <1>i DEF Idle, Request
<1>c. CASE CreateRun
  <2>1. UNCHANGED <<handler, mempool, chain>>
    BY <1>c DEF CreateRun, network
  <2>. QED  BY <1>l, <1>o, <2>1 DEF RequestInv, Request
<1>h. ASSUME NEW h \in Handlers, Moves(h)
      PROVE  RequestInv'
  <2>1. PICK l \in Local : Goto(h, l) /\ Request(h, l)
    BY <1>h, MoveStep
  <2>2. UNCHANGED <<status, boards, results, passports, approval, attempt, mempool, chain>>
    BY <1>h, MoveStep DEF ledger, freezes, decisions, network
  <2>3. /\ handler'[h] = l
        /\ \A g \in Handlers \ {h} : handler'[g] = handler[g]
    BY <2>1, GotoType DEF TypeOK
  <2>4. Request(h, handler[h])'
    BY <2>1, <2>2, <2>3 DEF Request, IsPassport
  <2>5. ASSUME NEW g \in Handlers \ {h} PROVE Request(g, handler[g])'
    BY <1>l, <1>o, <2>2, <2>3 DEF Request
  <2>. QED  BY <2>4, <2>5 DEF RequestInv
<1>k. ASSUME NEW h \in Handlers, Commits(h)
      PROVE  RequestInv'
  <2>1. Return(h) /\ UNCHANGED <<mempool, chain>>
    BY <1>k DEF Commits, CommitAppend, CommitBoard, CommitResults, CommitPassport,
                CommitApproval, CommitReceipt, network
  <2>2. /\ handler'[h] = Idle
        /\ \A g \in Handlers \ {h} : handler'[g] = handler[g]
    BY <2>1, ReturnType DEF TypeOK
  <2>3. ASSUME NEW g \in Handlers \ {h} PROVE Request(g, handler[g])'
    BY <1>l, <1>o, <2>1, <2>2 DEF Request
  <2>. QED  BY <1>i, <2>2, <2>3 DEF RequestInv
<1>a. ASSUME NEW h \in Handlers, ClaimAttempt(h)
      PROVE  RequestInv'
  <2>1. handler[h].at = "claim" /\ handler[h].bound \in Passport
    BY <1>a, <1>l, LocalType DEF ClaimAttempt, At
  <2>2. [at |-> "claimed", bound |-> handler[h].bound] \in Local
    BY <2>1 DEF Local
  <2>3. /\ handler'[h] = [at |-> "claimed", bound |-> handler[h].bound]
        /\ \A g \in Handlers \ {h} : handler'[g] = handler[g]
    BY <1>a, <2>2, GotoType DEF ClaimAttempt, TypeOK
  <2>4. mempool = {} /\ chain = <<>>
    <3>1. attempt = None
      BY <1>a DEF ClaimAttempt
    <3>2. \A t \in mempool \cup {chain[i] : i \in DOMAIN chain} : FALSE
      BY <3>1 DEF SubmissionInv
    <3>3. DOMAIN chain = {}
      BY <3>2
    <3>. QED  BY <3>2, <3>3 DEF TypeOK
  <2>5. /\ attempt' = h
        /\ UNCHANGED <<approval, mempool, chain>>
    BY <1>a DEF ClaimAttempt, network
  <2>6. Request(h, handler[h])'
    <3>1. /\ approval # None /\ approval.decision = "approve_testnet"
          /\ approval.bound = handler[h].bound
      BY <1>l, <2>1 DEF Request
    <3>2. /\ handler'[h].at = "claimed" /\ handler'[h].bound = handler[h].bound
          /\ mempool' = {} /\ chain' = <<>> /\ approval' = approval
      BY <2>3, <2>4, <2>5
    <3>. QED  BY <2>5, <3>1, <3>2 DEF Request
  <2>7. ASSUME NEW g \in Handlers \ {h} PROVE Request(g, handler[g])'
    BY <1>o, <2>3, <2>4, <2>5
  <2>. QED  BY <2>6, <2>7 DEF RequestInv
<1>s. ASSUME NEW h \in Handlers, SendTransaction(h)
      PROVE  RequestInv'
  <2>1. handler[h].at = "claimed" /\ handler[h].bound \in Passport
    BY <1>s, <1>l, LocalType DEF SendTransaction, At
  <2>2. [at |-> "awaiting", bound |-> handler[h].bound] \in Local
    BY <2>1 DEF Local
  <2>3. /\ handler'[h] = [at |-> "awaiting", bound |-> handler[h].bound]
        /\ \A g \in Handlers \ {h} : handler'[g] = handler[g]
    BY <1>s, <2>2, GotoType DEF SendTransaction, TypeOK
  <2>4. UNCHANGED <<approval, attempt>>
    BY <1>s DEF SendTransaction, decisions
  <2>5. Request(h, handler[h])'
    <3>1. /\ approval # None /\ approval.decision = "approve_testnet"
          /\ approval.bound = handler[h].bound /\ attempt = h
      BY <1>l, <2>1 DEF Request
    <3>2. handler'[h].at = "awaiting" /\ handler'[h].bound = handler[h].bound
      BY <2>3
    <3>. QED  BY <2>4, <3>1, <3>2 DEF Request
  <2>6. ASSUME NEW g \in Handlers \ {h} PROVE Request(g, handler[g])'
    <3>1. handler[g].at # "claimed"
      BY <1>l, <2>1 DEF Request
    <3>. QED  BY <1>o, <2>3, <3>1
  <2>. QED  BY <2>5, <2>6 DEF RequestInv
<1>t. ASSUME NEW t \in mempool, RecordPassport(t) \/ DropTransaction(t)
      PROVE  RequestInv'
  <2>1. UNCHANGED handler
    BY <1>t DEF RecordPassport, DropTransaction
  <2>2. ASSUME NEW g \in Handlers PROVE Request(g, handler[g])'
    <3>1. handler[g].at # "claimed"
      BY <1>l, <1>t DEF Request
    <3>. QED  BY <1>o, <2>1, <3>1
  <2>. QED  BY <2>2 DEF RequestInv
<1>u. CASE UNCHANGED vars
  BY <1>u DEF vars, RequestInv, Request, IsPassport
<1>. QED  BY <1>c, <1>h, <1>k, <1>a, <1>s, <1>t, <1>u, StepCases

\* The decision.
LEMMA DecisionQuiet ==
  ASSUME TypeOK, VerdictInv, RowsGrow, NEW kinds, Grows(events, events', kinds),
         kinds \cap Decision = {}, approval' = approval
  PROVE  VerdictInv'
<1>t. events \in Seq(Event) /\ events' \in Seq(Event) /\ Len(events) <= Len(events')
  BY DEF TypeOK, Grows
<1>1. \A i \in DOMAIN events : i \in DOMAIN events' /\ events'[i] = events[i]
  BY <1>t, OldEvents
<1>2. \A i \in DOMAIN events' : events'[i].kind \in Decision => i \in DOMAIN events
  BY <1>t, OldEvents
<1>3. approval = None => \A i \in DOMAIN events' : events'[i].kind \notin Decision
  BY <1>1, <1>2 DEF VerdictInv
<1>4. ASSUME approval # None
      PROVE  \E i \in DOMAIN events' :
               /\ events'[i].kind = approval.decision
               /\ Len(approval.bound.audit_log_hash) < i
               /\ \A j \in DOMAIN events' : events'[j].kind \in Decision => j = i
  <2>1. PICK i \in DOMAIN events :
          /\ events[i].kind = approval.decision
          /\ Len(approval.bound.audit_log_hash) < i
          /\ \A j \in DOMAIN events : events[j].kind \in Decision => j = i
    BY <1>4 DEF VerdictInv
  <2>2. i \in DOMAIN events' /\ events'[i] = events[i]
    BY <1>1
  <2>3. \A j \in DOMAIN events' : events'[j].kind \in Decision => j = i
    BY <1>1, <1>2, <2>1
  <2>. QED  BY <2>1, <2>2, <2>3
<1>5. ASSUME approval # None
      PROVE  IsPassport(approval.bound)'
  <2>1. PICK n \in DOMAIN passports : passports[n] = approval.bound
    BY <1>5 DEF VerdictInv, IsPassport
  <2>2. n \in DOMAIN passports' /\ passports'[n] = approval'.bound
    BY <2>1 DEF RowsGrow, Extends
  <2>. QED  BY <2>2 DEF IsPassport
<1>. QED  BY <1>3, <1>4, <1>5 DEF VerdictInv

\* A decision and its event come after the seal of the passport it is about.
LEMMA DecisionMade ==
  ASSUME TypeOK, LogInv, SealInv, RequestInv, DecisionInv, RowsGrow,
         NEW h \in Handlers, CommitApproval(h)
  PROVE  VerdictInv'
<1>l. handler[h] \in Local /\ Request(h, handler[h]) /\ handler[h].at = "decide"
  BY DEF TypeOK, RequestInv, CommitApproval, At
<1>a. /\ handler[h].decision \in Decision /\ handler[h].bound \in Passport
      /\ approval' = [decision |-> handler[h].decision, bound |-> handler[h].bound]
  BY <1>l, LocalType DEF CommitApproval
<1>g. /\ Grows(events, events', {handler[h].decision})
      /\ Len(events') = Len(events) + 1 /\ events' \in Seq(Event)
  BY CommitGrows DEF Grows
<1>t. events \in Seq(Event) /\ Len(events) \in Nat /\ passports \in Seq(Passport)
  BY DEF TypeOK
<1>1. approval' # None
  <2>1. approval' \in Approval
    BY <1>a DEF Approval
  <2>. QED  BY <2>1, ConstantsAssumption
<1>2. PICK n \in DOMAIN passports : passports[n] = handler[h].bound
  BY <1>l DEF Request, IsPassport
<1>3. IsPassport(approval.bound)'
  BY <1>a, <1>2 DEF RowsGrow, Extends, IsPassport
<1>4. Len(handler[h].bound.audit_log_hash) <= Len(events)
  <2>1. PICK i \in DOMAIN events : passports[n].audit_log_hash = EventHash(events[i])
    BY DEF SealInv
  <2>2. Len(events[i].prev) = i - 1
    BY DEF LogInv
  <2>. QED  BY <1>t, <1>2, <2>1, <2>2, HashLength
<1>5. \A j \in 1 .. Len(events) : events'[j].kind \notin Decision
  <2>1. \A j \in 1 .. Len(events) : events'[j] = events[j] /\ j \in DOMAIN events
    BY <1>t, <1>g DEF Grows
  <2>2. approval = None
    BY DEF CommitApproval
  <2>. QED  BY <2>1, <2>2 DEF DecisionInv, VerdictInv
<1>6. /\ Len(events') \in DOMAIN events'
      /\ events'[Len(events')].kind = handler[h].decision
  BY <1>t, <1>g DEF Grows
<1>7. Len(handler[h].bound.audit_log_hash) < Len(events')
  <2>1. Len(handler[h].bound.audit_log_hash) \in Nat
    BY <1>a DEF Passport, Hash
  <2>. QED  BY <1>t, <1>g, <1>4, <2>1
<1>8. \A j \in DOMAIN events' : events'[j].kind \in Decision => j = Len(events')
  <2>1. DOMAIN events' = 1 .. Len(events) + 1
    BY <1>t, <1>g
  <2>. QED  BY <1>t, <1>g, <1>5, <2>1
<1>. QED  BY <1>1, <1>3, <1>a, <1>6, <1>7, <1>8 DEF VerdictInv

\* Every step keeps the decision and its event together.
LEMMA DecisionStep ==
  ASSUME TypeOK, LogInv, SealInv, RequestInv, DecisionInv, [Next]_vars
  PROVE  DecisionInv'
<1>r. RowsGrow
  BY RowsStep
<1>1. results' \subseteq boards'
  <2>1. ASSUME NEW h \in Handlers, Moves(h) PROVE results' = results
    BY <2>1, MoveStep DEF freezes
  <2>2. ASSUME NEW h \in Handlers, CommitResults(h)
        PROVE  results' = results \cup {handler[h].version} /\ handler[h].version \in boards
    BY <2>2 DEF CommitResults, At, RequestInv, Request
  <2>3. \/ results' = results
        \/ \E v \in boards : results' = results \cup {v}
    BY <2>1, <2>2, StepCases DEF CreateRun, Commits, CommitAppend, CommitBoard,
       CommitPassport, CommitApproval, CommitReceipt, ClaimAttempt, SendTransaction,
       RecordPassport, DropTransaction, freezes, vars
  <2>. QED  BY <1>r, <2>3 DEF DecisionInv, RowsGrow
<1>2. boards' # {} => status' # "absent"
  <2>1. ASSUME NEW h \in Handlers, Moves(h) PROVE boards' = boards
    BY <2>1, MoveStep DEF freezes
  <2>2. ASSUME NEW h \in Handlers, Commits(h) PROVE status' # "absent"
    BY <2>2, CommitsExist, <1>r DEF RowsGrow
  <2>. QED
    BY <2>1, <2>2, <1>r, StepCases DEF DecisionInv, RowsGrow, CreateRun, ClaimAttempt,
       SendTransaction, RecordPassport, DropTransaction, freezes, vars
<1>3. passports' # <<>> => results' # {}
  <2>1. ASSUME NEW h \in Handlers, Moves(h) PROVE passports' = passports
    BY <2>1, MoveStep DEF freezes
  <2>2. ASSUME NEW h \in Handlers, CommitPassport(h) PROVE results # {}
    BY <2>2 DEF CommitPassport, At, RequestInv, Request
  <2>. QED
    BY <2>1, <2>2, <1>r, StepCases DEF DecisionInv, RowsGrow, CreateRun, Commits,
       CommitAppend,
       CommitBoard, CommitResults, CommitApproval, CommitReceipt, ClaimAttempt,
       SendTransaction, RecordPassport, DropTransaction, freezes, vars
<1>4. VerdictInv'
  <2>a. ASSUME NEW h \in Handlers, CommitApproval(h)
        PROVE  VerdictInv'
    BY <2>a, <1>r, DecisionMade
  <2>k. ASSUME NEW h \in Handlers, Commits(h), ~CommitApproval(h)
        PROVE  VerdictInv'
    <3>1. approval' = approval
      BY <2>k DEF Commits, CommitAppend, CommitBoard, CommitResults, CommitPassport,
                  CommitReceipt, decisions
    <3>2. CASE CommitAppend(h)
      BY <1>r, <3>1, <3>2, CommitGrows, DecisionQuiet DEF DecisionInv, ClientKinds, Decision
    <3>3. CASE CommitBoard(h)
      BY <1>r, <3>1, <3>3, CommitGrows, DecisionQuiet DEF DecisionInv, Decision
    <3>4. CASE CommitResults(h)
      BY <1>r, <3>1, <3>4, CommitGrows, DecisionQuiet DEF DecisionInv, Decision
    <3>5. CASE CommitPassport(h)
      BY <1>r, <3>1, <3>5, CommitGrows, DecisionQuiet DEF DecisionInv, Decision
    <3>6. CASE CommitReceipt(h)
      BY <1>r, <3>1, <3>6, CommitGrows, DecisionQuiet DEF DecisionInv, Decision
    <3>. QED  BY <2>k, <3>2, <3>3, <3>4, <3>5, <3>6 DEF Commits
  <2>c. CASE CreateRun
    <3>1. approval' = approval
      BY <2>c DEF CreateRun, decisions
    <3>. QED  BY <1>r, <2>c, <3>1, CreateGrows, DecisionQuiet DEF DecisionInv, Decision
  <2>o. ASSUME ~CreateRun, \A h \in Handlers : ~Commits(h)
        PROVE  VerdictInv'
    <3>1. ASSUME NEW h \in Handlers, Moves(h)
          PROVE  events' = events /\ passports' = passports /\ approval' = approval
      BY <3>1, MoveStep DEF ledger, freezes, decisions
    <3>2. events' = events /\ passports' = passports /\ approval' = approval
      BY <2>o, <3>1, StepCases DEF ClaimAttempt, SendTransaction, RecordPassport,
         DropTransaction, ledger, freezes, decisions, vars
    <3>. QED  BY <3>2 DEF DecisionInv, VerdictInv, IsPassport
  <2>. QED  BY <2>a, <2>k, <2>c, <2>o
<1>. QED  BY <1>1, <1>2, <1>3, <1>4 DEF DecisionInv

\* At most one transaction is on its way: all of them would be the same.
LEMMA OneInMempool ==
  ASSUME TypeOK, SubmissionInv, NEW t \in mempool
  PROVE  mempool = {t}
<1> SUFFICES ASSUME NEW u \in mempool PROVE u = t
  OBVIOUS
<1>1. t \in Tx /\ u \in Tx
  BY DEF TypeOK
<1>2. t.sender = u.sender /\ t.bound = u.bound
  BY DEF SubmissionInv
<1>. QED  BY <1>1, <1>2 DEF Tx

\* Every step keeps the run at one permission and one transaction.
LEMMA SubmissionStep ==
  ASSUME TypeOK, LogInv, SealInv, RequestInv, SubmissionInv, [Next]_vars
  PROVE  SubmissionInv'
<1>r. RowsGrow
  BY RowsStep
<1>t. chain \in Seq(Tx) /\ mempool \subseteq Tx
  BY DEF TypeOK
<1>n. None \notin Handlers
  BY ConstantsAssumption
<1> DEFINE Approved(x) == /\ approval # None
                          /\ approval.decision = "approve_testnet"
                          /\ x.bound = approval.bound
                          /\ attempt # None /\ x.sender = attempt
<1>a. ASSUME NEW x, Approved(x)
      PROVE  /\ approval' # None /\ approval'.decision = "approve_testnet"
             /\ x.bound = approval'.bound /\ attempt' # None /\ x.sender = attempt'
  BY <1>a, <1>r DEF RowsGrow
<1>q. ASSUME UNCHANGED network
      PROVE  SubmissionInv'
  <2>1. mempool' = mempool /\ chain' = chain
    BY <1>q DEF network
  <2>2. \A x \in mempool \cup {chain[i] : i \in DOMAIN chain} : Approved(x)
    BY DEF SubmissionInv
  <2>. QED  BY <1>a, <2>1, <2>2 DEF SubmissionInv
<1>h. ASSUME NEW h \in Handlers, Moves(h)
      PROVE  UNCHANGED network
  BY <1>h, MoveStep DEF network
<1>k. ASSUME NEW h \in Handlers, Commits(h)
      PROVE  UNCHANGED network
  BY <1>k DEF Commits, CommitAppend, CommitBoard, CommitResults, CommitPassport,
              CommitApproval, CommitReceipt
<1>s. ASSUME NEW h \in Handlers, SendTransaction(h)
      PROVE  SubmissionInv'
  <2>1. Request(h, handler[h]) /\ handler[h].at = "claimed"
    BY <1>s DEF RequestInv, SendTransaction, At
  <2>2. /\ approval # None /\ approval.decision = "approve_testnet"
        /\ approval.bound = handler[h].bound /\ attempt = h
        /\ mempool = {} /\ chain = <<>>
    BY <2>1 DEF Request
  <2> DEFINE tx == [sender |-> h, bound |-> handler[h].bound]
  <2>3. mempool' = {tx} /\ chain' = <<>> /\ UNCHANGED <<approval, attempt>>
    BY <1>s, <2>2 DEF SendTransaction, decisions
  <2>4. /\ tx.bound = approval'.bound /\ tx.sender = attempt' /\ attempt' # None
        /\ approval' # None /\ approval'.decision = "approve_testnet"
    BY <1>n, <2>2, <2>3
  <2>5. mempool' \cup {chain'[i] : i \in DOMAIN chain'} = {tx} /\ Len(chain') = 0
    BY <2>3
  <2>. QED  BY <2>3, <2>4, <2>5 DEF SubmissionInv
<1>c. ASSUME NEW t \in mempool, RecordPassport(t)
      PROVE  SubmissionInv'
  <2>1. mempool = {t} /\ chain = <<>> /\ Approved(t)
    BY OneInMempool DEF SubmissionInv
  <2>2. mempool' = {} /\ chain' = <<t>>
    BY <1>c, <2>1 DEF RecordPassport
  <2>3. mempool' \cup {chain'[i] : i \in DOMAIN chain'} = {t} /\ Len(chain') = 1
    BY <2>2
  <2>. QED  BY <1>a, <2>1, <2>2, <2>3 DEF SubmissionInv
<1>d. ASSUME NEW t \in mempool, DropTransaction(t)
      PROVE  SubmissionInv'
  <2>1. mempool = {t} /\ chain = <<>>
    BY OneInMempool DEF SubmissionInv
  <2>2. mempool' = {} /\ chain' = <<>>
    BY <1>d, <2>1 DEF DropTransaction
  <2>3. mempool' \cup {chain'[i] : i \in DOMAIN chain'} = {} /\ Len(chain') = 0
    BY <2>2
  <2>. QED  BY <2>2, <2>3 DEF SubmissionInv
<1>. QED  BY <1>q, <1>h, <1>k, <1>s, <1>c, <1>d, StepCases
          DEF CreateRun, ClaimAttempt, network, vars

\* Every step keeps the receipt backed.
LEMMA ReceiptStep ==
  ASSUME TypeOK, LogInv, SealInv, RequestInv, ReceiptIsBacked, [Next]_vars
  PROVE  ReceiptIsBacked'
<1>r. RowsGrow
  BY RowsStep
<1>t. events \in Seq(Event)
  BY DEF TypeOK
<1>1. ASSUME receipt' = receipt
      PROVE  ReceiptIsBacked'
  <2> SUFFICES ASSUME receipt # None PROVE ReceiptIsBacked'
    BY <1>1 DEF ReceiptIsBacked
  <2>1. \E i \in DOMAIN chain' : chain'[i] = receipt'
    BY <1>1, <1>r DEF ReceiptIsBacked, RowsGrow, Extends
  <2>2. status' = "success"
    BY StatusStep DEF ReceiptIsBacked, Terminal
  <2>3. PICK i \in DOMAIN events : events[i].kind = "attestation_confirmed"
    BY DEF ReceiptIsBacked
  <2>4. i \in DOMAIN events' /\ events'[i] = events[i]
    BY <1>t, LogGrows, OldEvents
  <2>. QED  BY <2>1, <2>2, <2>3, <2>4 DEF ReceiptIsBacked
<1>2. ASSUME NEW h \in Handlers, CommitReceipt(h)
      PROVE  ReceiptIsBacked'
  <2>1. Request(h, handler[h]) /\ handler[h].at = "record"
    BY <1>2 DEF RequestInv, CommitReceipt, At
  <2>2. \E i \in DOMAIN chain' : chain'[i] = receipt'
    BY <1>2, <2>1 DEF CommitReceipt, Request, network
  <2>3. Len(events') \in DOMAIN events' /\ events'[Len(events')].kind = "attestation_confirmed"
    BY <1>2, CommitGrows, LastEvent
  <2>. QED  BY <1>2, <2>2, <2>3 DEF CommitReceipt, ReceiptIsBacked
<1>3. ASSUME NEW h \in Handlers, Moves(h)
      PROVE  receipt' = receipt
  BY <1>3, MoveStep DEF decisions
<1>. QED
  BY <1>1, <1>2, <1>3, StepCases DEF CreateRun, Commits, CommitAppend, CommitBoard,
     CommitResults, CommitPassport, CommitApproval, ClaimAttempt, SendTransaction,
     RecordPassport, DropTransaction, decisions, vars

-----------------------------------------------------------------------------
(* The theorems.                                                           *)

\* Before the run exists the invariant holds.
LEMMA InitInvariant ==
  ASSUME Init
  PROVE  IInv
<1>1. \A S : <<>> \in Seq(S)
  OBVIOUS
<1>2. Idle \in Local
  BY DEF Idle, Local
<1>3. TypeOK
  BY <1>1, <1>2 DEF Init, TypeOK, Optional
<1>4. events = <<>> /\ passports = <<>> /\ chain = <<>> /\ DOMAIN events = {}
      /\ DOMAIN passports = {} /\ DOMAIN chain = {} /\ Len(chain) = 0
  BY DEF Init
<1>5. LogInv /\ SealInv
  BY <1>4 DEF Init, LogInv, Linked, SealInv
<1>6. RequestInv
  BY DEF Init, RequestInv, Request, Idle
<1>7. DecisionInv /\ SubmissionInv /\ ReceiptIsBacked
  BY <1>4 DEF Init, DecisionInv, VerdictInv, SubmissionInv, ReceiptIsBacked
<1>. QED  BY <1>3, <1>5, <1>6, <1>7 DEF IInv

\* IInv is inductive: it holds in every state of the trust core, for any number
\* of concurrent requests, board versions, events and passports.
THEOREM InductiveInvariant == Spec => []IInv
<1>1. Init => IInv
  BY InitInvariant
<1>2. IInv /\ [Next]_vars => IInv'
  BY TypeStep, LogStep, SealStep, RequestStep, DecisionStep, SubmissionStep, ReceiptStep
     DEF IInv
<1>. QED  BY <1>1, <1>2, PTL DEF Spec

\* Every variable keeps its type.
THEOREM TypeCorrect == Spec => []TypeOK
<1>1. IInv => TypeOK
  BY DEF IInv
<1>. QED  BY <1>1, InductiveInvariant, PTL

\* next_sequence_and_prev_hash and UNIQUE (run_id, sequence) together keep the
\* event log one unbroken hash chain, even when the read of its end fails.
THEOREM HashChain == Spec => []ChainLinked
<1>1. IInv => ChainLinked
  BY DEF IInv, LogInv, ChainLinked
<1>. QED  BY <1>1, InductiveInvariant, PTL

\* Every frozen passport is numbered in order and seals the log at an event of
\* its own, however many freeze_passport requests overlap.
THEOREM SealedLog == Spec => []PassportsSealLog
<1>1. IInv => PassportsSealLog
  <2> SUFFICES ASSUME IInv PROVE PassportsSealLog
    OBVIOUS
  <2> DEFINE frozen == {i \in DOMAIN events : events[i].kind = "provenance_frozen"}
  <2>1. \A n \in DOMAIN passports :
           /\ passports[n].sequence = n
           /\ \E i \in frozen : passports[n].audit_log_hash = EventHash(events[i])
    BY DEF IInv, SealInv
  <2>2. \A i \in frozen : \E n \in DOMAIN passports :
           passports[n].audit_log_hash = EventHash(events[i])
    BY DEF IInv, SealInv
  <2>3. \A m, n \in DOMAIN passports : m < n =>
           Len(passports[m].audit_log_hash) < Len(passports[n].audit_log_hash)
    BY DEF IInv, SealInv
  <2>. QED  BY <2>1, <2>2, <2>3 DEF PassportsSealLog
<1>. QED  BY <1>1, InductiveInvariant, PTL

\* A run has one human decision, logged once, after the seal of the passport
\* it is about.
THEOREM SingleDecision == Spec => []OneDecision
<1>1. IInv => OneDecision
  <2> SUFFICES ASSUME IInv PROVE OneDecision
    OBVIOUS
  <2> DEFINE decided == {i \in DOMAIN events : events[i].kind \in Decision}
  <2>1. CASE approval = None
    <3>1. decided = {}
      BY <2>1 DEF IInv, DecisionInv, VerdictInv
    <3>. QED  BY <2>1, <3>1 DEF OneDecision
  <2>2. CASE approval # None
    <3>1. PICK i \in DOMAIN events :
            /\ events[i].kind = approval.decision
            /\ Len(approval.bound.audit_log_hash) < i
            /\ \A j \in DOMAIN events : events[j].kind \in Decision => j = i
      BY <2>2 DEF IInv, DecisionInv, VerdictInv
    <3>2. approval.decision \in Decision
      BY <2>2 DEF IInv, TypeOK, Optional, Approval
    <3>3. decided = {i}
      BY <3>1, <3>2
    <3>4. approval.bound \in {passports[n] : n \in DOMAIN passports}
      BY <2>2 DEF IInv, DecisionInv, VerdictInv, IsPassport
    <3>. QED  BY <2>2, <3>1, <3>3, <3>4 DEF OneDecision
  <2>. QED  BY <2>1, <2>2
<1>. QED  BY <1>1, InductiveInvariant, PTL

\* However many attestation requests run, are cut off and are repeated, the
\* run sends at most one transaction, for what a human approved.
THEOREM SingleSubmission == Spec => []OneApprovedTransaction
<1>1. IInv => OneApprovedTransaction
  BY DEF IInv, SubmissionInv, OneApprovedTransaction
<1>. QED  BY <1>1, InductiveInvariant, PTL

\* A receipt is the record of an executed transaction in a successful run.
THEOREM BackedReceipt == Spec => []ReceiptIsBacked
<1>1. IInv => ReceiptIsBacked
  BY DEF IInv
<1>. QED  BY <1>1, InductiveInvariant, PTL

\* No request, whenever it read the status, moves a run out of a terminal one.
THEOREM FinalStatus == Spec => TerminalIsFinal
<1>1. IInv /\ [Next]_vars => [(status \in Terminal) => (status' = status)]_vars
  BY StatusStep DEF IInv
<1>. QED  BY <1>1, InductiveInvariant, PTL DEF Spec, TerminalIsFinal

-----------------------------------------------------------------------------
(* The abstract log.                                                       *)

\* The kinds of the events of a log.
KindsOf(log) == [i \in 1 .. Len(log) |-> log[i].kind]

\* The statuses and projections of the two specifications are the same.
LEMMA Vocabulary ==
  /\ Abstract!EventProjection = EventProjection
  /\ Abstract!NextStatus = NextStatus
  /\ Abstract!ClientKinds = ClientKinds
  /\ Abstract!Decision = Decision
  /\ \A s, t : Abstract!Coalesce(s, t) = Coalesce(s, t)
BY DEF Abstract!EventProjection, EventProjection, Abstract!NextStatus, NextStatus,
       Abstract!ClientKinds, ClientKinds, Abstract!Decision, Decision,
       Abstract!Coalesce, Coalesce, Abstract!Keep, Keep, Abstract!RunStatus, RunStatus,
       Abstract!Terminal, Terminal

\* The kinds of a log are as many as its events.
LEMMA KindsOfType ==
  ASSUME NEW log \in Seq(Event)
  PROVE  KindsOf(log) \in Seq(Kinds) /\ Len(KindsOf(log)) = Len(log)
<1>1. \A i \in 1 .. Len(log) : log[i].kind \in Kinds
  <2>1. \A i \in 1 .. Len(log) : log[i] \in Event
    OBVIOUS
  <2>. QED  BY <2>1 DEF Event
<1>. QED  BY <1>1 DEF KindsOf

\* One row is one event of the abstract log.
LEMMA OneMoreKind ==
  ASSUME NEW log \in Seq(Event), NEW e \in Event
  PROVE  KindsOf(Append(log, e)) = Append(KindsOf(log), e.kind)
<1>. DEFINE new == Append(log, e)
<1>1. /\ Len(new) = Len(log) + 1 /\ Len(log) \in Nat
      /\ \A i \in 1 .. Len(log) : new[i] = log[i]
      /\ new[Len(log) + 1] = e
  OBVIOUS
<1>2. KindsOf(log) \in Seq(Kinds) /\ Len(KindsOf(log)) = Len(log) /\ e.kind \in Kinds
  BY KindsOfType DEF Event
<1>3. \A i \in 1 .. Len(log) : KindsOf(log)[i] = log[i].kind
  BY DEF KindsOf
<1>. HIDE DEF new
<1>4. KindsOf(new) = [i \in 1 .. Len(log) + 1 |-> new[i].kind]
  BY <1>1 DEF KindsOf
<1>5. Append(KindsOf(log), e.kind) =
        [i \in 1 .. Len(log) + 1 |-> IF i <= Len(log) THEN KindsOf(log)[i] ELSE e.kind]
  BY <1>1, <1>2
<1>6. ASSUME NEW i \in 1 .. Len(log) + 1
      PROVE  new[i].kind = IF i <= Len(log) THEN KindsOf(log)[i] ELSE e.kind
  BY <1>1, <1>3
<1>7. KindsOf(new) = Append(KindsOf(log), e.kind)
  BY <1>4, <1>5, <1>6
<1>. QED  BY <1>7 DEF new

\* An INSERT of one event, as the abstract log sees it.
LEMMA InsertLogs ==
  ASSUME NEW log \in Seq(Event), Linked(log), NEW kind \in Kinds,
         NEW new \in Inserted(log, kind)
  PROVE  KindsOf(new) = Append(KindsOf(log), kind)
<1>1. new = Append(log, Entry(log, kind)) /\ Entry(log, kind) \in Event
  BY InsertedExtends
<1>2. Entry(log, kind).kind = kind
  BY DEF Entry
<1>. QED  BY <1>1, <1>2, OneMoreKind

\* The abstract variables, for the rows as they are and as a step leaves them.
LEMMA AbstractLog ==
  /\ [i \in 1 .. Len(events) |-> events[i].kind] = KindsOf(events)
  /\ [i \in 1 .. Len(events') |-> events'[i].kind] = KindsOf(events')
BY DEF KindsOf

-----------------------------------------------------------------------------
(* Transactions that write an event.                                       *)

\* create_run begins the abstract run.
LEMMA CreateImplements ==
  ASSUME IInv, CreateRun
  PROVE  Abstract!Create
<1>1. events = <<>>
  BY DEF CreateRun, IInv, LogInv
<1>2. Len(events) = 0 /\ KindsOf(events) = <<>>
  BY <1>1 DEF KindsOf
<1>3. /\ Len(events') = 1 /\ events'[1].kind = "run_created"
      /\ KindsOf(events') = <<"run_created">>
  BY DEF CreateRun, KindsOf
<1>4. KindsOf(events') = Append(KindsOf(events), "run_created")
  BY <1>2, <1>3
<1>. QED  BY <1>2, <1>4, AbstractLog DEF Abstract!Create, Abstract!Log, CreateRun,
              freezes, decisions, network

\* An event of a client is one of the abstract run.
LEMMA AppendImplements ==
  ASSUME IInv, NEW h \in Handlers, CommitAppend(h)
  PROVE  \E kind \in Abstract!ClientKinds : Abstract!ClientEvent(kind)
<1>k. PICK kind : kind = handler[h].kind
  OBVIOUS
<1>1. kind \in ClientKinds /\ <<handler[h].from, handler[h].to>> \in EventProjection[kind]
  BY <1>k, LocalType DEF CommitAppend, At, IInv, TypeOK, RequestInv, Request
<1>2. KindsOf(events') = Append(KindsOf(events), kind)
  BY <1>k, <1>1, InsertLogs DEF CommitAppend, IInv, TypeOK, LogInv, Kinds
<1>3. \E p \in Abstract!EventProjection[kind] :
        p[1] = status /\ status' = Abstract!Coalesce(p[2], status)
  BY <1>1, Vocabulary DEF CommitAppend
<1>4. UNCHANGED <<freezes, decisions, network>>
  BY DEF CommitAppend
<1>5. Abstract!ClientEvent(kind)
  BY <1>2, <1>3, <1>4, AbstractLog
     DEF Abstract!ClientEvent, Abstract!Log, freezes, decisions, network
<1>. QED  BY <1>1, <1>5, Vocabulary

\* freeze_evidence_board freezes the abstract board.
LEMMA BoardImplements ==
  ASSUME IInv, NEW h \in Handlers, CommitBoard(h)
  PROVE  Abstract!FreezeBoard(handler[h].version) /\ handler[h].version \in Versions
<1>1. handler[h].version \in Versions /\ status # "absent"
  BY LocalType DEF CommitBoard, At, IInv, TypeOK, RequestInv, Request
<1>2. KindsOf(events') = Append(KindsOf(events), "evidence_board_frozen")
  BY InsertLogs DEF CommitBoard, IInv, TypeOK, LogInv, Kinds, CoreKinds
<1>. QED  BY <1>1, <1>2, AbstractLog
          DEF Abstract!FreezeBoard, Abstract!Log, CommitBoard, decisions, network

\* create_check_results scores it.
LEMMA ResultsImplement ==
  ASSUME IInv, NEW h \in Handlers, CommitResults(h)
  PROVE  Abstract!Score(handler[h].version) /\ handler[h].version \in Versions
<1>1. handler[h].version \in Versions /\ handler[h].version \in boards
  BY LocalType DEF CommitResults, At, IInv, TypeOK, RequestInv, Request
<1>2. KindsOf(events') = Append(KindsOf(events), "score_changed")
  BY InsertLogs DEF CommitResults, IInv, TypeOK, LogInv, Kinds, CoreKinds
<1>. QED  BY <1>1, <1>2, AbstractLog
          DEF Abstract!Score, Abstract!Log, CommitResults, decisions, network

\* What each passport of a list commits to.
SealsOf(list) == [n \in 1 .. Len(list) |-> Len(list[n].audit_log_hash)]

\* One passport more is one seal more.
LEMMA OneMoreSeal ==
  ASSUME NEW list \in Seq(Passport), NEW p \in Passport
  PROVE  SealsOf(Append(list, p)) = Append(SealsOf(list), Len(p.audit_log_hash))
<1>1. PICK new \in Seq(Passport) : new = Append(list, p)
  <2>1. Append(list, p) \in Seq(Passport)
    OBVIOUS
  <2>. QED  BY <2>1
<1>2. /\ Len(new) = Len(list) + 1 /\ Len(list) \in Nat
      /\ \A i \in 1 .. Len(list) : new[i] = list[i]
      /\ new[Len(list) + 1] = p
  BY <1>1
<1>3. SealsOf(list) \in Seq(Nat) /\ Len(SealsOf(list)) = Len(list)
  <2>1. \A i \in 1 .. Len(list) : Len(list[i].audit_log_hash) \in Nat
    <3>1. \A i \in 1 .. Len(list) : list[i] \in Passport
      OBVIOUS
    <3>. QED  BY SMTT(30), <3>1 DEF Passport, Hash
  <2>. QED  BY <2>1 DEF SealsOf
<1>4. \A i \in 1 .. Len(list) : SealsOf(list)[i] = Len(list[i].audit_log_hash)
  BY DEF SealsOf
<1>5. SealsOf(new) = [i \in 1 .. Len(list) + 1 |-> Len(new[i].audit_log_hash)]
  BY <1>2 DEF SealsOf
<1>6. Append(SealsOf(list), Len(p.audit_log_hash)) =
        [i \in 1 .. Len(list) + 1 |->
           IF i <= Len(list) THEN SealsOf(list)[i] ELSE Len(p.audit_log_hash)]
  BY <1>2, <1>3
<1>7. ASSUME NEW i \in 1 .. Len(list) + 1
      PROVE  Len(new[i].audit_log_hash) =
               IF i <= Len(list) THEN SealsOf(list)[i] ELSE Len(p.audit_log_hash)
  BY <1>2, <1>4
<1>. QED  BY <1>1, <1>5, <1>6, <1>7

\* freeze_passport seals the whole abstract log.
LEMMA PassportImplements ==
  ASSUME IInv, IInv', NEW h \in Handlers, CommitPassport(h)
  PROVE  Abstract!Seal
<1>1. handler[h].version \in boards \cap results /\ handler[h].version \in Versions
  BY LocalType DEF CommitPassport, At, IInv, TypeOK, RequestInv, Request
<1>2. /\ KindsOf(events') = Append(KindsOf(events), "provenance_frozen")
      /\ Len(KindsOf(events')) = Len(events')
  BY InsertLogs, KindsOfType DEF CommitPassport, IInv, TypeOK, LogInv, Kinds, CoreKinds
<1>3. Grows(events, events', {"provenance_frozen"})
  BY CommitGrows DEF IInv
<1>4. PICK hash : hash = EventHash(events'[Len(events')])
  OBVIOUS
<1>5. hash \in Hash /\ Len(hash) = Len(events')
  BY <1>3, <1>4, LastEvent DEF IInv
<1>6. handler[h].sequence \in Nat
  BY LocalType DEF CommitPassport, At, IInv, TypeOK
<1>7. PICK p \in Passport :
        /\ p.audit_log_hash = hash
        /\ passports' = Append(passports, p)
  BY <1>1, <1>4, <1>5, <1>6 DEF CommitPassport, Passport
<1>8. SealsOf(passports') = Append(SealsOf(passports), Len(KindsOf(events')))
  BY <1>2, <1>5, <1>7, OneMoreSeal DEF IInv, TypeOK
<1>9. UNCHANGED <<status, boards, results, approval, attempt, receipt, mempool, chain>>
  BY DEF CommitPassport, decisions, network
<1>. QED  BY <1>1, <1>2, <1>8, <1>9, AbstractLog DEF Abstract!Seal, Abstract!Log, SealsOf

\* create_approval decides, whatever status it had read.
LEMMA ApprovalImplements ==
  ASSUME IInv, NEW h \in Handlers, CommitApproval(h)
  PROVE  \E d \in Abstract!Decision : Abstract!Decide(d)
<1>d. PICK d : d = handler[h].decision
  OBVIOUS
<1>1. d \in Decision /\ IsPassport(handler[h].bound)
  BY <1>d, LocalType DEF CommitApproval, At, IInv, TypeOK, RequestInv, Request
<1>2. KindsOf(events') = Append(KindsOf(events), d)
  BY <1>d, <1>1, InsertLogs DEF CommitApproval, IInv, TypeOK, LogInv, Kinds, CoreKinds
<1>3. PICK n \in DOMAIN passports : passports[n] = handler[h].bound
  BY <1>1 DEF IsPassport
<1>4. handler[h].bound.sequence = n /\ n \in 1 .. Len(passports)
  BY <1>3 DEF IInv, SealInv, TypeOK
<1>5. /\ approval = None
      /\ approval' = [decision |-> d, bound |-> handler[h].bound]
      /\ UNCHANGED <<boards, results, passports, attempt, receipt, mempool, chain>>
  BY <1>d DEF CommitApproval, freezes, network
<1>6. approval' # None
  <2>1. handler[h].bound \in Passport
    BY LocalType DEF CommitApproval, At, IInv, TypeOK
  <2>. QED  BY <1>1, <1>5, <2>1, ConstantsAssumption DEF Approval
<1>7. status = "waiting_approval" /\ status' = Abstract!NextStatus[d]
  BY <1>d, Vocabulary DEF CommitApproval
<1>8. Abstract!Decide(d)
  BY <1>2, <1>4, <1>5, <1>6, <1>7, AbstractLog DEF Abstract!Decide, Abstract!Log
<1>. QED  BY <1>1, <1>8, Vocabulary

\* A receipt attests the abstract run.
LEMMA ReceiptImplements ==
  ASSUME IInv, NEW h \in Handlers, CommitReceipt(h)
  PROVE  Abstract!Attest
<1>1. PICK log \in Inserted(events, "attestation_submitted") :
        events' \in Inserted(log, "attestation_confirmed")
  BY DEF CommitReceipt
<1>2. /\ KindsOf(log) = Append(KindsOf(events), "attestation_submitted")
      /\ log \in Seq(Event) /\ Linked(log)
  BY InsertLogs, InsertedExtends DEF IInv, TypeOK, LogInv, Kinds, CoreKinds
<1>3. KindsOf(events') = Append(KindsOf(log), "attestation_confirmed")
  BY <1>1, <1>2, InsertLogs DEF Kinds, CoreKinds
<1>4. KindsOf(events') =
        KindsOf(events) \o <<"attestation_submitted", "attestation_confirmed">>
  <2>1. KindsOf(events) \in Seq(Kinds)
    BY KindsOfType DEF IInv, TypeOK
  <2>. QED  BY <1>2, <1>3, <2>1 DEF Kinds, CoreKinds
<1>5. handler[h].bound \in Passport /\ chain \in Seq(Tx)
  BY LocalType DEF CommitReceipt, At, IInv, TypeOK
<1>6. receipt = None /\ receipt' # None
  BY <1>5, ConstantsAssumption DEF CommitReceipt, Tx
<1>7. [i \in 1 .. Len(chain) |-> chain[i].bound.sequence] # <<>>
  <2>1. PICK i \in DOMAIN chain : TRUE
    BY DEF CommitReceipt, At, IInv, RequestInv, Request
  <2>2. i \in 1 .. Len(chain)
    BY <1>5, <2>1
  <2>. QED  BY <2>2
<1>. QED  BY <1>4, <1>6, <1>7, AbstractLog
          DEF Abstract!Attest, CommitReceipt, freezes, network

-----------------------------------------------------------------------------
(* The submission and the network.                                         *)

\* The verdict is an approval, to whoever sees the one or the other.
LEMMA VerdictStands ==
  ASSUME TypeOK, approval # None
  PROVE  /\ [decision |-> approval.decision, number |-> approval.bound.sequence]
              \in Abstract!Verdict
         /\ [decision |-> approval.decision, number |-> approval.bound.sequence] # None
<1>1. approval \in Approval
  BY DEF TypeOK, Optional
<1>2. approval.decision \in Decision /\ approval.bound.sequence \in Nat
  BY <1>1 DEF Approval, Passport
<1>3. [decision |-> approval.decision, number |-> approval.bound.sequence]
        \in Abstract!Verdict
  BY <1>2, Vocabulary DEF Abstract!Verdict
<1>. QED  BY <1>3, VerdictAssumption

\* The claim of an attempt grants the permission to send.
LEMMA ClaimImplements ==
  ASSUME IInv, NEW h \in Handlers, ClaimAttempt(h)
  PROVE  Abstract!Grant
<1>1. approval # None /\ approval.decision = "approve_testnet"
  BY DEF ClaimAttempt, At, IInv, RequestInv, Request
<1>2. attempt = None /\ attempt' # None
  BY ConstantsAssumption DEF ClaimAttempt
<1>3. UNCHANGED <<status, events, boards, results, passports, approval, receipt, mempool, chain>>
  BY DEF ClaimAttempt, ledger, freezes, network
<1>. QED  BY <1>1, <1>2, <1>3, VerdictStands DEF Abstract!Grant, IInv

\* Whoever sends has the permission and uses it up.
LEMMA SendImplements ==
  ASSUME IInv, NEW h \in Handlers, SendTransaction(h)
  PROVE  Abstract!Send
<1>1. /\ approval # None /\ approval.bound = handler[h].bound
      /\ attempt = h /\ mempool = {} /\ chain = <<>>
  BY DEF SendTransaction, At, IInv, RequestInv, Request
<1>2. attempt # None
  BY <1>1, ConstantsAssumption
<1>3. mempool' = {[sender |-> h, bound |-> handler[h].bound]}
  BY <1>1 DEF SendTransaction
<1>4. {t.bound.sequence : t \in mempool'} = {approval.bound.sequence}
  BY <1>1, <1>3
<1>5. UNCHANGED <<status, events, boards, results, passports, approval, attempt, receipt, chain>>
  BY DEF SendTransaction, ledger, freezes, decisions
<1>6. /\ {t.bound.sequence : t \in mempool} = {}
      /\ [i \in 1 .. Len(chain) |-> chain[i].bound.sequence] = <<>>
  BY <1>1
<1>. QED  BY <1>1, <1>2, <1>4, <1>5, <1>6 DEF Abstract!Send

\* What the registry has recorded.
RecordedOf(list) == [i \in 1 .. Len(list) |-> list[i].bound.sequence]

\* One record more on the chain is one more of the abstract run.
LEMMA OneMoreRecord ==
  ASSUME NEW list \in Seq(Tx), NEW t \in Tx
  PROVE  RecordedOf(Append(list, t)) = Append(RecordedOf(list), t.bound.sequence)
<1>1. PICK new \in Seq(Tx) : new = Append(list, t)
  <2>1. Append(list, t) \in Seq(Tx)
    OBVIOUS
  <2>. QED  BY <2>1
<1>2. /\ Len(new) = Len(list) + 1 /\ Len(list) \in Nat
      /\ \A i \in 1 .. Len(list) : new[i] = list[i]
      /\ new[Len(list) + 1] = t
  BY <1>1
<1>3. RecordedOf(list) \in Seq(Nat) /\ Len(RecordedOf(list)) = Len(list)
  <2>1. \A i \in 1 .. Len(list) : list[i].bound.sequence \in Nat
    <3>1. \A i \in 1 .. Len(list) : list[i] \in Tx
      OBVIOUS
    <3>. QED  BY <3>1 DEF Tx, Passport
  <2>. QED  BY <2>1 DEF RecordedOf
<1>4. \A i \in 1 .. Len(list) : RecordedOf(list)[i] = list[i].bound.sequence
  BY DEF RecordedOf
<1>5. RecordedOf(new) = [i \in 1 .. Len(list) + 1 |-> new[i].bound.sequence]
  BY <1>2 DEF RecordedOf
<1>6. Append(RecordedOf(list), t.bound.sequence) =
        [i \in 1 .. Len(list) + 1 |->
           IF i <= Len(list) THEN RecordedOf(list)[i] ELSE t.bound.sequence]
  BY <1>2, <1>3
<1>7. ASSUME NEW i \in 1 .. Len(list) + 1
      PROVE  new[i].bound.sequence =
               IF i <= Len(list) THEN RecordedOf(list)[i] ELSE t.bound.sequence
  BY <1>2, <1>4
<1>. QED  BY <1>1, <1>5, <1>6, <1>7

\* A transaction that is mined records what it is bound to.
LEMMA RecordImplements ==
  ASSUME IInv, NEW t \in mempool, RecordPassport(t)
  PROVE  Abstract!Record
<1>1. mempool = {t} /\ t \in Tx /\ mempool' = {} /\ chain' = Append(chain, t)
  BY OneInMempool DEF RecordPassport, IInv, TypeOK
<1>2. /\ {u.bound.sequence : u \in mempool} = {t.bound.sequence}
      /\ {u.bound.sequence : u \in mempool'} = {}
  BY <1>1
<1>3. RecordedOf(chain') = Append(RecordedOf(chain), t.bound.sequence)
  BY <1>1, OneMoreRecord DEF IInv, TypeOK
<1>4. UNCHANGED <<status, events, boards, results, passports, approval, attempt, receipt>>
  BY DEF RecordPassport, ledger, freezes, decisions
<1>. QED  BY <1>2, <1>3, <1>4 DEF Abstract!Record, RecordedOf

\* A transaction that is dropped is lost to the abstract run.
LEMMA DropImplements ==
  ASSUME IInv, NEW t \in mempool, DropTransaction(t)
  PROVE  Abstract!Lose
<1>1. mempool = {t} /\ mempool' = {}
  BY OneInMempool DEF DropTransaction, IInv
<1>2. /\ {u.bound.sequence : u \in mempool} = {t.bound.sequence}
      /\ {u.bound.sequence : u \in mempool'} = {}
  BY <1>1
<1>3. UNCHANGED <<status, events, boards, results, passports, approval, attempt, receipt, chain>>
  BY DEF DropTransaction, ledger, freezes, decisions
<1>. QED  BY <1>2, <1>3 DEF Abstract!Lose

-----------------------------------------------------------------------------
(* The refinement.                                                         *)

\* The run as AuditedRun sees it stands still.
LEMMA RowsStandStill ==
  ASSUME UNCHANGED <<status, events, boards, results, passports, approval, attempt,
                     receipt, mempool, chain>>
  PROVE  UNCHANGED Abstract!vars
BY DEF Abstract!vars

\* The run that does not exist yet is the one that the abstract run begins with.
LEMMA InitImplements == Init => Abstract!Init
<1>. SUFFICES ASSUME Init  PROVE  Abstract!Init
  OBVIOUS
<1>1. Len(events) = 0 /\ Len(passports) = 0 /\ Len(chain) = 0
  BY DEF Init
<1>. QED  BY <1>1 DEF Init, Abstract!Init

\* Every step of the trust core is one of the abstract run, or a stutter.
LEMMA StepImplements ==
  ASSUME IInv, IInv', [Next]_vars
  PROVE  [Abstract!Next]_Abstract!vars
<1>c. CASE CreateRun
  BY <1>c, CreateImplements DEF Abstract!Next
<1>h. ASSUME NEW h \in Handlers, Moves(h)
      PROVE  UNCHANGED Abstract!vars
  BY <1>h, MoveStep, RowsStandStill DEF IInv, ledger, freezes, decisions, network
<1>k. ASSUME NEW h \in Handlers, Commits(h)
      PROVE  Abstract!Next
  <2>1. CASE CommitAppend(h)
    BY <2>1, AppendImplements DEF Abstract!Next
  <2>2. CASE CommitBoard(h)
    BY <2>2, BoardImplements DEF Abstract!Next
  <2>3. CASE CommitResults(h)
    BY <2>3, ResultsImplement DEF Abstract!Next
  <2>4. CASE CommitPassport(h)
    BY <2>4, PassportImplements DEF Abstract!Next
  <2>5. CASE CommitApproval(h)
    BY <2>5, ApprovalImplements DEF Abstract!Next
  <2>6. CASE CommitReceipt(h)
    BY <2>6, ReceiptImplements DEF Abstract!Next
  <2>. QED  BY <1>k, <2>1, <2>2, <2>3, <2>4, <2>5, <2>6 DEF Commits
<1>n. ASSUME NEW h \in Handlers, ClaimAttempt(h) \/ SendTransaction(h)
      PROVE  Abstract!Next
  BY <1>n, ClaimImplements, SendImplements DEF Abstract!Next
<1>t. ASSUME NEW t \in mempool, RecordPassport(t) \/ DropTransaction(t)
      PROVE  Abstract!Next
  BY <1>t, RecordImplements, DropImplements DEF Abstract!Next
<1>u. CASE UNCHANGED vars
  BY <1>u, RowsStandStill DEF vars
<1>. QED  BY <1>c, <1>h, <1>k, <1>n, <1>t, <1>u, StepCases

\* The trust core, whose requests read before their transaction, are abandoned, fail
\* and interleave, implements a run on which every operation is one step.
THEOREM TrustCoreImplementsAuditedRun == Spec => ImplementsAuditedRun
<1>1. IInv /\ IInv' /\ [Next]_vars => [Abstract!Next]_Abstract!vars
  BY StepImplements
<1>. QED  BY <1>1, InitImplements, InductiveInvariant, PTL
          DEF Spec, ImplementsAuditedRun, Abstract!Spec

-----------------------------------------------------------------------------
(* Recursion over the log.                                                 *)

\* A set of natural numbers that is not empty has a least element: the library states
\* it of an operator, this form serves the provers.
LEMMA Least ==
  ASSUME NEW S, S \subseteq Nat, S # {}
  PROVE  \E m \in S : \A n \in S : m <= n
<1>1. IsWellFoundedOn({ss \in Nat \X Nat : ss[1] < ss[2]}, Nat)
  BY NatLessThanWellFounded DEF OpToRel
<1>. DEFINE R == {ss \in Nat \X Nat : ss[1] < ss[2]}
<1>2. \A m, n \in Nat : m < n => <<m, n>> \in R
  OBVIOUS
<1>. HIDE DEF R
<1>3. PICK m \in S : \A n \in S : ~(<<n, m>> \in R)
  BY <1>1, WFMin DEF R
<1>4. m \in Nat /\ \A n \in S : n \in Nat /\ ~(n < m)
  BY <1>2, <1>3
<1>. QED  BY <1>4

\* f gives the status after each prefix of the log.
Explains(f, log) ==
  f = [n \in 0 .. Len(log) |->
         IF n = 0 THEN "absent" ELSE AfterEvent(f[n - 1], log[n].kind)]

\* There is one such function.
LEMMA OneExplanation ==
  ASSUME NEW log \in Seq(Event), NEW f, NEW g, Explains(f, log), Explains(g, log)
  PROVE  f = g
<1>. DEFINE S == {n \in 0 .. Len(log) : f[n] # g[n]}
<1>n. Len(log) \in Nat
  OBVIOUS
<1>1. /\ DOMAIN f = 0 .. Len(log) /\ DOMAIN g = 0 .. Len(log)
      /\ f = [n \in DOMAIN f |-> f[n]] /\ g = [n \in DOMAIN g |-> g[n]]
  BY DEF Explains
<1>2. /\ f[0] = "absent" /\ g[0] = "absent"
      /\ \A n \in 1 .. Len(log) : /\ f[n] = AfterEvent(f[n - 1], log[n].kind)
                                  /\ g[n] = AfterEvent(g[n - 1], log[n].kind)
  <2>1. ASSUME NEW n \in 0 .. Len(log)
        PROVE  /\ f[n] = IF n = 0 THEN "absent" ELSE AfterEvent(f[n - 1], log[n].kind)
               /\ g[n] = IF n = 0 THEN "absent" ELSE AfterEvent(g[n - 1], log[n].kind)
    BY DEF Explains
  <2>. QED  BY <1>n, <2>1
<1>3. CASE S # {}
  <2>1. PICK m \in S : \A n \in S : m <= n
    <3>1. S \subseteq Nat
      OBVIOUS
    <3>. HIDE DEF S
    <3>. QED  BY <1>3, <3>1, Least
  <2>2. m \in 0 .. Len(log) /\ f[m] # g[m]
    OBVIOUS
  <2>3. m \in 1 .. Len(log) /\ m - 1 \in 0 .. Len(log)
    BY <1>n, <1>2, <2>2
  <2>4. f[m - 1] = g[m - 1]
    BY <1>n, <2>1, <2>3
  <2>. QED  BY <1>2, <2>2, <2>3, <2>4
<1>4. CASE S = {}
  BY <1>1, <1>4
<1>. QED  BY <1>3, <1>4

\* What explains a log is what replaying it computes.
LEMMA ReplayIsExplained ==
  ASSUME NEW log \in Seq(Event), NEW f, Explains(f, log)
  PROVE  Replay(log) = f[Len(log)]
<1>. DEFINE g == CHOOSE h : h = [n \in 0 .. Len(log) |->
                   IF n = 0 THEN "absent" ELSE AfterEvent(h[n - 1], log[n].kind)]
<1>1. Explains(g, log)
  BY DEF Explains
<1>2. Replay(log) = g[Len(log)]
  BY DEF Replay
<1>. HIDE DEF g
<1>3. g = f
  BY <1>1, OneExplanation
<1>. QED  BY <1>2, <1>3

\* An explanation of a log explains the log with one more event.
LEMMA OneMoreStep ==
  ASSUME NEW log \in Seq(Event), NEW e \in Event, NEW f, Explains(f, log)
  PROVE  \E g : /\ Explains(g, Append(log, e))
               /\ g[Len(log) + 1] = AfterEvent(f[Len(log)], e.kind)
<1>. DEFINE n == Len(log)
            new == Append(log, e)
            g == [i \in 0 .. n + 1 |-> IF i <= n THEN f[i] ELSE AfterEvent(f[n], e.kind)]
<1>1. /\ n \in Nat /\ Len(new) = n + 1
      /\ \A i \in 1 .. n : new[i] = log[i]
      /\ new[n + 1] = e
  OBVIOUS
<1>2. \A i \in 0 .. n :
        f[i] = IF i = 0 THEN "absent" ELSE AfterEvent(f[i - 1], log[i].kind)
  BY DEF Explains
<1>. HIDE DEF n, new
<1>3. \A i \in 0 .. n : g[i] = f[i]
  BY <1>1
<1>4. g[n + 1] = AfterEvent(f[n], e.kind)
  BY <1>1
<1>5. ASSUME NEW i \in 0 .. n + 1
      PROVE  g[i] = IF i = 0 THEN "absent" ELSE AfterEvent(g[i - 1], new[i].kind)
  <2>1. CASE i = 0
    BY <1>1, <1>2, <1>3, <2>1
  <2>2. CASE i \in 1 .. n
    <3>1. i \in 0 .. n /\ i - 1 \in 0 .. n /\ i # 0 /\ new[i] = log[i]
      BY <1>1, <2>2
    <3>. QED  BY <1>2, <1>3, <3>1
  <2>3. CASE i = n + 1
    <3>1. i # 0 /\ i - 1 = n /\ n \in 0 .. n
      BY <1>1, <2>3
    <3>. QED  BY <1>1, <1>3, <1>4, <2>3, <3>1
  <2>. QED  BY <1>1, <2>1, <2>2, <2>3
<1>6. Explains(g, new)
  <2>1. g = [i \in 0 .. n + 1 |-> g[i]]
    OBVIOUS
  <2>. HIDE DEF g
  <2>2. g = [i \in 0 .. n + 1 |->
               IF i = 0 THEN "absent" ELSE AfterEvent(g[i - 1], new[i].kind)]
    BY <1>5, <2>1
  <2>. QED  BY <1>1, <2>2 DEF Explains
<1>. HIDE DEF g
<1>. QED  BY <1>4, <1>6 DEF n, new

-----------------------------------------------------------------------------
(* The log explains the status.                                            *)

\* Replaying the log ends in s.
EndsIn(log, s) == \E f : Explains(f, log) /\ f[Len(log)] = s

\* An INSERT of one event.
LEMMA InsertEndsIn ==
  ASSUME NEW log \in Seq(Event), Linked(log), NEW kind \in Kinds,
         NEW new \in Inserted(log, kind), NEW s, EndsIn(log, s)
  PROVE  EndsIn(new, AfterEvent(s, kind))
<1>1. new = Append(log, Entry(log, kind)) /\ Entry(log, kind) \in Event
  BY InsertedExtends
<1>2. Entry(log, kind).kind = kind /\ Len(new) = Len(log) + 1
  BY <1>1 DEF Entry
<1>3. PICK f : Explains(f, log) /\ f[Len(log)] = s
  BY DEF EndsIn
<1>4. \E g : Explains(g, new) /\ g[Len(log) + 1] = AfterEvent(f[Len(log)], kind)
  BY <1>1, <1>2, <1>3, OneMoreStep
<1>. QED  BY <1>2, <1>3, <1>4 DEF EndsIn

\* One pair that the status before selects is the effect of the event.
LEMMA EffectApplies ==
  ASSUME NEW kind, NEW old, NEW new, <<old, new>> \in Effect(kind),
         \A p \in Effect(kind) : p[1] = old => p = <<old, new>>
  PROVE  AfterEvent(old, kind) = Coalesce(new, old)
<1>1. {p \in Effect(kind) : p[1] = old} = {<<old, new>>}
  OBVIOUS
<1>. QED  BY <1>1 DEF AfterEvent

\* An event with one effect has that effect on the status it needs.
LEMMA SingleEffect ==
  ASSUME NEW kind, NEW old, NEW new, Effect(kind) = {<<old, new>>}, new # Keep
  PROVE  AfterEvent(old, kind) = new
<1>1. <<old, new>> \in Effect(kind) /\ \A p \in Effect(kind) : p[1] = old => p = <<old, new>>
  OBVIOUS
<1>2. AfterEvent(old, kind) = Coalesce(new, old)
  BY <1>1, EffectApplies
<1>. QED  BY <1>2 DEF Coalesce

\* An event of a client sets the status of its projection, or keeps the old one.
LEMMA ClientEffect ==
  ASSUME NEW kind \in ClientKinds, NEW old \in RunStatus, NEW new,
         <<old, new>> \in EventProjection[kind]
  PROVE  AfterEvent(old, kind) = Coalesce(new, old)
<1>1. Effect(kind) = EventProjection[kind]
  BY DEF Effect, ClientKinds, Decision
<1>2. \A p \in EventProjection[kind] : p[1] = old => p = <<old, new>>
  <2>1. CASE kind = "run_failed"
    BY <2>1 DEF EventProjection
  <2>2. CASE kind = "note"
    BY <2>2 DEF EventProjection
  <2>3. CASE kind \in {"node_started", "node_finished", "approval_required", "run_success"}
    BY <2>3 DEF EventProjection
  <2>. QED  BY <2>1, <2>2, <2>3 DEF ClientKinds
<1>. QED  BY <1>1, <1>2, EffectApplies

\* A decision moves a waiting run on to its next status.
LEMMA DecisionEffect ==
  ASSUME NEW d \in Decision
  PROVE  AfterEvent("waiting_approval", d) = NextStatus[d]
<1>1. Effect(d) = {<<"waiting_approval", NextStatus[d]>>}
  BY DEF Effect, ClientKinds, Decision
<1>2. NextStatus[d] # Keep
  BY DEF Decision, NextStatus, Keep
<1>. QED  BY <1>1, <1>2, SingleEffect

\* The trust core's own events.
LEMMA CoreEffects ==
  /\ AfterEvent("absent", "run_created") = "pending"
  /\ AfterEvent("running", "attestation_submitted") = "success"
  /\ \A s \in RunStatus, kind \in {"evidence_board_frozen", "score_changed",
                                   "provenance_frozen", "attestation_confirmed"} :
       AfterEvent(s, kind) = s
<1>1. AfterEvent("absent", "run_created") = "pending"
  <2>1. Effect("run_created") = {<<"absent", "pending">>}
    BY DEF Effect, ClientKinds, Decision
  <2>. QED  BY <2>1, SingleEffect DEF Keep
<1>2. AfterEvent("running", "attestation_submitted") = "success"
  <2>1. Effect("attestation_submitted") = {<<"running", "success">>}
    BY DEF Effect, ClientKinds, Decision
  <2>. QED  BY <2>1, SingleEffect DEF Keep
<1>3. ASSUME NEW s \in RunStatus,
             NEW kind \in {"evidence_board_frozen", "score_changed",
                           "provenance_frozen", "attestation_confirmed"}
      PROVE  AfterEvent(s, kind) = s
  <2>1. Effect(kind) = {<<t, Keep>> : t \in RunStatus}
    BY DEF Effect, ClientKinds, Decision
  <2>2. <<s, Keep>> \in Effect(kind) /\ \A p \in Effect(kind) : p[1] = s => p = <<s, Keep>>
    BY <2>1
  <2>. QED  BY <2>2, EffectApplies DEF Coalesce
<1>. QED  BY <1>1, <1>2, <1>3

\* A commit leaves the replayed log at the status of the run.
LEMMA CommitEndsIn ==
  ASSUME IInv, EndsIn(events, status), NEW h \in Handlers, Commits(h)
  PROVE  EndsIn(events, status)'
<1>t. /\ events \in Seq(Event) /\ Linked(events) /\ status \in RunStatus
      /\ handler[h] \in Local /\ Request(h, handler[h])
  BY CommitsExist DEF IInv, TypeOK, LogInv, RequestInv
<1>1. CASE CommitAppend(h)
  <2>1. PICK kind : kind = handler[h].kind
    OBVIOUS
  <2>2. /\ kind \in ClientKinds /\ <<status, handler[h].to>> \in EventProjection[kind]
        /\ status' = Coalesce(handler[h].to, status) /\ events' \in Inserted(events, kind)
    BY <1>t, <1>1, <2>1, LocalType DEF CommitAppend, At, Request
  <2>3. status' = AfterEvent(status, kind)
    BY <1>t, <2>2, ClientEffect
  <2>. QED  BY <1>t, <2>2, <2>3, InsertEndsIn DEF Kinds
<1>2. CASE CommitBoard(h)
  <2>1. events' \in Inserted(events, "evidence_board_frozen") /\ status' = status
    BY <1>2 DEF CommitBoard
  <2>. QED  BY <1>t, <2>1, CoreEffects, InsertEndsIn DEF Kinds, CoreKinds
<1>3. CASE CommitResults(h)
  <2>1. events' \in Inserted(events, "score_changed") /\ status' = status
    BY <1>3 DEF CommitResults
  <2>. QED  BY <1>t, <2>1, CoreEffects, InsertEndsIn DEF Kinds, CoreKinds
<1>4. CASE CommitPassport(h)
  <2>1. events' \in Inserted(events, "provenance_frozen") /\ status' = status
    BY <1>4 DEF CommitPassport
  <2>. QED  BY <1>t, <2>1, CoreEffects, InsertEndsIn DEF Kinds, CoreKinds
<1>5. CASE CommitApproval(h)
  <2>1. PICK d : d = handler[h].decision
    OBVIOUS
  <2>2. /\ d \in Decision /\ status = "waiting_approval" /\ status' = NextStatus[d]
        /\ events' \in Inserted(events, d)
    BY <1>t, <1>5, <2>1, LocalType DEF CommitApproval, At
  <2>. QED  BY <1>t, <2>2, DecisionEffect, InsertEndsIn DEF Kinds, CoreKinds
<1>6. CASE CommitReceipt(h)
  <2>1. PICK log \in Inserted(events, "attestation_submitted") :
          events' \in Inserted(log, "attestation_confirmed")
    BY <1>6 DEF CommitReceipt
  <2>2. log \in Seq(Event) /\ Linked(log)
    BY <1>t, <2>1, InsertedExtends DEF Kinds, CoreKinds
  <2>3. status = "running" /\ status' = "success" /\ "success" \in RunStatus
    BY <1>6 DEF CommitReceipt, RunStatus, Terminal
  <2>4. EndsIn(log, "success")
    <3>1. EndsIn(log, AfterEvent(status, "attestation_submitted"))
      BY <1>t, <2>1, InsertEndsIn DEF Kinds, CoreKinds
    <3>. QED  BY <2>3, <3>1, CoreEffects
  <2>5. EndsIn(events', AfterEvent("success", "attestation_confirmed"))
    BY <2>1, <2>2, <2>4, InsertEndsIn DEF Kinds, CoreKinds
  <2>. QED  BY <2>3, <2>5, CoreEffects
<1>. QED  BY <1>1, <1>2, <1>3, <1>4, <1>5, <1>6 DEF Commits

\* So does the creation of the run.
LEMMA CreateEndsIn ==
  ASSUME IInv, EndsIn(events, status), CreateRun
  PROVE  EndsIn(events, status)'
<1>1. events = <<>> /\ status = "absent" /\ status' = "pending"
  BY DEF CreateRun, IInv, LogInv
<1>2. events' \in Inserted(events, "run_created")
  <2>1. [sequence |-> 1, prev |-> ZeroHash] \in NextSlots(events)
    BY DEF NextSlots
  <2>2. SequenceIsFree(events, 1)
    BY <1>1 DEF SequenceIsFree
  <2>3. events' = Append(events, [sequence |-> 1, kind |-> "run_created", prev |-> ZeroHash])
    BY <1>1 DEF CreateRun
  <2>. QED  BY <2>1, <2>2, <2>3 DEF Inserted
<1>3. AfterEvent(status, "run_created") = status'
  BY <1>1, CoreEffects
<1>4. events \in Seq(Event) /\ Linked(events) /\ "run_created" \in Kinds
  BY DEF IInv, TypeOK, LogInv, Kinds, CoreKinds
<1>5. EndsIn(events', AfterEvent(status, "run_created"))
  BY <1>2, <1>4, InsertEndsIn
<1>. QED  BY <1>3, <1>5

\* So does every step.
LEMMA StepEndsIn ==
  ASSUME IInv, EndsIn(events, status), [Next]_vars
  PROVE  EndsIn(events, status)'
<1>h. ASSUME NEW h \in Handlers, Moves(h)
      PROVE  UNCHANGED <<events, status>>
  BY <1>h, MoveStep DEF IInv, ledger
<1>n. ASSUME NEW h \in Handlers, ClaimAttempt(h) \/ SendTransaction(h)
      PROVE  UNCHANGED <<events, status>>
  BY <1>n DEF ClaimAttempt, SendTransaction, ledger
<1>t. ASSUME NEW t \in mempool, RecordPassport(t) \/ DropTransaction(t)
      PROVE  UNCHANGED <<events, status>>
  BY <1>t DEF RecordPassport, DropTransaction, ledger
<1>u. ASSUME UNCHANGED <<events, status>>
      PROVE  EndsIn(events, status)'
  BY <1>u DEF EndsIn, Explains
<1>. QED  BY <1>h, <1>n, <1>t, <1>u, CreateEndsIn, CommitEndsIn, StepCases DEF vars

\* Whoever replays the log arrives at the status of the run, although requests validate
\* against a status that they read before their transaction.
THEOREM LogExplains == Spec => []LogExplainsStatus
<1>1. Init => EndsIn(events, status)
  <2>. SUFFICES ASSUME Init  PROVE  EndsIn(events, status)
    OBVIOUS
  <2>1. events = <<>> /\ Len(events) = 0 /\ status = "absent"
    BY DEF Init
  <2>. DEFINE f == [n \in 0 .. Len(events) |-> "absent"]
  <2>2. f = [n \in 0 .. Len(events) |->
               IF n = 0 THEN "absent" ELSE AfterEvent(f[n - 1], events[n].kind)]
    BY <2>1
  <2>3. f[Len(events)] = "absent"
    BY <2>1
  <2>. HIDE DEF f
  <2>. QED  BY <2>1, <2>2, <2>3 DEF EndsIn, Explains
<1>2. IInv /\ EndsIn(events, status) /\ [Next]_vars => EndsIn(events, status)'
  BY StepEndsIn
<1>3. Spec => []EndsIn(events, status)
  BY <1>1, <1>2, InductiveInvariant, PTL DEF Spec
<1>4. IInv /\ EndsIn(events, status) => LogExplainsStatus
  BY ReplayIsExplained DEF IInv, TypeOK, EndsIn, LogExplainsStatus
<1>. QED  BY <1>3, <1>4, InductiveInvariant, PTL

=============================================================================
