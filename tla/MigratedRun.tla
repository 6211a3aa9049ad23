----------------------------- MODULE MigratedRun -----------------------------
(***************************************************************************)
(* A database that is older than the hash chain.  Migration 0005 gives the *)
(* events it finds placeholder hashes, migration 0006 binds the runs it    *)
(* finds to the historical catalog; from then on the present trust core    *)
(* appends, freezes boards and seals passports in old runs and new ones.   *)
(*                                                                         *)
(* Abstracted: statuses and requests (TrustCore), the bodies of what is    *)
(* frozen (FrozenRecords).  A hash is the list of what it commits to.      *)
(***************************************************************************)
EXTENDS Naturals, Sequences

CONSTANTS
  Runs,
  Kinds,     \* kinds of events
  None,
  MaxEvents  \* bound: events of a run

VARIABLES
  schema,   \* "plain" until 0005, "hashed" until 0006, then "bound"
  log,      \* for each run, its rows of run_events
  binding,  \* for each run, the catalog version of its audit binding, or None
  board,    \* for each run, is a board frozen and scored
  seal      \* for each run, audit_log_hash and place of its passport, or None

vars == <<schema, log, binding, board, seal>>

-----------------------------------------------------------------------------
ZeroHash == <<>>
Hashes == Seq(Nat \X Kinds)

EventHash(e) == Append(e.prev, <<e.sequence, e.kind>>)

\* The rows of an unbroken chain.
Linked(rows) ==
  \A i \in DOMAIN rows :
    /\ rows[i].prev = IF i = 1 THEN ZeroHash ELSE rows[i - 1].hash
    /\ rows[i].hash = EventHash(rows[i])

Exists(r) == log[r] # <<>>
Hashed == schema # "plain"

\* next_sequence_and_prev_hash.
PrevHash(r) == IF log[r] = <<>> THEN ZeroHash ELSE log[r][Len(log[r])].hash

\* insert_generated_event; before the hash chain, an event was its sequence.
NewRow(r, kind) ==
  LET e == [sequence |-> Len(log[r]) + 1, kind |-> kind,
            prev |-> IF Hashed THEN PrevHash(r) ELSE None]
  IN  [sequence |-> e.sequence, kind |-> e.kind, prev |-> e.prev,
       hash |-> IF Hashed THEN EventHash(e) ELSE None]

Insert(r, kind) ==
  /\ Len(log[r]) < MaxEvents
  /\ log' = [log EXCEPT ![r] = Append(@, NewRow(r, kind))]

-----------------------------------------------------------------------------
\* create_run: a new run is bound to the current catalog.
CreateRun(r, kind) ==
  /\ ~Exists(r)
  /\ Insert(r, kind)
  /\ binding' = [binding EXCEPT ![r] = IF schema = "bound" THEN "0.3.0" ELSE None]
  /\ UNCHANGED <<schema, board, seal>>

AppendEvent(r, kind) ==
  /\ Exists(r)
  /\ Insert(r, kind)
  /\ UNCHANGED <<schema, binding, board, seal>>

\* INSERT INTO run_events_v2 SELECT ..
Copied(row) == [row EXCEPT !.prev = ZeroHash, !.hash = ZeroHash]

\* 0005_add_hash_chain_and_decision_events.sql.
AddHashes ==
  /\ schema = "plain"
  /\ schema' = "hashed"
  /\ log' = [r \in Runs |-> [i \in DOMAIN log[r] |-> Copied(log[r][i])]]
  /\ UNCHANGED <<binding, board, seal>>

\* 0006_create_check_results.sql.
BindRuns ==
  /\ schema = "hashed"
  /\ schema' = "bound"
  /\ binding' = [r \in Runs |-> IF Exists(r) THEN "0.2.0" ELSE None]
  /\ UNCHANGED <<log, board, seal>>

\* Mutant: the historical catalog is loaded as well.
SupportsHistorical(version) == version \in {"0.2.0", "0.3.0"}

\* load_catalog.
Supported(version) == version = "0.3.0"

\* freeze_evidence_board and create_check_results load the catalog of the run.
FreezeBoard(r, kind) ==
  /\ schema = "bound" /\ Exists(r)
  /\ ~board[r]
  /\ Supported(binding[r])
  /\ board' = [board EXCEPT ![r] = TRUE]
  /\ Insert(r, kind)
  /\ UNCHANGED <<schema, binding, seal>>

\* freeze_passport: audit_log_hash is the hash of its own event.
SealPassport(r, kind) ==
  /\ board[r] /\ seal[r] = None
  /\ Insert(r, kind)
  /\ seal' = [seal EXCEPT ![r] = [hash |-> NewRow(r, kind).hash, at |-> Len(log[r]) + 1]]
  /\ UNCHANGED <<schema, binding, board>>

-----------------------------------------------------------------------------
Init ==
  /\ schema = "plain"
  /\ log = [r \in Runs |-> <<>>]
  /\ binding = [r \in Runs |-> None]
  /\ board = [r \in Runs |-> FALSE]
  /\ seal = [r \in Runs |-> None]

Next ==
  \/ AddHashes \/ BindRuns
  \/ \E r \in Runs, k \in Kinds :
       \/ CreateRun(r, k) \/ AppendEvent(r, k)
       \/ FreezeBoard(r, k) \/ SealPassport(r, k)

Spec == Init /\ [][Next]_vars

-----------------------------------------------------------------------------
(* Correctness.                                                            *)

\* Every variable has its type; since 0005 no row is without hashes.
TypeOK ==
  /\ schema \in {"plain", "hashed", "bound"}
  /\ \A r \in Runs : \A i \in DOMAIN log[r] :
       /\ log[r][i].sequence = i
       /\ log[r][i].kind \in Kinds
       /\ IF Hashed THEN {log[r][i].prev, log[r][i].hash} \subseteq Hashes
          ELSE log[r][i].prev = None /\ log[r][i].hash = None
  /\ binding \in [Runs -> {None, "0.2.0", "0.3.0"}]
  /\ board \in [Runs -> BOOLEAN]

\* A chain that starts on placeholders goes on from them: whatever the row before
\* it carries, a new event is linked to it and has the hash of its own content.
NewEventsLink ==
  Hashed => \A r \in Runs : \A i \in DOMAIN log[r] :
    log[r][i].hash # ZeroHash =>
      /\ log[r][i].hash = EventHash(log[r][i])
      /\ i > 1 => log[r][i].prev = log[r][i - 1].hash

\* No commitment rests on placeholders: the audit_log_hash of a passport commits
\* to every event of its run up to it, as old runs cannot get as far as that.
SealsCommit ==
  \A r \in Runs : seal[r] # None =>
    /\ Linked(SubSeq(log[r], 1, seal[r].at))
    /\ Len(seal[r].hash) = seal[r].at

=============================================================================
