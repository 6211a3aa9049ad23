--------------------------- MODULE EvidenceStore ---------------------------
(***************************************************************************)
(* The artifacts and evidence of one run: content in files under the       *)
(* storage root, metadata in SQLite, and the requests that write first one *)
(* and then the other.  There is no transaction over both.  A request can  *)
(* end between any two steps (Abandon), and a restart of the server is     *)
(* that for all of them.                                                   *)
(*                                                                         *)
(* Abstracted: content (a file is complete or it is not), the event that   *)
(* is inserted with each row (TrustCore), and the validation of a board    *)
(* beyond the evidence it names.                                           *)
(***************************************************************************)
EXTENDS Naturals, FiniteSets

CONSTANTS
  Handlers,   \* requests that can be in flight at the same time
  Ids,        \* fresh UUIDs: a name of an artifact or of a piece of evidence
  None,       \* no snapshot
  MaxFaults   \* bound: abandoned requests and failed removals of files

ASSUME StoreAssumption == None \notin Ids /\ MaxFaults \in Nat

VARIABLES
  file,       \* for each id, its file under the storage root
  artifacts,  \* rows of artifacts
  evidence,   \* rows of evidence, with snapshot_artifact_id
  board,      \* entries of the frozen evidence manifest, or None
  handler,    \* where each request is and what it holds
  faults      \* faults so far

rows == <<artifacts, evidence, board>>
vars == <<file, rows, handler, faults>>

-----------------------------------------------------------------------------
Idle == [at |-> "idle"]
Row == [id: Ids, snapshot: Ids \cup {None}]
FileState == {"absent", "partial", "complete"}

\* A request that stores an object: an artifact, or a piece of evidence with
\* its snapshot.
Object == [kind: {"artifact"}, id: Ids]
            \cup [kind: {"evidence"}, id: Ids, snapshot: Ids \cup {None}]
Local ==
  {Idle}
    \cup [at: {"create", "write", "insert", "discard"}, object: Object]
    \cup [at: {"list", "freeze"}, done: 0 .. 2, evidence: SUBSET Row,
          artifacts: SUBSET Ids]

At(h, step) == handler[h].at = step
Goto(h, local) == handler' = [handler EXCEPT ![h] = local]
Return(h) == Goto(h, Idle)
Proceed(h, step) == Goto(h, [at |-> step, object |-> handler[h].object])

Stored == artifacts \cup {e.id : e \in evidence}
Busy(id) == \E h \in Handlers :
              /\ handler[h].at \in {"create", "write", "insert", "discard"}
              /\ handler[h].object.id = id

-----------------------------------------------------------------------------
(* create_artifact and create_evidence.                                    *)

\* Uuid::new_v4().
Fresh(id) == id \notin Stored /\ file[id] = "absent" /\ ~Busy(id)

BeginArtifact(h, id) ==
  /\ At(h, "idle") /\ Fresh(id)
  /\ Goto(h, [at |-> "create", object |-> [kind |-> "artifact", id |-> id]])
  /\ UNCHANGED <<file, rows, faults>>

\* create_evidence: the snapshot, if there is one, is an artifact of the run.
BeginEvidence(h, id) ==
  /\ At(h, "idle") /\ Fresh(id)
  /\ \E s \in artifacts \cup {None} :
       Goto(h, [at |-> "create",
                object |-> [kind |-> "evidence", id |-> id, snapshot |-> s]])
  /\ UNCHANGED <<file, rows, faults>>

\* save_file: open with create_new.
CreateFile(h) ==
  /\ At(h, "create")
  /\ file' = [file EXCEPT ![handler[h].object.id] = "partial"]
  /\ Proceed(h, "write")
  /\ UNCHANGED <<rows, faults>>

\* save_file: write_all and flush.
WriteFile(h) ==
  /\ At(h, "write")
  /\ file' = [file EXCEPT ![handler[h].object.id] = "complete"]
  /\ Proceed(h, "insert")
  /\ UNCHANGED <<rows, faults>>

\* write_all or flush fails, or the insert does: the file is to be removed.
FailWrite(h) ==
  /\ At(h, "write") \/ At(h, "insert")
  /\ Proceed(h, "discard")
  /\ UNCHANGED <<file, rows, faults>>

\* Mutant: the row is the request, kind and all.
InsertRequest(object) ==
  /\ evidence' = evidence \cup {object}
  /\ UNCHANGED artifacts

\* The INSERT of a row.
InsertObject(object) ==
  IF object.kind = "artifact"
  THEN /\ artifacts' = artifacts \cup {object.id}
       /\ UNCHANGED evidence
  ELSE /\ evidence' = evidence \cup {[id |-> object.id, snapshot |-> object.snapshot]}
       /\ UNCHANGED artifacts

\* Mutant: an error after the commit is taken for a failed insert.
InsertThenDiscard(h) ==
  /\ At(h, "insert")
  /\ InsertObject(handler[h].object)
  /\ \/ Return(h)
     \/ Proceed(h, "discard")
  /\ UNCHANGED <<file, board, faults>>

\* Repository::create_artifact and create_evidence: one transaction.
InsertRow(h) ==
  /\ At(h, "insert")
  /\ InsertObject(handler[h].object)
  /\ Return(h)
  /\ UNCHANGED <<file, board, faults>>

\* Mutant: the error returns early and the file stays.
DiscardNothing(h) ==
  /\ At(h, "discard")
  /\ Return(h)
  /\ UNCHANGED <<file, rows, faults>>

\* remove_file.
Discard(h) ==
  /\ At(h, "discard")
  /\ file' = [file EXCEPT ![handler[h].object.id] = "absent"]
  /\ Return(h)
  /\ UNCHANGED <<rows, faults>>

\* The request disappears: the client disconnects, the server stops, or the
\* removal fails and its error is dropped.
Abandon(h) ==
  /\ ~At(h, "idle")
  /\ faults < MaxFaults
  /\ faults' = faults + 1
  /\ Return(h)
  /\ UNCHANGED <<file, rows>>

-----------------------------------------------------------------------------
(* freeze_evidence_board.                                                  *)

BeginFreeze(h) ==
  /\ At(h, "idle")
  /\ Goto(h, [at |-> "list", done |-> 0, evidence |-> {}, artifacts |-> {}])
  /\ UNCHANGED <<file, rows, faults>>

\* Mutant: the same queries, the other way round.
QueriesSwapped == <<"artifacts", "evidence">>

\* list_evidence, then list_artifacts: two queries, no transaction.
Queries == <<"evidence", "artifacts">>

List(h) ==
  /\ At(h, "list")
  /\ LET l     == handler[h]
         table == Queries[l.done + 1]
     IN  Goto(h, [at        |-> IF l.done = 0 THEN "list" ELSE "freeze",
                  done      |-> l.done + 1,
                  evidence  |-> IF table = "evidence" THEN evidence ELSE l.evidence,
                  artifacts |-> IF table = "artifacts" THEN artifacts ELSE l.artifacts])
  /\ UNCHANGED <<file, rows, faults>>

\* The manifest names the evidence of the request with its snapshots.
FreezeBoard(h) ==
  /\ At(h, "freeze")
  /\ board = None
  /\ \E entries \in SUBSET handler[h].evidence :
       /\ \A e \in entries : e.snapshot \in handler[h].artifacts \cup {None}
       /\ board' = entries
  /\ Return(h)
  /\ UNCHANGED <<file, artifacts, evidence, faults>>

\* A board of that version is frozen already.
RefuseFreeze(h) ==
  /\ At(h, "freeze")
  /\ board # None
  /\ Return(h)
  /\ UNCHANGED <<file, rows, faults>>

-----------------------------------------------------------------------------
Init ==
  /\ file = [id \in Ids |-> "absent"]
  /\ artifacts = {} /\ evidence = {} /\ board = None
  /\ handler = [h \in Handlers |-> Idle]
  /\ faults = 0

Next ==
  \E h \in Handlers :
    \/ \E id \in Ids : BeginArtifact(h, id) \/ BeginEvidence(h, id)
    \/ CreateFile(h) \/ WriteFile(h) \/ FailWrite(h) \/ InsertRow(h) \/ Discard(h)
    \/ BeginFreeze(h) \/ List(h) \/ FreezeBoard(h) \/ RefuseFreeze(h)
    \/ Abandon(h)

Spec == Init /\ [][Next]_vars

-----------------------------------------------------------------------------
(* Correctness.                                                            *)

\* Every variable has its type.
TypeOK ==
  /\ file \in [Ids -> FileState]
  /\ artifacts \subseteq Ids
  /\ evidence \subseteq Row
  /\ board \in {None} \cup SUBSET Row
  /\ handler \in [Handlers -> Local]
  /\ faults \in 0 .. MaxFaults

\* What the database knows is on disk, whole: a row never names a file that is
\* missing or half written, whichever request failed or vanished meanwhile.
RowsHaveFiles == \A id \in Stored : file[id] = "complete"

\* The frozen manifest leads to content: its evidence is stored and so is every
\* snapshot it names.
ManifestIsBacked ==
  board # None =>
    \A e \in board : /\ e \in evidence
                    /\ e.snapshot # None => e.snapshot \in artifacts
                    /\ \A id \in {e.id, e.snapshot} \ {None} : file[id] = "complete"

\* A file without a row belongs to a request in flight or is left over from one
\* that vanished: an error, of the file system or of the database, leaves none.
OrphansAreFaults ==
  Cardinality({id \in Ids : file[id] # "absent" /\ id \notin Stored /\ ~Busy(id)})
    <= faults

\* A freeze never takes the database for corrupt: the snapshots of the evidence
\* it has read are among the artifacts it has read, although other requests
\* store both between its two queries.
FreezeFindsSnapshots ==
  \A h \in Handlers : At(h, "freeze") =>
    \A e \in handler[h].evidence : e.snapshot \in handler[h].artifacts \cup {None}

=============================================================================
