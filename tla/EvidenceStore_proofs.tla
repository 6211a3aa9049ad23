------------------------ MODULE EvidenceStore_proofs ------------------------
(***************************************************************************)
(* Proofs about EvidenceStore, for any number of requests, ids and faults. *)
(***************************************************************************)
EXTENDS EvidenceStore, FiniteSetTheorems, TLAPS

-----------------------------------------------------------------------------
(* The inductive invariant.                                                *)

\* The steps at which a request has an id of its own.
Storing == {"create", "write", "insert", "discard"}

Snapshots == artifacts \cup {None}

\* What a request that holds l knows.  The id it stores is in no row, and its file
\* is as far as the request is; a freeze has seen evidence that is still there, and
\* after its second query every snapshot of it.
Holds(l) ==
  /\ l.at \in Storing =>
       /\ l.object.id \notin Stored
       /\ l.at = "create" => file[l.object.id] = "absent"
       /\ l.at = "write" => file[l.object.id] = "partial"
       /\ l.at = "insert" => file[l.object.id] = "complete"
       /\ l.object.kind = "evidence" => l.object.snapshot \in Snapshots
  /\ l.at \in {"list", "freeze"} => l.evidence \subseteq evidence
  /\ l.at = "list" => l.done \in {0, 1}
  /\ l.at = "freeze" => \A e \in l.evidence : e.snapshot \in l.artifacts \cup {None}

RequestInv == \A h \in Handlers : Holds(handler[h])

\* No two requests store the same id.
OwnerInv ==
  \A g, h \in Handlers :
    handler[g].at \in Storing /\ handler[h].at \in Storing /\ g # h =>
      handler[g].object.id # handler[h].object.id

\* Rows lead to rows: from the manifest to evidence, from evidence to its snapshot.
RowInv ==
  /\ \A e \in evidence : e.snapshot \in Snapshots
  /\ board # None => board \subseteq evidence

\* The files nobody answers for.
Orphans == {id \in Ids : file[id] # "absent" /\ id \notin Stored /\ ~Busy(id)}

OrphanInv == IsFiniteSet(Orphans) /\ Cardinality(Orphans) <= faults

IInv == TypeOK /\ RequestInv /\ OwnerInv /\ RowInv /\ RowsHaveFiles /\ OrphanInv

-----------------------------------------------------------------------------
(* Requests.                                                               *)

\* What a request holds at each of its steps.
LEMMA LocalType ==
  ASSUME NEW l \in Local
  PROVE  /\ l.at \in Storing => /\ l.object \in Object
                                /\ l.object.id \in Ids
                                /\ l.object.kind \in {"artifact", "evidence"}
         /\ l.at \in {"list", "freeze"} => l \in
              [at: {"list", "freeze"}, done: 0 .. 2, evidence: SUBSET Row,
               artifacts: SUBSET Ids]
BY DEF Local, Object, Storing, Idle

\* The step of one request leaves the others where they are.
LEMMA GotoType ==
  ASSUME handler \in [Handlers -> Local], NEW h \in Handlers, NEW l \in Local,
         Goto(h, l)
  PROVE  /\ handler' \in [Handlers -> Local]
         /\ handler'[h] = l
         /\ \A g \in Handlers \ {h} : handler'[g] = handler[g]
BY DEF Goto

\* A step of request h that adds rows, none of them of an id that another request
\* stores, and changes no file of such an id, takes from no other request what it
\* knows.
LEMMA OthersHold ==
  ASSUME TypeOK, RequestInv, NEW h \in Handlers,
         \A g \in Handlers \ {h} : handler'[g] = handler[g],
         artifacts \subseteq artifacts', evidence \subseteq evidence',
         \A g \in Handlers \ {h} : handler[g].at \in Storing =>
           /\ handler[g].object.id \notin Stored'
           /\ file'[handler[g].object.id] = file[handler[g].object.id]
  PROVE  \A g \in Handlers \ {h} : Holds(handler[g])'
BY DEF RequestInv, Holds, Snapshots

\* A step whose request stores nothing afterwards, or the id it stored before, or
\* one that is fresh, keeps the ids of requests apart.
LEMMA OwnersApart ==
  ASSUME TypeOK, OwnerInv, NEW h \in Handlers,
         \A g \in Handlers \ {h} : handler'[g] = handler[g],
         handler'[h].at \in Storing =>
           \/ handler[h].at \in Storing /\ handler'[h].object = handler[h].object
           \/ ~Busy(handler'[h].object.id)
  PROVE  OwnerInv'
BY DEF OwnerInv, Busy, Storing

\* Where no id gets orphaned, their number does not grow.
LEMMA NoNewOrphans ==
  ASSUME OrphanInv, Orphans' \subseteq Orphans, TypeOK, TypeOK', faults <= faults'
  PROVE  OrphanInv'
<1>1. /\ IsFiniteSet(Orphans') /\ Cardinality(Orphans') <= Cardinality(Orphans)
      /\ Cardinality(Orphans') \in Nat /\ Cardinality(Orphans) \in Nat
  BY FS_Subset, FS_CardinalityType DEF OrphanInv
<1>2. faults \in Nat /\ faults' \in Nat
  BY StoreAssumption DEF TypeOK
<1>. QED  BY <1>1, <1>2 DEF OrphanInv

\* One id may be orphaned at the price of a fault.
LEMMA OneNewOrphan ==
  ASSUME OrphanInv, NEW x, Orphans' \subseteq Orphans \cup {x}, TypeOK, TypeOK',
         faults' = faults + 1
  PROVE  OrphanInv'
<1>1. /\ IsFiniteSet(Orphans \cup {x})
      /\ Cardinality(Orphans \cup {x}) <= Cardinality(Orphans) + 1
      /\ Cardinality(Orphans) \in Nat /\ Cardinality(Orphans \cup {x}) \in Nat
  <2>1. IsFiniteSet(Orphans) /\ Cardinality(Orphans) \in Nat
    BY FS_CardinalityType DEF OrphanInv
  <2>2. /\ IsFiniteSet(Orphans \cup {x})
        /\ Cardinality(Orphans \cup {x}) =
             IF x \in Orphans THEN Cardinality(Orphans) ELSE Cardinality(Orphans) + 1
    BY <2>1, FS_AddElement
  <2>. QED  BY <2>1, <2>2
<1>2. /\ IsFiniteSet(Orphans') /\ Cardinality(Orphans') \in Nat
      /\ Cardinality(Orphans') <= Cardinality(Orphans \cup {x})
  BY <1>1, FS_Subset, FS_CardinalityType
<1>3. faults \in Nat
  BY StoreAssumption DEF TypeOK
<1>. QED  BY <1>1, <1>2, <1>3 DEF OrphanInv

-----------------------------------------------------------------------------
(* Steps that change neither files nor rows.                               *)

\* A request that moves on, keeping its id or taking a fresh one, and knows what it
\* has to know by then.
LEMMA MovePreserves ==
  ASSUME IInv, NEW h \in Handlers, NEW l \in Local, Goto(h, l), Holds(l),
         UNCHANGED <<file, rows, faults>>,
         handler[h].at \in Storing =>
           l.at \in Storing /\ l.object = handler[h].object,
         l.at \in Storing =>
           \/ handler[h].at \in Storing /\ l.object = handler[h].object
           \/ ~Busy(l.object.id)
  PROVE  IInv'
<1>1. /\ handler' \in [Handlers -> Local]
      /\ handler'[h] = l
      /\ \A g \in Handlers \ {h} : handler'[g] = handler[g]
  BY GotoType DEF IInv, TypeOK
<1>2. TypeOK' /\ RowInv' /\ RowsHaveFiles'
  BY <1>1 DEF IInv, TypeOK, RowInv, RowsHaveFiles, Stored, Snapshots, rows
<1>3. Holds(l)'
  BY DEF Holds, Stored, Snapshots, rows
<1>4. RequestInv'
  BY <1>1, <1>3 DEF IInv, RequestInv, Holds, Stored, Snapshots, rows
<1>5. OwnerInv'
  BY <1>1, OwnersApart DEF IInv
<1>6. Orphans' \subseteq Orphans
  BY <1>1 DEF Orphans, Busy, Stored, Storing, rows
<1>7. OrphanInv'
  <2>1. faults' = faults /\ faults \in Nat
    BY StoreAssumption DEF IInv, TypeOK
  <2>. QED  BY <1>2, <1>6, <2>1, NoNewOrphans DEF IInv
<1>. QED  BY <1>2, <1>4, <1>5, <1>7 DEF IInv

-----------------------------------------------------------------------------
(* The actions.                                                            *)

\* What the invariant says of a request that stores an object.
LEMMA StoringRequest ==
  ASSUME IInv, NEW h \in Handlers, handler[h].at \in Storing
  PROVE  /\ handler[h].object \in Object /\ handler[h].object.id \in Ids
         /\ handler[h].object.id \notin Stored
         /\ \A step \in Storing : [at |-> step, object |-> handler[h].object] \in Local
         /\ \A g \in Handlers \ {h} : handler[g].at \in Storing =>
              handler[g].object.id # handler[h].object.id
<1>1. handler[h] \in Local /\ Holds(handler[h])
  BY DEF IInv, TypeOK, RequestInv
<1>2. handler[h].object \in Object /\ handler[h].object.id \in Ids
  BY <1>1, LocalType
<1>. QED  BY <1>1, <1>2 DEF Holds, Local, Storing, IInv, OwnerInv

\* A new request: its id is fresh, its snapshot an artifact.
LEMMA BeginPreserves ==
  ASSUME IInv, NEW h \in Handlers, NEW id \in Ids,
         BeginArtifact(h, id) \/ BeginEvidence(h, id)
  PROVE  IInv'
<1>1. PICK o \in Object :
        /\ o.id = id /\ (o.kind = "evidence" => o.snapshot \in Snapshots)
        /\ Goto(h, [at |-> "create", object |-> o])
  <2>1. CASE BeginArtifact(h, id)
    BY <2>1 DEF BeginArtifact, Object
  <2>2. CASE BeginEvidence(h, id)
    <3>1. PICK t \in artifacts \cup {None} :
            Goto(h, [at |-> "create", object |-> [kind |-> "evidence", id |-> id,
            snapshot |-> t]])
      BY <2>2 DEF BeginEvidence
    <3>2. [kind |-> "evidence", id |-> id, snapshot |-> t] \in Object
      BY <3>1 DEF Object, IInv, TypeOK
    <3>. QED  BY <3>1, <3>2 DEF Snapshots
  <2>. QED  BY <2>1, <2>2
<1>2. Fresh(id) /\ At(h, "idle") /\ UNCHANGED <<file, rows, faults>>
  BY DEF BeginArtifact, BeginEvidence
<1> DEFINE l == [at |-> "create", object |-> o]
<1>3. l \in Local /\ l.at = "create" /\ l.object = o
  BY DEF Local
<1>4. Holds(l)
  BY <1>1, <1>2, <1>3 DEF Holds, Fresh
<1>5. handler[h].at \notin Storing /\ ~Busy(l.object.id)
  BY <1>1, <1>2, <1>3 DEF Fresh, At, Storing
<1>6. Goto(h, l)
  BY <1>1
<1>. HIDE DEF l
<1>. QED  BY <1>2, <1>3, <1>4, <1>5, <1>6, MovePreserves

\* A write or an insert that failed: the request goes on to remove its file.
LEMMA FailWritePreserves ==
  ASSUME IInv, NEW h \in Handlers, FailWrite(h)
  PROVE  IInv'
<1> DEFINE l == [at |-> "discard", object |-> handler[h].object]
<1>1. handler[h].at \in Storing
  BY DEF FailWrite, At, Storing
<1>2. Goto(h, l) /\ UNCHANGED <<file, rows, faults>>
  BY DEF FailWrite, Proceed
<1>3. l \in Local /\ l.at = "discard" /\ l.object = handler[h].object
  BY <1>1, StoringRequest DEF Storing
<1>4. Holds(l)
  BY <1>1, <1>3 DEF Holds, IInv, RequestInv, Storing
<1>. HIDE DEF l
<1>. QED  BY <1>1, <1>2, <1>3, <1>4, MovePreserves DEF Storing

\* The steps of a freeze that write nothing.
LEMMA FreezeReadsPreserve ==
  ASSUME IInv, NEW h \in Handlers, BeginFreeze(h) \/ List(h) \/ RefuseFreeze(h)
  PROVE  IInv'
<1>1. UNCHANGED <<file, rows, faults>>
  BY DEF BeginFreeze, List, RefuseFreeze
<1>2. handler[h].at \notin Storing
  BY DEF BeginFreeze, List, RefuseFreeze, At, Storing
<1>3. \E l \in Local : Goto(h, l) /\ Holds(l) /\ l.at \notin Storing
  <2>1. CASE BeginFreeze(h)
    <3> DEFINE l == [at |-> "list", done |-> 0, evidence |-> {}, artifacts |-> {}]
    <3>1. l \in Local /\ Holds(l) /\ l.at \notin Storing
      BY DEF Local, Holds, Storing
    <3>. QED  BY <2>1, <3>1 DEF BeginFreeze
  <2>2. CASE RefuseFreeze(h)
    <3>1. Idle \in Local /\ Holds(Idle) /\ Idle.at \notin Storing
      BY DEF Local, Holds, Idle, Storing
    <3>. QED  BY <2>2, <3>1 DEF RefuseFreeze, Return
  <2>3. CASE List(h)
    <3> DEFINE l == handler[h]
    <3>1. /\ l.at = "list" /\ l.done \in {0, 1} /\ l.evidence \subseteq evidence
          /\ l \in [at: {"list", "freeze"}, done: 0 .. 2, evidence: SUBSET Row,
                    artifacts: SUBSET Ids]
      BY <2>3, LocalType DEF List, At, IInv, TypeOK, RequestInv, Holds
    <3>2. evidence \subseteq Row /\ artifacts \subseteq Ids
      BY DEF IInv, TypeOK
    <3>3. CASE l.done = 0
      <4> DEFINE m == [at |-> "list", done |-> 1, evidence |-> evidence,
                       artifacts |-> l.artifacts]
      <4>1. Goto(h, m)
        BY <2>3, <3>1, <3>3 DEF List, Queries
      <4>2. m \in Local
        BY <3>1, <3>2 DEF Local
      <4>3. Holds(m) /\ m.at \notin Storing
        BY DEF Holds, Storing
      <4>. QED  BY <4>1, <4>2, <4>3
    <3>4. CASE l.done = 1
      <4> DEFINE m == [at |-> "freeze", done |-> 2, evidence |-> l.evidence,
                       artifacts |-> artifacts]
      <4>1. Goto(h, m)
        BY <2>3, <3>1, <3>4 DEF List, Queries
      <4>2. m \in Local
        BY <3>1, <3>2 DEF Local
      <4>3. Holds(m) /\ m.at \notin Storing
        BY <3>1 DEF Holds, Storing, IInv, RowInv, Snapshots
      <4>. QED  BY <4>1, <4>2, <4>3
    <3>. QED  BY <3>1, <3>3, <3>4
  <2>. QED  BY <2>1, <2>2, <2>3
<1>. QED  BY <1>1, <1>2, <1>3, MovePreserves

\* The file of a request is created, and then complete.
LEMMA FilePreserves ==
  ASSUME IInv, NEW h \in Handlers, CreateFile(h) \/ WriteFile(h)
  PROVE  IInv'
<1> DEFINE o == handler[h].object
<1>1. handler[h].at \in Storing
  BY DEF CreateFile, WriteFile, At, Storing
<1>2. /\ o.id \in Ids /\ o.id \notin Stored
      /\ \A g \in Handlers \ {h} : handler[g].at \in Storing => handler[g].object.id # o.id
  BY <1>1, StoringRequest
<1>3. UNCHANGED <<rows, faults>>
  BY DEF CreateFile, WriteFile
<1>4. PICK step \in {"write", "insert"} :
        /\ Goto(h, [at |-> step, object |-> o])
        /\ file' = [file EXCEPT ![o.id] = IF step = "write" THEN "partial" ELSE "complete"]
  BY DEF CreateFile, WriteFile, Proceed
<1>5. /\ handler' \in [Handlers -> Local]
      /\ handler'[h] = [at |-> step, object |-> o]
      /\ \A g \in Handlers \ {h} : handler'[g] = handler[g]
  <2>1. [at |-> step, object |-> o] \in Local
    BY <1>1, StoringRequest DEF Storing
  <2>. QED  BY <1>4, <2>1, GotoType DEF IInv, TypeOK
<1>6. TypeOK' /\ RowInv' /\ RowsHaveFiles'
  BY <1>2, <1>3, <1>4, <1>5
     DEF IInv, TypeOK, RowInv, RowsHaveFiles, Stored, Snapshots, rows, FileState
<1>7. RequestInv'
  <2>1. \A g \in Handlers \ {h} : Holds(handler[g])'
    <3>1. \A g \in Handlers \ {h} : handler[g].at \in Storing =>
            /\ handler[g].object.id \notin Stored'
            /\ file'[handler[g].object.id] = file[handler[g].object.id]
      BY <1>2, <1>3, <1>4, StoringRequest DEF IInv, TypeOK, Stored, rows
    <3>2. artifacts \subseteq artifacts' /\ evidence \subseteq evidence'
      BY <1>3 DEF rows
    <3>. QED  BY <1>5, <3>1, <3>2, OthersHold DEF IInv
  <2>2. Holds(handler[h])'
    <3>1. o.kind = "evidence" => o.snapshot \in Snapshots
      BY <1>1 DEF IInv, RequestInv, Holds
    <3>2. file'[o.id] = IF step = "write" THEN "partial" ELSE "complete"
      BY <1>2, <1>4 DEF IInv, TypeOK
    <3>. QED  BY <1>2, <1>3, <1>5, <3>1, <3>2 DEF Holds, Stored, Snapshots, rows
  <2>. QED  BY <2>1, <2>2 DEF RequestInv
<1>8. OwnerInv'
  BY <1>1, <1>5, OwnersApart DEF IInv
<1>9. OrphanInv'
  <2>1. Busy(o.id)'
    BY <1>5 DEF Busy
  <2>2. Orphans' \subseteq Orphans
    BY <1>2, <1>3, <1>4, <1>5, <2>1 DEF Orphans, Busy, Stored, Storing, rows, IInv, TypeOK
  <2>3. faults' = faults /\ faults \in Nat
    BY <1>3, StoreAssumption DEF IInv, TypeOK
  <2>. QED  BY <1>6, <2>2, <2>3, NoNewOrphans DEF IInv
<1>. QED  BY <1>6, <1>7, <1>8, <1>9 DEF IInv

\* The row is inserted: its file is complete.
LEMMA InsertPreserves ==
  ASSUME IInv, NEW h \in Handlers, InsertRow(h)
  PROVE  IInv'
<1> DEFINE o == handler[h].object
<1>1. handler[h].at = "insert"
  BY DEF InsertRow, At
<1>2. /\ o \in Object /\ o.id \in Ids /\ o.id \notin Stored
      /\ \A g \in Handlers \ {h} : handler[g].at \in Storing => handler[g].object.id # o.id
      /\ file[o.id] = "complete"
      /\ o.kind = "evidence" => o.snapshot \in Snapshots
  BY <1>1, StoringRequest DEF Storing, IInv, RequestInv, Holds
<1>3. UNCHANGED <<file, board, faults>>
  BY DEF InsertRow
<1>4. /\ handler' \in [Handlers -> Local]
      /\ handler'[h] = Idle
      /\ \A g \in Handlers \ {h} : handler'[g] = handler[g]
  BY GotoType DEF InsertRow, Return, Local, IInv, TypeOK
<1>5. /\ artifacts \subseteq artifacts' /\ evidence \subseteq evidence'
      /\ artifacts' \subseteq artifacts \cup {o.id}
      /\ \A e \in evidence' \ evidence : e \in Row /\ e.id = o.id /\ e.snapshot \in Snapshots
      /\ Stored' = Stored \cup {o.id}
  <2>1. CASE o.kind = "artifact"
    BY <2>1 DEF InsertRow, InsertObject, Stored
  <2>2. CASE o.kind # "artifact"
    <3>1. /\ evidence' = evidence \cup {[id |-> o.id, snapshot |-> o.snapshot]}
          /\ artifacts' = artifacts
      BY <2>2 DEF InsertRow, InsertObject
    <3>2. o.kind = "evidence" /\ [id |-> o.id, snapshot |-> o.snapshot] \in Row
      BY <1>2, <2>2 DEF Object, Row
    <3>. QED  BY <1>2, <3>1, <3>2 DEF Stored
  <2>. QED  BY <2>1, <2>2
<1>6. TypeOK'
  BY <1>2, <1>3, <1>4, <1>5 DEF IInv, TypeOK
<1>7. RowInv'
  BY <1>3, <1>5 DEF IInv, RowInv, Snapshots
<1>8. RowsHaveFiles'
  BY <1>2, <1>3, <1>5 DEF IInv, RowsHaveFiles
<1>9. RequestInv'
  <2>1. \A g \in Handlers \ {h} : handler[g].at \in Storing =>
          /\ handler[g].object.id \notin Stored'
          /\ file'[handler[g].object.id] = file[handler[g].object.id]
    BY <1>2, <1>3, <1>5, StoringRequest
  <2>2. \A g \in Handlers \ {h} : Holds(handler[g])'
    BY <1>4, <1>5, <2>1, OthersHold DEF IInv
  <2>3. Holds(handler[h])'
    BY <1>4 DEF Holds, Idle, Storing
  <2>. QED  BY <2>2, <2>3 DEF RequestInv
<1>10. OwnerInv'
  BY <1>4, OwnersApart DEF IInv, Idle, Storing
<1>11. OrphanInv'
  <2>1. \A id \in Ids : Busy(id) => Busy(id)' \/ id = o.id
    BY <1>4 DEF Busy
  <2>2. Orphans' \subseteq Orphans
    BY <1>3, <1>5, <2>1 DEF Orphans
  <2>3. faults' = faults /\ faults \in Nat
    BY <1>3, StoreAssumption DEF IInv, TypeOK
  <2>. QED  BY <1>6, <2>2, <2>3, NoNewOrphans DEF IInv
<1>. QED  BY <1>6, <1>7, <1>8, <1>9, <1>10, <1>11 DEF IInv

\* A request ends: it removes its file, or leaves it behind at the price of a fault.
LEMMA EndPreserves ==
  ASSUME IInv, NEW h \in Handlers, Discard(h) \/ Abandon(h)
  PROVE  IInv'
<1> DEFINE o == handler[h].object
<1>1. UNCHANGED rows
  BY DEF Discard, Abandon
<1>2. /\ handler' \in [Handlers -> Local]
      /\ handler'[h] = Idle
      /\ \A g \in Handlers \ {h} : handler'[g] = handler[g]
  BY GotoType DEF Discard, Abandon, Return, Local, IInv, TypeOK
<1>3. \/ Abandon(h) /\ file' = file
      \/ /\ Discard(h) /\ handler[h].at \in Storing
         /\ file' = [file EXCEPT ![o.id] = "absent"]
  BY DEF Discard, Abandon, At, Storing
<1>4. handler[h].at \in Storing =>
        /\ o.id \in Ids /\ o.id \notin Stored
        /\ \A g \in Handlers \ {h} : handler[g].at \in Storing => handler[g].object.id # o.id
  BY StoringRequest
<1>5. faults' \in 0 .. MaxFaults
  BY StoreAssumption DEF Discard, Abandon, IInv, TypeOK
<1>6. TypeOK' /\ RowInv' /\ RowsHaveFiles'
  <2>1. /\ file' \in [Ids -> FileState]
        /\ \A id \in Stored : file'[id] = file[id]
    <3>1. Stored \subseteq Ids /\ file \in [Ids -> FileState]
      BY DEF IInv, TypeOK, Row, Stored
    <3>2. CASE file' = file
      BY <3>1, <3>2
    <3>3. CASE /\ o.id \in Ids /\ o.id \notin Stored
               /\ file' = [file EXCEPT ![o.id] = "absent"]
      BY <3>1, <3>3 DEF FileState
    <3>. QED  BY <1>3, <1>4, <3>2, <3>3
  <2>2. TypeOK'
    BY <1>1, <1>2, <1>5, <2>1 DEF IInv, TypeOK, rows
  <2>3. RowInv'
    BY <1>1 DEF IInv, RowInv, Snapshots, rows
  <2>4. Stored' = Stored
    BY <1>1 DEF Stored, rows
  <2>5. RowsHaveFiles'
    BY <2>1, <2>4 DEF IInv, RowsHaveFiles
  <2>. QED  BY <2>2, <2>3, <2>5
<1>7. RequestInv'
  <2>1. \A g \in Handlers \ {h} : handler[g].at \in Storing =>
          /\ handler[g].object.id \notin Stored'
          /\ file'[handler[g].object.id] = file[handler[g].object.id]
    <3> SUFFICES ASSUME NEW g \in Handlers \ {h}, handler[g].at \in Storing
                 PROVE  /\ handler[g].object.id \notin Stored'
                        /\ file'[handler[g].object.id] = file[handler[g].object.id]
      OBVIOUS
    <3>1. handler[g].object.id \in Ids /\ handler[g].object.id \notin Stored
      BY StoringRequest
    <3>. QED  BY <1>1, <1>3, <1>4, <3>1 DEF Stored, rows, IInv, TypeOK
  <2>2. \A g \in Handlers \ {h} : Holds(handler[g])'
    BY <1>1, <1>2, <2>1, OthersHold DEF IInv, rows
  <2>3. Holds(handler[h])'
    BY <1>2 DEF Holds, Idle, Storing
  <2>. QED  BY <2>2, <2>3 DEF RequestInv
<1>8. OwnerInv'
  BY <1>2, OwnersApart DEF IInv, Idle, Storing
<1>9. OrphanInv'
  <2>1. \A id \in Ids : Busy(id) => Busy(id)' \/ id = o.id
    BY <1>2 DEF Busy
  <2>2. CASE Abandon(h)
    <3>1. Orphans' \subseteq Orphans \cup {o.id} /\ faults' = faults + 1
      BY <1>1, <2>1, <2>2 DEF Orphans, Abandon, Stored, rows
    <3>. QED  BY <1>6, <3>1, OneNewOrphan DEF IInv
  <2>3. CASE Discard(h)
    <3>1. file'[o.id] = "absent" /\ \A id \in Ids \ {o.id} : file'[id] = file[id]
      BY <1>4, <2>3 DEF Discard, At, Storing, IInv, TypeOK
    <3>2. Orphans' \subseteq Orphans
      BY <1>1, <2>1, <3>1 DEF Orphans, Stored, rows
    <3>3. faults' = faults /\ faults \in Nat
      BY <2>3, StoreAssumption DEF Discard, IInv, TypeOK
    <3>. QED  BY <1>6, <3>2, <3>3, NoNewOrphans DEF IInv
  <2>. QED  BY <1>3, <2>2, <2>3
<1>. QED  BY <1>6, <1>7, <1>8, <1>9 DEF IInv

\* The board is frozen from evidence that is still there.
LEMMA FreezePreserves ==
  ASSUME IInv, NEW h \in Handlers, FreezeBoard(h)
  PROVE  IInv'
<1>1. UNCHANGED <<file, artifacts, evidence, faults>>
  BY DEF FreezeBoard
<1>2. /\ handler' \in [Handlers -> Local]
      /\ handler'[h] = Idle
      /\ \A g \in Handlers \ {h} : handler'[g] = handler[g]
  BY GotoType DEF FreezeBoard, Return, Local, IInv, TypeOK
<1>3. handler[h].at = "freeze" /\ handler[h].evidence \subseteq evidence
  BY DEF FreezeBoard, At, IInv, RequestInv, Holds
<1>4. board' \subseteq evidence
  BY <1>3 DEF FreezeBoard
<1>5. TypeOK'
  BY <1>1, <1>2, <1>4 DEF IInv, TypeOK
<1>6. RowInv' /\ RowsHaveFiles'
  BY <1>1, <1>4 DEF IInv, RowInv, RowsHaveFiles, Stored, Snapshots
<1>7. RequestInv'
  BY <1>1, <1>2 DEF IInv, RequestInv, Holds, Stored, Snapshots, Idle, Storing
<1>8. OwnerInv'
  BY <1>2, OwnersApart DEF IInv, Idle, Storing
<1>9. OrphanInv'
  <2>1. Orphans' \subseteq Orphans
    BY <1>1, <1>2, <1>3 DEF Orphans, Busy, Stored
  <2>2. faults' = faults /\ faults \in Nat
    BY <1>1, StoreAssumption DEF IInv, TypeOK
  <2>. QED  BY <1>5, <2>1, <2>2, NoNewOrphans DEF IInv
<1>. QED  BY <1>5, <1>6, <1>7, <1>8, <1>9 DEF IInv

-----------------------------------------------------------------------------
(* Theorems.                                                               *)

\* Without files and rows the invariant holds.
LEMMA InitInv == Init => IInv
<1> SUFFICES ASSUME Init
             PROVE  IInv
  OBVIOUS
<1>1. TypeOK
  BY StoreAssumption DEF Init, TypeOK, FileState, Local
<1>2. RequestInv /\ OwnerInv
  BY DEF Init, RequestInv, OwnerInv, Holds, Idle, Storing
<1>3. RowInv /\ RowsHaveFiles
  BY DEF Init, RowInv, RowsHaveFiles, Stored
<1>4. Orphans = {}
  BY DEF Init, Orphans
<1>5. OrphanInv
  BY <1>4, FS_EmptySet DEF Init, OrphanInv
<1>. QED  BY <1>1, <1>2, <1>3, <1>5 DEF IInv

\* Every step, and a stutter, keeps the invariant.
LEMMA NextInv == IInv /\ [Next]_vars => IInv'
<1> SUFFICES ASSUME IInv, [Next]_vars
             PROVE  IInv'
  OBVIOUS
<1>1. CASE UNCHANGED vars
  BY SMTT(30), <1>1 DEF IInv, TypeOK, RequestInv, OwnerInv, RowInv, RowsHaveFiles,
     OrphanInv, Orphans,
              Holds, Busy, Stored, Snapshots, vars, rows
<1>2. CASE Next
  <2>1. PICK h \in Handlers :
          \/ \E id \in Ids : BeginArtifact(h, id) \/ BeginEvidence(h, id)
          \/ CreateFile(h) \/ WriteFile(h) \/ FailWrite(h) \/ InsertRow(h) \/ Discard(h)
          \/ BeginFreeze(h) \/ List(h) \/ FreezeBoard(h) \/ RefuseFreeze(h)
          \/ Abandon(h)
    BY <1>2 DEF Next
  <2>. QED  BY <2>1, BeginPreserves, FilePreserves, FailWritePreserves, InsertPreserves,
               EndPreserves, FreezeReadsPreserve, FreezePreserves
<1>. QED  BY <1>1, <1>2

\* What requests know, who owns an id and how many files nobody answers for: the
\* strengthening that the properties of EvidenceStore follow from.
THEOREM InductiveInvariant == Spec => []IInv
BY InitInv, NextInv, PTL DEF Spec

\* Every variable has its type.
THEOREM TypeCorrect == Spec => []TypeOK
<1>1. IInv => TypeOK
  BY DEF IInv
<1>. QED  BY <1>1, InductiveInvariant, PTL

\* A row never names a file that is missing or half written (create_artifact and
\* create_evidence write the file first and remove it only while it has no row).
THEOREM RowsBacked == Spec => []RowsHaveFiles
<1>1. IInv => RowsHaveFiles
  BY DEF IInv
<1>. QED  BY <1>1, InductiveInvariant, PTL

\* The frozen manifest leads to stored evidence, its snapshots and their files.
THEOREM ManifestBacked == Spec => []ManifestIsBacked
<1>1. IInv => ManifestIsBacked
  BY DEF IInv, ManifestIsBacked, RowInv, RowsHaveFiles, Stored, Snapshots
<1>. QED  BY <1>1, InductiveInvariant, PTL

\* There are at most as many files without a row or a request as requests vanished.
THEOREM FewOrphans == Spec => []OrphansAreFaults
<1>1. IInv => OrphansAreFaults
  BY DEF IInv, OrphansAreFaults, OrphanInv, Orphans
<1>. QED  BY <1>1, InductiveInvariant, PTL

\* A freeze finds the snapshots of the evidence it has read, in two queries without
\* a transaction.
THEOREM SnapshotsFound == Spec => []FreezeFindsSnapshots
<1>1. IInv => FreezeFindsSnapshots
  BY DEF IInv, FreezeFindsSnapshots, RequestInv, Holds, At
<1>. QED  BY <1>1, InductiveInvariant, PTL

=============================================================================
