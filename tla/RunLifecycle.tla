---------------------------- MODULE RunLifecycle ----------------------------
(***************************************************************************)
(* The vocabulary of an audit run that the trust core, its abstract        *)
(* specification and the orchestrator share: the statuses of a run, the    *)
(* kinds of events in its log, and what an event or a decision does to the *)
(* status.                                                                 *)
(***************************************************************************)

Terminal == {"success", "failed"}
RunStatus == {"pending", "running", "waiting_approval"} \cup Terminal

\* Events a client may append.  "note" stands for every type that leaves the
\* run alone (error, artifact_created, the decision events); run_success and
\* run_failed are run_status_changed with that payload.
ClientKinds == {"node_started", "node_finished", "approval_required",
                "run_success", "run_failed", "note"}
\* What a human may decide; its kind is that of the approval_resolved event.
Decision == {"approve_offchain", "approve_testnet", "reject"}
\* Events only the trust core appends.
CoreKinds == {"run_created", "evidence_board_frozen", "score_changed",
              "provenance_frozen", "attestation_submitted",
              "attestation_confirmed"} \cup Decision
Kinds == ClientKinds \cup CoreKinds

\* A projection that leaves the status as it is: COALESCE(NULL, status).
Keep == "keep"
\* Mutant: the column is overwritten with whatever the projection says.
Overwrite(new, old) == new
Coalesce(new, old) == IF new = Keep THEN old ELSE new

\* event_projection: pairs of the status an event needs and the one it sets.
EventProjection ==
  [node_started      |-> {<<"pending", "running">>, <<"running", Keep>>},
   node_finished     |-> {<<"running", Keep>>},
   approval_required |-> {<<"running", "waiting_approval">>},
   run_success       |-> {<<"running", "success">>},
   run_failed        |-> {<<s, "failed">> : s \in RunStatus \ Terminal},
   note              |-> {<<s, Keep>> : s \in RunStatus}]

\* The status a decision moves a waiting run to.
NextStatus == [approve_offchain |-> "success",
               approve_testnet  |-> "running",
               reject           |-> "failed"]

=============================================================================
