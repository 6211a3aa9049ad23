----------------------------- MODULE AuditGraph -----------------------------
(***************************************************************************)
(* The investigation of one run: the orchestrator process that walks the   *)
(* LangGraph graph and checkpoints it, the launcher in the HTTP server     *)
(* that starts and reaps that process, and the human who decides.          *)
(*                                                                         *)
(* The trust core appears as AuditedRun promises it: one step per request. *)
(* Of its log only the effect on the status is kept.  A process makes one  *)
(* request at a time; its body between two requests is one action with the *)
(* request it leads to.  Modelled is the path the launcher takes           *)
(* (scripts/live_audit.py): a backend is configured, research is live, so  *)
(* evidence supports no check and gaps stay open.                          *)
(***************************************************************************)
EXTENDS Naturals, FiniteSets, RunLifecycle

CONSTANTS
  Processes,     \* orchestrator processes that can exist at the same time
  None,          \* an absent checkpoint or approval
  MaxRounds,     \* ResearchBudget.max_rounds
  MaxSources,    \* ResearchBudget.max_sources
  Pages,         \* bound: pages a round of research fetches at most
  MaxFailures,   \* bound: processes killed, or requests and answers lost
  MaxRestarts    \* bound: restarts of the server

ASSUME BudgetAssumption ==
  /\ MaxRounds \in Nat \ {0} /\ MaxSources \in Nat \ {0}
  /\ Pages \in Nat /\ MaxFailures \in Nat /\ MaxRestarts \in Nat

VARIABLES
  status, evidence, frozen, scored, passports, approval,  \* trust core
  active,      \* is the run in the server's InvestigationRegistry?
  watched,     \* processes that a task of the current server waits for
  proc,        \* the processes
  checkpoint,  \* latest row of the run's thread in the checkpoint database
  auditable,   \* does live_audit.py take the run's canonical_url? (never changes)
  failures, restarts  \* bounds used up

core == <<status, evidence, frozen, scored, passports, approval>>
launcher == <<active, watched>>
setting == <<auditable, failures, restarts>>
vars == <<core, launcher, proc, checkpoint, setting>>

-----------------------------------------------------------------------------
(* The graph.                                                              *)

First == "intake_normalization"
Edge ==
  [intake_normalization  |-> "tool_fingerprint",
   tool_fingerprint      |-> "profile_selector",
   profile_selector      |-> "audit_plan_builder",
   audit_plan_builder    |-> "hypothesis_builder",
   hypothesis_builder    |-> "investigation_round",
   investigation_round   |-> "gap_analysis",
   freeze_evidence_board |-> "check_execution",
   check_execution       |-> "skeptic_review",
   skeptic_review        |-> "persist_check_results",
   persist_check_results |-> "passport_draft",
   passport_draft        |-> "human_review_gate",
   human_review_gate     |-> "end"]
Node == DOMAIN Edge \cup {"gap_analysis", "end"}

\* Nodes whose body only reads: their updates are not modelled.
Quiet == {"intake_normalization", "tool_fingerprint", "profile_selector",
          "audit_plan_builder", "check_execution", "skeptic_review"}

\* The part of GraphState that routing and requests depend on.  "few" says
\* that the gaps are few enough to count as sufficient coverage.
State == [research_round: Nat, sources_used: Nat, evidence_board: SUBSET Nat,
          few: BOOLEAN, stop: BOOLEAN, frozen_board: BOOLEAN,
          check_results_ref: BOOLEAN, passport_sequence: Nat]
Fresh == [research_round |-> 0, sources_used |-> 0, evidence_board |-> {},
          few |-> FALSE, stop |-> FALSE, frozen_board |-> FALSE,
          check_results_ref |-> FALSE, passport_sequence |-> 0]

\* _should_continue after gap_analysis, otherwise the only edge.
NextNode(node, s) ==
  IF node # "gap_analysis" THEN Edge[node]
  ELSE IF s.stop THEN "freeze_evidence_board" ELSE "investigation_round"

\* A process that runs is about to log the start of a node ("start"), in its
\* body ("body", or "collect" with so many sources to persist), about to log
\* its end ("finish") or to ask for approval ("request"); "saved" says whether
\* the checkpoint before the node is on disk.
Off == [at |-> "off"]
Booting == [at |-> "boot"]
Exited == [at |-> "exited"]
Enter(node, s, saved) == [at |-> "start", node |-> node, state |-> s,
                          todo |-> 0, saved |-> saved]
Process ==
  {Off, Booting, Exited} \cup
  [at: {"start", "body", "collect", "finish", "request"}, node: Node,
   state: State, todo: Nat, saved: BOOLEAN]

Live(p) == proc[p].at \notin {"off", "exited"}
Running(p) == Live(p) /\ proc[p].at # "boot"
In(p, node, at) == Running(p) /\ proc[p].node = node /\ proc[p].at = at
Goto(p, local) == proc' = [proc EXCEPT ![p] = local]
To(p, at) == proc' = [proc EXCEPT ![p].at = at]
Exit(p) == Goto(p, Exited)
\* The body of a node is over: its updates, and the end is to be logged.
Return(p, s) == proc' = [proc EXCEPT ![p].state = s, ![p].at = "finish"]

-----------------------------------------------------------------------------
(* Requests to the trust core.                                             *)

Allowed(kind) == \E e \in EventProjection[kind] : e[1] = status
Log(kind) ==
  \E e \in EventProjection[kind] : e[1] = status /\ status' = Coalesce(e[2], status)

\* POST /evidence-board/freeze, /check-results and /passport/freeze: the
\* orchestrator always asks for version 1, so that frozen holds one board at most.
BoardIsFree == frozen = {}
ResultsAreFree == frozen # {} /\ ~scored
PassportIsAllowed == frozen # {} /\ scored

-----------------------------------------------------------------------------
(* The launcher.                                                           *)

\* Mutant: the launcher forgets the claim once the process is spawned.
LaunchUnclaimed(p) ==
  /\ proc[p] = Off
  /\ ~active
  /\ active' = FALSE
  /\ watched' = watched \cup {p}
  /\ Goto(p, Booting)
  /\ UNCHANGED <<core, checkpoint, setting>>

\* launch_investigation: claim the run in the registry, spawn, and leave a
\* task that waits for the process.  A failed spawn releases the claim.
Launch(p) ==
  /\ proc[p] = Off
  /\ ~active
  /\ active' = TRUE
  /\ watched' = watched \cup {p}
  /\ Goto(p, Booting)
  /\ UNCHANGED <<core, checkpoint, setting>>

\* child.wait() returns and the task releases the claim; a process that an
\* earlier server started has no such task.
Reap(p) ==
  /\ proc[p] = Exited
  /\ Goto(p, Off)
  /\ watched' = watched \ {p}
  /\ active' = (active /\ p \notin watched)
  /\ UNCHANGED <<core, checkpoint, setting>>

\* The registry and the tasks are lost, the children are not killed.
RestartServer ==
  /\ restarts < MaxRestarts
  /\ restarts' = restarts + 1
  /\ active' = FALSE
  /\ watched' = {}
  /\ UNCHANGED <<core, proc, checkpoint, auditable, failures>>

-----------------------------------------------------------------------------
(* The process.                                                            *)

\* main: a canonical_url that is no repository on GitHub, or that ends in a
\* slash, ends the process before it asked for anything.  Otherwise
\* has_checkpoint, then graph.invoke(initial or None); resuming a graph that
\* reached its end runs no node.
Boot(p) ==
  /\ proc[p] = Booting
  /\ IF ~auditable THEN Exit(p)
     ELSE IF checkpoint = None THEN Goto(p, Enter(First, Fresh, FALSE))
     ELSE IF checkpoint.node = "end" THEN Exit(p)
     ELSE Goto(p, Enter(checkpoint.node, checkpoint.state, TRUE))
  /\ UNCHANGED <<core, launcher, checkpoint, setting>>

\* The checkpointer writes in the background, here at the latest before the
\* node that follows starts its body.  After the last one invoke returns.
Save(p) ==
  /\ Running(p) /\ ~proc[p].saved
  /\ checkpoint' = [node |-> proc[p].node, state |-> proc[p].state]
  /\ IF proc[p].node = "end" THEN Exit(p)
     ELSE proc' = [proc EXCEPT ![p].saved = TRUE]
  /\ UNCHANGED <<core, launcher, setting>>

\* node_started is a required event.
Start(p) ==
  /\ Running(p) /\ proc[p].at = "start" /\ proc[p].node # "end"
  /\ Log("node_started")
  /\ To(p, "body")
  /\ UNCHANGED <<evidence, frozen, scored, passports, approval, launcher,
                 checkpoint, setting>>

\* A node that updates nothing routing or requests depend on.
Think(p) ==
  /\ \E node \in Quiet : In(p, node, "body")
  /\ proc[p].saved
  /\ Return(p, proc[p].state)
  /\ UNCHANGED <<core, launcher, checkpoint, setting>>

\* hypothesis_builder: one gap per check, or what the model proposes.
Hypothesize(p) ==
  /\ In(p, "hypothesis_builder", "body") /\ proc[p].saved
  /\ \E few \in BOOLEAN : Return(p, [proc[p].state EXCEPT !.few = few])
  /\ UNCHANGED <<core, launcher, checkpoint, setting>>

\* Mutant: base_evidence is not cut down to the remaining sources.
FetchAll(p) ==
  /\ In(p, "investigation_round", "body") /\ proc[p].saved
  /\ \E n \in 0 .. Pages :
       proc' = [proc EXCEPT ![p].at = "collect", ![p].todo = n]
  /\ UNCHANGED <<core, launcher, checkpoint, setting>>

\* investigation_round: fetch pages, keep what the source budget leaves.
Fetch(p) ==
  /\ In(p, "investigation_round", "body") /\ proc[p].saved
  /\ \E n \in 0 .. Pages :
       /\ n <= MaxSources - proc[p].state.sources_used
       /\ proc' = [proc EXCEPT ![p].at = "collect", ![p].todo = n]
  /\ UNCHANGED <<core, launcher, checkpoint, setting>>

\* One create_evidence of the round: stored, stored but the answer is lost, or
\* not stored.  A live round goes on without the source it could not persist.
Collect(p) ==
  /\ Running(p) /\ proc[p].at = "collect" /\ proc[p].todo > 0
  /\ \/ /\ evidence' = evidence + 1
        /\ proc' = [proc EXCEPT ![p].todo = @ - 1,
             ![p].state.evidence_board = @ \cup {evidence + 1},
             ![p].state.sources_used = @ + 1]
     \/ /\ evidence' \in {evidence, evidence + 1}
        /\ proc' = [proc EXCEPT ![p].todo = @ - 1]
  /\ UNCHANGED <<status, frozen, scored, passports, approval, launcher,
                 checkpoint, setting>>

\* Mutant: a round without sources does not count.
CloseRoundIfAny(p) ==
  /\ Running(p) /\ proc[p].at = "collect" /\ proc[p].todo = 0
  /\ Return(p, [proc[p].state EXCEPT !.research_round =
                  IF proc[p].state.evidence_board = {} THEN @ ELSE @ + 1])
  /\ UNCHANGED <<core, launcher, checkpoint, setting>>

\* The end of the round's body.
CloseRound(p) ==
  /\ Running(p) /\ proc[p].at = "collect" /\ proc[p].todo = 0
  /\ Return(p, [proc[p].state EXCEPT !.research_round = @ + 1])
  /\ UNCHANGED <<core, launcher, checkpoint, setting>>

\* gap_analysis: stop on a spent budget or on sufficient coverage.
AnalyzeGaps(p) ==
  /\ In(p, "gap_analysis", "body") /\ proc[p].saved
  /\ LET s == proc[p].state
     IN  Return(p, [s EXCEPT !.stop = \/ s.research_round >= MaxRounds
                                      \/ s.sources_used >= MaxSources
                                      \/ s.few])
  /\ UNCHANGED <<core, launcher, checkpoint, setting>>

\* Mutant: a board that is frozen already counts as frozen by this request.
FreezeAgain(p) ==
  /\ In(p, "freeze_evidence_board", "body") /\ proc[p].saved
  /\ frozen' = IF BoardIsFree THEN {proc[p].state.evidence_board} ELSE frozen
  /\ Return(p, [proc[p].state EXCEPT !.frozen_board = TRUE])
  /\ UNCHANGED <<status, evidence, scored, passports, approval, launcher,
                 checkpoint, setting>>

\* freeze_evidence_board.
FreezeBoard(p) ==
  /\ In(p, "freeze_evidence_board", "body") /\ proc[p].saved
  /\ BoardIsFree
  /\ frozen' = {proc[p].state.evidence_board}
  /\ Return(p, [proc[p].state EXCEPT !.frozen_board = TRUE])
  /\ UNCHANGED <<status, evidence, scored, passports, approval, launcher,
                 checkpoint, setting>>

\* persist_check_results.
PersistResults(p) ==
  /\ In(p, "persist_check_results", "body") /\ proc[p].saved
  /\ proc[p].state.frozen_board
  /\ ResultsAreFree
  /\ scored' = TRUE
  /\ Return(p, [proc[p].state EXCEPT !.check_results_ref = TRUE])
  /\ UNCHANGED <<status, evidence, frozen, passports, approval, launcher,
                 checkpoint, setting>>

\* Mutant: the draft goes on when the freeze request fails.
DraftPassportAnyway(p) ==
  /\ In(p, "passport_draft", "body") /\ proc[p].saved
  /\ proc[p].state.frozen_board /\ proc[p].state.check_results_ref
  /\ PassportIsAllowed
  /\ passports' \in {passports, passports + 1}
  /\ Return(p, [proc[p].state EXCEPT !.passport_sequence = passports + 1])
  /\ UNCHANGED <<status, evidence, frozen, scored, approval, launcher,
                 checkpoint, setting>>

\* passport_draft: every accepted request freezes one more passport.
DraftPassport(p) ==
  /\ In(p, "passport_draft", "body") /\ proc[p].saved
  /\ proc[p].state.frozen_board /\ proc[p].state.check_results_ref
  /\ PassportIsAllowed
  /\ passports' = passports + 1
  /\ Return(p, [proc[p].state EXCEPT !.passport_sequence = passports'])
  /\ UNCHANGED <<status, evidence, frozen, scored, approval, launcher,
                 checkpoint, setting>>

\* human_review_gate: not before a passport is frozen.
ReachGate(p) ==
  /\ In(p, "human_review_gate", "body") /\ proc[p].saved
  /\ proc[p].state.passport_sequence # 0
  /\ Return(p, proc[p].state)
  /\ UNCHANGED <<core, launcher, checkpoint, setting>>

\* node_finished is a required event; the gate has one more to append.
Finish(p) ==
  /\ Running(p) /\ proc[p].at = "finish"
  /\ Log("node_finished")
  /\ IF proc[p].node = "human_review_gate" THEN To(p, "request")
     ELSE Goto(p, Enter(NextNode(proc[p].node, proc[p].state), proc[p].state, FALSE))
  /\ UNCHANGED <<evidence, frozen, scored, passports, approval, launcher,
                 checkpoint, setting>>

\* approval_required, after the gate's node_finished.
RequestApproval(p) ==
  /\ Running(p) /\ proc[p].at = "request"
  /\ Log("approval_required")
  /\ Goto(p, Enter("end", proc[p].state, FALSE))
  /\ UNCHANGED <<evidence, frozen, scored, passports, approval, launcher,
                 checkpoint, setting>>

\* The next request of the process is one the trust core refuses, or its node
\* raises: the error reaches main, the checkpointer finishes its writes and the
\* process ends.  Nothing tells the run.
Refused(p) ==
  /\ Running(p) /\ proc[p].saved
  /\ \/ proc[p].at = "start" /\ proc[p].node # "end" /\ ~Allowed("node_started")
     \/ proc[p].at = "finish" /\ ~Allowed("node_finished")
     \/ proc[p].at = "request" /\ ~Allowed("approval_required")
     \/ In(p, "freeze_evidence_board", "body") /\ ~BoardIsFree
     \/ /\ In(p, "persist_check_results", "body")
        /\ ~(proc[p].state.frozen_board /\ ResultsAreFree)
     \/ /\ In(p, "passport_draft", "body")
        /\ ~(/\ proc[p].state.frozen_board /\ proc[p].state.check_results_ref
             /\ PassportIsAllowed)
     \/ In(p, "human_review_gate", "body") /\ proc[p].state.passport_sequence = 0
  /\ Exit(p)
  /\ UNCHANGED <<core, launcher, checkpoint, setting>>

\* The process is killed, or a required request or its answer is lost.
Fail(p) ==
  /\ Live(p)
  /\ failures < MaxFailures
  /\ failures' = failures + 1
  /\ Exit(p)
  /\ UNCHANGED <<core, launcher, checkpoint, auditable, restarts>>

-----------------------------------------------------------------------------
(* The human and other clients of the trust core.                          *)

\* POST /approval.
Decide(d) ==
  /\ status = "waiting_approval" /\ passports > 0
  /\ approval = None
  /\ approval' = d
  /\ status' = NextStatus[d]
  /\ UNCHANGED <<evidence, frozen, scored, passports, launcher, proc,
                 checkpoint, setting>>

\* POST /attestation, when it succeeds.
Attest ==
  /\ status = "running" /\ approval = "approve_testnet"
  /\ status' = "success"
  /\ UNCHANGED <<evidence, frozen, scored, passports, approval, launcher, proc,
                 checkpoint, setting>>

\* A client declares the run failed.
Cancel ==
  /\ Log("run_failed")
  /\ UNCHANGED <<evidence, frozen, scored, passports, approval, launcher, proc,
                 checkpoint, setting>>

-----------------------------------------------------------------------------
Init ==
  /\ status = "pending"
  /\ evidence = 0 /\ frozen = {} /\ scored = FALSE /\ passports = 0
  /\ approval = None
  /\ active = FALSE /\ watched = {}
  /\ proc = [p \in Processes |-> Off]
  /\ checkpoint = None
  /\ auditable \in BOOLEAN
  /\ failures = 0 /\ restarts = 0

\* What process p does by itself.
Step(p) ==
  \/ Boot(p) \/ Save(p) \/ Start(p) \/ Think(p) \/ Hypothesize(p)
  \/ Fetch(p) \/ Collect(p) \/ CloseRound(p) \/ AnalyzeGaps(p)
  \/ FreezeBoard(p) \/ PersistResults(p) \/ DraftPassport(p) \/ ReachGate(p)
  \/ Finish(p) \/ RequestApproval(p) \/ Refused(p)

Next ==
  \/ \E p \in Processes : Launch(p) \/ Reap(p) \/ Step(p) \/ Fail(p)
  \/ \E d \in Decision : Decide(d)
  \/ RestartServer \/ Attest \/ Cancel

Spec == Init /\ [][Next]_vars

\* A process that is scheduled goes on; nobody has to launch one, decide,
\* attest or cancel.
Fairness == \A p \in Processes : WF_vars(Step(p)) /\ WF_vars(Reap(p))
LiveSpec == Spec /\ Fairness

\* A user who launches the investigation again whenever that is possible.
RelaunchSpec == LiveSpec /\ WF_vars(\E p \in Processes : Launch(p))

-----------------------------------------------------------------------------
(* Correctness.                                                            *)

\* Every variable has its type.
TypeOK ==
  /\ status \in RunStatus
  /\ evidence \in Nat /\ passports \in Nat /\ scored \in BOOLEAN
  /\ frozen \subseteq SUBSET (1 .. evidence)
  /\ approval \in Decision \cup {None}
  /\ active \in BOOLEAN /\ watched \subseteq Processes
  /\ proc \in [Processes -> Process]
  /\ checkpoint \in {None} \cup [node: Node, state: State]
  /\ auditable \in BOOLEAN
  /\ failures \in 0 .. MaxFailures /\ restarts \in 0 .. MaxRestarts

\* The graph states in use: those of the processes and of the checkpoint.
States == {proc[p].state : p \in {q \in Processes : Running(q)}}
            \cup {c.state : c \in {checkpoint} \ {None}}

\* A run waits for a human only when there is a passport to decide about.  The
\* trust core takes approval_required from any running run, so this rests on
\* the graph: every failure of a freeze has to stop it short of the gate.
ApprovalNeedsPassport == status = "waiting_approval" => passports > 0

\* Whatever was killed, lost or resumed, a process works within the research
\* budget and accounts for exactly the sources it holds, all of them stored.
BudgetRespected ==
  \A s \in States : /\ s.research_round <= MaxRounds
                    /\ s.sources_used <= MaxSources
                    /\ s.sources_used = Cardinality(s.evidence_board)
                    /\ s.evidence_board \subseteq 1 .. evidence

\* A process that goes on to evaluate its evidence board evaluates the board
\* the trust core froze, even when processes of several servers compete for it.
FrozenBoardMatches ==
  \A s \in States : s.frozen_board => frozen = {s.evidence_board}

\* Each life of the server adds at most one investigation of the run.
OneInvestigation ==
  /\ Cardinality({p \in Processes : Live(p)}) <= 1 + restarts
  /\ active <=> watched # {}

\* Until the server restarts, a checkpoint never loses what an earlier one
\* recorded: processes follow one another and each resumes the last.
CheckpointKeepsWork ==
  [][checkpoint # None /\ restarts' = 0 =>
       LET old == checkpoint.state
           new == checkpoint'.state
       IN  /\ old.research_round <= new.research_round
           /\ old.evidence_board \subseteq new.evidence_board
           /\ old.frozen_board => new.frozen_board
           /\ old.check_results_ref => new.check_results_ref
           /\ old.passport_sequence <= new.passport_sequence]_vars

\* The investigation of a repository on GitHub ends its research and hands the
\* run to a human, whatever it finds, unless a process of the run is killed or
\* one of its requests is lost.  For any other tool the launcher answers
\* "launched" as well, but the process ends in Boot and the run stays pending.
InvestigationEnds ==
  auditable /\ (\E p \in Processes : Live(p)) /\ approval = None
    ~> failures > 0 \/ status \in {"waiting_approval"} \cup Terminal

\* docs/technical-design.md, recovery rules: "every node should be re-entrant"
\* and after an interruption the process "rebuilds from the latest checkpoint
\* and the authoritative state of Rust".
InterruptedRunCompletes ==
  (auditable /\ status \in {"pending", "running"} /\ approval = None)
    ~> status \in {"waiting_approval"} \cup Terminal

\* docs/technical-design.md, recovery rules: approvals are never retried
\* blindly, so a run that waits for a decision has none yet.
WaitingCanBeDecided == status = "waiting_approval" => approval = None

=============================================================================
