--------------------------- MODULE AuditGraph_proofs ---------------------------
(***************************************************************************)
(* Proofs about AuditGraph, for any number of processes, any research      *)
(* budget and any number of failures and restarts.                         *)
(***************************************************************************)
EXTENDS AuditGraph, FiniteSetTheorems, TLAPS

-----------------------------------------------------------------------------
(* The inductive invariant.                                                *)

\* The steps at which a process has a graph state.
Active == {"start", "body", "collect", "finish", "request"}

\* What the graph state of a process or of the checkpoint may say about the
\* budget and about the trust core.
Sound(s) ==
  /\ s.research_round <= MaxRounds
  /\ s.sources_used <= MaxSources
  /\ s.sources_used = Cardinality(s.evidence_board)
  /\ s.evidence_board \subseteq 1 .. evidence
  /\ s.frozen_board => frozen = {s.evidence_board}
  /\ s.passport_sequence <= passports

\* The nodes before the first round, and those before the board is frozen.
Opening == {"intake_normalization", "tool_fingerprint", "profile_selector",
            "audit_plan_builder", "hypothesis_builder"}
Research == Opening \cup {"investigation_round", "gap_analysis"}

\* What a graph state says when its node is entered: no round has run, or one is
\* left; the board is not frozen yet; a passport is.
Enters(node, s) ==
  /\ node \in Opening => s.research_round = 0
  /\ node = "investigation_round" => s.research_round < MaxRounds
  /\ node \in Research \cup {"freeze_evidence_board"} => ~s.frozen_board
  /\ node = "end" => s.passport_sequence # 0

\* What a process that holds l knows.  Before it has saved the state it entered
\* its node with, it changes nothing; in the end it fits the node that follows.
Knows(l) ==
  l.at \in Active =>
    /\ Sound(l.state)
    /\ l.at \in {"start", "body"} => Enters(l.node, l.state)
    /\ l.at # "start" => l.node # "end"
    /\ ~l.saved => l.at \in {"start", "body"}
    /\ l.at = "collect" => /\ l.node = "investigation_round"
                           /\ Enters(l.node, l.state)
                           /\ l.state.sources_used + l.todo <= MaxSources
    /\ l.at = "finish" => Enters(NextNode(l.node, l.state), l.state)
    /\ l.at = "request" => /\ l.node = "human_review_gate"
                           /\ Enters("end", l.state)

WorkInv == \A p \in Processes : Knows(proc[p])

CheckpointInv ==
  checkpoint # None => Sound(checkpoint.state) /\ Enters(checkpoint.node, checkpoint.state)

\* At most one process is watched; the others are left over from earlier servers.
Strays == {p \in Processes : Live(p) /\ p \notin watched}

LauncherInv ==
  /\ active <=> watched # {}
  /\ \A p, q \in watched : p = q
  /\ IsFiniteSet(Strays) /\ Cardinality(Strays) <= restarts

\* new has all the work of old.
Carries(old, new) ==
  /\ old.research_round <= new.research_round
  /\ old.evidence_board \subseteq new.evidence_board
  /\ old.frozen_board => new.frozen_board
  /\ old.check_results_ref => new.check_results_ref
  /\ old.passport_sequence <= new.passport_sequence

\* In the first life of the server a process never falls behind the checkpoint.
ResumeInv ==
  restarts = 0 /\ checkpoint # None =>
    \A p \in Processes : proc[p].at \in Active => Carries(checkpoint.state, proc[p].state)

IInv ==
  /\ TypeOK /\ WorkInv /\ CheckpointInv /\ LauncherInv /\ ResumeInv
  /\ ApprovalNeedsPassport

-----------------------------------------------------------------------------
(* The graph.                                                              *)

\* Where each edge leads.
LEMMA Edges ==
  \A s : /\ NextNode("intake_normalization", s) = "tool_fingerprint"
         /\ NextNode("tool_fingerprint", s) = "profile_selector"
         /\ NextNode("profile_selector", s) = "audit_plan_builder"
         /\ NextNode("audit_plan_builder", s) = "hypothesis_builder"
         /\ NextNode("hypothesis_builder", s) = "investigation_round"
         /\ NextNode("investigation_round", s) = "gap_analysis"
         /\ NextNode("gap_analysis", s) \in {"freeze_evidence_board", "investigation_round"}
         /\ NextNode("freeze_evidence_board", s) = "check_execution"
         /\ NextNode("check_execution", s) = "skeptic_review"
         /\ NextNode("skeptic_review", s) = "persist_check_results"
         /\ NextNode("persist_check_results", s) = "passport_draft"
         /\ NextNode("passport_draft", s) = "human_review_gate"
         /\ NextNode("human_review_gate", s) = "end"
BY DEF NextNode, Edge

\* The nodes by name.
LEMMA Nodes ==
  Node = Research \cup {"freeze_evidence_board", "check_execution", "skeptic_review",
                        "persist_check_results", "passport_draft", "human_review_gate",
                        "end"}
BY DEF Node, Edge, Research, Opening

\* A node has a node after it, except the end.
LEMMA NextNodeType ==
  ASSUME NEW node \in Node, node # "end", NEW s
  PROVE  NextNode(node, s) \in Node
BY Edges, Nodes DEF Research, Opening

-----------------------------------------------------------------------------
(* Processes.                                                              *)

\* What an active process is made of.
LEMMA ActiveType ==
  ASSUME NEW l \in Process, l.at \in Active
  PROVE  l \in [at: Active, node: Node, state: State, todo: Nat, saved: BOOLEAN]
BY DEF Process, Off, Booting, Exited, Active

\* What a process of an active phase has of fields makes it a process.
LEMMA ActiveIsProcess ==
  ASSUME NEW l \in [at: Active, node: Node, state: State, todo: Nat, saved: BOOLEAN]
  PROVE  l \in Process
BY DEF Process, Active

\* A process runs if it is active, and lives if it runs or boots.
LEMMA RunningIsActive ==
  ASSUME TypeOK, NEW p \in Processes
  PROVE  /\ Running(p) <=> proc[p].at \in Active
         /\ Live(p) <=> proc[p].at \in Active \cup {"boot"}
<1>1. proc[p] \in Process
  BY DEF TypeOK
<1>2. proc[p].at \in Active \cup {"off", "boot", "exited"}
  BY <1>1 DEF Process, Off, Booting, Exited, Active
<1>. QED  BY <1>2 DEF Running, Live, Active

\* The trust core only adds: what a graph state says about it stays true.
Grows ==
  /\ evidence <= evidence' /\ passports <= passports'
  /\ frozen' = frozen \/ frozen = {}

CoreType ==
  /\ status \in RunStatus
  /\ evidence \in Nat /\ passports \in Nat /\ scored \in BOOLEAN
  /\ frozen \subseteq SUBSET (1 .. evidence)
  /\ approval \in Decision \cup {None}

\* Graph states stay sound when the trust core freezes more.
LEMMA SoundGrows ==
  ASSUME CoreType, CoreType', Grows, NEW s \in State, Sound(s)
  PROVE  Sound(s)'
<1>1. s.evidence_board \subseteq 1 .. evidence'
  BY DEF CoreType, Grows, Sound
<1>2. s.passport_sequence <= passports'
  BY DEF CoreType, Grows, Sound, State
<1>3. s.frozen_board => frozen' = {s.evidence_board}
  BY DEF Grows, Sound
<1>. QED  BY <1>1, <1>2, <1>3 DEF Sound

\* Running processes and checkpoints hold graph states.
LEMMA StateTypes ==
  ASSUME TypeOK
  PROVE  /\ CoreType
         /\ \A p \in Processes : proc[p].at \in Active => proc[p].state \in State
         /\ checkpoint # None => checkpoint.node \in Node /\ checkpoint.state \in State
<1>1. \A p \in Processes : proc[p].at \in Active => proc[p].state \in State
  BY ActiveType DEF TypeOK
<1>. QED  BY <1>1 DEF TypeOK, CoreType

\* Work is carried along a chain of states.
LEMMA CarriesChain ==
  ASSUME NEW a \in State, NEW b \in State, NEW c \in State, Carries(a, b), Carries(b, c)
  PROVE  Carries(a, c)
BY DEF Carries, State

\* A state carries the work of itself.
LEMMA CarriesSelf ==
  ASSUME NEW s \in State
  PROVE  Carries(s, s)
BY DEF Carries, State

-----------------------------------------------------------------------------
(* Steps of one process.                                                   *)

\* The others, and the checkpoint, keep what they know.
LEMMA OthersKnow ==
  ASSUME TypeOK, WorkInv, CheckpointInv, CoreType', Grows, NEW p \in Processes,
         \A q \in Processes \ {p} : proc'[q] = proc[q]
  PROVE  /\ \A q \in Processes \ {p} : Knows(proc[q])'
         /\ checkpoint' = checkpoint => CheckpointInv'
<1>1. \A q \in Processes \ {p} : Knows(proc[q])'
  <2> SUFFICES ASSUME NEW q \in Processes \ {p}, proc[q].at \in Active
               PROVE  Knows(proc[q])'
    BY DEF Knows
  <2>1. Knows(proc[q]) /\ Sound(proc[q].state)
    BY DEF WorkInv, Knows
  <2>2. Sound(proc[q].state)'
    BY <2>1, StateTypes, SoundGrows
  <2>. QED  BY <2>1, <2>2 DEF Knows
<1>2. ASSUME checkpoint' = checkpoint
      PROVE  CheckpointInv'
  BY <1>2, StateTypes, SoundGrows DEF CheckpointInv
<1>. QED  BY <1>1, <1>2

\* Where no process comes to life, the launcher's books stay right.
LEMMA LauncherKept ==
  ASSUME TypeOK, LauncherInv, UNCHANGED <<launcher, restarts>>,
         \A q \in Processes : Live(q)' => Live(q)
  PROVE  LauncherInv'
<1>1. Strays' \subseteq Strays
  BY DEF Strays, launcher
<1>2. IsFiniteSet(Strays') /\ Cardinality(Strays') <= Cardinality(Strays)
  BY <1>1, FS_Subset DEF LauncherInv
<1>3. Cardinality(Strays) \in Nat /\ Cardinality(Strays') \in Nat
  BY <1>2, FS_CardinalityType DEF LauncherInv
<1>4. restarts' = restarts /\ restarts \in Nat
  BY BudgetAssumption DEF TypeOK
<1>. QED  BY <1>2, <1>3, <1>4 DEF LauncherInv, launcher

\* A step of process p that loses no work and leaves it with what it has to know.
LEMMA StepPreserves ==
  ASSUME IInv, NEW p \in Processes,
         proc' \in [Processes -> Process],
         \A q \in Processes \ {p} : proc'[q] = proc[q],
         UNCHANGED <<launcher, checkpoint, auditable, restarts>>,
         failures' \in 0 .. MaxFailures,
         CoreType', Grows, ApprovalNeedsPassport',
         Live(p)' => Live(p),
         Knows(proc[p])',
         proc'[p].at \in Active =>
           proc[p].at \in Active /\ Carries(proc[p].state, proc'[p].state)
  PROVE  IInv'
<1>1. TypeOK'
  BY DEF IInv, TypeOK, CoreType, launcher
<1>2. WorkInv' /\ CheckpointInv'
  BY OthersKnow DEF IInv, WorkInv
<1>3. LauncherInv'
  BY LauncherKept DEF IInv, Live
<1>4. ResumeInv'
  <2> SUFFICES ASSUME restarts = 0, checkpoint # None,
                      NEW q \in Processes, proc'[q].at \in Active
               PROVE  Carries(checkpoint.state, proc'[q].state)
    BY DEF ResumeInv
  <2>1. CASE q # p
    BY <2>1 DEF IInv, ResumeInv
  <2>2. CASE q = p
    <3>1. Carries(checkpoint.state, proc[p].state) /\ Carries(proc[p].state, proc'[p].state)
      BY <2>2 DEF IInv, ResumeInv
    <3>2. /\ checkpoint.state \in State /\ proc[p].state \in State
          /\ proc'[p].state \in State
      BY <1>1, <2>2, StateTypes, ActiveType DEF IInv
    <3>. QED  BY <2>2, <3>1, <3>2, CarriesChain
  <2>. QED  BY <2>1, <2>2
<1>. QED  BY <1>1, <1>2, <1>3, <1>4 DEF IInv

-----------------------------------------------------------------------------
(* The bodies of nodes.                                                    *)

\* The body of a node is over, with a state that fits the node that follows.
LEMMA ReturnPreserves ==
  ASSUME IInv, NEW p \in Processes, proc[p].at \in {"body", "collect"}, proc[p].saved,
         NEW s \in State, Return(p, s),
         UNCHANGED <<status, launcher, checkpoint, setting>>,
         CoreType', Grows, Sound(s)', Enters(NextNode(proc[p].node, s), s),
         Carries(proc[p].state, s)
  PROVE  IInv'
<1> DEFINE l == [at |-> "finish", node |-> proc[p].node, state |-> s,
                 todo |-> proc[p].todo, saved |-> TRUE]
<1>1. /\ proc[p] \in Process /\ proc[p].at \in Active
      /\ proc[p] \in [at: Active, node: Node, state: State, todo: Nat, saved: BOOLEAN]
  BY ActiveType DEF IInv, TypeOK, Active
<1>2. l \in Process
  BY <1>1, ActiveIsProcess DEF Active
<1>3. /\ proc' \in [Processes -> Process]
      /\ proc'[p] = l
      /\ \A q \in Processes \ {p} : proc'[q] = proc[q]
  BY <1>1, <1>2 DEF Return, IInv, TypeOK
<1>4. Knows(proc[p])'
  <2>1. proc[p].node # "end"
    BY <1>1 DEF IInv, WorkInv, Knows
  <2>. QED  BY <1>3, <2>1 DEF Knows
<1>5. ApprovalNeedsPassport'
  BY DEF IInv, ApprovalNeedsPassport, Grows, CoreType, TypeOK
<1>6. failures' \in 0 .. MaxFailures /\ UNCHANGED <<auditable, restarts>>
  BY DEF IInv, TypeOK, setting
<1>7. Live(p)
  BY <1>1, RunningIsActive DEF IInv
<1>. HIDE DEF l
<1>8. Live(p)' => Live(p)
  BY <1>7
<1>9. proc'[p].at \in Active =>
        proc[p].at \in Active /\ Carries(proc[p].state, proc'[p].state)
  BY <1>1, <1>3 DEF l
<1>. QED  BY <1>3, <1>4, <1>5, <1>6, <1>8, <1>9, StepPreserves

\* What a process in the body of a node knows.
LEMMA InBody ==
  ASSUME IInv, NEW p \in Processes, Running(p), proc[p].at \in {"body", "collect"}
  PROVE  /\ proc[p].state \in State /\ proc[p].node \in Node \ {"end"}
         /\ Sound(proc[p].state) /\ Enters(proc[p].node, proc[p].state)
         /\ proc[p].at = "collect" => /\ proc[p].saved /\ proc[p].todo \in Nat
                                      /\ proc[p].node = "investigation_round"
<1>1. proc[p] \in [at: Active, node: Node, state: State, todo: Nat, saved: BOOLEAN]
  BY RunningIsActive, ActiveType DEF IInv, TypeOK
<1>2. Knows(proc[p]) /\ proc[p].at \in Active
  BY <1>1 DEF IInv, WorkInv, Active
<1>. QED  BY <1>1, <1>2 DEF Knows

\* A step that leaves the trust core alone leaves sound states sound.
LEMMA CoreKept ==
  ASSUME IInv, UNCHANGED core
  PROVE  /\ CoreType' /\ Grows
         /\ \A s \in State : Sound(s) => Sound(s)'
<1>1. CoreType' /\ Grows
  BY StateTypes DEF IInv, TypeOK, CoreType, core, Grows
<1>2. CoreType
  BY StateTypes DEF IInv
<1>. QED  BY <1>1, <1>2, SoundGrows

\* Bodies that report nothing to the trust core.
LEMMA QuietPreserves ==
  ASSUME IInv, NEW p \in Processes,
         Think(p) \/ Hypothesize(p) \/ CloseRound(p) \/ AnalyzeGaps(p) \/ ReachGate(p)
  PROVE  IInv'
<1> DEFINE now == proc[p].state
<1>1. /\ Running(p) /\ proc[p].at \in {"body", "collect"} /\ UNCHANGED <<core, launcher, checkpoint, setting>>
      /\ proc[p].saved
  BY InBody DEF Think, Hypothesize, CloseRound, AnalyzeGaps, ReachGate, In
<1>2. /\ now \in State /\ Sound(now) /\ Enters(proc[p].node, now)
  BY <1>1, InBody
<1>3. /\ CoreType' /\ Grows /\ \A s \in State : Sound(s) => Sound(s)'
      /\ UNCHANGED status
  BY <1>1, CoreKept DEF core
<1>4. ASSUME NEW s \in State, Return(p, s), Sound(s), Carries(now, s),
             Enters(NextNode(proc[p].node, s), s)
      PROVE  IInv'
  BY <1>1, <1>3, <1>4, ReturnPreserves
<1>5. CASE Think(p)
  <2>1. PICK node \in Quiet : proc[p].node = node
    BY <1>5 DEF Think, In
  <2>2. Enters(NextNode(node, now), now)
    BY <1>2, <2>1, Edges DEF Quiet, Enters, Opening, Research
  <2>3. Return(p, now) /\ Carries(now, now)
    BY <1>2, <1>5, CarriesSelf DEF Think
  <2>. QED  BY <1>2, <1>4, <2>1, <2>2, <2>3
<1>6. CASE Hypothesize(p)
  <2>1. PICK few \in BOOLEAN : Return(p, [now EXCEPT !.few = few])
    BY <1>6 DEF Hypothesize
  <2> DEFINE s == [now EXCEPT !.few = few]
  <2>2. s \in State /\ Sound(s) /\ Carries(now, s)
    BY <1>2 DEF State, Sound, Carries
  <2>3. Enters(NextNode(proc[p].node, s), s)
    <3>1. proc[p].node = "hypothesis_builder"
      BY <1>6 DEF Hypothesize, In
    <3>2. NextNode(proc[p].node, s) = "investigation_round"
      BY <3>1, Edges
    <3>3. now.research_round = 0 /\ ~now.frozen_board
      BY <1>2, <3>1 DEF Enters, Opening, Research
    <3>4. s.research_round = 0 /\ ~s.frozen_board
      BY <1>2, <3>3 DEF State
    <3>. QED  BY <3>2, <3>4, BudgetAssumption DEF Enters, Opening
  <2>. HIDE DEF s
  <2>. QED  BY <1>4, <2>1, <2>2, <2>3 DEF s
<1>7. CASE CloseRound(p)
  <2> DEFINE s == [now EXCEPT !.research_round = now.research_round + 1]
  <2>1. Return(p, s) /\ proc[p].at = "collect"
    BY <1>7 DEF CloseRound
  <2>2. /\ proc[p].node = "investigation_round"
        /\ now.research_round < MaxRounds /\ ~now.frozen_board
    BY <1>1, <1>2, <2>1, InBody DEF Enters, Research
  <2>3. s \in State /\ Sound(s) /\ Carries(now, s)
    BY <1>2, <2>2, BudgetAssumption DEF State, Sound, Carries
  <2>4. Enters(NextNode(proc[p].node, s), s)
    <3>1. NextNode(proc[p].node, s) = "gap_analysis"
      BY <2>2, Edges
    <3>2. ~s.frozen_board
      BY <1>2, <2>2 DEF State
    <3>. QED  BY <3>1, <3>2 DEF Enters, Opening
  <2>. HIDE DEF s
  <2>. QED  BY <1>4, <2>1, <2>3, <2>4
<1>8. CASE AnalyzeGaps(p)
  <2> DEFINE spent == \/ now.research_round >= MaxRounds
                      \/ now.sources_used >= MaxSources
                      \/ now.few
             s == [now EXCEPT !.stop = spent]
  <2>1. Return(p, s) /\ proc[p].node = "gap_analysis"
    BY <1>8 DEF AnalyzeGaps, In
  <2>2. ~now.frozen_board
    BY <1>2, <2>1 DEF Enters, Research
  <2>3. spent \in BOOLEAN
    BY <1>2 DEF State
  <2>4. s \in State /\ Sound(s) /\ Carries(now, s) /\ s.stop = spent
    <3>. HIDE DEF spent
    <3>1. s \in State /\ s.stop = spent
      BY <1>2, <2>3 DEF State
    <3>2. /\ s.research_round = now.research_round /\ s.sources_used = now.sources_used
          /\ s.evidence_board = now.evidence_board /\ s.frozen_board = now.frozen_board
          /\ s.check_results_ref = now.check_results_ref
          /\ s.passport_sequence = now.passport_sequence
      BY <1>2 DEF State
    <3>3. Carries(now, s)
      BY <1>2, <3>2 DEF State, Carries
    <3>. QED  BY <1>2, <3>1, <3>2, <3>3 DEF Sound
  <2>5. Enters(NextNode(proc[p].node, s), s)
    <3>1. /\ s.research_round = now.research_round /\ ~s.frozen_board
      BY <1>2, <2>2 DEF State
    <3>2. CASE s.stop
      BY <2>1, <3>1, <3>2 DEF NextNode, Enters, Opening
    <3>3. CASE ~s.stop
      <4>1. NextNode(proc[p].node, s) = "investigation_round"
        BY <2>1, <3>3 DEF NextNode
      <4>2. s.research_round < MaxRounds
        BY <1>2, <2>4, <3>1, <3>3, BudgetAssumption DEF State
      <4>. QED  BY <3>1, <4>1, <4>2 DEF Enters, Opening
    <3>. QED  BY <3>2, <3>3
  <2>. HIDE DEF s
  <2>. QED  BY <1>4, <2>1, <2>4, <2>5
<1>9. CASE ReachGate(p)
  <2>1. /\ Return(p, now) /\ proc[p].node = "human_review_gate"
        /\ now.passport_sequence # 0
    BY <1>9 DEF ReachGate, In
  <2>2. Enters(NextNode(proc[p].node, now), now)
    BY <2>1, Edges DEF Enters, Opening, Research
  <2>. QED  BY <1>2, <1>4, <2>1, <2>2, CarriesSelf
<1>. QED  BY <1>5, <1>6, <1>7, <1>8, <1>9

\* A round that has fetched no more than the source budget leaves.
LEMMA FetchPreserves ==
  ASSUME IInv, NEW p \in Processes, Fetch(p)
  PROVE  IInv'
<1>0. PICK now : now = proc[p].state
  OBVIOUS
<1>1. PICK n \in 0 .. Pages :
        /\ n <= MaxSources - now.sources_used
        /\ proc' = [proc EXCEPT ![p].at = "collect", ![p].todo = n]
  BY <1>0 DEF Fetch
<1>2. /\ Running(p) /\ proc[p].at = "body" /\ proc[p].saved
      /\ proc[p].node = "investigation_round"
      /\ UNCHANGED <<core, launcher, checkpoint, setting>>
  BY DEF Fetch, In
<1>3. now \in State /\ Sound(now) /\ Enters("investigation_round", now)
  BY <1>0, <1>2, InBody
<1>4. proc[p] \in [at: Active, node: Node, state: State, todo: Nat, saved: BOOLEAN]
  BY <1>2, RunningIsActive, ActiveType DEF IInv, TypeOK
<1> DEFINE l == [at |-> "collect", node |-> "investigation_round", state |-> now,
                 todo |-> n, saved |-> TRUE]
<1>5. n \in Nat /\ now.sources_used + n <= MaxSources
  BY <1>1, <1>3, BudgetAssumption DEF State
<1>6. l \in Process
  BY <1>3, <1>5, ActiveIsProcess, Nodes DEF Active, Research
<1>7. /\ proc' \in [Processes -> Process]
      /\ proc'[p] = l
      /\ \A q \in Processes \ {p} : proc'[q] = proc[q]
  BY <1>0, <1>1, <1>2, <1>4, <1>6 DEF IInv, TypeOK
<1>8. CoreType' /\ Grows /\ Sound(now)' /\ ApprovalNeedsPassport'
  BY <1>2, <1>3, CoreKept DEF core, ApprovalNeedsPassport, IInv
<1>9. Knows(proc[p])'
  BY <1>3, <1>5, <1>7, <1>8 DEF Knows
<1>10. proc'[p].at \in Active =>
         proc[p].at \in Active /\ Carries(proc[p].state, proc'[p].state)
  BY <1>0, <1>3, <1>4, <1>7, CarriesSelf
<1>11. Live(p) /\ failures' \in 0 .. MaxFailures /\ UNCHANGED <<auditable, restarts>>
  BY <1>2 DEF Running, IInv, TypeOK, setting
<1>. HIDE DEF l
<1>. QED  BY <1>2, <1>7, <1>8, <1>9, <1>10, <1>11, StepPreserves

\* One source more: it is new, so that the count of sources stays right.
More(s, e) == [s EXCEPT !.evidence_board = s.evidence_board \cup {e + 1},
                        !.sources_used = s.sources_used + 1]

\* One source more is counted once, and nothing else of the state changes.
LEMMA OneMoreSource ==
  ASSUME NEW s \in State, NEW e \in Nat, s.evidence_board \subseteq 1 .. e,
         s.sources_used = Cardinality(s.evidence_board)
  PROVE  /\ More(s, e) \in State
         /\ More(s, e).research_round = s.research_round
         /\ More(s, e).sources_used = s.sources_used + 1
         /\ More(s, e).sources_used = Cardinality(More(s, e).evidence_board)
         /\ More(s, e).evidence_board = s.evidence_board \cup {e + 1}
         /\ More(s, e).evidence_board \subseteq 1 .. e + 1
         /\ More(s, e).frozen_board = s.frozen_board
         /\ More(s, e).check_results_ref = s.check_results_ref
         /\ More(s, e).passport_sequence = s.passport_sequence
<1>1. s.evidence_board \cup {e + 1} \in SUBSET Nat /\ s.sources_used + 1 \in Nat
  BY DEF State
<1>2. More(s, e) \in State
  BY <1>1 DEF State, More
<1>3. /\ More(s, e).research_round = s.research_round
      /\ More(s, e).sources_used = s.sources_used + 1
      /\ More(s, e).evidence_board = s.evidence_board \cup {e + 1}
      /\ More(s, e).frozen_board = s.frozen_board
      /\ More(s, e).check_results_ref = s.check_results_ref
      /\ More(s, e).passport_sequence = s.passport_sequence
  BY DEF State, More
<1>4. Cardinality(s.evidence_board \cup {e + 1}) = Cardinality(s.evidence_board) + 1
  <2>1. IsFiniteSet(1 .. e)
    <3>1. 1 \in Int /\ e \in Int
      OBVIOUS
    <3>. QED  BY <3>1, FS_Interval
  <2>2. IsFiniteSet(s.evidence_board)
    BY <2>1, FS_Subset
  <2>3. e + 1 \notin s.evidence_board
    OBVIOUS
  <2>. QED  BY <2>2, <2>3, FS_AddElement
<1>5. s.evidence_board \cup {e + 1} \subseteq 1 .. e + 1
  OBVIOUS
<1>. QED  BY <1>2, <1>3, <1>4, <1>5

\* A process goes on collecting, with what it has so far.
LEMMA CollectOn ==
  ASSUME IInv, NEW p \in Processes, Running(p), proc[p].at = "collect",
         UNCHANGED <<status, launcher, checkpoint, setting>>, CoreType', Grows,
         NEW s \in State, NEW todo \in Nat,
         proc' = [proc EXCEPT ![p] =
           [at |-> "collect", node |-> "investigation_round", state |-> s,
            todo |-> todo, saved |-> TRUE]],
         Sound(s)', Enters("investigation_round", s), Carries(proc[p].state, s),
         s.sources_used + todo <= MaxSources
  PROVE  IInv'
<1> DEFINE l == [at |-> "collect", node |-> "investigation_round", state |-> s,
                 todo |-> todo, saved |-> TRUE]
<1>1. l \in Process
  BY ActiveIsProcess, Nodes DEF Active, Research
<1>2. /\ proc' \in [Processes -> Process]
      /\ proc'[p] = l
      /\ \A q \in Processes \ {p} : proc'[q] = proc[q]
  BY <1>1 DEF IInv, TypeOK
<1>3. Knows(proc[p])'
  BY <1>2 DEF Knows
<1>4. proc'[p].at \in Active =>
         proc[p].at \in Active /\ Carries(proc[p].state, proc'[p].state)
  BY <1>2 DEF Active
<1>5. Live(p) /\ failures' \in 0 .. MaxFailures /\ UNCHANGED <<auditable, restarts>>
  BY DEF Running, IInv, TypeOK, setting
<1>6. ApprovalNeedsPassport'
  BY DEF IInv, ApprovalNeedsPassport, Grows, CoreType, TypeOK
<1>. HIDE DEF l
<1>. QED  BY <1>2, <1>3, <1>4, <1>5, <1>6, StepPreserves

\* The evidence of a round is new, so that every source counts once.
LEMMA CollectPreserves ==
  ASSUME IInv, NEW p \in Processes, Collect(p)
  PROVE  IInv'
<1>0. PICK now, todo, e : now = proc[p].state /\ todo = proc[p].todo /\ e = evidence
  OBVIOUS
<1>1. /\ Running(p) /\ proc[p].at = "collect" /\ todo > 0
      /\ UNCHANGED <<status, frozen, scored, passports, approval, launcher, checkpoint, setting>>
      /\ evidence' \in {e, e + 1}
  BY <1>0 DEF Collect
<1>2. /\ now \in State /\ Sound(now) /\ Enters("investigation_round", now)
      /\ proc[p].saved /\ proc[p].node = "investigation_round"
  BY <1>0, <1>1, InBody
<1>3. /\ proc[p] \in [at: Active, node: Node, state: State, todo: Nat, saved: BOOLEAN]
      /\ now.sources_used + todo <= MaxSources
  BY <1>0, <1>1, RunningIsActive, ActiveType DEF IInv, TypeOK, WorkInv, Knows
<1>4. CoreType /\ CoreType' /\ Grows
  <2>1. CoreType
    BY StateTypes DEF IInv
  <2>2. evidence \in Nat /\ evidence' \in Nat /\ evidence <= evidence'
    BY <1>0, <1>1, <2>1 DEF CoreType
  <2>3. SUBSET (1 .. evidence) \subseteq SUBSET (1 .. evidence')
    BY <2>2
  <2>. QED  BY <1>1, <2>1, <2>2, <2>3 DEF CoreType, Grows
<1>5. Sound(now)'
  BY <1>2, <1>4, SoundGrows
<1>6. ~now.frozen_board /\ now.research_round < MaxRounds
  BY <1>2 DEF Enters, Research
<1>7. todo \in Nat /\ todo - 1 \in Nat /\ now.sources_used \in Nat /\ MaxSources \in Nat /\ e \in Nat
  BY <1>0, <1>1, <1>2, <1>3, <1>4, BudgetAssumption DEF State, CoreType
<1>8. \A s : [proc[p] EXCEPT !.todo = todo - 1, !.state = s] =
               [at |-> "collect", node |-> "investigation_round", state |-> s,
                todo |-> todo - 1, saved |-> TRUE]
  <2>1. /\ proc[p].at = "collect" /\ proc[p].node = "investigation_round"
        /\ proc[p].saved = TRUE
    BY <1>1, <1>2, <1>3
  <2> SUFFICES ASSUME NEW s
               PROVE  [proc[p] EXCEPT !.todo = todo - 1, !.state = s] =
                        [at |-> "collect", node |-> "investigation_round", state |-> s,
                         todo |-> todo - 1, saved |-> TRUE]
    OBVIOUS
  <2>2. PICK l : l = [proc[p] EXCEPT !.todo = todo - 1, !.state = s]
    OBVIOUS
  <2>3. DOMAIN l = {"at", "node", "state", "todo", "saved"}
    BY <1>3, <2>2
  <2>4. /\ l.at = "collect" /\ l.node = "investigation_round" /\ l.state = s
        /\ l.todo = todo - 1 /\ l.saved = TRUE
    BY <1>3, <2>1, <2>2
  <2>5. l = [at |-> "collect", node |-> "investigation_round", state |-> s,
                         todo |-> todo - 1, saved |-> TRUE]
    BY <1>3, <2>2, <2>3, <2>4
  <2>. QED  BY <2>2, <2>5
<1>9. CASE proc' = [proc EXCEPT ![p].todo = @ - 1]
  <2>1. proc' = [proc EXCEPT ![p] = [proc[p] EXCEPT !.todo = todo - 1, !.state = now]]
    BY <1>0, <1>3, <1>9 DEF IInv, TypeOK
  <2>2. proc' = [proc EXCEPT ![p] =
          [at |-> "collect", node |-> "investigation_round", state |-> now,
           todo |-> todo - 1, saved |-> TRUE]]
    BY <1>8, <2>1
  <2>3. now.sources_used + (todo - 1) <= MaxSources
    BY <1>0, <1>3, <1>7
  <2>4. Carries(proc[p].state, now)
    BY <1>0, <1>2, CarriesSelf
  <2>. QED  BY <1>1, <1>2, <1>4, <1>5, <1>7, <2>2, <2>3, <2>4, CollectOn
<1>10. CASE /\ evidence' = evidence + 1
            /\ proc' = [proc EXCEPT ![p].todo = @ - 1,
                 ![p].state.evidence_board = @ \cup {evidence + 1},
                 ![p].state.sources_used = @ + 1]
  <2>1. PICK s : s = More(now, e)
    OBVIOUS
  <2>2. proc' = [proc EXCEPT ![p] = [proc[p] EXCEPT !.todo = todo - 1, !.state = s]]
    BY <1>0, <1>3, <1>10, <2>1 DEF IInv, TypeOK, State, More
  <2>3. proc' = [proc EXCEPT ![p] =
          [at |-> "collect", node |-> "investigation_round", state |-> s,
           todo |-> todo - 1, saved |-> TRUE]]
    BY <1>8, <2>2
  <2>4. /\ s \in State
        /\ s.research_round = now.research_round
        /\ s.sources_used = now.sources_used + 1
        /\ s.sources_used = Cardinality(s.evidence_board)
        /\ s.evidence_board = now.evidence_board \cup {e + 1}
        /\ s.evidence_board \subseteq 1 .. e + 1
        /\ s.frozen_board = now.frozen_board
        /\ s.check_results_ref = now.check_results_ref
        /\ s.passport_sequence = now.passport_sequence
    <3>1. /\ now.evidence_board \subseteq 1 .. e
          /\ now.sources_used = Cardinality(now.evidence_board)
      BY <1>0, <1>2 DEF Sound
    <3>. QED  BY <1>2, <1>7, <2>1, <3>1, OneMoreSource
  <2>5. s.sources_used + (todo - 1) <= MaxSources /\ s.sources_used <= MaxSources
    BY <1>3, <1>7, <2>4
  <2>6. Sound(s)'
    BY <1>0, <1>5, <1>6, <1>10, <2>4, <2>5 DEF Sound
  <2>7. Carries(proc[p].state, s)
    BY <1>0, <1>2, <1>7, <2>4 DEF Carries, State
  <2>8. Enters("investigation_round", s)
    BY <1>6, <2>4 DEF Enters, Opening
  <2>. QED  BY <1>1, <1>4, <1>7, <2>3, <2>4, <2>5, <2>6, <2>7, <2>8, CollectOn
<1>. QED  BY <1>9, <1>10 DEF Collect

-----------------------------------------------------------------------------
(* The freezes.                                                            *)

\* The board of the process becomes the board of the run.
LEMMA FreezeBoardPreserves ==
  ASSUME IInv, NEW p \in Processes, FreezeBoard(p)
  PROVE  IInv'
<1>0. PICK now, s : now = proc[p].state /\ s = [now EXCEPT !.frozen_board = TRUE]
  OBVIOUS
<1>1. /\ Running(p) /\ proc[p].at = "body" /\ proc[p].saved
      /\ proc[p].node = "freeze_evidence_board"
      /\ frozen = {} /\ frozen' = {now.evidence_board}
      /\ Return(p, s)
      /\ UNCHANGED <<status, evidence, scored, passports, approval, launcher, checkpoint,
                     setting>>
  BY <1>0 DEF FreezeBoard, In, BoardIsFree
<1>2. now \in State /\ Sound(now)
  BY <1>0, <1>1, InBody
<1>3. CoreType' /\ Grows
  <2>1. now.evidence_board \subseteq 1 .. evidence
    BY <1>2 DEF Sound
  <2>2. CoreType
    BY StateTypes DEF IInv
  <2>. QED  BY <1>1, <2>1, <2>2 DEF CoreType, Grows
<1>4. /\ s \in State /\ s.frozen_board = TRUE
      /\ s.research_round = now.research_round /\ s.sources_used = now.sources_used
      /\ s.evidence_board = now.evidence_board
      /\ s.check_results_ref = now.check_results_ref
      /\ s.passport_sequence = now.passport_sequence
  BY <1>0, <1>2 DEF State
<1>5. Sound(s)' /\ Carries(proc[p].state, s)
  BY <1>0, <1>1, <1>2, <1>4 DEF Sound, Carries, State
<1>6. Enters(NextNode(proc[p].node, s), s)
  BY <1>1, Edges DEF Enters, Opening, Research
<1>. QED  BY <1>1, <1>3, <1>4, <1>5, <1>6, ReturnPreserves

\* The check results are stored.
LEMMA PersistPreserves ==
  ASSUME IInv, NEW p \in Processes, PersistResults(p)
  PROVE  IInv'
<1>0. PICK now, s : now = proc[p].state /\ s = [now EXCEPT !.check_results_ref = TRUE]
  OBVIOUS
<1>1. /\ Running(p) /\ proc[p].at = "body" /\ proc[p].saved
      /\ proc[p].node = "persist_check_results"
      /\ scored' = TRUE
      /\ Return(p, s)
      /\ UNCHANGED <<status, evidence, frozen, passports, approval, launcher, checkpoint,
                     setting>>
  BY <1>0 DEF PersistResults, In
<1>2. now \in State /\ Sound(now)
  BY <1>0, <1>1, InBody
<1>3. CoreType' /\ Grows
  BY <1>1, StateTypes DEF CoreType, Grows, IInv
<1>4. /\ s \in State /\ s.check_results_ref = TRUE
      /\ s.research_round = now.research_round /\ s.sources_used = now.sources_used
      /\ s.evidence_board = now.evidence_board /\ s.frozen_board = now.frozen_board
      /\ s.passport_sequence = now.passport_sequence
  BY <1>0, <1>2 DEF State
<1>5. Sound(s)' /\ Carries(proc[p].state, s)
  BY <1>0, <1>1, <1>2, <1>4 DEF Sound, Carries, State
<1>6. Enters(NextNode(proc[p].node, s), s)
  BY <1>1, Edges DEF Enters, Opening, Research
<1>. QED  BY <1>1, <1>3, <1>4, <1>5, <1>6, ReturnPreserves

\* One more passport is frozen, and the process holds its number.
LEMMA DraftPreserves ==
  ASSUME IInv, NEW p \in Processes, DraftPassport(p)
  PROVE  IInv'
<1>0. PICK now, s : now = proc[p].state /\ s = [now EXCEPT !.passport_sequence = passports']
  OBVIOUS
<1>1. /\ Running(p) /\ proc[p].at = "body" /\ proc[p].saved
      /\ proc[p].node = "passport_draft"
      /\ passports' = passports + 1
      /\ Return(p, s)
      /\ UNCHANGED <<status, evidence, frozen, scored, approval, launcher, checkpoint,
                     setting>>
  BY <1>0 DEF DraftPassport, In
<1>2. now \in State /\ Sound(now)
  BY <1>0, <1>1, InBody
<1>3. CoreType' /\ Grows /\ passports \in Nat
  BY <1>1, StateTypes DEF CoreType, Grows, IInv
<1>4. /\ s \in State /\ s.check_results_ref = now.check_results_ref
      /\ s.research_round = now.research_round /\ s.sources_used = now.sources_used
      /\ s.evidence_board = now.evidence_board /\ s.frozen_board = now.frozen_board
      /\ s.passport_sequence = passports + 1
  BY <1>0, <1>1, <1>2, <1>3 DEF State
<1>5. now.passport_sequence \in Nat /\ now.passport_sequence <= passports
  BY <1>2 DEF State, Sound
<1>6. Sound(s)' /\ Carries(proc[p].state, s)
  BY <1>0, <1>1, <1>2, <1>3, <1>4, <1>5 DEF Sound, Carries, State
<1>7. Enters(NextNode(proc[p].node, s), s)
  BY <1>1, Edges DEF Enters, Opening, Research
<1>. QED  BY <1>1, <1>3, <1>4, <1>6, <1>7, ReturnPreserves

-----------------------------------------------------------------------------
(* Events and exits.                                                       *)

\* What an event of the orchestrator does to the status.
LEMMA LogEffect ==
  ASSUME status \in RunStatus
  PROVE  /\ Log("node_started") \/ Log("node_finished") => status' = "running"
         /\ Log("approval_required") => status' = "waiting_approval"
         /\ Log("run_failed") => status' = "failed"
<1>1. ASSUME Log("node_started")
      PROVE  status' = "running"
  BY <1>1 DEF Log, EventProjection, Coalesce, Keep
<1>2. ASSUME Log("node_finished")
      PROVE  status' = "running"
  BY <1>2 DEF Log, EventProjection, Coalesce, Keep
<1>3. ASSUME Log("approval_required")
      PROVE  status' = "waiting_approval"
  BY <1>3 DEF Log, EventProjection, Coalesce, Keep
<1>4. ASSUME Log("run_failed")
      PROVE  status' = "failed"
  BY <1>4 DEF Log, EventProjection, Coalesce, Keep
<1>. QED  BY <1>1, <1>2, <1>3, <1>4

\* A process logs an event and moves on with the state it has.
LEMMA LogPreserves ==
  ASSUME IInv, NEW p \in Processes, Running(p),
         UNCHANGED <<evidence, frozen, scored, passports, approval, launcher, checkpoint,
         setting>>,
         status' \in RunStatus, status' = "waiting_approval" => passports > 0,
         NEW l \in Process, Goto(p, l), l.at \in Active, l.state = proc[p].state, Knows(l)
  PROVE  IInv'
<1>1. /\ proc' \in [Processes -> Process]
      /\ proc'[p] = l
      /\ \A q \in Processes \ {p} : proc'[q] = proc[q]
  BY DEF Goto, IInv, TypeOK
<1>2. CoreType' /\ Grows /\ ApprovalNeedsPassport'
  BY StateTypes DEF IInv, CoreType, Grows, ApprovalNeedsPassport
<1>3. Knows(proc[p])'
  BY <1>1 DEF Knows, Sound
<1>4. proc'[p].at \in Active =>
         proc[p].at \in Active /\ Carries(proc[p].state, proc'[p].state)
  <2>1. proc[p].at \in Active /\ proc[p].state \in State
    BY RunningIsActive, StateTypes DEF IInv
  <2>. QED  BY <1>1, <2>1, CarriesSelf
<1>5. Live(p) /\ failures' \in 0 .. MaxFailures /\ UNCHANGED <<auditable, restarts>>
  BY DEF Running, IInv, TypeOK, setting
<1>. QED  BY <1>1, <1>2, <1>3, <1>4, <1>5, StepPreserves

\* node_started, node_finished and approval_required.
LEMMA EventPreserves ==
  ASSUME IInv, NEW p \in Processes, Start(p) \/ Finish(p) \/ RequestApproval(p)
  PROVE  IInv'
<1>0. PICK now, node : now = proc[p].state /\ node = proc[p].node
  OBVIOUS
<1>1. /\ Running(p)
      /\ UNCHANGED <<evidence, frozen, scored, passports, approval, launcher, checkpoint, setting>>
  BY DEF Start, Finish, RequestApproval
<1>2. /\ proc[p] \in [at: Active, node: Node, state: State, todo: Nat, saved: BOOLEAN]
      /\ Knows(proc[p]) /\ now \in State /\ node \in Node /\ Sound(now)
  BY <1>0, <1>1, RunningIsActive, ActiveType DEF IInv, TypeOK, WorkInv, Knows
<1>3. status \in RunStatus /\ passports \in Nat
  BY DEF IInv, TypeOK
<1>4. CASE Start(p)
  <2>1. PICK l : l = [proc[p] EXCEPT !.at = "body"]
    OBVIOUS
  <2>2. /\ l \in [at: Active, node: Node, state: State, todo: Nat, saved: BOOLEAN]
        /\ l.at = "body" /\ l.state = now /\ l.node = node
    BY <1>0, <1>2, <2>1 DEF Active
  <2>3. Goto(p, l)
    BY <1>2, <1>4, <2>1 DEF Start, To, Goto, IInv, TypeOK
  <2>4. Knows(l)
    BY <1>0, <1>2, <1>4, <2>2 DEF Start, Knows, Active
  <2>5. status' = "running"
    BY <1>3, <1>4, LogEffect DEF Start
  <2>. QED  BY <1>0, <1>1, <2>2, <2>3, <2>4, <2>5, ActiveIsProcess, LogPreserves
               DEF RunStatus
<1>5. CASE Finish(p) /\ node # "human_review_gate"
  <2>1. PICK l : l = Enter(NextNode(node, now), now, FALSE)
    OBVIOUS
  <2>2. proc[p].at = "finish" /\ node # "end" /\ Enters(NextNode(node, now), now)
    BY <1>0, <1>2, <1>5 DEF Finish, Knows, Active
  <2>3. /\ l \in [at: Active, node: Node, state: State, todo: Nat, saved: BOOLEAN]
        /\ l.at = "start" /\ l.state = now /\ l.node = NextNode(node, now)
    <3>1. NextNode(node, now) \in Node
      BY <1>2, <2>2, NextNodeType
    <3>. QED  BY <1>2, <2>1, <3>1 DEF Enter, Active
  <2>4. Goto(p, l)
    BY <1>0, <1>5, <2>1 DEF Finish
  <2>5. Knows(l)
    BY <1>2, <2>2, <2>3 DEF Knows
  <2>6. status' = "running"
    BY <1>3, <1>5, LogEffect DEF Finish
  <2>. QED  BY <1>0, <1>1, <2>3, <2>4, <2>5, <2>6, ActiveIsProcess, LogPreserves
               DEF RunStatus
<1>6. CASE Finish(p) /\ node = "human_review_gate"
  <2>1. PICK l : l = [proc[p] EXCEPT !.at = "request"]
    OBVIOUS
  <2>2. /\ l \in [at: Active, node: Node, state: State, todo: Nat, saved: BOOLEAN]
        /\ l.at = "request" /\ l.state = now /\ l.node = node /\ l.saved = proc[p].saved
    BY <1>0, <1>2, <2>1 DEF Active
  <2>3. Goto(p, l)
    BY <1>0, <1>2, <1>6, <2>1 DEF Finish, To, Goto, IInv, TypeOK
  <2>4. Knows(l)
    <3>1. proc[p].at = "finish" /\ proc[p].saved /\ Enters("end", now)
      BY <1>0, <1>2, <1>6, Edges DEF Finish, Knows, Active
    <3>. QED  BY <1>2, <1>6, <2>2, <3>1 DEF Knows
  <2>5. status' = "running"
    BY <1>3, <1>6, LogEffect DEF Finish
  <2>. QED  BY <1>0, <1>1, <2>2, <2>3, <2>4, <2>5, ActiveIsProcess, LogPreserves
               DEF RunStatus
<1>7. CASE RequestApproval(p)
  <2>1. PICK l : l = Enter("end", now, FALSE)
    OBVIOUS
  <2>2. Enters("end", now)
    BY <1>0, <1>2, <1>7 DEF RequestApproval, Knows, Active
  <2>3. /\ l \in [at: Active, node: Node, state: State, todo: Nat, saved: BOOLEAN]
        /\ l.at = "start" /\ l.state = now /\ l.node = "end"
    BY <1>2, <2>1, Nodes DEF Enter, Active
  <2>4. Goto(p, l)
    BY <1>0, <1>7, <2>1 DEF RequestApproval
  <2>5. Knows(l)
    BY <1>2, <2>2, <2>3 DEF Knows
  <2>6. status' = "waiting_approval"
    BY <1>3, <1>7, LogEffect DEF RequestApproval
  <2>7. passports > 0
    BY <1>2, <1>3, <2>2 DEF Enters, Sound, State
  <2>. QED  BY <1>0, <1>1, <2>3, <2>4, <2>5, <2>6, <2>7, ActiveIsProcess,
               LogPreserves DEF RunStatus
<1>. QED  BY <1>4, <1>5, <1>6, <1>7

\* A process ends: it is refused, killed or cut off.
LEMMA ExitPreserves ==
  ASSUME IInv, NEW p \in Processes, Refused(p) \/ Fail(p)
  PROVE  IInv'
<1>1. /\ Live(p) /\ Exit(p) /\ UNCHANGED <<core, launcher, checkpoint, auditable, restarts>>
      /\ failures' \in 0 .. MaxFailures
  BY BudgetAssumption DEF Refused, Fail, Running, IInv, TypeOK, setting
<1>2. /\ proc' \in [Processes -> Process]
      /\ proc'[p] = Exited
      /\ \A q \in Processes \ {p} : proc'[q] = proc[q]
  BY <1>1 DEF Exit, Goto, Process, IInv, TypeOK
<1>3. CoreType' /\ Grows /\ ApprovalNeedsPassport'
  BY <1>1, CoreKept DEF core, ApprovalNeedsPassport, IInv
<1>4. Knows(proc[p])' /\ proc'[p].at \notin Active
  BY <1>2 DEF Knows, Exited, Active
<1>. QED  BY <1>1, <1>2, <1>3, <1>4, StepPreserves

-----------------------------------------------------------------------------
(* The checkpoint.                                                         *)

\* In the first life of the server one process lives at most.
LEMMA OneLives ==
  ASSUME IInv, restarts = 0, NEW p \in Processes, NEW q \in Processes, Live(p), Live(q)
  PROVE  p = q
<1>1. Cardinality(Strays) <= 0 /\ Cardinality(Strays) \in Nat /\ IsFiniteSet(Strays)
  BY FS_CardinalityType DEF IInv, LauncherInv
<1>2. Strays = {}
  BY <1>1, FS_EmptySet
<1>3. p \in watched /\ q \in watched
  BY <1>2 DEF Strays
<1>. QED  BY <1>3 DEF IInv, LauncherInv

\* A process starts the graph, or resumes it where the checkpoint is.
LEMMA BootPreserves ==
  ASSUME IInv, NEW p \in Processes, Boot(p)
  PROVE  IInv'
<1>1. /\ proc[p] = Booting /\ UNCHANGED <<core, launcher, checkpoint, setting>>
  BY DEF Boot
<1>2. CoreType' /\ Grows /\ ApprovalNeedsPassport' /\ \A s \in State : Sound(s) => Sound(s)'
  BY <1>1, CoreKept DEF core, ApprovalNeedsPassport, IInv
<1>3. Live(p)
  BY <1>1 DEF Live, Booting
<1>4. SUFFICES ASSUME NEW l \in Process, Goto(p, l), Knows(l)',
                      l.at \in Active /\ checkpoint # None => l.state = checkpoint.state
               PROVE  IInv'
  <2>1. CASE auditable /\ checkpoint = None
    <3>1. Fresh \in State
      BY DEF Fresh, State
    <3>2. Sound(Fresh)'
      <4>1. passports \in Nat /\ passports' = passports
        BY <1>1 DEF IInv, TypeOK, core
      <4>. QED  BY <4>1, FS_EmptySet, BudgetAssumption DEF Sound, Fresh
    <3>3. Enters(First, Fresh)
      BY DEF Enters, First, Fresh
    <3> DEFINE l == Enter(First, Fresh, FALSE)
    <3>4. l \in Process
      BY <3>1, ActiveIsProcess, Nodes DEF Enter, Active, First, Research, Opening
    <3>5. Knows(l)'
      BY <3>2, <3>3 DEF Knows, Enter, First
    <3>6. Goto(p, l)
      BY <2>1 DEF Boot
    <3>. QED  BY <1>4, <2>1, <3>4, <3>5, <3>6
  <2>2. CASE ~auditable \/ (checkpoint # None /\ checkpoint.node = "end")
    <3>1. Exited \in Process /\ Knows(Exited)' /\ Goto(p, Exited) /\ Exited.at \notin Active
      BY <2>2 DEF Process, Knows, Exited, Active, Boot, Exit
    <3>. QED  BY <1>4, <3>1
  <2>3. CASE auditable /\ checkpoint # None /\ checkpoint.node # "end"
    <3>1. PICK c : c = checkpoint
      OBVIOUS
    <3>2. c.node \in Node /\ c.state \in State /\ Sound(c.state) /\ Enters(c.node, c.state)
      BY <2>3, <3>1, StateTypes DEF IInv, CheckpointInv
    <3> DEFINE l == Enter(c.node, c.state, TRUE)
    <3>3. l \in Process
      BY <3>2, ActiveIsProcess DEF Enter, Active
    <3>4. Knows(l)'
      BY <1>2, <3>2 DEF Knows, Enter
    <3>5. Goto(p, l)
      BY <2>3, <3>1 DEF Boot
    <3>6. l.state = checkpoint.state
      BY <3>1 DEF Enter
    <3>. HIDE DEF l
    <3>. QED  BY <1>4, <3>3, <3>4, <3>5, <3>6
  <2>. QED  BY <2>1, <2>2, <2>3
<1>5. /\ proc' \in [Processes -> Process]
      /\ proc'[p] = l
      /\ \A q \in Processes \ {p} : proc'[q] = proc[q]
  BY <1>4 DEF Goto, IInv, TypeOK
<1>6. TypeOK'
  BY <1>1, <1>2, <1>5 DEF CoreType, IInv, TypeOK, launcher, setting
<1>7. WorkInv' /\ CheckpointInv'
  BY <1>1, <1>2, <1>4, <1>5, OthersKnow DEF IInv, WorkInv
<1>8. LauncherInv'
  BY <1>1, <1>3, <1>5, LauncherKept DEF IInv, Live, setting
<1>9. ResumeInv'
  <2> SUFFICES ASSUME restarts = 0, checkpoint # None,
                      NEW q \in Processes, proc'[q].at \in Active
               PROVE  Carries(checkpoint.state, proc'[q].state)
    BY <1>1 DEF ResumeInv, setting
  <2>1. CASE q = p
    BY <1>4, <1>5, <2>1, StateTypes, CarriesSelf DEF IInv
  <2>2. CASE q # p
    BY <1>5, <2>2 DEF IInv, ResumeInv
  <2>. QED  BY <2>1, <2>2
<1>. QED  BY <1>2, <1>6, <1>7, <1>8, <1>9 DEF IInv

\* The checkpoint becomes the state that a process entered its node with.
LEMMA SavePreserves ==
  ASSUME IInv, NEW p \in Processes, Save(p)
  PROVE  IInv'
<1>0. PICK now, node : now = proc[p].state /\ node = proc[p].node
  OBVIOUS
<1>1. /\ Running(p) /\ ~proc[p].saved /\ UNCHANGED <<core, launcher, setting>>
      /\ checkpoint' = [node |-> node, state |-> now]
  BY <1>0 DEF Save
<1>2. /\ proc[p] \in [at: Active, node: Node, state: State, todo: Nat, saved: BOOLEAN]
      /\ now \in State /\ node \in Node /\ Sound(now) /\ Enters(node, now)
      /\ Knows(proc[p]) /\ Live(p)
  BY <1>0, <1>1, RunningIsActive, ActiveType DEF IInv, TypeOK, WorkInv, Knows
<1>3. CoreType' /\ Grows /\ ApprovalNeedsPassport' /\ \A s \in State : Sound(s) => Sound(s)'
  BY <1>1, CoreKept DEF core, ApprovalNeedsPassport, IInv
<1>4. PICK l \in Process :
        /\ Goto(p, l) /\ (l.at \in Active => l.state = now)
        /\ l = Exited \/ l = [proc[p] EXCEPT !.saved = TRUE]
  <2>1. CASE node = "end"
    BY <1>0, <2>1 DEF Save, Exit, Exited, Active, Process
  <2>2. CASE node # "end"
    <3>1. PICK l : l = [proc[p] EXCEPT !.saved = TRUE]
      OBVIOUS
    <3>2. l \in Process /\ l.state = now
      BY <1>0, <1>2, <3>1, ActiveIsProcess
    <3>3. Goto(p, l)
      BY <1>0, <1>2, <2>2, <3>1 DEF Save, Goto, IInv, TypeOK
    <3>. QED  BY <3>1, <3>2, <3>3
  <2>. QED  BY <2>1, <2>2
<1>5. /\ proc' \in [Processes -> Process]
      /\ proc'[p] = l
      /\ \A q \in Processes \ {p} : proc'[q] = proc[q]
  BY <1>4 DEF Goto, IInv, TypeOK
<1>6. TypeOK'
  BY <1>1, <1>2, <1>3, <1>5 DEF CoreType, IInv, TypeOK, launcher, setting
<1>7. WorkInv' /\ CheckpointInv'
  <2>1. Sound(now)'
    BY <1>2, <1>3
  <2>2. CheckpointInv'
    BY <1>1, <1>2, <2>1 DEF CheckpointInv
  <2>3. Knows(proc[p])'
    <3>1. CASE l = Exited
      BY <1>5, <3>1 DEF Knows, Exited, Active
    <3>2. CASE l = [proc[p] EXCEPT !.saved = TRUE]
      <4>1. /\ l.at = proc[p].at /\ l.node = node /\ l.state = now /\ l.todo = proc[p].todo
            /\ l.saved
        BY <1>0, <1>2, <3>2
      <4>. QED  BY <1>0, <1>2, <1>5, <2>1, <4>1 DEF Knows
    <3>. QED  BY <1>4, <3>1, <3>2
  <2>. QED  BY <1>3, <1>5, <2>2, <2>3, OthersKnow DEF IInv, WorkInv
<1>8. LauncherInv'
  BY <1>1, <1>2, <1>5, LauncherKept DEF IInv, Live, setting
<1>9. ResumeInv'
  <2> SUFFICES ASSUME restarts = 0, NEW q \in Processes, proc'[q].at \in Active
               PROVE  Carries(now, proc'[q].state)
    BY <1>1 DEF ResumeInv, setting
  <2>1. q = p
    <3>1. ASSUME q # p
          PROVE  FALSE
      <4>1. Live(q)
        BY <1>5, <3>1, RunningIsActive DEF IInv
      <4>. QED  BY <1>2, <3>1, <4>1, OneLives
    <3>. QED  BY <3>1
  <2>. QED  BY <1>2, <1>4, <1>5, <2>1, CarriesSelf
<1>. QED  BY <1>3, <1>6, <1>7, <1>8, <1>9 DEF IInv

-----------------------------------------------------------------------------
(* The launcher and the clients.                                           *)

\* A process is launched, which only happens when none is watched.
LEMMA LaunchPreserves ==
  ASSUME IInv, NEW p \in Processes, Launch(p)
  PROVE  IInv'
<1>1. /\ proc[p] = Off /\ ~active /\ active' = TRUE /\ watched' = watched \cup {p}
      /\ UNCHANGED <<core, checkpoint, setting>>
  BY DEF Launch
<1>2. /\ proc' \in [Processes -> Process]
      /\ proc'[p] = Booting
      /\ \A q \in Processes \ {p} : proc'[q] = proc[q]
  BY DEF Launch, Goto, Process, IInv, TypeOK
<1>3. CoreType' /\ Grows /\ ApprovalNeedsPassport'
  BY <1>1, CoreKept DEF core, ApprovalNeedsPassport, IInv
<1>4. TypeOK'
  BY <1>1, <1>2, <1>3 DEF CoreType, IInv, TypeOK, setting
<1>5. Knows(proc[p])' /\ proc'[p].at \notin Active
  BY <1>2 DEF Knows, Booting, Active
<1>6. WorkInv' /\ CheckpointInv'
  BY <1>1, <1>2, <1>3, <1>5, OthersKnow DEF IInv, WorkInv
<1>7. LauncherInv'
  <2>1. watched = {} /\ watched' = {p}
    BY <1>1 DEF IInv, LauncherInv
  <2>2. Strays' \subseteq Strays
    BY <1>2, <2>1 DEF Strays, Live
  <2>3. IsFiniteSet(Strays') /\ Cardinality(Strays') <= Cardinality(Strays)
    BY <2>2, FS_Subset DEF IInv, LauncherInv
  <2>4. Cardinality(Strays) \in Nat /\ Cardinality(Strays') \in Nat
    BY <2>3, FS_CardinalityType DEF IInv, LauncherInv
  <2>5. restarts' = restarts /\ restarts \in Nat
    BY <1>1, BudgetAssumption DEF IInv, TypeOK, setting
  <2>. QED  BY <1>1, <2>1, <2>3, <2>4, <2>5 DEF IInv, LauncherInv
<1>8. ResumeInv'
  BY <1>1, <1>2, <1>5 DEF IInv, ResumeInv, setting
<1>. QED  BY <1>3, <1>4, <1>6, <1>7, <1>8 DEF IInv

\* A process that has ended is reaped, by the task that waits for it if it has one.
LEMMA ReapPreserves ==
  ASSUME IInv, NEW p \in Processes, Reap(p)
  PROVE  IInv'
<1>1. /\ proc[p] = Exited /\ watched' = watched \ {p} /\ active' = (active /\ p \notin watched)
      /\ UNCHANGED <<core, checkpoint, setting>>
  BY DEF Reap
<1>2. /\ proc' \in [Processes -> Process]
      /\ proc'[p] = Off
      /\ \A q \in Processes \ {p} : proc'[q] = proc[q]
  BY DEF Reap, Goto, Process, IInv, TypeOK
<1>3. CoreType' /\ Grows /\ ApprovalNeedsPassport'
  BY <1>1, CoreKept DEF core, ApprovalNeedsPassport, IInv
<1>4. TypeOK'
  BY <1>1, <1>2, <1>3 DEF CoreType, IInv, TypeOK, setting
<1>5. Knows(proc[p])' /\ proc'[p].at \notin Active
  BY <1>2 DEF Knows, Off, Active
<1>6. WorkInv' /\ CheckpointInv'
  BY <1>1, <1>2, <1>3, <1>5, OthersKnow DEF IInv, WorkInv
<1>7. LauncherInv'
  <2>1. Strays' \subseteq Strays
    BY <1>1, <1>2 DEF Strays, Live, Off
  <2>2. IsFiniteSet(Strays') /\ Cardinality(Strays') <= Cardinality(Strays)
    BY <2>1, FS_Subset DEF IInv, LauncherInv
  <2>3. Cardinality(Strays) \in Nat /\ Cardinality(Strays') \in Nat
    BY <2>2, FS_CardinalityType DEF IInv, LauncherInv
  <2>4. restarts' = restarts /\ restarts \in Nat
    BY <1>1, BudgetAssumption DEF IInv, TypeOK, setting
  <2>5. active' <=> watched' # {}
    BY <1>1 DEF IInv, LauncherInv
  <2>6. \A q, r \in watched' : q = r
    BY <1>1 DEF IInv, LauncherInv
  <2>. QED  BY <2>2, <2>3, <2>4, <2>5, <2>6 DEF IInv, LauncherInv
<1>8. ResumeInv'
  BY <1>1, <1>2, <1>5 DEF IInv, ResumeInv, setting
<1>. QED  BY <1>3, <1>4, <1>6, <1>7, <1>8 DEF IInv

\* The server forgets the one process it watches: one stray more.
LEMMA RestartPreserves ==
  ASSUME IInv, RestartServer
  PROVE  IInv'
<1>1. /\ restarts < MaxRestarts /\ restarts' = restarts + 1 /\ active' = FALSE /\ watched' = {}
      /\ UNCHANGED <<core, proc, checkpoint, auditable, failures>>
  BY DEF RestartServer
<1>2. CoreType' /\ Grows /\ ApprovalNeedsPassport' /\ \A s \in State : Sound(s) => Sound(s)'
  BY <1>1, CoreKept DEF core, ApprovalNeedsPassport, IInv
<1>3. restarts \in Nat /\ restarts' \in 0 .. MaxRestarts
  BY <1>1, BudgetAssumption DEF IInv, TypeOK
<1>4. TypeOK'
  BY <1>1, <1>2, <1>3 DEF CoreType, IInv, TypeOK
<1>5. WorkInv' /\ CheckpointInv'
  BY <1>1, <1>2, StateTypes DEF IInv, WorkInv, CheckpointInv, Knows
<1>6. LauncherInv'
  <2>1. PICK w : watched \subseteq {w}
    BY DEF IInv, LauncherInv
  <2>2. Strays' \subseteq Strays \cup {w}
    BY <1>1, <2>1 DEF Strays, Live
  <2>3. IsFiniteSet(Strays) /\ Cardinality(Strays) \in Nat /\ Cardinality(Strays) <= restarts
    BY FS_CardinalityType DEF IInv, LauncherInv
  <2>4. /\ IsFiniteSet(Strays \cup {w})
        /\ Cardinality(Strays \cup {w}) =
             IF w \in Strays THEN Cardinality(Strays) ELSE Cardinality(Strays) + 1
    BY <2>3, FS_AddElement
  <2>5. IsFiniteSet(Strays') /\ Cardinality(Strays') <= Cardinality(Strays \cup {w})
    BY <2>2, <2>4, FS_Subset
  <2>6. Cardinality(Strays') \in Nat
    BY <2>5, FS_CardinalityType
  <2>. QED  BY <1>1, <1>3, <2>3, <2>4, <2>5, <2>6 DEF LauncherInv
<1>7. ResumeInv'
  BY <1>1, <1>3 DEF ResumeInv
<1>. QED  BY <1>2, <1>4, <1>5, <1>6, <1>7 DEF IInv

\* The human and the clients change the status and the approval.
LEMMA ClientPreserves ==
  ASSUME IInv, (\E d \in Decision : Decide(d)) \/ Attest \/ Cancel
  PROVE  IInv'
<1>1. UNCHANGED <<evidence, frozen, scored, passports, launcher, proc, checkpoint, setting>>
  BY DEF Decide, Attest, Cancel
<1>2. /\ status' \in RunStatus \ {"waiting_approval"}
      /\ approval' \in Decision \cup {None}
  <2>1. status \in RunStatus /\ approval \in Decision \cup {None}
    BY DEF IInv, TypeOK
  <2>2. CASE \E d \in Decision : Decide(d)
    BY <2>2 DEF Decide, Decision, NextStatus, RunStatus, Terminal
  <2>3. CASE Attest
    BY <2>1, <2>3 DEF Attest, RunStatus, Terminal
  <2>4. CASE Cancel
    BY <2>1, <2>4, LogEffect DEF Cancel, RunStatus, Terminal
  <2>. QED  BY <2>2, <2>3, <2>4
<1>3. TypeOK' /\ ApprovalNeedsPassport'
  BY <1>1, <1>2 DEF IInv, TypeOK, ApprovalNeedsPassport, launcher, setting
<1>4. WorkInv' /\ CheckpointInv' /\ ResumeInv'
  BY <1>1 DEF IInv, WorkInv, CheckpointInv, ResumeInv, Knows, Sound, setting
<1>5. LauncherInv'
  BY <1>1, LauncherKept DEF IInv, Live, setting
<1>. QED  BY <1>3, <1>4, <1>5 DEF IInv

-----------------------------------------------------------------------------
(* Theorems.                                                               *)

\* Before anything is launched the invariant holds.
LEMMA InitInv == Init => IInv
<1> SUFFICES ASSUME Init
             PROVE  IInv
  OBVIOUS
<1>1. TypeOK
  <2>1. proc \in [Processes -> Process]
    BY DEF Init, Process
  <2>2. failures \in 0 .. MaxFailures /\ restarts \in 0 .. MaxRestarts
    BY BudgetAssumption DEF Init
  <2>3. status \in RunStatus /\ frozen \subseteq SUBSET (1 .. evidence)
    BY DEF Init, RunStatus
  <2>. QED  BY <2>1, <2>2, <2>3 DEF Init, TypeOK
<1>2. WorkInv /\ CheckpointInv /\ ResumeInv /\ ApprovalNeedsPassport
  BY DEF Init, WorkInv, CheckpointInv, ResumeInv, ApprovalNeedsPassport, Knows, Off, Active
<1>3. Strays = {}
  BY DEF Init, Strays, Live, Off
<1>4. LauncherInv
  BY <1>3, FS_EmptySet DEF Init, LauncherInv
<1>. QED  BY <1>1, <1>2, <1>4 DEF IInv

\* Every step, and a stutter, keeps the invariant.
LEMMA NextInv == IInv /\ [Next]_vars => IInv'
<1> SUFFICES ASSUME IInv, [Next]_vars
             PROVE  IInv'
  OBVIOUS
<1>1. CASE UNCHANGED vars
  BY <1>1 DEF IInv, TypeOK, WorkInv, CheckpointInv, LauncherInv, ResumeInv,
              ApprovalNeedsPassport, Knows, Sound, Strays, Live, vars, core, launcher,
              setting
<1>2. ASSUME NEW p \in Processes, Launch(p) \/ Reap(p) \/ Step(p) \/ Fail(p)
      PROVE  IInv'
  <2>1. CASE Launch(p) \/ Reap(p) \/ Fail(p)
    BY <2>1, LaunchPreserves, ReapPreserves, ExitPreserves
  <2>2. CASE Boot(p) \/ Save(p)
    BY <2>2, BootPreserves, SavePreserves
  <2>3. CASE Start(p) \/ Finish(p) \/ RequestApproval(p) \/ Refused(p)
    BY <2>3, EventPreserves, ExitPreserves
  <2>4. CASE Think(p) \/ Hypothesize(p) \/ CloseRound(p) \/ AnalyzeGaps(p) \/ ReachGate(p)
    BY <2>4, QuietPreserves
  <2>5. CASE Fetch(p) \/ Collect(p)
    BY <2>5, FetchPreserves, CollectPreserves
  <2>6. CASE FreezeBoard(p) \/ PersistResults(p) \/ DraftPassport(p)
    BY <2>6, FreezeBoardPreserves, PersistPreserves, DraftPreserves
  <2>. QED  BY <1>2, <2>1, <2>2, <2>3, <2>4, <2>5, <2>6 DEF Step
<1>3. CASE RestartServer
  BY <1>3, RestartPreserves
<1>4. CASE (\E d \in Decision : Decide(d)) \/ Attest \/ Cancel
  BY <1>4, ClientPreserves
<1>. QED  BY <1>1, <1>2, <1>3, <1>4 DEF Next

\* What processes know about their research and about the trust core, who is watched,
\* and what the checkpoint holds: the strengthening behind the properties of AuditGraph.
THEOREM InductiveInvariant == Spec => []IInv
BY InitInv, NextInv, PTL DEF Spec

\* Every variable has its type.
THEOREM TypeCorrect == Spec => []TypeOK
<1>1. IInv => TypeOK
  BY DEF IInv
<1>. QED  BY <1>1, InductiveInvariant, PTL

\* A run waits for a human only with a passport to decide about, for any number of
\* orchestrators that are killed, resumed and compete.
THEOREM GateHasPassport == Spec => []ApprovalNeedsPassport
<1>1. IInv => ApprovalNeedsPassport
  BY DEF IInv
<1>. QED  BY <1>1, InductiveInvariant, PTL

\* The invariant reaches every graph state in use.
LEMMA StatesAreSound ==
  ASSUME IInv, NEW s \in States
  PROVE  Sound(s)
<1>1. CASE \E p \in Processes : Running(p) /\ s = proc[p].state
  BY <1>1, RunningIsActive DEF IInv, WorkInv, Knows
<1>2. CASE checkpoint # None /\ s = checkpoint.state
  BY <1>2 DEF IInv, CheckpointInv
<1>. QED  BY <1>1, <1>2 DEF States

\* No graph state in use overdraws the research budget or counts a source twice.
THEOREM BudgetKept == Spec => []BudgetRespected
<1>1. IInv => BudgetRespected
  BY StatesAreSound DEF BudgetRespected, Sound
<1>. QED  BY <1>1, InductiveInvariant, PTL

\* A process past the freeze evaluates the board that was frozen.
THEOREM FrozenBoardUsed == Spec => []FrozenBoardMatches
<1>1. IInv => FrozenBoardMatches
  BY StatesAreSound DEF FrozenBoardMatches, Sound
<1>. QED  BY <1>1, InductiveInvariant, PTL

\* Each life of the server adds at most one investigation of the run.
THEOREM OneAtATime == Spec => []OneInvestigation
<1>1. IInv => OneInvestigation
  <2> SUFFICES ASSUME IInv
               PROVE  Cardinality({p \in Processes : Live(p)}) <= 1 + restarts
    BY DEF IInv, LauncherInv, OneInvestigation
  <2>1. PICK w : watched \subseteq {w}
    BY DEF IInv, LauncherInv
  <2>2. {p \in Processes : Live(p)} \subseteq Strays \cup {w}
    BY <2>1 DEF Strays
  <2>3. IsFiniteSet(Strays) /\ Cardinality(Strays) \in Nat /\ Cardinality(Strays) <= restarts
    BY FS_CardinalityType DEF IInv, LauncherInv
  <2>4. /\ IsFiniteSet(Strays \cup {w})
        /\ Cardinality(Strays \cup {w}) =
             IF w \in Strays THEN Cardinality(Strays) ELSE Cardinality(Strays) + 1
    BY <2>3, FS_AddElement
  <2>5. /\ IsFiniteSet({p \in Processes : Live(p)})
        /\ Cardinality({p \in Processes : Live(p)}) <= Cardinality(Strays \cup {w})
    BY <2>2, <2>4, FS_Subset
  <2>6. Cardinality({p \in Processes : Live(p)}) \in Nat /\ restarts \in Nat
    BY <2>5, FS_CardinalityType, BudgetAssumption DEF IInv, TypeOK
  <2>. QED  BY <2>3, <2>4, <2>5, <2>6
<1>. QED  BY <1>1, InductiveInvariant, PTL

\* In the first life of the server no checkpoint loses work that an earlier one
\* recorded.
THEOREM WorkIsKept == Spec => CheckpointKeepsWork
<1> DEFINE Keeps ==
      checkpoint # None /\ restarts' = 0 => Carries(checkpoint.state, checkpoint'.state)
<1>1. IInv /\ [Next]_vars => [Keeps]_vars
  <2> SUFFICES ASSUME IInv, Next, checkpoint # None, restarts' = 0
               PROVE  Carries(checkpoint.state, checkpoint'.state)
    BY DEF vars
  <2>1. checkpoint.state \in State
    BY StateTypes DEF IInv
  <2>2. ASSUME NEW p \in Processes, Save(p)
        PROVE  Carries(checkpoint.state, checkpoint'.state)
    <3>1. proc[p].at \in Active /\ restarts = 0 /\ checkpoint'.state = proc[p].state
      BY <2>2, RunningIsActive DEF Save, IInv, setting
    <3>. QED  BY <3>1 DEF IInv, ResumeInv
  <2>3. (\E p \in Processes : Save(p)) \/ checkpoint' = checkpoint
    BY ZenonT(30) DEF Next, Step, Launch, Reap, Fail, RestartServer, Decide, Attest,
       Cancel, Boot, Start,
           Think, Hypothesize, Fetch, Collect, CloseRound, AnalyzeGaps, FreezeBoard,
           PersistResults, DraftPassport, ReachGate, Finish, RequestApproval, Refused
  <2>. QED  BY <2>1, <2>2, <2>3, CarriesSelf
<1>2. [Keeps]_vars =>
        [checkpoint # None /\ restarts' = 0 =>
           LET old == checkpoint.state
               new == checkpoint'.state
           IN  /\ old.research_round <= new.research_round
               /\ old.evidence_board \subseteq new.evidence_board
               /\ old.frozen_board => new.frozen_board
               /\ old.check_results_ref => new.check_results_ref
               /\ old.passport_sequence <= new.passport_sequence]_vars
  BY DEF Carries
<1>. QED  BY <1>1, <1>2, InductiveInvariant, PTL DEF Spec, CheckpointKeepsWork

=============================================================================
