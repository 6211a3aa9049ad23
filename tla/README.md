# TLA+ models of ToolPassport

ToolPassport audits a software tool. A Rust *trust core* keeps everything that
counts (runs, an append-only hash-chained event log, evidence, scores, frozen
passports, the human's decision, the receipt of a testnet attestation) in
SQLite and files. A Python *orchestrator* walks a LangGraph graph of research
and evaluation nodes and reports to the trust core over HTTP. A *dashboard*
shows the state and lets a human launch, approve and attest. A *registry
contract* on Sepolia records commitments.

This directory models the parts whose correctness depends on the order of
things: requests that interleave, processes that die and resume, files and rows
that have no common transaction, a network that loses a transaction, databases
older than the code. It also models the two pure functions everything rests on,
the score and the normal form of a URL.

## Inventory

| Component | Source | State | Operations | What is hard | What makes it correct |
| --- | --- | --- | --- | --- | --- |
| Run lifecycle and event log | `backend/src/services/mod.rs`, `repository/mod.rs`, migrations 0001, 0005 | `runs.status`, `run_events` with sequence and hashes | create run, append event, generated events of all other operations | the status is read before the transaction that changes it; a failed read of the chain's end is swallowed | one unbroken chain; the log replays to the status; a terminal status is final |
| Evidence and artifact store | `services/storage.rs`, `create_artifact`, `create_evidence` | files, `artifacts`, `evidence` | upload, create, list | file first, row second, no common transaction; vanished requests | a row has its file; errors leave no orphan |
| Freezes | `freeze_evidence_board`, `create_check_results`, `freeze_passport`, migrations 0006-0008 | boards and manifests, check results, passports and provenances | freeze, score, freeze | validation outside the transaction; the passport's sequence is read before it | board before results before passport; a passport seals the log at its own event |
| Approval | `create_approval`, migration 0009 | the unique approval | decide | check-then-act on the latest passport and on the status | one decision, logged once, for a frozen passport |
| Attestation | `submit_attestation`, `services/attestation.rs`, migration 0010 | attempt, receipt; transactions | claim, send, wait, record | two systems, failure between any two steps, repeated requests | at most one transaction; a receipt stands for a mined one |
| Registry contract | `contracts/src/ToolPassportRegistry.sol` | records per tool and run | `recordPassport`, reads | does not deduplicate | the trust core must not send twice |
| Launcher | `launch_investigation`, `InvestigationRegistry` in `api/mod.rs` | active runs (memory), one watcher task per child | launch, reap | the registry is lost with the server, its children are not | one investigation per life of the server |
| Orchestrator | `orchestrator/src/.../graph.py`, `nodes.py`, `checkpoint.py`, `backend_client.py`, `scripts/live_audit.py` | graph state, SQLite checkpoint | 13 nodes, each with required events and requests | death between a commit and the next checkpoint; lost answers; two processes on one thread; the script exits for tools that are not on GitHub | budget; board evaluated = board frozen; no approval without a passport; it ends |
| Scoring | `services/scoring.rs`, `domain/check_results.rs`, catalog 0.3.0 | none | `score_check_results` | floors, integer division, exclusions that change the denominator, caps | rounding never lifts; a better finding never hurts; a high-risk finding is not offset |
| Tool registry | `resolve_tool`, `create_tool`, `add_identifier`, migration 0002 | `tools`, `tool_external_ids`, `tool_aliases` | resolve, create, add | check-then-insert; an answer from several queries; identifiers kept twice | one owner per identifier; an answer without review is right when it is given, a resolved tool and a conflict stay right |
| URL identity | `services/normalizer.rs` | none | `normalize_url` | normal forms by cutting text; said to be a port of a Python function | spellings merge, places stay apart, a normal form is normal |
| Event stream | `EventBroadcaster`, `stream_run_events`, `list_run_events` | one channel of 256 per run, in memory | subscribe, list, broadcast | broadcast after and outside the transaction; overflow; a gap between two locks | list after subscribe misses nothing silently; gaps are told |
| Migrations | `migrations/0005`, `0006` | rows of earlier releases | rebuild `run_events`, bind runs | placeholders for hashes the old rows never had | new events link; no commitment rests on placeholders |
| Research, LLM, dashboard, schemas, scripts | | | | I/O, pure text, presentation | not modelled |

Components talk in three ways: the dashboard and the orchestrator call the
trust core over HTTP; the trust core spawns the orchestrator and sends
transactions to the network; the orchestrator writes a checkpoint database
nobody else reads.

## Modules

| Module | Contents |
| --- | --- |
| `RunLifecycle` | statuses, kinds of events, what an event or a decision does to the status |
| `TrustCore` | the handlers of one run against its rows, the network and the contract |
| `AuditTrail` | replaying the log, and two promises of the documentation that fail |
| `AuditedRun` | the abstract specification: every operation one step |
| `TrustCoreRefines` | the refinement mapping from `TrustCore` to `AuditedRun` |
| `TrustCoreInvariant` | the inductive invariant |
| `AuditGraph` | orchestrator processes, checkpoint, launcher and human, on top of a trust core that answers in one step |
| `EvidenceStore` | files and rows of evidence, and the freeze that reads them |
| `FrozenRecords` | what the three freezes make of their bodies: checks, order, versions |
| `Submission` | several runs, one signer and its nonces, the configuration, preflight and the network |
| `Scoring` | from findings to dimension scores, total and rating |
| `ToolRegistry` | creations, additions and resolutions that race over identifiers and names |
| `UrlIdentity` | `normalize_url`, the Python function it is a port of, and rewritings of URLs |
| `EventStream` | requests that commit and send, clients that subscribe, list and read |
| `MigratedRun` | runs older than the hash chain, the two migrations, and what is appended after them |
| `Services` | `Submission`, `FrozenRecords`, `MigratedRun`, `Scoring` and `UrlIdentity` side by side |
| `MC_TrustCore`, `MC_AuditGraph`, `MC_EvidenceStore`, `MC_ToolRegistry`, `MC_Services` | symmetry sets and inputs for TLC |
| `TrustCore_proofs` | theorems about one run of the trust core, the refinement of `AuditedRun`, and that the log explains the status |
| `EvidenceStore_proofs`, `AuditGraph_proofs`, `ToolRegistry_proofs`, `EventStream_proofs` | theorems about the module of that name |
| `Scoring_proofs`, `UrlIdentity_proofs` | theorems about the module of that name, as a part of `Services` |
| `Services_proofs` | theorems about `Submission`, `MigratedRun` and `FrozenRecords`, on their own and as parts of `Services`, and about all of its parts |

### TrustCore

A handler is an async function. What it does between two awaits is one action:
`Begin*` is the read of the run and the validation against it, `Commit*` the
transaction with every statement in it. What a request remembers between the
two is its entry in `handler`; that it may be stale by then is the point of the
model. `Abandon` ends a request anywhere: refused, failed and rolled back,
disconnected or killed. Two runs never touch the same rows, so there is one.

- A *hash* is the sequence of event kinds it commits to. That is SHA-256 over
  the canonical event with `prev_event_hash` inside, under collision resistance.
- `Inserted(events, kind)` has the insert that belongs at the end of the chain
  and the one a failed read of that end leads to (`NextSlots`); the unique key
  on `(run_id, sequence)` decides which of them get in.
- The `CASE`s of `event_projection` are the table `EventProjection` of
  (status needed, status set).
- An attestation is six steps: the checks (`BeginAttestation`, `LoadApproval`),
  the claim, `send()`, the answer of `get_receipt()`, the receipt. Mining and
  dropping are steps of the network. The handler that waits for a dropped
  transaction can only be abandoned.

Not modelled: the content of requests beyond what decides the outcome; runs of
other tools; error codes.

### AuditGraph

The trust core is what `AuditedRun` promises, minus its log: a request is one
step. A process is at the start of a node, in its body, at its end or at the
gate's request; each of these steps makes one request. `Refused` is a request
the trust core turns down, or a node that raises: the process ends and nothing
tells the run, as in `_append_required_event` and the `RuntimeError`s of
`nodes.py`. `Fail` is a kill or a lost request or answer; a lost *answer* is a
step followed by `Fail`.

LangGraph writes checkpoints in the background. `Save` may come any time after
a node ended and before the body of the following one starts; later is not
modelled. On an exception LangGraph drains its writes, so `Refused` waits for
`Save`. The run may be of any tool, but
`live_audit.py` only takes a GitHub repository and exits for another one before
it tells the trust core anything; `auditable` says which it is, `Boot` ends the
process, and the run stays `pending`. `RestartServer` forgets the registry and the watchers; the children
live on, as the command is spawned without `kill_on_drop`.

Abstracted: six nodes have no effect on requests or routing (`Quiet`); a piece
of evidence is a number; the gaps are either few enough for
`sufficient_coverage` or not (`few`), and as live evidence supports no check
this never changes. `freeze_evidence_board` can also be refused because a model
proposed malformed gaps; `Fail` has the same effect.

### EvidenceStore

An upload or a piece of evidence is a file and then a row. `FailWrite` is an
error of either, `Discard` the removal the code then does, `Abandon` a request
that vanishes or a removal that fails. A freeze reads `evidence` and then
`artifacts`, in the order `Queries` gives. Ids are reused in the model once
nothing refers to them; in the code they are fresh UUIDs.

### FrozenRecords

`TrustCore` knows when a board, results or a passport may be frozen; this
module what is in them. The rows a freeze reads never change once they are
there (evidence, a board, results), so that the whole handler is one step here.
A list is a sequence; `Ordered` and `Normal` are the sorts of the code, which
put at each place the item of that rank (`Place`): ids come once, as the
checks before a sort insist. `asked` keeps the requests, so that
`OnlyKeptOrderMatters` can ask what the same request in another order would have
come to. Citations of a finding, known gaps and conditions are stored, and
hashed, in the order of the caller; for them the property asks that nothing else
changes. Gaps are claims that cite
nothing, risks are statements; the score stands for the verdicts that `Scoring`
computes it from. Known gaps and conditions of a passport stay in the order
given, in the code as well, and are left out.

### Submission

What `TrustCore`, a model of one run, cannot show. `submit()` is cut where it
waits for the node: the configuration is read (`Begin`), compared with the
approval (`Check`), the transaction is filled in with the nonce that is pending
(`Fill`), sent (`Send`), and its receipt awaited by hash (`Confirm`). Two calls
can fill in the same nonce; the node then keeps one of the transactions or
refuses the second. `Restart` changes `RPC_URL` and `REGISTRY_CONTRACT`.
Preflight is the predicate `Ready`: it changes nothing, and `told` remembers
whose approval it preceded. Gas, balances and reorganisations are left out; a
transaction that runs out of gas is one that reverts.

### Scoring

The weights of the four embedded profiles, in quarters, and the points of the
two rules, in quarters, so that sums are integers. A behaviour starts with every
check failed and improves one finding at a time: its states are all
submissions, its steps all pairs that differ in one finding by one grade. The
`f64` arithmetic of the code is exact on these weights up to one quotient per
dimension, and a correctly rounded quotient does not cross an integer.

### ToolRegistry and UrlIdentity

A request is a chain of queries and at most one transaction, with the commits
of other requests in between. `LoadMatched` is the `get_tool` per owner inside
`find_tools_by_identifiers`. The history variable `atomic` holds, for each
resolution, the answers one look at the whole registry would have given at the
moments since it began.

`UrlIdentity` takes a URL as what the code cuts it into: host, port, segments,
and what is glued to them (`?` and `#` with or without something behind, `@`, a
dot, the brackets of an IPv6 literal). `ReferenceNormalize` is the Python
function: it finds the end of the host as `urlsplit` does, and what is empty
behind a `?` or `#` counts as absent. The two differ on seven forms of URL, which
`OnlyReference` and `OnlyPort` name. Five the code refuses and the function
accepts: a final bare `?` or `#` of the path, an `@` in the path, a colon without
a port, `:443?`, and an IPv6 literal. Two the code accepts: a `?` or `#` after
the host, which the function refuses or cuts off, and a port with a sign,
`:+443`. On every other form they agree (`AnswersAsReference`). A behaviour
rewrites a URL by steps the documentation calls the same place (`Respell`) or
another one (`Move`).

### EventStream

An event is its place in the log. `Commit` is the transaction of any handler
that logs, `Broadcast` the call after it; `pending` is what lies between. A
client subscribes in two locks (`MissChannel`, `CreateChannel`), lists, and
reads at its own pace; `Lag` is the notice in place of messages the channel no
longer holds. A run has one channel by construction: that two first subscribers
do not make two of them is read off the code (`entry().or_insert_with` under the
write lock looks again) and no property could show it.

### MigratedRun

Rows written before 0005 have no hashes, rows between 0005 and 0006 no binding.
The two migrations run anywhere between the events of two runs; `Insert` is
`insert_generated_event` over whatever row it finds. The sorts and copies of a
table rebuild are one step, as they are one transaction.

### Services

Five of the parts share no variable and no row. The initial state chooses which
of them runs and the others stand still, so that the run visits the sum of
their states and not the product. Each property there speaks of one part. It is
that part's own property, or the conjunction of those that are about one
matter: `RecordsAreOfOneBoard` is `PassportIsOfOneBoard` and `CitationsAreBacked`
of `FrozenRecords`, `MigratedChainsHold` is `NewEventsLink` and `SealsCommit` of
`MigratedRun`, `NormalFormsAgree` is `AnswersAsReference` and
`PlainProposalIsCanonical` of `UrlIdentity`, `ScoresAreSound` is three statements
about `Scoring`.

## Runs

| Run | Bounds | Shows |
| --- | --- | --- |
| `TrustCore` | 2 requests, 1 board version, 5 events before a client event is refused, 2 passports | `ChainLinked`, `PassportsSealLog`, `OneDecision`, `OneApprovedTransaction`, `ReceiptIsBacked`, `LogExplainsStatus`, `TerminalIsFinal`; that `TrustCore` implements `AuditedRun` |
| `AuditGraph` | 2 processes, 1 restart of the server, 1 round, 1 source | `ApprovalNeedsPassport`, `FrozenBoardMatches`, `OneInvestigation` |
| `AuditGraphResumes` | 2 failures, 2 rounds, 3 sources, 2 pages a round, weak fairness | `BudgetRespected`, `CheckpointKeepsWork`, `InvestigationEnds` |
| `EvidenceStore` | 3 requests, 3 ids, 2 faults | `RowsHaveFiles`, `ManifestIsBacked`, `OrphansAreFaults`, `FreezeFindsSnapshots` |
| `ToolRegistry` | 3 requests, 3 identifiers, 2 names | `OwnersAgree`, `ConfidentAnswersAreSnapshots`, `AnswersStand` |
| `EventStream` | 2 requests, 2 clients, channel of 2, 4 events, 1 fault, weak fairness | `ListAndStreamAreComplete`, `GapsAreTold`, `EventuallyTold` |
| `Services`: submission | 2 runs, 2 chains, 2 addresses, 1 restart | `SentAsApproved`, `ReceiptsHold`, `RecordedOnce` |
| `Services`: freezes | 2 board versions, 2 passports, 2 pieces of evidence, 2 checks, bodies in and out of order | `RecordsAreOfOneBoard`, `OnlyKeptOrderMatters` |
| `Services`: migrations | 2 runs, 2 kinds, 4 events a run | `MigratedChainsHold` |
| `Services`: scores | the four profiles, four checks that may be excluded | `ScoresAreSound`, `BetterNeverHurts` |
| `Services`: URLs | 11 hosts, 6 ports, paths of up to 3 out of 11 segments | `NormalFormsAgree`, `OneIdentityPerPlace` |
| `ApprovalBindsLatest` | as `TrustCore`, 6 events | violated: see below |
| `FailedAttempt` | the same, 1 passport | violated |
| `InterruptedRun` | 1 process, 1 failure, relaunched for ever | violated |
| `ReopenedRun` | 1 process, 1 failure | violated |
| `NoQueryNoFragment` | the URLs of `Services` | violated |

Each module's type invariant is checked besides, once per module.

Why the bounds are enough. Every race in the trust core is between one
request's read and its transaction and one other request's transaction, which
two requests show; five events are what it takes to reach a decision
with two passports or with a client event out of order, and the events of the
core (decision, submission, confirmation) come on top. `node_finished` is left
out: it does to a running run what `node_started` does, and nothing else. Two
passports are the least for "latest" to mean something. The proofs remove all
of these bounds for the properties they cover. In `AuditGraph` two processes
are what one restart can produce; one round with at most one source lets two
processes hold different boards. Two rounds, three sources and two pages let a
round overshoot the budget if it is not cut down, and two failures let a resumed
process be interrupted again. An upload, a piece of evidence and a freeze in
flight together need three requests and two ids.

In `ToolRegistry` a torn answer needs a resolution and two commits around its
queries, a conflict two tools and an intake with both their identifiers: three
requests and three identifiers. In `Submission` two runs compete for one nonce;
the second chain and address are the wrong ones, and one restart leads there or
back. In `EventStream` a channel of two overflows by the third message, and of
two requests one commits two events at once. In `FrozenRecords` two versions
are the least that can be mixed up, and two pieces of evidence the least that
can be out of order. `Scoring` is not bounded but for symmetry (alike checks
have their findings in ascending order) and for what may be excluded: checks
that are alone in their dimension and checks that are not, with and without a
cap. `UrlIdentity` has each kind of text the code looks for, upper and lower
case, and paths one segment longer than a repository. In `MigratedRun` four
events are one before each migration and two after, of which one seals.

Fairness is assumed in three places only. `LiveSpec`: a process that can step
does (`WF` of `Step`), and an exited child is reaped. Nobody has to launch,
decide, attest or cancel. `InvestigationEnds` is about runs of a GitHub
repository (`auditable`): for another tool it is false without any failure. `RelaunchSpec` adds a user who launches again
whenever the launcher allows it; it serves to show that even this does not
help. `FairSpec` of `EventStream`: the runtime goes on with a request that has
committed (no lock is held across an await there), and a connected client takes
what it is sent. Cancellation, disconnection and restart remain possible.

## What the violated runs show

- **`ApprovalBindsLatest`** - the documentation says a decision is bound to the
  latest frozen hashes. `create_approval` reads the latest passport outside its
  transaction, and `freeze_passport` does not look at the status: a passport
  frozen in between is newer than the one the decision names. What does hold,
  and is proved: the decision names *some* frozen passport (`OneDecision`).
- **`FailedAttemptReturnsToReview`** - a failed or interrupted attestation is
  said to return to manual review. After the claim, an error leaves the run
  `running`; the attempt cannot be repeated nor the decision replaced.
- **`InterruptedRunCompletes`** - nodes are said to be re-entrant. A process
  killed between the commit of a freeze and the next checkpoint repeats the
  request, is refused, and so is every later one.
- **`WaitingCanBeDecided`** - approvals are said never to be retried blindly. A
  process killed after `approval_required` repeats it when relaunched after a
  testnet approval; the run then waits for a decision it already has, and the
  attestation needs a running run.
- **`NoQueryNoFragment`** - the query of `https://example.com?q` is taken for a
  part of the host.

Other places where the code and its documentation part, met while modelling.
No run is kept for them; the properties named are what does hold.

- The code is said to be a direct port of the Python function. A final `?` or `#`,
  which the function takes for an absent query or fragment, is refused, and six
  more forms are answered differently (see `UrlIdentity`). On all others the two
  agree (`NormalFormsAgree`).
- A tool created between the two queries of a resolution is found by name and
  not by identifier, and the intake is taken for a possible fork of the tool it
  identifies. Answers that need no review are those of one moment
  (`ConfidentAnswersAreSnapshots`).
- A proposal to create a tool (`new_strong_identifier`) needs no review either,
  and is out of date once another request has created that tool; the creation
  it leads to is then refused (`OwnersAgree`). Only a resolved tool and a
  conflict stay right (`AnswersStand`).
- A request that loses the race for an identifier is told that its own tool
  owns it (`services/mod.rs`, line 540). The rows are right (`OwnersAgree`).
- The identifier proposed for a repository that ends with `.git` twice, or that
  is called `..git` or `...git`, is refused or changed when the tool is created:
  one `.git` is taken away, and what is left ends with `.git` again or is a dot
  or two. For plain URLs the proposal is canonical (`NormalFormsAgree`).
- Events are said to be pushed as they are appended; two requests can send in
  the other order than they committed. Nothing is lost by it
  (`ListAndStreamAreComplete`).
- An attestation is said to answer what was registered. A transaction to an
  approved address without code succeeds, and the run is confirmed although
  nothing was recorded. Preflight would have told (`ReceiptsHold`), and nothing
  insists on it.
- The migration says placeholder hashes are replaced at the next append; no
  code does so, and a trigger forbids it. No commitment is affected
  (`MigratedChainsHold`), since old runs are bound to a catalog the code no
  longer loads and so cannot be frozen.

## Proofs

Every theorem holds for all values of the constants: any sets of requests,
processes, runs and identifiers, and any bounds. Each module assumes of its
constants only what is stated in its named assumption: `None` is not one of the
values it stands in for, numbers are numbers, sets of requests hold requests of
the form the handlers parse. TLC evaluates these assumptions on every run.

Few of the properties are inductive: most speak of rows, and what a request
that is half done remembers of them is missing. Every proof therefore has an
invariant `IInv` whose parts say what each step of a request still knows, one
lemma per action (or per group of actions that change the same rows), and a
corollary per property. TLC checks on small instances what the proofs establish
for all of them.

**`TrustCore_proofs`** (`ConstantsAssumption`): `TypeOK`, `ChainLinked`,
`PassportsSealLog`, `OneDecision`, `OneApprovedTransaction`, `ReceiptIsBacked`,
`TerminalIsFinal`. `IInv` adds

- `LogInv`: the hash at position *i* commits to *i - 1* events, so a seal's
  length is its position in the log, and only a run that does not exist has no
  events (which is why a second "first" event never fits);
- `SealInv`: passports and `provenance_frozen` events correspond in order;
- `RequestInv`: the sequence a freeze has read is at most one beyond the
  passports, so that if it is free it is the next one; whoever is past the claim
  is the owner of the attempt; nobody who has yet to send finds a transaction on
  the way;
- `SubmissionInv`, `VerdictInv`, `DecisionInv`: the permission to submit, the
  decision and its event.

Also there (with `VerdictAssumption`): `TrustCoreImplementsAuditedRun` and
`LogExplains`. For the refinement each transaction that commits maps to its
operation of `AuditedRun` and every other step to a stutter. A transaction
validated against a status it read long before: what makes its step one of
`AuditedRun` is the compare-and-set, and for a decision and a receipt also the
invariant. `LogExplains` has to say what a recursive function over the log
computes. The library's induction theorems take an operator and cannot be used;
instead the set of lengths at which the replay of an extended log could differ
has no least element, as the order on the naturals is well founded.

**`EvidenceStore_proofs`** (`StoreAssumption`): `TypeOK`, `RowsHaveFiles`,
`ManifestIsBacked`, `OrphansAreFaults`, `FreezeFindsSnapshots`. The invariant
says who owns a file: a request that stores an id is alone with it, no row has
it yet, and its file is as far as the request is. A freeze holds evidence that
is still there and, since it reads evidence first, artifacts with every snapshot
of it.

**`AuditGraph_proofs`** (`BudgetAssumption`): `TypeOK`, `ApprovalNeedsPassport`,
`BudgetRespected`, `FrozenBoardMatches`, `OneInvestigation`,
`CheckpointKeepsWork`. A graph state is `Sound` if its counters are within the
budget and match its evidence, and what it believes frozen is frozen; this holds
of every process and of the checkpoint, also when two processes work on one
thread. `Enters` says in what state a node may be entered, so that a resumed
process is where it could have come by itself. Processes beyond the watched one
are at most as many as restarts.

**`ToolRegistry_proofs`** (`RegistryAssumption`): `TypeOK`, `OwnersAgree`,
`ConfidentAnswersAreSnapshots`, `AnswersStand`. Identifiers are kept twice, and
the two copies agree; rows are only added, so what a resolution has read is
still so. The history of answers that one look would have given has the answer
of a resolution from the moment its decisive query was made.

**`EventStream_proofs`** (`StreamAssumption`): `TypeOK`,
`ListAndStreamAreComplete`, `GapsAreTold`. An event that was committed after a
client subscribed is pending, lost with a request, or among the messages since
the client's start (`Underway`). What a client got are the messages between its
start and its cursor, each once; their number says whether it was told of a gap.

**`Services_proofs`** (`SubmissionAssumption`, `ServicesAssumption`):

- Of `Submission`: its `TypeOK`, `SentAsApproved`, `RecordedOnce`,
  `ReceiptsHold`. A run has at most one transaction, waiting or mined, however
  many calls fill in the same nonce; past the check a call holds the
  configuration that was approved, whatever the server was restarted with.
- `MigratedRunIsSafe` and, for the part of `Services` that the run checks,
  `ChainsOfServices` (`MigratedChainsHold`). A row without placeholder has the
  hash of its content and is linked; a run whose binding is the present catalog
  began after both migrations and has no placeholder, and no other run gets a
  board, let alone a passport.
- `FrozenRecordsAreSound`, and for `Services` `RecordsOfServices`
  (`RecordsAreOfOneBoard`) and `OrderOfServices` (`OnlyKeptOrderMatters`). The
  invariant is that each record is what its request came to and *still would*:
  versions are frozen once, so later requests do not touch what earlier ones
  rest on. That only kept order matters then is a fact about lists: the place of an
  item in a sorted list is the number of keys up to its own, which reversing the
  list does not change. Reversed citations of findings change the stored findings
  and nothing else; known gaps and conditions only themselves.
- `ServicesImplementSubmission`: what the other parts do is a stutter of
  `Submission`. With it `SubmissionsOfServices` carries `SentAsApproved`,
  `RecordedOnce` and `ReceiptsHold` over to the specification that the run
  checks.

- `TypesOfServices` (`EveryTypeOK`) puts the invariants of the five parts
  together.

**`Scoring_proofs`** (`ServicesAssumption`): `ScoresOfServices`
(`ScoresAreSound`) and `BetterFindingsNeverHurt` (`BetterNeverHurts`). The
invariant is only that the findings are findings of the profile; the rest is
arithmetic that holds of every submission, so the approved exclusions may be any.

- *Sums.* `SumFunction` of the community modules is a fold, and the weights are
  sums over sets that depend on the findings. What one more element adds to a
  sum is proved by looking at a smallest subset on which it would be wrong:
  cardinalities are well founded, so that there is none. From it: sums of
  greater terms are greater, and a sum over disjoint sets is the sum of the sums.
- *Rounding.* A dimension with one check earns nothing, half or all of its
  marks, and loses at most one half; there are five such dimensions in every
  profile. The other two lose less than one. That is less than 4.5 of 35 marks,
  less than 12.9 points of 100; one more floor, and the total is less than 15
  points short, which is less than the 20 of one rating. The common denominator
  is a multiple of every weight, whatever was excluded.
- *Better findings.* Points of a check do not fall, and to exclude a check that
  earned nothing makes the rest a greater share; floors, total, band and caps
  follow suit, one after the other.

**`UrlIdentity_proofs`** (`ServicesAssumption`): `FormsOfServices`
(`NormalFormsAgree`) and `PlacesAreIdentities` (`OneIdentityPerPlace`). The
invariant is that the URL is one of the instance. A respelling changes nothing
of what the value is made from: host name, what is glued to it, the segments
without a final empty one, on GitHub up to case and one `.git`. A move changes
one of them: the name of the host, a stem, a case that counts, or the number of
segments. For the code against the Python function, what the two refuse is
compared clause by clause outside the seven forms, five of which the code refuses
outright; then the path up to its last segment that is not empty is the path
without one final slash, as soon as no other segment is empty. That a proposal is canonical rests on lower case and
the removal of `.git` being idempotent on plain names.

An attempt at these proofs failed for a reason in the code: the proposals for
repositories called `..git` and `...git` are not canonical (see above), which no
input of the run had shown. `PlainProposalIsCanonical` says so now (`IsPlain`), and
the inputs have such a segment.

`ServicesAssumption` says what texts look like: which characters are glued to
them, that an empty text has no case, that bodies are lists of the records the
handlers parse, and that profiles are among the four embedded ones.

Only model-checked:

- liveness (`InvestigationEnds`, `EventuallyTold`): out of the prover's reach;
- what the violated runs show, and that the mutants of the code are told apart.

## Not modelled

- Power failures. Files are flushed and not synced; what is left of them
  depends on the file system, and no code reads a file back.
- Text: trimming, length limits, formats of ids, wording of errors.
- Reads that only return rows (lists of runs, tools, evidence, artifacts).
- Records that others send to the contract: it has no access control and the
  trust core reads nothing from it.
- Gas, balances, reorganisations of the chain.
- The mock path of the orchestrator and its demo script without a backend; the
  adapters for search and language models, whose outcomes are nondeterministic
  choices of `AuditGraph`.
- The dashboard, which holds no authoritative state; schemas and scripts.

## Plan

Done: the trust core and its proofs, the abstract run and the proof that the
trust core implements it, the orchestrator with its launcher, the evidence
store, the contents of what is frozen, submission for several runs, the tool
registry, the event stream, the migrations, scores and URLs, each with every
safety and action property that a run checks proved for all constants.

What could follow: the orchestrator against the handlers of `TrustCore` instead
of one-step requests, at small bounds; and, if a prover for it is at hand,
`InvestigationEnds` from the measure that the budget and the rounds give.
