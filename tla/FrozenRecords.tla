---------------------------- MODULE FrozenRecords ----------------------------
(***************************************************************************)
(* What the three freezes of a run make of the bodies they are given: the  *)
(* evidence board with its claims, the check results and the passport.     *)
(* Bodies come from outside; the trust core checks every reference in them,*)
(* puts lists in order, adds what only it knows, and stores the result     *)
(* once per version.  The rows it reads for that never change once they    *)
(* are there, so that a freeze is one step here; events, status and the    *)
(* sequence of passports are in TrustCore, files in EvidenceStore.         *)
(*                                                                         *)
(* Abstracted: text.  The score stands for the verdicts it is computed     *)
(* from (Scoring), gaps are claims that cite nothing, risks are statements,*)
(* and supports and contradicts of a claim are one list.  Known gaps and   *)
(* conditions are texts without the space around them, "" a text of space. *)
(***************************************************************************)
EXTENDS Naturals, Sequences, FiniteSets, SequencesExt

CONSTANTS
  Evidence,       \* ids of evidence of the run, numbers in the order of their text
  Versions,       \* bound: versions of the board
  ProfileChecks,  \* the checks of the profile, a sequence
  MaxPassports,   \* bound: passports
  EvidenceLists,  \* inputs: lists of evidence
  ClaimLists,     \* inputs: lists of claims [id, check, cites]
  FindingLists,   \* inputs: lists of findings [check, verdict, cites]
  PassportRequests, \* inputs: [statements, gaps, conditions], statements [id, cites]
  None

VARIABLES
  evidence,   \* evidence of the run
  boards,     \* for each version, the frozen board with its manifest, or None
  results,    \* for each version, the stored check results, or None
  passports,  \* the frozen passports, by sequence
  asked       \* history: the requests behind boards, results and passports

vars == <<evidence, boards, results, passports, asked>>

-----------------------------------------------------------------------------
Frozen(v) == boards[v] # None
Scored(v) == results[v] # None

NoDuplicates(list) == IsInjective(list)
Ids(list) == [i \in DOMAIN list |-> list[i].id]

\* Where the element with the i-th smallest key is, in a list without duplicates.
Place(keys, i) ==
  CHOOSE j \in DOMAIN keys : i = Cardinality({k \in DOMAIN keys : keys[k] <= keys[j]})

\* Mutant: a list is checked and left as it came.
AsSubmitted(list) == list

\* sort_unstable_by_key(Uuid::to_string).
Ordered(list) == [i \in DOMAIN list |-> list[Place(list, i)]]

\* ensure_unique_uuids and the membership test of normalize_evidence_references.
RefersTo(cites, available) == NoDuplicates(cites) /\ Range(cites) \subseteq available

\* Claims and statements: each with its references in order, all by id.
Normal(list) ==
  [i \in DOMAIN list |-> [list[Place(Ids(list), i)] EXCEPT !.cites = Ordered(@)]]

-----------------------------------------------------------------------------
AddEvidence(e) ==
  /\ evidence' = evidence \cup {e}
  /\ UNCHANGED <<boards, results, passports, asked>>

(* freeze_evidence_board.                                                  *)

BoardAccepted(request) ==
  /\ NoDuplicates(request.evidence)
  /\ Range(request.evidence) \subseteq evidence
  /\ NoDuplicates(Ids(request.claims))
  /\ \A i \in DOMAIN request.claims :
       /\ request.claims[i].check \in Range(ProfileChecks)
       /\ RefersTo(request.claims[i].cites, Range(request.evidence))

BoardContent(request) ==
  [evidence |-> Ordered(request.evidence), claims |-> Normal(request.claims)]

FreezeBoard(v, request) ==
  /\ ~Frozen(v)
  /\ BoardAccepted(request)
  /\ boards' = [boards EXCEPT ![v] = BoardContent(request)]
  /\ asked' = [asked EXCEPT !.boards[v] = request]
  /\ UNCHANGED <<evidence, results, passports>>

-----------------------------------------------------------------------------
(* create_check_results.                                                   *)

Finding(findings, check) ==
  findings[CHOOSE i \in DOMAIN findings : findings[i].check = check]

\* score_check_results: one finding for each check of the profile, evidence of
\* the board only; not_applicable needs an approval and none can be given.
FindingsAccepted(v, findings) ==
  LET checks == [i \in DOMAIN findings |-> findings[i].check]
  IN  /\ NoDuplicates(checks)
      /\ Range(checks) = Range(ProfileChecks)
      /\ \A i \in DOMAIN findings :
           /\ RefersTo(findings[i].cites, Range(boards[v].evidence))
           /\ findings[i].verdict # "not_applicable"

\* The findings in the order of the profile, and their score.
ResultsContent(findings) ==
  [findings |-> [i \in DOMAIN ProfileChecks |-> Finding(findings, ProfileChecks[i])],
   score    |-> [i \in DOMAIN ProfileChecks |-> Finding(findings, ProfileChecks[i]).verdict]]

CreateCheckResults(v, findings) ==
  /\ Frozen(v) /\ ~Scored(v)
  /\ FindingsAccepted(v, findings)
  /\ results' = [results EXCEPT ![v] = ResultsContent(findings)]
  /\ asked' = [asked EXCEPT !.results[v] = findings]
  /\ UNCHANGED <<evidence, boards, passports>>

-----------------------------------------------------------------------------
(* freeze_passport.                                                        *)

StatementsAccepted(v, statements) ==
  /\ NoDuplicates(Ids(statements))
  /\ \A i \in DOMAIN statements :
       RefersTo(statements[i].cites, Range(boards[v].evidence))

\* Mutant: get_latest_check_results.
LatestResults(v) == results[CHOOSE w \in Versions : Scored(w) /\ \A x \in Versions : x > w => ~Scored(x)]

\* get_check_results, of the version of the request.
ResultsFor(v) == results[v]

\* normalize_known_gaps and normalize_recommendation: a known gap has a text, a
\* condition without one is dropped; both lists keep the order of the caller.
PassportAccepted(v, request) ==
  /\ StatementsAccepted(v, request.statements)
  /\ "" \notin Range(request.gaps)

PassportContent(v, request) ==
  [board |-> v, manifest |-> boards[v].evidence, score |-> ResultsFor(v).score,
   statements |-> Normal(request.statements), known_gaps |-> request.gaps,
   conditions |-> Remove(request.conditions, "")]

FreezePassport(v, request) ==
  /\ Len(passports) < MaxPassports
  /\ Frozen(v) /\ Scored(v)
  /\ PassportAccepted(v, request)
  /\ passports' = Append(passports, PassportContent(v, request))
  /\ asked' = [asked EXCEPT !.passports = Append(@, request)]
  /\ UNCHANGED <<evidence, boards, results>>

-----------------------------------------------------------------------------
Init ==
  /\ evidence = {}
  /\ boards = [v \in Versions |-> None]
  /\ results = [v \in Versions |-> None]
  /\ passports = <<>>
  /\ asked = [boards |-> boards, results |-> results, passports |-> <<>>]

BoardRequests == [evidence: EvidenceLists, claims: ClaimLists]

Next ==
  \/ \E e \in Evidence \ evidence : AddEvidence(e)
  \/ \E v \in Versions :
       \/ \E request \in BoardRequests : FreezeBoard(v, request)
       \/ \E findings \in FindingLists : CreateCheckResults(v, findings)
       \/ \E request \in PassportRequests : FreezePassport(v, request)

Spec == Init /\ [][Next]_vars

-----------------------------------------------------------------------------
(* Correctness.                                                            *)

Cited(list) == UNION {Range(list[i].cites) : i \in DOMAIN list}

\* Every variable has its type: what is stored is what a request can come to.
TypeOK ==
  /\ evidence \subseteq Evidence
  /\ \A v \in Versions :
       /\ Frozen(v) => /\ boards[v].evidence \in Seq(Evidence)
                       /\ Range(Ids(boards[v].claims)) \subseteq Nat
       /\ Scored(v) => Len(results[v].score) = Len(ProfileChecks)
  /\ \A s \in DOMAIN passports : passports[s].board \in Versions

\* Every citation leads to content: what claims, findings and statements of a
\* passport cite is in the manifest of their board, each piece once, and what the
\* manifest lists is evidence of the run.
CitationsAreBacked ==
  /\ \A v \in Versions :
       /\ Frozen(v) => /\ Range(boards[v].evidence) \subseteq evidence
                       /\ NoDuplicates(boards[v].evidence)
                       /\ Cited(boards[v].claims) \subseteq Range(boards[v].evidence)
       /\ Scored(v) => Cited(results[v].findings) \subseteq Range(boards[v].evidence)
  /\ \A s \in DOMAIN passports :
       Cited(passports[s].statements) \subseteq Range(passports[s].manifest)

\* A passport is of one piece: manifest and score are those stored for its board,
\* also when another version has been frozen and scored since or before.
PassportIsOfOneBoard ==
  \A s \in DOMAIN passports :
    LET p == passports[s]
    IN  /\ Frozen(p.board) /\ p.manifest = boards[p.board].evidence
        /\ Scored(p.board) /\ p.score = results[p.board].score

\* Lists turned round: their elements, or the citations within each of them.
EitherWay(list) == {list, Reverse(list)}
Turned(list) == [i \in DOMAIN list |-> [list[i] EXCEPT !.cites = Reverse(@)]]

BoardReversals(request) ==
  {[evidence |-> e, claims |-> Turned(c)] :
     e \in EitherWay(request.evidence), c \in EitherWay(request.claims)}

PassportReversals(request) ==
  {[statements |-> Turned(s), gaps |-> g, conditions |-> c] :
     s \in EitherWay(request.statements), g \in EitherWay(request.gaps),
     c \in EitherWay(request.conditions)}

\* The order in which a caller lists evidence, claims, findings, statements and what
\* claims and statements cite does not reach the records: the request with these lists
\* reversed is accepted as well and freezes the same.  The order of what a finding
\* cites, of known gaps and of conditions does: it is kept, and nothing else of a
\* record depends on it.
OnlyKeptOrderMatters ==
  /\ \A v \in Versions :
       /\ Frozen(v) => \A other \in BoardReversals(asked.boards[v]) :
                         BoardAccepted(other) /\ BoardContent(other) = boards[v]
       /\ Scored(v) => LET other == Reverse(asked.results[v])
                       IN  FindingsAccepted(v, other) /\ ResultsContent(other) = results[v]
       /\ Scored(v) => LET other == Turned(asked.results[v])
                       IN  /\ FindingsAccepted(v, other)
                           /\ ResultsContent(other)
                                = [results[v] EXCEPT !.findings = Turned(@)]
  /\ \A s \in DOMAIN passports :
       LET p == passports[s]
       IN  \A other \in PassportReversals(asked.passports[s]) :
             /\ PassportAccepted(p.board, other)
             /\ PassportContent(p.board, other)
                  = [p EXCEPT !.known_gaps = other.gaps,
                              !.conditions = Remove(other.conditions, "")]

=============================================================================
