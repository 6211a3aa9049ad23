------------------------------ MODULE Services -------------------------------
(***************************************************************************)
(* Five parts of the backend that share no state with each other:          *)
(* submissions, the records that freezes make, runs that are older than    *)
(* the hash chain, scores, and the normal form of URLs.  The initial state *)
(* says which part runs, and the others stand still, so that one run       *)
(* checks them all.                                                        *)
(***************************************************************************)
EXTENDS Submission

CONSTANTS
  Kinds, MaxEvents,                                          \* MigratedRun
  Evidence, Versions, ProfileChecks, MaxPassports,           \* FrozenRecords
  EvidenceLists, ClaimLists, FindingLists, PassportRequests,
  Profiles, Approved,                                        \* Scoring
  Hosts, Ports, Segments, MaxPath                            \* UrlIdentity

\* No version of the catalog is the absence of one; bodies have the form that the
\* handlers parse, and ids are numbers in the order of their text.  The profiles are
\* of the embedded catalog.  What is glued to the texts of a URL is what normalize_url
\* or the function it is a port of looks for, and an empty text has no case.
ASSUME ServicesAssumption ==
  /\ None \notin {"0.2.0", "0.3.0"}
  /\ ProfileChecks \in Seq(STRING)
  /\ EvidenceLists \subseteq Seq(Nat)
  /\ ClaimLists \subseteq Seq([id: Nat, check: STRING, cites: Seq(Nat)])
  /\ FindingLists \subseteq Seq([check: STRING, verdict: STRING, cites: Seq(Nat)])
  /\ PassportRequests \subseteq
       [statements: Seq([id: Nat, cites: Seq(Nat)]), gaps: Seq(STRING), conditions: Seq(STRING)]
  /\ Profiles \subseteq {"generic", "agent_framework", "mcp_server", "cli_api_tool"}
  /\ Hosts \subseteq
       [name: STRING, upper: BOOLEAN, glued: {"", ".", "?", "#", "?x", "#x", "@", "["}]
  /\ Segments \subseteq
       [stem: STRING, upper: BOOLEAN, gits: Nat, glued: {"", "?", "#", "?x", "#x", "%", "@"}]
  /\ \A s \in Segments : s.stem = "" /\ s.gits = 0 => ~s.upper
  /\ MaxPath \in Nat

VARIABLES
  part,
  evidence, boards, results, passports, asked,  \* FrozenRecords
  schema, log, binding, board, seal,            \* MigratedRun
  profile, findings,                            \* Scoring
  url, step                                     \* UrlIdentity

frozenVars == <<evidence, boards, results, passports, asked>>
migratedVars == <<schema, log, binding, board, seal>>
scoresVars == <<profile, findings>>
urlsVars == <<url, step>>

Frozen == INSTANCE FrozenRecords
Migrated == INSTANCE MigratedRun
Scores == INSTANCE Scoring
Urls == INSTANCE UrlIdentity

-----------------------------------------------------------------------------
Home == [host |-> Urls!Github, port |-> "", path |-> <<>>]

\* The parts that do not run begin in one state.
InitPart ==
  /\ part \in {"submission", "frozen", "migrated", "scores", "urls"}
  /\ Init /\ Frozen!Init /\ Migrated!Init
  /\ IF part = "scores" THEN Scores!Init
     ELSE profile = "generic" /\ findings = <<>>
  /\ IF part = "urls" THEN Urls!Init ELSE url = Home /\ step = "respelled"
  /\ part # "submission" => env = CHOOSE e \in [chain: Chains, registry: Addresses] : TRUE

NextPart ==
  /\ UNCHANGED part
  /\ \/ /\ part = "submission" /\ Next
        /\ UNCHANGED <<frozenVars, migratedVars, scoresVars, urlsVars>>
     \/ /\ part = "frozen" /\ Frozen!Next
        /\ UNCHANGED <<vars, migratedVars, scoresVars, urlsVars>>
     \/ /\ part = "migrated" /\ Migrated!Next
        /\ UNCHANGED <<vars, frozenVars, scoresVars, urlsVars>>
     \/ /\ part = "scores" /\ Scores!Next
        /\ UNCHANGED <<vars, frozenVars, migratedVars, urlsVars>>
     \/ /\ part = "urls" /\ Urls!Next
        /\ UNCHANGED <<vars, frozenVars, migratedVars, scoresVars>>

SpecPart ==
  InitPart /\ [][NextPart]_<<part, vars, frozenVars, migratedVars, scoresVars, urlsVars>>

-----------------------------------------------------------------------------
(* Correctness.                                                            *)

\* Every variable of the part that runs has its type.
EveryTypeOK ==
  CASE part = "submission" -> TypeOK
    [] part = "frozen"     -> Frozen!TypeOK
    [] part = "migrated"   -> Migrated!TypeOK
    [] part = "scores"     -> Scores!TypeOK
    [] part = "urls"       -> Urls!TypeOK

\* What is frozen belongs together: a passport takes manifest and score from its
\* own board version, and citations lead to evidence of that board.
RecordsAreOfOneBoard ==
  part = "frozen" => Frozen!PassportIsOfOneBoard /\ Frozen!CitationsAreBacked

\* The order in which a caller lists things does not reach the records, but for what a
\* finding cites, known gaps and conditions: their order is kept, and only they show it.
OnlyKeptOrderMatters == part = "frozen" => Frozen!OnlyKeptOrderMatters

\* New events link to what is there, and no passport seals placeholders.
MigratedChainsHold == part = "migrated" => Migrated!NewEventsLink /\ Migrated!SealsCommit

\* Rounding costs at most one rating and earns no full marks, and no other result
\* makes up for a high-risk finding.
ScoresAreSound ==
  part = "scores" => /\ Scores!FlooringCostsOneBand
                     /\ Scores!FullMarksAreEarned
                     /\ Scores!HighRiskIsNotOffset

\* A better finding, or an approved exclusion of a check nothing is known about,
\* lowers no dimension, not the total and not the rating.
BetterNeverHurts == [][part = "scores" => Scores!NothingDrops]_scoresVars

\* The port answers as the Python function on all but seven named forms, of which it
\* refuses five, and what it proposes for a plain URL is canonical.
NormalFormsAgree == part = "urls" => Urls!AnswersAsReference /\ Urls!PlainProposalIsCanonical

\* Two URLs, one rewritten from the other, have one identity exactly when they mean
\* one place.
OneIdentityPerPlace == [][part = "urls" => Urls!SameIdentityIfSamePlace]_urlsVars

\* A URL with a query or a fragment identifies nothing.
NoQueryNoFragment == part = "urls" => Urls!NoQueryNoFragment

=============================================================================
