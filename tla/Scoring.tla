------------------------------- MODULE Scoring -------------------------------
(***************************************************************************)
(* From the findings of a run to seven dimension scores, a total and a     *)
(* rating, with the embedded standard and profiles 0.3.0.  A behaviour is  *)
(* the work on one submission: findings improve as evidence comes in, and  *)
(* each state is a submission that could be scored.                        *)
(*                                                                         *)
(* Weights are given in quarters (1.25 is 5) and points in quarters (0.25  *)
(* is 1), so that earned points are sixteenths.  The sums and products of  *)
(* the code are exact in f64 for these values, and a correctly rounded     *)
(* quotient of them never crosses an integer.                              *)
(***************************************************************************)
EXTENDS Integers, Sequences, FiniteSets, FiniteSetsExt, Functions

CONSTANTS
  Profiles,  \* the profiles of this instance
  Approved   \* checks whose not_applicable is approved: the service passes {}

VARIABLES profile, findings
vars == <<profile, findings>>

-----------------------------------------------------------------------------
(* The catalog.                                                            *)

Capability(dimension, name, weight) ==
  [check |-> name, dimension |-> dimension, weight |-> weight,
   highRisk |-> FALSE, rule |-> "positive_capability_v1"]
Risk(name, weight) ==
  [check |-> name, dimension |-> "permission_risk", weight |-> weight,
   highRisk |-> TRUE, rule |-> "bounded_risk_v1"]

\* The dimensions that have one capability check in every profile.
Plain(interfaceWeight) ==
  {Capability("capability_clarity", "capability", 4),
   Capability("interface_openness", "interface", interfaceWeight),
   Capability("data_portability", "export", 4),
   Capability("evidence_quality", "traceability", 4),
   Capability("ecosystem_fit", "ecosystem", 4)}

Catalog ==
  [p \in {"generic", "agent_framework", "mcp_server", "cli_api_tool"} |->
     CASE p = "generic" ->
            Plain(4) \cup {Capability("automation_readiness", "contract", 4),
                           Risk("boundary", 6)}
       [] p = "agent_framework" ->
            Plain(5) \cup {Capability("automation_readiness", "structured_io", 5),
                           Capability("automation_readiness", "state_recovery", 6),
                           Risk("isolation", 8), Risk("human_gate", 8)}
       [] p = "mcp_server" ->
            Plain(6) \cup {Capability("automation_readiness", "invocation", 5),
                           Capability("automation_readiness", "error_handling", 5),
                           Risk("filesystem_shell", 8), Risk("network_credential", 8)}
       [] p = "cli_api_tool" ->
            Plain(6) \cup {Capability("automation_readiness", "structured_output", 5),
                           Capability("automation_readiness", "headless_failure", 5),
                           Risk("credential_scope", 8), Risk("destructive_action", 8),
                           Risk("paid_side_effect", 8)}]

Dimensions == {"capability_clarity", "interface_openness", "automation_readiness",
               "data_portability", "permission_risk", "evidence_quality",
               "ecosystem_fit"}
Points ==
  [positive_capability_v1 |-> [pass |-> 4, partial |-> 2, fail |-> 0, unknown |-> 0],
   bounded_risk_v1        |-> [pass |-> 4, partial |-> 1, fail |-> 0, unknown |-> 0]]

Ratings == <<"not_recommended", "manual_only", "trial", "low_risk", "core_candidate">>
Thresholds == <<0, 20, 40, 60, 80>>
HighRiskCap == [fail |-> 1, unknown |-> 2, partial |-> 3]

Checks(p) == {c.check : c \in Catalog[p]}

\* What validate_finding lets through for a check.
Finding(check) ==
  {"fail", "unknown", "partial", "pass"}
    \cup (IF check \in Approved THEN {"not_applicable"} ELSE {})

-----------------------------------------------------------------------------
(* score_check_results, on the findings f of the checks of profile p.      *)

Applicable(p, f, d) ==
  {c \in Catalog[p] : c.dimension = d /\ f[c.check] # "not_applicable"}

EarnedPoints(p, f, d) ==
  SumFunction([c \in Applicable(p, f, d) |-> c.weight * Points[c.rule][f[c.check]]])

ApplicableWeight(p, f, d) ==
  SumFunction([c \in Applicable(p, f, d) |-> c.weight])

\* finalize_dimension_scores.
DimensionScore(p, f, d) ==
  IF ApplicableWeight(p, f, d) = 0 THEN 0
  ELSE (5 * EarnedPoints(p, f, d)) \div (4 * ApplicableWeight(p, f, d))

\* Mutant: the average is floored before it is scaled.
FlooredTwice(p, f) ==
  (SumFunction([d \in Dimensions |-> DimensionScore(p, f, d)]) \div 7) * 20

TotalScore(p, f) ==
  (SumFunction([d \in Dimensions |-> DimensionScore(p, f, d)]) * 20) \div 7

\* rating_for_total: the last threshold that is reached.
Band(total) == Max({i \in DOMAIN Thresholds : Thresholds[i] <= total})

\* The lowest cap of the findings of high-risk checks.
RiskCap(p, f) ==
  Min({5} \cup {HighRiskCap[f[c.check]] :
                  c \in {x \in Catalog[p] : x.highRisk
                                           /\ f[x.check] \in DOMAIN HighRiskCap}})

\* Mutant: a cap replaces the rating, whichever is lower.
CapReplaces(p, f) ==
  IF RiskCap(p, f) < 5 THEN RiskCap(p, f) ELSE Band(TotalScore(p, f))

\* The rank of the rating in Ratings.
RatingRank(p, f) == Min({Band(TotalScore(p, f)), RiskCap(p, f)})

-----------------------------------------------------------------------------
\* Bound: checks that are alike (the only one of their dimension, or of one
\* weight in the same dimension) have their findings in ascending order, since
\* exchanging them changes no score.
Alike == {<<"capability", "interface", "export", "traceability", "ecosystem">>,
          <<"isolation", "human_gate">>,
          <<"invocation", "error_handling">>,
          <<"filesystem_shell", "network_credential">>,
          <<"structured_output", "headless_failure">>,
          <<"credential_scope", "destructive_action", "paid_side_effect">>}
Grade == [fail |-> 0, unknown |-> 1, partial |-> 2, pass |-> 3, not_applicable |-> 4]
Ordered(f) ==
  \A alike \in Alike : alike[1] \in DOMAIN f =>
    \A i \in 2 .. Len(alike) : Grade[f[alike[i - 1]]] <= Grade[f[alike[i]]]

\* What is known of a check improves by a step, and with it the finding.
Better == [fail |-> {"unknown"}, unknown |-> {"partial", "not_applicable"},
           partial |-> {"pass"}, pass |-> {}, not_applicable |-> {}]

Init ==
  /\ profile \in Profiles
  /\ findings = [c \in Checks(profile) |-> "fail"]

\* Mutant: exclusions need no approval.
ImproveUnapproved(check) ==
  /\ \E better \in Better[findings[check]] :
       findings' = [findings EXCEPT ![check] = better]
  /\ Ordered(findings')
  /\ UNCHANGED profile

Improve(check) ==
  /\ \E better \in Better[findings[check]] \cap Finding(check) :
       findings' = [findings EXCEPT ![check] = better]
  /\ Ordered(findings')
  /\ UNCHANGED profile

Next == \E check \in Checks(profile) : Improve(check)

Spec == Init /\ [][Next]_vars

-----------------------------------------------------------------------------
(* Correctness.                                                            *)

\* Every variable has its type.
TypeOK ==
  /\ profile \in Profiles
  /\ DOMAIN findings = Checks(profile)
  /\ \A c \in Checks(profile) : findings[c] \in Finding(c)

\* The flooring of seven dimensions and then of their average costs a tool at
\* most one rating, and gives it nothing: the total never exceeds the average
\* computed without rounding, and falls short of it by less than 15 points of
\* 100.  (An exact average of dimensions is a fraction over the product of their
\* weights.)
FlooringCostsOneBand ==
  LET weight == [d \in Dimensions |-> Max({1, ApplicableWeight(profile, findings, d)})]
      common == ProductSet({weight[d] : d \in Dimensions})
      exact  == SumFunction([d \in Dimensions |->
                  5 * EarnedPoints(profile, findings, d) * (common \div weight[d])])
      total  == TotalScore(profile, findings)
      scaled == (exact * 20) \div (28 * common)   \* the average on 0 .. 100
  IN  /\ total <= scaled
      /\ scaled < total + 15
      /\ Band(scaled) <= Band(total) + 1

\* A high-risk check cannot be bought off: with one that failed the tool is not
\* recommended whatever the rest, with one unknown it is manual_only at best, and
\* a rating above trial needs every high-risk check to pass; a cap never lifts a
\* rating over what the total gives.
HighRiskIsNotOffset ==
  LET of   == {findings[c.check] : c \in {x \in Catalog[profile] : x.highRisk}}
      rank == RatingRank(profile, findings)
  IN  /\ "fail" \in of => Ratings[rank] = "not_recommended"
      /\ "unknown" \in of => rank <= 2
      /\ rank > 3 => of \subseteq {"pass", "not_applicable"}
      /\ TotalScore(profile, findings) < 20 => rank = 1

\* Full marks are earned and never rounded up to: a dimension scores 5 when every
\* check of it that applies passes, whatever was excluded, and only then; with
\* all checks excluded it scores nothing.
FullMarksAreEarned ==
  \A d \in Dimensions :
    LET results == {findings[c.check] : c \in {x \in Catalog[profile] : x.dimension = d}}
    IN  DimensionScore(profile, findings, d) = 5
          <=> "pass" \in results /\ results \subseteq {"pass", "not_applicable"}

\* Learning more never hurts: a better finding of one check lowers no dimension,
\* not the total and not the rating, and neither does an approved exclusion of a
\* check nothing is known about.
NothingDrops ==
  /\ \A d \in Dimensions :
       DimensionScore(profile, findings', d) >= DimensionScore(profile, findings, d)
  /\ TotalScore(profile, findings') >= TotalScore(profile, findings)
  /\ RatingRank(profile, findings') >= RatingRank(profile, findings)

=============================================================================
