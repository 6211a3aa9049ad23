----------------------------- MODULE MC_Services -----------------------------
(* Inputs for a small instance of Services. *)
EXTENDS Services

(* FrozenRecords: two pieces of evidence, a profile of two checks, and      *)
(* bodies in order and out of order, complete and not, with citations       *)
(* inside and outside the board, with empty texts; evidence 3 is of another *)
(* run.                                                                     *)

Claim(id, check, cites) == [id |-> id, check |-> check, cites |-> cites]
Finds(check, verdict, cites) == [check |-> check, verdict |-> verdict, cites |-> cites]
States(id, cites) == [id |-> id, cites |-> cites]

SomeEvidence == {<<>>, <<1>>, <<2>>, <<1, 2>>, <<2, 1>>, <<1, 1>>, <<1, 3>>}
SomeClaims ==
  {<<Claim(2, "contract", <<2, 1>>), Claim(1, "boundary", <<1>>)>>,
   <<Claim(1, "contract", <<2>>), Claim(1, "boundary", <<>>)>>,
   <<Claim(1, "elsewhere", <<>>)>>,
   <<Claim(1, "contract", <<2, 2>>)>>,
   <<>>}
SomeFindings ==
  {<<Finds("contract", "pass", <<2>>), Finds("boundary", "fail", <<>>)>>,
   <<Finds("boundary", "pass", <<1>>), Finds("contract", "partial", <<1, 2>>)>>,
   <<Finds("boundary", "unknown", <<>>)>>,
   <<Finds("boundary", "pass", <<>>), Finds("contract", "not_applicable", <<>>)>>,
   <<Finds("boundary", "pass", <<>>), Finds("boundary", "fail", <<>>)>>}
SomePassports ==
  {[statements |-> <<States(2, <<2, 1>>), States(1, <<>>)>>,
    gaps |-> <<"untested", "undated">>, conditions |-> <<"pin it", "", "watch it">>],
   [statements |-> <<States(1, <<1>>)>>, gaps |-> <<>>, conditions |-> <<"">>],
   [statements |-> <<States(1, <<>>), States(1, <<>>)>>, gaps |-> <<>>, conditions |-> <<>>],
   [statements |-> <<>>, gaps |-> <<"untested", "">>, conditions |-> <<>>]}

SomeChecks == <<"boundary", "contract">>

(* Scoring: the embedded profiles 0.3.0.  The service approves no exclusion *)
(* yet, the function supports them: here of checks that are alone in their  *)
(* dimension and of checks that are not, with and without a cap.            *)
EveryProfile == {"generic", "agent_framework", "mcp_server", "cli_api_tool"}
Excluded == {"contract", "boundary", "structured_io", "human_gate"}

(* UrlIdentity: hosts with and without something glued to them, names of    *)
(* every kind.                                                              *)
SomeHosts ==
  {[name |-> n, upper |-> u, glued |-> ""] :
     n \in {"github.com", "example.com"}, u \in BOOLEAN}
    \cup {[name |-> "example.com", upper |-> FALSE, glued |-> g] : g \in {".", "?", "#x", "@", "["}}
    \cup {[name |-> "github.com", upper |-> FALSE, glued |-> g] : g \in {"#"}}
    \cup {[name |-> "", upper |-> FALSE, glued |-> ""]}

Name(stem, upper, gits) == [stem |-> stem, upper |-> upper, gits |-> gits, glued |-> ""]
SomeSegments ==
  {Name("", FALSE, 0), Name("", FALSE, 1), Name("..", FALSE, 0), Name("..", FALSE, 1),
   Name("a", FALSE, 0), Name("a", TRUE, 0), Name("a", FALSE, 1), Name("a", FALSE, 2)}
    \cup {[stem |-> "a", upper |-> FALSE, gits |-> 0, glued |-> g] : g \in {"?", "#x", "@"}}

=============================================================================
