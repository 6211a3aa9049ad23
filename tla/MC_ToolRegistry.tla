--------------------------- MODULE MC_ToolRegistry ---------------------------
(* Small instances of ToolRegistry: requests, identifiers and names are      *)
(* interchangeable, except that Decide names the one key of an intake.       *)
EXTENDS ToolRegistry, TLC

Same == Permutations(Requests) \cup Permutations(Names)

=============================================================================
