-------------------------- MODULE MC_EvidenceStore --------------------------
(* Small instances of EvidenceStore: requests and ids are interchangeable. *)
EXTENDS EvidenceStore, TLC

Names == Permutations(Handlers) \cup Permutations(Ids)

=============================================================================
