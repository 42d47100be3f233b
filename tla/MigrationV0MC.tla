------------------------------ MODULE MigrationV0MC ------------------------------
(***************************************************************************)
(* Outcomes that are alike, and callers that accept any of them.  The source *)
(* depends on nothing of the receiver, so its steps may be taken before all  *)
(* of the receiver's; and nothing depends on it after its last export.       *)
(***************************************************************************)
EXTENDS MigrationV0, TLC

AcceptingMC == SUBSET Outcome \ {{}}
Symmetric == Permutations(Outcome)

SourceMatters == export # None \/ Exportable
SourceFirst == import' # None => ~SourceMatters

View ==
  <<class, policies, application, bundles, export, import, completed, cut,
    [s \in {"receiver"} \cup (IF SourceMatters THEN {"source"} ELSE {}) |->
       <<run[s], head[s], effects[s], turns[s]>>]>>
===============================================================================
