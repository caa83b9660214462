------------------------------ MODULE MCApproval ------------------------------
(***************************************************************************)
(* Instances of ApprovalWorkflow for TLC.                                  *)
(***************************************************************************)
EXTENDS ApprovalInvariants, ApprovalQueries, TLC

CONSTANTS c1, c2, p1, p2, p3, left, right

TwoClients == {c1, c2}
TwoPlans == {p1, p2}
ThreePlans == {p1, p2, p3}

\* The proposal, and replacements that ask for one target or for two.
OneTarget == [p \in Plan |-> left]
TwoTargets == [p \in Plan |-> IF p = p3 THEN right ELSE left]

\* Clients are alike, and so are the plans that ask for the same target.
ApprovalSymmetry ==
  {c @@ p : c \in Permutations(Client), p \in Permutations({p1, p2})}
=============================================================================
