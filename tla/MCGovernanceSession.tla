------------------------ MODULE MCGovernanceSession ------------------------
(* GovernanceSession on a small repository: which facts it shows. *)
EXTENDS GovernanceSession, TLC

Calm == [businessRules |-> "not-executed", debtProposed |-> FALSE, rollbackRequired |-> FALSE,
         surface |-> "untouched", pipeline |-> FALSE]

\* A change nothing stands in the way of, one for each gate that can.
EveryGate ==
    {Calm,
     [Calm EXCEPT !.businessRules = "compliant"],
     [Calm EXCEPT !.businessRules = "gap-detected"],
     [Calm EXCEPT !.businessRules = "pending"],
     [Calm EXCEPT !.debtProposed = TRUE],
     [Calm EXCEPT !.rollbackRequired = TRUE],
     [Calm EXCEPT !.rollbackRequired = TRUE, !.surface = "no-strategy"],
     [Calm EXCEPT !.rollbackRequired = TRUE, !.surface = "strategy"],
     [Calm EXCEPT !.pipeline = TRUE],
     [Calm EXCEPT !.businessRules = "compliant", !.pipeline = TRUE]}

JustCalm == {Calm}

Symmetry == Permutations(Tickets) \cup Permutations(Plans)
=============================================================================
