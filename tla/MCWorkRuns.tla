----------------------------- MODULE MCWorkRuns -----------------------------
(***************************************************************************)
(* A small instance of WorkRuns.                                             *)
(***************************************************************************)
EXTENDS WorkRuns

Kinds == {[pr |-> FALSE, regulated |-> FALSE], [pr |-> TRUE, regulated |-> TRUE]}

Asked == {[decision |-> "approve", initiator |-> "operator", approver |-> "approver"],
          [decision |-> "approve", initiator |-> "reviewer", approver |-> "approver"],
          [decision |-> "approve", initiator |-> "approver", approver |-> "approver"],
          [decision |-> "approve", initiator |-> "operator", approver |-> "admin"],
          [decision |-> "reject", initiator |-> "operator", approver |-> "admin"]}
=============================================================================
