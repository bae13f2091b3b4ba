----------------------------- MODULE MCDelivery -----------------------------
(* Delivery on a repository with the file every requirement names and one    *)
(* under .governance/, which a requirement may name as well.                 *)
EXTENDS Delivery, MCGovernanceSession

CONSTANTS p1, p2, reader, governed

MCRequirements ==
    [p \in Plans |-> IF p = p1 THEN {{reader}} ELSE {{reader}, {reader, governed}}]
=============================================================================
