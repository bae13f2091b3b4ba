---------------------------- MODULE MCBootstrap ----------------------------
(* Bootstrap with two launchers, of one repository or of two.              *)
EXTENDS Bootstrap

CONSTANTS p1, p2, r1, r2, b1

\* p1 runs in r1, attended.  p2 runs in the same repository, also attended, or
\* in the other one, which has no rules, by a pipeline.
MCInit ==
    /\ Init
    /\ home[p1] = r1
    /\ unattended = {p \in {p2} : home[p2] = r2}
    /\ source = [r \in Repos |-> IF r = r1 THEN b1 ELSE Nothing]
    /\ intent # "valid"

MCSpec == MCInit /\ [][Next]_vars /\ Fairness
=============================================================================
