---------------------------- MODULE SealedLedger ----------------------------
(***************************************************************************)
(* What an archive of work runs promises (work_run_archive.py): a ledger      *)
(* whose entries are made once.  Which entry, when, and after how many         *)
(* attempts is left open.                                                     *)
(***************************************************************************)
CONSTANTS Absent, Slots

VARIABLE ledger

Init == ledger = [slot \in Slots |-> Absent]

\* archive_active_run, seen from the outside.
Seal(slot) ==
    /\ ledger[slot] = Absent
    /\ ledger'[slot] # Absent
    /\ ledger' = [ledger EXCEPT ![slot] = ledger'[slot]]

Next == \E slot \in Slots : Seal(slot)

Spec == Init /\ [][Next]_ledger
=============================================================================
