------------------------------- MODULE Evidence -------------------------------
(***************************************************************************)
(* Evidence, how long it counts, and the gate at the exit of a phase.       *)
(*                                                                         *)
(*   domain/evidence_policy.py                freshness, verified claims     *)
(*   domain/strict_exit_evaluator.py          the criteria of a phase        *)
(*   kernel/phase_kernel.py                   the contract and the gate      *)
(*                                                                         *)
(* An item of BuildEvidence is [claim, kind, good, seen, ttl, value]: the    *)
(* claim and the kind of artifact it is for, whether its result is a pass or *)
(* it is marked verified, when it was observed (Unset when the time does    *)
(* not parse), its time to live and its value (Unset when not a number).    *)
(* The list of items keeps its order.                                       *)
(***************************************************************************)
EXTENDS Naturals, Sequences, FiniteSets

CONSTANT Unset

\* is_stale; a time to live of 0 still leaves a second.
Stale(item, now) ==
    \/ item.seen = Unset
    \/ item.seen # Unset /\ now > item.seen + (IF item.ttl = 0 THEN 1 ELSE item.ttl)

ItemsOf(items) == {items[i] : i \in DOMAIN items}

\* extract_verified_claim_evidence_ids: a claim with a fresh good item is
\* observed; one with stale items only, or listed as stale, is stale.
ObservedClaims(items, now) == {i.claim : i \in {j \in ItemsOf(items) : j.good /\ ~Stale(j, now)}}
StaleClaims(items, listed, now) ==
    (listed \cup {i.claim : i \in {j \in ItemsOf(items) : j.good /\ Stale(j, now)}})
        \ ObservedClaims(items, now)

-----------------------------------------------------------------------------
(* The exit contract: a sequence of criteria [key, kind, resolver, critical] *)
(* with resolver "none", "tier" or one that is not known.                    *)

Threshold(tier) == CASE tier \in {"critical", "high"} -> 80 [] tier = "medium" -> 60 [] OTHER -> 40

Compatible(c, d) == c.kind = d.kind /\ c.resolver = d.resolver

SameKey(contract, key) == {i \in DOMAIN contract : contract[i].key = key}
FirstOf(contract, key) ==
    contract[CHOOSE i \in SameKey(contract, key) : \A j \in SameKey(contract, key) : i <= j]

Conflicts(contract) ==
    {key \in {contract[i].key : i \in DOMAIN contract} :
        \E i \in SameKey(contract, key) : ~Compatible(contract[i], FirstOf(contract, key))}

\* Mutant: of two criteria with one key the first one counts as it is.
MergedFirst(contract) == {FirstOf(contract, contract[i].key) : i \in DOMAIN contract}

\* _deduplicate_criteria: of one key the first entry stays, critical if any
\* entry compatible with it is; the others are conflicts.
Merged(contract) ==
    {[FirstOf(contract, key) EXCEPT !.critical =
        \E i \in SameKey(contract, key) :
            Compatible(contract[i], FirstOf(contract, key)) /\ contract[i].critical] :
     key \in {contract[i].key : i \in DOMAIN contract}}

\* Of the items of one kind the last in the list, whatever its result.
EvidenceFor(kind, items) ==
    LET found == {i \in DOMAIN items : items[i].kind = kind}
    IN IF found = {} THEN Unset ELSE items[CHOOSE i \in found : \A j \in found : j <= i]

Meets(c, item, tier) ==
    \/ c.resolver = "none"
    \/ c.resolver = "tier" /\ item.value # Unset /\ item.value >= Threshold(tier)

\* _evaluate_criterion.
Verdict(c, items, tier, now, strict) ==
    LET item == EvidenceFor(c.kind, items)
        unproved == item = Unset \/ (item # Unset /\ Stale(item, now))
    IN CASE unproved /\ ~strict -> "warn"
         [] unproved /\ strict -> IF c.critical THEN "blocked" ELSE "not_verified"
         [] ~unproved /\ ~Meets(c, item, tier) -> IF strict /\ c.critical THEN "blocked" ELSE "warn"
         [] OTHER -> "ok"

\* The gate of the kernel, with the contract of the session ("phases" that it
\* names, and the criteria of this one).  A session without any contract passes.
StrictExitBlocks(contract, otherPhases, items, tier, now, strict) ==
    /\ Len(contract) + otherPhases > 0
    /\ \/ contract = <<>> /\ strict
       \/ contract # <<>> /\ strict /\ Conflicts(contract) # {}
       \/ \E c \in Merged(contract) : Verdict(c, items, tier, now, strict) = "blocked"
=============================================================================
