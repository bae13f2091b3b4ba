------------------------------- MODULE PackLock -------------------------------
(***************************************************************************)
(* The lock of the rule packs (infrastructure/pack_lock.py): which packs a   *)
(* selection takes in, whether they go together, and in which order.        *)
(*                                                                         *)
(* A manifest is [requires, conflicts, owns, touches, fits]: sets of packs   *)
(* and of surfaces, and whether the version of the engine lies between its   *)
(* bounds.  manifests is a function from the packs that have one, a surface  *)
(* has a name, and packs are numbers, which their names sort like.          *)
(***************************************************************************)
EXTENDS Naturals, Sequences, FiniteSets, SequencesExt, FiniteSetsExt

\* One round of the queue.
Required(manifests, packs) == UNION {manifests[p].requires : p \in packs \cap DOMAIN manifests}

\* The packs the queue reaches; of one without a manifest it stops.
Closure(manifests, selected) ==
    LET round[i \in 0..(Cardinality(DOMAIN manifests) + 1)] ==
            IF i = 0 THEN selected ELSE round[i - 1] \cup Required(manifests, round[i - 1])
    IN round[Cardinality(DOMAIN manifests) + 1]

Owners(manifests, packs, surface) == {p \in packs : surface \in manifests[p].owns}

\* A pack that touches what another owns, without asking for it by name.
Trespasses(manifests, packs) ==
    \E p \in packs : \E surface \in manifests[p].touches :
        \E owner \in Owners(manifests, packs, surface) \ {p} : owner \notin manifests[p].requires

\* Mutant: a pack may come next once one of the packs it requires is there.
FrontierAny(manifests, packs, done) ==
    {p \in packs \ Range(done) :
        manifests[p].requires \cap packs = {} \/ manifests[p].requires \cap Range(done) # {}}

\* What of the packs may come next, after those of a sequence.
Frontier(manifests, packs, done) ==
    {p \in packs \ Range(done) : manifests[p].requires \cap packs \subseteq Range(done)}

\* A sequence with the least of its frontier after it.
Extended(manifests, packs, done) ==
    LET front == Frontier(manifests, packs, done)
    IN IF front = {} THEN done ELSE Append(done, Min(front))

\* The least of the frontier each time; a cycle leaves packs out.
Ordered(manifests, packs) ==
    LET upTo[n \in 0..Cardinality(packs)] ==
            IF n = 0 THEN <<>> ELSE Extended(manifests, packs, upTo[n - 1])
    IN upTo[Cardinality(packs)]

\* resolve_pack_lock: the first error, or the order.  A conflict counts if one of
\* the two names it.
PackLockError(manifests, selected) ==
    LET packs == Closure(manifests, selected)
    IN IF selected = {} \/ ~(packs \subseteq DOMAIN manifests) THEN "invalid"
       ELSE IF \E p \in packs : ~manifests[p].fits \/ manifests[p].conflicts \cap packs # {} THEN "invalid"
       ELSE IF \E p, q \in packs : p # q /\ manifests[p].owns \cap manifests[q].owns # {} THEN "surface"
       ELSE IF Trespasses(manifests, packs) THEN "surface"
       ELSE IF Len(Ordered(manifests, packs)) # Cardinality(packs) THEN "invalid" ELSE "none"

\* The hash of the lock, by what it is made of.
LockHash(manifests, selected) ==
    LET packs == Closure(manifests, selected)
    IN <<selected, Ordered(manifests, packs), [p \in packs |-> manifests[p]]>>
=============================================================================
