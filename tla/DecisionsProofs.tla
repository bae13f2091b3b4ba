--------------------------- MODULE DecisionsProofs ---------------------------
(***************************************************************************)
(* What is decided on given facts, for any facts: what a run of the engine    *)
(* answers, what is exported, restored and purged of an archived run, what    *)
(* /new-work makes of the files a discovery of business rules leaves, and     *)
(* what an installation, whole or stopped, and an uninstall leave behind.     *)
(***************************************************************************)
EXTENDS GovernedArchive, EngineRun, Install, BusinessRules,
        WellFoundedInduction, NaturalsInduction, FiniteSetTheorems, TLAPS

-----------------------------------------------------------------------------
(* The engine: one run after the other.                                      *)

\* A set of positions that is not empty has a least one.
LEMMA LeastExists ==
    ASSUME NEW S \in SUBSET Nat, S # {}
    PROVE  \E n \in S : \A m \in S : n <= m
<1>1. \E n \in S : \A m \in S : <<m, n>> \notin OpToRel(<, Nat)
  BY NatLessThanWellFounded, WFMin
<1>2. \A n \in S, m \in S : <<m, n>> \notin OpToRel(<, Nat) => n <= m
  BY DEF OpToRel
<1> QED
  BY <1>1, <1>2

\* The first reason of a list is one of its reasons, and there is none exactly
\* when every gate lets the request through.
LEMMA FirstReasonIsNone ==
    ASSUME NEW reasons, DOMAIN reasons \subseteq Nat
    PROVE  FirstReason(reasons) = "none" <=> \A i \in DOMAIN reasons : reasons[i] = "none"
<1> DEFINE blocking == {i \in DOMAIN reasons : reasons[i] # "none"}
<1>1. CASE blocking = {}
  BY <1>1 DEF FirstReason
<1>2. CASE blocking # {}
  <2>1. \E n \in blocking : \A m \in blocking : n <= m
    BY <1>2, LeastExists
  <2>2. Min(blocking) \in blocking
    BY <2>1 DEF Min
  <2>3. FirstReason(reasons) = reasons[Min(blocking)]
    BY <1>2, Zenon DEF FirstReason
  <2> QED
    BY <2>2, <2>3
<1> QED
  BY <1>1, <1>2

LEMMA GatesAreListed ==
    ASSUME NEW r, NEW mode
    PROVE  DOMAIN LateReasons(r, mode) = 1..11
BY DEF LateReasons

EngineInv ==
    /\ RequestOK(request)
    /\ items \in Seq(EvidenceItem) /\ now \in Nat
    /\ outcome = EngineOutcome(request, items, now)

LEMMA EngineBegins == EInit => EngineInv
BY RequestsAssumption DEF EInit, EngineInv

LEMMA EngineStep == EngineInv /\ [ENext]_evars => EngineInv'
<1> SUFFICES ASSUME EngineInv, [ENext]_evars PROVE EngineInv'
  OBVIOUS
<1> USE DEF EngineInv
<1>1. ASSUME NEW field \in DOMAIN Alternatives, NEW value \in Alternatives[field],
             AskOtherwise(field, value)
      PROVE  EngineInv'
  <2>1. request' = [request EXCEPT ![field] = value] /\ items' = items /\ now' = now
    BY <1>1 DEF AskOtherwise
  <2>2. RequestFields \subseteq DOMAIN request'
    BY <2>1 DEF RequestOK
  <2>3. request'.contract \in Contract
    BY <2>1, RequestsAssumption DEF RequestOK, RequestFields
  <2>4. request'.otherPhases \in Nat
    BY <2>1, RequestsAssumption DEF RequestOK, RequestFields
  <2>5. ManifestsOK(request'.manifests)
    BY <2>1, RequestsAssumption DEF RequestOK, RequestFields
  <2>6. outcome' = EngineOutcome(request', items', now')
    BY <1>1 DEF AskOtherwise, RunAgain
  <2> QED
    BY <2>1, <2>2, <2>3, <2>4, <2>5, <2>6 DEF RequestOK
<1>2. ASSUME NEW edit \in PackEdits, EditManifest(edit) PROVE EngineInv'
  <2> DEFINE edited == [request.manifests EXCEPT ![edit.pack][edit.field] = @ \cup {edit.value}]
  <2>1. request' = [request EXCEPT !.manifests = edited]
    BY <1>2 DEF EditManifest, RequestOK, RequestFields
  <2>2. RequestOK(request')
    <3>1. DOMAIN edited = DOMAIN request.manifests
      OBVIOUS
    <3> HIDE DEF edited
    <3> QED
      BY <2>1, <3>1 DEF RequestOK, RequestFields, ManifestsOK
  <2>3. outcome' = EngineOutcome(request', items', now') /\ items' = items /\ now' = now
    BY <1>2 DEF EditManifest, RunAgain
  <2> QED
    BY <2>2, <2>3
<1>3. ASSUME NEW item \in NewItems, Observe(item) PROVE EngineInv'
  <2> DEFINE seen == [item EXCEPT !.seen = IF @ = Unset THEN Unset ELSE now]
  <2>1. seen \in EvidenceItem
    BY ItemsAssumption DEF EvidenceItem
  <2>2. items' = Append(items, seen) /\ request' = request /\ now' = now
    BY <1>3 DEF Observe
  <2>3. outcome' = EngineOutcome(request', items', now')
    BY <1>3 DEF Observe, RunAgain
  <2> HIDE DEF seen
  <2> QED
    BY <2>1, <2>2, <2>3 DEF RequestOK
<1>4. ASSUME Wait PROVE EngineInv'
  BY <1>4 DEF Wait, RunAgain, RequestOK
<1>5. CASE UNCHANGED evars
  BY <1>5 DEF evars, RequestOK
<1> QED
  BY <1>1, <1>2, <1>3, <1>4, <1>5 DEF ENext, AskNext

LEMMA EngineInvariant == ESpec => []EngineInv
BY EngineBegins, EngineStep, PTL DEF ESpec

-----------------------------------------------------------------------------
(* The lock of the packs.  Closure and Ordered are recursive functions: that   *)
(* they exist, and what they return, is shown of the first step at which it    *)
(* would fail.                                                                *)

\* A function that goes n steps from the first of X.
Walk(X, first, step, n, f) ==
    f \in [0..n -> X] /\ f[0] = first /\ \A i \in 1..n : f[i] = step[f[i - 1]]

\* A step that can be taken from everything can be taken n times.
LEMMA WalksExist ==
    ASSUME NEW X, NEW first \in X, NEW step \in [X -> X], NEW n \in Nat
    PROVE  \E f : Walk(X, first, step, n, f)
<1> DEFINE without == {m \in Nat : \A f : ~Walk(X, first, step, m, f)}
<1>1. ASSUME NEW m \in without, \A k \in without : m <= k PROVE FALSE
  <2>1. CASE m = 0
    <3>1. Walk(X, first, step, 0, [i \in 0..0 |-> first])
      BY DEF Walk
    <3> QED
      BY <2>1, <3>1
  <2>2. CASE m # 0
    <3>1. m - 1 \in Nat /\ ~(m <= m - 1) /\ m - 1 \in 0..(m - 1)
      BY <2>2
    <3>2. m - 1 \notin without
      BY <1>1, <3>1
    <3>3. PICK f : Walk(X, first, step, m - 1, f)
      BY <3>1, <3>2
    <3> DEFINE more == [i \in 0..m |-> IF i = m THEN step[f[m - 1]] ELSE f[i]]
    <3>4. more \in [0..m -> X] /\ more[0] = first
      BY <2>2, <3>1, <3>3 DEF Walk
    <3>5. ASSUME NEW i \in 1..m PROVE more[i] = step[more[i - 1]]
      <4>1. i \in 0..m /\ i - 1 \in 0..m /\ i - 1 # m
        BY <3>1
      <4>2. more[i - 1] = f[i - 1]
        BY <4>1
      <4>3. CASE i = m
        BY <4>1, <4>2, <4>3
      <4>4. CASE i # m
        <5>1. i \in 1..(m - 1)
          BY <4>4
        <5>2. f[i] = step[f[i - 1]]
          BY <3>3, <5>1 DEF Walk
        <5>3. more[i] = f[i]
          BY <4>1, <4>4
        <5> QED
          BY <4>2, <5>2, <5>3
      <4> QED
        BY <4>3, <4>4
    <3>6. Walk(X, first, step, m, more)
      BY <3>4, <3>5 DEF Walk
    <3> QED
      BY <3>6
  <2> QED
    BY <2>1, <2>2
<1>2. without = {}
  <2>1. without \in SUBSET Nat
    OBVIOUS
  <2> HIDE DEF without
  <2> QED
    BY <1>1, <2>1, LeastExists
<1> QED
  BY <1>2

\* Functions that are the rounds of the queue, and the beginnings of the order.
Rounds(manifests, selected, n, f) ==
    f = [i \in 0..n |-> IF i = 0 THEN selected ELSE f[i - 1] \cup Required(manifests, f[i - 1])]

Beginnings(manifests, packs, n, f) ==
    f = [i \in 0..n |-> IF i = 0 THEN <<>> ELSE Extended(manifests, packs, f[i - 1])]

LEMMA RoundsExist ==
    ASSUME NEW manifests, NEW selected, NEW n \in Nat
    PROVE  \E f : Rounds(manifests, selected, n, f)
<1> DEFINE X == SUBSET (selected \cup UNION {manifests[p].requires : p \in DOMAIN manifests})
           step == [S \in X |-> S \cup Required(manifests, S)]
<1>1. selected \in X /\ step \in [X -> X]
  BY DEF Required
<1>2. PICK f \in [0..n -> X] : f[0] = selected /\ \A i \in 1..n : f[i] = step[f[i - 1]]
  <2> HIDE DEF X, step
  <2>1. \E f : Walk(X, selected, step, n, f)
    BY <1>1, WalksExist
  <2> QED
    BY <2>1 DEF Walk
<1> DEFINE same == [i \in 0..n |-> IF i = 0 THEN selected ELSE f[i - 1] \cup Required(manifests, f[i - 1])]
<1>3. ASSUME NEW i \in 0..n PROVE f[i] = same[i]
  <2>1. CASE i = 0
    BY <1>2, <2>1
  <2>2. CASE i # 0
    <3>1. i \in 1..n /\ i - 1 \in 0..n
      BY <2>2
    <3>2. f[i - 1] \in X /\ f[i] = step[f[i - 1]]
      BY <1>2, <3>1
    <3>3. step[f[i - 1]] = f[i - 1] \cup Required(manifests, f[i - 1])
      BY <3>2
    <3> QED
      BY <2>2, <3>2, <3>3
  <2> QED
    BY <2>1, <2>2
<1>4. f = same
  BY <1>3
<1> QED
  BY <1>4, Zenon DEF Rounds

LEMMA ClosureIsLastRound ==
    ASSUME NEW manifests, NEW selected, IsFiniteSet(DOMAIN manifests)
    PROVE  \E round : /\ Rounds(manifests, selected, Cardinality(DOMAIN manifests) + 1, round)
                      /\ Closure(manifests, selected) = round[Cardinality(DOMAIN manifests) + 1]
<1> DEFINE last == Cardinality(DOMAIN manifests) + 1
           round == CHOOSE f : f = [i \in 0..last |->
               IF i = 0 THEN selected ELSE f[i - 1] \cup Required(manifests, f[i - 1])]
<1>1. last \in Nat
  BY FS_CardinalityType
<1>2. Closure(manifests, selected) = round[last]
  BY DEF Closure
<1> HIDE DEF last
<1>3. \E f : f = [i \in 0..last |->
               IF i = 0 THEN selected ELSE f[i - 1] \cup Required(manifests, f[i - 1])]
  <2>1. PICK f : Rounds(manifests, selected, last, f)
    BY <1>1, RoundsExist
  <2> QED
    BY <2>1, Zenon DEF Rounds
<1>4. round = [i \in 0..last |->
               IF i = 0 THEN selected ELSE round[i - 1] \cup Required(manifests, round[i - 1])]
  BY <1>3, Zenon
<1> HIDE DEF round
<1>5. Rounds(manifests, selected, last, round)
  BY <1>4, Zenon DEF Rounds
<1> QED
  BY <1>2, <1>5 DEF last

\* What the queue reaches holds the selection and, when all of it has manifests,
\* everything these require.
LEMMA ClosureIsClosed ==
    ASSUME NEW manifests, NEW selected, IsFiniteSet(DOMAIN manifests), selected # {},
           Closure(manifests, selected) \subseteq DOMAIN manifests
    PROVE  /\ selected \subseteq Closure(manifests, selected)
           /\ Required(manifests, Closure(manifests, selected)) \subseteq Closure(manifests, selected)
<1> DEFINE d == Cardinality(DOMAIN manifests)
<1>1. d \in Nat
  BY FS_CardinalityType
<1>2. PICK round : /\ Rounds(manifests, selected, d + 1, round)
                   /\ Closure(manifests, selected) = round[d + 1]
  BY ClosureIsLastRound
<1> HIDE DEF d
<1>3. round[0] = selected /\ \A i \in 1..(d + 1) : round[i] = round[i - 1] \cup Required(manifests, round[i - 1])
  <2>1. d + 1 \in Nat
    BY <1>1
  <2>2. ASSUME NEW i \in 0..(d + 1)
        PROVE  round[i] = IF i = 0 THEN selected ELSE round[i - 1] \cup Required(manifests, round[i - 1])
    BY <1>2, <2>1 DEF Rounds
  <2>3. 0 \in 0..(d + 1) /\ \A i \in 1..(d + 1) : i \in 0..(d + 1) /\ i # 0
    BY <2>1
  <2>4. round[0] = selected
    BY <2>2, <2>3
  <2>5. ASSUME NEW i \in 1..(d + 1) PROVE round[i] = round[i - 1] \cup Required(manifests, round[i - 1])
    BY <2>2, <2>3
  <2> QED
    BY <2>4, <2>5
<1>4. ASSUME NEW i \in 0..d PROVE round[i + 1] = round[i] \cup Required(manifests, round[i])
  <2>1. i + 1 \in 1..(d + 1) /\ (i + 1) - 1 = i
    BY <1>1
  <2> QED
    BY <1>3, <2>1
\* The rounds before the last one hold no more than it does.
<1>5. \A i \in 0..(d + 1) : round[i] \subseteq round[d + 1]
  <2> DEFINE outside == {k \in Nat : k <= d + 1 /\ ~(round[d + 1 - k] \subseteq round[d + 1])}
  <2>1. ASSUME NEW k \in outside, \A j \in outside : k <= j PROVE FALSE
    <3>1. k # 0
      BY <1>1
    <3>2. k - 1 \in Nat /\ k - 1 <= d + 1 /\ ~(k <= k - 1) /\ d + 1 - k \in 0..d
          /\ (d + 1 - k) + 1 = d + 1 - (k - 1)
      BY <1>1, <3>1
    <3>3. k - 1 \notin outside
      BY <2>1, <3>2
    <3>4. round[d + 1 - (k - 1)] \subseteq round[d + 1]
      BY <3>2, <3>3
    <3>5. round[(d + 1 - k) + 1] = round[d + 1 - k] \cup Required(manifests, round[d + 1 - k])
      BY <1>4, <3>2
    <3>6. round[d + 1 - k] \subseteq round[d + 1]
      BY <3>2, <3>4, <3>5
    <3> QED
      BY <3>6
  <2>2. outside = {}
    <3>1. outside \in SUBSET Nat
      OBVIOUS
    <3> HIDE DEF outside
    <3> QED
      BY <2>1, <3>1, LeastExists
  <2>3. ASSUME NEW i \in 0..(d + 1) PROVE round[i] \subseteq round[d + 1]
    <3>1. d + 1 - i \in Nat /\ d + 1 - i <= d + 1 /\ d + 1 - (d + 1 - i) = i
      BY <1>1
    <3>2. d + 1 - i \notin outside
      BY <2>2
    <3> QED
      BY <3>1, <3>2
  <2> QED
    BY <2>3
<1>6. ASSUME NEW i \in 0..(d + 1)
      PROVE  round[i] \subseteq DOMAIN manifests /\ IsFiniteSet(round[i]) /\ Cardinality(round[i]) <= d
             /\ Cardinality(round[i]) \in Nat
  <2>1. round[i] \in SUBSET DOMAIN manifests
    BY <1>2, <1>5
  <2> QED
    BY <2>1, FS_Subset, FS_CardinalityType DEF d
\* A round that adds nothing is the last, the others add one pack at least.
<1>7. ASSUME NEW i \in 0..d PROVE Required(manifests, round[i]) \subseteq round[i] \/ Cardinality(round[i]) > i
  <2> DEFINE Going(j) == Required(manifests, round[j]) \subseteq round[j] \/ Cardinality(round[j]) > j
             small == {j \in Nat : j <= d /\ ~Going(j)}
  <2>1. ASSUME NEW j \in small, \A k \in small : j <= k PROVE FALSE
    <3>1. j # 0
      <4>1. CASE j = 0
        <5>1. 0 \in 0..(d + 1)
          BY <1>1
        <5>2. Cardinality(round[0]) # 0
          BY <1>3, <1>6, <5>1, FS_EmptySet
        <5> QED
          BY <1>6, <4>1, <5>1, <5>2
      <4> QED
        BY <4>1
    <3>2. j - 1 \in Nat /\ j - 1 \in 0..d /\ ~(j <= j - 1) /\ (j - 1) + 1 = j /\ j \in 0..(d + 1)
          /\ j - 1 \in 0..(d + 1)
      BY <1>1, <3>1
    <3>3. j - 1 \notin small
      BY <2>1, <3>2
    <3>4. Going(j - 1)
      BY <3>2, <3>3
    <3>5. round[j] = round[j - 1] \cup Required(manifests, round[j - 1])
      BY <1>4, <3>2
    <3>6. CASE Required(manifests, round[j - 1]) \subseteq round[j - 1]
      <4>1. round[j] = round[j - 1]
        BY <3>5, <3>6
      <4> QED
        BY <3>6, <4>1
    <3>7. CASE ~(Required(manifests, round[j - 1]) \subseteq round[j - 1])
      <4>1. Cardinality(round[j - 1]) > j - 1
        BY <3>4, <3>7
      <4>2. round[j - 1] \in SUBSET round[j] /\ round[j - 1] # round[j]
        BY <3>5, <3>7
      <4>3. Cardinality(round[j - 1]) <= Cardinality(round[j]) /\ Cardinality(round[j]) # Cardinality(round[j - 1])
        BY <1>6, <3>2, <4>2, FS_Subset
      <4>4. Cardinality(round[j]) \in Nat /\ Cardinality(round[j - 1]) \in Nat
        BY <1>6, <3>2
      <4>5. Cardinality(round[j]) > j
        BY <4>1, <4>3, <4>4
      <4> QED
        BY <4>5
    <3> QED
      BY <3>6, <3>7
  <2>2. small = {}
    <3>1. small \in SUBSET Nat
      OBVIOUS
    <3> HIDE DEF small
    <3> QED
      BY <2>1, <3>1, LeastExists
  <2>3. i \in Nat /\ i <= d
    BY <1>1
  <2>4. i \notin small
    BY <2>2
  <2> QED
    BY <2>3, <2>4
<1>8. d \in 0..d /\ d \in 0..(d + 1) /\ 0 \in 0..(d + 1)
  BY <1>1
<1>9. Required(manifests, round[d]) \subseteq round[d]
  BY <1>1, <1>6, <1>7, <1>8
<1>10. round[d + 1] = round[d]
  BY <1>4, <1>8, <1>9
<1> QED
  BY <1>2, <1>3, <1>5, <1>8, <1>9, <1>10

\* A sequence of packs, each once and after those of the packs it requires.
InOrder(manifests, packs, done) ==
    /\ done \in Seq(packs)
    /\ \A i, j \in 1..Len(done) : done[i] = done[j] => i = j
    /\ \A i \in 1..Len(done) : \A q \in manifests[done[i]].requires \cap packs :
          \E j \in 1..(i - 1) : done[j] = q

LEMMA ExtendedInOrder ==
    ASSUME NEW manifests, NEW packs \in SUBSET Nat, NEW done, done \in Seq(packs)
    PROVE  /\ Extended(manifests, packs, done) \in Seq(packs)
           /\ InOrder(manifests, packs, done) => InOrder(manifests, packs, Extended(manifests, packs, done))
<1> DEFINE front == Frontier(manifests, packs, done)
           more == Append(done, Min(front))
<1>1. CASE front = {}
  BY <1>1 DEF Extended
<1>2. CASE front # {}
  <2>1. Extended(manifests, packs, done) = more
    BY <1>2 DEF Extended
  <2>2. front \in SUBSET Nat
    BY DEF Frontier
  <2>3. Min(front) \in front
    <3> HIDE DEF front
    <3>1. \E n \in front : \A m \in front : n <= m
      BY <1>2, <2>2, LeastExists
    <3> QED
      BY <3>1 DEF Min
  <2>4. /\ Min(front) \in packs /\ Min(front) \notin Range(done)
        /\ manifests[Min(front)].requires \cap packs \subseteq Range(done)
    BY <2>3 DEF Frontier
  <2> DEFINE least == Min(front)
  <2> HIDE DEF front, least
  <2>5. /\ more \in Seq(packs) /\ Len(more) = Len(done) + 1 /\ Len(done) \in Nat
        /\ \A i \in 1..Len(done) : more[i] = done[i]
        /\ more[Len(done) + 1] = least
    BY <2>4 DEF least
  <2> HIDE DEF more
  <2>6. \A q \in Range(done) : \E j \in 1..Len(done) : done[j] = q
    BY DEF Range
  <2>7. \A j \in 1..Len(done) : done[j] # least
    BY <2>4 DEF Range, least
  <2>8. ASSUME InOrder(manifests, packs, done) PROVE InOrder(manifests, packs, more)
    <3>1. ASSUME NEW i \in 1..Len(more), NEW j \in 1..Len(more), more[i] = more[j] PROVE i = j
      <4>1. CASE i \in 1..Len(done) /\ j \in 1..Len(done)
        BY <2>5, <2>8, <3>1, <4>1 DEF InOrder
      <4>2. CASE i \in 1..Len(done) /\ j = Len(done) + 1
        BY <2>5, <2>7, <3>1, <4>2
      <4>3. CASE i = Len(done) + 1 /\ j \in 1..Len(done)
        BY <2>5, <2>7, <3>1, <4>3
      <4> QED
        BY <2>5, <4>1, <4>2, <4>3
    <3>2. ASSUME NEW i \in 1..Len(more), NEW q \in manifests[more[i]].requires \cap packs
          PROVE  \E j \in 1..(i - 1) : more[j] = q
      <4>1. CASE i \in 1..Len(done)
        <5>1. PICK j \in 1..(i - 1) : done[j] = q
          BY <2>5, <2>8, <3>2, <4>1 DEF InOrder
        <5>2. j \in 1..Len(done)
          BY <4>1
        <5> QED
          BY <2>5, <5>1, <5>2
      <4>2. CASE i = Len(done) + 1
        <5>1. q \in Range(done)
          BY <2>4, <2>5, <3>2, <4>2 DEF least
        <5>2. PICK j \in 1..Len(done) : done[j] = q
          BY <2>6, <5>1
        <5>3. j \in 1..(i - 1)
          BY <2>5, <4>2
        <5> QED
          BY <2>5, <5>2, <5>3
      <4> QED
        BY <2>5, <4>1, <4>2
    <3> QED
      BY <2>5, <3>1, <3>2 DEF InOrder
  <2> QED
    BY <2>1, <2>5, <2>8
<1> QED
  BY <1>1, <1>2

LEMMA BeginningsExist ==
    ASSUME NEW manifests, NEW packs \in SUBSET Nat, NEW n \in Nat
    PROVE  \E f : Beginnings(manifests, packs, n, f)
<1> DEFINE X == Seq(packs)
           step == [done \in X |-> Extended(manifests, packs, done)]
<1>1. <<>> \in X /\ step \in [X -> X]
  BY ExtendedInOrder
<1>2. PICK f \in [0..n -> X] : f[0] = <<>> /\ \A i \in 1..n : f[i] = step[f[i - 1]]
  <2> HIDE DEF X, step
  <2>1. \E f : Walk(X, <<>>, step, n, f)
    BY <1>1, WalksExist
  <2> QED
    BY <2>1 DEF Walk
<1> DEFINE same == [i \in 0..n |-> IF i = 0 THEN <<>> ELSE Extended(manifests, packs, f[i - 1])]
<1>3. ASSUME NEW i \in 0..n PROVE f[i] = same[i]
  <2>1. CASE i = 0
    BY <1>2, <2>1
  <2>2. CASE i # 0
    <3>1. i \in 1..n /\ i - 1 \in 0..n
      BY <2>2
    <3>2. f[i - 1] \in X /\ f[i] = step[f[i - 1]]
      BY <1>2, <3>1
    <3>3. step[f[i - 1]] = Extended(manifests, packs, f[i - 1])
      BY <3>2
    <3> QED
      BY <2>2, <3>2, <3>3
  <2> QED
    BY <2>1, <2>2
<1>4. f = same
  BY <1>3
<1> QED
  BY <1>4, Zenon DEF Beginnings

LEMMA BeginningsInOrder ==
    ASSUME NEW manifests, NEW packs \in SUBSET Nat, NEW n \in Nat, NEW f, Beginnings(manifests, packs, n, f)
    PROVE  InOrder(manifests, packs, f[n])
<1>1. ASSUME NEW i \in 0..n
      PROVE  f[i] = IF i = 0 THEN <<>> ELSE Extended(manifests, packs, f[i - 1])
  BY DEF Beginnings
<1> DEFINE unordered == {i \in Nat : i <= n /\ ~InOrder(manifests, packs, f[i])}
<1>2. ASSUME NEW i \in unordered, \A k \in unordered : i <= k PROVE FALSE
  <2>1. i \in 0..n
    OBVIOUS
  <2>2. CASE i = 0
    <3>1. f[i] = <<>>
      BY <1>1, <2>1, <2>2
    <3>2. InOrder(manifests, packs, <<>>)
      BY DEF InOrder
    <3> QED
      BY <3>1, <3>2
  <2>3. CASE i # 0
    <3>1. i - 1 \in Nat /\ i - 1 <= n /\ ~(i <= i - 1)
      BY <2>1, <2>3
    <3>2. i - 1 \notin unordered
      BY <1>2, <3>1
    <3>3. InOrder(manifests, packs, f[i - 1])
      BY <3>1, <3>2
    <3>4. f[i] = Extended(manifests, packs, f[i - 1])
      BY <1>1, <2>1, <2>3
    <3>5. f[i - 1] \in Seq(packs)
      BY <3>3 DEF InOrder
    <3>6. InOrder(manifests, packs, f[i])
      BY <3>3, <3>4, <3>5, ExtendedInOrder
    <3> QED
      BY <3>6
  <2> QED
    BY <2>2, <2>3
<1>3. unordered = {}
  <2>1. unordered \in SUBSET Nat
    OBVIOUS
  <2> HIDE DEF unordered
  <2> QED
    BY <1>2, <2>1, LeastExists
<1>4. n \notin unordered
  BY <1>3
<1> QED
  BY <1>4

LEMMA OrderedInOrder ==
    ASSUME NEW manifests, NEW packs \in SUBSET Nat, IsFiniteSet(packs)
    PROVE  InOrder(manifests, packs, Ordered(manifests, packs))
<1> DEFINE last == Cardinality(packs)
           upTo == CHOOSE f : f = [i \in 0..last |->
               IF i = 0 THEN <<>> ELSE Extended(manifests, packs, f[i - 1])]
<1>1. last \in Nat
  BY FS_CardinalityType
<1>2. Ordered(manifests, packs) = upTo[last]
  BY DEF Ordered
<1> HIDE DEF last
<1>3. \E f : f = [i \in 0..last |->
               IF i = 0 THEN <<>> ELSE Extended(manifests, packs, f[i - 1])]
  <2>1. PICK f : Beginnings(manifests, packs, last, f)
    BY <1>1, BeginningsExist
  <2> QED
    BY <2>1, Zenon DEF Beginnings
<1>4. upTo = [i \in 0..last |->
               IF i = 0 THEN <<>> ELSE Extended(manifests, packs, upTo[i - 1])]
  BY <1>3, Zenon
<1> HIDE DEF upTo
<1>5. Beginnings(manifests, packs, last, upTo)
  BY <1>4, Zenon DEF Beginnings
<1> QED
  BY <1>1, <1>2, <1>5, BeginningsInOrder

\* An order with as many places as there are packs has all of them.
LEMMA OrderIsWhole ==
    ASSUME NEW manifests, NEW packs, IsFiniteSet(packs), NEW order, InOrder(manifests, packs, order),
           Len(order) = Cardinality(packs)
    PROVE  \A p \in packs : \E i \in 1..Len(order) : order[i] = p
<1>1. order \in Injection(1..Len(order), packs)
  BY DEF InOrder, Injection, IsInjective
<1>2. Len(order) \in Nat /\ Cardinality(1..Len(order)) = Len(order)
  BY FS_Interval DEF InOrder
<1>3. order \in Surjection(1..Len(order), packs)
  BY <1>1, <1>2, FS_Injection
<1> QED
  BY <1>3 DEF Surjection

LEMMA ResolvedIsSound ==
    ASSUME NEW manifests, NEW selected, DOMAIN manifests \in SUBSET Nat, IsFiniteSet(DOMAIN manifests),
           PackLockError(manifests, selected) = "none"
    PROVE  LET packs == Closure(manifests, selected)
               order == Ordered(manifests, packs)
               Place(p) == CHOOSE i \in DOMAIN order : order[i] = p
           IN /\ Range(order) = packs /\ selected \subseteq packs
              /\ \A p \in packs : \A q \in manifests[p].requires :
                   q \in packs /\ Place(q) < Place(p)
              /\ \A p, q \in packs : p # q =>
                   /\ q \notin manifests[p].conflicts
                   /\ manifests[p].owns \cap manifests[q].owns = {}
                   /\ manifests[p].touches \cap manifests[q].owns # {} =>
                           Place(q) < Place(p)
<1> DEFINE packs == Closure(manifests, selected)
           order == Ordered(manifests, packs)
           Place(p) == CHOOSE i \in DOMAIN order : order[i] = p
<1>1. /\ selected # {} /\ packs \subseteq DOMAIN manifests
      /\ \A p \in packs : manifests[p].conflicts \cap packs = {}
      /\ \A p, q \in packs : p # q => manifests[p].owns \cap manifests[q].owns = {}
      /\ ~Trespasses(manifests, packs)
      /\ Len(order) = Cardinality(packs)
  BY DEF PackLockError
<1>2. selected \subseteq packs /\ Required(manifests, packs) \subseteq packs
  BY <1>1, ClosureIsClosed
<1> HIDE DEF packs
<1>3. packs \in SUBSET Nat /\ IsFiniteSet(packs)
  BY <1>1, FS_Subset
<1>4. InOrder(manifests, packs, order)
  BY <1>3, OrderedInOrder
<1>5. \A p \in packs : \E i \in 1..Len(order) : order[i] = p
  BY <1>1, <1>3, <1>4, OrderIsWhole
<1> HIDE DEF order
<1>6. order \in Seq(packs) /\ DOMAIN order = 1..Len(order) /\ Len(order) \in Nat
  BY <1>4 DEF InOrder
<1>7. ASSUME NEW i \in 1..Len(order) PROVE order[i] \in packs /\ Place(order[i]) = i
  <2>1. \A j \in DOMAIN order : order[j] = order[i] => j = i
    BY <1>4, <1>6 DEF InOrder
  <2> QED
    BY <1>6, <2>1
<1> HIDE DEF Place
<1>8. Range(order) = packs
  BY <1>5, <1>6, <1>7 DEF Range
<1>9. ASSUME NEW p \in packs, NEW q \in manifests[p].requires
      PROVE  q \in packs /\ Place(q) < Place(p)
  <2>1. q \in packs
    BY <1>1, <1>2, <1>9 DEF Required
  <2>2. PICK i \in 1..Len(order) : order[i] = p
    BY <1>5
  <2>3. PICK j \in 1..(i - 1) : order[j] = q
    BY <1>4, <1>9, <2>1, <2>2 DEF InOrder
  <2>4. j \in 1..Len(order) /\ j < i
    BY <1>6
  <2> QED
    BY <1>7, <2>1, <2>2, <2>3, <2>4
<1>10. ASSUME NEW p \in packs, NEW q \in packs, p # q,
              manifests[p].touches \cap manifests[q].owns # {}
       PROVE  Place(q) < Place(p)
  <2>1. q \in manifests[p].requires
    BY <1>1, <1>10 DEF Trespasses, Owners
  <2> QED
    BY <1>9, <2>1
<1> QED
  BY <1>1, <1>2, <1>8, <1>9, <1>10 DEF Place, order, packs

\* A lock that resolves is sound, whatever the manifests require, own and touch:
\* the engine works with a closed set of packs in an order they agree with.
THEOREM PackOrderAlwaysSound == ESpec => []PackOrderIsSound
<1>1. EngineInv => PackOrderIsSound
  <2> SUFFICES ASSUME EngineInv, PackLockError(request.manifests, request.selected) = "none"
               PROVE  PackOrderIsSound
    BY DEF PackOrderIsSound
  <2>1. DOMAIN request.manifests \in SUBSET Nat /\ IsFiniteSet(DOMAIN request.manifests)
    BY DEF EngineInv, RequestOK, ManifestsOK
  <2> QED
    BY <2>1, ResolvedIsSound DEF PackOrderIsSound
<1> QED
  BY <1>1, EngineInvariant, PTL

-----------------------------------------------------------------------------
(* What blocks a run, and the mode it works in.                              *)

\* Of profiles some of which are given the hardest is one of these.
LEMMA HardestIsHardest ==
    ASSUME NEW S \in SUBSET (Profiles \cup {"none"}), S \ {"none"} # {}
    PROVE  /\ Hardest(S) \in S \ {"none"}
           /\ \A q \in S \ {"none"} : Hardness(Hardest(S)) >= Hardness(q)
<1> DEFINE given == S \ {"none"}
<1>1. \E p \in given : \A q \in given : Hardness(p) >= Hardness(q)
  <2>1. CASE "regulated" \in given
    BY <2>1 DEF Hardness, Profiles
  <2>2. CASE "regulated" \notin given /\ "team" \in given
    BY <2>2 DEF Hardness, Profiles
  <2>3. CASE given = {"solo"}
    BY <2>3 DEF Hardness
  <2> QED
    BY <2>1, <2>2, <2>3 DEF Profiles
<1> QED
  BY <1>1 DEF Hardest

LEMMA NormalizedIsProfile ==
    ASSUME NEW token
    PROVE  Normalized(token) \in Profiles \cup {"none"}
BY DEF Normalized, Profiles

LEMMA TrustedIsProfile ==
    ASSUME NEW i
    PROVE  TrustedEnforcement(i) \in Profiles \cup {"none"}
BY NormalizedIsProfile DEF TrustedEnforcement

\* Without a break-glass record the mode that is resolved is at least that of
\* the repository.
LEMMA NoSilentDownshift ==
    ASSUME NEW i, Normalized(i.repo) # "none", i.glass # "active"
    PROVE  ~Downshift(Normalized(i.repo), Candidate(i))
<1> DEFINE base == Baseline(i)
           given == {base, TrustedEnforcement(i), Normalized(i.requested)}
<1>1. base \in Profiles /\ Hardness(base) >= Hardness(Normalized(i.repo))
  <2>1. {Normalized(i.repo), Normalized(i.init)} \in SUBSET (Profiles \cup {"none"})
    BY NormalizedIsProfile
  <2> QED
    BY <2>1, HardestIsHardest DEF Baseline
<1>2. given \in SUBSET (Profiles \cup {"none"}) /\ base \in given \ {"none"}
  BY <1>1, NormalizedIsProfile, TrustedIsProfile DEF Profiles
<1>3. Candidate(i) = Hardest(given)
  BY DEF Candidate
<1>4. Hardest(given) \in given \ {"none"} /\ Hardness(Hardest(given)) >= Hardness(base)
  <2> HIDE DEF given, base
  <2> QED
    BY <1>2, HardestIsHardest
<1>5. \A p : Hardness(p) \in Nat
  BY DEF Hardness
<1> QED
  BY <1>1, <1>3, <1>4, <1>5 DEF Downshift

LEMMA ModeRulesAlwaysKept ==
    ASSUME NEW env, NEW requested
    PROVE  ModeRulesKept(env, requested)
<1> DEFINE r == ResolveMode(env, requested)
           i == ProfileInputs(env, requested)
<1> SUFFICES ASSUME ~ExplicitRequest(requested), ~LegacyDefault(env, requested),
                    r.state # "blocked", r.error \in {"none", "MISSING_OPERATING_MODE"}
             PROVE  /\ Normalized(i.floor) # "none" => ~Downshift(Normalized(i.floor), r.profile)
                    /\ TrustedEnforcement(i) # "none" => ~Downshift(TrustedEnforcement(i), r.profile)
                    /\ env.policy # "none" /\ Downshift(Normalized(env.policy), r.profile)
                            => env.glass = "active"
  BY DEF ModeRulesKept
<1>1. ProfileError(i) = "none" /\ r.profile = Candidate(i)
  <2> HIDE DEF i
  <2>1. \/ r = Resolution("team", "pipeline", "blocked", "MISSING_OPERATING_MODE")
        \/ /\ ProfileError(i) = "none"
           /\ r.profile = Candidate(i)
        \/ /\ ProfileError(i) # "none"
           /\ r = Resolution("team", "pipeline",
                     IF ProfileError(i) \in {"UNTRUSTED_ENFORCEMENT_SOURCE", "MISSING_OPERATING_MODE"}
                     THEN "blocked" ELSE "fallback", ProfileError(i))
    BY DEF ResolveMode, i, Resolution
  <2> HIDE DEF r
  <2> QED
    BY <2>1 DEF Resolution
<1>2. /\ \A t \in {i.requested, i.repo, i.init, i.enforced, i.floor} : t # "none" => Normalized(t) # "none"
      /\ i.floor # "none" => ~Downshift(Normalized(i.floor), Candidate(i))
      /\ TrustedEnforcement(i) # "none" => ~Downshift(TrustedEnforcement(i), Candidate(i))
  <2> HIDE DEF i
  <2> QED
    BY <1>1 DEF ProfileError
<1>3. Normalized(i.floor) # "none" => i.floor # "none"
  <2> HIDE DEF i
  <2> QED
    BY DEF Normalized
<1>4. env.policy # "none" => i.repo = env.policy /\ i.glass = env.glass
  BY DEF ProfileInputs, RepoProfile
<1>5. env.policy # "none" /\ Downshift(Normalized(env.policy), r.profile) => env.glass = "active"
  BY <1>1, <1>2, <1>4, NoSilentDownshift
<1> QED
  BY <1>1, <1>2, <1>3, <1>5

\* A resolution that blocks says why.
LEMMA BlockedSaysWhy ==
    ASSUME NEW env, NEW requested, ResolveMode(env, requested).state = "blocked"
    PROVE  ResolveMode(env, requested).error # "none"
BY DEF ResolveMode, Resolution

\* A request that no gate blocks.
LEMMA GatesLetThrough ==
    ASSUME NEW r, NEW mode, NEW resolved, GateReason(r, mode, resolved) = "none"
    PROVE  /\ PromptReason(r, mode) = "none" /\ EarlyReason(r, mode, resolved) = "none"
           /\ \A k \in 1..11 : LateReasons(r, mode)[k] = "none"
<1>1. /\ PromptReason(r, mode) = "none" /\ EarlyReason(r, mode, resolved) = "none"
      /\ FirstReason(LateReasons(r, mode)) = "none"
  BY DEF GateReason
<1> QED
  BY <1>1, FirstReasonIsNone, GatesAreListed

LEMMA EarlyLetsThrough ==
    ASSUME NEW r, NEW mode, NEW resolved, EarlyReason(r, mode, resolved) = "none",
           resolved.state = "blocked" => resolved.error # "none"
    PROVE  /\ resolved.state # "blocked" /\ RequiredCapabilities(mode) \subseteq r.caps
           /\ r.commit /\ IsGitRoot(r) => r.live # "none" /\ r.known \in {r.live, "none"}
BY DEF EarlyReason

\* What no late gate holds back has a repository, if there is one, and the hashes
\* it was asked to match.
LEMMA LateLetsThrough ==
    ASSUME NEW r, NEW mode, \A k \in 1..11 : LateReasons(r, mode)[k] = "none"
    PROVE  /\ PackReason(r) = "none"
           /\ r.root => IsGitRoot(r)
           /\ r.matchHashes => /\ r.ruleset \in {<<>>, RulesetHash(r)}
                               /\ r.activation \in {<<>>, ActivationHash(r, mode)}
<1>1. /\ LateReasons(r, mode)[6] = "none" /\ LateReasons(r, mode)[8] = "none"
      /\ LateReasons(r, mode)[9] = "none" /\ LateReasons(r, mode)[10] = "none"
  OBVIOUS
<1>2. /\ "exec" \in r.caps /\ SurfaceReason(r, mode) = "none"
      /\ PackReason(r) = "none" /\ HashReason(r, mode) = "none"
  BY <1>1 DEF LateReasons
<1>3. r.root => IsGitRoot(r)
  BY <1>2 DEF SurfaceReason, IsGitRoot
<1> QED
  BY <1>2, <1>3 DEF HashReason

LEMMA PacksLetThrough ==
    ASSUME NEW r, PackReason(r) = "none", r.selected # {}, r.lock # <<>>
    PROVE  r.lock = LockHash(r.manifests, r.selected)
BY DEF PackReason

\* Whatever is asked, with whatever else at the same time: what the gates block
\* stays blocked, with a reason, and the mode keeps the rules of the profiles.
THEOREM BlockedStaysBlocked == ESpec => []BlocksAreKept
<1>1. EngineInv => BlocksAreKept
  <2> SUFFICES ASSUME EngineInv PROVE BlocksAreKept
    OBVIOUS
  <2> DEFINE resolved == ResolveMode(request.env, request.mode)
             gate == GateReason(request, resolved.mode, resolved)
  <2>1. /\ outcome.status = StatusOf(request, gate, items, now)
        /\ outcome.reason = ReasonOf(request, gate, items, now)
    BY DEF EngineInv, EngineOutcome
  <2>2. ASSUME outcome.status # "blocked"
        PROVE  /\ resolved.state # "blocked" /\ RequiredCapabilities(resolved.mode) \subseteq request.caps
               /\ request.commit /\ request.root =>
                    request.live # "none" /\ request.known \in {request.live, "none"}
               /\ request.lock # <<>> /\ request.selected # {} =>
                    request.lock = LockHash(request.manifests, request.selected)
               /\ request.matchHashes =>
                    /\ request.ruleset \in {<<>>, RulesetHash(request)}
                    /\ request.activation \in {<<>>, ActivationHash(request, resolved.mode)}
    <3>1. gate = "none"
      <4> HIDE DEF gate
      <4> QED
        BY <2>1, <2>2 DEF StatusOf
    <3>2. /\ EarlyReason(request, resolved.mode, resolved) = "none"
          /\ \A k \in 1..11 : LateReasons(request, resolved.mode)[k] = "none"
      BY <3>1, GatesLetThrough
    <3>3. resolved.state = "blocked" => resolved.error # "none"
      BY BlockedSaysWhy
    <3> HIDE DEF resolved
    <3>4. /\ PackReason(request) = "none"
          /\ request.root => IsGitRoot(request)
          /\ request.matchHashes =>
                /\ request.ruleset \in {<<>>, RulesetHash(request)}
                /\ request.activation \in {<<>>, ActivationHash(request, resolved.mode)}
      BY <3>2, LateLetsThrough
    <3> QED
      BY <3>2, <3>3, <3>4, EarlyLetsThrough, PacksLetThrough
  <2>3. ASSUME outcome.status = "blocked" PROVE outcome.reason # "none"
    <3> HIDE DEF gate
    <3> QED
      BY <2>1, <2>3 DEF StatusOf, ReasonOf
  <2> QED
    BY <2>2, <2>3, ModeRulesAlwaysKept, Zenon DEF BlocksAreKept
<1> QED
  BY <1>1, EngineInvariant, PTL

-----------------------------------------------------------------------------
(* What only takes away opens nothing.                                       *)

\* An item that does not count any more does not count later either.
LEMMA StaysStale ==
    ASSUME NEW item \in EvidenceItem, NEW t \in Nat, NEW u \in Nat, t <= u, Stale(item, t)
    PROVE  Stale(item, u)
<1>1. item.ttl \in Nat /\ item.seen \in {Unset} \cup Nat
  BY DEF EvidenceItem
<1>2. CASE item.seen = Unset
  BY <1>2 DEF Stale
<1>3. CASE item.seen # Unset
  <2>1. item.seen \in Nat /\ t > item.seen + (IF item.ttl = 0 THEN 1 ELSE item.ttl)
    BY <1>1, <1>3 DEF Stale
  <2> QED
    BY <1>1, <2>1 DEF Stale
<1> QED
  BY <1>2, <1>3

\* With time claims are lost, never proved, and a criterion that blocks goes on
\* to block.
LEMMA TimeProvesNothing ==
    ASSUME NEW seen \in Seq(EvidenceItem), NEW listed, NEW t \in Nat, NEW u \in Nat, t <= u
    PROVE  /\ ObservedClaims(seen, u) \subseteq ObservedClaims(seen, t)
           /\ StaleClaims(seen, listed, t) \subseteq StaleClaims(seen, listed, u)
<1>1. \A item \in ItemsOf(seen) : Stale(item, t) => Stale(item, u)
  BY StaysStale DEF ItemsOf
<1>2. ObservedClaims(seen, u) \subseteq ObservedClaims(seen, t)
  BY <1>1 DEF ObservedClaims
<1> QED
  BY <1>1, <1>2 DEF StaleClaims

LEMMA GreatestExists ==
    ASSUME NEW n \in Nat, NEW S \in SUBSET (1..n), S # {}
    PROVE  \E i \in S : \A j \in S : j <= i
<1> DEFINE T == {n - i : i \in S}
<1>1. T \in SUBSET Nat /\ T # {}
  <2>1. \A i \in S : n - i \in Nat
    OBVIOUS
  <2>2. \E i \in S : n - i \in T
    OBVIOUS
  <2> QED
    BY <2>1, <2>2
<1>2. PICK m \in T : \A k \in T : m <= k
  <2> HIDE DEF T
  <2> QED
    BY <1>1, LeastExists
<1>3. PICK i \in S : m = n - i
  BY <1>2
<1>4. \A j \in S : n - i <= n - j
  BY <1>2, <1>3
<1> QED
  BY <1>4

\* The item a criterion is held against is one of the list, if there is one.
LEMMA EvidenceIsListed ==
    ASSUME NEW seen \in Seq(EvidenceItem), NEW kind
    PROVE  EvidenceFor(kind, seen) \in {Unset} \cup EvidenceItem
<1> DEFINE found == {i \in DOMAIN seen : seen[i].kind = kind}
<1>1. CASE found = {}
  BY <1>1 DEF EvidenceFor
<1>2. CASE found # {}
  <2>1. Len(seen) \in Nat /\ found \in SUBSET (1..Len(seen))
    OBVIOUS
  <2>2. \E i \in found : \A j \in found : j <= i
    <3> HIDE DEF found
    <3> QED
      BY <1>2, <2>1, GreatestExists
  <2>3. PICK i \in found : EvidenceFor(kind, seen) = seen[i]
    BY <1>2, <2>2 DEF EvidenceFor
  <2> QED
    BY <2>3
<1> QED
  BY <1>1, <1>2

LEMMA TimeOpensNoExit ==
    ASSUME NEW contract, NEW otherPhases, NEW seen \in Seq(EvidenceItem), NEW tier,
           NEW t \in Nat, NEW u \in Nat, t <= u, NEW strict,
           StrictExitBlocks(contract, otherPhases, seen, tier, t, strict)
    PROVE  StrictExitBlocks(contract, otherPhases, seen, tier, u, strict)
<1>1. ASSUME NEW c, Verdict(c, seen, tier, t, strict) = "blocked"
      PROVE  Verdict(c, seen, tier, u, strict) = "blocked"
  <2> DEFINE item == EvidenceFor(c.kind, seen)
  <2>1. item # Unset /\ Stale(item, t) => Stale(item, u)
    BY EvidenceIsListed, StaysStale
  <2> HIDE DEF item
  <2>2. strict /\ c.critical /\ (item = Unset \/ Stale(item, t) \/ ~Meets(c, item, tier))
    BY <1>1 DEF Verdict, item
  <2> QED
    BY <2>1, <2>2 DEF Verdict, item
<1> QED
  BY <1>1 DEF StrictExitBlocks

\* Of the late gates the one before the last speaks for itself when it alone
\* holds a request back.
LEMMA OnlyTheHash ==
    ASSUME NEW r, NEW mode, HashReason(r, mode) # "none",
           \A k \in (1..11) \ {10} : LateReasons(r, mode)[k] = "none"
    PROVE  FirstReason(LateReasons(r, mode)) = HashReason(r, mode)
<1> DEFINE reasons == LateReasons(r, mode)
           blocking == {i \in DOMAIN reasons : reasons[i] # "none"}
<1>1. reasons[10] = HashReason(r, mode)
  BY DEF LateReasons
<1>2. DOMAIN reasons = 1..11
  BY GatesAreListed
<1>3. blocking = {10}
  <2> HIDE DEF reasons
  <2>1. 10 \in blocking
    BY <1>1, <1>2
  <2>2. \A i \in blocking : i = 10
    BY <1>2 DEF reasons
  <2> QED
    BY <2>1, <2>2
<1>4. Min(blocking) = 10
  BY <1>3 DEF Min
<1> HIDE DEF reasons
<1> QED
  BY <1>1, <1>3, <1>4, Zenon DEF FirstReason, reasons

\* The capabilities a host has lost take a gate away, and open none but that of
\* the activation, to the host whose activation it is.
LEMMA LostCapabilityOpensNoGate ==
    ASSUME NEW r, RequestFields \subseteq DOMAIN r, NEW lost, NEW mode, NEW resolved,
           GateReason([r EXCEPT !.caps = @ \ lost], mode, resolved) = "none"
    PROVE  \/ GateReason(r, mode, resolved) = "none"
           \/ /\ GateReason(r, mode, resolved) = "BLOCKED-ACTIVATION-HASH-MISMATCH"
              /\ r.activation = ActivationHash([r EXCEPT !.caps = @ \ lost], mode)
<1> DEFINE q == [r EXCEPT !.caps = r.caps \ lost]
<1>1. /\ q.caps = r.caps \ lost
      /\ q.commit = r.commit /\ q.root = r.root /\ q.live = r.live /\ q.known = r.known
      /\ q.ready = r.ready /\ q.interactive = r.interactive /\ q.prompts = r.prompts
      /\ q.docPrompts = r.docPrompts
  BY DEF RequestFields
<1>2. /\ q.doc = r.doc /\ q.widening = r.widening /\ q.widenApproved = r.widenApproved
      /\ q.writes = r.writes /\ q.target = r.target /\ q.phase = r.phase /\ q.rules = r.rules
      /\ q.approved = r.approved /\ q.words = r.words
      /\ q.code = r.code /\ q.asked = r.asked
  BY DEF RequestFields
<1>3. /\ q.manifests = r.manifests /\ q.selected = r.selected /\ q.lock = r.lock
      /\ q.requireLock = r.requireLock /\ q.dirty = r.dirty
      /\ q.matchHashes = r.matchHashes /\ q.ruleset = r.ruleset /\ q.activation = r.activation
  BY DEF RequestFields
<1>4. GateReason(q, mode, resolved) = "none"
  OBVIOUS
<1>5. q = [r EXCEPT !.caps = @ \ lost]
  OBVIOUS
<1> HIDE DEF q
<1>6. /\ PromptReason(q, mode) = "none" /\ EarlyReason(q, mode, resolved) = "none"
      /\ \A k \in 1..11 : LateReasons(q, mode)[k] = "none"
  BY <1>4, GatesLetThrough
<1>7. PromptReason(r, mode) = "none"
  BY <1>1, <1>6 DEF PromptReason
\* What still finds its repository has the capabilities to find it.
<1>8. IsGitRoot(r) = IsGitRoot(q)
  <2>1. r.root => IsGitRoot(q)
    BY <1>1, <1>6, LateLetsThrough
  <2> QED
    BY <1>1, <2>1 DEF IsGitRoot
<1>9. EarlyReason(r, mode, resolved) = "none"
  BY <1>1, <1>6, <1>8 DEF EarlyReason
<1>10. /\ PersistenceError(r, mode) = PersistenceError(q, mode)
       /\ PackReason(r) = PackReason(q) /\ RulesetHash(r) = RulesetHash(q)
       /\ SurfaceReason(q, mode) = "none" => SurfaceReason(r, mode) = "none"
  <2>1. PersistenceError(r, mode) = PersistenceError(q, mode)
    BY <1>2 DEF PersistenceError
  <2>2. PackReason(r) = PackReason(q) /\ RulesetHash(r) = RulesetHash(q)
    BY <1>3 DEF PackReason, RulesetHash
  <2>3. SurfaceReason(q, mode) = "none" => SurfaceReason(r, mode) = "none"
    BY <1>1, <1>2, <1>8 DEF SurfaceReason
  <2> QED
    BY <2>1, <2>2, <2>3
<1>11. \A k \in (1..11) \ {10} : LateReasons(q, mode)[k] = "none" => LateReasons(r, mode)[k] = "none"
  BY <1>1, <1>2, <1>3, <1>10 DEF LateReasons
<1>12. LateReasons(r, mode)[10] = HashReason(r, mode)
  BY DEF LateReasons
<1>13. CASE HashReason(r, mode) = "none"
  <2>1. \A k \in 1..11 : LateReasons(r, mode)[k] = "none"
    BY <1>6, <1>11, <1>12, <1>13
  <2>2. FirstReason(LateReasons(r, mode)) = "none"
    BY <2>1, FirstReasonIsNone, GatesAreListed
  <2> QED
    BY <1>7, <1>9, <2>2 DEF GateReason
<1>14. CASE HashReason(r, mode) # "none"
  <2>1. GateReason(r, mode, resolved) = HashReason(r, mode)
    <3>1. FirstReason(LateReasons(r, mode)) = HashReason(r, mode)
      BY <1>6, <1>11, <1>14, OnlyTheHash
    <3> QED
      BY <1>7, <1>9, <3>1 DEF GateReason
  <2>2. r.matchHashes => /\ r.ruleset \in {<<>>, RulesetHash(r)}
                         /\ r.activation \in {<<>>, ActivationHash(q, mode)}
    BY <1>3, <1>6, <1>10, LateLetsThrough
  <2>3. /\ HashReason(r, mode) = "BLOCKED-ACTIVATION-HASH-MISMATCH"
        /\ r.activation = ActivationHash(q, mode)
    BY <1>14, <2>2 DEF HashReason
  <2> QED
    BY <1>5, <2>1, <2>3
<1> QED
  BY <1>13, <1>14

\* The status gets no better when no gate opens, the claims that are proved
\* become fewer and the stale ones more.
LEMMA StatusGetsNoBetter ==
    ASSUME NEW r, NEW q, NEW gate, NEW next, NEW seen, NEW t, NEW u,
           next = "none" => gate = "none",
           /\ q.live_engine = r.live_engine /\ q.selfcheck = r.selfcheck /\ q.degrade = r.degrade
           /\ q.supported = r.supported /\ q.claims = r.claims /\ q.told = r.told /\ q.listed = r.listed,
           ObservedClaims(seen, u) \subseteq ObservedClaims(seen, t),
           StaleClaims(seen, r.listed, t) \subseteq StaleClaims(seen, r.listed, u)
    PROVE  StatusRank(StatusOf(q, next, seen, u)) >= StatusRank(StatusOf(r, gate, seen, t))
<1>1. RuntimeReason(q) = RuntimeReason(r)
  BY DEF RuntimeReason
<1>2. MissingClaims(r, seen, t) # {} => MissingClaims(q, seen, u) # {}
  BY DEF MissingClaims
<1>3. StaleRequired(r, seen, t) # {} => StaleRequired(q, seen, u) # {}
  BY DEF StaleRequired
<1>4. q.supported = r.supported
  OBVIOUS
<1> QED
  BY <1>1, <1>2, <1>3, <1>4 DEF StatusOf, StatusRank

\* A capability withdrawn, or time that goes by, never makes the answer of the
\* engine better, but for a host that becomes again the one whose activation it
\* has to match, and never opens the exit of a phase.
THEOREM NothingOpensByLoss == ESpec => LossOpensNothing
<1>1. EngineInv /\ [ENext]_evars =>
        [Loses => /\ StatusRank(outcome'.status) >= StatusRank(outcome.status) \/ HostIsBack
                  /\ outcome.exit => outcome'.exit]_evars
  <2> SUFFICES ASSUME EngineInv, EngineInv', Loses
               PROVE  /\ StatusRank(outcome'.status) >= StatusRank(outcome.status) \/ HostIsBack
                      /\ outcome.exit => outcome'.exit
    BY EngineStep
  <2> DEFINE found == ResolveMode(request.env, request.mode)
             gate == GateReason(request, found.mode, found)
  <2>1. /\ outcome.status = StatusOf(request, gate, items, now) /\ outcome.gate = gate
        /\ outcome.exit = StrictExitBlocks(request.contract, request.otherPhases, items, request.tier,
                                           now, request.strict)
    BY DEF EngineInv, EngineOutcome
  <2> DEFINE foundNext == ResolveMode(request'.env, request'.mode)
             gateNext == GateReason(request', foundNext.mode, foundNext)
  <2>2. /\ outcome'.status = StatusOf(request', gateNext, items', now')
        /\ outcome'.mode = foundNext.mode
        /\ outcome'.exit = StrictExitBlocks(request'.contract, request'.otherPhases, items', request'.tier,
                                            now', request'.strict)
    BY DEF EngineInv, EngineOutcome
  <2>3. items \in Seq(EvidenceItem) /\ now \in Nat /\ now' \in Nat
    BY DEF EngineInv
  <2>4. CASE request' = request /\ items' = items /\ now' > now
    <3>1. gateNext = gate
      BY <2>4
    <3> HIDE DEF gate, gateNext
    <3>2. StatusRank(outcome'.status) >= StatusRank(outcome.status)
      BY <2>1, <2>2, <2>3, <2>4, <3>1, TimeProvesNothing, StatusGetsNoBetter
    <3> QED
      BY <2>1, <2>2, <2>3, <2>4, <3>2, TimeOpensNoExit
  <2>5. ASSUME NEW lost \in SUBSET Capabilities, items' = items, now' = now,
               request' = [request EXCEPT !.caps = @ \ lost]
        PROVE  /\ StatusRank(outcome'.status) >= StatusRank(outcome.status) \/ HostIsBack
               /\ outcome.exit => outcome'.exit
    <3>1. /\ request'.env = request.env /\ request'.mode = request.mode
          /\ request'.contract = request.contract /\ request'.otherPhases = request.otherPhases
          /\ request'.tier = request.tier /\ request'.strict = request.strict
      BY <2>5 DEF EngineInv, RequestOK, RequestFields
    <3>2. /\ request'.live_engine = request.live_engine /\ request'.selfcheck = request.selfcheck
          /\ request'.degrade = request.degrade /\ request'.supported = request.supported
          /\ request'.claims = request.claims /\ request'.told = request.told
          /\ request'.listed = request.listed
      BY <2>5 DEF EngineInv, RequestOK, RequestFields
    <3>3. gateNext = GateReason([request EXCEPT !.caps = @ \ lost], found.mode, found)
      BY <2>5, <3>1
    <3>4. gateNext # "none" \/ gate = "none" \/ HostIsBack
      <4>1. request'.activation = request.activation
        BY <2>5 DEF EngineInv, RequestOK, RequestFields
      <4>2. foundNext.mode = found.mode
        BY <3>1
      <4>3. ASSUME gateNext = "none"
            PROVE  \/ gate = "none"
                   \/ /\ gate = "BLOCKED-ACTIVATION-HASH-MISMATCH"
                      /\ request.activation = ActivationHash(request', found.mode)
        <5> HIDE DEF found, foundNext
        <5>1. RequestFields \subseteq DOMAIN request
          BY DEF EngineInv, RequestOK
        <5> QED
          BY <2>5, <3>3, <4>3, <5>1, LostCapabilityOpensNoGate
      <4> HIDE DEF gate, gateNext, found, foundNext
      <4> QED
        BY <2>1, <2>2, <4>1, <4>2, <4>3 DEF HostIsBack
    <3> HIDE DEF gate, gateNext, found, foundNext
    <3>5. ASSUME ~HostIsBack
          PROVE  StatusRank(outcome'.status) >= StatusRank(outcome.status)
      <4>1. gateNext = "none" => gate = "none"
        BY <3>4, <3>5
      <4>2. StatusRank(StatusOf(request', gateNext, items, now)) >= StatusRank(StatusOf(request, gate, items, now))
        BY <3>2, <4>1, StatusGetsNoBetter
      <4> QED
        BY <2>1, <2>2, <2>5, <4>2
    <3> QED
      BY <2>1, <2>2, <2>5, <3>1, <3>5
  <2> QED
    BY <2>4, <2>5 DEF Loses
<1> QED
  BY EngineInvariant, <1>1, PTL DEF ESpec, LossOpensNothing

-----------------------------------------------------------------------------
(* The strict exit.                                                          *)

LEMMA FirstIsOfItsKey ==
    ASSUME NEW contract \in Contract, NEW i \in DOMAIN contract
    PROVE  /\ FirstOf(contract, contract[i].key) \in ExitCriterion
           /\ i \in SameKey(contract, contract[i].key)
<1> DEFINE same == SameKey(contract, contract[i].key)
<1>1. same \in SUBSET Nat /\ same \subseteq DOMAIN contract /\ i \in same
  BY DEF SameKey, Contract
<1>2. \E j \in same : \A k \in same : j <= k
  <2> HIDE DEF same
  <2> QED
    BY <1>1, LeastExists
<1>3. PICK j \in same : FirstOf(contract, contract[i].key) = contract[j]
  BY <1>2 DEF FirstOf
<1>4. contract[j] \in ExitCriterion
  <2> HIDE DEF same
  <2> QED
    BY <1>1, <1>3 DEF Contract
<1> QED
  BY <1>1, <1>3, <1>4

\* Under the strict policy nobody leaves a phase by listing a criterion twice, or
\* with evidence that is stale, missing or below the threshold.
THEOREM StrictExitAlwaysBacked == ESpec => []StrictExitIsBacked
<1>1. EngineInv => StrictExitIsBacked
  <2> SUFFICES ASSUME EngineInv, request.strict, ~outcome.exit,
                      NEW i \in DOMAIN request.contract, request.contract[i].critical
               PROVE  LET c == request.contract[i]
                          item == EvidenceFor(c.kind, items)
                      IN item # Unset /\ ~Stale(item, now) /\ Meets(c, item, request.tier)
    BY DEF StrictExitIsBacked
  <2> DEFINE contract == request.contract
             c == contract[i]
             first == FirstOf(contract, c.key)
             merged == [first EXCEPT !.critical =
                           \E j \in SameKey(contract, c.key) :
                               Compatible(contract[j], first) /\ contract[j].critical]
             item == EvidenceFor(c.kind, items)
  <2>1. /\ contract \in Contract /\ request.otherPhases \in Nat
        /\ ~StrictExitBlocks(contract, request.otherPhases, items, request.tier, now, request.strict)
    BY DEF EngineInv, RequestOK, EngineOutcome
  <2>2. Len(contract) + request.otherPhases > 0 /\ contract # <<>>
    BY <2>1 DEF Contract
  <2>3. /\ Conflicts(contract) = {}
        /\ \A m \in Merged(contract) : Verdict(m, items, request.tier, now, request.strict) # "blocked"
    <3> HIDE DEF contract
    <3> QED
      BY <2>1, <2>2 DEF StrictExitBlocks
  <2>4. /\ first \in ExitCriterion
        /\ i \in SameKey(contract, c.key)
    <3>1. i \in DOMAIN contract
      OBVIOUS
    <3> HIDE DEF contract
    <3> QED
      BY <3>1, <2>1, FirstIsOfItsKey
  <2>5. Compatible(c, first)
    <3>1. c.key \in {contract[j].key : j \in DOMAIN contract}
      OBVIOUS
    <3> HIDE DEF contract
    <3> QED
      BY <3>1, <2>3, <2>4 DEF Conflicts
  <2>6. merged \in Merged(contract)
    BY DEF Merged
  <2>7. merged.kind = c.kind /\ merged.resolver = c.resolver /\ merged.critical
    <3>1. \E j \in SameKey(contract, c.key) : Compatible(contract[j], first) /\ contract[j].critical
      BY <2>4, <2>5
    <3> HIDE DEF contract, first
    <3> QED
      BY <3>1, <2>4, <2>5 DEF Compatible, ExitCriterion
  <2> HIDE DEF contract, first, merged
  <2>8. Verdict(merged, items, request.tier, now, request.strict) # "blocked"
    BY <2>3, <2>6
  <2>9. item # Unset /\ ~Stale(item, now) /\ Meets(merged, item, request.tier)
    BY <2>7, <2>8 DEF Verdict
  <2> QED
    BY <2>7, <2>9 DEF Meets, contract
<1> QED
  BY <1>1, EngineInvariant, PTL

-----------------------------------------------------------------------------
(* The archive under governance: its export and its restore.                 *)

\* The files are copied in their order, each time the first that is missing.
LEMMA ArchiveFilesAreOrdered ==
    /\ DOMAIN ExportOrder = 1..12
    /\ ArchiveFiles = {ExportOrder[i] : i \in 1..12}
    /\ \A i, j \in 1..12 : ExportOrder[i] = ExportOrder[j] => i = j
    /\ ExportOrder[12] \in RequiredFiles
<1>1. DOMAIN ExportOrder = 1..12
  BY DEF ExportOrder
<1>2. ArchiveFiles = {ExportOrder[i] : i \in 1..12}
  BY DEF ExportOrder, ArchiveFiles, RequiredFiles, OptionalFiles
<1>3. \A i, j \in 1..12 : ExportOrder[i] = ExportOrder[j] => i = j
  BY DEF ExportOrder
<1>4. ExportOrder[12] \in RequiredFiles
  BY DEF ExportOrder, RequiredFiles
<1> QED
  BY <1>1, <1>2, <1>3, <1>4

LEMMA NextFileIsFirst ==
    ASSUME NEW left \in SUBSET ArchiveFiles, left # {}
    PROVE  \E i \in 1..12 : /\ NextFile(left) = ExportOrder[i] /\ ExportOrder[i] \in left
                            /\ \A j \in 1..12 : j < i => ExportOrder[j] \notin left
<1> DEFINE at == {i \in 1..12 : ExportOrder[i] \in left}
<1>1. at \in SUBSET Nat /\ at # {}
  BY ArchiveFilesAreOrdered
<1>2. PICK i \in at : \A j \in at : i <= j
  <2> HIDE DEF at
  <2> QED
    BY <1>1, LeastExists
<1>3. i \in 1..12 /\ ExportOrder[i] \in left /\ \A j \in 1..(i - 1) : ExportOrder[j] \notin left
  BY <1>2
<1>4. \E k \in DOMAIN ExportOrder : /\ ExportOrder[k] \in left
                                    /\ \A j \in 1..(k - 1) : ExportOrder[j] \notin left
  BY <1>3, ArchiveFilesAreOrdered
<1>5. PICK k \in DOMAIN ExportOrder : /\ NextFile(left) = ExportOrder[k] /\ ExportOrder[k] \in left
                                      /\ \A j \in 1..(k - 1) : ExportOrder[j] \notin left
  BY <1>4 DEF NextFile
<1>6. k \in 1..12 /\ \A j \in 1..12 : j < k => j \in 1..(k - 1)
  BY <1>5, ArchiveFilesAreOrdered
<1> QED
  BY <1>5, <1>6

\* What an export has been let do, and has done so far.
Exported ==
    /\ archive.status = "finalized" /\ RequiredFiles \subseteq archive.files
    /\ bundle \in [files : SUBSET (archive.files \cap ArchiveFiles), manifest : BOOLEAN,
                   request : Exports, regulated : BOOLEAN]
    /\ bundle.request.role \in {"operator", "compliance_officer", "admin", "system"}
    /\ bundle.regulated => bundle.request.approver = "approver"
    /\ bundle.manifest => bundle.files = archive.files \cap ArchiveFiles

ExportInv ==
    /\ bundle # Absent \/ copying # Absent => Exported
    /\ copying # Absent => ~bundle.manifest

\* A restore copies from a bundle that is complete and stays, and in order.
RestoreInv ==
    target # Absent =>
        /\ bundle # Absent /\ bundle.manifest
        /\ target \in [files : SUBSET bundle.files, running : BOOLEAN]
        /\ \A i, j \in 1..12 :
              i < j /\ ExportOrder[j] \in target.files /\ ExportOrder[i] \in bundle.files
                => ExportOrder[i] \in target.files

GInv == ExportInv /\ RestoreInv

LEMMA ArchiveBegins == GInit => GInv
BY DEF GInit, GInv, ExportInv, RestoreInv

\* The pipeline lets an export begin only of an archive that is closed and
\* complete, by one who may, and under the regulated mode with an approver.
LEMMA OnlyMay ==
    ASSUME NEW role, NEW action, NEW regulated, NEW approver
    PROVE  /\ Permitted(role, "export_archive", regulated)
                => role \in {"operator", "compliance_officer", "admin", "system"}
           /\ Permitted(approver, "approve_human_gate", regulated) => approver = "approver"
<1>1. Permitted(role, "export_archive", regulated)
        => role \in {"operator", "compliance_officer", "admin", "system"}
  BY DEF Permitted, Permissions, Reading
<1>2. Permitted(approver, "approve_human_gate", regulated) => approver = "approver"
  BY DEF Permitted, Permissions, Reading, Actions
<1> QED
  BY <1>1, <1>2

LEMMA PassedMeansGoverned ==
    ASSUME NEW mode, NEW role, NEW approver,
           Pipeline(mode, role, "export_archive", approver).passed
    PROVE  /\ archive.status = "finalized" /\ RequiredFiles \subseteq archive.files
           /\ role \in {"operator", "compliance_officer", "admin", "system"}
           /\ ModeActive(mode.state) => approver = "approver"
<1>1. ArchiveErrors = {} /\ Allowed(role, "export_archive", ModeActive(mode.state), approver)
  BY DEF Pipeline
<1>2. RequiredFiles \subseteq archive.files
  BY <1>1 DEF ArchiveErrors
<1>3. archive.status = "finalized"
  BY <1>1, <1>2 DEF ArchiveErrors, RequiredFiles
<1> QED
  BY <1>1, <1>2, <1>3, OnlyMay DEF Allowed, FourEyes, HumanApprovalRequired

LEMMA BeginExportKeeps ==
    ASSUME GInv, NEW asked \in Exports, BeginExport(asked)
    PROVE  GInv'
<1>1. /\ bundle' = [files |-> {}, manifest |-> FALSE, request |-> asked,
                    regulated |-> ModeActive(ModeOf(asked).state)]
      /\ copying' = asked /\ archive' = archive /\ target' = target /\ bundle = Absent
  BY DEF BeginExport
<1>2. /\ archive.status = "finalized" /\ RequiredFiles \subseteq archive.files
      /\ asked.role \in {"operator", "compliance_officer", "admin", "system"}
      /\ ModeActive(ModeOf(asked).state) => asked.approver = "approver"
  BY PassedMeansGoverned DEF BeginExport
<1>3. ModeActive(ModeOf(asked).state) \in BOOLEAN
  BY DEF ModeActive
<1>4. Exported' /\ ~bundle'.manifest
  BY <1>1, <1>2, <1>3 DEF Exported
<1>5. target' = Absent
  BY <1>1 DEF GInv, RestoreInv
<1> QED
  BY <1>4, <1>5 DEF GInv, ExportInv, RestoreInv

\* A file that is copied, or the manifest, of an archive that stays as it is.
LEMMA CopyKeeps == GInv /\ (CopyFile \/ FinishExport) => GInv'
<1> SUFFICES ASSUME GInv, CopyFile \/ FinishExport PROVE GInv'
  OBVIOUS
<1>1. Exported /\ copying # Absent /\ ~bundle.manifest /\ archive' = archive /\ target' = target
  BY DEF CopyFile, FinishExport, GInv, ExportInv
<1>2. target' = Absent
  BY <1>1 DEF GInv, RestoreInv
<1> DEFINE left == Left(archive.files, bundle.files)
<1>3. left \in SUBSET ArchiveFiles /\ left \subseteq archive.files
  BY DEF Left
<1>4. CASE CopyFile
  <2>1. left # {} /\ bundle' = [bundle EXCEPT !.files = bundle.files \cup {NextFile(left)}]
                  /\ copying' = copying
    BY <1>4 DEF CopyFile
  <2>2. NextFile(left) \in left
    <3> HIDE DEF left
    <3> QED
      BY <1>3, <2>1, NextFileIsFirst
  <2>3. NextFile(left) \in archive.files \cap ArchiveFiles
    BY <1>3, <2>2
  <2> HIDE DEF left
  <2>4. Exported' /\ ~bundle'.manifest
    BY <1>1, <2>1, <2>3 DEF Exported
  <2> QED
    BY <1>2, <2>4 DEF GInv, ExportInv, RestoreInv
<1>5. CASE FinishExport
  <2>1. bundle' = [bundle EXCEPT !.manifest = TRUE] /\ copying' = Absent
    BY <1>5 DEF FinishExport
  <2>2. bundle.files = archive.files \cap ArchiveFiles
    BY <1>1, <1>5 DEF FinishExport, Left, Exported
  <2>3. Exported'
    BY <1>1, <2>1, <2>2 DEF Exported
  <2> QED
    BY <1>2, <2>1, <2>3 DEF GInv, ExportInv, RestoreInv
<1> QED
  BY <1>4, <1>5

LEMMA ExportFailsKeeps == GInv /\ ExportFails => GInv'
<1> SUFFICES ASSUME GInv, ExportFails PROVE GInv'
  OBVIOUS
<1>1. /\ copying # Absent /\ copying' = Absent /\ bundle' \in {Absent, bundle}
      /\ archive' = archive /\ target' = target
  BY DEF ExportFails
<1>2. target' = Absent /\ Exported
  BY <1>1 DEF GInv, ExportInv, RestoreInv
<1> QED
  BY <1>1, <1>2 DEF GInv, ExportInv, RestoreInv, Exported

LEMMA RestoreKeeps == GInv /\ (BeginRestore \/ RestoreFile \/ RestoreFails) => GInv'
<1> SUFFICES ASSUME GInv, BeginRestore \/ RestoreFile \/ RestoreFails PROVE GInv'
  OBVIOUS
<1>1. archive' = archive /\ bundle' = bundle /\ copying' = copying /\ ExportInv'
  BY DEF BeginRestore, RestoreFile, RestoreFails, GInv, ExportInv, Exported
<1>2. CASE BeginRestore
  <2>1. bundle # Absent /\ bundle.manifest /\ target' = [files |-> {}, running |-> TRUE]
    BY <1>2 DEF BeginRestore, BundleValid
  <2> QED
    BY <1>1, <2>1 DEF GInv, RestoreInv
<1>3. CASE RestoreFile
  <2> DEFINE left == Left(bundle.files, target.files)
  <2>1. /\ bundle # Absent /\ bundle.manifest /\ bundle.files \subseteq ArchiveFiles
        /\ target \in [files : SUBSET bundle.files, running : BOOLEAN]
        /\ \A i, j \in 1..12 :
              i < j /\ ExportOrder[j] \in target.files /\ ExportOrder[i] \in bundle.files
                => ExportOrder[i] \in target.files
    BY <1>3 DEF RestoreFile, GInv, ExportInv, RestoreInv, Exported
  <2>2. left \in SUBSET ArchiveFiles /\ left \subseteq bundle.files
        /\ \A n \in bundle.files : n \notin left => n \in target.files
    BY <2>1 DEF Left
  <2>3. \/ left # {} /\ target' = [target EXCEPT !.files = target.files \cup {NextFile(left)}]
        \/ target' = [target EXCEPT !.running = FALSE]
    BY <1>3 DEF RestoreFile
  <2> HIDE DEF left
  <2>4. CASE left # {} /\ target' = [target EXCEPT !.files = target.files \cup {NextFile(left)}]
    <3>1. PICK k \in 1..12 : /\ NextFile(left) = ExportOrder[k] /\ ExportOrder[k] \in left
                             /\ \A j \in 1..12 : j < k => ExportOrder[j] \notin left
      BY <2>2, <2>4, NextFileIsFirst
    <3>2. target' \in [files : SUBSET bundle.files, running : BOOLEAN]
          /\ target'.files = target.files \cup {ExportOrder[k]}
      BY <2>1, <2>2, <2>4, <3>1
    <3>3. ASSUME NEW i \in 1..12, NEW j \in 1..12,
                 i < j, ExportOrder[j] \in target'.files, ExportOrder[i] \in bundle.files
          PROVE  ExportOrder[i] \in target'.files
      <4>1. CASE ExportOrder[j] \in target.files
        BY <2>1, <3>2, <3>3, <4>1
      <4>2. CASE ExportOrder[j] = ExportOrder[k]
        BY <2>2, <3>1, <3>2, <3>3, <4>2, ArchiveFilesAreOrdered
      <4> QED
        BY <3>2, <3>3, <4>1, <4>2
    <3> QED
      BY <1>1, <2>1, <3>2, <3>3 DEF GInv, RestoreInv
  <2>5. CASE target' = [target EXCEPT !.running = FALSE]
    <3>1. target' \in [files : SUBSET bundle.files, running : BOOLEAN] /\ target'.files = target.files
      BY <2>1, <2>5
    <3> QED
      BY <1>1, <2>1, <3>1 DEF GInv, RestoreInv
  <2> QED
    BY <2>3, <2>4, <2>5
<1>4. CASE RestoreFails
  <2>1. target # Absent /\ target' \in {Absent, [target EXCEPT !.running = FALSE]}
    BY <1>4 DEF RestoreFails
  <2> QED
    BY <1>1, <2>1 DEF GInv, RestoreInv
<1> QED
  BY <1>2, <1>3, <1>4

LEMMA KeepingKeepsExport == GInv /\ (Judge \/ KeepingNext \/ UNCHANGED gvars) => GInv'
<1> SUFFICES ASSUME GInv, Judge \/ KeepingNext \/ UNCHANGED gvars PROVE GInv'
  OBVIOUS
<1>1. archive' = archive /\ bundle' = bundle /\ copying' = copying /\ target' = target
  BY DEF Judge, KeepingNext, WriteHold, ChangeRetention, Days, gvars
<1> QED
  BY <1>1 DEF GInv, ExportInv, RestoreInv, Exported

LEMMA ArchiveKeptGoverned == GSpec => []GInv
<1>1. GInv /\ [GNext]_gvars => GInv'
  BY BeginExportKeeps, CopyKeeps, ExportFailsKeeps, RestoreKeeps, KeepingKeepsExport DEF GNext, ExportNext
<1> QED
  BY ArchiveBegins, <1>1, PTL DEF GSpec

\* Wherever an export or a restore stops or fails, and however often it is begun
\* anew, what a reader accepts is the whole of a finalised archive.
THEOREM BundlesAlwaysWhole == GSpec => []BundlesAreWhole
<1>1. GInv => BundlesAreWhole
  <2> SUFFICES ASSUME GInv PROVE BundlesAreWhole
    OBVIOUS
  <2>1. BundleValid => archive.status = "finalized" /\ bundle.files = archive.files \cap ArchiveFiles
    BY DEF BundleValid, GInv, ExportInv, Exported
  <2>2. target # Absent => archive.status = "finalized" /\ bundle.files = archive.files \cap ArchiveFiles
    BY DEF GInv, ExportInv, RestoreInv, Exported
  <2>3. ASSUME target # Absent, RequiredFiles \subseteq target.files
        PROVE  target.files = bundle.files
    <3>1. /\ target.files \subseteq bundle.files
          /\ \A i, j \in 1..12 :
                i < j /\ ExportOrder[j] \in target.files /\ ExportOrder[i] \in bundle.files
                  => ExportOrder[i] \in target.files
      BY <2>3 DEF GInv, RestoreInv
    <3>2. ASSUME NEW i \in 1..12, ExportOrder[i] \in bundle.files PROVE ExportOrder[i] \in target.files
      BY <2>3, <3>1, <3>2, ArchiveFilesAreOrdered
    <3>3. \A n \in bundle.files : \E i \in 1..12 : n = ExportOrder[i]
      BY <2>2, <2>3, ArchiveFilesAreOrdered
    <3> QED
      BY <3>1, <3>2, <3>3
  <2> QED
    BY <2>1, <2>2, <2>3 DEF BundlesAreWhole
<1> QED
  BY <1>1, ArchiveKeptGoverned, PTL

\* No field the catalogue finds above internal leaves in clear at a lower level.
LEMMA CatalogueIsRedacted ==
    ASSUME NEW level, LevelRank(level) <= LevelRank("internal"),
           NEW field \in Catalogue, field.top, field.level \in {"confidential", "restricted"}
    PROVE  ~LeavesInClear(field, level)
<1>1. field.level = "confidential" /\ field.strategy \in {"hash", "mask"}
  BY DEF Catalogue
<1>2. LevelRank(field.level) = 2 /\ LevelRank("internal") = 1 /\ LevelRank(level) \in Nat
  BY <1>1 DEF LevelRank
<1> QED
  BY <1>1, <1>2 DEF LeavesInClear, Classified

\* Whoever asks, and whatever the mode becomes afterwards: a bundle stands on two
\* people where the workspace was regulated, and what is secret is redacted.
THEOREM BundlesAlwaysGoverned == GSpec => []BundlesAreGoverned
<1>1. GInv => BundlesAreGoverned
  BY CatalogueIsRedacted DEF GInv, ExportInv, Exported, BundlesAreGoverned
<1> QED
  BY <1>1, ArchiveKeptGoverned, PTL

-----------------------------------------------------------------------------
(* The archive under governance: its retention.                              *)

KeepingInv ==
    /\ age \in Ages \cup {Absent}
    /\ config # Absent =>
        /\ config \in [state : STRING, framework : STRING, floor : Int, changed : BOOLEAN]
        /\ config.changed /\ ModeActive(config.state) => config.floor >= FrameworkDays(config.framework)

LEMMA KeepingBegins == GInit => KeepingInv
BY AgesAssumption, ConfigsAssumption DEF GInit, KeepingInv

LEMMA YearAtLeast ==
    ASSUME NEW f
    PROVE  FrameworkDays(f) \in Nat /\ FrameworkDays(f) >= 365
BY DEF FrameworkDays

LEMMA KeepingStep == KeepingInv /\ [GNext]_gvars => KeepingInv'
<1> SUFFICES ASSUME KeepingInv, [GNext]_gvars PROVE KeepingInv'
  OBVIOUS
<1>1. ASSUME NEW days \in Ages, ChangeRetention(days) PROVE KeepingInv'
  <2>1. /\ config # Absent /\ config' = [config EXCEPT !.floor = days, !.changed = TRUE] /\ age' = age
        /\ RetentionChangeAllowed(DetectedMode.state, DetectedMode.framework, DetectedMode.floor,
                                  DetectedMode.floor, days)
    BY <1>1 DEF ChangeRetention
  <2>2. config \in [state : STRING, framework : STRING, floor : Int, changed : BOOLEAN]
    BY <2>1 DEF KeepingInv
  <2>3. days \in Int
    BY AgesAssumption
  <2>4. ModeActive(config.state) => days >= FrameworkDays(config.framework)
    <3>1. ModeActive(config.state) => DetectedMode = config
      BY <2>1 DEF DetectedMode, ModeActive, RegulatedStates
    <3> QED
      BY <2>1, <2>2, <2>3, <3>1, YearAtLeast DEF RetentionChangeAllowed, Larger
  <2>5. /\ config'.state = config.state /\ config'.framework = config.framework
        /\ config'.floor = days
        /\ config' \in [state : STRING, framework : STRING, floor : Int, changed : BOOLEAN]
    BY <2>1, <2>2, <2>3
  <2> QED
    BY <2>1, <2>4, <2>5 DEF KeepingInv
<1>2. ASSUME NEW next \in Ages, Days(next) PROVE KeepingInv'
  BY <1>2 DEF Days, KeepingInv
<1>3. CASE ExportNext \/ (\E id \in HoldIds : WriteHold(id)) \/ UNCHANGED gvars
  <2>1. age' = age /\ config' = config
    BY <1>3 DEF ExportNext, Judge, BeginExport, CopyFile, FinishExport, ExportFails, BeginRestore,
                RestoreFile, RestoreFails, WriteHold, gvars
  <2> QED
    BY <2>1 DEF KeepingInv
<1> QED
  BY <1>1, <1>2, <1>3 DEF GNext, KeepingNext

LEMMA EffectiveAtLeastAYear ==
    ASSUME NEW level, NEW framework
    PROVE  EffectiveDays(level, framework) \in Nat /\ EffectiveDays(level, framework) >= 365
<1>1. PeriodDays(level) \in Nat /\ PeriodDays(level) >= 365
  BY DEF PeriodDays
<1> DEFINE other == IF framework = "" THEN 0 ELSE FrameworkOverride(framework)
<1>2. other \in Nat
  BY YearAtLeast DEF FrameworkOverride
<1>3. EffectiveDays(level, framework) = Larger(PeriodDays(level), other)
  BY Zenon DEF EffectiveDays
<1> HIDE DEF other
<1> QED
  BY <1>1, <1>2, <1>3 DEF Larger

LEMMA AllowedIsLate ==
    ASSUME KeepingInv, NEW level, NEW framework, PurgeAllowed(level, framework)
    PROVE  /\ age \in Ages /\ age >= 365
           /\ \A id \in HoldIds :
                 holds[id] # Absent /\ holds[id].status = "active" => ~holds[id].applies
           /\ config # Absent => (config.changed /\ ModeActive(config.state)
                   => age >= FrameworkDays(config.framework))
<1> DEFINE active == ModeActive(DetectedMode.state)
           floor == DetectedMode.floor
<1>1. age \in Ages /\ age \in Nat
  BY AgesAssumption DEF KeepingInv, PurgeAllowed
<1>2. DeletionDecision(level, age, framework, active, floor) = "allowed"
  BY DEF PurgeAllowed
<1>3. ASSUME config # Absent, config.changed, ModeActive(config.state)
      PROVE  active /\ floor = config.floor
  BY <1>3 DEF DetectedMode, ModeActive, RegulatedStates
<1> HIDE DEF active, floor
<1>4. ~OnHold /\ ~(active /\ floor > 0 /\ age < floor) /\ ~(age < EffectiveDays(level, framework))
  BY <1>2 DEF DeletionDecision
<1>5. ASSUME config # Absent, config.changed, ModeActive(config.state)
      PROVE  age >= FrameworkDays(config.framework)
  <2>1. config.floor \in Int /\ config.floor >= FrameworkDays(config.framework)
    BY <1>5 DEF KeepingInv
  <2>2. ~(config.floor > 0 /\ age < config.floor)
    BY <1>3, <1>4, <1>5
  <2> QED
    BY <1>1, <2>1, <2>2, YearAtLeast
<1>6. age >= 365
  BY <1>1, <1>4, EffectiveAtLeastAYear
<1> QED
  BY <1>1, <1>4, <1>5, <1>6 DEF OnHold

\* Whatever the guard is told, an archive outlives a year, a hold on it and, once
\* a regulated workspace had its retention validated, the days of its framework.
THEOREM NothingEverPurgedEarly == GSpec => []NothingPurgedEarly
<1>1. KeepingInv => NothingPurgedEarly
  BY AllowedIsLate, Zenon DEF NothingPurgedEarly
<1>2. GSpec => []KeepingInv
  BY KeepingBegins, KeepingStep, PTL DEF GSpec
<1> QED
  BY <1>1, <1>2, PTL

-----------------------------------------------------------------------------
(* Business rules: the inductive invariant.                                  *)

Steps == {"inventory", "compare", "sweep", "status", "session"}

\* The snapshot of a discovery, given whether the inventory was written.
Recorded(input, noted) == Snapshot(Discovered(input), Cardinality(Discovered(input).rules), noted)

\* A discovery under way at some step.
UnderWay(input, at, force, noted, fresh) ==
    [at |-> at, input |-> input, report |-> Discovered(input),
     force |-> force, written |-> noted, fresh |-> fresh]

\* What a discovery has done so far is still there.
DiscoveryFits ==
    discovery # NoDiscovery =>
        /\ told = "stale"
        /\ \E input \in Inputs, at \in Steps, force, noted, fresh \in BOOLEAN :
              /\ discovery = UnderWay(input, at, force, noted, fresh)
              /\ noted => at \in {"status", "session"} /\ inventory = Discovered(input).rules
              /\ fresh => at = "session" /\ statusFile = StatusText(Recorded(input, noted))

\* What P5.4 said is what it says of the status and of an inventory that is
\* there if the discovery wrote it.
ToldFits ==
    told # "stale" =>
        \E input \in Inputs, noted \in BOOLEAN :
            /\ told = P54(Recorded(input, noted))
            /\ statusFile = StatusText(Recorded(input, noted))
            /\ noted => inventory = Discovered(input).rules

RInv == inventory = warrant /\ DiscoveryFits /\ ToldFits

-----------------------------------------------------------------------------
(* Each step keeps the invariant.                                            *)

LEMMA InitFits == RulesInit => RInv
BY DEF RulesInit, RInv, DiscoveryFits, ToldFits

LEMMA DiscoverKeeps == RInv /\ Discover => RInv'
<1> SUFFICES ASSUME RInv, Discover PROVE RInv'
  OBVIOUS
<1>1. PICK input \in Inputs, force \in BOOLEAN, at \in Steps :
          discovery' = UnderWay(input, at, force, FALSE, FALSE)
  BY DEF Discover, UnderWay, Steps
<1>2. told' = "stale" /\ inventory' = inventory /\ warrant' = warrant
  BY DEF Discover
<1> QED
  BY <1>1, <1>2 DEF RInv, DiscoveryFits, ToldFits

LEMMA RailsKeep == RInv /\ (RulesNewWork \/ RulesLaunch \/ UNCHANGED rvars) => RInv'
BY DEF RInv, DiscoveryFits, ToldFits, RulesNewWork, RulesLaunch, rvars, Recorded

LEMMA EndKeeps == RInv /\ EndDiscovery => RInv'
BY DEF RInv, DiscoveryFits, ToldFits, EndDiscovery, Recorded

\* A step of the discovery that is neither the first nor the last.
LEMMA MiddleKeeps ==
    RInv /\ (WriteInventory \/ Compare \/ Sweep \/ WriteStatus) => RInv'
<1> SUFFICES ASSUME RInv, WriteInventory \/ Compare \/ Sweep \/ WriteStatus PROVE RInv'
  OBVIOUS
<1>0. discovery.at \in {"inventory", "compare", "sweep", "status"} /\ told' = told
  BY DEF WriteInventory, Compare, Sweep, WriteStatus
<1>1. discovery # NoDiscovery
  BY <1>0 DEF NoDiscovery
<1>2. told = "stale"
  BY <1>1 DEF RInv, DiscoveryFits
<1>3. PICK input \in Inputs, at \in Steps, force \in BOOLEAN, noted \in BOOLEAN, fresh \in BOOLEAN :
          /\ discovery = UnderWay(input, at, force, noted, fresh)
          /\ noted => at \in {"status", "session"} /\ inventory = Discovered(input).rules
          /\ fresh => at = "session" /\ statusFile = StatusText(Recorded(input, noted))
  BY <1>1 DEF RInv, DiscoveryFits
<1>4. /\ discovery.at = at /\ discovery.report = Discovered(input)
      /\ discovery.written = noted /\ discovery.fresh = fresh
      /\ discovery.input = input /\ discovery.force = force
  BY <1>3 DEF UnderWay
<1>5. ~fresh
  BY <1>0, <1>3, <1>4
<1>6. CASE WriteInventory
  <2>1. ~noted
    BY <1>3, <1>4, <1>6 DEF WriteInventory
  <2>2. inventory' = warrant'
    BY <1>4, <1>6 DEF WriteInventory, RInv
  <2>3. \E next \in Steps : discovery' = UnderWay(input, next, force, FALSE, FALSE)
    BY <1>4, <1>6 DEF WriteInventory, Goto, Steps, UnderWay
  <2> QED
    BY <1>0, <1>2, <1>5, <2>1, <2>2, <2>3 DEF RInv, DiscoveryFits, ToldFits
<1>7. CASE Compare
  <2>1. ~noted
    BY <1>3, <1>4, <1>7 DEF Compare
  <2>2. inventory' = warrant'
    BY <1>4, <1>7 DEF Compare, RInv
  <2>3. \/ discovery' = UnderWay(input, "status", force, FALSE, FALSE)
        \/ /\ discovery' = UnderWay(input, "status", force, TRUE, FALSE)
           /\ inventory' = Discovered(input).rules
    BY <1>4, <1>5, <1>7, <2>1 DEF Compare, Goto, UnderWay
  <2> QED
    BY <1>0, <1>2, <2>2, <2>3 DEF RInv, DiscoveryFits, ToldFits, Steps
<1>8. CASE Sweep
  <2>1. ~noted
    BY <1>3, <1>4, <1>8 DEF Sweep
  <2>2. inventory' = warrant' /\ discovery' = UnderWay(input, "status", force, FALSE, FALSE)
    BY <1>4, <1>5, <1>8, <2>1 DEF Sweep, Goto, UnderWay
  <2> QED
    BY <1>0, <1>2, <2>2 DEF RInv, DiscoveryFits, ToldFits, Steps
<1>9. CASE WriteStatus
  <2>1. inventory' = inventory /\ warrant' = warrant
    BY <1>9 DEF WriteStatus
  <2>2. \/ discovery' = UnderWay(input, "session", force, noted, FALSE)
        \/ /\ discovery' = UnderWay(input, "session", force, noted, TRUE)
           /\ statusFile' = StatusText(Recorded(input, noted))
    BY <1>4, <1>5, <1>9 DEF WriteStatus, Goto, FinalSnapshot, Recorded, UnderWay
  <2> QED
    BY <1>0, <1>2, <1>3, <2>1, <2>2 DEF RInv, DiscoveryFits, ToldFits, Steps
<1> QED
  BY <1>6, <1>7, <1>8, <1>9

LEMMA UpdateKeeps == RInv /\ UpdateSession => RInv'
<1> SUFFICES ASSUME RInv, UpdateSession PROVE RInv'
  OBVIOUS
<1>1. discovery # NoDiscovery
  BY DEF UpdateSession, NoDiscovery
<1>2. PICK input \in Inputs, at \in Steps, force \in BOOLEAN, noted \in BOOLEAN, fresh \in BOOLEAN :
          /\ discovery = UnderWay(input, at, force, noted, fresh)
          /\ noted => at \in {"status", "session"} /\ inventory = Discovered(input).rules
          /\ fresh => at = "session" /\ statusFile = StatusText(Recorded(input, noted))
  BY <1>1 DEF RInv, DiscoveryFits
<1>3. FinalSnapshot = Recorded(input, noted) /\ discovery.fresh = fresh
  BY <1>2 DEF FinalSnapshot, Recorded, UnderWay
<1>4. told' = (IF fresh THEN P54(Recorded(input, noted)) ELSE "stale")
  BY <1>3 DEF UpdateSession
<1>5. /\ discovery' = NoDiscovery /\ statusFile' = statusFile
      /\ inventory' = inventory /\ warrant' = warrant
  BY DEF UpdateSession
<1>6. ToldFits'
  BY <1>2, <1>4, <1>5 DEF ToldFits, Recorded
<1> QED
  BY <1>5, <1>6 DEF RInv, DiscoveryFits

LEMMA RulesInvariant == RulesSpec => []RInv
<1>1. RInv /\ [RulesNext]_rvars => RInv'
  BY DiscoverKeeps, MiddleKeeps, UpdateKeeps, EndKeeps, RailsKeep DEF RulesNext
<1> QED
  BY InitFits, <1>1, PTL DEF RulesSpec

-----------------------------------------------------------------------------
(* Refuted rules stay out.                                                   *)

\* A block that was neutralised, and one hydrated without an inventory, do not
\* close the gate.
LEMMA NeutralIsOpen ==
    ASSUME NEW b
    PROVE  P54(Neutralized(b)) # "compliant"
BY DEF P54, Neutralized

\* An outcome "extracted" is only ever given to an inventory that was written.
LEMMA ExtractedIsWritten ==
    ASSUME NEW x, NEW valid, NEW noted \in BOOLEAN, P54(Snapshot(x, valid, noted)) = "compliant"
    PROVE  noted
BY DEF P54, Snapshot

LEMMA OnlyWithFile ==
    ASSUME NEW b, NEW status, NEW file, P54(Hydrated(Neutralized(b), status, file)) = "compliant"
    PROVE  status # NoFile /\ file # NoFile
<1>1. status # NoFile
  BY NeutralIsOpen DEF Hydrated
<1>2. PICK x : Hydrated(Neutralized(b), status, file) = Snapshot(x, status.valid, file # NoFile)
  BY <1>1 DEF Hydrated
<1> QED
  BY <1>1, <1>2, ExtractedIsWritten

\* Whatever the repositories and the hints, and wherever a discovery is stopped,
\* /new-work calls compliant only the inventory a discovery stands for.
THEOREM RefutedRulesNeverPass == RulesSpec => RefutedRulesStayOut
<1>1. RInv /\ [RulesNext]_rvars =>
        [RulesNewWork /\ P54(block') = "compliant" => inventory # NoFile /\ inventory = warrant]_rvars
  BY OnlyWithFile DEF RInv, RulesNewWork
<1> QED
  BY RulesInvariant, <1>1, PTL DEF RulesSpec, RefutedRulesStayOut

-----------------------------------------------------------------------------
(* The files speak for the session.                                          *)

\* A report that is compliant lacks no rules.
LEMMA ValidLacksNothing ==
    ASSUME NEW candidates, NEW expected, NEW n, NEW cover, NEW conflict,
           Validate(candidates, expected, n, cover, conflict).compliant
    PROVE  ~Validate(candidates, expected, n, cover, conflict).missing
BY Zenon DEF Validate

LEMMA CompliantLacksNothing ==
    ASSUME NEW input, Discovered(input).compliant
    PROVE  ~Discovered(input).missing
<1>1. \A candidates, expected, n, cover, conflict :
          Validate(candidates, expected, n, cover, conflict).compliant
            => ~Validate(candidates, expected, n, cover, conflict).missing
  BY ValidLacksNothing
<1>2. \A r : Deterministic(r).report.compliant => ~Deterministic(r).report.missing
  BY <1>1, Zenon DEF Deterministic, SecondPass
<1>3. CASE input.hints = {}
  BY <1>2, <1>3, Zenon DEF Discovered, WithHints, Concluded
<1>4. CASE input.hints # {}
  BY <1>1, <1>4, Zenon DEF Discovered, WithHints, Concluded
<1> QED
  BY <1>3, <1>4

\* A coverage that is sufficient after a validation names none of its severe findings.
LEMMA ReconciledIsClean ==
    ASSUME NEW cover, NEW codes, Reconciled(cover, codes).sufficient
    PROVE  codes \cap Severe = {} /\ Reconciled(cover, codes) = cover
BY DEF Reconciled

LEMMA CoverageHasNoSevere ==
    ASSUME NEW r, NEW valid, NEW artifacts, NEW overfits
    PROVE  Coverage(r, valid, artifacts, overfits).reasons \cap Severe = {}
BY DEF Coverage, CoverageOf, Severe

LEMMA SufficientIsClean ==
    ASSUME NEW input, Discovered(input).sufficient
    PROVE  Discovered(input).reasons \cap Severe = {}
<1> DEFINE found == Deterministic(input.repository)
<1>1. PICK seen :
          /\ Discovered(input).sufficient = Reconciled(found.cover, seen).sufficient
          /\ Discovered(input).reasons \subseteq seen \cup Reconciled(found.cover, seen).reasons \cup {"quality"}
  BY DEF Discovered, WithHints, Concluded
<1>2. seen \cap Severe = {} /\ Reconciled(found.cover, seen) = found.cover
  BY <1>1, ReconciledIsClean
<1>3. PICK r, valid, artifacts, overfits, codes :
          found.cover = Reconciled(Coverage(r, valid, artifacts, overfits), codes)
  BY DEF Deterministic, SecondPass
<1>4. found.cover.reasons \cap Severe = {}
  BY <1>1, <1>2, <1>3, ReconciledIsClean, CoverageHasNoSevere
<1> QED
  BY <1>1, <1>2, <1>4 DEF Severe

\* The block a discovery leaves is not extracted if the outcome is not, and what
\* is hydrated from its status is not either.
LEMMA GapStaysGap ==
    ASSUME NEW input, NEW noted \in BOOLEAN, NEW b, NEW file,
           StatusText(Recorded(input, noted)) # NoFile,
           Recorded(input, noted).outcome # "extracted"
    PROVE  /\ P54(Recorded(input, noted)) # "compliant"
           /\ P54(Hydrated(b, StatusText(Recorded(input, noted)), file)) # "compliant"
<1> DEFINE status == StatusText(Recorded(input, noted))
<1>1. P54(Recorded(input, noted)) # "compliant"
  BY DEF P54
<1>2. ~status.passed
  BY DEF StatusText, Recorded, Snapshot
<1>3. ~Reread(status, file).compliant
  <2> HIDE DEF status
  <2> QED
    BY <1>2 DEF Reread
<1>4. Hydrated(b, status, file).outcome # "extracted"
  BY <1>3 DEF Hydrated, Snapshot
<1> QED
  BY <1>1, <1>4 DEF P54

\* A block that is extracted comes back from its status and its inventory, unless
\* a contradiction is among the reasons.
LEMMA ExtractedComesBack ==
    ASSUME NEW input, NEW noted \in BOOLEAN, NEW b, NEW file,
           StatusText(Recorded(input, noted)) # NoFile, file # NoFile,
           noted => file = Discovered(input).rules,
           Recorded(input, noted).outcome = "extracted"
    PROVE  \/ P54(Hydrated(b, StatusText(Recorded(input, noted)), file)) = P54(Recorded(input, noted))
           \/ /\ "conflict" \in StatusText(Recorded(input, noted)).reasons
              /\ P54(Hydrated(b, StatusText(Recorded(input, noted)), file)) # "compliant"
<1> DEFINE x == Discovered(input)
           n == Cardinality(x.rules)
           status == StatusText(Recorded(input, noted))
           y == Reread(status, file)
           again == Hydrated(b, status, file)
<1>1. /\ x.compliant /\ n > 0 /\ ~x.invalid /\ ~x.violation /\ ~x.unsegmented
      /\ ~x.conflict /\ ~x.poor /\ x.sufficient /\ noted
  BY DEF Recorded, Snapshot
<1>2. ~x.missing /\ "violation" \notin x.reasons /\ "unsegmented" \notin x.reasons
  BY <1>1, CompliantLacksNothing, SufficientIsClean DEF Severe
<1>3. /\ status.outcome = "extracted" /\ status.passed /\ status.valid = n /\ ~status.invalid
      /\ status.sufficient /\ status.reasons = x.reasons
      /\ status.quality = x.quality /\ status.filtered = x.filtered
  BY <1>1 DEF StatusText, Recorded, Snapshot
<1>4. n = Cardinality(file)
  BY <1>1
<1>5. /\ again = Snapshot(y, n, TRUE)
      /\ y.compliant /\ ~y.invalid /\ ~y.violation /\ ~y.unsegmented /\ ~y.missing /\ y.sufficient /\ ~y.poor
      /\ y.conflict <=> "conflict" \in status.reasons
      /\ y.reasons = x.reasons /\ y.quality = x.quality /\ y.filtered = x.filtered
  <2>1. again = Snapshot(y, n, TRUE)
    BY <1>3 DEF Hydrated
  <2> HIDE DEF status, n
  <2> QED
    BY <2>1, <1>1, <1>2, <1>3, <1>4 DEF Reread
<1>6. CASE "conflict" \in status.reasons
  BY <1>5, <1>6 DEF P54, Snapshot
<1>7. CASE "conflict" \notin status.reasons
  <2>1. P54(Snapshot(x, n, TRUE)) = P54(Snapshot(y, n, TRUE))
    <3> HIDE DEF x, y, n
    <3> QED
      BY <1>1, <1>2, <1>5, <1>7 DEF P54, Snapshot
  <2> QED
    BY <1>1, <1>5, <2>1 DEF Recorded
<1> QED
  BY <1>6, <1>7

\* Whatever the repositories and the hints, /new-work comes from the files of the
\* last discovery to the answer the discovery gave in the session.
THEOREM FilesAlwaysSpeak == RulesSpec => FilesSpeakForSession
<1>1. RInv /\ [RulesNext]_rvars =>
        [RulesNewWork /\ told # "stale" =>
             \/ P54(block') = "compliant" <=> told = "compliant"
             \/ told = "compliant" /\ "conflict" \in statusFile.reasons]_rvars
  <2> SUFFICES ASSUME RInv, RulesNewWork, told # "stale"
               PROVE  \/ P54(block') = "compliant" <=> told = "compliant"
                      \/ told = "compliant" /\ "conflict" \in statusFile.reasons
    OBVIOUS
  <2>1. PICK input \in Inputs, noted \in BOOLEAN :
            /\ told = P54(Recorded(input, noted))
            /\ statusFile = StatusText(Recorded(input, noted))
            /\ noted => inventory = Discovered(input).rules
    BY DEF RInv, ToldFits
  <2>2. Discovered(input).rules # NoFile /\ statusFile # NoFile
    BY <2>1, FilesAreThere DEF Recorded
  <2>3. block' = Hydrated(Neutralized(block), statusFile, inventory)
    BY DEF RulesNewWork
  <2>4. CASE Recorded(input, noted).outcome # "extracted"
    BY <2>1, <2>2, <2>3, <2>4, GapStaysGap
  <2>5. CASE Recorded(input, noted).outcome = "extracted"
    <3>1. noted
      BY <2>5 DEF Recorded, Snapshot
    <3>2. \/ P54(block') = told
          \/ "conflict" \in statusFile.reasons /\ P54(block') # "compliant"
      BY <2>1, <2>2, <2>3, <2>5, <3>1, ExtractedComesBack
    <3> QED
      BY <3>2
  <2> QED
    BY <2>4, <2>5
<1> QED
  BY RulesInvariant, <1>1, PTL DEF RulesSpec, FilesSpeakForSession

-----------------------------------------------------------------------------
(* What is written as an inventory: the rules and what speaks against them.  *)

\* The line a sum takes next.
Chosen(lines) == CHOOSE l \in lines : TRUE

\* The sets of lines a sum has come to.
Sums(S, n, f) ==
    f = [s \in {t \in SUBSET S : Cardinality(t) <= n} |->
            IF s = {} THEN 0 ELSE Chosen(s).times + f[s \ {Chosen(s)}]]

LEMMA SumsAt ==
    ASSUME NEW S, IsFiniteSet(S), NEW n \in Nat, NEW f, Sums(S, n, f),
           NEW s \in SUBSET S, Cardinality(s) <= n
    PROVE  f[s] = IF s = {} THEN 0 ELSE Chosen(s).times + f[s \ {Chosen(s)}]
BY DEF Sums

LEMMA ChosenIsOne ==
    ASSUME NEW S, IsFiniteSet(S), NEW s \in SUBSET S, s # {}
    PROVE  /\ Chosen(s) \in s /\ s \ {Chosen(s)} \in SUBSET S
           /\ Cardinality(s) \in Nat /\ Cardinality(s \ {Chosen(s)}) = Cardinality(s) - 1
           /\ s = (s \ {Chosen(s)}) \cup {Chosen(s)}
<1>1. Chosen(s) \in s
  BY DEF Chosen
<1>2. IsFiniteSet(s) /\ Cardinality(s) \in Nat
  BY FS_Subset, FS_CardinalityType
<1>3. Cardinality(s \ {Chosen(s)}) = Cardinality(s) - 1
  BY <1>1, <1>2, FS_RemoveElement
<1>4. s \ {Chosen(s)} \in SUBSET S /\ s = (s \ {Chosen(s)}) \cup {Chosen(s)}
  BY <1>1
<1> QED
  BY <1>1, <1>2, <1>3, <1>4

LEMMA SumsGoOn ==
    ASSUME NEW S, IsFiniteSet(S), NEW n \in Nat, NEW f, Sums(S, n, f)
    PROVE  \E more : Sums(S, n + 1, more)
<1> DEFINE reached == {t \in SUBSET S : Cardinality(t) <= n + 1}
           more == [s \in reached |->
                       IF Cardinality(s) <= n THEN f[s] ELSE Chosen(s).times + f[s \ {Chosen(s)}]]
<1>1. ASSUME NEW s \in reached
      PROVE  more[s] = IF s = {} THEN 0 ELSE Chosen(s).times + more[s \ {Chosen(s)}]
  <2>1. CASE s = {}
    <3>1. Cardinality(s) <= n
      BY <2>1, FS_EmptySet
    <3>2. f[s] = 0
      BY <2>1, <3>1, SumsAt
    <3> QED
      BY <2>1, <3>1, <3>2
  <2>2. CASE s # {}
    <3> DEFINE rest == s \ {Chosen(s)}
    <3>1. /\ rest \in SUBSET S /\ Cardinality(s) \in Nat /\ Cardinality(rest) = Cardinality(s) - 1
          /\ Cardinality(s) <= n + 1
      BY <2>2, ChosenIsOne
    <3>2. rest \in reached /\ Cardinality(rest) <= n
      BY <3>1
    <3>3. more[rest] = f[rest]
      <4> HIDE DEF rest
      <4> QED
        BY <3>2
    <3>4. CASE Cardinality(s) <= n
      <4>1. f[s] = Chosen(s).times + f[rest]
        BY <2>2, <3>4, SumsAt
      <4>2. more[s] = f[s]
        BY <3>4
      <4> HIDE DEF more, rest
      <4> QED
        BY <2>2, <3>3, <4>1, <4>2 DEF rest
    <3>5. CASE ~(Cardinality(s) <= n)
      <4>1. more[s] = Chosen(s).times + f[rest]
        BY <3>5
      <4> HIDE DEF more, rest
      <4> QED
        BY <2>2, <3>3, <4>1 DEF rest
    <3> QED
      BY <3>4, <3>5
  <2> QED
    BY <2>1, <2>2
<1> DEFINE same == [s \in reached |-> IF s = {} THEN 0 ELSE Chosen(s).times + more[s \ {Chosen(s)}]]
<1>2. more = same
  <2>1. \A s \in reached : more[s] = same[s]
    <3> HIDE DEF more, reached
    <3> QED
      BY <1>1
  <2> QED
    BY <2>1
<1>3. Sums(S, n + 1, more)
  <2> HIDE DEF more
  <2> QED
    BY <1>2, Zenon DEF Sums
<1> QED
  BY <1>3

LEMMA SumsExist ==
    ASSUME NEW S, IsFiniteSet(S), NEW n \in Nat
    PROVE  \E f : Sums(S, n, f)
<1> DEFINE without == {m \in Nat : \A f : ~Sums(S, m, f)}
<1>1. ASSUME NEW m \in without, \A k \in without : m <= k PROVE FALSE
  <2>1. CASE m = 0
    <3> DEFINE none == [s \in {t \in SUBSET S : Cardinality(t) <= 0} |-> 0]
    <3>1. \A s \in {t \in SUBSET S : Cardinality(t) <= 0} : s = {}
      <4> SUFFICES ASSUME NEW s \in SUBSET S, Cardinality(s) <= 0 PROVE s = {}
        OBVIOUS
      <4>1. IsFiniteSet(s) /\ Cardinality(s) \in Nat
        BY FS_Subset, FS_CardinalityType
      <4> QED
        BY <4>1, FS_EmptySet
    <3>2. Sums(S, 0, none)
      BY <3>1 DEF Sums
    <3> QED
      BY <2>1, <3>2
  <2>2. CASE m # 0
    <3>1. m - 1 \in Nat /\ (m - 1) + 1 = m /\ ~(m <= m - 1)
      BY <2>2
    <3>2. m - 1 \notin without
      BY <1>1, <3>1
    <3>3. PICK f : Sums(S, m - 1, f)
      BY <3>1, <3>2
    <3>4. \E more : Sums(S, m, more)
      BY <3>1, <3>3, SumsGoOn
    <3> QED
      BY <3>4
  <2> QED
    BY <2>1, <2>2
<1>2. without = {}
  <2>1. without \in SUBSET Nat
    OBVIOUS
  <2> HIDE DEF without
  <2> QED
    BY <1>1, <2>1, LeastExists
<1> QED
  BY <1>2

\* How many lines there are is told line by line.
LEMMA HowManyIsSum ==
    ASSUME NEW S, IsFiniteSet(S)
    PROVE  \E f : /\ HowMany(S) = f[S]
                  /\ \A s \in SUBSET S :
                        f[s] = IF s = {} THEN 0 ELSE Chosen(s).times + f[s \ {Chosen(s)}]
<1> DEFINE f == CHOOSE g : g = [s \in SUBSET S |->
                    IF s = {} THEN 0 ELSE Chosen(s).times + g[s \ {Chosen(s)}]]
<1>1. HowMany(S) = f[S]
  BY DEF HowMany, MapThenSumSet, MapThenFoldSet, Chosen
<1>2. \E g : g = [s \in SUBSET S |-> IF s = {} THEN 0 ELSE Chosen(s).times + g[s \ {Chosen(s)}]]
  <2>1. Cardinality(S) \in Nat
    BY FS_CardinalityType
  <2>2. {t \in SUBSET S : Cardinality(t) <= Cardinality(S)} = SUBSET S
    BY FS_Subset
  <2>3. PICK g : Sums(S, Cardinality(S), g)
    BY <2>1, SumsExist
  <2> QED
    BY <2>2, <2>3, Zenon DEF Sums
<1>3. f = [s \in SUBSET S |-> IF s = {} THEN 0 ELSE Chosen(s).times + f[s \ {Chosen(s)}]]
  BY <1>2, Zenon
<1> HIDE DEF f
<1>4. \A s \in SUBSET S : f[s] = IF s = {} THEN 0 ELSE Chosen(s).times + f[s \ {Chosen(s)}]
  BY <1>3
<1> QED
  BY <1>1, <1>4

\* The rules of a line of code, one each time it is there.
Numbered(l) == {[id |-> 100 * l.at + j, body |-> l.body] : j \in 1..l.times}

LEMMA NumberedAreFew ==
    ASSUME NEW l, l.times \in Nat
    PROVE  IsFiniteSet(Numbered(l)) /\ Cardinality(Numbered(l)) <= l.times /\ Cardinality(Numbered(l)) \in Nat
<1> DEFINE f == [j \in 1..l.times |-> [id |-> 100 * l.at + j, body |-> l.body]]
<1>1. f \in Surjection(1..l.times, Numbered(l))
  BY DEF Surjection, Numbered
<1>2. IsFiniteSet(1..l.times) /\ Cardinality(1..l.times) = l.times
  BY FS_Interval
<1> HIDE DEF f
<1> QED
  BY <1>1, <1>2, FS_Surjection, FS_CardinalityType

\* There are no more rules in the code than lines, and no lines are none.
LEMMA HowManyCounts ==
    ASSUME NEW S, IsFiniteSet(S), \A l \in S : l.times \in Nat \ {0}
    PROVE  /\ HowMany(S) \in Nat /\ (HowMany(S) = 0 <=> S = {})
           /\ IsFiniteSet(UNION {Numbered(l) : l \in S})
           /\ Cardinality(UNION {Numbered(l) : l \in S}) \in Nat
           /\ Cardinality(UNION {Numbered(l) : l \in S}) <= HowMany(S)
<1>1. PICK f : /\ HowMany(S) = f[S]
               /\ \A s \in SUBSET S :
                     f[s] = IF s = {} THEN 0 ELSE Chosen(s).times + f[s \ {Chosen(s)}]
  BY HowManyIsSum
<1> DEFINE All(s) == UNION {Numbered(l) : l \in s}
           Counts(s) == /\ f[s] \in Nat /\ (f[s] = 0 <=> s = {})
                        /\ IsFiniteSet(All(s)) /\ Cardinality(All(s)) \in Nat /\ Cardinality(All(s)) <= f[s]
           wrong == {n \in Nat : \E s \in SUBSET S : Cardinality(s) = n /\ ~Counts(s)}
<1>2. ASSUME NEW n \in wrong, \A k \in wrong : n <= k PROVE FALSE
  <2>1. PICK s \in SUBSET S : Cardinality(s) = n /\ ~Counts(s)
    OBVIOUS
  <2>2. f[s] = IF s = {} THEN 0 ELSE Chosen(s).times + f[s \ {Chosen(s)}]
    BY <1>1
  <2>3. CASE s = {}
    <3>1. f[s] = 0
      BY <2>2, <2>3
    <3>2. All(s) = {}
      BY <2>3
    <3>3. IsFiniteSet(All(s)) /\ Cardinality(All(s)) = 0
      BY <3>2, FS_EmptySet
    <3> HIDE DEF All
    <3> QED
      BY <2>1, <2>3, <3>1, <3>3
  <2>4. CASE s # {}
    <3> DEFINE l == Chosen(s)
               rest == s \ {l}
    <3>1. /\ l \in s /\ rest \in SUBSET S /\ Cardinality(s) \in Nat
          /\ Cardinality(rest) = Cardinality(s) - 1 /\ s = rest \cup {l}
      BY <2>4, ChosenIsOne
    <3>2. l.times \in Nat /\ l.times > 0
      BY <3>1
    <3>3. f[s] = l.times + f[rest]
      BY <2>2, <2>4
    <3> HIDE DEF l, rest
    <3>4. Cardinality(s) # 0
      BY <2>4, FS_Subset, FS_EmptySet
    <3>5. Cardinality(rest) \in Nat /\ ~(n <= Cardinality(rest))
      BY <2>1, <3>1, <3>4
    <3>6. Cardinality(rest) \notin wrong
      BY <1>2, <3>5
    <3>7. Counts(rest)
      BY <3>1, <3>5, <3>6
    <3>8. IsFiniteSet(Numbered(l)) /\ Cardinality(Numbered(l)) <= l.times /\ Cardinality(Numbered(l)) \in Nat
      BY <3>2, NumberedAreFew
    <3>9. All(s) = All(rest) \cup Numbered(l)
      BY <3>1
    <3> DEFINE A == All(rest)
               B == Numbered(l)
    <3>10. /\ IsFiniteSet(A) /\ IsFiniteSet(B) /\ Cardinality(A) \in Nat /\ Cardinality(B) \in Nat
           /\ Cardinality(A) <= f[rest] /\ Cardinality(B) <= l.times
      BY <3>7, <3>8
    <3> HIDE DEF A, B
    <3>11. /\ IsFiniteSet(A \cup B)
           /\ Cardinality(A \cup B) = Cardinality(A) + Cardinality(B) - Cardinality(A \cap B)
      BY <3>10, FS_Union
    <3>12. Cardinality(A \cap B) \in Nat /\ Cardinality(A \cup B) \in Nat
      BY <3>10, <3>11, FS_Intersection, FS_CardinalityType
    <3>13. Cardinality(A \cup B) <= f[s]
      BY <3>2, <3>3, <3>7, <3>10, <3>11, <3>12
    <3>14. f[s] \in Nat /\ f[s] # 0
      BY <3>2, <3>3, <3>7
    <3>15. IsFiniteSet(All(s)) /\ Cardinality(All(s)) \in Nat /\ Cardinality(All(s)) <= f[s]
      BY <3>9, <3>11, <3>12, <3>13 DEF A, B
    <3> QED
      BY <2>1, <2>4, <3>14, <3>15
  <2> QED
    BY <2>3, <2>4
<1>3. wrong = {}
  <2>1. wrong \in SUBSET Nat
    OBVIOUS
  <2> HIDE DEF wrong
  <2> QED
    BY <1>2, <2>1, LeastExists
<1>4. Cardinality(S) \in Nat /\ Cardinality(S) \notin wrong
  BY <1>3, FS_CardinalityType
<1> QED
  BY <1>1, <1>4

-----------------------------------------------------------------------------
\* The rules a validation passes, of one origin.
Passed(candidates, origin) ==
    UNION {{rule \in c.rules : Acceptable(rule.body, origin)} :
           c \in {c \in candidates : ~Dropped(c) /\ c.origin = origin}}

LEMMA ValidatePasses ==
    ASSUME NEW candidates, NEW expected, NEW n, NEW cover, NEW conflict
    PROVE  /\ Validate(candidates, expected, n, cover, conflict).doc = Passed(candidates, "doc")
           /\ Validate(candidates, expected, n, cover, conflict).code = Passed(candidates, "code")
<1> DEFINE report == Validate(candidates, expected, n, cover, conflict)
           kept == {c \in candidates : ~Dropped(c)}
           segments == UNION {{[at |-> c.at, origin |-> c.origin, rule |-> rule] : rule \in c.rules} : c \in kept}
           valid == {s \in segments : Acceptable(s.rule.body, s.origin)}
           Of(origin) == {s.rule : s \in {s \in valid : s.origin = origin}}
<1>1. report.doc = Of("doc") /\ report.code = Of("code")
  BY DEF Validate
<1>2. ASSUME NEW origin PROVE Of(origin) = Passed(candidates, origin)
  <2>1. ASSUME NEW rule \in Of(origin) PROVE rule \in Passed(candidates, origin)
    <3>1. PICK s \in valid : s.origin = origin /\ s.rule = rule
      OBVIOUS
    <3>2. PICK c \in kept : \E other \in c.rules : s = [at |-> c.at, origin |-> c.origin, rule |-> other]
      BY <3>1
    <3> QED
      BY <3>1, <3>2 DEF Passed
  <2>2. ASSUME NEW rule \in Passed(candidates, origin) PROVE rule \in Of(origin)
    <3>1. PICK c \in kept : c.origin = origin /\ rule \in c.rules /\ Acceptable(rule.body, origin)
      BY <2>2 DEF Passed
    <3> DEFINE s == [at |-> c.at, origin |-> c.origin, rule |-> rule]
    <3>2. s \in valid /\ s.origin = origin /\ s.rule = rule
      BY <3>1
    <3> QED
      BY <3>2
  <2> QED
    BY <2>1, <2>2
<1> QED
  BY <1>1, <1>2

\* No candidate speaks against a validation that is sufficient.
LEMMA SufficientHasAll ==
    ASSUME NEW candidates, NEW expected, NEW n, NEW cover, NEW conflict,
           Validate(candidates, expected, n, cover, conflict).sufficient
    PROVE  cover.sufficient /\ \A c \in candidates : ~Dropped(c) /\ c.rules # {}
BY Zenon DEF Validate

LEMMA CompliantHasAll ==
    ASSUME NEW candidates, NEW expected, NEW n, NEW cover, NEW conflict,
           Validate(candidates, expected, n, cover, conflict).compliant
    PROVE  /\ Validate(candidates, expected, n, cover, conflict).sufficient
           /\ ~conflict
           /\ \A c \in candidates : \A rule \in c.rules : Acceptable(rule.body, c.origin)
<1> DEFINE report == Validate(candidates, expected, n, cover, conflict)
           kept == {c \in candidates : ~Dropped(c)}
           segments == UNION {{[at |-> c.at, origin |-> c.origin, rule |-> rule] : rule \in c.rules} : c \in kept}
           valid == {s \in segments : Acceptable(s.rule.body, s.origin)}
<1>1. report.sufficient /\ ~conflict /\ valid = segments
  BY DEF Validate
<1>2. kept = candidates
  BY <1>1, SufficientHasAll
<1>3. ASSUME NEW c \in candidates, NEW rule \in c.rules PROVE Acceptable(rule.body, c.origin)
  <2> DEFINE s == [at |-> c.at, origin |-> c.origin, rule |-> rule]
  <2>1. s \in segments
    BY <1>2
  <2>2. s \in valid
    BY <1>1, <2>1
  <2> QED
    BY <2>2
<1> QED
  BY <1>1, <1>3

-----------------------------------------------------------------------------
CodeOf(r) == {l \in r.code : l.surface = "business" /\ l.anchor /\ l.meaning /\ l.context}
SoundOf(r) == {l \in CodeOf(r) : KindOf[l.body] = "rule"}
AdmittedOf(r) == {d \in r.docs : CodeOf(r) # {} => d.allowed /\ d.section}

LEMMA AcceptedIsCode ==
    ASSUME NEW r
    PROVE  Lines(r, "accepted_for_validation") = CodeOf(r)
BY DEF Lines, LineStatus, CodeOf

LEMMA CodeIsCounted ==
    ASSUME NEW input \in Inputs
    PROVE  LET r == input.repository
           IN /\ HowMany(CodeOf(r)) \in Nat /\ HowMany(SoundOf(r)) \in Nat
              /\ CandidateCount(r) = HowMany(CodeOf(r))
              /\ HowMany(CodeOf(r)) = 0 <=> CodeOf(r) = {}
              /\ Cardinality(UNION {Numbered(l) : l \in SoundOf(r)}) \in Nat
              /\ Cardinality(UNION {Numbered(l) : l \in SoundOf(r)}) <= HowMany(SoundOf(r))
<1> DEFINE r == input.repository
<1>1. IsFiniteSet(r.code) /\ \A l \in r.code : l.times \in Nat \ {0}
  BY InputsAssumption
<1>2. CodeOf(r) \in SUBSET r.code /\ SoundOf(r) \in SUBSET r.code
  BY DEF CodeOf, SoundOf
<1> HIDE DEF r
<1>3. /\ IsFiniteSet(CodeOf(r)) /\ \A l \in CodeOf(r) : l.times \in Nat \ {0}
      /\ IsFiniteSet(SoundOf(r)) /\ \A l \in SoundOf(r) : l.times \in Nat \ {0}
  BY <1>1, <1>2, FS_Subset
<1>4. CandidateCount(r) = HowMany(CodeOf(r))
  BY AcceptedIsCode DEF CandidateCount
<1>5. HowMany(CodeOf(r)) \in Nat /\ (HowMany(CodeOf(r)) = 0 <=> CodeOf(r) = {})
  BY <1>3, HowManyCounts
<1>6. /\ HowMany(SoundOf(r)) \in Nat
      /\ Cardinality(UNION {Numbered(l) : l \in SoundOf(r)}) \in Nat
      /\ Cardinality(UNION {Numbered(l) : l \in SoundOf(r)}) <= HowMany(SoundOf(r))
  BY <1>3, HowManyCounts
<1> QED
  BY <1>4, <1>5, <1>6 DEF r

\* The candidates of a repository are the admitted lines of its documents, and
\* one for each time a line of the code is there that passes on its own.
LEMMA DocCandidatesAre ==
    ASSUME NEW input \in Inputs
    PROVE  DocCandidates(input.repository) =
               {RuleLine(d.at, "doc", d.allowed, d.section, d.rules) : d \in AdmittedOf(input.repository)}
<1> DEFINE r == input.repository
           Line(d) == RuleLine(d.at, "doc", d.allowed, d.section, d.rules)
<1>1. CandidateCount(r) > 0 <=> CodeOf(r) # {}
  <2>1. HowMany(CodeOf(r)) \in Nat /\ CandidateCount(r) = HowMany(CodeOf(r))
        /\ (HowMany(CodeOf(r)) = 0 <=> CodeOf(r) = {})
    BY CodeIsCounted
  <2> QED
    BY <2>1
<1> HIDE DEF r
<1>2. \A d : Dropped(Line(d)) <=> ~d.allowed \/ ~d.section
  BY DEF Dropped, RuleLine
<1>3. DocCandidates(r) = {c \in {Line(d) : d \in r.docs} : CandidateCount(r) > 0 => ~Dropped(c)}
  BY DEF DocCandidates
<1> HIDE DEF Line
<1>4. DocCandidates(r) = {Line(d) : d \in AdmittedOf(r)}
  BY <1>1, <1>2, <1>3 DEF AdmittedOf
<1> QED
  BY <1>4 DEF Line, r

LEMMA CodeCandidatesAre ==
    ASSUME NEW r
    PROVE  /\ \A c \in CodeCandidates(r) : c.origin = "code" /\ ~Dropped(c)
           /\ UNION {c.rules : c \in CodeCandidates(r)} = UNION {Numbered(l) : l \in SoundOf(r)}
           /\ \A c \in CodeCandidates(r) : \A rule \in c.rules : KindOf[rule.body] = "rule"
<1> DEFINE LineOf(l, j) == RuleLine(100 * l.at + j, "code", TRUE, TRUE, {[id |-> 100 * l.at + j, body |-> l.body]})
<1>1. CodeCandidates(r) = UNION {{LineOf(l, j) : j \in 1..l.times} : l \in SoundOf(r)}
  <2>1. {l \in Lines(r, "accepted_for_validation") : Acceptable(l.body, "code")} = SoundOf(r)
    BY AcceptedIsCode DEF SoundOf, Acceptable
  <2> QED
    BY <2>1, Zenon DEF CodeCandidates
<1>2. \A l, j : /\ LineOf(l, j).origin = "code" /\ ~Dropped(LineOf(l, j))
                /\ LineOf(l, j).rules = {[id |-> 100 * l.at + j, body |-> l.body]}
  BY DEF RuleLine, Dropped
<1> HIDE DEF LineOf
<1>3. \A c \in CodeCandidates(r) : \E l \in SoundOf(r) : \E j \in 1..l.times : c = LineOf(l, j)
  BY <1>1
<1>4. \A l \in SoundOf(r) : \A j \in 1..l.times : LineOf(l, j) \in CodeCandidates(r)
  BY <1>1
<1>5. ASSUME NEW rule \in UNION {c.rules : c \in CodeCandidates(r)}
      PROVE  rule \in UNION {Numbered(l) : l \in SoundOf(r)} /\ KindOf[rule.body] = "rule"
  <2>1. PICK l \in SoundOf(r) : \E j \in 1..l.times : rule \in LineOf(l, j).rules
    BY <1>3, <1>5
  <2>2. PICK j \in 1..l.times : rule = [id |-> 100 * l.at + j, body |-> l.body]
    BY <1>2, <2>1
  <2>3. rule \in Numbered(l)
    BY <2>2 DEF Numbered
  <2> QED
    BY <2>2, <2>3 DEF SoundOf
<1>6. ASSUME NEW l \in SoundOf(r), NEW rule \in Numbered(l)
      PROVE  rule \in UNION {c.rules : c \in CodeCandidates(r)}
  <2>1. PICK j \in 1..l.times : rule = [id |-> 100 * l.at + j, body |-> l.body]
    BY DEF Numbered
  <2>2. rule \in LineOf(l, j).rules /\ LineOf(l, j) \in CodeCandidates(r)
    BY <1>2, <1>4, <2>1
  <2> QED
    BY <2>2
<1> QED
  BY <1>2, <1>3, <1>5, <1>6

\* The rules of the documents, and those of the code, that a validation of a
\* repository's candidates passes.
DocsOf(r) == {d \in AdmittedOf(r) : d.allowed /\ d.section}
DocRules(r) == UNION {{rule \in d.rules : KindOf[rule.body] \in {"rule", "technical"}} : d \in DocsOf(r)}
CodeRules(r) == UNION {Numbered(l) : l \in SoundOf(r)}

LEMMA PassedAre ==
    ASSUME NEW input \in Inputs
    PROVE  /\ Passed(Candidates(input.repository), "doc") = DocRules(input.repository)
           /\ Passed(Candidates(input.repository), "code") = CodeRules(input.repository)
<1> DEFINE r == input.repository
           Line(d) == RuleLine(d.at, "doc", d.allowed, d.section, d.rules)
<1>1. DocCandidates(r) = {Line(d) : d \in AdmittedOf(r)}
  BY DocCandidatesAre
<1> HIDE DEF r
<1>2. \A d : /\ Line(d).origin = "doc" /\ Line(d).rules = d.rules
             /\ Dropped(Line(d)) <=> ~(d.allowed /\ d.section)
  BY DEF Dropped, RuleLine
<1> HIDE DEF Line
<1>3. Candidates(r) = DocCandidates(r) \cup CodeCandidates(r)
  BY DEF Candidates
<1>4. /\ \A c \in CodeCandidates(r) : c.origin = "code" /\ ~Dropped(c)
      /\ UNION {c.rules : c \in CodeCandidates(r)} = CodeRules(r)
      /\ \A c \in CodeCandidates(r) : \A rule \in c.rules : KindOf[rule.body] = "rule"
  BY CodeCandidatesAre DEF CodeRules
<1>5. /\ {c \in Candidates(r) : ~Dropped(c) /\ c.origin = "doc"} = {Line(d) : d \in DocsOf(r)}
      /\ {c \in Candidates(r) : ~Dropped(c) /\ c.origin = "code"} = CodeCandidates(r)
  BY <1>1, <1>2, <1>3, <1>4 DEF DocsOf
<1>6. Passed(Candidates(r), "doc") = DocRules(r)
  <2>1. Passed(Candidates(r), "doc") =
            UNION {{rule \in c.rules : Acceptable(rule.body, "doc")} : c \in {Line(d) : d \in DocsOf(r)}}
    BY <1>5 DEF Passed
  <2>2. \A body : Acceptable(body, "doc") <=> KindOf[body] \in {"rule", "technical"}
    BY DEF Acceptable
  <2> QED
    BY <1>2, <2>1, <2>2 DEF DocRules
<1>7. Passed(Candidates(r), "code") = CodeRules(r)
  <2>1. Passed(Candidates(r), "code") =
            UNION {{rule \in c.rules : Acceptable(rule.body, "code")} : c \in CodeCandidates(r)}
    BY <1>5 DEF Passed
  <2>2. \A body : Acceptable(body, "code") <=> KindOf[body] = "rule"
    BY DEF Acceptable
  <2>3. \A c \in CodeCandidates(r) : {rule \in c.rules : Acceptable(rule.body, "code")} = c.rules
    BY <1>4, <2>2
  <2> QED
    BY <1>4, <2>1, <2>3
<1> QED
  BY <1>6, <1>7 DEF r

\* What the pass over a repository finds, and what it takes for that.
LEMMA FoundIs ==
    ASSUME NEW input \in Inputs
    PROVE  LET r == input.repository
               found == Deterministic(r)
           IN /\ found.report.doc = DocRules(r) /\ found.report.code = CodeRules(r)
              /\ found.report.sufficient => \A d \in AdmittedOf(r) : d.allowed /\ d.section /\ d.rules # {}
              /\ found.report.compliant =>
                    /\ found.report.sufficient
                    /\ \A d \in AdmittedOf(r) : \A rule \in d.rules : KindOf[rule.body] \in {"rule", "technical"}
                    /\ \A d \in DocRules(r), c \in CodeRules(r) : {d.body, c.body} \notin Clashes
              /\ found.cover.sufficient =>
                    /\ r.files > 0 => CodeOf(r) # {}
                    /\ r.files >= 50 => 10 * HowMany(SoundOf(r)) >= HowMany(CodeOf(r))
<1> DEFINE r == input.repository
           n == CandidateCount(r)
           first == Validate(Candidates(r), FALSE, n, Coverage(r, 0, 0, 0), FALSE)
           found == Deterministic(r)
           clash == \E d \in first.doc, c \in first.code : {d.body, c.body} \in Clashes
           cover == Coverage(r, Cardinality(first.code), first.artifacts, first.overfits)
<1>1. found.report = Validate(Candidates(r), FALSE, n, Reconciled(cover, first.reasons), clash)
      /\ found.cover = Reconciled(cover, first.reasons)
  BY DEF Deterministic, SecondPass
<1>2. first.doc = DocRules(r) /\ first.code = CodeRules(r)
  BY ValidatePasses, PassedAre
<1>3. found.report.doc = DocRules(r) /\ found.report.code = CodeRules(r)
  <2>1. found.report.doc = Passed(Candidates(r), "doc") /\ found.report.code = Passed(Candidates(r), "code")
    BY <1>1, ValidatePasses, Zenon
  <2> QED
    BY <2>1, PassedAre
<1> DEFINE Line(d) == RuleLine(d.at, "doc", d.allowed, d.section, d.rules)
<1>4. \A d \in AdmittedOf(r) : /\ Line(d) \in Candidates(r) /\ Line(d).origin = "doc" /\ Line(d).rules = d.rules
                               /\ ~Dropped(Line(d)) => d.allowed /\ d.section
  BY DocCandidatesAre DEF Candidates, RuleLine, Dropped
<1>5. found.report.sufficient => \A c \in Candidates(r) : ~Dropped(c) /\ c.rules # {}
  <2>1. PICK cover2 : found.report = Validate(Candidates(r), FALSE, n, cover2, clash)
    BY <1>1
  <2> HIDE DEF found, clash, n, r
  <2> QED
    BY <2>1, SufficientHasAll
<1>6. found.report.compliant => /\ found.report.sufficient /\ ~clash
                                /\ \A c \in Candidates(r) : \A rule \in c.rules : Acceptable(rule.body, c.origin)
  <2>1. PICK cover2 : found.report = Validate(Candidates(r), FALSE, n, cover2, clash)
    BY <1>1
  <2> HIDE DEF found, clash, n, r
  <2> QED
    BY <2>1, CompliantHasAll
<1>7. found.cover.sufficient => cover.sufficient
  BY <1>1, ReconciledIsClean
<1>8. ASSUME cover.sufficient
      PROVE  /\ r.files > 0 => CodeOf(r) # {}
             /\ r.files >= 50 => 10 * HowMany(SoundOf(r)) >= HowMany(CodeOf(r))
  <2> DEFINE valid == Cardinality(first.code)
             quality == QualityReasons(r, valid, first.artifacts, first.overfits)
  <2>1. /\ ~(r.files > 0 /\ n = 0)
        /\ quality \cap HardQuality = {}
    BY <1>8 DEF Coverage, CoverageOf
  <2>2. ~(r.files >= 50 /\ (n = 0 \/ 10 * valid < n))
    BY <2>1 DEF QualityReasons, HardQuality
  <2>3. valid \in Nat /\ valid <= HowMany(SoundOf(r)) /\ HowMany(SoundOf(r)) \in Nat
        /\ n = HowMany(CodeOf(r)) /\ n \in Nat /\ (n = 0 <=> CodeOf(r) = {})
    BY <1>2, CodeIsCounted DEF CodeRules
  <2> HIDE DEF valid, n
  <2>4. r.files >= 50 => 10 * HowMany(SoundOf(r)) >= HowMany(CodeOf(r))
    <3>1. r.files >= 50 => ~(10 * valid < n)
      BY <2>2
    <3>2. HowMany(SoundOf(r)) \in Nat
      BY <2>3
    <3> QED
      BY <2>3, <3>1, <3>2
  <2> QED
    BY <2>1, <2>3, <2>4
<1> HIDE DEF found, cover, clash, first, n, r
<1>9. found.report.sufficient => \A d \in AdmittedOf(r) : d.allowed /\ d.section /\ d.rules # {}
  BY <1>4, <1>5
<1>10. ASSUME found.report.compliant
       PROVE  /\ found.report.sufficient
              /\ \A d \in AdmittedOf(r) : \A rule \in d.rules : KindOf[rule.body] \in {"rule", "technical"}
              /\ \A d \in DocRules(r), c \in CodeRules(r) : {d.body, c.body} \notin Clashes
  <2>1. found.report.sufficient /\ ~clash
    BY <1>6, <1>10
  <2>2. \A d \in AdmittedOf(r) : \A rule \in d.rules : KindOf[rule.body] \in {"rule", "technical"}
    BY <1>4, <1>6, <1>10 DEF Acceptable
  <2>3. \A d \in DocRules(r), c \in CodeRules(r) : {d.body, c.body} \notin Clashes
    BY <1>2, <2>1 DEF clash
  <2> QED
    BY <2>1, <2>2, <2>3
<1> QED
  BY <1>3, <1>7, <1>8, <1>9, <1>10 DEF found, r

\* The bodies a repository's document and code have.
Written(r) == (UNION {{rule.body : rule \in d.rules} : d \in AdmittedOf(r)}) \cup {l.body : l \in SoundOf(r)}

LEMMA WrittenHas ==
    ASSUME NEW r
    PROVE  /\ \A d \in AdmittedOf(r) : \A rule \in d.rules : rule.body \in Written(r)
           /\ \A l \in SoundOf(r) : l.body \in Written(r)
<1>1. ASSUME NEW d \in AdmittedOf(r), NEW rule \in d.rules PROVE rule.body \in Written(r)
  <2>1. rule.body \in {other.body : other \in d.rules}
    OBVIOUS
  <2>2. {other.body : other \in d.rules} \in {{other.body : other \in e.rules} : e \in AdmittedOf(r)}
    OBVIOUS
  <2> QED
    BY <2>1, <2>2 DEF Written
<1>2. \A l \in SoundOf(r) : l.body \in Written(r)
  BY DEF Written
<1> QED
  BY <1>1, <1>2

LEMMA FoundRulesAre ==
    ASSUME NEW r, NEW rule \in DocRules(r) \cup CodeRules(r)
    PROVE  KindOf[rule.body] \in {"rule", "technical"} /\ rule.body \in Written(r)
<1>1. CASE rule \in DocRules(r)
  <2>1. PICK d \in DocsOf(r) : rule \in d.rules /\ KindOf[rule.body] \in {"rule", "technical"}
    BY <1>1 DEF DocRules
  <2>2. d \in AdmittedOf(r)
    BY DEF DocsOf
  <2> QED
    BY <2>1, <2>2, WrittenHas
<1>2. CASE rule \in CodeRules(r)
  <2>1. PICK l \in SoundOf(r) : rule \in Numbered(l)
    BY <1>2 DEF CodeRules
  <2>2. rule.body = l.body
    BY <2>1 DEF Numbered
  <2>3. KindOf[l.body] = "rule"
    BY DEF SoundOf
  <2> QED
    BY <2>2, <2>3, WrittenHas
<1> QED
  BY <1>1, <1>2

\* The hints whose rule is not there yet; the first of each body counts.
Newcomers(rules, hints) ==
    {h \in hints : /\ h.wellFormed
                   /\ \A rule \in rules : rule.body # h.rule.body
                   /\ \A g \in hints : g.wellFormed /\ g.rule.body = h.rule.body => g.rule.id >= h.rule.id}

LEMMA FirstComesNew ==
    ASSUME NEW rules, NEW hints, \A h \in hints : h.rule.id \in Nat,
           NEW h \in hints, h.wellFormed, \A rule \in rules : rule.body # h.rule.body
    PROVE  \E g \in Newcomers(rules, hints) : g.rule.body = h.rule.body /\ g.rule.id <= h.rule.id
<1> DEFINE same == {g.rule.id : g \in {g \in hints : g.wellFormed /\ g.rule.body = h.rule.body}}
<1>1. same \in SUBSET Nat /\ h.rule.id \in same
  OBVIOUS
<1>2. \A g \in hints : g.wellFormed /\ g.rule.body = h.rule.body => g.rule.id \in same
  OBVIOUS
<1>3. \A id \in same : \E g \in hints : g.wellFormed /\ g.rule.body = h.rule.body /\ g.rule.id = id
  OBVIOUS
<1> HIDE DEF same
<1>4. PICK id \in same : \A other \in same : id <= other
  BY <1>1, LeastExists
<1>5. PICK g \in hints : g.wellFormed /\ g.rule.body = h.rule.body /\ g.rule.id = id
  BY <1>3
<1>6. ASSUME NEW other \in hints, other.wellFormed, other.rule.body = g.rule.body
      PROVE  other.rule.id >= g.rule.id
  <2>1. id <= other.rule.id /\ id \in Nat /\ other.rule.id \in Nat
    BY <1>1, <1>2, <1>4, <1>5, <1>6
  <2> QED
    BY <1>5, <2>1
<1>7. g \in Newcomers(rules, hints)
  BY <1>5, <1>6 DEF Newcomers
<1> QED
  BY <1>1, <1>4, <1>5, <1>7

LEMMA MergedAre ==
    ASSUME NEW rules, NEW hints
    PROVE  /\ \A c \in MergedHints(rules, hints) :
                 \A rule \in c.rules : rule \in rules \cup {h.rule : h \in hints}
           /\ \A h \in Newcomers(rules, hints) :
                 ~h.marked => \E c \in MergedHints(rules, hints) : c.rules = {}
<1> DEFINE Old(rule) == RuleLine(rule.id, "doc", TRUE, TRUE, {rule})
           New(h) == RuleLine(h.rule.id, "code", TRUE, TRUE, IF h.marked THEN {h.rule} ELSE {})
<1>1. MergedHints(rules, hints) = {Old(rule) : rule \in rules} \cup {New(h) : h \in Newcomers(rules, hints)}
  BY DEF MergedHints, Newcomers
<1>2. /\ \A rule : Old(rule).rules = {rule}
      /\ \A h : New(h).rules = IF h.marked THEN {h.rule} ELSE {}
  BY DEF RuleLine
<1>3. \A h \in Newcomers(rules, hints) : h \in hints
  BY DEF Newcomers
<1> HIDE DEF Old, New
<1>4. ASSUME NEW c \in MergedHints(rules, hints), NEW rule \in c.rules
      PROVE  rule \in rules \cup {h.rule : h \in hints}
  <2>1. CASE \E other \in rules : c = Old(other)
    BY <1>2, <1>4, <2>1
  <2>2. CASE \E h \in Newcomers(rules, hints) : c = New(h)
    <3>1. PICK h \in Newcomers(rules, hints) : c = New(h)
      BY <2>2
    <3>2. New(h).rules = IF h.marked THEN {h.rule} ELSE {}
      BY <1>2
    <3>3. rule = h.rule
      BY <1>4, <3>1, <3>2
    <3> QED
      BY <1>3, <3>3
  <2> QED
    BY <1>1, <2>1, <2>2
<1>5. ASSUME NEW h \in Newcomers(rules, hints), ~h.marked
      PROVE  \E c \in MergedHints(rules, hints) : c.rules = {}
  <2>1. New(h) \in MergedHints(rules, hints)
    BY <1>1
  <2>2. New(h).rules = {}
    BY <1>2, <1>5
  <2> QED
    BY <2>1, <2>2
<1> QED
  BY <1>4, <1>5

\* What the pass over hints takes in, if it is compliant.
HintsClean(rules, hints, cover, report) ==
    /\ cover.sufficient
    /\ \A rule \in report.doc \cup report.code :
          rule \in rules \cup {h.rule : h \in hints} /\ KindOf[rule.body] \in {"rule", "technical"}
    /\ \A h \in hints : h.wellFormed /\ ~h.marked =>
          \/ \E rule \in rules : rule.body = h.rule.body
          \/ \E g \in EarlierMarked(hints, h) : g.rule.body = h.rule.body

LEMMA HintsAreClean ==
    ASSUME NEW rules, NEW hints, NEW n, NEW cover, \A h \in hints : h.rule.id \in Nat,
           Validate(MergedHints(rules, hints), TRUE, n, cover, FALSE).compliant
    PROVE  HintsClean(rules, hints, cover, Validate(MergedHints(rules, hints), TRUE, n, cover, FALSE))
<1> DEFINE merged == MergedHints(rules, hints)
           report == Validate(merged, TRUE, n, cover, FALSE)
<1>1. report.sufficient /\ \A c \in merged : \A rule \in c.rules : Acceptable(rule.body, c.origin)
  BY CompliantHasAll
<1>2. cover.sufficient /\ \A c \in merged : c.rules # {}
  BY <1>1, SufficientHasAll
<1>3. report.doc = Passed(merged, "doc") /\ report.code = Passed(merged, "code")
  <2>1. \A flag : /\ Validate(merged, TRUE, n, cover, flag).doc = Passed(merged, "doc")
                   /\ Validate(merged, TRUE, n, cover, flag).code = Passed(merged, "code")
    BY ValidatePasses
  <2> QED
    BY <2>1
<1>4. \A c \in merged : \A rule \in c.rules : rule \in rules \cup {h.rule : h \in hints}
  BY MergedAre
<1>5. \A h \in Newcomers(rules, hints) : h.marked
  BY <1>2, MergedAre
<1> HIDE DEF merged, report
<1>6. ASSUME NEW rule \in report.doc \cup report.code
      PROVE  rule \in rules \cup {h.rule : h \in hints} /\ KindOf[rule.body] \in {"rule", "technical"}
  <2>1. PICK c \in merged : rule \in c.rules
    BY <1>3, <1>6 DEF Passed
  <2>2. KindOf[rule.body] \in {"rule", "technical"}
    BY <1>1, <2>1 DEF Acceptable
  <2> QED
    BY <1>4, <2>1, <2>2
<1>7. ASSUME NEW h \in hints, h.wellFormed, ~h.marked, \A rule \in rules : rule.body # h.rule.body
      PROVE  \E g \in EarlierMarked(hints, h) : g.rule.body = h.rule.body
  <2>1. PICK g \in Newcomers(rules, hints) : g.rule.body = h.rule.body /\ g.rule.id <= h.rule.id
    BY <1>7, FirstComesNew
  <2>2. g.marked /\ g \in hints /\ g.wellFormed
    BY <1>5 DEF Newcomers
  <2>3. ~(\A other \in hints : other.wellFormed /\ other.rule.body = h.rule.body => other.rule.id >= h.rule.id)
    BY <1>5, <1>7 DEF Newcomers
  <2>4. \A other \in hints : other.wellFormed /\ other.rule.body = g.rule.body => other.rule.id >= g.rule.id
    BY DEF Newcomers
  <2>5. g.rule.id # h.rule.id
    BY <2>1, <2>3, <2>4
  <2>6. g.rule.id < h.rule.id
    BY <2>1, <2>2, <2>5
  <2> QED
    BY <2>1, <2>2, <2>6 DEF EarlierMarked
<1> QED
  BY <1>2, <1>6, <1>7 DEF HintsClean, report, merged

\* What was concluded of a report, and what it takes to be compliant.
LEMMA ConcludedIs ==
    ASSUME NEW r, NEW found, NEW report,
           Concluded(r, found, report).compliant, Concluded(r, found, report).sufficient
    PROVE  /\ report.compliant /\ report.doc \cup report.code # {}
           /\ Concluded(r, found, report).rules = report.doc \cup report.code
           /\ found.cover.sufficient
<1> DEFINE final == report.doc \cup report.code
           seen == report.reasons \cup {c \in {"empty"} : final = {}}
<1>1. Concluded(r, found, report).rules = final
  BY DEF Concluded
<1>2. report.compliant /\ final # {}
  BY Zenon DEF Concluded
<1>3. Concluded(r, found, report).sufficient = Reconciled(found.cover, seen).sufficient
  BY DEF Concluded
<1>4. Reconciled(found.cover, seen).sufficient
  BY <1>3
<1>5. Reconciled(found.cover, seen) = found.cover
  <2> HIDE DEF seen
  <2> QED
    BY <1>4, ReconciledIsClean
<1> HIDE DEF seen
<1> QED
  BY <1>1, <1>2, <1>4, <1>5

\* What a discovery finds undisputed: ViolationsDominate of one input.
Undisputed(r, hints, rules) ==
    LET bodies == {rule.body : rule \in rules}
    IN /\ bodies # {} /\ bodies \subseteq Written(r) \cup {h.rule.body : h \in hints}
       /\ \A body \in bodies : KindOf[body] \in {"rule", "technical"}
       /\ \A d \in AdmittedOf(r) : d.allowed /\ d.section /\ d.rules # {}
       /\ r.files > 0 => CodeOf(r) # {}
       /\ r.files >= 50 => 10 * HowMany(SoundOf(r)) >= HowMany(CodeOf(r))
       /\ \A h \in hints : h.wellFormed /\ ~h.marked =>
             h.rule.body \in Written(r) \cup {g.rule.body : g \in EarlierMarked(hints, h)}
       /\ hints = {} =>
             /\ \A d \in AdmittedOf(r) : \A rule \in d.rules : KindOf[rule.body] \in {"rule", "technical"}
             /\ \A d \in AdmittedOf(r), l \in SoundOf(r) :
                   \A rule \in d.rules : {rule.body, l.body} \notin Clashes

\* What a discovery calls compliant, with its code covered, nothing speaks against.
LEMMA CompliantIsUndisputed ==
    ASSUME NEW input \in Inputs, Discovered(input).compliant, Discovered(input).sufficient
    PROVE  Undisputed(input.repository, input.hints, Discovered(input).rules)
<1> DEFINE r == input.repository
           hints == input.hints
           found == Deterministic(r)
           rules == Discovered(input).rules
           before == found.report.doc \cup found.report.code
           cover == [reasons |-> found.report.reasons, sufficient |-> found.report.sufficient]
           hinted == Validate(MergedHints(before, hints), TRUE, CandidateCount(r), cover, FALSE)
           report == IF hints = {} THEN found.report ELSE hinted
<1>1. /\ found.report.doc = DocRules(r) /\ found.report.code = CodeRules(r)
      /\ found.report.sufficient => \A d \in AdmittedOf(r) : d.allowed /\ d.section /\ d.rules # {}
      /\ found.report.compliant =>
            /\ found.report.sufficient
            /\ \A d \in AdmittedOf(r) : \A rule \in d.rules : KindOf[rule.body] \in {"rule", "technical"}
            /\ \A d \in DocRules(r), c \in CodeRules(r) : {d.body, c.body} \notin Clashes
      /\ found.cover.sufficient =>
            /\ r.files > 0 => CodeOf(r) # {}
            /\ r.files >= 50 => 10 * HowMany(SoundOf(r)) >= HowMany(CodeOf(r))
  BY FoundIs
<1>2. Discovered(input) = Concluded(r, found, report)
  BY DEF Discovered, WithHints
<1>3. cover.sufficient = found.report.sufficient
  OBVIOUS
<1>4. \A h \in hints : h.rule.id \in Nat
  BY InputsAssumption
<1>5. \A l \in SoundOf(r) : l.times \in Nat \ {0}
  BY InputsAssumption DEF SoundOf, CodeOf
<1>6. /\ hints = {} => report = found.report
      /\ hints # {} => report = Validate(MergedHints(before, hints), TRUE, CandidateCount(r), cover, FALSE)
  OBVIOUS
<1>7. before = DocRules(r) \cup CodeRules(r)
  BY <1>1
<1> HIDE DEF found, report, r, hints, before, cover
<1>8. /\ report.compliant /\ rules # {} /\ rules = report.doc \cup report.code
      /\ found.cover.sufficient
  BY <1>2, ConcludedIs
<1> HIDE DEF rules
<1>9. \A rule \in before : rule.body \in Written(r) /\ KindOf[rule.body] \in {"rule", "technical"}
  BY <1>7, FoundRulesAre
<1>10. CASE hints = {}
  <2>1. report.compliant /\ rules = before /\ report = found.report
    BY <1>1, <1>6, <1>7, <1>8, <1>10
  <2>2. \A rule \in rules : rule.body \in Written(r) /\ KindOf[rule.body] \in {"rule", "technical"}
    BY <1>9, <2>1
  <2>3. /\ \A d \in AdmittedOf(r) : d.allowed /\ d.section /\ d.rules # {}
        /\ \A d \in AdmittedOf(r) : \A rule \in d.rules : KindOf[rule.body] \in {"rule", "technical"}
        /\ \A d \in DocRules(r), c \in CodeRules(r) : {d.body, c.body} \notin Clashes
    BY <1>1, <2>1
  <2>4. ASSUME NEW d \in AdmittedOf(r), NEW l \in SoundOf(r), NEW rule \in d.rules
        PROVE  {rule.body, l.body} \notin Clashes
    <3>1. d \in DocsOf(r) /\ KindOf[rule.body] \in {"rule", "technical"}
      BY <2>3 DEF DocsOf
    <3>2. rule \in DocRules(r)
      BY <3>1 DEF DocRules
    <3> DEFINE c == [id |-> 100 * l.at + 1, body |-> l.body]
    <3>3. 1 \in 1..l.times
      BY <1>5
    <3>4. c \in Numbered(l)
      BY <3>3 DEF Numbered
    <3>5. c.body = l.body
      OBVIOUS
    <3> HIDE DEF c
    <3>6. c \in CodeRules(r)
      BY <3>4 DEF CodeRules
    <3> QED
      BY <2>3, <3>2, <3>5, <3>6
  <2> QED
    BY <1>1, <1>8, <1>10, <2>2, <2>3, <2>4 DEF Undisputed, rules, r, hints
<1>11. CASE hints # {}
  <2>1. HintsClean(before, hints, cover, report)
    BY <1>4, <1>6, <1>8, <1>11, HintsAreClean
  <2>2. \A d \in AdmittedOf(r) : d.allowed /\ d.section /\ d.rules # {}
    BY <1>1, <1>3, <2>1 DEF HintsClean
  <2>3. \A rule \in rules : rule \in before \/ \E h \in hints : rule = h.rule
    BY <1>8, <2>1 DEF HintsClean
  <2>4. \A rule \in rules : rule.body \in Written(r) \cup {h.rule.body : h \in hints}
    BY <1>9, <2>3
  <2>5. \A rule \in rules : KindOf[rule.body] \in {"rule", "technical"}
    BY <1>8, <2>1 DEF HintsClean
  <2>6. ASSUME NEW h \in hints, h.wellFormed, ~h.marked
        PROVE  h.rule.body \in Written(r) \cup {g.rule.body : g \in EarlierMarked(hints, h)}
    BY <1>9, <2>1, <2>6 DEF HintsClean
  <2> QED
    BY <1>1, <1>8, <1>11, <2>2, <2>4, <2>5, <2>6 DEF Undisputed, rules, r, hints
<1> QED
  BY <1>10, <1>11 DEF rules, r, hints

\* A discovery goes on to the inventory only with what it calls extracted.
Undertaken ==
    discovery.at \in {"inventory", "compare"} =>
        /\ discovery.input \in Inputs /\ discovery.report = Discovered(discovery.input)
        /\ discovery.report.compliant /\ discovery.report.sufficient

LEMMA UndertakenStep == Undertaken /\ [RulesNext]_rvars => Undertaken'
<1> SUFFICES ASSUME Undertaken, [RulesNext]_rvars PROVE Undertaken'
  OBVIOUS
<1>1. CASE Discover
  <2>1. PICK input \in Inputs, force \in BOOLEAN :
            LET report == Discovered(input)
                first  == Snapshot(report, Cardinality(report.rules), TRUE)
            IN  discovery' = [at |-> IF first.outcome = "extracted" THEN "inventory" ELSE "sweep",
                              input |-> input, report |-> report, force |-> force, written |-> FALSE, fresh |-> FALSE]
    BY <1>1 DEF Discover
  <2> DEFINE report == Discovered(input)
             first  == Snapshot(report, Cardinality(report.rules), TRUE)
             at     == IF first.outcome = "extracted" THEN "inventory" ELSE "sweep"
  <2>2. discovery' = [at |-> at, input |-> input, report |-> report, force |-> force,
                      written |-> FALSE, fresh |-> FALSE]
    BY <2>1
  <2>3. at # "sweep" => first.outcome = "extracted"
    OBVIOUS
  <2>4. first.outcome = "extracted" => report.compliant /\ report.sufficient
    BY DEF Snapshot
  <2> HIDE DEF at, report, first
  <2>5. /\ discovery'.at = at /\ discovery'.input = input
        /\ discovery'.report = report
    BY <2>2
  <2> QED
    BY <2>3, <2>4, <2>5 DEF Undertaken, report
<1>2. CASE WriteInventory
  BY <1>2 DEF WriteInventory, Goto, Undertaken
<1>3. CASE Compare \/ Sweep \/ WriteStatus
  BY <1>3 DEF Compare, Sweep, WriteStatus, Goto, Undertaken
<1>4. CASE UpdateSession \/ EndDiscovery
  BY <1>4 DEF UpdateSession, EndDiscovery, NoDiscovery, Undertaken
<1>5. CASE RulesNewWork \/ RulesLaunch \/ UNCHANGED rvars
  BY <1>5 DEF RulesNewWork, RulesLaunch, rvars, Undertaken
<1> QED
  BY <1>1, <1>2, <1>3, <1>4, <1>5 DEF RulesNext

\* What is written or confirmed as an inventory is undisputed, whatever the
\* documents, the code and the hints.
THEOREM ViolationsAlwaysDominate == RulesSpec => []ViolationsDominate
<1>1. RulesInit => Undertaken
  BY DEF RulesInit, NoDiscovery, Undertaken
<1>2. Undertaken => ViolationsDominate
  <2> SUFFICES ASSUME Undertaken, discovery.at \in {"inventory", "compare"} PROVE ViolationsDominate
    BY DEF ViolationsDominate
  <2>1. /\ discovery.input \in Inputs /\ discovery.report = Discovered(discovery.input)
        /\ Discovered(discovery.input).compliant /\ Discovered(discovery.input).sufficient
    BY DEF Undertaken
  <2>2. Undisputed(discovery.input.repository, discovery.input.hints, discovery.report.rules)
    BY <2>1, CompliantIsUndisputed
  <2> QED
    BY <2>2, Zenon DEF Undisputed, ViolationsDominate, Written, AdmittedOf, SoundOf, CodeOf
<1> QED
  BY <1>1, <1>2, UndertakenStep, PTL DEF RulesSpec

-----------------------------------------------------------------------------
(* The installer.                                                            *)

Named == Files \cup {BindingFile}
Deletable == Named \cup Launchers \cup {HealthFile}
Tallies == [jobs : Nat, edits : Nat, stops : Nat]
Texts == [own : BOOLEAN, plugin : BOOLEAN]

InstallTyped ==
    /\ disk \in [Files -> Released \cup UserTexts \cup {Missing, Torn}]
    /\ launcher \in [Launchers -> Interpreters \cup {Missing, Torn}]
    /\ settings \in Texts \cup {Missing, Torn}
    /\ Read(manifest) => manifest.files \subseteq Named
    /\ todo \subseteq Deletable /\ written \subseteq Named
    /\ health \in BOOLEAN /\ clock \in Nat
    /\ tally \in Tallies

\* A stage is one of the job that runs, and only an ended job has no result.
CourseKept ==
    /\ stage \in {"idle"} \cup InstallStages \cup UninstallStages
    /\ result \in {"none", "ok", "errors"}
    /\ stage # "idle" => result # "none"
    /\ result # "none" => job \in Jobs
    /\ stage \in InstallStages => job.verb = "install"
    /\ stage \in UninstallStages => job.verb = "uninstall"

\* The stages with the launcher in place, in part and as a whole.
LauncherBound ==
    /\ stage \in {"wrapper", "health", "copy", "settings", "inject"} =>
          ~BindingFails /\ launcher["bin/PYTHON_BINDING"] = Bound
    /\ stage \in {"health", "copy", "settings", "inject"} => launcher["bin/wrapper"] = Bound

\* Of these files each is there, the release's if forced and then listed.
Placed(files) ==
    \A f \in files : disk[f] # Missing /\ (job.force => disk[f] = job.release /\ f \in written)

ListedAreOwn == \A f \in written \ {BindingFile} : disk[f] = job.release
ExtrasAreGone == \A f \in Extras : disk[f] = Missing

FilesPlaced ==
    /\ stage \in {"binding", "launcher", "wrapper", "health"} =>
          todo = Shipped[job.release] /\ written \subseteq {BindingFile}
    /\ stage = "copy" =>
          /\ todo \subseteq Shipped[job.release]
          /\ written \cap todo = {} /\ written \subseteq Shipped[job.release] \cup {BindingFile}
          /\ Placed(Shipped[job.release] \ todo) /\ ListedAreOwn
    /\ stage \in {"settings", "inject"} =>
          Placed(Shipped[job.release]) /\ ListedAreOwn /\ ExtrasAreGone
    /\ stage = "inject" =>
          /\ todo \subseteq Rails /\ \A f \in Rails \ todo : ~Placeholder(f)
          /\ settings \in Texts /\ settings.plugin

\* Of these files only some that are locked are left, and the job knows it.
Gone(files) == \A f \in files : Present(f) => f \in locked /\ result = "errors"

TargetsGone ==
    /\ stage = "delete" => Gone(Targets(job) \ todo)
    /\ stage \in {"payload", "forget"} => Gone(Targets(job)) /\ Gone(Rails \cup Extras)
    /\ stage = "forget" => Gone(Payload)
    /\ stage = "unplug" =>
          /\ Gone(Rails \cup Extras \cup Payload \cup KnownTargets(job))
          /\ Read(manifest) => ManifestFile \in locked

\* A copy is of a job there was; until a job has come to a file it has no copy of it.
CopiesAreOfJobs ==
    /\ \A b \in backups : b.job \in Nat /\ b.job <= tally.jobs
    /\ stage = "binding" => \A b \in backups : b.job # tally.jobs
    /\ stage \in {"launcher", "wrapper", "health", "copy"} =>
          \A b \in backups : b.job = tally.jobs => \A f \in todo : b.at # <<"config", f>>

InstallInv ==
    InstallTyped /\ CourseKept /\ LauncherBound /\ FilesPlaced /\ TargetsGone /\ CopiesAreOfJobs
        /\ CompletedIsWhole /\ UninstallTakesAll

\* The marks and the kinds of files, apart as the assumptions have them.
LEMMA MarksApart ==
    /\ Generated \cap Files = {} /\ BindingFile \notin Files /\ Missing # Torn
    /\ Missing \notin Released /\ Torn \notin Released /\ UserTexts \cap Released = {}
    /\ User \in UserTexts /\ Marked \in UserTexts /\ Changed \in UserTexts
    /\ User # Marked /\ Marked # Changed /\ NoKey \notin UserTexts
    /\ Missing \notin UserTexts /\ Torn \notin UserTexts /\ Missing # NoKey /\ Torn # NoKey
    /\ Missing \notin Interpreters /\ Torn \notin Interpreters
    /\ User \notin Interpreters /\ NoKey \notin Interpreters
    /\ Missing \notin Texts /\ Torn \notin Texts
  BY MarksAssumption DEF User, Marked, Changed, UserTexts, NoKey, Texts, Generated

LEMMA FilesApart ==
    /\ Rails \subseteq Files /\ Payload \subseteq Files /\ Plugins \subseteq Files /\ Extras \subseteq Files
    /\ \A r \in Released : Rails \subseteq Shipped[r] /\ Shipped[r] \subseteq Files \ Extras
    /\ Extras \cap (Rails \cup Plugins \cup Payload) = {} /\ Payload \cap (Rails \cup Plugins) = {}
  BY MarksAssumption, InstallAssumption DEF Files

LEMMA JobsTyped ==
    \A j \in Jobs :
        /\ j.verb \in {"install", "uninstall"} /\ j.release \in Released /\ j.python \in Interpreters
        /\ j.force \in BOOLEAN /\ j.backup \in BOOLEAN
  BY InstallAssumption

LEMMA UserTextIsOne == [own |-> TRUE, plugin |-> FALSE] \in Texts
  BY DEF Texts

LEMMA InstallStarts == InstallInit => InstallInv
<1> SUFFICES ASSUME InstallInit PROVE InstallInv
  OBVIOUS
<1>1. InstallTyped
  <2>1. settings \in Texts \cup {Missing, Torn}
    BY UserTextIsOne DEF InstallInit
  <2>2. /\ disk \in [Files -> Released \cup UserTexts \cup {Missing, Torn}]
        /\ launcher \in [Launchers -> Interpreters \cup {Missing, Torn}]
    BY DEF InstallInit
  <2>3. tally \in Tallies /\ health \in BOOLEAN /\ clock \in Nat
    BY DEF InstallInit, Tallies
  <2>4. todo = {} /\ written = {} /\ ~Read(manifest)
    BY DEF InstallInit, Read
  <2> QED
    BY <2>1, <2>2, <2>3, <2>4 DEF InstallTyped
<1>2. CourseKept /\ stage = "idle" /\ result = "none" /\ backups = {}
  BY DEF InstallInit, CourseKept, InstallStages, UninstallStages
<1> QED
  BY <1>1, <1>2 DEF InstallInv, LauncherBound, FilesPlaced, TargetsGone, CopiesAreOfJobs,
     CompletedIsWhole, UninstallTakesAll, Completed

\* Between two jobs, and after one that did not end, there is nothing to keep.
LEMMA NothingUnderWay ==
    ASSUME InstallTyped', CourseKept', stage' = "idle", result' = "none",
           \A b \in backups' : b.job \in Nat /\ b.job <= tally'.jobs
    PROVE  InstallInv'
  BY DEF InstallInv, LauncherBound, FilesPlaced, TargetsGone, CopiesAreOfJobs,
     CompletedIsWhole, UninstallTakesAll, Completed

\* A job that is stopped, or fails, ends idle.
LEMMA StopsTally ==
    ASSUME InstallTyped, NEW next, Then(FALSE, next)
    PROVE  /\ stage' = "idle" /\ result' = "none"
           /\ tally' \in Tallies /\ tally'.jobs = tally.jobs
  BY DEF Then, InstallTyped, Tallies

LEMMA FailsTally ==
    ASSUME InstallTyped, Fails
    PROVE  /\ stage' = "idle" /\ result' = "none"
           /\ tally' \in Tallies /\ tally'.jobs = tally.jobs
  BY DEF Fails, InstallTyped

LEMMA IdleIsOnCourse ==
    ASSUME stage' = "idle", result' = "none" PROVE CourseKept'
  BY DEF CourseKept, InstallStages, UninstallStages

LEMMA TargetsTyped ==
    ASSUME InstallTyped, NEW j \in Jobs
    PROVE  /\ Shipped[j.release] \subseteq Files
           /\ KnownTargets(j) \subseteq Targets(j) /\ Targets(j) \subseteq Deletable
           /\ Read(manifest) => manifest.files \subseteq Targets(j)
  BY JobsTyped, FilesApart DEF KnownTargets, Targets, Deletable, Named, InstallTyped

LEMMA StartKeeps == ASSUME InstallInv, NEW j \in Jobs, StartJob(j) PROVE InstallInv'
<1>1. /\ stage = "idle" /\ job' = j /\ result' = "ok" /\ written' = {}
      /\ tally' = [tally EXCEPT !.jobs = @ + 1]
      /\ \/ j.verb = "install" /\ stage' = "binding" /\ todo' = Shipped[j.release]
         \/ j.verb = "uninstall" /\ stage' = "delete" /\ todo' = Targets(j)
      /\ UNCHANGED <<disk, injected, configFiles, backups, alive>>
  BY DEF StartJob
<1>2. Shipped[j.release] \subseteq Files /\ Targets(j) \subseteq Deletable
  BY TargetsTyped DEF InstallInv
<1>3. clock' = clock + 1 \/ clock' = clock
  BY DEF StartJob
<1>4. InstallTyped'
  <2>1. todo' \subseteq Deletable
    BY <1>1, <1>2 DEF Named, Deletable
  <2>2. tally' \in Tallies /\ tally'.jobs = tally.jobs + 1 /\ clock' \in Nat
    BY <1>1, <1>3 DEF InstallInv, InstallTyped, Tallies
  <2> QED
    BY <1>1, <2>1, <2>2 DEF InstallInv, InstallTyped, configFiles, Read, Named, Files, Released
<1>5. CourseKept'
  BY <1>1 DEF CourseKept, InstallStages, UninstallStages
<1>6. LauncherBound' /\ CompletedIsWhole' /\ UninstallTakesAll'
  BY <1>1 DEF LauncherBound, CompletedIsWhole, UninstallTakesAll, Completed
<1>7. FilesPlaced'
  BY <1>1 DEF FilesPlaced
<1>8. TargetsGone'
  <2>1. Targets(job)' = Targets(j)
    BY <1>1 DEF Targets, KnownTargets, Read, configFiles
  <2> QED
    BY <1>1, <2>1 DEF TargetsGone, Gone
<1>9. CopiesAreOfJobs'
  <2>1. tally'.jobs = tally.jobs + 1 /\ tally.jobs \in Nat
    BY <1>1 DEF InstallInv, InstallTyped, Tallies
  <2>2. \A b \in backups : b.job \in Nat /\ b.job <= tally.jobs
    BY DEF InstallInv, CopiesAreOfJobs
  <2> QED
    BY <1>1, <2>1, <2>2 DEF CopiesAreOfJobs
<1> QED
  BY <1>4, <1>5, <1>6, <1>7, <1>8, <1>9 DEF InstallInv

LEMMA StopKeeps == ASSUME InstallInv, Stop PROVE InstallInv'
<1>1. /\ stage' = "idle" /\ result' = "none"
      /\ tally' \in Tallies /\ tally'.jobs = tally.jobs
  BY StopsTally DEF InstallInv, Stop
<1>2. UNCHANGED <<disk, injected, configFiles, backups, alive, plan, todo, written>>
  BY DEF Stop
<1>3. InstallTyped'
  BY <1>1, <1>2 DEF InstallInv, InstallTyped, configFiles, plan, Read, Named, Files, Released
<1> QED
  BY <1>1, <1>2, <1>3, NothingUnderWay, IdleIsOnCourse DEF InstallInv, CopiesAreOfJobs

LEMMA EditKeeps ==
    ASSUME InstallInv, EditConfig \/ \E f \in Files : EditFile(f)
    PROVE  InstallInv'
<1>1. Edits
  BY DEF EditConfig, EditFile
<1>2. /\ stage' = "idle" /\ result' = "none"
      /\ tally' \in Tallies /\ tally'.jobs = tally.jobs
  BY <1>1 DEF Edits, InstallInv, InstallTyped, Tallies
<1>3. disk' \in [Files -> Released \cup UserTexts \cup {Missing, Torn}]
  BY MarksApart DEF EditConfig, EditFile, InstallInv, InstallTyped
<1>4. settings' \in Texts \cup {Missing, Torn}
  BY UserTextIsOne DEF EditConfig, EditFile, InstallInv, InstallTyped
<1>5. InstallTyped'
  BY <1>1, <1>2, <1>3, <1>4 DEF Edits, plan, InstallInv, InstallTyped, Read, Named, Files, Released
<1> QED
  BY <1>1, <1>2, <1>5, NothingUnderWay, IdleIsOnCourse DEF Edits, InstallInv, CopiesAreOfJobs

-----------------------------------------------------------------------------
(* What a step of an installation leaves. *)

\* A copy is made for the job that runs, and takes the place of none but one of
\* the same file.
LEMMA CopiesKept ==
    ASSUME InstallInv, NEW f, NEW content, NEW b \in WithBackup(f, content)
    PROVE  \/ b \in backups
           \/ b.job = tally.jobs /\ b.at = PlaceOf(f)
  BY DEF WithBackup, WithoutBackup, CopyOf

LEMMA CopyCounted ==
    ASSUME InstallInv, NEW f, NEW content, NEW b,
           b \in backups \/ b \in WithBackup(f, content) \/ b \in WithoutBackup(f)
    PROVE  b.job \in Nat /\ b.job <= tally.jobs
<1>1. tally.jobs \in Nat
  BY DEF InstallInv, InstallTyped, Tallies
<1>2. b \in WithoutBackup(f) => b \in backups
  BY DEF WithoutBackup
<1> QED
  BY <1>1, <1>2, CopiesKept DEF InstallInv, CopiesAreOfJobs

\* A file that is held up ends the job.
LEMMA HeldUpEnds ==
    ASSUME InstallInv, NEW f, NEW content, NEW whole \in BOOLEAN, HeldUp(f, content, whole)
    PROVE  /\ stage' = "idle" /\ result' = "none" /\ tally' \in Tallies /\ tally'.jobs = tally.jobs
           /\ backups' = WithBackup(f, content) \/ backups' = WithoutBackup(f)
<1>1. CASE Fails /\ backups' = WithBackup(f, content)
  BY <1>1, FailsTally DEF InstallInv
<1>2. CASE Then(FALSE, "idle") /\ backups' = WithoutBackup(f)
  BY <1>2, StopsTally DEF InstallInv
<1> QED
  BY <1>1, <1>2 DEF HeldUp

LEMMA BindingKeeps == ASSUME InstallInv, NEW whole \in BOOLEAN, WriteBinding(whole) PROVE InstallInv'
<1>1. /\ stage = "binding"
      /\ UNCHANGED <<disk, injected, launcher, health, settings, spoiled, manifest, alive, plan, todo>>
  BY DEF WriteBinding
<1>2. written' \subseteq written \cup {BindingFile}
  BY DEF WriteBinding
<1>3. \/ Then(whole, "launcher") /\ (backups' = backups \/ backups' = WithBackup(BindingFile, binding))
      \/ HeldUp(BindingFile, binding, whole)
  BY DEF WriteBinding
<1>4. \A b \in backups' : b.job \in Nat /\ b.job <= tally.jobs
  BY <1>3, CopyCounted, HeldUpEnds
<1>5. ASSUME tally' \in Tallies PROVE InstallTyped'
  BY <1>1, <1>2, <1>5 DEF InstallInv, InstallTyped, plan, Read, Named, Files, Released
<1>6. CASE whole /\ Then(whole, "launcher") /\ (backups' = backups \/ backups' = WithBackup(BindingFile, binding))
  <2>1. stage' = "launcher" /\ result' = result /\ tally' = tally
    BY <1>6 DEF Then
  <2>2. InstallTyped'
    BY <2>1, <1>5 DEF InstallInv, InstallTyped
  <2>3. CourseKept'
    BY <1>1, <2>1 DEF InstallInv, CourseKept, InstallStages, UninstallStages, plan
  <2>4. FilesPlaced'
    BY <1>1, <1>2, <2>1 DEF InstallInv, FilesPlaced, plan
  <2>5. CopiesAreOfJobs'
    <3>1. todo \subseteq Files
      BY <1>1, JobsTyped, FilesApart DEF InstallInv, FilesPlaced, CourseKept
    <3>2. PlaceOf(BindingFile) = <<"config", BindingFile>>
      BY MarksApart, FilesApart DEF PlaceOf
    <3>3. ASSUME NEW b \in backups', b.job = tally.jobs, NEW f \in todo PROVE b.at # <<"config", f>>
      <4>1. b.at = <<"config", BindingFile>>
        BY <1>1, <1>6, <3>2, <3>3, CopiesKept DEF InstallInv, CopiesAreOfJobs
      <4>2. f # BindingFile
        BY <3>1, <3>3, MarksApart
      <4> QED
        BY <4>1, <4>2
    <3> QED
      BY <1>1, <1>4, <2>1, <3>3 DEF CopiesAreOfJobs
  <2> QED
    BY <2>1, <2>2, <2>3, <2>4, <2>5
    DEF InstallInv, LauncherBound, TargetsGone, CompletedIsWhole, UninstallTakesAll, Completed
<1>7. CASE ~whole /\ Then(whole, "launcher")
  <2>1. Then(FALSE, "launcher")
    BY <1>7
  <2> QED
    BY <2>1, <1>4, <1>5, StopsTally, NothingUnderWay, IdleIsOnCourse DEF InstallInv
<1>8. CASE HeldUp(BindingFile, binding, whole)
  BY <1>8, <1>4, <1>5, HeldUpEnds, NothingUnderWay, IdleIsOnCourse
<1> QED
  BY <1>3, <1>6, <1>7, <1>8

LEMMA LauncherKeeps == ASSUME InstallInv, NEW whole \in BOOLEAN, WriteLauncher(whole) PROVE InstallInv'
<1>1. /\ stage \in {"launcher", "wrapper"}
      /\ UNCHANGED <<disk, injected, binding, health, settings, spoiled, manifest,
                     backups, alive, plan, todo, written>>
  BY DEF WriteLauncher
<1>2. job \in Jobs /\ job' = job
  BY <1>1 DEF InstallInv, CourseKept, plan
<1>3. Bound \in Interpreters /\ Bound' = Bound /\ BindingFails' = BindingFails
  BY <1>1, <1>2, JobsTyped DEF Bound, BindingFails
<1>4. launcher' \in [Launchers -> Interpreters \cup {Missing, Torn}]
  BY <1>3 DEF WriteLauncher, InstallInv, InstallTyped, Launchers, Launcher
<1>5. ASSUME tally' \in Tallies PROVE InstallTyped'
  BY <1>1, <1>4, <1>5 DEF InstallInv, InstallTyped, plan, Read, Named, Files, Released
<1>6. \A b \in backups' : b.job \in Nat /\ b.job <= tally.jobs
  BY <1>1 DEF InstallInv, CopiesAreOfJobs
<1>7. CASE stage' = "idle" /\ result' = "none"
  <2>1. tally' \in Tallies /\ tally'.jobs = tally.jobs
    BY <1>1, <1>7 DEF WriteLauncher, Then, Fails, InstallInv, InstallTyped, Tallies
  <2> QED
    BY <1>5, <1>6, <1>7, <2>1, NothingUnderWay, IdleIsOnCourse
<1>8. CASE whole /\ ~BindingFails /\ Launcher \notin locked
  <2>1. /\ stage' = (IF stage = "launcher" THEN "wrapper" ELSE "health") /\ result' = result /\ tally' = tally
        /\ launcher' = [launcher EXCEPT ![IF stage = "launcher" THEN "bin/PYTHON_BINDING" ELSE "bin/wrapper"] = Bound]
    BY <1>8 DEF WriteLauncher, Then, Launcher
  <2>2. InstallTyped'
    BY <2>1, <1>5 DEF InstallInv, InstallTyped
  <2>3. CourseKept'
    BY <1>1, <2>1 DEF InstallInv, CourseKept, InstallStages, UninstallStages, plan
  <2>4. LauncherBound'
    <3>1. CASE stage = "launcher"
      <4>1. launcher' = [launcher EXCEPT !["bin/PYTHON_BINDING"] = Bound] /\ stage' = "wrapper"
        BY <2>1, <3>1
      <4>2. launcher'["bin/PYTHON_BINDING"] = Bound
        BY <4>1 DEF InstallInv, InstallTyped, Launchers
      <4> QED
        BY <4>1, <4>2, <1>3, <1>8 DEF LauncherBound
    <3>2. CASE stage = "wrapper"
      <4>1. launcher' = [launcher EXCEPT !["bin/wrapper"] = Bound] /\ stage' = "health"
        BY <2>1, <3>2
      <4>2. launcher'["bin/wrapper"] = Bound /\ launcher'["bin/PYTHON_BINDING"] = launcher["bin/PYTHON_BINDING"]
        BY <4>1 DEF InstallInv, InstallTyped, Launchers
      <4> QED
        BY <4>1, <4>2, <1>3, <1>8, <3>2 DEF LauncherBound, InstallInv
    <3> QED
      BY <1>1, <3>1, <3>2
  <2>5. FilesPlaced'
    BY <1>1, <1>2, <2>1 DEF InstallInv, FilesPlaced
  <2>6. CopiesAreOfJobs'
    BY <1>1, <2>1 DEF InstallInv, CopiesAreOfJobs
  <2> QED
    BY <1>1, <2>1, <2>2, <2>3, <2>4, <2>5, <2>6
    DEF InstallInv, TargetsGone, CompletedIsWhole, UninstallTakesAll, Completed
<1> QED
  BY <1>7, <1>8 DEF WriteLauncher, Then, Fails

LEMMA HealthKeeps == ASSUME InstallInv, WriteHealth PROVE InstallInv'
<1>1. /\ stage = "health" /\ health' = TRUE
      /\ IF HealthFile \in locked THEN Fails ELSE Then(TRUE, "copy")
      /\ UNCHANGED <<disk, injected, binding, launcher, settings, spoiled, manifest,
                     backups, alive, plan, todo, written>>
  BY DEF WriteHealth
<1>2. job \in Jobs /\ job' = job
  BY <1>1 DEF InstallInv, CourseKept, plan
<1>3. tally' = tally
  BY <1>1 DEF Fails, Then
<1>4. InstallTyped'
  BY <1>1, <1>3 DEF InstallInv, InstallTyped, plan, Read, Named, Files, Released
<1>5. CASE HealthFile \in locked
  BY <1>1, <1>3, <1>4, <1>5, NothingUnderWay, IdleIsOnCourse DEF Fails, InstallInv, CopiesAreOfJobs
<1>6. CASE HealthFile \notin locked
  <2>1. stage' = "copy" /\ result' = result
    BY <1>1, <1>6 DEF Then
  <2>2. CourseKept'
    BY <1>1, <2>1 DEF InstallInv, CourseKept, InstallStages, UninstallStages, plan
  <2>3. LauncherBound'
    BY <1>1, <1>2, <2>1 DEF InstallInv, LauncherBound, Bound, BindingFails
  <2>4. FilesPlaced'
    <3>1. todo = Shipped[job.release] /\ written \subseteq {BindingFile}
      BY <1>1 DEF InstallInv, FilesPlaced
    <3>2. BindingFile \notin Shipped[job.release]
      BY <1>2, JobsTyped, FilesApart, MarksApart
    <3> QED
      BY <1>1, <1>2, <2>1, <3>1, <3>2 DEF FilesPlaced, Placed, ListedAreOwn
  <2>5. CopiesAreOfJobs'
    BY <1>1, <1>3, <2>1 DEF InstallInv, CopiesAreOfJobs
  <2> QED
    BY <2>1, <1>4, <2>2, <2>3, <2>4, <2>5
    DEF InstallInv, TargetsGone, CompletedIsWhole, UninstallTakesAll, Completed
<1> QED
  BY <1>5, <1>6

\* A file is copied: it is the release's, or was there and is left, and what
\* comes after it has no copy yet.
LEMMA CopyKeepsFiles == ASSUME InstallInv, NEW whole \in BOOLEAN, Copy(whole) PROVE InstallInv'
<1>1. /\ stage = "copy" /\ UNCHANGED <<configFiles, alive, plan>>
      /\ \E f \in todo : todo' = todo \ {f} /\ PlaceFile(f, whole)
  BY DEF Copy
<1>2. PICK f \in todo : todo' = todo \ {f} /\ PlaceFile(f, whole)
  BY <1>1
<1>3. /\ job \in Jobs /\ job' = job /\ job.release \in Released /\ Shipped[job.release] \subseteq Files \ Extras
      /\ todo \subseteq Shipped[job.release] /\ f \in Files /\ f # BindingFile
  BY <1>1, JobsTyped, FilesApart, MarksApart DEF InstallInv, CourseKept, FilesPlaced, plan
<1>4. UNCHANGED <<binding, launcher, health, settings, spoiled, manifest, alive, job, locked>>
  BY <1>1 DEF configFiles, plan
<1>5. \A b \in backups' : b.job \in Nat /\ b.job <= tally.jobs
  <2>1. backups' = backups \/ backups' = WithBackup(f, disk[f]) \/ HeldUp(f, disk[f], whole)
    BY <1>2 DEF PlaceFile
  <2> QED
    BY <2>1, CopyCounted, HeldUpEnds
<1>6. /\ disk' \in [Files -> Released \cup UserTexts \cup {Missing, Torn}]
      /\ todo' \subseteq Deletable /\ written' \subseteq Named
  BY <1>2, <1>3 DEF PlaceFile, InstallInv, InstallTyped, Named
<1>7. ASSUME tally' \in Tallies PROVE InstallTyped'
  BY <1>1, <1>4, <1>6, <1>7 DEF InstallInv, InstallTyped, plan, Read, Named, Files, Released
<1>8. CASE HeldUp(f, disk[f], whole) \/ Then(FALSE, "copy")
  BY <1>5, <1>7, <1>8, HeldUpEnds, StopsTally, NothingUnderWay, IdleIsOnCourse DEF InstallInv
<1>9. CASE /\ Then(TRUE, "copy")
           /\ \/ Skips(f) /\ UNCHANGED <<disk, backups, written>>
              \/ /\ disk' = [disk EXCEPT ![f] = job.release] /\ written' = written \cup {f}
                 /\ backups' = WithBackup(f, disk[f])
  <2>1. stage' = "copy" /\ result' = result /\ tally' = tally
    BY <1>9 DEF Then
  <2>2. InstallTyped'
    BY <2>1, <1>7 DEF InstallInv, InstallTyped
  <2>3. CourseKept'
    BY <1>1, <1>4, <2>1 DEF InstallInv, CourseKept, InstallStages, UninstallStages
  <2>4. LauncherBound'
    BY <1>1, <1>4, <2>1 DEF InstallInv, LauncherBound, Bound, BindingFails
  <2>5. \/ Skips(f) /\ UNCHANGED <<disk, backups, written>>
        \/ /\ disk' = [disk EXCEPT ![f] = job.release] /\ written' = written \cup {f}
           /\ backups' = WithBackup(f, disk[f])
    BY <1>9
  <2>6. FilesPlaced'
    <3>1. /\ written \cap todo = {} /\ written \subseteq Shipped[job.release] \cup {BindingFile}
          /\ Placed(Shipped[job.release] \ todo) /\ ListedAreOwn
      BY <1>1 DEF InstallInv, FilesPlaced
    <3>2. \A g \in Files \ {f} : disk'[g] = disk[g]
      BY <2>5, <1>3 DEF InstallInv, InstallTyped
    <3>3. \/ Skips(f) /\ written' = written /\ disk'[f] = disk[f]
          \/ disk'[f] = job.release /\ written' = written \cup {f}
      BY <2>5, <1>3 DEF InstallInv, InstallTyped
    <3>4. Placed(Shipped[job.release] \ todo)'
      <4>1. ASSUME NEW g \in Shipped[job.release] \ todo' PROVE
              disk'[g] # Missing /\ (job.force => disk'[g] = job.release /\ g \in written')
        <5>1. CASE g = f
          BY <5>1, <3>3, <1>3, MarksApart DEF Skips
        <5>2. CASE g # f
          <6>1. disk'[g] = disk[g] /\ g \in Shipped[job.release] \ todo
            BY <5>2, <1>2, <1>3, <3>2
          <6> QED
            BY <6>1, <3>1, <3>3 DEF Placed
        <5> QED
          BY <5>1, <5>2
      <4> QED
        BY <4>1, <1>4 DEF Placed
    <3>5. ListedAreOwn'
      <4>1. ASSUME NEW g \in written' \ {BindingFile} PROVE disk'[g] = job.release
        <5>1. CASE g \in written
          <6>1. g # f /\ g \in Files
            BY <5>1, <4>1, <3>1 DEF InstallInv, InstallTyped, Named
          <6> QED
            BY <6>1, <5>1, <4>1, <3>1, <3>2 DEF ListedAreOwn
        <5>2. CASE g \notin written
          BY <5>2, <4>1, <3>3
        <5> QED
          BY <5>1, <5>2
      <4> QED
        BY <4>1, <1>4 DEF ListedAreOwn
    <3>6. /\ todo' \subseteq Shipped[job.release] /\ written' \cap todo' = {}
          /\ written' \subseteq Shipped[job.release] \cup {BindingFile}
      BY <1>2, <1>3, <3>1, <3>3
    <3> QED
      BY <3>4, <3>5, <3>6, <1>4, <2>1 DEF FilesPlaced, Placed
  <2>7. CopiesAreOfJobs'
    <3>1. ASSUME NEW b \in backups', b.job = tally.jobs, NEW g \in todo' PROVE b.at # <<"config", g>>
      <4>1. g # f /\ g \in todo
        BY <1>2, <3>1
      <4>2. CASE b \in backups
        BY <4>1, <4>2, <3>1, <1>1 DEF InstallInv, CopiesAreOfJobs
      <4>3. CASE b.at = PlaceOf(f)
        BY <4>1, <4>3 DEF PlaceOf
      <4> QED
        BY <4>2, <4>3, <2>5, <3>1, CopiesKept
    <3> QED
      BY <2>1, <1>5, <3>1 DEF CopiesAreOfJobs
  <2> QED
    BY <2>1, <2>2, <2>3, <2>4, <2>6, <2>7
    DEF InstallInv, TargetsGone, CompletedIsWhole, UninstallTakesAll, Completed
<1>10. \/ HeldUp(f, disk[f], whole) \/ Then(FALSE, "copy")
       \/ /\ Then(TRUE, "copy")
          /\ \/ Skips(f) /\ UNCHANGED <<disk, backups, written>>
             \/ /\ disk' = [disk EXCEPT ![f] = job.release] /\ written' = written \cup {f}
                /\ backups' = WithBackup(f, disk[f])
  <2>1. CASE whole
    BY <2>1, <1>2 DEF PlaceFile
  <2>2. CASE ~whole
    BY <2>2, <1>2 DEF PlaceFile
  <2> QED
    BY <2>1, <2>2
<1> QED
  BY <1>8, <1>9, <1>10

LEMMA HygieneKeeps == ASSUME InstallInv, EnforceHygiene PROVE InstallInv'
<1>1. /\ stage = "copy" /\ todo = {}
      /\ disk' = [f \in Files |-> IF f \in Extras \ locked THEN Missing ELSE disk[f]]
      /\ IF \E f \in Extras : disk'[f] # Missing THEN Fails ELSE Then(TRUE, "settings")
      /\ UNCHANGED <<injected, configFiles, backups, alive, plan, todo, written>>
  BY DEF EnforceHygiene
<1>2. /\ job \in Jobs /\ job' = job /\ job.release \in Released
      /\ Shipped[job.release] \subseteq Files \ Extras
  BY <1>1, JobsTyped, FilesApart DEF InstallInv, CourseKept, plan
<1>3. UNCHANGED <<binding, launcher, health, settings, spoiled, manifest, alive, job, locked>>
  BY <1>1 DEF configFiles, plan
<1>4. /\ tally' = tally
      /\ disk' \in [Files -> Released \cup UserTexts \cup {Missing, Torn}]
  BY <1>1 DEF Fails, Then, InstallInv, InstallTyped
<1>5. InstallTyped'
  BY <1>1, <1>3, <1>4 DEF InstallInv, InstallTyped, plan, Read, Named, Files, Released
<1>6. CASE \E f \in Extras : disk'[f] # Missing
  BY <1>1, <1>4, <1>5, <1>6, NothingUnderWay, IdleIsOnCourse DEF Fails, InstallInv, CopiesAreOfJobs
<1>7. CASE ~ \E f \in Extras : disk'[f] # Missing
  <2>1. stage' = "settings" /\ result' = result
    BY <1>1, <1>7 DEF Then
  <2>2. CourseKept'
    BY <1>1, <1>3, <2>1 DEF InstallInv, CourseKept, InstallStages, UninstallStages
  <2>3. LauncherBound'
    BY <1>1, <1>3, <2>1 DEF InstallInv, LauncherBound, Bound, BindingFails
  <2>4. \A f \in Files \ Extras : disk'[f] = disk[f]
    BY <1>1
  <2>5. Placed(Shipped[job.release]) /\ ListedAreOwn
    BY <1>1 DEF InstallInv, FilesPlaced, Placed
  <2>6. Placed(Shipped[job.release])'
    BY <1>1, <1>2, <2>4, <2>5 DEF Placed
  <2>7. ListedAreOwn'
    <3>1. written \ {BindingFile} \subseteq Files \ Extras
      BY <1>1, <1>2 DEF InstallInv, FilesPlaced
    <3> QED
      BY <3>1, <2>4, <2>5, <1>1, <1>2 DEF ListedAreOwn
  <2>8. ExtrasAreGone'
    BY <1>7 DEF ExtrasAreGone
  <2>9. CopiesAreOfJobs'
    BY <1>1, <1>4, <2>1 DEF InstallInv, CopiesAreOfJobs
  <2> QED
    BY <2>1, <1>5, <2>2, <2>3, <2>6, <2>7, <2>8, <2>9
    DEF InstallInv, FilesPlaced, TargetsGone, CompletedIsWhole, UninstallTakesAll, Completed
<1> QED
  BY <1>6, <1>7

LEMMA SettingsKeep == ASSUME InstallInv, NEW whole \in BOOLEAN, EnsureSettings(whole) PROVE InstallInv'
<1>1. /\ stage = "settings" /\ todo' = Rails
      /\ UNCHANGED <<disk, injected, binding, launcher, health, manifest, backups, alive, plan, written>>
  BY DEF EnsureSettings
<1>2. /\ job \in Jobs /\ job' = job /\ locked' = locked /\ job.release \in Released
  BY <1>1, JobsTyped DEF InstallInv, CourseKept, plan
<1>3. \/ Then(TRUE, "inject") /\ settings' = [own |-> Read(settings) /\ settings.own, plugin |-> TRUE]
      \/ Then(FALSE, "inject") /\ settings' = Torn
      \/ Fails /\ settings' = settings
  <2>1. CASE whole
    BY <2>1 DEF EnsureSettings
  <2>2. CASE ~whole
    BY <2>2 DEF EnsureSettings
  <2> QED
    BY <2>1, <2>2
<1>4. [own |-> Read(settings) /\ settings.own, plugin |-> TRUE] \in Texts
  <2>1. (Read(settings) /\ settings.own) \in BOOLEAN
    BY DEF InstallInv, InstallTyped, Texts, Read
  <2> QED
    BY <2>1 DEF Texts
<1>5. settings' \in Texts \cup {Missing, Torn} /\ todo' \subseteq Deletable
  BY <1>1, <1>3, <1>4, FilesApart DEF Deletable, Named, InstallInv, InstallTyped
<1>6. ASSUME tally' \in Tallies PROVE InstallTyped'
  BY <1>1, <1>5, <1>6 DEF InstallInv, InstallTyped, plan, Read, Named, Files, Released
<1>7. \A b \in backups' : b.job \in Nat /\ b.job <= tally.jobs
  BY <1>1 DEF InstallInv, CopiesAreOfJobs
<1>8. CASE Then(FALSE, "inject") \/ Fails
  BY <1>8, <1>6, <1>7, StopsTally, FailsTally, NothingUnderWay, IdleIsOnCourse DEF InstallInv
<1>9. CASE Then(TRUE, "inject") /\ settings' = [own |-> Read(settings) /\ settings.own, plugin |-> TRUE]
  <2>1. /\ stage' = "inject" /\ result' = result /\ tally' = tally
        /\ settings' \in Texts /\ settings'.plugin
    BY <1>4, <1>9 DEF Then
  <2>2. InstallTyped'
    BY <2>1, <1>6 DEF InstallInv, InstallTyped
  <2>3. CourseKept'
    BY <1>1, <1>2, <2>1 DEF InstallInv, CourseKept, InstallStages, UninstallStages
  <2>4. LauncherBound'
    BY <1>1, <1>2, <2>1 DEF InstallInv, LauncherBound, Bound, BindingFails
  <2>5. FilesPlaced'
    BY <1>1, <1>2, <2>1
    DEF InstallInv, FilesPlaced, Placed, ListedAreOwn, ExtrasAreGone
  <2>6. CopiesAreOfJobs'
    BY <1>1, <1>7, <2>1 DEF CopiesAreOfJobs
  <2> QED
    BY <2>1, <2>2, <2>3, <2>4, <2>5, <2>6
    DEF InstallInv, TargetsGone, CompletedIsWhole, UninstallTakesAll, Completed
<1> QED
  BY <1>3, <1>8, <1>9

LEMMA InjectKeeps == ASSUME InstallInv, NEW whole \in BOOLEAN, InjectRail(whole) PROVE InstallInv'
<1>1. PICK f \in todo :
          /\ stage = "inject" /\ todo' = todo \ {f} /\ InjectFile(f, whole)
          /\ UNCHANGED <<configFiles, backups, alive, plan, written>>
  BY DEF InjectRail
<1>2. /\ job \in Jobs /\ job' = job /\ locked' = locked /\ job.release \in Released
      /\ UNCHANGED <<binding, launcher, health, settings, spoiled, manifest, clock>>
  BY <1>1, JobsTyped DEF InstallInv, CourseKept, plan, configFiles
<1>3. /\ todo \subseteq Rails /\ f \in Files
      /\ Placed(Shipped[job.release]) /\ ListedAreOwn /\ ExtrasAreGone
      /\ \A g \in Rails \ todo : ~Placeholder(g)
      /\ settings \in Texts /\ settings.plugin
  BY <1>1, FilesApart DEF InstallInv, FilesPlaced
<1>4. \/ Fails /\ disk' = disk
      \/ Then(FALSE, "inject") /\ disk' = [disk EXCEPT ![f] = Torn]
      \/ Then(TRUE, "inject") /\ disk' = disk /\ ~Placeholder(f) /\ injected' = injected
      \/ /\ Then(TRUE, "inject") /\ Placeholder(f) /\ injected' = injected \cup {f}
         /\ disk' = [disk EXCEPT ![f] = IF @ = Marked THEN Changed ELSE @]
  <2>1. CASE whole
    BY <2>1, <1>1 DEF InjectFile
  <2>2. CASE ~whole
    BY <2>2, <1>1 DEF InjectFile
  <2> QED
    BY <2>1, <2>2
<1>5. disk' \in [Files -> Released \cup UserTexts \cup {Missing, Torn}] /\ todo' \subseteq Deletable
  BY <1>1, <1>4, MarksApart DEF InstallInv, InstallTyped
<1>6. ASSUME tally' \in Tallies PROVE InstallTyped'
  BY <1>1, <1>2, <1>5, <1>6 DEF InstallInv, InstallTyped, Read, Named, Files, Released
<1>7. \A b \in backups' : b.job \in Nat /\ b.job <= tally.jobs
  BY <1>1 DEF InstallInv, CopiesAreOfJobs
<1>8. CASE Fails \/ Then(FALSE, "inject")
  BY <1>8, <1>6, <1>7, StopsTally, FailsTally, NothingUnderWay, IdleIsOnCourse DEF InstallInv
<1>9. CASE /\ Then(TRUE, "inject")
           /\ \/ disk' = disk /\ ~Placeholder(f) /\ injected' = injected
              \/ /\ Placeholder(f) /\ injected' = injected \cup {f}
                 /\ disk' = [disk EXCEPT ![f] = IF @ = Marked THEN Changed ELSE @]
  <2>1. stage' = "inject" /\ result' = result /\ tally' = tally
    BY <1>9 DEF Then
  <2>2. InstallTyped'
    BY <2>1, <1>6 DEF InstallInv, InstallTyped
  <2>3. CourseKept'
    BY <1>1, <1>2, <2>1 DEF InstallInv, CourseKept, InstallStages, UninstallStages
  <2>4. LauncherBound'
    BY <1>1, <1>2, <2>1 DEF InstallInv, LauncherBound, Bound, BindingFails
  <2>5. /\ \A g \in Files : g # f => disk'[g] = disk[g]
        /\ disk'[f] = IF disk[f] = Marked THEN Changed ELSE disk[f]
        /\ \A g \in Rails : g # f => (g \in injected' <=> g \in injected)
    <3>1. CASE disk' = disk /\ ~Placeholder(f) /\ injected' = injected
      BY <3>1 DEF Placeholder
    <3>2. CASE /\ injected' = injected \cup {f}
               /\ disk' = [disk EXCEPT ![f] = IF @ = Marked THEN Changed ELSE @]
      BY <3>2, <1>3 DEF InstallInv, InstallTyped
    <3> QED
      BY <3>1, <3>2, <1>9
  <2>6. \A g \in Files : disk'[g] = Missing <=> disk[g] = Missing
    BY <2>5, MarksApart
  <2>7. \A g \in Files : disk[g] = job.release => disk'[g] = job.release
    BY <2>5, <1>2, MarksApart
  <2>8. \A g \in Rails \ todo' : ~Placeholder(g)'
    <3>1. ASSUME NEW g \in Rails \ todo', g # f PROVE ~Placeholder(g)'
      <4>1. ~Placeholder(g) /\ disk'[g] = disk[g] /\ (g \in injected' <=> g \in injected)
        BY <1>1, <1>3, <2>5, <3>1, FilesApart
      <4> QED
        BY <4>1 DEF Placeholder, Released
    <3>2. ~Placeholder(f)'
      <4>1. CASE disk[f] = Marked
        BY <4>1, <2>5, MarksApart DEF Placeholder, Released
      <4>2. CASE disk[f] # Marked
        <5>1. disk'[f] = disk[f] /\ (disk[f] \in Released => f \in injected')
          BY <4>2, <1>9, <2>5 DEF Placeholder
        <5> QED
          BY <5>1, <4>2 DEF Placeholder, Released
      <4> QED
        BY <4>1, <4>2
    <3> QED
      BY <3>1, <3>2
  <2>9. Placed(Shipped[job.release])' /\ ListedAreOwn' /\ ExtrasAreGone'
    <3>1. Shipped[job.release] \subseteq Files /\ Extras \subseteq Files
      BY <1>2, FilesApart
    <3>2. written \subseteq Files \cup {BindingFile}
      BY DEF InstallInv, InstallTyped, Named
    <3>3. written' = written /\ Shipped[job.release]' = Shipped[job.release]
      BY <1>1, <1>2
    <3>4. Placed(Shipped[job.release])'
      BY <1>2, <1>3, <2>6, <2>7, <3>1, <3>3 DEF Placed
    <3>5. ListedAreOwn'
      BY <1>2, <1>3, <2>7, <3>2, <3>3 DEF ListedAreOwn
    <3>6. ExtrasAreGone'
      BY <1>3, <2>6, <3>1 DEF ExtrasAreGone
    <3> QED
      BY <3>4, <3>5, <3>6
  <2>10. FilesPlaced'
    <3>1. todo' \subseteq Rails /\ settings' \in Texts /\ settings'.plugin
      BY <1>1, <1>2, <1>3
    <3>2. (\A g \in Rails \ todo : ~Placeholder(g))'
      BY <2>8
    <3> QED
      BY <2>1, <2>9, <3>1, <3>2, Zenon DEF FilesPlaced, Texts
  <2>11. CopiesAreOfJobs'
    BY <1>1, <1>7, <2>1 DEF CopiesAreOfJobs
  <2> QED
    BY <2>1, <2>2, <2>3, <2>4, <2>10, <2>11
    DEF InstallInv, TargetsGone, CompletedIsWhole, UninstallTakesAll, Completed
<1> QED
  BY <1>4, <1>8, <1>9

\* The end of an installation: what has been put in place is what it promises.
LEMMA ManifestKeeps == ASSUME InstallInv, NEW whole \in BOOLEAN, WriteManifest(whole) PROVE InstallInv'
<1>1. /\ stage = "inject" /\ todo = {}
      /\ \/ Then(TRUE, "idle") /\ manifest' = [release |-> job.release, files |-> written]
         \/ (Then(FALSE, "idle") \/ Fails) /\ manifest' \in {Torn, manifest}
      /\ UNCHANGED <<disk, injected, binding, launcher, health, settings, spoiled,
                     backups, alive, plan, todo, written>>
  <2>1. CASE whole
    BY <2>1 DEF WriteManifest
  <2>2. CASE ~whole
    BY <2>2 DEF WriteManifest
  <2> QED
    BY <2>1, <2>2
<1>2. /\ job \in Jobs /\ job' = job /\ locked' = locked /\ job.verb = "install"
  BY <1>1 DEF InstallInv, CourseKept, plan, InstallStages
<1>3. Read(manifest)' => manifest'.files \subseteq Named
  <2>1. written \subseteq Named /\ (Read(manifest) => manifest.files \subseteq Named)
    BY DEF InstallInv, InstallTyped
  <2>2. CASE manifest' = [release |-> job.release, files |-> written]
    BY <2>1, <2>2
  <2>3. CASE manifest' \in {Torn, manifest}
    BY <2>1, <2>3 DEF Read
  <2> QED
    BY <1>1, <2>2, <2>3
<1>4. ASSUME tally' \in Tallies PROVE InstallTyped'
  BY <1>1, <1>3, <1>4 DEF InstallInv, InstallTyped, plan, Read, Named, Files, Released
<1>5. \A b \in backups' : b.job \in Nat /\ b.job <= tally.jobs
  BY <1>1 DEF InstallInv, CopiesAreOfJobs
<1>6. CASE Then(FALSE, "idle") \/ Fails
  BY <1>6, <1>4, <1>5, StopsTally, FailsTally, NothingUnderWay, IdleIsOnCourse DEF InstallInv
<1>7. CASE Then(TRUE, "idle") /\ manifest' = [release |-> job.release, files |-> written]
  <2>1. stage' = "idle" /\ result' = result /\ tally' = tally /\ manifest'.files = written
    BY <1>7 DEF Then
  <2>2. InstallTyped'
    BY <2>1, <1>4 DEF InstallInv, InstallTyped
  <2>3. CourseKept'
    BY <1>1, <1>2, <2>1 DEF InstallInv, CourseKept, InstallStages, UninstallStages
  <2>4. LauncherBound' /\ FilesPlaced' /\ TargetsGone'
    BY <2>1 DEF LauncherBound, FilesPlaced, TargetsGone
  <2>5. CopiesAreOfJobs'
    BY <1>1, <1>5, <2>1 DEF CopiesAreOfJobs
  <2>6. CompletedIsWhole'
    <3>1. /\ Placed(Shipped[job.release]) /\ ListedAreOwn /\ ExtrasAreGone
          /\ \A f \in Rails : ~Placeholder(f)
      BY <1>1 DEF InstallInv, FilesPlaced
    <3>2. /\ launcher["bin/PYTHON_BINDING"] = Bound /\ launcher["bin/wrapper"] = Bound /\ ~BindingFails
      BY <1>1 DEF InstallInv, LauncherBound
    <3>3. settings.plugin
      BY <1>1 DEF InstallInv, FilesPlaced
    <3>4. \A f \in Shipped[job.release] :
              disk'[f] # Missing /\ (job.force => disk'[f] = job.release /\ f \in manifest'.files)
      BY <1>1, <2>1, <3>1 DEF Placed
    <3>5. /\ \A f \in Extras : disk'[f] = Missing
          /\ \A f \in Rails : (disk'[f] \in Released => f \in injected') /\ disk'[f] # Marked
          /\ \A f \in manifest'.files \ {BindingFile} : disk'[f] = job.release
      BY <1>1, <2>1, <3>1 DEF ListedAreOwn, ExtrasAreGone, Placeholder
    <3>6. /\ launcher'["bin/PYTHON_BINDING"] = launcher'["bin/wrapper"] /\ launcher'["bin/wrapper"] \in alive'
          /\ binding' \in Interpreters => binding' = launcher'["bin/wrapper"]
      BY <1>1, <3>2 DEF Bound, BindingFails
    <3>7. Released' = Released /\ job' = job /\ settings' = settings
      BY <1>1, <1>2 DEF Released
    <3> QED
      BY <3>3, <3>4, <3>5, <3>6, <3>7 DEF CompletedIsWhole, Placeholder, Released
  <2>7. UninstallTakesAll'
    BY <1>2, <2>1 DEF UninstallTakesAll, Completed
  <2> QED
    BY <2>2, <2>3, <2>4, <2>5, <2>6, <2>7 DEF InstallInv
<1> QED
  BY <1>1, <1>6, <1>7

-----------------------------------------------------------------------------
(* What a step of an uninstall leaves. *)

\* Each kind of file is at a path of its own, so what is there is told by its part
\* of the state alone.
LEMMA PresentIs ==
    /\ \A f \in Files : Present(f) <=> disk[f] # Missing
    /\ \A l \in Launchers : Present(l) <=> launcher[l] # Missing
    /\ Present(BindingFile) <=> binding # Missing
    /\ Present(HealthFile) <=> health
<1>1. Generated \cap Files = {} /\ Generated = {BindingFile, HealthFile, SettingsFile, ManifestFile} \cup Launchers
  BY MarksApart DEF Generated
<1>2. /\ BindingFile \notin Launchers /\ HealthFile \notin Launchers /\ SettingsFile \notin Launchers
      /\ ManifestFile \notin Launchers /\ BindingFile # HealthFile /\ BindingFile # SettingsFile
      /\ BindingFile # ManifestFile /\ HealthFile # SettingsFile /\ HealthFile # ManifestFile
  BY DEF BindingFile, HealthFile, SettingsFile, ManifestFile, Launchers
<1> QED
  BY <1>1, <1>2 DEF Present

\* A deletion takes what it is told to take and can, and nothing else.
LEMMA DeletedAre ==
    ASSUME NEW files, Deletes(files), NEW f \in Deletable, Present(f)'
    PROVE  Present(f) /\ f \notin files \ locked
<1>0. /\ \A g \in Files : Present(g)' <=> disk'[g] # Missing
      /\ \A l \in Launchers : Present(l)' <=> launcher'[l] # Missing
      /\ Present(BindingFile)' <=> binding' # Missing
      /\ Present(HealthFile)' <=> health'
  <2>1. Generated \cap Files = {} /\ Generated = {BindingFile, HealthFile, SettingsFile, ManifestFile} \cup Launchers
    BY MarksApart DEF Generated
  <2>2. /\ BindingFile \notin Launchers /\ HealthFile \notin Launchers /\ SettingsFile \notin Launchers
        /\ ManifestFile \notin Launchers /\ BindingFile # HealthFile /\ BindingFile # SettingsFile
        /\ BindingFile # ManifestFile /\ HealthFile # SettingsFile /\ HealthFile # ManifestFile
    BY DEF BindingFile, HealthFile, SettingsFile, ManifestFile, Launchers
  <2> QED
    BY <2>1, <2>2 DEF Present
<1>1. CASE f \in Files
  BY <1>0, <1>1, PresentIs DEF Deletes
<1>2. CASE f \in Launchers
  BY <1>0, <1>2, PresentIs DEF Deletes
<1>3. CASE f = BindingFile
  BY <1>0, <1>3, PresentIs DEF Deletes
<1>4. CASE f = HealthFile
  BY <1>0, <1>4, PresentIs DEF Deletes
<1> QED
  BY <1>1, <1>2, <1>3, <1>4 DEF Deletable, Named

\* What is gone stays gone, and of what is to be deleted only locked files are left.
LEMMA DeletesMore ==
    ASSUME NEW files \in SUBSET Deletable, Deletes(files), locked' = locked,
           NEW before \in SUBSET Deletable, Gone(before)
    PROVE  \A f \in before \cup files : Present(f)' => f \in locked /\ result' = "errors"
<1>1. result' = IF \E f \in files \cap locked : Present(f) THEN "errors" ELSE result
  BY DEF Deletes
<1>2. ASSUME NEW f \in before \cup files, Present(f)'
      PROVE  f \in locked /\ result' = "errors"
  <2>1. Present(f) /\ f \notin files \ locked
    BY <1>2, DeletedAre
  <2>2. CASE f \in files
    BY <1>1, <2>1, <2>2
  <2>3. CASE f \in before
    BY <1>1, <2>1, <2>3 DEF Gone
  <2> QED
    BY <1>2, <2>2, <2>3
<1> QED
  BY <1>2

LEMMA DeletedTyped ==
    ASSUME InstallInv, NEW files, Deletes(files), result # "none", todo' \subseteq Deletable
    PROVE  InstallTyped' /\ result' \in {"ok", "errors"}
<1>1. /\ disk' \in [Files -> Released \cup UserTexts \cup {Missing, Torn}]
      /\ launcher' \in [Launchers -> Interpreters \cup {Missing, Torn}]
      /\ health' \in BOOLEAN
  BY DEF Deletes, InstallInv, InstallTyped
<1>2. result' \in {"ok", "errors"}
  BY DEF Deletes, InstallInv, CourseKept
<1>3. UNCHANGED <<injected, settings, manifest, written, tally, clock>>
  BY DEF Deletes, plan
<1>4. InstallTyped'
  BY <1>1, <1>3 DEF InstallInv, InstallTyped, Read, Named, Files, Released
<1> QED
  BY <1>2, <1>4

LEMMA TargetKeeps == ASSUME InstallInv, DeleteTarget PROVE InstallInv'
<1>1. PICK f \in todo : /\ stage = "delete" /\ stage' = stage
                        /\ todo' = todo \ {f} /\ Deletes({f})
  BY DEF DeleteTarget
<1>2. UNCHANGED <<injected, settings, manifest, backups, job, locked, written, tally>>
  BY <1>1 DEF Deletes, plan
<1>3. job \in Jobs /\ result # "none" /\ todo \subseteq Deletable
  BY <1>1 DEF InstallInv, CourseKept, InstallTyped
<1>4. InstallTyped' /\ result' \in {"ok", "errors"}
  BY <1>1, <1>3, DeletedTyped
<1>5. CourseKept'
  BY <1>1, <1>2, <1>4 DEF InstallInv, CourseKept, InstallStages, UninstallStages
<1>6. TargetsGone'
  <2> DEFINE before == Targets(job) \ todo
  <2>1. Gone(before) /\ before \in SUBSET Deletable
    BY <1>1, <1>3, TargetsTyped DEF InstallInv, TargetsGone
  <2>2. \A g \in before \cup {f} : Present(g)' => g \in locked /\ result' = "errors"
    <3>1. {f} \in SUBSET Deletable
      BY <1>1, <1>3
    <3> HIDE DEF before
    <3> QED
      BY <1>1, <1>2, <2>1, <3>1, DeletesMore
  <2>3. (Targets(job) \ todo)' \subseteq before \cup {f}
    BY <1>1, <1>2 DEF Targets, KnownTargets, Read
  <2>4. Gone(Targets(job) \ todo)'
    BY <1>2, <2>2, <2>3 DEF Gone
  <2> QED
    BY <1>1, <2>4 DEF TargetsGone
<1>7. CopiesAreOfJobs'
  BY <1>1, <1>2 DEF InstallInv, CopiesAreOfJobs
<1> QED
  BY <1>1, <1>4, <1>5, <1>6, <1>7
  DEF InstallInv, LauncherBound, FilesPlaced, CompletedIsWhole, UninstallTakesAll, Completed

LEMMA PurgeKeeps ==
    ASSUME InstallInv, NEW from, NEW files \in SUBSET Deletable, NEW to, Purge(from, files, to),
           \/ from = "delete" /\ files = Rails \cup Extras /\ to = "payload"
           \/ from = "payload" /\ files = Payload /\ to = "forget"
    PROVE  InstallInv'
<1>1. stage = from /\ stage' = to /\ todo = {} /\ todo' = todo /\ Deletes(files)
  BY DEF Purge
<1>2. UNCHANGED <<injected, settings, manifest, backups, job, locked, written, tally>>
  BY <1>1 DEF Deletes, plan
<1>3. job \in Jobs /\ result # "none" /\ todo \subseteq Deletable
  BY <1>1 DEF InstallInv, CourseKept, InstallTyped
<1>4. InstallTyped' /\ result' \in {"ok", "errors"}
  BY <1>1, <1>3, DeletedTyped
<1>5. CourseKept'
  BY <1>1, <1>2, <1>4 DEF InstallInv, CourseKept, InstallStages, UninstallStages
<1>6. Targets(job)' = Targets(job)
  BY <1>2 DEF Targets, KnownTargets, Read
<1>7. Gone(Targets(job)) /\ Targets(job) \in SUBSET Deletable
  BY <1>1, <1>3, TargetsTyped DEF InstallInv, TargetsGone
<1>8. Gone(Targets(job))'
  <2>1. \A f \in Targets(job) \cup files : Present(f)' => f \in locked /\ result' = "errors"
    BY <1>1, <1>2, <1>7, DeletesMore
  <2> QED
    BY <2>1, <1>2, <1>6 DEF Gone
<1>9. CopiesAreOfJobs'
  BY <1>1, <1>2 DEF InstallInv, CopiesAreOfJobs
<1>10. CASE from = "delete"
  <2>1. Gone({})
    BY DEF Gone
  <2>2. \A f \in {} \cup files : Present(f)' => f \in locked /\ result' = "errors"
    BY <1>1, <1>2, <2>1, DeletesMore
  <2>3. Gone(Rails \cup Extras)' /\ stage' = "payload"
    BY <1>1, <1>2, <1>10, <2>2 DEF Gone
  <2> QED
    BY <1>4, <1>5, <1>8, <1>9, <2>3
    DEF InstallInv, LauncherBound, FilesPlaced, TargetsGone,
        CompletedIsWhole, UninstallTakesAll, Completed
<1>11. CASE from = "payload"
  <2>1. Gone(Rails \cup Extras) /\ Rails \cup Extras \in SUBSET Deletable
    BY <1>1, <1>11, FilesApart DEF InstallInv, TargetsGone, Deletable, Named
  <2>2. \A f \in (Rails \cup Extras) \cup files : Present(f)' => f \in locked /\ result' = "errors"
    BY <1>1, <1>2, <2>1, DeletesMore
  <2>3. Gone(Rails \cup Extras)' /\ Gone(Payload)' /\ stage' = "forget"
    BY <1>1, <1>2, <1>11, <2>2 DEF Gone
  <2>4. Read(manifest)' => manifest'.files \subseteq Targets(job)
    BY <1>2, <1>3, TargetsTyped DEF Read, InstallInv
  <2>5. UninstallTakesAll'
    <3>1. \A f \in Targets(job) : Present(f)' => f \in locked' /\ result' = "errors"
      BY <1>6, <1>8 DEF Gone
    <3> QED
      BY <2>3, <2>4, <3>1 DEF UninstallTakesAll, Completed
  <2> QED
    BY <1>4, <1>5, <1>8, <1>9, <2>3, <2>5
    DEF InstallInv, LauncherBound, FilesPlaced, TargetsGone, CompletedIsWhole, Completed
<1> QED
  BY <1>10, <1>11

LEMMA DropKeeps == ASSUME InstallInv, DropManifest PROVE InstallInv'
<1>1. /\ stage = "forget" /\ stage' = "unplug" /\ result' = result /\ tally' = tally
      /\ manifest' = IF Read(manifest) /\ ManifestFile \notin locked THEN Missing ELSE manifest
      /\ UNCHANGED <<disk, injected, binding, launcher, health, settings, spoiled,
                     backups, alive, plan, todo, written>>
  BY DEF DropManifest, Then
<1>2. job \in Jobs /\ job' = job /\ locked' = locked
  BY <1>1 DEF InstallInv, CourseKept, plan
<1>3. Read(manifest)' => Read(manifest) /\ manifest' = manifest /\ ManifestFile \in locked'
  BY <1>1, <1>2 DEF Read
<1>4. InstallTyped'
  BY <1>1, <1>3 DEF InstallInv, InstallTyped, plan, Named, Files, Released, Read
<1>5. CourseKept'
  BY <1>1, <1>2 DEF InstallInv, CourseKept, InstallStages, UninstallStages
<1>6. TargetsGone'
  <2> DEFINE rest == Rails \cup Extras \cup Payload \cup KnownTargets(job)
  <2>1. Gone(Targets(job)) /\ Gone(Rails \cup Extras) /\ Gone(Payload)
    BY <1>1 DEF InstallInv, TargetsGone
  <2>2. Gone(rest) /\ rest \in SUBSET Deletable
    BY <1>2, <2>1, TargetsTyped, FilesApart DEF Gone, InstallInv, Deletable, Named
  <2>3. \A f \in Deletable : Present(f)' => Present(f)
    BY <1>1, MarksApart DEF Present, Deletable, Named, Generated, BindingFile, HealthFile,
       SettingsFile, ManifestFile, Launchers
  <2>4. rest' = rest
    BY <1>2 DEF KnownTargets
  <2>5. \A f \in rest : Present(f)' => f \in locked' /\ result' = "errors"
    <3> HIDE DEF rest
    <3> QED
      BY <1>1, <1>2, <2>2, <2>3 DEF Gone
  <2>6. Gone(rest)'
    BY <2>4, <2>5 DEF Gone
  <2> QED
    BY <1>1, <1>3, <2>6 DEF TargetsGone
<1>7. CopiesAreOfJobs'
  BY <1>1 DEF InstallInv, CopiesAreOfJobs
<1> QED
  BY <1>1, <1>4, <1>5, <1>6, <1>7
  DEF InstallInv, LauncherBound, FilesPlaced, CompletedIsWhole, UninstallTakesAll, Completed

LEMMA UnplugKeeps == ASSUME InstallInv, NEW whole \in BOOLEAN, Unplug(whole) PROVE InstallInv'
<1>1. /\ stage = "unplug"
      /\ \/ Then(TRUE, "idle") /\ settings' = settings /\ ~(Read(settings) /\ settings.plugin)
         \/ Then(TRUE, "idle") /\ settings' = [settings EXCEPT !.plugin = FALSE] /\ Read(settings)
         \/ (Then(FALSE, "idle") \/ Fails) /\ settings' \in {settings, Torn}
      /\ UNCHANGED <<disk, injected, binding, launcher, health, spoiled, manifest,
                     backups, alive, plan, todo, written>>
  <2>1. CASE whole
    BY <2>1 DEF Unplug
  <2>2. CASE ~whole
    BY <2>2 DEF Unplug
  <2> QED
    BY <2>1, <2>2
<1>2. job \in Jobs /\ job' = job /\ locked' = locked /\ job.verb = "uninstall"
  BY <1>1 DEF InstallInv, CourseKept, plan, UninstallStages
<1>3. Read(settings) => /\ [settings EXCEPT !.plugin = FALSE] \in Texts
                        /\ ~[settings EXCEPT !.plugin = FALSE].plugin
  <2>1. Read(settings) => settings \in Texts
    BY DEF InstallInv, InstallTyped, Read
  <2> QED
    BY <2>1 DEF Texts
<1>4. settings' \in Texts \cup {Missing, Torn}
  BY <1>1, <1>3 DEF InstallInv, InstallTyped
<1>5. ASSUME tally' \in Tallies PROVE InstallTyped'
  BY <1>1, <1>4, <1>5 DEF InstallInv, InstallTyped, plan, Read, Named, Files, Released
<1>6. \A b \in backups' : b.job \in Nat /\ b.job <= tally.jobs
  BY <1>1 DEF InstallInv, CopiesAreOfJobs
<1>7. CASE Then(FALSE, "idle") \/ Fails
  BY <1>7, <1>5, <1>6, StopsTally, FailsTally, NothingUnderWay, IdleIsOnCourse DEF InstallInv
<1>8. CASE Then(TRUE, "idle") /\ \/ settings' = settings /\ ~(Read(settings) /\ settings.plugin)
                                 \/ settings' = [settings EXCEPT !.plugin = FALSE] /\ Read(settings)
  <2>1. stage' = "idle" /\ result' = result /\ tally' = tally
    BY <1>8 DEF Then
  <2>2. InstallTyped'
    BY <2>1, <1>5 DEF InstallInv, InstallTyped
  <2>3. CourseKept'
    BY <1>1, <1>2, <2>1 DEF InstallInv, CourseKept, InstallStages, UninstallStages
  <2>4. LauncherBound' /\ FilesPlaced' /\ TargetsGone' /\ CompletedIsWhole'
    BY <1>2, <2>1 DEF LauncherBound, FilesPlaced, TargetsGone, CompletedIsWhole, Completed
  <2>5. CopiesAreOfJobs'
    BY <1>1, <1>6, <2>1 DEF CopiesAreOfJobs
  <2>6. UninstallTakesAll'
    <3> DEFINE rest == Rails \cup Extras \cup Payload \cup KnownTargets(job)
    <3>1. Gone(rest) /\ (Read(manifest) => ManifestFile \in locked)
      BY <1>1 DEF InstallInv, TargetsGone
    <3>2. rest \in SUBSET Deletable
      BY <1>2, TargetsTyped, FilesApart DEF InstallInv, Deletable, Named
    <3>3. \A f \in Deletable : Present(f)' => Present(f)
      BY <1>1, MarksApart DEF Present, Deletable, Named, Generated, BindingFile, HealthFile,
         SettingsFile, ManifestFile, Launchers
    <3>4. rest' = rest /\ manifest' = manifest
      BY <1>1, <1>2 DEF KnownTargets
    <3>5. \A f \in rest : Present(f)' => f \in locked' /\ result' = "errors"
      <4> HIDE DEF rest
      <4> QED
        BY <1>2, <2>1, <3>1, <3>2, <3>3 DEF Gone
    <3>6. Read(settings)' => ~settings'.plugin
      BY <1>3, <1>8 DEF Read
    <3>7. Read(manifest)' => ManifestFile \in locked'
      BY <1>2, <3>1, <3>4 DEF Read
    <3>8. \A f \in (Rails \cup Extras \cup Payload \cup KnownTargets(job))' :
              Present(f)' => f \in locked' /\ result' = "errors"
      BY <3>4, <3>5
    <3> QED
      BY <2>1, <3>6, <3>7, <3>8 DEF UninstallTakesAll, Completed
  <2> QED
    BY <2>2, <2>3, <2>4, <2>5, <2>6 DEF InstallInv
<1> QED
  BY <1>1, <1>7, <1>8

LEMMA InstallStepsKeep == InstallInv /\ [InstallNext]_ivars => InstallInv'
<1> SUFFICES ASSUME InstallInv, [InstallNext]_ivars PROVE InstallInv'
  OBVIOUS
<1>1. ASSUME NEW j \in Jobs, StartJob(j) PROVE InstallInv'
  BY <1>1, StartKeeps
<1>2. ASSUME NEW whole \in BOOLEAN,
             \/ WriteBinding(whole) \/ WriteLauncher(whole) \/ Copy(whole)
             \/ EnsureSettings(whole) \/ InjectRail(whole) \/ WriteManifest(whole) \/ Unplug(whole)
      PROVE  InstallInv'
  BY <1>2, BindingKeeps, LauncherKeeps, CopyKeepsFiles, SettingsKeep, InjectKeeps, ManifestKeeps, UnplugKeeps
<1>3. CASE WriteHealth \/ EnforceHygiene
  BY <1>3, HealthKeeps, HygieneKeeps
<1>4. CASE DeleteTarget
  BY <1>4, TargetKeeps
<1>5. CASE PurgeCommands
  <2>1. Rails \cup Extras \in SUBSET Deletable
    BY FilesApart DEF Deletable, Named
  <2> QED
    BY <1>5, <2>1, PurgeKeeps DEF PurgeCommands
<1>6. CASE PurgePayload
  <2>1. Payload \in SUBSET Deletable
    BY FilesApart DEF Deletable, Named
  <2> QED
    BY <1>6, <2>1, PurgeKeeps DEF PurgePayload
<1>7. CASE DropManifest \/ Stop
  BY <1>7, DropKeeps, StopKeeps
<1>8. CASE EditConfig \/ \E f \in Files : EditFile(f)
  BY <1>8, EditKeeps
<1>9. CASE UNCHANGED ivars
  <2>1. UNCHANGED <<disk, injected, binding, launcher, health, settings, spoiled, manifest, backups, alive,
                    job, locked, clock, stage, todo, written, result, tally>>
    BY <1>9 DEF ivars, configFiles, plan, progress
  <2>2. InstallTyped' /\ CourseKept'
    BY <2>1 DEF InstallInv, InstallTyped, CourseKept, Read, Named, Files, Released
  <2>3. LauncherBound' /\ CopiesAreOfJobs'
    BY <2>1 DEF InstallInv, LauncherBound, CopiesAreOfJobs, Bound, BindingFails
  <2>4. FilesPlaced'
    BY <2>1 DEF InstallInv, FilesPlaced, Placed, ListedAreOwn, ExtrasAreGone, Placeholder, Released
  <2>5. TargetsGone'
    BY <2>1 DEF InstallInv, TargetsGone, Gone, Targets, KnownTargets, Present, Read
  <2>6. CompletedIsWhole' /\ UninstallTakesAll'
    BY <2>1 DEF InstallInv, CompletedIsWhole, UninstallTakesAll, Completed, KnownTargets, Present,
       Placeholder, Read, Released
  <2> QED
    BY <2>2, <2>3, <2>4, <2>5, <2>6 DEF InstallInv
<1> QED
  BY <1>1, <1>2, <1>3, <1>4, <1>5, <1>6, <1>7, <1>8, <1>9 DEF InstallNext

\* The invariant of the installer: what is in place, or gone, at each stage of a
\* job, and whose copies there are.
THEOREM InstallInvariant == ISpec => []InstallInv
<1>1. InstallInit => InstallInv
  BY InstallStarts
<1>2. InstallInv /\ [InstallNext]_ivars => InstallInv'
  BY InstallStepsKeep
<1> QED
  BY <1>1, <1>2, PTL DEF ISpec

\* An installation that says it is complete is one, whatever the jobs, the stops
\* and the edits before it left behind.
THEOREM CompletedAlwaysWhole == ISpec => []CompletedIsWhole
<1>1. InstallInv => CompletedIsWhole
  BY DEF InstallInv
<1> QED
  BY <1>1, InstallInvariant, PTL

\* An uninstall that comes to its end leaves nothing of the program but files that
\* could not be deleted, and then its exit code says so, of the manifest excepted.
THEOREM UninstallAlwaysTakesAll == ISpec => []UninstallTakesAll
<1>1. InstallInv => UninstallTakesAll
  BY DEF InstallInv
<1> QED
  BY <1>1, InstallInvariant, PTL

-----------------------------------------------------------------------------
(* What is the user's. *)

Lost(f) == IF f = BindingFile THEN binding = User /\ binding' # User
           ELSE disk[f] \in UserTexts /\ disk'[f] # disk[f]
Saved(f) == \E b \in backups' : b.job = tally.jobs /\ b.at = <<"config", f>>
FilledIn(f) == /\ stage = "inject" /\ f \in Rails /\ disk[f] = Marked
               /\ disk'[f] = Changed \/ (disk'[f] = Torn /\ stage' = "idle" /\ result' = "none")

\* A copy of a file of the user's is made under its own path.
LEMMA CopyIsSaved ==
    ASSUME NEW f, f \notin Payload, job.backup, NEW content \in UserTexts,
           backups' = WithBackup(f, content)
    PROVE  Saved(f)
<1>1. content # Missing
  BY MarksApart
<1>2. CopyOf(f) \in WithBackup(f, content)
  BY <1>1 DEF WithBackup
<1> QED
  BY <1>2 DEF Saved, PlaceOf, CopyOf

\* A file of the user's is only replaced by an installation that is forced, but for
\* the rails that the injection fills in.
LEMMA LostOnlyForced ==
    ASSUME InstallInv, InstallNext, stage \in InstallStages,
           NEW f \in Rails \cup Plugins \cup {BindingFile}, Lost(f)
    PROVE  FilledIn(f) \/ (job.force /\ (job.backup => Saved(f)))
<1>0. f \notin Payload /\ f \notin Extras /\ (f # BindingFile => f \in Files) /\ stage # "idle"
  BY FilesApart, MarksApart DEF InstallStages
<1>1. CASE \E whole \in BOOLEAN : WriteBinding(whole)
  <2>1. f = BindingFile /\ binding = User /\ binding' # binding
    BY <1>1 DEF WriteBinding, Lost
  <2>2. WritesBinding /\ backups' = WithBackup(BindingFile, binding)
    BY <1>1, <2>1 DEF WriteBinding
  <2>3. job.force
    BY <2>1, <2>2, MarksApart DEF WritesBinding
  <2>4. backups' = WithBackup(f, User) /\ User \in UserTexts
    BY <2>1, <2>2, MarksApart
  <2> QED
    BY <1>0, <2>3, <2>4, CopyIsSaved
<1>2. CASE \E whole \in BOOLEAN : Copy(whole)
  <2>1. PICK whole \in BOOLEAN, g \in todo : PlaceFile(g, whole) /\ UNCHANGED binding
    BY <1>2 DEF Copy, configFiles
  <2>2. f # BindingFile /\ disk[f] \in UserTexts /\ disk'[f] # disk[f]
    BY <2>1 DEF Lost
  <2>3. g = f /\ ~Skips(g) /\ backups' = WithBackup(g, disk[g])
    <3>1. /\ ~Skips(g) /\ backups' = WithBackup(g, disk[g])
          /\ disk' = [disk EXCEPT ![g] = IF whole THEN job.release ELSE Torn]
      BY <2>1, <2>2 DEF PlaceFile
    <3> QED
      BY <3>1, <2>2, <1>0 DEF InstallInv, InstallTyped
  <2>4. job.force
    BY <2>2, <2>3, MarksApart DEF Skips
  <2>5. backups' = WithBackup(f, disk[f])
    BY <2>3
  <2> QED
    BY <1>0, <2>2, <2>4, <2>5, CopyIsSaved
<1>3. CASE EnforceHygiene
  <2>1. f # BindingFile /\ disk'[f] # disk[f]
    BY <1>3 DEF EnforceHygiene, Lost, configFiles
  <2> QED
    BY <1>0, <1>3, <2>1 DEF EnforceHygiene
<1>4. CASE \E whole \in BOOLEAN : InjectRail(whole)
  <2>1. PICK whole \in BOOLEAN, g \in todo : stage = "inject" /\ InjectFile(g, whole) /\ UNCHANGED binding
    BY <1>4 DEF InjectRail, configFiles
  <2>2. f # BindingFile /\ disk[f] \in UserTexts /\ disk'[f] # disk[f]
    BY <2>1 DEF Lost
  <2>3. /\ Placeholder(g) /\ Then(whole, "inject")
        /\ disk' = [disk EXCEPT ![g] = IF ~whole THEN Torn ELSE IF @ = Marked THEN Changed ELSE @]
    BY <2>1, <2>2 DEF InjectFile
  <2>4. g = f /\ g \in Rails /\ disk'[f] = IF ~whole THEN Torn ELSE IF disk[f] = Marked THEN Changed ELSE disk[f]
    BY <1>0, <2>1, <2>2, <2>3 DEF InstallInv, InstallTyped, FilesPlaced
  <2>5. disk[f] = Marked
    BY <2>2, <2>3, <2>4, MarksApart DEF Placeholder
  <2>6. ~whole => stage' = "idle" /\ result' = "none"
    BY <2>3 DEF Then
  <2> QED
    BY <2>1, <2>4, <2>5, <2>6 DEF FilledIn
<1>5. ASSUME NEW whole \in BOOLEAN,
             WriteLauncher(whole) \/ EnsureSettings(whole) \/ WriteManifest(whole) \/ WriteHealth \/ Stop
      PROVE  FALSE
  BY <1>5 DEF WriteLauncher, EnsureSettings, WriteManifest, WriteHealth, Stop, configFiles, Lost
<1>6. ~(\E j \in Jobs : StartJob(j)) /\ ~EditConfig /\ ~(\E g \in Files : EditFile(g))
  BY <1>0 DEF StartJob, EditConfig, EditFile, Edits
<1>7. ~(\E whole \in BOOLEAN : Unplug(whole)) /\ ~DeleteTarget
      /\ ~PurgeCommands /\ ~PurgePayload /\ ~DropManifest
  BY DEF Unplug, DeleteTarget, PurgeCommands, PurgePayload, Purge, DropManifest, InstallStages
<1> QED
  BY <1>1, <1>2, <1>3, <1>4, <1>5, <1>6, <1>7 DEF InstallNext

\* A copy of a file under the configuration root stays, if it is of another second
\* or of this very job, which comes to a file once.
LEMMA CopiesStay ==
    ASSUME InstallInv, InstallNext, NEW b \in backups, b.at[1] = "config",
           b.time # clock \/ b.job = tally.jobs
    PROVE  b \in backups'
<1>1. CASE \E whole \in BOOLEAN : WriteBinding(whole)
  <2>1. \/ backups' = backups \/ backups' = WithBackup(BindingFile, binding)
        \/ backups' = WithoutBackup(BindingFile)
    BY <1>1 DEF WriteBinding, HeldUp
  <2>2. b.time # clock
    BY <1>1 DEF WriteBinding, InstallInv, CopiesAreOfJobs
  <2> QED
    BY <2>1, <2>2 DEF WithBackup, WithoutBackup
<1>2. CASE \E whole \in BOOLEAN : Copy(whole)
  <2>1. PICK f \in todo : \/ backups' = backups \/ backups' = WithBackup(f, disk[f])
                          \/ backups' = WithoutBackup(f)
    BY <1>2 DEF Copy, PlaceFile, HeldUp
  <2>2. b.time # clock \/ b.at # PlaceOf(f)
    <3>1. b.job = tally.jobs => b.at # <<"config", f>>
      BY <1>2, <2>1 DEF Copy, InstallInv, CopiesAreOfJobs
    <3>2. b.at # <<"external", NameOf[f]>>
      OBVIOUS
    <3> QED
      BY <3>1, <3>2 DEF PlaceOf
  <2> QED
    BY <2>1, <2>2 DEF WithBackup, WithoutBackup
<1>3. ASSUME NEW whole \in BOOLEAN,
             \/ WriteLauncher(whole) \/ EnsureSettings(whole) \/ InjectRail(whole)
             \/ WriteManifest(whole) \/ Unplug(whole)
             \/ WriteHealth \/ EnforceHygiene \/ DeleteTarget
             \/ PurgeCommands \/ PurgePayload \/ DropManifest \/ Stop
             \/ (\E j \in Jobs : StartJob(j)) \/ EditConfig \/ (\E f \in Files : EditFile(f))
      PROVE  backups' = backups
  BY <1>3 DEF WriteLauncher, EnsureSettings, InjectRail, WriteManifest, Unplug, WriteHealth, EnforceHygiene,
     DeleteTarget, PurgeCommands, PurgePayload, Purge, DropManifest, Stop, StartJob,
     EditConfig, EditFile, Edits, Deletes
<1> QED
  BY <1>1, <1>2, <1>3 DEF InstallNext

\* The user's keys in opencode.json outlive every step but a write that is stopped.
LEMMA KeysStay ==
    ASSUME InstallInv, InstallNext, Read(settings), settings.own, stage # "idle"
    PROVE  \/ Read(settings') /\ settings'.own
           \/ stage' = "idle" /\ result' = "none"
<1>1. settings \in Texts
  BY DEF InstallInv, InstallTyped, Read
<1>2. ASSUME NEW t \in Texts PROVE Read(t)
  BY <1>2, MarksApart DEF Read
<1>3. ASSUME NEW whole \in BOOLEAN, EnsureSettings(whole) \/ Unplug(whole)
      PROVE  \/ Read(settings') /\ settings'.own
             \/ stage' = "idle" /\ result' = "none"
  <2>1. CASE stage' = "idle" /\ result' = "none"
    BY <2>1
  <2>2. CASE ~(stage' = "idle" /\ result' = "none")
    <3>1. \/ settings' = settings
          \/ settings' = [own |-> Read(settings) /\ settings.own, plugin |-> TRUE]
          \/ settings' = [settings EXCEPT !.plugin = FALSE]
      BY <1>3, <2>2 DEF EnsureSettings, Unplug, Then, Fails
    <3>2. (Read(settings) /\ settings.own) = TRUE
      OBVIOUS
    <3>3. [own |-> TRUE, plugin |-> TRUE] \in Texts /\ [own |-> TRUE, plugin |-> TRUE].own
      BY DEF Texts
    <3>4. [settings EXCEPT !.plugin = FALSE] \in Texts /\ [settings EXCEPT !.plugin = FALSE].own
      BY <1>1 DEF Texts
    <3>5. settings' \in Texts /\ settings'.own
      BY <3>1, <3>2, <3>3, <3>4, <1>1
    <3> QED
      BY <3>5, <1>2
  <2> QED
    BY <2>1, <2>2
<1>4. ASSUME NEW whole \in BOOLEAN,
             \/ WriteBinding(whole) \/ WriteLauncher(whole) \/ Copy(whole) \/ InjectRail(whole)
             \/ WriteManifest(whole) \/ WriteHealth \/ EnforceHygiene \/ DeleteTarget
             \/ PurgeCommands \/ PurgePayload \/ DropManifest \/ Stop
      PROVE  settings' = settings
  BY <1>4 DEF WriteBinding, WriteLauncher, Copy, InjectRail, WriteManifest, WriteHealth, EnforceHygiene,
     DeleteTarget, PurgeCommands, PurgePayload, Purge, DropManifest, Stop, Deletes, configFiles
<1>5. ~(\E j \in Jobs : StartJob(j)) /\ ~EditConfig /\ ~(\E f \in Files : EditFile(f))
  BY DEF StartJob, EditConfig, EditFile, Edits
<1> QED
  BY <1>3, <1>4, <1>5 DEF InstallNext

\* The installer replaces what is the user's only when forced, with a copy of it
\* unless told not to, or where its injection fills a rail in; a copy is lost to a
\* later job of the same second alone, and no key of opencode.json is.
THEOREM UserFilesAlwaysKept == ISpec => UserFilesAreKept
<1> DEFINE Kept ==
      /\ \A f \in Rails \cup Plugins \cup {BindingFile} :
            Lost(f) /\ stage \in InstallStages =>
                FilledIn(f) \/ (job.force /\ (job.backup => Saved(f)))
      /\ \A b \in backups :
            b.at[1] = "config" /\ (b.time # clock \/ b.job = tally.jobs) => b \in backups'
      /\ Read(settings) /\ settings.own /\ stage # "idle" =>
            \/ Read(settings') /\ settings'.own
            \/ stage' = "idle" /\ result' = "none"
<1>1. InstallInv /\ InstallNext => Kept
  <2>1. SUFFICES ASSUME InstallInv, InstallNext PROVE Kept
    OBVIOUS
  <2> QED
    BY <2>1, LostOnlyForced, CopiesStay, KeysStay
<1>2. InstallInv /\ [InstallNext]_ivars => [Kept]_ivars
  BY <1>1
<1>3. ISpec => [][Kept]_ivars
  <2> HIDE DEF Kept
  <2> QED
    BY <1>2, InstallInvariant, PTL DEF ISpec
<1> QED
  BY <1>3 DEF UserFilesAreKept, Lost, Saved, FilledIn
=============================================================================
