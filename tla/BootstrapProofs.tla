--------------------------- MODULE BootstrapProofs ---------------------------
(***************************************************************************)
(* Proofs about Bootstrap: its type invariant, that commit flags and         *)
(* pointer are backed, that Phase 4 is earned, and that the continuation     *)
(* gets there in its eight hops, for any launchers, repositories, rules and  *)
(* number of failures, stops and outlived locks.                            *)
(***************************************************************************)
EXTENDS Bootstrap, TLAPS

-----------------------------------------------------------------------------
(* The walk of the continuation keeps the type of the document, and never   *)
(* touches its commit flags.                                                *)

\* Every phase of the table is followed by a phase of the table.
LEMMA FollowingIsAPhase ==
    ASSUME NEW t \in StartTokens, NEW s
    PROVE  Following(t, s) \in StartTokens
<1>1. Nexts(t) \subseteq StartTokens /\ Nexts(t) # {}
  BY DEF Nexts, StartTokens
<1>2. (CHOOSE n \in Nexts(t) : TRUE) \in Nexts(t)
  BY <1>1
<1> QED
  BY <1>1, <1>2 DEF Following, StartTokens

\* Hydration fills in what a phase asks for, and leaves the flags.
LEMMA HydrationKeepsCommit ==
    ASSUME NEW req \in StartTokens, NEW s \in SessionDocument, NEW art
    PROVE  /\ Hydrated(req, s, art) \in SessionDocument
           /\ Hydrated(req, s, art).committed = s.committed
<1>1. NormalRules(s) \in RuleStates /\ NormalP54(s) \in {"pending", "gap-detected"}
  BY DEF NormalRules, NormalP54, SessionDocument, RuleStates
<1> QED
  BY <1>1 DEF Hydrated, SessionDocument

KernelResult == [phase : StartTokens, next : StartTokens, ok : BOOLEAN, asking : BOOLEAN]

\* The kernel answers every request with a phase and a token of the table.
LEMMA KernelAnswers ==
    ASSUME NEW req \in StartTokens, NEW s \in SessionDocument
    PROVE  ExecuteStart(req, s) \in KernelResult
<1>1. s.phase \in StartTokens /\ s.asking \in BOOLEAN
  BY DEF SessionDocument
<1>2. \A t \in StartTokens, a \in BOOLEAN : Refusal(t, a) \in KernelResult
  BY DEF Refusal, Result, KernelResult
<1>3. "1.1" \in StartTokens /\ "1.3" \in StartTokens
  BY DEF StartTokens
<1>4. ASSUME NEW t \in StartTokens PROVE Leave(t, s) \in KernelResult
  <2>1. Following(t, s) \in StartTokens
    BY FollowingIsAPhase
  <2> QED
    BY <1>2, <1>3, <2>1 DEF Leave, Result, KernelResult
<1>5. ASSUME NEW t \in StartTokens PROVE Move(t, req, s) \in KernelResult
  BY <1>1, <1>2, <1>4 DEF Move
<1>6. Following(s.phase, s) \in StartTokens
  BY <1>1, FollowingIsAPhase
<1> DEFINE back  == StartRank[req] < StartRank[s.phase]
           entry == IF back THEN s.phase ELSE req
           held  == Result(s.phase, Following(s.phase, s), TRUE, s.phase \in {"3A", "4"})
<1>7. entry \in StartTokens
  BY <1>1
<1>8. held \in KernelResult
  BY <1>1, <1>6 DEF Result, KernelResult
<1>9. Move(entry, req, s) \in KernelResult /\ Move(req, req, s) \in KernelResult
  BY <1>5, <1>7
<1>10. Refusal("1.1", FALSE) \in KernelResult
  BY <1>2, <1>3
<1>11. \/ ExecuteStart(req, s) = Refusal("1.1", FALSE)
       \/ ExecuteStart(req, s) = Move(entry, req, s)
       \/ ExecuteStart(req, s) = Move(req, req, s)
       \/ ExecuteStart(req, s) = held
  BY Zenon DEF ExecuteStart
<1> QED
  BY <1>8, <1>9, <1>10, <1>11

\* A hop is a step of a walk.
LEMMA HopKeepsCommit ==
    ASSUME NEW w \in Walks, NEW s \in SessionDocument
    PROVE  /\ Hop(w, s) \in Walks
           /\ Hop(w, s).s.committed = s.committed
<1>1. ExecuteStart(w.req, s) \in KernelResult
  BY KernelAnswers DEF Walks
<1> DEFINE r == ExecuteStart(w.req, s)
           d == [s EXCEPT !.phase = r.phase, !.asking = r.asking]
<1>2. d \in SessionDocument /\ d.committed = s.committed
  BY <1>1 DEF KernelResult, SessionDocument
<1>3. Hop(w, s).s = d
  BY DEF Hop
<1>4. Hop(w, s) \in Walks
  BY <1>1, <1>2 DEF Hop, Walks, KernelResult
<1> QED
  BY <1>2, <1>3, <1>4

\* So is a turn of the loop, and any number of them.
LEMMA TurnKeepsCommit ==
    ASSUME NEW art, NEW w \in Walks
    PROVE  /\ Turn(art)[w] \in Walks
           /\ Turn(art)[w].s.committed = w.s.committed
<1>1. w.req \in StartTokens /\ w.s \in SessionDocument
  BY DEF Walks
<1> DEFINE h == Hydrated(w.req, w.s, art)
<1>2. h \in SessionDocument /\ h.committed = w.s.committed
  BY <1>1, HydrationKeepsCommit
<1>3. Hop(w, h) \in Walks /\ Hop(w, h).s.committed = h.committed
  BY <1>2, HopKeepsCommit
<1>4. Turn(art)[w] = IF w.over THEN w ELSE Hop(w, h)
  <2> HIDE DEF h
  <2>1. [s \in SessionDocument |-> Hop(w, s)][h] = Hop(w, h)
    BY <1>2
  <2> QED
    BY <2>1 DEF Turn, h
<1> HIDE DEF h
<1> QED
  BY <1>2, <1>3, <1>4

\* So do the four turns a continuation takes at most.
LEMMA FourTurnsKeepCommit ==
    ASSUME NEW art, NEW w \in Walks
    PROVE  /\ FourTurns(art, w) \in Walks
           /\ FourTurns(art, w).s.committed = w.s.committed
<1> DEFINE w1 == Turn(art)[w]
           w2 == Turn(art)[w1]
           w3 == Turn(art)[w2]
           w4 == Turn(art)[w3]
<1>1. w1 \in Walks /\ w1.s.committed = w.s.committed
  BY TurnKeepsCommit
<1>2. w2 \in Walks /\ w2.s.committed = w1.s.committed
  BY <1>1, TurnKeepsCommit
<1>3. w3 \in Walks /\ w3.s.committed = w2.s.committed
  BY <1>2, TurnKeepsCommit
<1>4. w4 \in Walks /\ w4.s.committed = w3.s.committed
  BY <1>3, TurnKeepsCommit
<1> HIDE DEF w1, w2, w3, w4
<1>5. FourTurns(art, w) = w4
  BY DEF FourTurns, w1, w2, w3, w4
<1> QED
  BY <1>1, <1>2, <1>3, <1>4, <1>5

\* A continuation returns a session with the flags it was given, in a phase of
\* the table.
LEMMA WalkKeepsCommit ==
    ASSUME NEW s \in SessionDocument, NEW art
    PROVE  /\ Closed(Walked(s, art).s) \in SessionDocument
           /\ Closed(Walked(s, art).s).committed = s.committed
<1> DEFINE w0 == Setout(s)
           w4 == FourTurns(art, w0)
           w8 == FourTurns(art, w4)
<1>1. w0 \in Walks /\ w0.s.committed = s.committed
  BY DEF Setout, Walks, SessionDocument
<1> HIDE DEF w0
<1>2. w4 \in Walks /\ w4.s.committed = w0.s.committed
  BY <1>1, FourTurnsKeepCommit
<1> HIDE DEF w4
<1>3. w8 \in Walks /\ w8.s.committed = w4.s.committed
  BY <1>2, FourTurnsKeepCommit
<1> HIDE DEF w8
<1>4. Walked(s, art) = w8
  BY DEF Walked, w0, w4, w8
<1>5. ASSUME NEW d \in SessionDocument
      PROVE  Closed(d) \in SessionDocument /\ Closed(d).committed = d.committed
  <2>1. "4" \in StartTokens /\ d.phase \in StartTokens
    BY DEF SessionDocument, StartTokens
  <2>2. Closed(d) \in SessionDocument
    BY <2>1 DEF Closed, SessionDocument, RuleStates
  <2> QED
    BY <2>2 DEF Closed, SessionDocument
<1> QED
  BY <1>1, <1>2, <1>3, <1>4, <1>5 DEF Walks
-----------------------------------------------------------------------------
(* The walk of the continuation comes to Phase 4 only with what Phase 4       *)
(* wants, and comes there if it is never refused.                            *)

\* What a session that any launcher has written says of itself.
Earned(s) ==
    /\ s.phase = "4" => s.committed /\ s.rulebooks /\ s.discovery = "complete" /\ s.api # "absent"
    /\ s.ready => s.committed

\* The hops the way still has, told by the phase that is asked for.
Hops == [t \in StartTokens |->
    CASE t = "1.1" -> 8 [] t = "1" -> 7 [] t = "1.2" -> 6 [] t = "1.3" -> 5 [] t = "2" -> 4
      [] t = "2.1" -> 3 [] t = "1.5" -> 2 [] t = "3A" -> 1 [] t = "4" -> 1]

\* The phase asked for is the one the session is in, or the one that follows it.
OnTheWay(phase, req) ==
    \/ req = phase
    \/ <<phase, req>> \in {<<"1.1", "1">>, <<"1", "1.2">>, <<"1.3", "2">>, <<"2", "2.1">>}

\* A walk with n hops left: over, in Phase 4 unless it was refused, or on its way.
Walking(w, n, art) ==
    /\ w \in Walks /\ Earned(w.s) /\ w.s.evidence
    /\ w.s.committed => art = Artifacts
    /\ \/ w.over /\ (w.ok => w.s.phase = "4")
       \/ ~w.over /\ Hops[w.req] <= n /\ OnTheWay(w.s.phase, w.req)

LEMMA HopsLeft ==
    /\ Hops["1.1"] = 8 /\ Hops["1"] = 7 /\ Hops["1.2"] = 6 /\ Hops["1.3"] = 5 /\ Hops["2"] = 4
    /\ Hops["2.1"] = 3 /\ Hops["1.5"] = 2 /\ Hops["3A"] = 1 /\ Hops["4"] = 1
BY DEF Hops, StartTokens

LEMMA HopsAreFew == \A t \in StartTokens : Hops[t] \in 1 .. 8
BY DEF Hops, StartTokens

\* Hydration fills in nothing a phase does not ask for, and what it asks for.
LEMMA HydrationEarns ==
    ASSUME NEW req \in StartTokens, NEW s \in SessionDocument, NEW art,
           Earned(s), s.committed => art = Artifacts
    PROVE  LET h == Hydrated(req, s, art)
           IN  /\ h \in SessionDocument /\ Earned(h)
               /\ h.phase = s.phase /\ h.committed = s.committed /\ h.evidence = s.evidence
               /\ (StartRank[req] >= StartRank["2"] /\ s.committed => h.discovery = "complete")
               /\ (req = "3A" => h.api # "absent")
<1> DEFINE h == Hydrated(req, s, art)
<1>1. h \in SessionDocument /\ h.committed = s.committed
  BY HydrationKeepsCommit
<1>2. /\ h.phase = s.phase /\ h.evidence = s.evidence /\ h.ready = s.ready
      /\ h.rulebooks = (s.rulebooks \/ StartRank[req] >= StartRank["1.3"])
      /\ h.api = IF req = "3A" THEN "not-applicable" ELSE s.api
      /\ h.discovery = IF ~(StartRank[req] >= StartRank["2"]) THEN s.discovery
                       ELSE IF {"repo-cache", "repo-map-digest"} \subseteq art
                            THEN "complete" ELSE "incomplete"
  BY DEF Hydrated, SessionDocument
<1>3. {"repo-cache", "repo-map-digest"} \subseteq Artifacts
  BY DEF Artifacts
<1> HIDE DEF h
<1>4. Earned(h)
  BY <1>1, <1>2, <1>3 DEF Earned
<1>5. StartRank[req] >= StartRank["2"] /\ s.committed => h.discovery = "complete"
  BY <1>2, <1>3
<1> QED
  BY <1>1, <1>2, <1>4, <1>5 DEF h

\* On its way a hop is a refusal, or leaves the phase that was asked for.
LEMMA WayIsLeft ==
    ASSUME NEW req \in StartTokens, NEW h \in SessionDocument, h.evidence, OnTheWay(h.phase, req)
    PROVE  LET r == ExecuteStart(req, h)
           IN  \/ ~r.ok /\ (r.phase = "4" => h.phase = "4")
               \/ /\ r = Leave(req, h) /\ r.ok
                  /\ StartRank[req] >= StartRank["2"] => h.committed /\ h.rulebooks
                  /\ ExitEvidence(req, h)
<1> DEFINE r == ExecuteStart(req, h)
<1>1. h.phase \in StartTokens /\ h.phase \in {h.phase} \cup Nexts(h.phase)
  BY DEF SessionDocument
<1>2. /\ ~Refusal("1.1", FALSE).ok /\ Refusal("1.1", FALSE).phase = "1.1"
      /\ ~Refusal("1.3", FALSE).ok /\ Refusal("1.3", FALSE).phase = "1.3"
      /\ ~Refusal(req, TRUE).ok /\ Refusal(req, TRUE).phase = req
      /\ ~Refusal(req, FALSE).ok /\ Refusal(req, FALSE).phase = req
  BY DEF Refusal, Result
<1>3. \/ Leave(req, h) = Refusal("1.3", FALSE)
      \/ Leave(req, h) = Refusal(req, FALSE) /\ ~ExitEvidence(req, h)
      \/ /\ Leave(req, h).ok /\ ExitEvidence(req, h)
         /\ StartRank[req] >= StartRank["2"] => h.rulebooks
  BY DEF Leave, Result
<1>4. ExitEvidence("4", h)
  BY DEF ExitEvidence
<1>5. \/ r = Refusal("1.1", FALSE)
      \/ r = Move(req, req, h) /\ (StartRank[req] >= StartRank["2"] => h.committed)
  <2>1. CASE req = h.phase \/ <<h.phase, req>> \in {<<"1", "1.2">>, <<"1.3", "2">>, <<"2", "2.1">>}
    <3>1. ~(StartRank[req] < StartRank[h.phase])
      BY <2>1, <1>1 DEF StartRank, StartTokens
    <3> QED
      BY <3>1 DEF ExecuteStart
  <2>2. CASE h.phase = "1.1" /\ req = "1"
    <3>1. Following("1.1", h) = "1"
      BY DEF Following, Nexts
    <3>2. /\ StartRank[req] < StartRank[h.phase]
          /\ ~(StartRank[h.phase] >= StartRank["2"]) /\ ~(StartRank[req] >= StartRank["2"])
      BY <2>2 DEF StartRank, StartTokens
    <3> QED
      BY <2>2, <3>1, <3>2 DEF ExecuteStart
  <2> QED
    BY <2>1, <2>2 DEF OnTheWay
<1>6. \/ Move(req, req, h) = Refusal(req, TRUE) /\ req # "4"
      \/ Move(req, req, h) = Leave(req, h)
  <2>1. req \in {h.phase} \cup Nexts(h.phase)
    BY DEF OnTheWay, Nexts
  <2>2. StartRank[req] < StartRank["4"] => req # "4"
    BY DEF StartRank, StartTokens
  <2> QED
    BY <2>1, <2>2 DEF Move
<1>7. StartRank[req] >= StartRank["2"] \/ ~(StartRank[req] >= StartRank["2"])
  OBVIOUS
<1>8. CASE r = Refusal("1.1", FALSE) \/ (r = Refusal(req, TRUE) /\ req # "4")
  BY <1>2, <1>8
<1>9. CASE r = Leave(req, h) /\ (StartRank[req] >= StartRank["2"] => h.committed)
  BY <1>2, <1>3, <1>4, <1>9
<1> HIDE DEF r
<1> QED
  BY <1>5, <1>6, <1>8, <1>9 DEF r

\* Where a phase that is left leads to.
LEMMA LeftIsFollowed ==
    ASSUME NEW req \in StartTokens, NEW h \in SessionDocument, Leave(req, h).ok
    PROVE  LET r == Leave(req, h)
           IN  \/ r.phase = "4" /\ req \in {"3A", "4"}
               \/ /\ r.phase # "4" /\ r.next \in StartTokens
                  /\ Hops[r.next] < Hops[req] /\ OnTheWay(r.phase, r.next)
<1> DEFINE r == Leave(req, h)
           next == Following(req, h)
<1>1. r = Result(IF MovesOn(req) THEN next ELSE req, next, TRUE,
                 (IF MovesOn(req) THEN next ELSE req) = "4")
  BY DEF Leave, Refusal, Result
<1>2. r.phase = (IF MovesOn(req) THEN next ELSE req) /\ r.next = next
  <2> HIDE DEF next
  <2> QED
    BY <1>1 DEF Result
<1>3. next = CASE req = "1.1" -> "1" [] req = "1" -> "1.2" [] req = "1.2" -> "1.3" [] req = "1.3" -> "2"
               [] req = "2" -> "2.1" [] req = "2.1" -> (IF DiscoveryResolved(h) THEN "3A" ELSE "1.5")
               [] req = "1.5" -> "3A" [] req = "3A" -> "4" [] req = "4" -> "4"
  <2>1. \A x : (CHOOSE n \in {x} : TRUE) = x
    OBVIOUS
  <2> QED
    BY <2>1 DEF Following, Nexts, StartTokens
<1> HIDE DEF r, next
<1>4. MovesOn(req) <=> req \in {"1.2", "2.1", "1.5", "3A"}
  BY DEF MovesOn
<1>5. CASE req \in {"3A", "4"}
  BY <1>2, <1>3, <1>4, <1>5 DEF r
<1>6. CASE req \notin {"3A", "4"}
  <2>1. r.phase # "4" /\ next \in StartTokens /\ OnTheWay(r.phase, next)
    BY <1>2, <1>3, <1>4, <1>6 DEF OnTheWay, StartTokens
  <2>2. Hops[next] < Hops[req]
    <3>1. <<req, next>> \in {<<"1.1", "1">>, <<"1", "1.2">>, <<"1.2", "1.3">>, <<"1.3", "2">>,
                             <<"2", "2.1">>, <<"2.1", "3A">>, <<"2.1", "1.5">>, <<"1.5", "3A">>}
      BY <1>3, <1>6 DEF StartTokens
    <3> QED
      BY <3>1, HopsLeft
  <2> QED
    BY <1>2, <2>1, <2>2 DEF r
<1> QED
  BY <1>5, <1>6 DEF r

\* A turn of the loop takes one of the hops that are left.
LEMMA TurnWalks ==
    ASSUME NEW art, NEW n \in Nat, NEW w, Walking(w, n + 1, art)
    PROVE  Walking(Turn(art)[w], n, art)
<1> DEFINE h == Hydrated(w.req, w.s, art)
           r == ExecuteStart(w.req, h)
           d == [h EXCEPT !.phase = r.phase, !.asking = r.asking]
           v == Turn(art)[w]
<1>1. w \in Walks /\ w.req \in StartTokens /\ w.s \in SessionDocument
  BY DEF Walking, Walks
<1>2. Turn(art)[w] \in Walks
  BY <1>1, TurnKeepsCommit
<1>3. CASE w.over
  BY <1>1, <1>3 DEF Turn, Walking
<1>4. CASE ~w.over
  <2>1. /\ Earned(w.s) /\ w.s.evidence /\ (w.s.committed => art = Artifacts)
        /\ Hops[w.req] <= n + 1 /\ OnTheWay(w.s.phase, w.req)
    BY <1>4 DEF Walking
  <2>2. /\ h \in SessionDocument /\ Earned(h) /\ h.phase = w.s.phase
        /\ h.committed = w.s.committed /\ h.evidence
        /\ StartRank[w.req] >= StartRank["2"] /\ w.s.committed => h.discovery = "complete"
        /\ w.req = "3A" => h.api # "absent"
    BY <1>1, <2>1, HydrationEarns
  <2>3. Turn(art)[w] = Hop(w, h)
    <3>1. [s \in SessionDocument |-> Hop(w, s)][h] = Hop(w, h)
      BY <2>2
    <3> QED
      BY <1>1, <1>4, <3>1 DEF Turn
  <2>4. Turn(art)[w] = [s |-> d, req |-> r.next, ok |-> r.ok,
                        over |-> \/ ~r.ok
                                 \/ StartRank[r.phase] >= StartRank["4"]
                                 \/ r.next = w.req /\ r.phase = w.req]
    BY <2>3 DEF Hop
  <2> HIDE DEF h
  <2>5. /\ d.phase = r.phase /\ d.committed = h.committed /\ d.evidence = h.evidence
        /\ d.rulebooks = h.rulebooks /\ d.discovery = h.discovery /\ d.api = h.api /\ d.ready = h.ready
    BY <2>2 DEF SessionDocument
  <2>6. r.phase \in StartTokens
    BY <1>1, <2>2, KernelAnswers DEF KernelResult
  <2>7. StartRank[r.phase] >= StartRank["4"] <=> r.phase = "4"
    BY <2>6 DEF StartRank, StartTokens
  <2>11. /\ v.s = d /\ v.req = r.next /\ v.ok = r.ok
         /\ v.over = (\/ ~r.ok
                      \/ StartRank[r.phase] >= StartRank["4"]
                      \/ r.next = w.req /\ r.phase = w.req)
    <3> HIDE DEF r, d
    <3> QED
      BY <2>4
  <2>8. \/ ~r.ok /\ (r.phase = "4" => h.phase = "4")
        \/ /\ r = Leave(w.req, h) /\ r.ok
           /\ StartRank[w.req] >= StartRank["2"] => h.committed /\ h.rulebooks
           /\ ExitEvidence(w.req, h)
    BY <1>1, <2>1, <2>2, WayIsLeft
  <2>9. CASE ~r.ok /\ (r.phase = "4" => h.phase = "4")
    <3>1. Earned(d)
      BY <2>2, <2>5, <2>9 DEF Earned
    <3> HIDE DEF r, d, v
    <3> QED
      BY <1>2, <2>1, <2>2, <2>5, <2>9, <2>11, <3>1 DEF Walking, v
  <2>10. CASE /\ r = Leave(w.req, h) /\ r.ok
              /\ StartRank[w.req] >= StartRank["2"] => h.committed /\ h.rulebooks
              /\ ExitEvidence(w.req, h)
    <3>1. \/ r.phase = "4" /\ w.req \in {"3A", "4"}
          \/ /\ r.phase # "4" /\ r.next \in StartTokens
             /\ Hops[r.next] < Hops[w.req] /\ OnTheWay(r.phase, r.next)
      BY <1>1, <2>2, <2>10, LeftIsFollowed
    <3>2. CASE r.phase = "4" /\ w.req \in {"3A", "4"}
      <4>1. StartRank[w.req] >= StartRank["2"]
        BY <3>2 DEF StartRank, StartTokens
      <4>2. w.req = "4" => h.phase = "4"
        BY <2>1, <2>2 DEF OnTheWay
      <4>3. h.api # "absent"
        BY <2>2, <3>2, <4>2 DEF Earned
      <4>4. h.committed /\ h.rulebooks /\ h.discovery = "complete"
        BY <2>2, <2>10, <4>1
      <4>5. Earned(d)
        BY <2>5, <4>3, <4>4 DEF Earned
      <4> HIDE DEF r, d, v
      <4> QED
        BY <1>2, <2>1, <2>2, <2>5, <2>7, <2>11, <3>2, <4>5 DEF Walking, v
    <3>3. CASE /\ r.phase # "4" /\ r.next \in StartTokens
               /\ Hops[r.next] < Hops[w.req] /\ OnTheWay(r.phase, r.next)
      <4>1. Earned(d)
        BY <2>2, <2>5, <3>3 DEF Earned
      <4>2. r.next # w.req
        BY <1>1, <3>3, HopsAreFew
      <4>3. Hops[r.next] <= n
        BY <1>1, <2>1, <3>3, HopsAreFew
      <4> HIDE DEF r, d, v
      <4> QED
        BY <1>2, <2>1, <2>2, <2>5, <2>7, <2>10, <2>11, <3>3, <4>1, <4>2, <4>3 DEF Walking, v
    <3> QED
      BY <3>1, <3>2, <3>3
  <2> QED
    BY <2>8, <2>9, <2>10
<1> QED
  BY <1>3, <1>4


\* Eight turns are all the hops of the way: the walk is over.
LEMMA WalkEarns ==
    ASSUME NEW s \in SessionDocument, NEW art, Earned(s), s.committed => art = Artifacts
    PROVE  LET w == Walked(s, art)
           IN  /\ Earned(Closed(w.s))
               /\ w.ok => Closed(w.s).phase = "4" /\ Closed(w.s).ready
<1> DEFINE w0 == Setout(s)
           w1 == Turn(art)[w0]
           w2 == Turn(art)[w1]
           w3 == Turn(art)[w2]
           w4 == Turn(art)[w3]
           w5 == Turn(art)[w4]
           w6 == Turn(art)[w5]
           w7 == Turn(art)[w6]
           w8 == Turn(art)[w7]
<1>1. Walking(w0, 8, art)
  <2> DEFINE d == [s EXCEPT !.evidence = TRUE]
  <2>1. /\ d \in SessionDocument /\ d.evidence /\ d.phase = s.phase /\ d.committed = s.committed
        /\ d.rulebooks = s.rulebooks /\ d.discovery = s.discovery /\ d.api = s.api
        /\ d.ready = s.ready /\ s.phase \in StartTokens
    BY DEF SessionDocument
  <2> HIDE DEF d
  <2>2. w0 = [s |-> d, req |-> s.phase, ok |-> TRUE, over |-> FALSE]
    BY DEF Setout, d
  <2>3. Hops[s.phase] <= 8
    BY <2>1, HopsAreFew
  <2> QED
    BY <2>1, <2>2, <2>3 DEF Walking, Walks, Earned, OnTheWay
<1> HIDE DEF w0, w1, w2, w3, w4, w5, w6, w7, w8
<1>2. Walking(w1, 7, art)
  BY <1>1, TurnWalks DEF w1
<1>3. Walking(w2, 6, art)
  BY <1>2, TurnWalks DEF w2
<1>4. Walking(w3, 5, art)
  BY <1>3, TurnWalks DEF w3
<1>5. Walking(w4, 4, art)
  BY <1>4, TurnWalks DEF w4
<1>6. Walking(w5, 3, art)
  BY <1>5, TurnWalks DEF w5
<1>7. Walking(w6, 2, art)
  BY <1>6, TurnWalks DEF w6
<1>8. Walking(w7, 1, art)
  BY <1>7, TurnWalks DEF w7
<1>9. Walking(w8, 0, art)
  BY <1>8, TurnWalks DEF w8
<1>10. Walked(s, art) = w8
  BY DEF Walked, FourTurns, w0, w1, w2, w3, w4, w5, w6, w7, w8
<1>11. w8.s \in SessionDocument /\ Earned(w8.s) /\ (w8.ok => w8.s.phase = "4")
  <2>1. w8.req \in StartTokens /\ w8.s \in SessionDocument
    BY <1>9 DEF Walking, Walks
  <2>2. ~(Hops[w8.req] <= 0)
    BY <2>1, HopsAreFew
  <2> QED
    BY <1>9, <2>1, <2>2 DEF Walking
<1> DEFINE c == Closed(w8.s)
<1>12. /\ c.phase = w8.s.phase /\ c.committed = w8.s.committed /\ c.rulebooks = w8.s.rulebooks
       /\ c.discovery = w8.s.discovery /\ c.api = w8.s.api
       /\ c.ready = (StartRank[w8.s.phase] >= StartRank["4"] /\ w8.s.committed)
  BY <1>11 DEF Closed, SessionDocument
<1>13. StartRank["4"] >= StartRank["4"]
  BY DEF StartRank, StartTokens
<1> HIDE DEF c
<1>14. Earned(c) /\ (w8.ok => c.phase = "4" /\ c.ready)
  BY <1>11, <1>12, <1>13 DEF Earned
<1> QED
  BY <1>10, <1>14 DEF c

-----------------------------------------------------------------------------
(* The inductive invariant: what a launcher that has come to a step has      *)
(* established, none of which a later step of anybody takes back.            *)

Founded(r) == /\ intent = "valid" /\ ws[r].policy /\ ws[r].identity
              /\ ws[r].session # Nothing

Backed(r) == intent = "valid" /\ ws[r].policy /\ ws[r].identity /\ ws[r].artifacts = Artifacts

Way(p) ==
    /\ pc[p] \in {"policy", "initial", "identity"} => intent = "valid"
    /\ pc[p] \in {"initial", "identity"} => Files(p).policy
    /\ pc[p] \in {"identity"} \cup BackfillSteps \cup CommitSteps \cup HookSteps =>
           Files(p).session # Nothing
    /\ pc[p] \in BackfillSteps \cup CommitSteps /\ kind[p] = "launch" => Founded(home[p])
    /\ pc[p] \in {"update"} \cup CommitSteps => Files(p).artifacts = Artifacts
    /\ pc[p] \in CommitSteps \ {"release"} => kind[p] = "launch"
    /\ pc[p] \in {"update", "commit", "route"} => doc[p] # Nothing
    /\ doc[p] # Nothing => (doc[p].committed => Backed(home[p]))

IInv ==
    /\ TypeOK
    /\ \A p \in Launchers : Way(p)
    /\ CommitIsBacked
    /\ PointerIsUsable

\* Nothing that has been established is taken back.
Grows ==
    /\ intent = "valid" => intent' = "valid"
    /\ \A r \in Repos :
          /\ ws[r].policy => ws'[r].policy
          /\ ws[r].identity => ws'[r].identity
          /\ ws[r].artifacts = Artifacts => ws'[r].artifacts = Artifacts
          /\ ws[r].session # Nothing => ws'[r].session # Nothing

\* A session is only committed by a launcher that has the backing.
CommitsAreBacked ==
    \A r \in Repos :
        ws'[r].session # Nothing /\ ws'[r].session.committed =>
            Committed(r) \/ Backed(r)'

\* A step of one launcher, or of none.
StepOf(p) ==
    /\ home' = home
    /\ \A q \in Launchers \ {p} :
          pc'[q] = pc[q] /\ kind'[q] = kind[q] /\ doc'[q] = doc[q]

\* What a launcher has established outlives the steps of the others.
LEMMA WayOutlives ==
    ASSUME TypeOK, Grows, home' = home, NEW q \in Launchers, Way(q),
           pc'[q] = pc[q], kind'[q] = kind[q], doc'[q] = doc[q]
    PROVE  Way(q)'
<1>1. home[q] \in Repos /\ home'[q] = home[q]
  BY DEF TypeOK
<1>2. Founded(home[q]) => Founded(home[q])'
  BY <1>1 DEF Founded, Grows
<1>3. Backed(home[q]) => Backed(home[q])'
  BY <1>1 DEF Backed, Grows
<1> QED
  BY <1>1, <1>2, <1>3 DEF Way, Files, Grows

\* With a step of p that grows the files, keeps its own way and backs its
\* commits, only the pointer is left to look at.
LEMMA StepKeepsInvariant ==
    ASSUME IInv, TypeOK', NEW p \in Launchers, StepOf(p), Grows, Way(p)', CommitsAreBacked,
           \/ pointer' = pointer
           \/ /\ pointer' = home[p] /\ Files(p).session # Nothing
              /\ Backed(home[p])
    PROVE  IInv'
<1>1. ASSUME NEW q \in Launchers PROVE Way(q)'
  <2>1. CASE q = p
    BY <2>1
  <2>2. CASE q # p
    BY <2>2, WayOutlives DEF IInv, StepOf
  <2> QED
    BY <2>1, <2>2
<1>2. CommitIsBacked'
  BY DEF IInv, CommitIsBacked, Committed, CommitsAreBacked, Grows, Backed
<1>3. PointerIsUsable'
  <2>1. CASE pointer' = pointer
    BY <2>1 DEF IInv, TypeOK, PointerIsUsable, Grows
  <2>2. CASE pointer' = home[p] /\ Files(p).session # Nothing /\ Backed(home[p])
    BY <2>2 DEF IInv, TypeOK, PointerIsUsable, Grows, Backed, Files
  <2> QED
    BY <2>1, <2>2
<1> QED
  BY <1>1, <1>2, <1>3 DEF IInv

\* A launcher that writes nothing.
LEMMA Unwritten ==
    ASSUME TypeOK, ws' = ws, intent = "valid" => intent' = "valid"
    PROVE  Grows /\ CommitsAreBacked
BY DEF Grows, CommitsAreBacked, Committed

\* A launcher that writes one file of its workspace.
LEMMA WrittenFiles ==
    ASSUME TypeOK, NEW p \in Launchers, NEW f \in Workspace, Put(p, f),
           home' = home, intent' = intent,
           Files(p).policy => f.policy, Files(p).identity => f.identity,
           Files(p).artifacts = Artifacts => f.artifacts = Artifacts,
           Files(p).session # Nothing => f.session # Nothing,
           f.session # Nothing /\ f.session.committed =>
               f.session = Files(p).session \/ Backed(home[p])
    PROVE  Grows /\ CommitsAreBacked /\ ws' \in [Repos -> Workspace] /\ Files(p)' = f
<1>1. home[p] \in Repos /\ ws \in [Repos -> Workspace] /\ home'[p] = home[p]
  BY DEF TypeOK
<1>2. ws' = [ws EXCEPT ![home[p]] = f]
  BY DEF Put
<1>3. ws' \in [Repos -> Workspace] /\ ws'[home[p]] = f
  BY <1>1, <1>2
<1>4. \A r \in Repos \ {home[p]} : ws'[r] = ws[r]
  BY <1>1, <1>2
<1>5. Grows
  BY <1>1, <1>3, <1>4 DEF Grows, Files
<1>6. Backed(home[p]) => Backed(home[p])'
  BY <1>1, <1>5 DEF Backed, Grows
<1>7. CommitsAreBacked
  <2> SUFFICES ASSUME NEW r \in Repos, ws'[r].session # Nothing, ws'[r].session.committed
               PROVE  Committed(r) \/ Backed(r)'
    BY DEF CommitsAreBacked
  <2>1. CASE r # home[p]
    BY <2>1, <1>4 DEF Committed
  <2>2. CASE r = home[p]
    <3>1. f.session = Files(p).session \/ Backed(home[p])
      BY <2>2, <1>3
    <3> QED
      BY <3>1, <2>2, <1>3, <1>6 DEF Committed, Files
  <2> QED
    BY <2>1, <2>2
<1> QED
  BY <1>1, <1>3, <1>5, <1>7 DEF Files

\* The document of a run that ends is forgotten, and nothing is left to keep.
LEMMA EndedRun ==
    ASSUME IInv, NEW p \in Launchers, Ended(p), home' = home, kind' = kind
    PROVE  /\ StepOf(p)
           /\ Way(p)'
           /\ pc' \in [Launchers -> Steps]
           /\ doc' \in [Launchers -> SessionDocument \cup {Nothing}]
           /\ found' \in [Launchers -> {"none", "extracted", "gap-detected"}]
<1>1. /\ pc \in [Launchers -> Steps]
      /\ doc \in [Launchers -> SessionDocument \cup {Nothing}]
      /\ found \in [Launchers -> {"none", "extracted", "gap-detected"}]
  BY DEF IInv, TypeOK
<1>2. "idle" \in Steps
  BY DEF Steps
<1>3. pc'[p] = "idle" /\ doc'[p] = Nothing
  BY <1>1 DEF Ended
<1>4. Way(p)'
  BY <1>3 DEF Way, BackfillSteps, CommitSteps, HookSteps
<1> QED
  BY <1>1, <1>2, <1>4 DEF Ended, StepOf

-----------------------------------------------------------------------------
(* One lemma for each step of a launcher. *)

\* A launch, and a direct call of the backfill, begin with nothing committed.
LEMMA StartKeeps ==
    ASSUME IInv, NEW p \in Launchers, Launch(p) \/ Persist(p)
    PROVE  IInv'
<1>1. PICK command \in {"launch", "persist"}, at \in {"locking", "queueing"} :
        /\ Start(p, command, at)
        /\ at = "queueing" => command = "persist" /\ Files(p).session # Nothing
  BY DEF Launch, Persist
<1>2. /\ pc' = [pc EXCEPT ![p] = at] /\ kind' = [kind EXCEPT ![p] = command]
      /\ UNCHANGED <<home, unattended, doc, found, intent, pointer, ws, source, events>>
      /\ pc[p] = "idle"
  BY <1>1 DEF Start, Goto, run, shared, world
<1>3. TypeOK'
  BY <1>2 DEF IInv, TypeOK, Steps, BootstrapSteps, BackfillSteps
<1>4. StepOf(p)
  BY <1>2 DEF IInv, TypeOK, StepOf
<1>5. Grows /\ CommitsAreBacked
  BY <1>2, Unwritten DEF IInv
<1>6. Way(p)'
  <2>1. pc'[p] = at /\ kind'[p] = command /\ Files(p)' = Files(p)
    BY <1>2 DEF IInv, TypeOK, Files
  <2>2. doc'[p] # Nothing => (doc'[p].committed => Backed(home[p])')
    BY <1>2 DEF IInv, Way, Backed
  <2> QED
    BY <1>1, <1>2, <2>1, <2>2 DEF Way, BackfillSteps, CommitSteps, HookSteps
<1> QED
  BY <1>2, <1>3, <1>4, <1>5, <1>6, StepKeepsInvariant

\* Taking the lock, and waiting for it, write nothing.
LEMMA AcquireKeeps ==
    ASSUME IInv, NEW p \in Launchers, Acquire(p)
    PROVE  IInv'
<1> DEFINE f == [Files(p) EXCEPT !.lock = "held"]
<1>1. Files(p) \in Workspace
  BY DEF IInv, TypeOK, Files
<1>2. /\ f \in Workspace
      /\ f.policy = Files(p).policy /\ f.identity = Files(p).identity
      /\ f.artifacts = Files(p).artifacts /\ f.session = Files(p).session
  BY <1>1 DEF Workspace
<1>3. PICK to \in {"intent", "rules"} :
        /\ pc' = [pc EXCEPT ![p] = to]
        /\ \/ pc[p] = "locking" /\ to = "intent"
           \/ pc[p] = "queueing" /\ to = "rules"
  BY DEF Acquire, Goto
<1>4. /\ Put(p, f)
      /\ UNCHANGED <<home, unattended, kind, doc, found, intent, pointer, source, events>>
  BY DEF Acquire, run, shared, world
<1> HIDE DEF f
<1>5. Grows /\ CommitsAreBacked /\ ws' \in [Repos -> Workspace] /\ Files(p)' = f
  BY <1>2, <1>4, WrittenFiles DEF IInv
<1>6. TypeOK'
  BY <1>3, <1>4, <1>5 DEF IInv, TypeOK, Steps, BootstrapSteps, BackfillSteps
<1>7. StepOf(p)
  BY <1>3, <1>4 DEF IInv, TypeOK, StepOf
<1>8. Way(p)'
  <2>1. home[p] \in Repos /\ pc'[p] = to /\ home'[p] = home[p]
    BY <1>3, <1>4 DEF IInv, TypeOK
  <2>2. Founded(home[p]) => Founded(home[p])'
    BY <2>1, <1>4, <1>5 DEF Founded, Grows
  <2>3. Backed(home[p]) => Backed(home[p])'
    BY <2>1, <1>4, <1>5 DEF Backed, Grows
  <2> QED
    BY <1>2, <1>3, <1>4, <1>5, <2>1, <2>2, <2>3
    DEF IInv, Way, BackfillSteps, CommitSteps, HookSteps
<1> QED
  BY <1>4, <1>5, <1>6, <1>7, <1>8, StepKeepsInvariant

\* A launcher that gives up waiting has written nothing.
LEMMA TimeOutKeeps ==
    ASSUME IInv, NEW p \in Launchers, TimeOut(p)
    PROVE  IInv'
<1>1. Ended(p) /\ UNCHANGED <<home, unattended, kind, intent, pointer, ws, source, events>>
  BY DEF TimeOut, run, shared, world
<1>2. Grows /\ CommitsAreBacked
  BY <1>1, Unwritten DEF IInv
<1>3. TypeOK'
  BY <1>1, EndedRun DEF IInv, TypeOK
<1> QED
  BY <1>1, <1>2, <1>3, EndedRun, StepKeepsInvariant

\* A run that is refused lets the lock go.
LEMMA RefusalKeeps ==
    ASSUME IInv, NEW p \in Launchers, Refused(p), events' \in 0 .. MaxEvents,
           UNCHANGED <<home, unattended, kind, intent, pointer, source>>
    PROVE  IInv'
<1> DEFINE f == [Files(p) EXCEPT !.lock = "free"]
<1>1. Files(p) \in Workspace
  BY DEF IInv, TypeOK, Files
<1>2. /\ f \in Workspace
      /\ f.policy = Files(p).policy /\ f.identity = Files(p).identity
      /\ f.artifacts = Files(p).artifacts /\ f.session = Files(p).session
  BY <1>1 DEF Workspace
<1>3. Ended(p) /\ Put(p, f)
  BY DEF Refused
<1> HIDE DEF f
<1>4. Grows /\ CommitsAreBacked /\ ws' \in [Repos -> Workspace]
  BY <1>2, <1>3, WrittenFiles DEF IInv
<1>5. TypeOK'
  BY <1>3, <1>4, EndedRun DEF IInv, TypeOK
<1> QED
  BY <1>3, <1>4, <1>5, EndedRun, StepKeepsInvariant

\* A launcher stopped anywhere leaves what its way so far has backed.
LEMMA InterruptKeeps ==
    ASSUME IInv, NEW p \in Launchers, Interrupt(p)
    PROVE  IInv'
<1>1. /\ Ended(p) /\ events < MaxEvents /\ events' = events + 1
      /\ UNCHANGED <<home, unattended, kind, intent, pointer, ws, source>>
  BY DEF Interrupt, Event, run, shared
<1>2. Grows /\ CommitsAreBacked
  BY <1>1, Unwritten DEF IInv
<1>3. TypeOK'
  BY <1>1, EndedRun, BootstrapAssumption DEF IInv, TypeOK
<1> QED
  BY <1>1, <1>2, <1>3, EndedRun, StepKeepsInvariant

\* A valid intent is there from then on, for the rest of the way.
LEMMA TakeIntentKeeps ==
    ASSUME IInv, NEW p \in Launchers, TakeIntent(p)
    PROVE  IInv'
<1>1. /\ pc[p] = "intent" /\ pc' = [pc EXCEPT ![p] = "policy"] /\ intent' = "valid"
      /\ UNCHANGED <<home, unattended, kind, doc, found, pointer, ws, source, events>>
  BY DEF TakeIntent, Goto, run, world
<1>2. Grows /\ CommitsAreBacked
  BY <1>1, Unwritten DEF IInv
<1>3. TypeOK'
  BY <1>1 DEF IInv, TypeOK, Steps, BootstrapSteps
<1>4. StepOf(p)
  BY <1>1 DEF IInv, TypeOK, StepOf
<1>5. Way(p)'
  <2>1. pc'[p] = "policy"
    BY <1>1 DEF IInv, TypeOK
  <2> QED
    BY <1>1, <2>1 DEF IInv, Way, Backed, Files, BackfillSteps, CommitSteps, HookSteps
<1> QED
  BY <1>1, <1>2, <1>3, <1>4, <1>5, StepKeepsInvariant

\* The run-bound policy is there once it is written.
LEMMA WritePolicyKeeps ==
    ASSUME IInv, NEW p \in Launchers, WritePolicy(p)
    PROVE  IInv'
<1> DEFINE f == [Files(p) EXCEPT !.policy = TRUE]
<1>1. Files(p) \in Workspace
  BY DEF IInv, TypeOK, Files
<1>2. /\ f \in Workspace /\ f.policy
      /\ f.identity = Files(p).identity
      /\ f.artifacts = Files(p).artifacts /\ f.session = Files(p).session
  BY <1>1 DEF Workspace
<1>3. /\ pc[p] = "policy" /\ pc' = [pc EXCEPT ![p] = "initial"] /\ Put(p, f)
      /\ UNCHANGED <<home, unattended, kind, doc, found, intent, pointer, source, events>>
  BY DEF WritePolicy, Goto, run, shared, world
<1> HIDE DEF f
<1>4. Grows /\ CommitsAreBacked /\ ws' \in [Repos -> Workspace] /\ Files(p)' = f
  BY <1>2, <1>3, WrittenFiles DEF IInv
<1>5. TypeOK'
  BY <1>3, <1>4 DEF IInv, TypeOK, Steps, BootstrapSteps
<1>6. StepOf(p)
  BY <1>3 DEF IInv, TypeOK, StepOf
<1>7. Way(p)'
  <2>1. home[p] \in Repos /\ pc'[p] = "initial" /\ home'[p] = home[p]
    BY <1>3 DEF IInv, TypeOK
  <2>2. Backed(home[p]) => Backed(home[p])'
    BY <2>1, <1>3, <1>4 DEF Backed, Grows
  <2> QED
    BY <1>2, <1>3, <1>4, <2>1, <2>2 DEF IInv, Way, BackfillSteps, CommitSteps, HookSteps
<1> QED
  BY <1>3, <1>4, <1>5, <1>6, <1>7, StepKeepsInvariant

\* The first session of a bootstrap is a session, and claims nothing.
LEMMA InitialSessionTyped ==
    InitialSession \in SessionDocument /\ ~InitialSession.committed /\ InitialSession # Nothing
<1>1. InitialSession \in SessionDocument
  BY DEF InitialSession, SessionDocument, StartTokens, RuleStates
<1> QED
  BY <1>1, BootstrapAssumption DEF InitialSession

\* The first session takes the place of one that may have been committed, and
\* withdraws its flags.
LEMMA WriteInitialKeeps ==
    ASSUME IInv, NEW p \in Launchers, WriteInitial(p)
    PROVE  IInv'
<1> DEFINE f == [Files(p) EXCEPT !.session = InitialSession]
<1>1. Files(p) \in Workspace
  BY DEF IInv, TypeOK, Files
<1>2. /\ f \in Workspace /\ f.policy = Files(p).policy
      /\ f.identity = Files(p).identity
      /\ f.artifacts = Files(p).artifacts /\ f.session = InitialSession
  BY <1>1, InitialSessionTyped DEF Workspace
<1>3. /\ pc[p] = "initial" /\ pc' = [pc EXCEPT ![p] = "identity"] /\ Put(p, f)
      /\ UNCHANGED <<home, unattended, kind, doc, found, intent, pointer, source, events>>
  BY DEF WriteInitial, Goto, run, shared, world
<1> HIDE DEF f
<1>4. Grows /\ CommitsAreBacked /\ ws' \in [Repos -> Workspace] /\ Files(p)' = f
  BY <1>2, <1>3, InitialSessionTyped, WrittenFiles DEF IInv
<1>5. TypeOK'
  BY <1>3, <1>4 DEF IInv, TypeOK, Steps, BootstrapSteps
<1>6. StepOf(p)
  BY <1>3 DEF IInv, TypeOK, StepOf
<1>7. Way(p)'
  <2>1. home[p] \in Repos /\ pc'[p] = "identity" /\ home'[p] = home[p]
    BY <1>3 DEF IInv, TypeOK
  <2>2. Backed(home[p]) => Backed(home[p])'
    BY <2>1, <1>3, <1>4 DEF Backed, Grows
  <2> QED
    BY <1>2, <1>3, <1>4, <2>1, <2>2, InitialSessionTyped
    DEF IInv, Way, BackfillSteps, CommitSteps, HookSteps
<1> QED
  BY <1>3, <1>4, <1>5, <1>6, <1>7, StepKeepsInvariant

\* The identity map is there once it is written.
LEMMA WriteIdentityKeeps ==
    ASSUME IInv, NEW p \in Launchers, WriteIdentity(p)
    PROVE  IInv'
<1>1. Files(p) \in Workspace
  BY DEF IInv, TypeOK, Files
<1>2. PICK to \in {"rules", "queueing"}, l \in {"free", Files(p).lock} :
        /\ pc' = [pc EXCEPT ![p] = to]
        /\ Put(p, [Files(p) EXCEPT !.identity = TRUE, !.lock = l])
        /\ to = "queueing" => kind[p] = "persist"
  <2>1. [Files(p) EXCEPT !.identity = TRUE]
            = [Files(p) EXCEPT !.identity = TRUE, !.lock = Files(p).lock]
    BY <1>1 DEF Workspace
  <2> QED
    BY <2>1 DEF WriteIdentity, Goto
<1> DEFINE f == [Files(p) EXCEPT !.identity = TRUE, !.lock = l]
<1>3. /\ f \in Workspace /\ f.identity
      /\ f.policy = Files(p).policy
      /\ f.artifacts = Files(p).artifacts /\ f.session = Files(p).session
  BY <1>1 DEF Workspace
<1>4. /\ pc[p] = "identity" /\ Put(p, f)
      /\ UNCHANGED <<home, unattended, kind, doc, found, intent, pointer, source, events>>
  BY <1>2 DEF WriteIdentity, Goto, run, shared, world
<1> HIDE DEF f
<1>5. Grows /\ CommitsAreBacked /\ ws' \in [Repos -> Workspace] /\ Files(p)' = f
  BY <1>3, <1>4, WrittenFiles DEF IInv
<1>6. TypeOK'
  BY <1>2, <1>4, <1>5 DEF IInv, TypeOK, Steps, BackfillSteps
<1>7. StepOf(p)
  BY <1>2, <1>4 DEF IInv, TypeOK, StepOf
<1>8. Way(p)'
  <2>1. home[p] \in Repos /\ pc'[p] = to /\ home'[p] = home[p] /\ ws'[home[p]] = f
    BY <1>2, <1>4, <1>5 DEF IInv, TypeOK, Files
  <2>2. Backed(home[p]) => Backed(home[p])'
    BY <2>1, <1>4, <1>5 DEF Backed, Grows
  <2>3. Founded(home[p])'
    BY <2>1, <1>3, <1>4 DEF IInv, Way, Founded, Files
  <2>4. f.session # Nothing
    BY <1>3, <1>4 DEF IInv, Way
  <2> QED
    BY <1>3, <1>4, <1>5, <2>1, <2>2, <2>3, <2>4
    DEF IInv, Way, BackfillSteps, CommitSteps, HookSteps
<1> QED
  BY <1>4, <1>5, <1>6, <1>7, <1>8, StepKeepsInvariant

\* The backfill of a launcher goes on with what it found: a step that writes
\* neither policy, identity nor session, and no artifact less.
LEMMA BackfillStepKeeps ==
    ASSUME IInv, NEW p \in Launchers, NEW f \in Workspace, Put(p, f),
           f.policy = Files(p).policy, f.identity = Files(p).identity,
           f.session = Files(p).session,
           Files(p).artifacts = Artifacts => f.artifacts = Artifacts,
           pc[p] \in {"rules", "artifacts"}, pc' = [pc EXCEPT ![p] = "artifacts"],
           found' \in [Launchers -> {"none", "extracted", "gap-detected"}],
           events' \in 0 .. MaxEvents,
           UNCHANGED <<home, unattended, kind, doc, intent, pointer, source>>
    PROVE  IInv'
<1>1. Grows /\ CommitsAreBacked /\ ws' \in [Repos -> Workspace] /\ Files(p)' = f
  BY WrittenFiles DEF IInv
<1>2. TypeOK'
  BY <1>1 DEF IInv, TypeOK, Steps, BackfillSteps
<1>3. StepOf(p)
  BY DEF IInv, TypeOK, StepOf
<1>4. Way(p)'
  <2>1. home[p] \in Repos /\ pc'[p] = "artifacts" /\ home'[p] = home[p]
    BY DEF IInv, TypeOK
  <2>2. Backed(home[p]) => Backed(home[p])'
    BY <2>1, <1>1 DEF Backed, Grows
  <2>3. Founded(home[p]) => Founded(home[p])'
    BY <2>1, <1>1 DEF Founded, Grows
  <2> QED
    BY <1>1, <2>1, <2>2, <2>3 DEF IInv, Way, BackfillSteps, CommitSteps, HookSteps
<1> QED
  BY <1>1, <1>2, <1>3, <1>4, StepKeepsInvariant

\* The inventory may be removed again; it is none of the four artifacts.
LEMMA UpsertRulesKeeps ==
    ASSUME IInv, NEW p \in Launchers, UpsertRules(p)
    PROVE  IInv'
<1> DEFINE file == Inventory(source[home[p]], Files(p).inventory)
           f    == [Files(p) EXCEPT !.inventory = file]
<1>1. Files(p) \in Workspace /\ home[p] \in Repos /\ source[home[p]] \in Rules \cup {Nothing}
  BY DEF IInv, TypeOK, Files
<1>2. file \in Rules \cup {Nothing}
  BY <1>1 DEF Inventory, Workspace
<1>3. Outcome(file) \in {"extracted", "gap-detected"} /\ Outcome(Nothing) = "gap-detected"
  BY DEF Outcome
<1> HIDE DEF file
<1>4. /\ f \in Workspace /\ f.policy = Files(p).policy /\ f.identity = Files(p).identity
      /\ f.artifacts = Files(p).artifacts /\ f.session = Files(p).session
  BY <1>1, <1>2 DEF Workspace
<1>5. /\ pc[p] = "rules" /\ pc' = [pc EXCEPT ![p] = "artifacts"]
      /\ UNCHANGED <<home, unattended, kind, doc, intent, pointer, source>>
  BY DEF UpsertRules, Goto, run, shared
<1>6. CASE /\ Put(p, f) /\ found' = [found EXCEPT ![p] = Outcome(file)] /\ UNCHANGED events
  <2>1. found' \in [Launchers -> {"none", "extracted", "gap-detected"}]
    BY <1>3, <1>6 DEF IInv, TypeOK
  <2>2. events' \in 0 .. MaxEvents
    BY <1>6 DEF IInv, TypeOK
  <2> HIDE DEF f
  <2> QED
    BY <1>4, <1>5, <1>6, <2>1, <2>2, BackfillStepKeeps
<1>7. CASE /\ Event /\ found' = [found EXCEPT ![p] = Outcome(Nothing)] /\ UNCHANGED ws
  <2>1. found' \in [Launchers -> {"none", "extracted", "gap-detected"}]
    BY <1>3, <1>7 DEF IInv, TypeOK
  <2>2. events' \in 0 .. MaxEvents
    BY <1>7, BootstrapAssumption DEF IInv, TypeOK, Event
  <2>3. Put(p, Files(p))
    BY <1>1, <1>7 DEF IInv, TypeOK, Put, Files
  <2> QED
    BY <1>1, <1>5, <2>1, <2>2, <2>3, BackfillStepKeeps
<1> QED
  BY <1>6, <1>7 DEF UpsertRules, file

\* An artifact is written or kept, and never removed.
LEMMA WriteArtifactKeeps ==
    ASSUME IInv, NEW p \in Launchers, WriteArtifact(p)
    PROVE  IInv'
<1>1. Files(p) \in Workspace
  BY DEF IInv, TypeOK, Files
<1>2. PICK a \in Artifacts \ Files(p).artifacts :
        Put(p, [Files(p) EXCEPT !.artifacts = Files(p).artifacts \cup {a}])
  BY DEF WriteArtifact
<1> DEFINE f == [Files(p) EXCEPT !.artifacts = Files(p).artifacts \cup {a}]
<1>3. /\ f \in Workspace /\ f.policy = Files(p).policy /\ f.identity = Files(p).identity
      /\ f.session = Files(p).session
      /\ Files(p).artifacts # Artifacts
  BY <1>1, <1>2 DEF Workspace
<1>4. /\ pc[p] = "artifacts" /\ pc' = [pc EXCEPT ![p] = "artifacts"]
      /\ UNCHANGED <<home, unattended, kind, doc, found, intent, pointer, source, events>>
  BY DEF WriteArtifact, run, shared, world, IInv, TypeOK
<1>5. /\ found' \in [Launchers -> {"none", "extracted", "gap-detected"}]
      /\ events' \in 0 .. MaxEvents
  BY <1>4 DEF IInv, TypeOK
<1>6. Put(p, f)
  BY <1>2
<1> HIDE DEF f
<1> QED
  BY <1>3, <1>4, <1>5, <1>6, BackfillStepKeeps

\* Every refusal is a step that only lets the lock go.
LEMMA RefusedStepsKeep ==
    ASSUME IInv, NEW p \in Launchers, RefuseIntent(p) \/ BackfillFails(p)
    PROVE  IInv'
<1>1. Refused(p) /\ UNCHANGED <<home, unattended, kind, intent, pointer, source>>
  BY DEF RefuseIntent, BackfillFails, run, shared, world
<1>2. events' \in 0 .. MaxEvents
  BY BootstrapAssumption DEF IInv, TypeOK, RefuseIntent, BackfillFails, Event, world
<1> QED
  BY <1>1, <1>2, RefusalKeeps

\* A session is read where there is one; its flags are backed when it is.
LEMMA ReadKeeps ==
    ASSUME IInv, NEW p \in Launchers,
           \/ ReadForUpdate(p) \/ ReadForMerge(p) \/ ReadForRoute(p)
    PROVE  IInv'
<1>1. PICK from \in {"artifacts", "merge", "resume"}, to \in {"update", "commit", "route"} :
        /\ ReadSession(p, from, to)
        /\ \/ from = "artifacts" /\ to = "update" /\ Files(p).artifacts = Artifacts
           \/ from = "merge" /\ to = "commit"
           \/ from = "resume" /\ to = "route"
  BY DEF ReadForUpdate, ReadForMerge, ReadForRoute
<1>2. /\ pc[p] = from /\ pc' = [pc EXCEPT ![p] = to]
      /\ doc' = [doc EXCEPT ![p] = Files(p).session]
      /\ UNCHANGED <<home, unattended, kind, found, intent, pointer, ws, source, events>>
  BY <1>1 DEF ReadSession, Goto, run, shared, world
<1>3. Grows /\ CommitsAreBacked
  BY <1>2, Unwritten DEF IInv
<1>4. Files(p).session \in SessionDocument \cup {Nothing} /\ home[p] \in Repos
  BY DEF IInv, TypeOK, Files, Workspace
<1>5. TypeOK'
  BY <1>2, <1>4 DEF IInv, TypeOK, Steps, BackfillSteps, CommitSteps, HookSteps
<1>6. StepOf(p)
  BY <1>2 DEF IInv, TypeOK, StepOf
<1>7. Way(p)'
  <2>1. pc'[p] = to /\ doc'[p] = Files(p).session /\ Files(p)' = Files(p)
    BY <1>2 DEF IInv, TypeOK, Files
  <2>2. Founded(home[p]) => Founded(home[p])'
    BY <1>2 DEF Founded
  <2>3. Backed(home[p]) => Backed(home[p])'
    BY <1>2 DEF Backed
  <2>4. Files(p).session # Nothing
    BY <1>2 DEF IInv, Way, BackfillSteps, CommitSteps, HookSteps
  <2>5. Files(p).session.committed => Backed(home[p])
    BY <1>4, <2>4 DEF IInv, CommitIsBacked, Committed, Backed, Files
  <2> QED
    BY <1>1, <1>2, <2>1, <2>2, <2>3, <2>4, <2>5
    DEF IInv, Way, BackfillSteps, CommitSteps, HookSteps
<1> QED
  BY <1>2, <1>3, <1>5, <1>6, <1>7, StepKeepsInvariant

\* What a launcher may write into a session it has read.
LEMMA SessionWritten ==
    ASSUME IInv, NEW p \in Launchers, NEW s \in SessionDocument,
           Put(p, [Files(p) EXCEPT !.session = s]),
           s.committed => Backed(home[p]),
           UNCHANGED <<home, intent>>
    PROVE  /\ Grows /\ CommitsAreBacked
           /\ ws' \in [Repos -> Workspace]
           /\ Files(p)' = [Files(p) EXCEPT !.session = s]
           /\ Files(p)'.artifacts = Files(p).artifacts
           /\ Files(p)'.session # Nothing
<1> DEFINE f == [Files(p) EXCEPT !.session = s]
<1>1. Files(p) \in Workspace
  BY DEF IInv, TypeOK, Files
<1>2. /\ f \in Workspace /\ f.policy = Files(p).policy /\ f.identity = Files(p).identity
      /\ f.artifacts = Files(p).artifacts /\ f.session = s
  BY <1>1 DEF Workspace
<1>3. s # Nothing
  BY BootstrapAssumption
<1>4. Put(p, f)
  OBVIOUS
<1> HIDE DEF f
<1>5. Grows /\ CommitsAreBacked /\ ws' \in [Repos -> Workspace] /\ Files(p)' = f
  BY <1>2, <1>3, <1>4, WrittenFiles DEF IInv
<1> QED
  BY <1>2, <1>3, <1>5 DEF f

\* The backfill puts back the session it has read, with the flags it had.
LEMMA UpdateSessionKeeps ==
    ASSUME IInv, NEW p \in Launchers, UpdateSession(p)
    PROVE  IInv'
<1> DEFINE s == [doc[p] EXCEPT !.rules = found[p]]
           to == IF kind[p] = "launch" THEN "verify" ELSE "release"
<1>1. /\ pc[p] = "update" /\ pc' = [pc EXCEPT ![p] = to]
      /\ Put(p, [Files(p) EXCEPT !.session = s])
      /\ doc' = [doc EXCEPT ![p] = Nothing] /\ found' = [found EXCEPT ![p] = "none"]
      /\ UNCHANGED <<home, unattended, kind, intent, pointer, source, events>>
  BY DEF UpdateSession, Goto, run, shared, world
<1>2. doc[p] # Nothing /\ doc[p] \in SessionDocument
  BY <1>1 DEF IInv, TypeOK, Way
<1>3. s \in SessionDocument /\ s.committed = doc[p].committed
  <2>1. found[p] \in RuleStates
    BY DEF IInv, TypeOK, RuleStates
  <2> QED
    BY <1>2, <2>1 DEF SessionDocument
<1>4. s.committed => Backed(home[p])
  BY <1>2, <1>3 DEF IInv, Way
<1> HIDE DEF s
<1>5. /\ Grows /\ CommitsAreBacked /\ ws' \in [Repos -> Workspace]
      /\ Files(p)'.artifacts = Files(p).artifacts /\ Files(p)'.session # Nothing
  BY <1>1, <1>3, <1>4, SessionWritten
<1>6. TypeOK'
  BY <1>1, <1>5 DEF IInv, TypeOK, Steps, CommitSteps
<1>7. StepOf(p)
  BY <1>1 DEF IInv, TypeOK, StepOf
<1>8. Way(p)'
  <2>1. pc'[p] = to /\ doc'[p] = Nothing /\ home[p] \in Repos /\ home'[p] = home[p]
    BY <1>1 DEF IInv, TypeOK
  <2>2. Founded(home[p]) => Founded(home[p])'
    BY <1>1, <1>5, <2>1 DEF Founded, Grows
  <2> QED
    BY <1>1, <1>5, <2>1, <2>2 DEF IInv, Way, BackfillSteps, CommitSteps, HookSteps
<1> QED
  BY <1>1, <1>5, <1>6, <1>7, <1>8, StepKeepsInvariant

\* The steps of the commit that write nothing but the pointer.
LEMMA CommitStepKeeps ==
    ASSUME IInv, NEW p \in Launchers,
           NEW from \in {"verify", "pointer", "readback"},
           NEW to \in {"pointer", "readback", "merge"},
           pc[p] = from, pc' = [pc EXCEPT ![p] = to],
           pointer' = pointer \/ pointer' = home[p],
           UNCHANGED <<home, unattended, kind, doc, found, intent, ws, source, events>>
    PROVE  IInv'
<1>1. Grows /\ CommitsAreBacked
  BY Unwritten DEF IInv
<1>2. TypeOK'
  BY DEF IInv, TypeOK, Steps, CommitSteps
<1>3. StepOf(p)
  BY DEF IInv, TypeOK, StepOf
<1>4. pc[p] \in CommitSteps \ {"release"} /\ kind[p] = "launch" /\ Files(p).artifacts = Artifacts
  BY DEF IInv, Way, CommitSteps
<1>5. Backed(home[p]) /\ Files(p).session # Nothing
  BY <1>4 DEF IInv, Way, Founded, Backed, Files
<1>6. Way(p)'
  <2>1. pc'[p] = to /\ Files(p)' = Files(p)
    BY DEF IInv, TypeOK, Files
  <2>2. Founded(home[p])'
    BY <1>4 DEF IInv, Way, Founded
  <2>3. Backed(home[p])'
    BY <1>5 DEF Backed
  <2> QED
    BY <1>4, <1>5, <2>1, <2>2, <2>3 DEF IInv, Way, BackfillSteps, CommitSteps, HookSteps
<1> QED
  BY <1>1, <1>2, <1>3, <1>5, <1>6, StepKeepsInvariant

\* The pointer is written and read back by a launcher whose workspace has its
\* session.
LEMMA PointerStepsKeep ==
    ASSUME IInv, NEW p \in Launchers,
           VerifyArtifacts(p) \/ WritePointer(p) \/ ReadPointerBack(p)
    PROVE  IInv'
<1>1. CASE VerifyArtifacts(p)
  BY <1>1, CommitStepKeeps DEF VerifyArtifacts, Goto, run, shared, world
<1>2. CASE WritePointer(p)
  BY <1>2, CommitStepKeeps DEF WritePointer, Goto, run, world
<1>3. CASE ReadPointerBack(p) /\ pointer = home[p]
  <2>1. /\ pc[p] = "readback" /\ pc' = [pc EXCEPT ![p] = "merge"]
        /\ UNCHANGED <<home, unattended, kind, doc, found, intent, pointer, ws, source, events>>
    BY <1>3 DEF ReadPointerBack, Goto, run, shared, world
  <2> QED
    BY <2>1, CommitStepKeeps
<1>4. CASE ReadPointerBack(p) /\ pointer # home[p]
  <2>1. Refused(p) /\ UNCHANGED <<home, unattended, kind, intent, pointer, source, events>>
    BY <1>4 DEF ReadPointerBack, run, shared, world
  <2>2. events' \in 0 .. MaxEvents
    BY <2>1 DEF IInv, TypeOK
  <2> QED
    BY <2>1, <2>2, RefusalKeeps
<1> QED
  BY <1>1, <1>2, <1>3, <1>4

\* The one step that sets the flags.
LEMMA CommitKeeps ==
    ASSUME IInv, NEW p \in Launchers, Commit(p)
    PROVE  IInv'
<1> DEFINE s == Merged(doc[p])
<1>1. /\ pc[p] = "commit" /\ pc' = [pc EXCEPT ![p] = "release"]
      /\ Put(p, [Files(p) EXCEPT !.session = s])
      /\ doc' = [doc EXCEPT ![p] = Nothing]
      /\ UNCHANGED <<home, unattended, kind, found, intent, pointer, source, events>>
  BY DEF Commit, Goto, run, shared, world
<1>2. doc[p] # Nothing /\ doc[p] \in SessionDocument
  BY <1>1 DEF IInv, TypeOK, Way
<1>3. s \in SessionDocument
  BY <1>2 DEF Merged, SessionDocument, StartTokens
<1>4. pc[p] \in CommitSteps \ {"release"} /\ kind[p] = "launch" /\ Files(p).artifacts = Artifacts
  BY <1>1 DEF IInv, Way, CommitSteps
<1>5. Backed(home[p])
  BY <1>4 DEF IInv, Way, Founded, Backed, Files
<1> HIDE DEF s
<1>6. /\ Grows /\ CommitsAreBacked /\ ws' \in [Repos -> Workspace]
      /\ Files(p)'.artifacts = Files(p).artifacts /\ Files(p)'.session # Nothing
  BY <1>1, <1>3, <1>5, SessionWritten
<1>7. TypeOK'
  BY <1>1, <1>6 DEF IInv, TypeOK, Steps, CommitSteps
<1>8. StepOf(p)
  BY <1>1 DEF IInv, TypeOK, StepOf
<1>9. Way(p)'
  <2>1. pc'[p] = "release" /\ doc'[p] = Nothing /\ home[p] \in Repos /\ home'[p] = home[p]
    BY <1>1 DEF IInv, TypeOK
  <2>2. Founded(home[p])'
    BY <1>1, <1>4, <1>6, <2>1 DEF IInv, Way, Founded, Grows
  <2> QED
    BY <1>1, <1>4, <1>6, <2>1, <2>2 DEF IInv, Way, BackfillSteps, CommitSteps, HookSteps
<1> QED
  BY <1>1, <1>6, <1>7, <1>8, <1>9, StepKeepsInvariant

\* The lock is let go, by the launcher or by the backfill.
LEMMA ReleaseKeeps ==
    ASSUME IInv, NEW p \in Launchers, Release(p)
    PROVE  IInv'
<1>1. /\ pc[p] = "release" /\ Put(p, [Files(p) EXCEPT !.lock = "free"])
      /\ UNCHANGED <<home, unattended, kind, intent, pointer, source, events>>
  BY DEF Release, Goto, run, shared, world
<1>2. CASE pc' = [pc EXCEPT ![p] = "hook-pointer"] /\ UNCHANGED <<doc, found>>
  <2> DEFINE f == [Files(p) EXCEPT !.lock = "free"]
  <2>1. Files(p) \in Workspace
    BY DEF IInv, TypeOK, Files
  <2>2. /\ f \in Workspace
        /\ f.policy = Files(p).policy /\ f.identity = Files(p).identity
        /\ f.artifacts = Files(p).artifacts /\ f.session = Files(p).session
    BY <2>1 DEF Workspace
  <2>3. Put(p, f)
    BY <1>1
  <2> HIDE DEF f
  <2>4. Grows /\ CommitsAreBacked /\ ws' \in [Repos -> Workspace] /\ Files(p)' = f
    BY <1>1, <2>2, <2>3, WrittenFiles DEF IInv
  <2>5. TypeOK'
    BY <1>1, <1>2, <2>4 DEF IInv, TypeOK, Steps, HookSteps
  <2>6. StepOf(p)
    BY <1>1, <1>2 DEF IInv, TypeOK, StepOf
  <2>7. Way(p)'
    <3>1. pc'[p] = "hook-pointer" /\ home[p] \in Repos /\ home'[p] = home[p]
      BY <1>1, <1>2 DEF IInv, TypeOK
    <3>2. Backed(home[p]) => Backed(home[p])'
      BY <1>1, <2>4, <3>1 DEF Backed, Grows
    <3>3. Files(p).session # Nothing
      BY <1>1 DEF IInv, Way, CommitSteps
    <3> QED
      BY <1>1, <1>2, <2>2, <2>4, <3>1, <3>2, <3>3
      DEF IInv, Way, BackfillSteps, CommitSteps, HookSteps
  <2> QED
    BY <1>1, <2>4, <2>5, <2>6, <2>7, StepKeepsInvariant
<1>3. CASE Ended(p)
  <2>1. Refused(p)
    BY <1>1, <1>3 DEF Refused
  <2>2. events' \in 0 .. MaxEvents
    BY <1>1 DEF IInv, TypeOK
  <2> QED
    BY <1>1, <2>1, <2>2, RefusalKeeps
<1> QED
  BY <1>2, <1>3 DEF Release, Goto

\* The hook only looks, and ends the run where it does not find what it wants.
LEMMA HookStepsKeep ==
    ASSUME IInv, NEW p \in Launchers, VerifyPointer(p) \/ VerifySession(p)
    PROVE  IInv'
<1>1. UNCHANGED <<home, unattended, kind, intent, pointer, ws, source, events>>
  BY DEF VerifyPointer, VerifySession, Checked, run, shared, world
<1>2. Grows /\ CommitsAreBacked
  BY <1>1, Unwritten DEF IInv
<1>3. PICK to \in {"hook-session", "resume"} :
        \/ /\ pc[p] \in HookSteps /\ pc' = [pc EXCEPT ![p] = to] /\ UNCHANGED <<doc, found>>
        \/ Ended(p)
  BY DEF VerifyPointer, VerifySession, Checked, Goto, HookSteps
<1>4. CASE pc[p] \in HookSteps /\ pc' = [pc EXCEPT ![p] = to] /\ UNCHANGED <<doc, found>>
  <2>1. TypeOK'
    BY <1>1, <1>4 DEF IInv, TypeOK, Steps, HookSteps
  <2>2. StepOf(p)
    BY <1>1, <1>4 DEF IInv, TypeOK, StepOf
  <2>3. Way(p)'
    <3>1. pc'[p] = to /\ Files(p)' = Files(p)
      BY <1>1, <1>4 DEF IInv, TypeOK, Files
    <3>2. Backed(home[p]) => Backed(home[p])'
      BY <1>1 DEF Backed
    <3> QED
      BY <1>1, <1>4, <3>1, <3>2 DEF IInv, Way, BackfillSteps, CommitSteps, HookSteps
  <2> QED
    BY <1>1, <1>2, <2>1, <2>2, <2>3, StepKeepsInvariant
<1>5. CASE Ended(p)
  <2>1. TypeOK'
    BY <1>1, <1>5, EndedRun DEF IInv, TypeOK
  <2> QED
    BY <1>1, <1>2, <1>5, <2>1, EndedRun, StepKeepsInvariant
<1> QED
  BY <1>3, <1>4, <1>5

\* The continuation writes back what it has read, walked and not locked.
LEMMA RouteKeeps ==
    ASSUME IInv, NEW p \in Launchers, NEW ok \in BOOLEAN, Route(p, ok)
    PROVE  IInv'
<1> DEFINE s == Closed(Walked(doc[p], Files(p).artifacts).s)
<1>1. /\ pc[p] = "route" /\ Put(p, [Files(p) EXCEPT !.session = s]) /\ Ended(p)
      /\ UNCHANGED <<home, unattended, kind, intent, pointer, source, events>>
  BY DEF Route, run, shared, world
<1>2. doc[p] # Nothing /\ doc[p] \in SessionDocument
  BY <1>1 DEF IInv, TypeOK, Way
<1>3. s \in SessionDocument /\ s.committed = doc[p].committed
  BY <1>2, WalkKeepsCommit
<1>4. s.committed => Backed(home[p])
  BY <1>2, <1>3 DEF IInv, Way
<1> HIDE DEF s
<1>5. Grows /\ CommitsAreBacked /\ ws' \in [Repos -> Workspace]
  BY <1>1, <1>3, <1>4, SessionWritten
<1>6. TypeOK'
  BY <1>1, <1>5, EndedRun DEF IInv, TypeOK
<1> QED
  BY <1>1, <1>5, <1>6, EndedRun, StepKeepsInvariant

-----------------------------------------------------------------------------
(* What a session says of itself: every writer of a session keeps it, also   *)
(* the ones that write back what they read before somebody else wrote.       *)

EarnedInv ==
    /\ \A r \in Repos : ws[r].session # Nothing => Earned(ws[r].session)
    /\ \A p \in Launchers : doc[p] # Nothing => Earned(doc[p])

SameSessions == \A r \in Repos : ws'[r].session = ws[r].session
Forgets == \A q \in Launchers : doc'[q] \in {doc[q], Nothing}

\* A step that writes no session and reads none.
LEMMA QuietKeepsEarned ==
    ASSUME EarnedInv, SameSessions, Forgets
    PROVE  EarnedInv'
BY DEF EarnedInv, SameSessions, Forgets

\* A file other than the session is written.
LEMMA OtherFileWritten ==
    ASSUME IInv, NEW p \in Launchers, NEW f, Put(p, f), f.session = Files(p).session
    PROVE  SameSessions
<1>1. home[p] \in Repos /\ ws \in [Repos -> Workspace]
  BY DEF IInv, TypeOK
<1> QED
  BY <1>1 DEF SameSessions, Put, Files

\* A session is written.
LEMMA EarnedWritten ==
    ASSUME IInv, EarnedInv, NEW p \in Launchers, NEW s, Earned(s),
           Put(p, [Files(p) EXCEPT !.session = s]), Forgets
    PROVE  EarnedInv'
<1> DEFINE f == [Files(p) EXCEPT !.session = s]
<1>1. home[p] \in Repos /\ ws \in [Repos -> Workspace] /\ Files(p) \in Workspace
  BY DEF IInv, TypeOK, Files
<1>2. f.session = s
  BY <1>1 DEF Workspace
<1>3. ws' = [ws EXCEPT ![home[p]] = f]
  BY DEF Put
<1> HIDE DEF f
<1> QED
  BY <1>1, <1>2, <1>3 DEF EarnedInv, Forgets

\* The session is read.
LEMMA EarnedRead ==
    ASSUME IInv, EarnedInv, NEW p \in Launchers, NEW from, NEW to, ReadSession(p, from, to)
    PROVE  EarnedInv'
<1>1. doc' = [doc EXCEPT ![p] = Files(p).session] /\ ws' = ws
  BY DEF ReadSession
<1>2. home[p] \in Repos /\ doc \in [Launchers -> SessionDocument \cup {Nothing}]
  BY DEF IInv, TypeOK
<1> QED
  BY <1>1, <1>2 DEF EarnedInv, Files

\* The end of a run forgets, and what it may write is the lock.
LEMMA EndIsQuiet ==
    ASSUME IInv, NEW p \in Launchers
    PROVE  /\ Ended(p) => Forgets
           /\ Refused(p) => Forgets /\ SameSessions
           /\ doc' = doc => Forgets
           /\ doc' = [doc EXCEPT ![p] = Nothing] => Forgets
           /\ ws' = ws => SameSessions
<1>1. doc \in [Launchers -> SessionDocument \cup {Nothing}] /\ Files(p) \in Workspace
  BY DEF IInv, TypeOK, Files
<1>2. Ended(p) => Forgets
  BY <1>1 DEF Ended, Forgets
<1>3. [Files(p) EXCEPT !.lock = "free"].session = Files(p).session
  BY <1>1 DEF Workspace
<1>4. Refused(p) => SameSessions
  BY <1>3, OtherFileWritten DEF Refused
<1> QED
  BY <1>1, <1>2, <1>4 DEF Refused, Forgets, SameSessions

\* The steps of a launcher that neither write nor read a session.
LEMMA QuietSteps ==
    ASSUME IInv, EarnedInv, NEW p \in Launchers,
           \/ Launch(p) \/ Persist(p) \/ Acquire(p) \/ TimeOut(p) \/ TakeIntent(p)
           \/ RefuseIntent(p) \/ WritePolicy(p) \/ WriteIdentity(p) \/ UpsertRules(p)
           \/ WriteArtifact(p) \/ VerifyArtifacts(p) \/ WritePointer(p) \/ ReadPointerBack(p)
           \/ Release(p) \/ VerifyPointer(p) \/ VerifySession(p)
           \/ BackfillFails(p) \/ Interrupt(p)
    PROVE  EarnedInv'
<1>1. Files(p) \in Workspace
  BY DEF IInv, TypeOK, Files
<1>2. CASE Launch(p) \/ Persist(p)
  <2>1. UNCHANGED <<doc, ws>>
    BY <1>2 DEF Launch, Persist, Start
  <2> QED
    BY <2>1, EndIsQuiet, QuietKeepsEarned
<1>3. CASE TakeIntent(p) \/ VerifyArtifacts(p) \/ WritePointer(p)
  <2>1. UNCHANGED <<doc, ws>>
    BY <1>3 DEF TakeIntent, VerifyArtifacts, WritePointer
  <2> QED
    BY <2>1, EndIsQuiet, QuietKeepsEarned
<1>4. CASE TimeOut(p) \/ VerifyPointer(p) \/ VerifySession(p) \/ Interrupt(p)
  <2>1. ws' = ws /\ (Ended(p) \/ doc' = doc)
    BY <1>4 DEF TimeOut, VerifyPointer, VerifySession, Checked, Interrupt
  <2> QED
    BY <2>1, EndIsQuiet, QuietKeepsEarned
<1>5. CASE RefuseIntent(p) \/ BackfillFails(p)
  <2>1. Refused(p)
    BY <1>5 DEF RefuseIntent, BackfillFails
  <2> QED
    BY <2>1, EndIsQuiet, QuietKeepsEarned
<1>6. CASE ReadPointerBack(p)
  <2>1. UNCHANGED <<doc, ws>> \/ Refused(p)
    BY <1>6 DEF ReadPointerBack
  <2> QED
    BY <2>1, EndIsQuiet, QuietKeepsEarned
<1>7. CASE Acquire(p) \/ WritePolicy(p) \/ WriteIdentity(p) \/ UpsertRules(p) \/ WriteArtifact(p)
  <2>1. doc' = doc
    BY <1>7 DEF Acquire, WritePolicy, WriteIdentity, UpsertRules, WriteArtifact
  <2>2. /\ [Files(p) EXCEPT !.lock = "held"].session = Files(p).session
        /\ [Files(p) EXCEPT !.policy = TRUE].session = Files(p).session
        /\ [Files(p) EXCEPT !.identity = TRUE].session = Files(p).session
        /\ [Files(p) EXCEPT !.identity = TRUE, !.lock = "free"].session = Files(p).session
        /\ \A x : [Files(p) EXCEPT !.inventory = x].session = Files(p).session
        /\ \A x : [Files(p) EXCEPT !.artifacts = x].session = Files(p).session
    BY <1>1 DEF Workspace
  <2>3. \/ ws' = ws
        \/ Put(p, [Files(p) EXCEPT !.lock = "held"])
        \/ Put(p, [Files(p) EXCEPT !.policy = TRUE])
        \/ Put(p, [Files(p) EXCEPT !.identity = TRUE])
        \/ Put(p, [Files(p) EXCEPT !.identity = TRUE, !.lock = "free"])
        \/ \E x : Put(p, [Files(p) EXCEPT !.inventory = x])
        \/ \E x : Put(p, [Files(p) EXCEPT !.artifacts = x])
    BY <1>7 DEF Acquire, WritePolicy, WriteIdentity, UpsertRules, WriteArtifact
  <2>4. SameSessions
    BY <2>2, <2>3, OtherFileWritten, EndIsQuiet
  <2> QED
    BY <2>1, <2>4, EndIsQuiet, QuietKeepsEarned
<1>8. CASE Release(p)
  <2>1. Put(p, [Files(p) EXCEPT !.lock = "free"]) /\ (doc' = doc \/ Ended(p))
    BY <1>8 DEF Release
  <2>2. [Files(p) EXCEPT !.lock = "free"].session = Files(p).session
    BY <1>1 DEF Workspace
  <2>3. SameSessions
    BY <2>1, <2>2, OtherFileWritten
  <2> QED
    BY <2>1, <2>3, EndIsQuiet, QuietKeepsEarned
<1> QED
  BY <1>2, <1>3, <1>4, <1>5, <1>6, <1>7, <1>8

\* The walk of a continuation ends in a session that is earned, and in Phase 4
\* if no hop was refused.
LEMMA RouteEarns ==
    ASSUME IInv, EarnedInv, NEW p \in Launchers, NEW ok \in BOOLEAN, Route(p, ok)
    PROVE  /\ EarnedInv'
           /\ ok => Files(p)'.session.phase = "4" /\ Files(p)'.session.ready
<1> DEFINE w == Walked(doc[p], Files(p).artifacts)
           c == Closed(w.s)
<1>1. /\ pc[p] = "route" /\ w.ok = ok /\ Ended(p) /\ home' = home
      /\ Put(p, [Files(p) EXCEPT !.session = c])
  BY DEF Route, run
<1>2. doc[p] # Nothing /\ doc[p] \in SessionDocument
  BY <1>1 DEF IInv, TypeOK, Way
<1>3. Earned(doc[p]) /\ (doc[p].committed => Files(p).artifacts = Artifacts)
  BY <1>2 DEF EarnedInv, IInv, Way, Backed, Files
<1>4. Earned(c) /\ (w.ok => c.phase = "4" /\ c.ready)
  BY <1>2, <1>3, WalkEarns
<1> HIDE DEF w, c
<1>5. EarnedInv'
  BY <1>1, <1>4, EndIsQuiet, EarnedWritten
<1>6. Files(p)'.session = c
  <2> DEFINE f == [Files(p) EXCEPT !.session = c]
  <2>1. home[p] \in Repos /\ ws \in [Repos -> Workspace] /\ Files(p) \in Workspace
    BY DEF IInv, TypeOK, Files
  <2>2. f.session = c
    BY <2>1 DEF Workspace
  <2>3. ws' = [ws EXCEPT ![home[p]] = f] /\ home'[p] = home[p]
    BY <1>1 DEF Put
  <2> HIDE DEF f
  <2> QED
    BY <2>1, <2>2, <2>3 DEF Files
<1> QED
  BY <1>1, <1>4, <1>5, <1>6

\* The writers of a session: a new one, the backfill, the commit and the
\* continuation.
LEMMA WritersEarn ==
    ASSUME IInv, EarnedInv, NEW p \in Launchers,
           \/ WriteInitial(p) \/ UpdateSession(p) \/ Commit(p)
           \/ \E ok \in BOOLEAN : Route(p, ok)
    PROVE  EarnedInv'
<1>1. CASE WriteInitial(p)
  <2>1. Put(p, [Files(p) EXCEPT !.session = InitialSession]) /\ doc' = doc
    BY <1>1 DEF WriteInitial
  <2>2. Earned(InitialSession)
    BY DEF Earned, InitialSession
  <2> HIDE DEF InitialSession
  <2> QED
    BY <2>1, <2>2, EndIsQuiet, EarnedWritten
<1>2. CASE UpdateSession(p)
  <2> DEFINE s == [doc[p] EXCEPT !.rules = found[p]]
  <2>1. pc[p] = "update" /\ Put(p, [Files(p) EXCEPT !.session = s])
        /\ doc' = [doc EXCEPT ![p] = Nothing]
    BY <1>2 DEF UpdateSession, Goto
  <2>2. doc[p] # Nothing /\ doc[p] \in SessionDocument
    BY <2>1 DEF IInv, TypeOK, Way
  <2>3. Earned(doc[p])
    BY <2>2 DEF EarnedInv
  <2>4. Earned(s)
    <3>1. /\ s.phase = doc[p].phase /\ s.committed = doc[p].committed
          /\ s.rulebooks = doc[p].rulebooks /\ s.discovery = doc[p].discovery
          /\ s.api = doc[p].api /\ s.ready = doc[p].ready
      BY <2>2 DEF SessionDocument
    <3> HIDE DEF s
    <3> QED
      BY <2>3, <3>1 DEF Earned
  <2> HIDE DEF s
  <2> QED
    BY <2>1, <2>4, EndIsQuiet, EarnedWritten
<1>3. CASE Commit(p)
  <2> DEFINE s == Merged(doc[p])
  <2>1. pc[p] = "commit" /\ Put(p, [Files(p) EXCEPT !.session = s])
        /\ doc' = [doc EXCEPT ![p] = Nothing]
    BY <1>3 DEF Commit, Goto
  <2>2. doc[p] # Nothing /\ doc[p] \in SessionDocument
    BY <2>1 DEF IInv, TypeOK, Way
  <2>3. s.phase = "1.2" /\ s.committed
    BY <2>2 DEF Merged, SessionDocument
  <2> HIDE DEF s
  <2>4. Earned(s)
    BY <2>3 DEF Earned
  <2> QED
    BY <2>1, <2>4, EndIsQuiet, EarnedWritten
<1>4. CASE \E ok \in BOOLEAN : Route(p, ok)
  BY <1>4, RouteEarns
<1> QED
  BY <1>1, <1>2, <1>3, <1>4

\* Every step of the system keeps what the sessions say.
LEMMA StepsEarn == IInv /\ EarnedInv /\ [Next]_vars => EarnedInv'
<1> SUFFICES ASSUME IInv, EarnedInv, [Next]_vars PROVE EarnedInv'
  OBVIOUS
<1>1. ASSUME NEW p \in Launchers,
             Launch(p) \/ Persist(p) \/ Proceed(p) \/ BackfillFails(p) \/ Interrupt(p)
      PROVE  EarnedInv'
  <2>1. CASE ReadForUpdate(p) \/ ReadForMerge(p) \/ ReadForRoute(p)
    BY <2>1, EarnedRead DEF ReadForUpdate, ReadForMerge, ReadForRoute
  <2>2. CASE WriteInitial(p) \/ UpdateSession(p) \/ Commit(p) \/ \E ok \in BOOLEAN : Route(p, ok)
    BY <2>2, WritersEarn
  <2> QED
    BY <1>1, <2>1, <2>2, QuietSteps DEF Proceed
<1>2. ASSUME NEW r \in Repos, Age(r) PROVE EarnedInv'
  <2>1. ws' = [ws EXCEPT ![r] = [@ EXCEPT !.lock = "expired"]] /\ doc' = doc
    BY <1>2 DEF Age
  <2>2. ws \in [Repos -> Workspace]
    BY DEF IInv, TypeOK
  <2>3. [ws[r] EXCEPT !.lock = "expired"].session = ws[r].session
    BY <2>2 DEF Workspace
  <2>4. SameSessions
    BY <2>1, <2>2, <2>3 DEF SameSessions
  <2> QED
    BY <2>1, <2>4, QuietKeepsEarned DEF Forgets
<1>3. CASE (\E r \in Repos : ChangeRules(r)) \/ UNCHANGED vars
  <2>1. UNCHANGED <<doc, ws>>
    BY <1>3 DEF ChangeRules, vars
  <2> QED
    BY <2>1, QuietKeepsEarned DEF SameSessions, Forgets
<1> QED
  BY <1>1, <1>2, <1>3 DEF Next

-----------------------------------------------------------------------------
(* The theorems. *)

\* Before the first launch there is no session and no pointer.
LEMMA InitEstablishes == Init => IInv
<1> SUFFICES ASSUME Init PROVE IInv
  OBVIOUS
<1>1. NewWorkspace \in Workspace
  BY DEF NewWorkspace, Workspace, Artifacts
<1>2. TypeOK
  BY <1>1, BootstrapAssumption DEF Init, TypeOK, Steps
<1>3. \A p \in Launchers : Way(p)
  BY DEF Init, Way, BackfillSteps, CommitSteps, HookSteps
<1>4. CommitIsBacked /\ PointerIsUsable
  BY DEF Init, CommitIsBacked, Committed, PointerIsUsable, NewWorkspace
<1> QED
  BY <1>2, <1>3, <1>4 DEF IInv

\* The steps of no launcher: a lock ages, rules change, or nothing happens.
LEMMA WorldKeeps ==
    ASSUME IInv,
           \/ \E r \in Repos : Age(r) \/ ChangeRules(r)
           \/ UNCHANGED vars
    PROVE  IInv'
<1>1. UNCHANGED <<home, unattended, pc, kind, doc, found, intent, pointer>>
  BY DEF Age, ChangeRules, vars, run, shared, world
<1>2. Grows /\ ws' \in [Repos -> Workspace]
      /\ \A r \in Repos : ws'[r].session = ws[r].session
  <2>1. CASE UNCHANGED ws
    BY <1>1, <2>1 DEF IInv, TypeOK, Grows
  <2>2. CASE \E r \in Repos : Age(r)
    <3>1. PICK r \in Repos : ws' = [ws EXCEPT ![r] = [@ EXCEPT !.lock = "expired"]]
      BY <2>2 DEF Age
    <3>2. [ws[r] EXCEPT !.lock = "expired"] \in Workspace
      BY DEF IInv, TypeOK, Workspace
    <3>3. \A x \in Repos : /\ ws'[x].policy = ws[x].policy
                           /\ ws'[x].identity = ws[x].identity
                           /\ ws'[x].artifacts = ws[x].artifacts
                           /\ ws'[x].session = ws[x].session
      BY <3>1 DEF IInv, TypeOK, Workspace
    <3> QED
      BY <1>1, <3>1, <3>2, <3>3 DEF IInv, TypeOK, Grows
  <2> QED
    BY <2>1, <2>2 DEF ChangeRules, vars
<1>3. source' \in [Repos -> Rules \cup {Nothing}] /\ events' \in 0 .. MaxEvents
  BY BootstrapAssumption DEF IInv, TypeOK, Age, ChangeRules, Event, vars, world
<1>4. TypeOK'
  BY <1>1, <1>2, <1>3 DEF IInv, TypeOK
<1>5. ASSUME NEW p \in Launchers PROVE Way(p)'
  BY <1>1, <1>2, WayOutlives DEF IInv
<1>6. CommitIsBacked'
  BY <1>1, <1>2 DEF IInv, CommitIsBacked, Committed, Grows
<1>7. PointerIsUsable'
  BY <1>1, <1>2 DEF IInv, TypeOK, PointerIsUsable, Grows
<1> QED
  BY <1>4, <1>5, <1>6, <1>7 DEF IInv

\* Every step of the system keeps the invariant.
LEMMA StepsKeep == IInv /\ [Next]_vars => IInv'
<1> SUFFICES ASSUME IInv, [Next]_vars PROVE IInv'
  OBVIOUS
<1>1. ASSUME NEW p \in Launchers,
             Launch(p) \/ Persist(p) \/ Proceed(p) \/ BackfillFails(p) \/ Interrupt(p)
      PROVE  IInv'
  <2>1. CASE Launch(p) \/ Persist(p)
    BY <2>1, StartKeeps
  <2>2. CASE BackfillFails(p) \/ RefuseIntent(p)
    BY <2>2, RefusedStepsKeep
  <2>3. CASE Interrupt(p)
    BY <2>3, InterruptKeeps
  <2>4. CASE Proceed(p)
    <3>1. CASE \E ok \in BOOLEAN : Route(p, ok)
      BY <3>1, RouteKeeps
    <3>2. CASE ReadForUpdate(p) \/ ReadForMerge(p) \/ ReadForRoute(p)
      BY <3>2, ReadKeeps
    <3>3. CASE VerifyArtifacts(p) \/ WritePointer(p) \/ ReadPointerBack(p)
      BY <3>3, PointerStepsKeep
    <3> QED
      BY <2>2, <2>4, <3>1, <3>2, <3>3, AcquireKeeps, TimeOutKeeps, TakeIntentKeeps,
         WritePolicyKeeps, WriteInitialKeeps, WriteIdentityKeeps, UpsertRulesKeeps,
         WriteArtifactKeeps, UpdateSessionKeeps, CommitKeeps, ReleaseKeeps, HookStepsKeep
      DEF Proceed
  <2> QED
    BY <1>1, <2>1, <2>2, <2>3, <2>4
<1>2. CASE (\E r \in Repos : Age(r) \/ ChangeRules(r)) \/ UNCHANGED vars
  BY <1>2, WorldKeeps
<1> QED
  BY <1>1, <1>2 DEF Next

\* The invariant holds throughout.
LEMMA BootstrapInvariant == Spec => []IInv
<1> QED
  BY InitEstablishes, StepsKeep, PTL DEF Spec

\* The launchers and the files they share keep their types.
THEOREM BootstrapTypeCorrect == Spec => []TypeOK
<1>1. IInv => TypeOK
  BY DEF IInv
<1> QED
  BY BootstrapInvariant, <1>1, PTL

\* What the commit flags of a session say is there, for any launchers and
\* repositories, however often they fail, stop or overlap: with the flags, the
\* intent, the policy, the identity map and all four artifacts.
THEOREM CommitAlwaysBacked == Spec => []CommitIsBacked
<1>1. IInv => CommitIsBacked
  BY DEF IInv
<1> QED
  BY BootstrapInvariant, <1>1, PTL

\* The global pointer always names a workspace that can be entered, whichever
\* of any number of repositories was bootstrapped last.
THEOREM PointerAlwaysUsable == Spec => []PointerIsUsable
<1>1. IInv => PointerIsUsable
  BY DEF IInv
<1> QED
  BY BootstrapInvariant, <1>1, PTL

\* The invariant of the sessions holds throughout, with that of the files.
LEMMA EarnedInvariant == Spec => [](IInv /\ EarnedInv)
<1>1. Init => EarnedInv
  BY DEF Init, NewWorkspace, EarnedInv
<1> QED
  BY InitEstablishes, StepsKeep, <1>1, StepsEarn, PTL DEF Spec

\* No session is in Phase 4 but a committed one with its rulebooks, a complete
\* discovery and an API inventory, although the continuation routes without the
\* lock a document another launcher may have created anew.
THEOREM IntakeAlwaysEarned == Spec => []IntakeIsEarned
<1>1. EarnedInv => IntakeIsEarned
  BY DEF EarnedInv, Earned, IntakeIsEarned
<1> QED
  BY EarnedInvariant, <1>1, PTL

\* A launcher that exits with success has left a session at the ticket gate:
\* the eight hops are enough for every session it can read.
THEOREM OkAlwaysReachesIntake == Spec => OkReachesIntake
<1> DEFINE Reaches ==
        \A p \in Launchers :
            Succeeds(p) => Files(p)'.session.phase = "4" /\ Files(p)'.session.ready
<1>1. IInv /\ EarnedInv => Reaches
  BY RouteEarns DEF Succeeds
<1>2. [][Reaches]_vars <=> OkReachesIntake
  BY DEF OkReachesIntake
<1> HIDE DEF Reaches
<1> QED
  BY EarnedInvariant, <1>1, <1>2, PTL DEF Spec
=============================================================================
