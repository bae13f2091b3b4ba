---------------------------- MODULE BusinessRules ----------------------------
(***************************************************************************)
(* Business rules: their extraction from the documents and the code of a      *)
(* repository, the validation and the coverage that decide whether they are   *)
(* taken, the two files and the session block a discovery leaves, and what    *)
(* /new-work and a launch make of them for the gate P5.4.                     *)
(*                                                                         *)
(* A rule is its identifier and its body; KindOf says what the texts do to a  *)
(* body: "rule" passes, "technical" passes in a document only, the others     *)
(* are refused.  The code counts lines, so a line stands for `times` alike.   *)
(***************************************************************************)
EXTENDS Integers, FiniteSets, FiniteSetsExt

CONSTANTS
    NoFile,         \* a file or a session block that is not there
    KindOf,         \* body -> "rule", "technical", "artifact", "overfit" or "invalid"
    Clashes,        \* the pairs of bodies that contradict each other
    Inputs,         \* repositories, with the hints of a language model
    MaxDiscoveries  \* bound on the discoveries of a behaviour

VARIABLES
    inventory,      \* business-rules.md: a set of rules
    statusFile,     \* business-rules-status.md
    block,          \* SESSION_STATE.BusinessRules
    discovery,      \* the discovery under way
    discoveries,    \* how many there were
    warrant,        \* history: the inventory a discovery wrote or confirmed last
    told            \* history: what P5.4 said after a discovery that wrote both

rvars == <<inventory, statusFile, block, discovery, discoveries, warrant, told>>

-----------------------------------------------------------------------------
(* Lines of code: what extract_code_rule_candidates_with_diagnostics makes of *)
(* each that is an anchor or a normative comment.                            *)

LineStatus(l) ==
    CASE l.surface = "schema" /\ ~l.context -> "dropped_schema_only"
      [] l.surface # "business" /\ ~(l.surface = "schema" /\ ~l.context) -> "dropped_non_business_surface"
      [] l.surface = "business" /\ l.anchor /\ l.meaning /\ l.context -> "accepted_for_validation"
      [] OTHER -> "dropped_missing"

Lines(r, status) == {l \in r.code : LineStatus(l) = status}
HowMany(lines) == MapThenSumSet(LAMBDA l : l.times, lines)
CandidateCount(r) == HowMany(Lines(r, "accepted_for_validation"))

-----------------------------------------------------------------------------
(* Coverage: reason codes that block, and quality reasons of which only some  *)
(* do.                                                                       *)

Severe == {"violation", "unsegmented"}
HardQuality == {"count_below_minimum", "ratio_below_threshold", "artifact_ratio", "artifact_spike",
                "overfit_spike", "insufficient_executable"}

\* evaluate_code_extraction_coverage, given how many rules of the code were valid.
QualityReasons(r, valid, artifacts, overfits) ==
    LET n       == CandidateCount(r)
        foreign == HowMany(Lines(r, "dropped_non_business_surface"))
        schema  == HowMany(Lines(r, "dropped_schema_only"))
        raw     == HowMany(r.code)
    IN {q \in {"count_below_minimum"}     : r.files >= 20 /\ valid < 1}
       \cup {q \in {"ratio_below_threshold"}   : r.files >= 50 /\ (n = 0 \/ 10 * valid < n)}
       \cup {q \in {"artifact_ratio"}          : n > 0 /\ 5 * artifacts > n}
       \cup {q \in {"artifact_spike"}          : n > 0 /\ 20 * artifacts > 3 * n}
       \cup {q \in {"overfit_spike"}           : /\ overfits > 0
                                                 /\ \/ n > 0 /\ 10 * overfits >= n
                                                    \/ overfits >= Max({valid, 1})}
       \cup {q \in {"unbalanced"}              : r.skewed /\ (n >= 20 \/ r.files >= 20)}
       \cup {q \in {"non_business_spike"}      : 10 * (foreign + schema) > 3 * raw}
       \cup {q \in {"schema_only_spike"}       : 5 * schema > raw}
       \cup {q \in {"insufficient_executable"} : raw >= 10 /\ 20 * (IF n > 0 THEN n ELSE valid) < raw}

\* Lines were found and filtered out, which excuses the surfaces that are missing.
Filtered(r) == Lines(r, "dropped_non_business_surface") \cup Lines(r, "dropped_schema_only") # {}

CoverageOf(r, quality) ==
    LET reasons ==
            {c \in {"coverage"} : \/ r.files > 0 /\ CandidateCount(r) = 0
                                  \/ r.files >= 8 /\ ~Filtered(r)}
            \cup {c \in {"spike"}   : "artifact_spike" \in quality}
            \cup {c \in {"overfit"} : "overfit_spike" \in quality}
            \cup {c \in {"quality"} : quality \cap HardQuality # {}}
    IN [reasons |-> reasons, quality |-> quality, sufficient |-> reasons = {}]
Coverage(r, valid, artifacts, overfits) == CoverageOf(r, QualityReasons(r, valid, artifacts, overfits))

\* reconcile_code_extraction_coverage: a severe finding of the validation overrules the coverage.
Reconciled(cover, codes) ==
    IF codes \cap Severe = {} THEN cover
    ELSE [reasons |-> cover.reasons \cup {"coverage", "quality"},
          quality |-> cover.quality \cup (codes \cap Severe),
          sufficient |-> FALSE]

-----------------------------------------------------------------------------
(* Validation of candidates: validate_candidates, with the code requirements  *)
(* enforced.  A candidate is a line, with the rules its text falls into.      *)

RuleLine(at, origin, allowed, section, rules) ==
    [at |-> at, origin |-> origin, allowed |-> allowed, section |-> section, rules |-> rules]

\* Mutant: one of the two signs is enough.
DroppedWithoutAny(c) == ~c.allowed /\ ~c.section

Dropped(c) == ~c.allowed \/ ~c.section
Acceptable(body, origin) ==
    KindOf[body] \in {"rule"} \cup {k \in {"technical"} : origin = "doc"}

Validate(candidates, expected, n, cover, conflict) ==
    LET kept        == {c \in candidates : ~Dropped(c)}
        segments    == UNION {{[at |-> c.at, origin |-> c.origin, rule |-> rule] : rule \in c.rules} : c \in kept}
        valid       == {s \in segments : Acceptable(s.rule.body, s.origin)}
        Refused(kind) == Cardinality({s \in segments : KindOf[s.rule.body] = kind})
        violation   == kept # candidates
        unsegmented == \E c \in kept : c.rules = {}
        sufficient  == cover.sufficient /\ ~violation /\ ~unsegmented
        exceeded    == n > 0 /\ 5 * Refused("artifact") > n
        missing     == expected /\ valid = {}
        poor        == \/ n > 0 /\ \A s \in valid : s.origin # "code"
                       \/ exceeded \/ Refused("overfit") > 0 \/ violation \/ unsegmented
    IN [doc |-> {s.rule : s \in {s \in valid : s.origin = "doc"}},
        code |-> {s.rule : s \in {s \in valid : s.origin = "code"}},
        artifacts |-> Refused("artifact"), overfits |-> Refused("overfit"),
        invalid |-> valid # segments, violation |-> violation, unsegmented |-> unsegmented,
        missing |-> missing, sufficient |-> sufficient, conflict |-> conflict, poor |-> poor,
        compliant |-> valid = segments /\ ~missing /\ sufficient /\ ~conflict /\ ~poor,
        reasons |-> cover.reasons
            \cup {KindOf[s.rule.body] : s \in segments \ valid}
            \cup {c \in {"violation"} : violation} \cup {c \in {"unsegmented"} : unsegmented}
            \cup {c \in {"empty"} : missing} \cup {c \in {"coverage"} : ~sufficient}
            \cup {c \in {"conflict"} : conflict} \cup {c \in {"quality"} : poor}
            \cup {c \in {"spike"} : exceeded}]

\* The accepted lines that pass the texts on their own, one candidate each.
CodeCandidates(r) ==
    UNION {{RuleLine(100 * l.at + j, "code", TRUE, TRUE, {[id |-> 100 * l.at + j, body |-> l.body]}) : j \in 1..l.times} :
           l \in {l \in Lines(r, "accepted_for_validation") : Acceptable(l.body, "code")}}

\* The lines of the documents with a rule's marker; once the code has given
\* candidates, only those from an allowed file and a fitting section.
DocCandidates(r) ==
    LET all == {RuleLine(d.at, "doc", d.allowed, d.section, d.rules) : d \in r.docs}
    IN {c \in all : CandidateCount(r) > 0 => ~Dropped(c)}

\* extract_validated_business_rules_with_diagnostics: validated with a first
\* coverage, and again with the one that knows the outcome of the first.
Candidates(r) == DocCandidates(r) \cup CodeCandidates(r)
SecondPass(r, first) ==
    LET clash == \E d \in first.doc, c \in first.code : {d.body, c.body} \in Clashes
        cover == Reconciled(Coverage(r, Cardinality(first.code), first.artifacts, first.overfits), first.reasons)
    IN [report |-> Validate(Candidates(r), FALSE, CandidateCount(r), cover, clash), cover |-> cover]
Deterministic(r) ==
    SecondPass(r, Validate(Candidates(r), FALSE, CandidateCount(r), Coverage(r, 0, 0, 0), FALSE))

\* merge_code_candidates: the rules found, all as rules of documents, and the
\* well-formed hints with a body of their own, the first of each body.
MergedHints(rules, hints) ==
    {RuleLine(rule.id, "doc", TRUE, TRUE, {rule}) : rule \in rules}
    \cup {RuleLine(h.rule.id, "code", TRUE, TRUE, IF h.marked THEN {h.rule} ELSE {}) :
          h \in {h \in hints :
                   /\ h.wellFormed
                   /\ \A rule \in rules : rule.body # h.rule.body
                   /\ \A g \in hints : g.wellFormed /\ g.rule.body = h.rule.body => g.rule.id >= h.rule.id}}

\* What main of the persistence orchestrator makes of it: hints are validated
\* in a pass of their own, the rendered inventory must hold a rule, and the
\* coverage is reconciled with every code of the three.
Concluded(r, found, report) ==
    LET final  == report.doc \cup report.code
        seen   == report.reasons \cup {c \in {"empty"} : final = {}}
        cover  == Reconciled(found.cover, seen)
        severe == report.violation \/ report.unsegmented
        codes  == seen \cup cover.reasons \cup {c \in {"quality"} : severe}
    IN [rules |-> final, compliant |-> report.compliant /\ final # {},
        invalid |-> report.invalid, violation |-> report.violation, unsegmented |-> report.unsegmented,
        missing |-> report.missing, sufficient |-> cover.sufficient, conflict |-> report.conflict,
        poor |-> (report.poor \/ severe \/ cover.quality # {}) /\ (severe \/ codes # {}),
        reasons |-> codes, quality |-> cover.quality,
        filtered |-> r.files > 0 /\ Filtered(r)]

WithHints(r, found, hints) ==
    Concluded(r, found,
        IF hints = {} THEN found.report
        ELSE Validate(MergedHints(found.report.doc \cup found.report.code, hints), TRUE, CandidateCount(r),
                      [reasons |-> found.report.reasons, sufficient |-> found.report.sufficient], FALSE))

Discovered(input) == WithHints(input.repository, Deterministic(input.repository), input.hints)

-----------------------------------------------------------------------------
(* The snapshot, the files and the gate.                                     *)

NoReport == [compliant |-> FALSE, invalid |-> FALSE, violation |-> FALSE, unsegmented |-> FALSE,
             missing |-> FALSE, sufficient |-> FALSE, conflict |-> FALSE]
NoBlock == [outcome |-> "unresolved", evidence |-> FALSE, loaded |-> FALSE, count |-> 0, valid |-> 0,
            passed |-> FALSE, reported |-> FALSE, report |-> NoReport,
            reasons |-> {}, quality |-> {}, filtered |-> FALSE]

\* build_business_rules_state_snapshot: a block, given the report and whether
\* the inventory is there.
Snapshot(x, valid, written) ==
    LET severe    == x.violation \/ x.unsegmented
        extracted == /\ x.compliant /\ valid > 0 /\ ~x.invalid /\ ~severe /\ ~x.conflict /\ ~x.poor
                     /\ x.sufficient /\ written
    IN [outcome |-> IF extracted THEN "extracted" ELSE "gap-detected",
        evidence |-> TRUE, loaded |-> extracted, count |-> IF extracted THEN valid ELSE 0, valid |-> valid,
        passed |-> extracted, reported |-> TRUE,
        report |-> [compliant |-> x.compliant, invalid |-> x.invalid, violation |-> x.violation,
                    unsegmented |-> x.unsegmented, missing |-> x.missing,
                    sufficient |-> x.sufficient /\ ~severe, conflict |-> x.conflict],
        reasons |-> x.reasons \cup {c \in {"quality"} : severe}, quality |-> x.quality, filtered |-> x.filtered]

\* _render_business_rules_status: the fields of the snapshot that are read again.
StatusText(b) ==
    [outcome |-> b.outcome, passed |-> b.passed, valid |-> b.valid, invalid |-> b.report.invalid,
     sufficient |-> b.report.sufficient, reasons |-> b.reasons, quality |-> b.quality, filtered |-> b.filtered]

\* apply_fresh_start_business_rules_neutralization: the report and its codes stay.
Neutralized(b) ==
    [outcome |-> "unresolved", evidence |-> FALSE, loaded |-> FALSE, count |-> 0, valid |-> b.valid,
     passed |-> b.passed, reported |-> b.reported, report |-> b.report,
     reasons |-> b.reasons, quality |-> b.quality, filtered |-> b.filtered]

\* hydrate_business_rules_state_from_artifacts, which trusts neither file alone:
\* the report it reads out of the two.
Reread(status, file) ==
    LET claims     == status.outcome = "extracted"
        loaded     == file # NoFile
        consistent == claims => status.valid = (IF loaded THEN Cardinality(file) ELSE 0)
        passed     == status.passed /\ consistent /\ (claims => loaded /\ status.valid > 0 /\ status.sufficient)
    IN [compliant |-> passed, invalid |-> status.invalid,
        violation |-> "violation" \in status.reasons, unsegmented |-> "unsegmented" \in status.reasons,
        missing |-> FALSE, sufficient |-> status.sufficient /\ consistent,
        conflict |-> "conflict" \in status.reasons, poor |-> ~consistent,
        reasons |-> status.reasons \cup {c \in {"quality"} : ~consistent},
        quality |-> status.quality, filtered |-> status.filtered]

Hydrated(b, status, file) ==
    IF status = NoFile THEN b
    ELSE Snapshot(Reread(status, file), status.valid, file # NoFile)

\* _normalize_business_rules_state, at a launch that continues a session.
NormalBlock(b) ==
    LET extracted == /\ b.outcome = "extracted" /\ b.evidence /\ b.loaded /\ b.count > 0 /\ b.passed
    IN [b EXCEPT !.outcome = IF extracted THEN "extracted" ELSE IF b.reported THEN "gap-detected" ELSE "unresolved"]

\* evaluate_p54_business_rules_gate on a block.
P54(b) ==
    LET faulty        == \/ b.report.invalid \/ b.report.violation \/ b.report.unsegmented \/ b.report.missing
        notApplicable == /\ b.filtered /\ {"coverage", "quality"} \subseteq b.reasons
                         /\ {"non_business_spike", "insufficient_executable"} \subseteq b.quality
                         /\ ~faulty
    IN CASE ~b.reported \/ notApplicable -> "not-applicable"
         [] /\ b.reported /\ ~notApplicable
            /\ b.outcome = "extracted" /\ b.evidence /\ b.loaded /\ b.count > 0
            /\ b.report.compliant /\ ~faulty /\ b.report.sufficient /\ ~b.report.conflict -> "compliant"
         [] OTHER -> "gap-detected"

-----------------------------------------------------------------------------
(* A discovery, as main of the persistence orchestrator runs it: it extracts, *)
(* writes the inventory and reads it back, or removes it, writes the status    *)
(* and updates the session.  Without --force a file that is there is kept.      *)

NoDiscovery == [at |-> "idle"]
Goto(at, written, fresh) ==
    discovery' = [at |-> at, input |-> discovery.input, report |-> discovery.report,
                  force |-> discovery.force, written |-> written, fresh |-> fresh]
FinalSnapshot == Snapshot(discovery.report, Cardinality(discovery.report.rules), discovery.written)

\* No file a discovery writes is taken for a missing one.
ASSUME FilesAreThere ==
    \A input \in Inputs, written \in BOOLEAN :
        LET report == Discovered(input)
        IN /\ report.rules # NoFile
           /\ StatusText(Snapshot(report, Cardinality(report.rules), written)) # NoFile

\* Lines are finitely many and each stands for at least one; files are counted,
\* and hints are numbered in their order.
ASSUME InputsAssumption ==
    \A input \in Inputs :
        /\ IsFiniteSet(input.repository.code)
        /\ \A l \in input.repository.code : l.times \in Nat \ {0}
        /\ input.repository.files \in Nat
        /\ \A h \in input.hints : h.rule.id \in Nat

RulesInit ==
    /\ inventory = NoFile /\ statusFile = NoFile /\ block = NoBlock
    /\ discovery = NoDiscovery /\ discoveries = 0
    /\ warrant = NoFile /\ told = "stale"

Discover ==
    /\ discovery = NoDiscovery /\ discoveries < MaxDiscoveries
    /\ \E input \in Inputs, force \in BOOLEAN :
          LET report == Discovered(input)
              first  == Snapshot(report, Cardinality(report.rules), TRUE)
          IN discovery' = [at |-> IF first.outcome = "extracted" THEN "inventory" ELSE "sweep",
                           input |-> input, report |-> report, force |-> force,
                           written |-> FALSE, fresh |-> FALSE]
    /\ discoveries' = discoveries + 1
    /\ told' = "stale"
    /\ UNCHANGED <<inventory, statusFile, block, warrant>>

\* The write may fail, and so may the event that is logged once it is done;
\* either way the discovery goes on as if nothing had been written.
WriteInventory ==
    /\ discovery.at = "inventory"
    /\ \/ /\ inventory = NoFile \/ discovery.force
          /\ inventory' = discovery.report.rules /\ warrant' = discovery.report.rules
          /\ Goto("compare", FALSE, FALSE) \/ Goto("status", FALSE, FALSE)
       \/ /\ inventory # NoFile /\ ~discovery.force
          /\ Goto("compare", FALSE, FALSE)
          /\ UNCHANGED <<inventory, warrant>>
       \/ /\ Goto("status", FALSE, FALSE)
          /\ UNCHANGED <<inventory, warrant>>
    /\ UNCHANGED <<statusFile, block, discoveries, told>>

\* An inventory of other rules is removed, and not written anew; the reading and
\* the removal may fail, which leaves the file and counts as not written.
Compare ==
    /\ discovery.at = "compare"
    /\ \/ /\ inventory = discovery.report.rules
          /\ warrant' = inventory
          /\ Goto("status", TRUE, FALSE)
          /\ UNCHANGED inventory
       \/ /\ inventory # discovery.report.rules
          /\ inventory' = NoFile /\ warrant' = NoFile
          /\ Goto("status", FALSE, FALSE)
       \/ /\ Goto("status", FALSE, FALSE)
          /\ UNCHANGED <<inventory, warrant>>
    /\ UNCHANGED <<statusFile, block, discoveries, told>>

\* Mutant: the removal is forgotten.
SweepForgotten ==
    /\ discovery.at = "sweep"
    /\ warrant' = NoFile
    /\ Goto("status", FALSE, FALSE)
    /\ UNCHANGED <<inventory, statusFile, block, discoveries, told>>

\* There are no rules to write: an inventory that is there is removed.
Sweep ==
    /\ discovery.at = "sweep"
    /\ inventory' = NoFile /\ warrant' = NoFile
    /\ Goto("status", FALSE, FALSE)
    /\ UNCHANGED <<statusFile, block, discoveries, told>>

\* Mutant: the status is rendered from the snapshot taken before the inventory.
WriteStatusEarly ==
    /\ discovery.at = "status"
    /\ statusFile = NoFile \/ discovery.force
    /\ statusFile' = StatusText(Snapshot(discovery.report, Cardinality(discovery.report.rules), TRUE))
    /\ Goto("session", discovery.written, TRUE)
    /\ UNCHANGED <<inventory, block, discoveries, warrant, told>>

WriteStatus ==
    /\ discovery.at = "status"
    /\ \/ /\ statusFile = NoFile \/ discovery.force
          /\ statusFile' = StatusText(FinalSnapshot)
          /\ Goto("session", discovery.written, TRUE)
       \/ /\ statusFile # NoFile /\ ~discovery.force
          /\ Goto("session", discovery.written, FALSE)
          /\ UNCHANGED statusFile
    /\ UNCHANGED <<inventory, block, discoveries, warrant, told>>

UpdateSession ==
    /\ discovery.at = "session"
    /\ block' = FinalSnapshot
    /\ told' = IF discovery.fresh THEN P54(FinalSnapshot) ELSE "stale"
    /\ discovery' = NoDiscovery
    /\ UNCHANGED <<inventory, statusFile, discoveries, warrant>>

\* The process ends between two steps, or runs without the session's update.
EndDiscovery ==
    /\ discovery # NoDiscovery
    /\ discovery' = NoDiscovery
    /\ UNCHANGED <<inventory, statusFile, block, discoveries, warrant, told>>

-----------------------------------------------------------------------------
(* What else reads or changes the block and the files.                        *)

\* _reset_for_new_work.
RulesNewWork ==
    /\ block' = Hydrated(Neutralized(block), statusFile, inventory)
    /\ UNCHANGED <<inventory, statusFile, discovery, discoveries, warrant, told>>

\* A launch writes a session without a block; its continuation normalises the
\* block of a session and neutralises it where no ticket is there yet.
RulesLaunch ==
    /\ block' \in {NoBlock, NormalBlock(block), Neutralized(NormalBlock(block))}
    /\ UNCHANGED <<inventory, statusFile, discovery, discoveries, warrant, told>>

RulesNext ==
    \/ Discover \/ WriteInventory \/ Compare \/ Sweep \/ WriteStatus \/ UpdateSession \/ EndDiscovery
    \/ RulesNewWork \/ RulesLaunch

RulesSpec == RulesInit /\ [][RulesNext]_rvars

-----------------------------------------------------------------------------
(* Properties.                                                               *)

\* The hints before one that have a marker.
EarlierMarked(hints, h) == {g \in hints : g.wellFormed /\ g.marked /\ g.rule.id < h.rule.id}

\* When an inventory is about to be written or confirmed, nothing in the
\* repository or among the hints speaks against it, told from these alone: no
\* line of a document that may not be a source, no line without a rule, enough of
\* the code's rules valid, no contradiction between the document and the code,
\* and each rule from one of them (validate_candidates, evaluate_code_extraction_
\* coverage, build_business_rules_state_snapshot).  The pass over hints forgets
\* invalid and contradicting rules of the pass before, hence the exception; and a
\* hint without a marker goes by if its rule was there before.
ViolationsDominate ==
    discovery.at \in {"inventory", "compare"} =>
        LET r        == discovery.input.repository
            hints    == discovery.input.hints
            code     == {l \in r.code : l.surface = "business" /\ l.anchor /\ l.meaning /\ l.context}
            sound    == {l \in code : KindOf[l.body] = "rule"}
            admitted == {d \in r.docs : code # {} => d.allowed /\ d.section}
            bodies   == {rule.body : rule \in discovery.report.rules}
            written  == (UNION {{rule.body : rule \in d.rules} : d \in admitted}) \cup {l.body : l \in sound}
        IN /\ bodies # {} /\ bodies \subseteq written \cup {h.rule.body : h \in hints}
           /\ \A body \in bodies : KindOf[body] \in {"rule", "technical"}
           /\ \A d \in admitted : d.allowed /\ d.section /\ d.rules # {}
           /\ r.files > 0 => code # {}
           /\ r.files >= 50 => 10 * HowMany(sound) >= HowMany(code)
           /\ \A h \in hints : h.wellFormed /\ ~h.marked =>
                h.rule.body \in written \cup {g.rule.body : g \in EarlierMarked(hints, h)}
           /\ hints = {} =>
                  /\ \A d \in admitted : \A rule \in d.rules : KindOf[rule.body] \in {"rule", "technical"}
                  /\ \A d \in admitted, l \in sound : \A rule \in d.rules : {rule.body, l.body} \notin Clashes

\* /new-work, which reads a status that may be older than the inventory, calls
\* rules compliant only when a discovery wrote or confirmed this very inventory
\* and none has removed it since (hydrate_business_rules_state_from_artifacts).
RefutedRulesStayOut ==
    [][RulesNewWork /\ P54(block') = "compliant" => inventory # NoFile /\ inventory = warrant]_rvars

\* After a discovery that wrote its status, /new-work comes to the gate's answer
\* the discovery left in the session: a rule set does not become compliant, or
\* stop to be, by way of the files.  Only a contradiction the pass over hints
\* forgot is in the status alone (build_business_rules_state_snapshot).
FilesSpeakForSession ==
    [][RulesNewWork /\ told # "stale" =>
           \/ P54(block') = "compliant" <=> told = "compliant"
           \/ told = "compliant" /\ "conflict" \in statusFile.reasons]_rvars
=============================================================================
