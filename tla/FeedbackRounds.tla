-------------------------- MODULE FeedbackRounds ---------------------------
(***************************************************************************)
(* What the deployment loop does with a verifier's evidence: the end of    *)
(* CounterexampleGuidedDeploymentLoop.run after a failed and after a       *)
(* passing verification, and the initial evidence EnvSolveRunner admits,   *)
(* on the constraint store of ConstraintEngine.                            *)
(***************************************************************************)
EXTENDS ConstraintEngine

CONSTANTS
  Finding,    \* what a verifier may report of a subject: see FindingType
  Unobserved, \* the finding observed no value
  Initial,    \* the findings initial evidence may consist of
  MaxRounds   \* bound on the candidates

Kind == {"initial", "action", "observation", "counterexample"}

\* What one piece or pair of evidence says: a requirement (unless allowed is
\* empty) and a fact (unless nothing was observed), with their confidence.
FindingType ==
  [subject : Subject, allowed : SUBSET Value, observed : Value \cup {Unobserved},
   hard : BOOLEAN, kind : Kind]

ASSUME RoundsAssumption ==
  /\ Unobserved \notin Value
  /\ Finding \cup Initial \subseteq FindingType
  /\ \A f \in Finding \cup Initial :
       f.subject \notin VersionSubject => \A v, w \in f.allowed : v = w
  /\ Source = {"initial", "action", "goal"}
  /\ MaxRounds \in Nat /\ Candidate = 1 .. MaxRounds

VARIABLES
  store,   \* the constraints in the state
  round,   \* candidates verified so far
  phase,   \* the loop asks for a candidate, or ended
  report   \* the findings of the last round that were ingested, and its scope

roundVars == <<store, round, phase, report>>

SourceOf(f) == IF f.kind \in {"initial", "action"} THEN f.kind ELSE "goal"

Required(f) ==
  {[role |-> "requirement", subject |-> f.subject, value |-> f.allowed, scope |-> Unscoped]}

Observed(f, scope) ==
  {[role |-> "fact", subject |-> f.subject, value |-> {f.observed}, scope |-> scope]}

\* The constraints a finding normalizes to; its facts belong to scope.
Statements(f, scope) ==
  (IF f.allowed = {} THEN {} ELSE Required(f))
    \cup (IF f.observed = Unobserved THEN {} ELSE Observed(f, scope))

Items(findings, scope) ==
  UNION {{[constraint |-> c, hard |-> f.hard,
           evidence |-> [round |-> scope, source |-> SourceOf(f)]] :
            c \in Statements(f, scope)} : f \in findings}

Said(findings, scope) == UNION {Statements(f, scope) : f \in findings}

Goal(findings) == {f \in findings : SourceOf(f) = "goal"}

\* counterexample_ids is not empty: a counterexample normalizes to a constraint.
Counterexamples(findings) ==
  {f \in findings : f.kind = "counterexample" /\ Statements(f, Unscoped) # {}}

Report(findings, complete) == [findings |-> findings, complete |-> complete]

\* EnvSolveRunner admits the initial evidence and propagates it.
RoundsInit ==
  \E findings \in SUBSET Initial :
    /\ store = Propagate(Ingest(EmptyStore, Items(findings, Unscoped)))
    /\ round = 0
    /\ phase = "asking"
    /\ report = Report({}, FALSE)

\* One finding of a kind per subject.
Reportable ==
  {findings \in SUBSET Finding :
     \A f, g \in findings : f.subject = g.subject /\ SourceOf(f) = SourceOf(g) => f = g}

\* Mutant: the statuses are persisted before prior constraints are retired.
AfterFailureEarly(findings, complete, candidate) ==
  LET items == Items(findings, candidate)
      ingested == Ingest(store, items)
      replacements == Changed(store, items) \cap Facts(ingested)
      retired == IF complete /\ Counterexamples(findings) # {}
                   THEN FromSource(store, "goal") \ Said(Goal(findings), candidate) ELSE {}
  IN Supersede(Propagate(ingested), Replaced(Facts(store), replacements) \cup retired)

\* The evidence of a failed round is ingested; prior facts of what was observed
\* again are retired, and, when a complete finding set has counterexamples, so
\* are the goal's constraints that are not in it; then the store is propagated.
AfterFailure(findings, complete, candidate) ==
  LET items == Items(findings, candidate)
      ingested == Ingest(store, items)
      replacements == Changed(store, items) \cap Facts(ingested)
      retired == IF complete /\ Counterexamples(findings) # {}
                   THEN FromSource(store, "goal") \ Said(Goal(findings), candidate) ELSE {}
  IN Propagate(Supersede(ingested, Replaced(Facts(store), replacements) \cup retired))

\* The candidate failed.  guessed: the verifier attached a hypothesis.
Fail ==
  /\ phase = "asking"
  /\ round < MaxRounds
  /\ round' = round + 1
  /\ \E findings \in Reportable, complete, guessed \in BOOLEAN :
       /\ report' = Report(findings, complete)
       /\ store' = AfterFailure(findings, complete, round + 1)
       /\ phase' = IF IF Counterexamples(findings) # {} THEN Conflicting(store') ELSE guessed
                     THEN "asking" ELSE "blocked"

\* The candidate passed: its observations replace every prior fact, and, when
\* they have a scope, the goal's prior constraints; the run ends.
Pass ==
  /\ phase = "asking"
  /\ round < MaxRounds
  /\ round' = round + 1
  /\ \E findings \in Reportable, scoped \in BOOLEAN :
       LET ingested == Ingest(store, Items(findings, round + 1))
           goals == IF scoped THEN FromSource(store, "goal") ELSE {}
       IN /\ \A f \in findings : f.kind = "observation"
          /\ store' = Propagate(Supersede(ingested, goals \cup Facts(store)))
          /\ report' = Report(findings, FALSE)
  /\ phase' = "satisfied"

RoundsNext == Fail \/ Pass

RoundsSpec == RoundsInit /\ [][RoundsNext]_roundVars

-----------------------------------------------------------------------------
\* The store is well formed: every constraint is one the engine can hold, and
\* carries evidence.
RoundsTypeOK ==
  /\ DOMAIN store \subseteq Constraint
  /\ \A c \in DOMAIN store : store[c] \in Record /\ store[c].evidence # {}
  /\ round \in 0 .. MaxRounds
  /\ phase \in {"asking", "blocked", "satisfied"}
  /\ report.findings \subseteq FindingType /\ report.complete \in BOOLEAN

\* The statuses in the state are those the solver gives: propagating again
\* changes nothing, whatever was superseded or observed again in between.
PropagationConverged == store = Propagate(store)

\* A requirement counts as satisfied only by an observation that is still
\* current, and nothing uncertain is ever violated.
StatusIsGrounded ==
  \A c \in DOMAIN store :
    /\ store[c].status = "satisfied" /\ c.role = "requirement" =>
         \E f \in Facts(store) : f.subject = c.subject /\ f.value \subseteq c.value
    /\ store[c].status = "violated" => store[c].hard

\* Two candidates are never observed at once: what the last candidate says of
\* a subject has replaced what earlier ones, or the initial evidence, said.
ObservationsAreCurrent ==
  \A c, d \in Facts(store) :
    c.subject = d.subject /\ c.subject \notin OperationSubject /\ c.scope = round
      => d.scope = c.scope

\* After a complete failing report the goal's constraints are those it names.
CompleteReportIsExhaustive ==
  report.complete /\ Counterexamples(report.findings) # {} =>
    \A c \in Managed(store) :
      (\E e \in store[c].evidence : e.source = "goal") => c \in Said(Goal(report.findings), round)

\* No constraint is forgotten, evidence is merged and confidence kept, through
\* superseding and propagation.
EvidenceAccumulates ==
  [][\A c \in DOMAIN store :
       /\ c \in DOMAIN store'
       /\ store[c].evidence \subseteq store'[c].evidence
       /\ store[c].hard => store'[c].hard]_roundVars

\* research/P3_CONSTRAINT_PROTOCOL.md: the fragment detects "a required
\* boolean/string value contradicted by an observed value".  A certain finding
\* of the last report that names a value and observes another is a conflict.
ContradictionsDetected ==
  \A f \in Counterexamples(report.findings) :
    f.hard /\ f.allowed # {} /\ f.observed \notin f.allowed \cup {Unobserved} =>
      \A c \in Required(f) : store[c].status = "violated"

=============================================================================
