-------------------------- MODULE ConstraintEngine -------------------------
(***************************************************************************)
(* envsolve/constraints/engine.py: typed constraints, what admitting       *)
(* evidence, superseding and propagating do to the constraint store of the *)
(* state, as operators on the store.  A constraint is identified by what   *)
(* it says: a requirement on a subject is global, a fact may belong to the *)
(* candidate that was observed.  A subject stands for a (domain, subject,  *)
(* predicate) triple; a version specifier is the set of versions it admits *)
(* (without what PEP 440 adds for pre-releases and local versions), and    *)
(* several of them are seen to be empty only where the engine sees it.     *)
(***************************************************************************)
EXTENDS Naturals

CONSTANTS
  Subject,           \* what constraints are about
  VersionSubject,    \* the subjects whose predicate is a version
  OperationSubject,  \* the subjects of the operation domain
  Value,             \* versions, booleans, strings
  Candidate,         \* the scopes of facts
  Unscoped,          \* the scope of global constraints
  Source,            \* where evidence comes from
  Evident            \* the specifiers that the engine sees to be empty together

ASSUME EngineAssumption ==
  /\ VersionSubject \subseteq Subject /\ OperationSubject \subseteq Subject
  /\ Unscoped \notin Candidate
  /\ \A specifiers \in Evident : ~\E v \in Value : \A s \in specifiers : v \in s

Scope == Candidate \cup {Unscoped}

\* Requirements of other predicates name one value.
Requirement ==
  {c \in [role : {"requirement"}, subject : Subject, value : SUBSET Value, scope : {Unscoped}] :
     \E v \in c.value : c.subject \notin VersionSubject => c.value = {v}}

Fact == [role : {"fact"}, subject : Subject, value : {{v} : v \in Value}, scope : Scope]

Constraint == Requirement \cup Fact

Evidence == [round : Scope, source : Source]

\* hard: the confidence is at least hard_confidence.
Record ==
  [status : {"active", "satisfied", "violated", "superseded"},
   evidence : SUBSET Evidence, hard : BOOLEAN]

\* The constraints of a state: a store maps some constraints to records.
EmptyStore == [c \in {} |-> [status |-> "active", evidence |-> {}, hard |-> FALSE]]

\* typed_constraints: what the solver looks at.
Managed(store) == {c \in DOMAIN store : store[c].status # "superseded"}

\* fact_constraint_ids.
Facts(store) == {c \in Managed(store) : c.role = "fact"}

\* Mutant: only what no other source stands for.
FromSourceAlone(store, source) ==
  {c \in Managed(store) : \A e \in store[c].evidence : e.source = source}

\* constraint_ids_for_evidence_source.
FromSource(store, source) ==
  {c \in Managed(store) : \E e \in store[c].evidence : e.source = source}

-----------------------------------------------------------------------------
(* Admission                                                               *)

\* What the normalizer makes of one piece of evidence.
Item == [constraint : Constraint, hard : BOOLEAN, evidence : Evidence]

Targets(items) == {i.constraint : i \in items}

\* Mutant: with_evidence replaces the evidence of a known statement.
IngestLatest(store, items) ==
  [c \in DOMAIN store \cup Targets(items) |->
     LET mine == {i \in items : i.constraint = c}
     IN IF mine = {} THEN store[c]
        ELSE [status   |-> IF c \in DOMAIN store THEN store[c].status ELSE "active",
              evidence |-> {i.evidence : i \in mine},
              hard     |-> \E i \in mine : i.hard]]

\* ingest_evidence of a round's evidence: a known statement keeps its status,
\* merges the evidence and keeps the larger confidence.
Ingest(store, items) ==
  [c \in DOMAIN store \cup Targets(items) |->
     LET mine == {i \in items : i.constraint = c}
         known == c \in DOMAIN store
     IN [status   |-> IF known THEN store[c].status ELSE "active",
         evidence |-> {i.evidence : i \in mine} \cup (IF known THEN store[c].evidence ELSE {}),
         hard     |-> \/ \E i \in mine : i.hard
                      \/ known /\ store[c].hard]]

\* The identifiers ingest_evidence returns: what it added or changed.
Changed(store, items) ==
  {c \in Targets(items) : c \in DOMAIN store => Ingest(store, items)[c] # store[c]}

\* supersede_constraints, supersede_facts.
Supersede(store, constraints) ==
  [c \in DOMAIN store |->
     [store[c] EXCEPT !.status = IF c \in constraints THEN "superseded" ELSE @]]

\* Mutant: facts replace only facts of the same value.
ReplacedEqual(prior, replacements) ==
  {c \in prior \ replacements :
     /\ c.subject \notin OperationSubject
     /\ \E r \in replacements : r.subject = c.subject /\ r.value = c.value}

\* supersede_replaced_facts: the prior facts of a variable observed again.
Replaced(prior, replacements) ==
  {c \in prior \ replacements :
     /\ c.subject \notin OperationSubject
     /\ \E r \in replacements : r.subject = c.subject}

-----------------------------------------------------------------------------
(* Propagation                                                             *)

Hard(store, subject) == {c \in Managed(store) : c.subject = subject /\ store[c].hard}

OfRole(role, group) == {c \in group : c.role = role}

Several(group) == \E c, d \in group : c.value # d.value

Agree(group) == \E v \in Value : \A c \in group : v \in c.value

\* The bounds of the specifiers cross, or none admits an exact version that one
\* of them names: an empty combination need not show itself in this way.
ObviouslyEmpty(requirements) == {c.value : c \in requirements} \in Evident

\* _solve_versions: facts that differ are only blamed themselves; otherwise an
\* observed version outside of the combined specifier is a conflict, and, when
\* nothing is observed, a combined specifier that is obviously empty.
VersionConflict(group) ==
  LET facts == OfRole("fact", group)
  IN {c \in group :
        \/ c.role = "fact" /\ Several(facts)
        \/ facts # {} /\ ~Several(facts) /\ ~Agree(group)
        \/ facts = {} /\ ObviouslyEmpty(group)}

\* _solve_discrete.
DiscreteConflict(group) ==
  LET requirements == OfRole("requirement", group)
      facts == OfRole("fact", group)
  IN {c \in group :
        \/ c.role = "requirement" /\ Several(requirements)
        \/ c.role = "fact" /\ Several(facts)
        \/ /\ requirements # {} /\ facts # {}
           /\ ~Several(requirements) /\ ~Several(facts)
           /\ Several(group)}

Conflict(store, subject) ==
  IF subject \in VersionSubject THEN VersionConflict(Hard(store, subject))
                                ELSE DiscreteConflict(Hard(store, subject))

\* The requirements an observation supports.
Supported(store, subject) ==
  LET group == Hard(store, subject)
      requirements == OfRole("requirement", group)
      facts == OfRole("fact", group)
  IN IF subject \in VersionSubject
       THEN IF facts # {} /\ ~Several(facts) /\ Agree(group) THEN requirements ELSE {}
       ELSE IF {c.value : c \in requirements} = {c.value : c \in facts}
              THEN requirements ELSE {}

\* solve: the status of a managed constraint.
Solved(store, c) ==
  IF ~store[c].hard THEN "active"
  ELSE IF c \in Supported(store, c.subject) THEN "satisfied"
  ELSE IF c \in Conflict(store, c.subject) THEN "violated"
  ELSE IF c.role = "requirement" THEN "active" ELSE "satisfied"

\* propagate_constraints: persist the statuses.
Propagate(store) ==
  [c \in DOMAIN store |->
     [store[c] EXCEPT !.status = IF c \in Managed(store) THEN Solved(store, c) ELSE @]]

\* The report names a conflict.
Conflicting(store) == \E subject \in Subject : Conflict(store, subject) # {}

=============================================================================
