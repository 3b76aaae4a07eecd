--------------------------- MODULE FeedbackProofs --------------------------
(***************************************************************************)
(* Proofs about the constraint store: propagation is idempotent, so every  *)
(* round leaves the statuses the solver gives; no round forgets a          *)
(* constraint, its evidence or its confidence; conflicts and violated      *)
(* statuses are contradictions; what a round observes again is current     *)
(* afterwards; and a complete report retires what it omits.                *)
(***************************************************************************)
EXTENDS FeedbackRounds, TLAPS

\* A store is a function to records of the fields the engine reads.
IsStore(s) == s = [c \in DOMAIN s |-> [status |-> s[c].status, evidence |-> s[c].evidence,
                                       hard |-> s[c].hard]]

LEMMA PropagateShape ==
  ASSUME NEW s, IsStore(s)
  PROVE  /\ DOMAIN Propagate(s) = DOMAIN s
         /\ IsStore(Propagate(s))
         /\ \A c \in DOMAIN s :
              /\ Propagate(s)[c].evidence = s[c].evidence
              /\ Propagate(s)[c].hard = s[c].hard
              /\ Propagate(s)[c].status =
                   IF c \in Managed(s) THEN Solved(s, c) ELSE s[c].status
  BY DEF IsStore, Propagate

\* propagate_constraints neither retires a constraint nor brings one back.
LEMMA PropagateManages ==
  ASSUME NEW s, IsStore(s)
  PROVE  Managed(Propagate(s)) = Managed(s)
<1>1. \A c \in DOMAIN s : Solved(s, c) # "superseded"
  BY DEF Solved
<1>2. \A c \in DOMAIN s : c \in Managed(s) <=> s[c].status # "superseded"
  BY DEF Managed
<1>3. \A c \in DOMAIN s : Propagate(s)[c].status # "superseded" <=> c \in Managed(s)
  BY <1>1, <1>2, PropagateShape
<1> QED
  BY <1>3, <1>2, PropagateShape DEF Managed

\* What the solver reads of a store: what is managed and what is hard.
LEMMA SolverReads ==
  ASSUME NEW s, IsStore(s)
  PROVE  \A c \in Managed(s) : Solved(Propagate(s), c) = Solved(s, c)
<1>1. Managed(s) \subseteq DOMAIN s
  BY DEF Managed
<1>2. \A x : Hard(Propagate(s), x) = Hard(s, x)
  BY <1>1, PropagateManages, PropagateShape DEF Hard
<1>3. \A x : Conflict(Propagate(s), x) = Conflict(s, x)
  BY <1>2 DEF Conflict
<1>4. ASSUME NEW x
      PROVE  Supported(Propagate(s), x) = Supported(s, x)
  <2>1. Hard(Propagate(s), x) = Hard(s, x)
    BY <1>2
  <2> QED
    BY <2>1, Zenon DEF Supported
<1> QED
  BY <1>1, <1>3, <1>4, PropagateShape DEF Solved

\* Propagating a propagated store changes nothing.
THEOREM PropagateIdempotent ==
  ASSUME NEW s, IsStore(s)
  PROVE  Propagate(Propagate(s)) = Propagate(s)
<1> DEFINE p == Propagate(s)
<1>1. IsStore(p) /\ DOMAIN p = DOMAIN s /\ Managed(p) = Managed(s)
  BY PropagateShape, PropagateManages
<1>2. ASSUME NEW c \in DOMAIN p
      PROVE  (IF c \in Managed(p) THEN Solved(p, c) ELSE p[c].status) = p[c].status
  BY <1>1, <1>2, PropagateShape, SolverReads
<1>3. \A c \in DOMAIN p : [p[c] EXCEPT !.status = IF c \in Managed(p) THEN Solved(p, c) ELSE @] = p[c]
  BY <1>1, <1>2 DEF IsStore
<1>4. Propagate(p) = [c \in DOMAIN p |-> p[c]]
  BY <1>3 DEF Propagate
<1> QED
  BY <1>1, <1>4 DEF IsStore

-----------------------------------------------------------------------------
\* Admission and retirement keep stores stores, and keep what they hold.
LEMMA IngestKeeps ==
  ASSUME NEW s, IsStore(s), NEW items
  PROVE  /\ IsStore(Ingest(s, items))
         /\ DOMAIN s \subseteq DOMAIN Ingest(s, items)
         /\ \A c \in DOMAIN s :
              /\ s[c].evidence \subseteq Ingest(s, items)[c].evidence
              /\ s[c].hard => Ingest(s, items)[c].hard
  BY DEF IsStore, Ingest

LEMMA SupersedeKeeps ==
  ASSUME NEW s, IsStore(s), NEW constraints
  PROVE  /\ IsStore(Supersede(s, constraints))
         /\ DOMAIN Supersede(s, constraints) = DOMAIN s
         /\ \A c \in DOMAIN s :
              /\ Supersede(s, constraints)[c].evidence = s[c].evidence
              /\ Supersede(s, constraints)[c].hard = s[c].hard
  BY DEF IsStore, Supersede

\* Every round admits, retires and propagates, whatever it admits and retires.
LEMMA RoundShape ==
  ASSUME RoundsNext
  PROVE  \E items, retired : store' = Propagate(Supersede(Ingest(store, items), retired))
<1>1. CASE Fail
  BY <1>1 DEF Fail, AfterFailure
<1>2. CASE Pass
  BY <1>2 DEF Pass
<1> QED
  BY <1>1, <1>2 DEF RoundsNext

\* What a round may do to a store.
Keeps(s, t) ==
  \A c \in DOMAIN s :
    /\ c \in DOMAIN t
    /\ s[c].evidence \subseteq t[c].evidence
    /\ s[c].hard => t[c].hard

StoreInv == IsStore(store) /\ PropagationConverged

LEMMA StoreInvInit == RoundsInit => StoreInv
<1> SUFFICES ASSUME RoundsInit PROVE StoreInv
  OBVIOUS
<1>1. PICK items : store = Propagate(Ingest(EmptyStore, items))
  BY DEF RoundsInit
<1>2. IsStore(EmptyStore)
  BY DEF IsStore, EmptyStore
<1>3. IsStore(Ingest(EmptyStore, items))
  BY <1>2, IngestKeeps
<1> QED
  BY <1>1, <1>3, PropagateShape, PropagateIdempotent DEF StoreInv, PropagationConverged

LEMMA StoreInvStep ==
  ASSUME StoreInv, RoundsNext
  PROVE  StoreInv' /\ Keeps(store, store')
<1>1. PICK items, retired : store' = Propagate(Supersede(Ingest(store, items), retired))
  BY RoundShape
<1> DEFINE a == Ingest(store, items)
           b == Supersede(a, retired)
<1>2. IsStore(store) /\ IsStore(a) /\ IsStore(b)
  BY IngestKeeps, SupersedeKeeps DEF StoreInv
<1>3. StoreInv'
  <2>1. IsStore(Propagate(b)) /\ Propagate(Propagate(b)) = Propagate(b)
    BY <1>2, PropagateShape, PropagateIdempotent
  <2>2. store' = Propagate(b)
    BY <1>1
  <2>3. IsStore(store') /\ store' = Propagate(store')
    BY <2>1, <2>2
  <2> HIDE DEF a, b
  <2> QED
    BY <2>3 DEF StoreInv, PropagationConverged
<1>4. Keeps(store, store')
  <2>1. \A c \in DOMAIN store :
          /\ c \in DOMAIN a
          /\ store[c].evidence \subseteq a[c].evidence
          /\ store[c].hard => a[c].hard
    BY <1>2, IngestKeeps
  <2>2. \A c \in DOMAIN a :
          c \in DOMAIN b /\ b[c].evidence = a[c].evidence /\ b[c].hard = a[c].hard
    BY <1>2, SupersedeKeeps
  <2>3. \A c \in DOMAIN b :
          c \in DOMAIN store' /\ store'[c].evidence = b[c].evidence /\ store'[c].hard = b[c].hard
    BY <1>1, <1>2, PropagateShape
  <2> QED
    BY <2>1, <2>2, <2>3 DEF Keeps
<1> QED
  BY <1>3, <1>4

LEMMA StoreInvAlways == RoundsSpec => []StoreInv
<1>1. StoreInv /\ [RoundsNext]_roundVars => StoreInv'
  <2>1. ASSUME StoreInv, UNCHANGED roundVars PROVE StoreInv'
    BY <2>1 DEF roundVars, StoreInv, PropagationConverged
  <2> QED
    BY <2>1, StoreInvStep
<1> QED
  BY <1>1, StoreInvInit, PTL DEF RoundsSpec

\* The persisted statuses are always those the solver gives: the last call of
\* every round is propagate_constraints, and a second call would change nothing.
THEOREM Converged == RoundsSpec => []PropagationConverged
<1>1. StoreInv => PropagationConverged
  BY DEF StoreInv
<1> QED
  BY <1>1, StoreInvAlways, PTL

\* ingest_evidence merges: no round loses a constraint, evidence or confidence.
THEOREM Accumulates == RoundsSpec => EvidenceAccumulates
<1> DEFINE Kept == \A c \in DOMAIN store :
                     /\ c \in DOMAIN store'
                     /\ store[c].evidence \subseteq store'[c].evidence
                     /\ store[c].hard => store'[c].hard
<1>1. StoreInv /\ [RoundsNext]_roundVars => [Kept]_roundVars
  BY StoreInvStep DEF Keeps
<1> QED
  BY <1>1, StoreInvAlways, PTL DEF RoundsSpec, EvidenceAccumulates

-----------------------------------------------------------------------------
(* What the store may hold                                                 *)

\* Every scope a fact has belongs to a candidate verified so far.
ScopesSeen ==
  \A c \in DOMAIN store : c.role = "fact" => c.scope = Unscoped \/ c.scope <= round

LEMMA StatementType ==
  ASSUME NEW f \in Finding \cup Initial, NEW scope \in Scope, NEW c \in Statements(f, scope)
  PROVE  /\ c \in Constraint
         /\ c.role = "fact" => c.scope = scope
<1>1. f \in FindingType
  BY RoundsAssumption
<1>2. CASE c \in Observed(f, scope) /\ f.observed # Unobserved
  BY <1>1, <1>2 DEF Observed, Constraint, Fact, FindingType
<1>3. CASE c \in Required(f) /\ f.allowed # {}
  <2>1. c = [role |-> "requirement", subject |-> f.subject, value |-> f.allowed,
             scope |-> Unscoped]
    BY <1>3 DEF Required
  <2>2. PICK v \in f.allowed : TRUE
    BY <1>3
  <2>3. f.subject \notin VersionSubject => f.allowed = {v}
    BY <2>2, RoundsAssumption
  <2>4. c \in Requirement
    BY <1>1, <2>1, <2>2, <2>3 DEF Requirement, FindingType
  <2> QED BY <2>1, <2>4 DEF Constraint
<1> QED BY <1>2, <1>3 DEF Statements

\* What a finding gives the engine.
LEMMA ItemType ==
  ASSUME NEW findings \in SUBSET (Finding \cup Initial), NEW scope \in Scope,
         NEW i \in Items(findings, scope)
  PROVE  /\ i.constraint \in Constraint
         /\ i.constraint.role = "fact" => i.constraint.scope = scope
         /\ i.evidence \in Evidence
         /\ i.hard \in BOOLEAN
         /\ \E f \in findings : i.constraint \in Statements(f, scope)
                                /\ i.evidence.source = SourceOf(f)
<1>1. PICK f \in findings : \E c \in Statements(f, scope) :
        i = [constraint |-> c, hard |-> f.hard,
             evidence |-> [round |-> scope, source |-> SourceOf(f)]]
  BY DEF Items
<1>0. PICK c \in Statements(f, scope) :
        i = [constraint |-> c, hard |-> f.hard,
             evidence |-> [round |-> scope, source |-> SourceOf(f)]]
  BY <1>1
<1>2. f \in FindingType
  BY RoundsAssumption
<1>3. SourceOf(f) \in Source /\ f.hard \in BOOLEAN
  BY <1>2, RoundsAssumption DEF SourceOf, FindingType
<1>4. c \in Constraint /\ (c.role = "fact" => c.scope = scope)
  BY StatementType
<1> QED BY <1>0, <1>3, <1>4 DEF Evidence

TypedStore(s) == DOMAIN s \subseteq Constraint /\ \A c \in DOMAIN s : s[c] \in Record /\ s[c].evidence # {}

LEMMA IngestType ==
  ASSUME NEW s, TypedStore(s), NEW findings \in SUBSET (Finding \cup Initial), NEW scope \in Scope
  PROVE  TypedStore(Ingest(s, Items(findings, scope)))
<1> DEFINE items == Items(findings, scope)
           t == Ingest(s, items)
<1>1. DOMAIN t = DOMAIN s \cup Targets(items)
  BY DEF Ingest
<1>2. Targets(items) \subseteq Constraint
  BY ItemType DEF Targets
<1>3. ASSUME NEW c \in DOMAIN t
      PROVE  t[c] \in Record /\ t[c].evidence # {}
  <2> DEFINE mine == {i \in items : i.constraint = c}
  <2>1. t[c] = [status   |-> IF c \in DOMAIN s THEN s[c].status ELSE "active",
                evidence |-> {i.evidence : i \in mine}
                               \cup (IF c \in DOMAIN s THEN s[c].evidence ELSE {}),
                hard     |-> \/ \E i \in mine : i.hard
                             \/ c \in DOMAIN s /\ s[c].hard]
    BY <1>1, <1>3 DEF Ingest
  <2>2. {i.evidence : i \in mine} \subseteq Evidence
    BY ItemType
  <2>3. c \in DOMAIN s => s[c] \in Record /\ s[c].evidence # {}
    BY DEF TypedStore
  <2>4. c \notin DOMAIN s => mine # {}
    BY <1>1, <1>3 DEF Targets
  <2> HIDE DEF mine, t, items
  <2>5. t[c].status \in {"active", "satisfied", "violated", "superseded"}
    BY <2>1, <2>3 DEF Record
  <2>6. t[c].evidence \subseteq Evidence /\ t[c].evidence # {}
    BY <2>1, <2>2, <2>3, <2>4 DEF Record
  <2>7. t[c].hard \in BOOLEAN
    BY <2>1
  <2> QED BY <2>1, <2>5, <2>6, <2>7 DEF Record
<1> QED BY <1>1, <1>2, <1>3 DEF TypedStore

LEMMA SupersedeType ==
  ASSUME NEW s, TypedStore(s), NEW constraints
  PROVE  TypedStore(Supersede(s, constraints))
BY DEF TypedStore, Supersede, Record

LEMMA PropagateType ==
  ASSUME NEW s, TypedStore(s)
  PROVE  TypedStore(Propagate(s))
<1>1. \A c \in DOMAIN s : Solved(s, c) \in {"active", "satisfied", "violated", "superseded"}
  BY DEF Solved
<1> QED BY <1>1 DEF TypedStore, Propagate, Record

\* What a round does to the store, with what it admitted and retired.
After(findings, retired) ==
  Propagate(Supersede(Ingest(store, Items(findings, round + 1)), retired))

RoundFacts(findings) ==
  Changed(store, Items(findings, round + 1))
    \cap Facts(Ingest(store, Items(findings, round + 1)))

\* What Fail retires.
Dropped(findings, complete) ==
  Replaced(Facts(store), RoundFacts(findings))
    \cup (IF complete /\ Counterexamples(findings) # {}
            THEN FromSource(store, "goal") \ Said(Goal(findings), round + 1) ELSE {})

LEMMA FailShape ==
  ASSUME Fail
  PROVE  /\ round < MaxRounds /\ round' = round + 1
         /\ phase' \in {"asking", "blocked"}
         /\ \E findings \in SUBSET Finding, complete \in BOOLEAN :
              /\ report' = Report(findings, complete)
              /\ store' = After(findings, Dropped(findings, complete))
<1>1. PICK findings \in Reportable, complete \in BOOLEAN :
        /\ report' = Report(findings, complete)
        /\ store' = AfterFailure(findings, complete, round + 1)
  BY DEF Fail
<1>2. AfterFailure(findings, complete, round + 1) = After(findings, Dropped(findings, complete))
  BY DEF AfterFailure, After, Dropped, RoundFacts
<1>3. findings \in SUBSET Finding
  BY DEF Reportable
<1>4. round < MaxRounds /\ round' = round + 1 /\ phase' \in {"asking", "blocked"}
  BY DEF Fail
<1> QED BY <1>1, <1>2, <1>3, <1>4

LEMMA PassShape ==
  ASSUME Pass
  PROVE  /\ round < MaxRounds /\ round' = round + 1
         /\ phase' = "satisfied"
         /\ \E findings \in SUBSET Finding : \E retired :
              /\ Facts(store) \subseteq retired
              /\ report' = Report(findings, FALSE)
              /\ store' = After(findings, retired)
<1>1. PICK findings \in Reportable, scoped \in BOOLEAN :
        LET goals == IF scoped THEN FromSource(store, "goal") ELSE {}
        IN /\ store' = After(findings, goals \cup Facts(store))
           /\ report' = Report(findings, FALSE)
  BY DEF Pass, After
<1>2. findings \in SUBSET Finding
  BY DEF Reportable
<1> QED BY <1>1, <1>2 DEF Pass

LEMMA ScopeFacts ==
  ASSUME RoundsTypeOK, round < MaxRounds
  PROVE  round \in Nat /\ round + 1 \in Scope /\ round + 1 # Unscoped /\ round + 1 \in 0 .. MaxRounds
BY RoundsAssumption, EngineAssumption DEF RoundsTypeOK, Scope

\* A round keeps the store typed.
LEMMA AfterType ==
  ASSUME RoundsTypeOK, round < MaxRounds, NEW findings \in SUBSET Finding, NEW retired
  PROVE  TypedStore(After(findings, retired))
<1>1. TypedStore(store) /\ round + 1 \in Scope
  BY ScopeFacts DEF TypedStore, RoundsTypeOK
<1>2. findings \in SUBSET (Finding \cup Initial)
  OBVIOUS
<1>3. TypedStore(Ingest(store, Items(findings, round + 1)))
  BY <1>1, <1>2, IngestType
<1> QED BY <1>3, SupersedeType, PropagateType DEF After

LEMMA RoundsTypeInit == RoundsInit => RoundsTypeOK
<1> SUFFICES ASSUME RoundsInit PROVE RoundsTypeOK
  OBVIOUS
<1>1. PICK findings \in SUBSET Initial :
        store = Propagate(Ingest(EmptyStore, Items(findings, Unscoped)))
  BY DEF RoundsInit
<1>2. TypedStore(EmptyStore)
  BY DEF TypedStore, EmptyStore
<1>3. Unscoped \in Scope /\ findings \in SUBSET (Finding \cup Initial)
  BY DEF Scope
<1>4. TypedStore(Ingest(EmptyStore, Items(findings, Unscoped)))
  BY <1>2, <1>3, IngestType
<1>5. TypedStore(store)
  BY <1>1, <1>4, PropagateType
<1> QED BY <1>5, RoundsAssumption DEF RoundsInit, RoundsTypeOK, TypedStore, Report

LEMMA RoundsTypeStep ==
  ASSUME RoundsTypeOK, RoundsNext
  PROVE  RoundsTypeOK'
<1>1. round < MaxRounds /\ round' = round + 1 /\ phase' \in {"asking", "blocked", "satisfied"}
  BY FailShape, PassShape DEF RoundsNext
<1>2. \E findings \in SUBSET Finding, complete \in BOOLEAN : \E retired :
        report' = Report(findings, complete) /\ store' = After(findings, retired)
  BY FailShape, PassShape DEF RoundsNext
<1>3. TypedStore(store')
  BY <1>1, <1>2, AfterType
<1>4. report'.findings \subseteq FindingType /\ report'.complete \in BOOLEAN
  BY <1>2, RoundsAssumption DEF Report
<1> QED BY <1>1, <1>3, <1>4, ScopeFacts DEF RoundsTypeOK, TypedStore

\* The store is well formed in every state: what a round admits, retires and
\* propagates are constraints the engine can hold, each with its evidence.
THEOREM RoundsTypeCorrect == RoundsSpec => []RoundsTypeOK
<1>1. RoundsTypeOK /\ [RoundsNext]_roundVars => RoundsTypeOK'
  <2>1. ASSUME RoundsTypeOK, UNCHANGED roundVars PROVE RoundsTypeOK'
    BY <2>1 DEF roundVars, RoundsTypeOK
  <2> QED BY <2>1, RoundsTypeStep
<1> QED BY <1>1, RoundsTypeInit, PTL DEF RoundsSpec

-----------------------------------------------------------------------------
(* What a satisfied or violated status says                                *)

\* A requirement the solver supports is met by a fact.
LEMMA SupportGrounded ==
  ASSUME TypedStore(store), NEW c \in DOMAIN store, c.role = "requirement",
         c \in Supported(store, c.subject)
  PROVE  \E f \in Facts(store) : f.subject = c.subject /\ f.value \subseteq c.value
<1> DEFINE group == Hard(store, c.subject)
<1>0. \A f \in OfRole("fact", group) :
        f \in Facts(store) /\ f.subject = c.subject /\ f \in Fact
  BY DEF OfRole, Hard, Facts, Managed, TypedStore, Constraint, Requirement, Fact
<1>1. CASE c.subject \in VersionSubject
  <2>1. OfRole("fact", group) # {} /\ Agree(group) /\ c \in OfRole("requirement", group)
    BY <1>1 DEF Supported
  <2>2. PICK f \in OfRole("fact", group) : TRUE
    BY <2>1
  <2>3. PICK v \in Value : \A d \in group : v \in d.value
    BY <2>1 DEF Agree
  <2>4. f \in group /\ c \in group
    BY <2>1, <2>2 DEF OfRole
  <2>5. f.value = {v}
    BY <2>3, <2>4, <1>0, <2>2 DEF Fact
  <2> QED BY <2>3, <2>4, <2>5, <1>0, <2>2
<1>2. CASE c.subject \notin VersionSubject
  <2>1. /\ {d.value : d \in OfRole("requirement", group)} = {d.value : d \in OfRole("fact", group)}
        /\ c \in OfRole("requirement", group)
    BY <1>2 DEF Supported
  <2>2. PICK f \in OfRole("fact", group) : f.value = c.value
    BY <2>1
  <2> QED BY <2>2, <1>0
<1> QED BY <1>1, <1>2

\* After a propagation the status of what is managed is the solver's.
LEMMA ManagedSolved ==
  ASSUME StoreInv
  PROVE  \A c \in Managed(store) : store[c].status = Solved(store, c)
<1> SUFFICES ASSUME NEW c \in Managed(store) PROVE store[c].status = Solved(store, c)
  OBVIOUS
<1>1. c \in DOMAIN store
  BY DEF Managed
<1>2. Propagate(store)[c].status = IF c \in Managed(store) THEN Solved(store, c) ELSE store[c].status
  BY <1>1, PropagateShape DEF StoreInv
<1>3. store = Propagate(store)
  BY DEF StoreInv, PropagationConverged
<1>4. store[c].status = Propagate(store)[c].status
  BY <1>3
<1> QED BY <1>2, <1>4

\* A requirement is satisfied only by a fact that is current; only what is
\* certain is violated: the solver never says more of an observation.
THEOREM Grounded == RoundsSpec => []StatusIsGrounded
<1>1. StoreInv /\ RoundsTypeOK => StatusIsGrounded
  <2> SUFFICES ASSUME StoreInv, RoundsTypeOK, NEW c \in DOMAIN store
               PROVE  /\ store[c].status = "satisfied" /\ c.role = "requirement" =>
                           \E f \in Facts(store) : f.subject = c.subject /\ f.value \subseteq c.value
                      /\ store[c].status = "violated" => store[c].hard
    BY DEF StatusIsGrounded
  <2>1. TypedStore(store)
    BY DEF TypedStore, RoundsTypeOK
  <2>2. store[c].status # "superseded" => store[c].status = Solved(store, c)
    BY ManagedSolved DEF Managed
  <2>3. store[c].status = "violated" => store[c].hard
    BY <2>2 DEF Solved
  <2>4. ASSUME store[c].status = "satisfied", c.role = "requirement"
        PROVE  c \in Supported(store, c.subject)
    BY <2>2, <2>4 DEF Solved
  <2> QED BY <2>1, <2>3, <2>4, SupportGrounded
<1> QED BY <1>1, StoreInvAlways, RoundsTypeCorrect, PTL

-----------------------------------------------------------------------------
(* What a conflict says                                                    *)

\* No value is admitted by all that is certain of the subject.
Contradicted(s) == Hard(store, s) # {} /\ ~Agree(Hard(store, s))

\* A discrete contradiction always shows, and one with an observed version; among
\* requirements of a version alone, one that the engine sees without solving.
Shown(s) ==
  s \in VersionSubject =>
    OfRole("fact", Hard(store, s)) # {} \/ ObviouslyEmpty(Hard(store, s))

Violated(s) == {c \in Managed(store) : c.subject = s /\ store[c].status = "violated"}

\* The report names a conflict exactly for the subjects whose contradiction shows,
\* those are the ones with a violated constraint, and what is violated is a
\* contradiction without anything else.
ViolationsAreContradictions ==
  \A s \in Subject :
    /\ Conflict(store, s) # {} <=> Contradicted(s) /\ Shown(s)
    /\ Violated(s) # {} <=> Contradicted(s) /\ Shown(s)
    /\ Violated(s) # {} => ~Agree(Violated(s))

Single(group) == \A c \in group : \E v \in Value : c.value = {v}

LEMMA DisagreeMore ==
  ASSUME NEW more, NEW group \in SUBSET more, ~Agree(group)
  PROVE  ~Agree(more)
BY DEF Agree

\* Constraints that name one value each agree when they name the same.
LEMMA SinglesAgree ==
  ASSUME NEW group, Single(group), group # {}
  PROVE  Agree(group) <=> ~Several(group)
<1>1. ASSUME Agree(group), NEW c \in group, NEW d \in group
      PROVE  c.value = d.value
  <2>1. PICK v \in Value : v \in c.value /\ v \in d.value
    BY <1>1 DEF Agree
  <2>2. PICK w \in Value, x \in Value : c.value = {w} /\ d.value = {x}
    BY DEF Single
  <2> QED BY <2>1, <2>2
<1>2. ASSUME ~Several(group)
      PROVE  Agree(group)
  <2>1. PICK c \in group : TRUE
    OBVIOUS
  <2>2. PICK v \in Value : c.value = {v}
    BY DEF Single
  <2>3. \A d \in group : v \in d.value
    BY <1>2, <2>2 DEF Several
  <2> QED BY <2>3 DEF Agree
<1> QED BY <1>1, <1>2 DEF Several

\* _solve_versions reports only contradictions, each of which is one without
\* the rest; it finds those with an observed version and those it sees.
LEMMA VersionsDecided ==
  ASSUME NEW group \in SUBSET Constraint
  PROVE  LET facts == OfRole("fact", group)
         IN /\ VersionConflict(group) \subseteq group
            /\ VersionConflict(group) # {} <=>
                 /\ group # {} /\ ~Agree(group)
                 /\ facts # {} \/ ObviouslyEmpty(group)
            /\ VersionConflict(group) # {} => ~Agree(VersionConflict(group))
            /\ VersionConflict(group) # {} =>
                 facts = {} \/ Several(facts) \/ ~Agree(group)
<1> DEFINE facts == OfRole("fact", group)
<1>1. facts \subseteq group /\ Single(facts) /\ VersionConflict(group) \subseteq group
  BY DEF OfRole, Single, Constraint, Requirement, Fact, VersionConflict
<1>2. CASE Several(facts)
  <2>1. facts # {} /\ VersionConflict(group) = facts
    BY <1>2 DEF Several, VersionConflict, OfRole
  <2>2. ~Agree(facts)
    BY <1>1, <1>2, <2>1, SinglesAgree
  <2> QED BY <1>1, <1>2, <2>1, <2>2, DisagreeMore
<1>3. CASE ~Several(facts) /\ facts # {}
  <2>1. VersionConflict(group) = IF Agree(group) THEN {} ELSE group
    BY <1>3 DEF VersionConflict
  <2>2. group # {}
    BY <1>1, <1>3
  <2> QED BY <1>1, <1>3, <2>1, <2>2
<1>4. CASE facts = {}
  <2>1. VersionConflict(group) = IF ObviouslyEmpty(group) THEN group ELSE {}
    <3>1. ~Several(facts)
      BY <1>4 DEF Several
    <3> QED BY <1>4, <3>1 DEF VersionConflict
  <2>2. ObviouslyEmpty(group) => ~Agree(group)
    <3>1. ASSUME ObviouslyEmpty(group), Agree(group) PROVE FALSE
      <4>1. PICK v \in Value : \A c \in group : v \in c.value
        BY <3>1 DEF Agree
      <4>2. \A specifier \in {c.value : c \in group} : v \in specifier
        BY <4>1
      <4> QED BY <3>1, <4>2, EngineAssumption DEF ObviouslyEmpty
    <3> QED BY <3>1
  <2> QED BY <1>1, <1>4, <2>1, <2>2
<1> QED BY <1>2, <1>3, <1>4

\* So does _solve_discrete; and where the requirements and the facts name the
\* same values, the facts alone contradict each other.
LEMMA DiscretesDecided ==
  ASSUME NEW group \in SUBSET Constraint, Single(group)
  PROVE  LET requirements == OfRole("requirement", group)
             facts == OfRole("fact", group)
         IN /\ DiscreteConflict(group) \subseteq group
            /\ DiscreteConflict(group) # {} <=> group # {} /\ ~Agree(group)
            /\ DiscreteConflict(group) # {} => ~Agree(DiscreteConflict(group))
            /\ DiscreteConflict(group) # {}
                 /\ {c.value : c \in requirements} = {c.value : c \in facts} =>
                 ~Agree(facts) /\ facts \subseteq DiscreteConflict(group)
<1> DEFINE requirements == OfRole("requirement", group)
           facts == OfRole("fact", group)
           blamed == DiscreteConflict(group)
<1>1. /\ requirements \subseteq group /\ facts \subseteq group /\ blamed \subseteq group
      /\ \A c \in group : c \in requirements \/ c \in facts
      /\ \A c \in requirements : c.role = "requirement"
      /\ \A c \in facts : c.role = "fact"
  BY DEF OfRole, DiscreteConflict, Constraint, Requirement, Fact
<1>2. \A part \in SUBSET group : Single(part)
  BY DEF Single
<1>3. ASSUME NEW part \in SUBSET group, Several(part)
      PROVE  part # {} /\ ~Agree(part)
  BY <1>2, <1>3, SinglesAgree DEF Several
<1>4. /\ Several(requirements) => requirements \subseteq blamed
      /\ Several(facts) => facts \subseteq blamed
      /\ requirements # {} /\ facts # {} /\ ~Several(requirements) /\ ~Several(facts)
           /\ Several(group) => group \subseteq blamed
  BY <1>1 DEF DiscreteConflict
<1>5. Several(group) => Several(requirements) \/ Several(facts) \/ (requirements # {} /\ facts # {})
  BY <1>1 DEF Several
<1>6. blamed # {} => Several(group)
  BY <1>1 DEF DiscreteConflict, Several
<1>7. Several(group) => Several(blamed)
  <2>1. \A part, more : part \subseteq more /\ Several(part) => Several(more)
    BY DEF Several
  <2> QED BY <1>4, <1>5, <2>1
<1>8. blamed # {} <=> group # {} /\ ~Agree(group)
  <2>1. Several(group) <=> group # {} /\ ~Agree(group)
    BY <1>3, SinglesAgree DEF Several
  <2>2. Several(blamed) => blamed # {}
    BY DEF Several
  <2> QED BY <1>6, <1>7, <2>1, <2>2
<1>9. blamed # {} => ~Agree(blamed)
  BY <1>1, <1>3, <1>6, <1>7
<1>10. ASSUME blamed # {}, {c.value : c \in requirements} = {c.value : c \in facts}
       PROVE  ~Agree(facts) /\ facts \subseteq blamed
  <2>1. PICK c \in group, d \in group : c.value # d.value
    BY <1>6, <1>10 DEF Several
  <2>2. \A e \in group : \E f \in facts : f.value = e.value
    <3>1. \A e \in requirements : e.value \in {f.value : f \in facts}
      BY <1>10
    <3> QED BY <1>1, <3>1
  <2>3. Several(facts)
    BY <2>1, <2>2 DEF Several
  <2> QED BY <1>1, <1>3, <1>4, <2>3
<1> QED BY <1>1, <1>8, <1>9, <1>10

\* ConstraintEngine.solve, and the statuses propagate_constraints leaves: where
\* the engine reports a conflict no value is admitted by everything it is certain
\* of, and the violated constraints of a subject say why, also after observations
\* were replaced and reports retired what they do not name; and it misses none,
\* but for versions that are required and not observed, where it reports those
\* that show in the bounds or in an exact version (Evident).  It does not say that
\* everything in a conflict is violated: two discrete requirements that are both
\* observed are satisfied, and only their observations violated.
THEOREM ConflictsDecided == RoundsSpec => []ViolationsAreContradictions
<1>1. ASSUME StoreInv, RoundsTypeOK, NEW s \in Subject
      PROVE  /\ Conflict(store, s) # {} <=> Contradicted(s) /\ Shown(s)
             /\ Violated(s) # {} <=> Contradicted(s) /\ Shown(s)
             /\ Violated(s) # {} => ~Agree(Violated(s))
  <2> DEFINE group == Hard(store, s)
             conflict == Conflict(store, s)
             supported == Supported(store, s)
  <2>1. /\ group \in SUBSET Constraint
        /\ \A c \in group : c \in Managed(store) /\ c.subject = s /\ store[c].hard
    BY <1>1 DEF Hard, Managed, RoundsTypeOK
  <2>2. Violated(s) = {c \in group : c \in conflict /\ c \notin supported}
    <3>1. \A c \in Managed(store) : store[c].status = Solved(store, c)
      BY <1>1, ManagedSolved
    <3> QED BY <3>1 DEF Violated, Hard, Solved
  <2>3. CASE s \in VersionSubject
    <3> DEFINE facts == OfRole("fact", group)
    <3>1. /\ conflict \subseteq group
          /\ conflict # {} <=> group # {} /\ ~Agree(group) /\ (facts # {} \/ ObviouslyEmpty(group))
          /\ conflict # {} => ~Agree(conflict)
          /\ conflict # {} => facts = {} \/ Several(facts) \/ ~Agree(group)
      BY <2>1, <2>3, VersionsDecided DEF Conflict
    <3>2. conflict # {} => supported = {}
      BY <2>3, <3>1 DEF Supported
    <3>3. Violated(s) = conflict
      BY <2>2, <3>1, <3>2
    <3>4. Shown(s) <=> facts # {} \/ ObviouslyEmpty(group)
      BY <2>3 DEF Shown
    <3> QED BY <3>1, <3>3, <3>4 DEF Contradicted
  <2>4. CASE s \notin VersionSubject
    <3> DEFINE requirements == OfRole("requirement", group)
               facts == OfRole("fact", group)
    <3>0. Shown(s)
      BY <2>4 DEF Shown
    <3>1. Single(group)
      BY <2>1, <2>4 DEF Single, Constraint, Requirement, Fact
    <3>2. /\ conflict \subseteq group
          /\ conflict # {} <=> group # {} /\ ~Agree(group)
          /\ conflict # {} => ~Agree(conflict)
          /\ conflict # {} /\ {c.value : c \in requirements} = {c.value : c \in facts} =>
               ~Agree(facts) /\ facts \subseteq conflict
      BY <2>1, <2>4, <3>1, DiscretesDecided DEF Conflict
    <3>3. supported = IF {c.value : c \in requirements} = {c.value : c \in facts}
                        THEN requirements ELSE {}
      BY <2>4 DEF Supported
    <3>4. requirements \cap facts = {}
      BY DEF OfRole
    <3> HIDE DEF requirements, facts, conflict, supported, group
    <3>5. CASE conflict = {}
      BY <2>2, <3>0, <3>2, <3>5 DEF Contradicted, group, conflict
    <3>6. CASE conflict # {} /\ {c.value : c \in requirements} # {c.value : c \in facts}
      <4>1. Violated(s) = conflict
        BY <2>2, <3>2, <3>3, <3>6
      <4> QED BY <3>0, <3>2, <3>6, <4>1 DEF Contradicted, group, conflict
    <3>7. CASE conflict # {} /\ {c.value : c \in requirements} = {c.value : c \in facts}
      <4>1. facts \subseteq Violated(s)
        BY <2>2, <3>2, <3>3, <3>4, <3>7
      <4>2. ~Agree(Violated(s))
        BY <3>2, <3>7, <4>1, DisagreeMore
      <4>3. facts # {}
        <5>1. group # {} /\ (group = requirements \cup facts)
          BY <2>1, <3>2, <3>7 DEF group, requirements, facts, OfRole, Constraint, Requirement, Fact
        <5> QED BY <3>7, <5>1
      <4> QED BY <3>0, <3>2, <3>7, <4>1, <4>2, <4>3 DEF Contradicted, group, conflict
    <3> QED BY <3>5, <3>6, <3>7
  <2> QED BY <2>3, <2>4
<1>2. StoreInv /\ RoundsTypeOK => ViolationsAreContradictions
  BY <1>1 DEF ViolationsAreContradictions
<1> QED BY <1>2, StoreInvAlways, RoundsTypeCorrect, PTL

-----------------------------------------------------------------------------
(* What a round retires                                                    *)

\* What survives a round was in the store, or is new, and was not retired.
LEMMA Survives ==
  ASSUME IsStore(store), NEW findings, NEW retired, NEW c \in Managed(After(findings, retired))
  PROVE  /\ c \notin retired
         /\ c \in Managed(store) \/ c \notin DOMAIN store
         /\ c \in DOMAIN store \cup Targets(Items(findings, round + 1))
         /\ After(findings, retired)[c].evidence
              = Ingest(store, Items(findings, round + 1))[c].evidence
<1> DEFINE a == Ingest(store, Items(findings, round + 1))
           b == Supersede(a, retired)
<1>1. IsStore(a) /\ IsStore(b) /\ DOMAIN b = DOMAIN a
  BY IngestKeeps, SupersedeKeeps
<1>2. After(findings, retired) = Propagate(b)
  BY DEF After
<1>3. c \in Managed(b) /\ c \in DOMAIN a
  <2> HIDE DEF a, b
  <2> QED BY <1>1, <1>2, PropagateManages DEF Managed
<1>4. c \notin retired /\ c \in Managed(a)
  BY <1>3 DEF Managed, Supersede
<1>5. c \in DOMAIN store => c \in Managed(store)
  BY <1>4 DEF Managed, Ingest
<1>6. c \in DOMAIN store \cup Targets(Items(findings, round + 1))
  BY <1>3 DEF Ingest
<1>7. Propagate(b)[c].evidence = a[c].evidence
  <2>1. b[c].evidence = a[c].evidence
    BY <1>1, <1>3, SupersedeKeeps
  <2> HIDE DEF a, b
  <2> QED BY <2>1, <1>1, <1>3, PropagateShape
<1> QED BY <1>2, <1>4, <1>5, <1>6, <1>7

\* The scopes of a round are new: its facts are not in the store before it.
LEMMA RoundFactsNew ==
  ASSUME RoundsTypeOK, ScopesSeen, round < MaxRounds, NEW findings \in SUBSET Finding, NEW c
  PROVE  /\ c \in Targets(Items(findings, round + 1)) /\ c.role = "fact" =>
              c.scope = round + 1 /\ c \in RoundFacts(findings)
         /\ c \in DOMAIN store /\ c.role = "fact" => c.scope # round + 1
<1> DEFINE items == Items(findings, round + 1)
<1>1. round \in Nat /\ round + 1 \in Scope /\ round + 1 # Unscoped
  BY ScopeFacts
<1>2. c \in DOMAIN store /\ c.role = "fact" => c.scope # round + 1
  BY <1>1 DEF ScopesSeen
<1>3. ASSUME c \in Targets(items), c.role = "fact"
      PROVE  c.scope = round + 1 /\ c \in RoundFacts(findings)
  <2>1. c.scope = round + 1
    <3>1. PICK i \in items : i.constraint = c
      BY <1>3 DEF Targets
    <3>2. findings \in SUBSET (Finding \cup Initial)
      OBVIOUS
    <3> QED BY <1>1, <1>3, <3>1, <3>2, ItemType
  <2>2. c \notin DOMAIN store
    BY <1>2, <1>3, <2>1
  <2>3. c \in Changed(store, items)
    BY <1>3, <2>2 DEF Changed
  <2>4. c \in Facts(Ingest(store, items))
    BY <1>3, <2>2 DEF Facts, Managed, Ingest
  <2> QED BY <2>1, <2>3, <2>4 DEF RoundFacts
<1> QED BY <1>2, <1>3

\* A round that retires what it observed again, or every prior fact, leaves one
\* candidate's facts of each subject it observed.
LEMMA AfterCurrent ==
  ASSUME StoreInv, RoundsTypeOK, ScopesSeen, round < MaxRounds,
         NEW findings \in SUBSET Finding, NEW retired,
         Replaced(Facts(store), RoundFacts(findings)) \subseteq retired,
         NEW c \in Facts(After(findings, retired)), NEW d \in Facts(After(findings, retired)),
         c.subject = d.subject, c.subject \notin OperationSubject, c.scope = round + 1
  PROVE  d.scope = round + 1
<1>1. c \in Managed(After(findings, retired)) /\ c.role = "fact"
      /\ d \in Managed(After(findings, retired)) /\ d.role = "fact"
  BY DEF Facts
<1>2. IsStore(store)
  BY DEF StoreInv
<1>3. c \in RoundFacts(findings)
  BY <1>1, <1>2, Survives, RoundFactsNew
<1> SUFFICES ASSUME d.scope # round + 1 PROVE FALSE
  OBVIOUS
<1>4. d \in Facts(store) /\ d \notin retired
  BY <1>1, <1>2, Survives, RoundFactsNew DEF Facts
<1>5. d \notin RoundFacts(findings)
  <2>1. d \in RoundFacts(findings) => d \in Targets(Items(findings, round + 1))
    BY DEF RoundFacts, Changed
  <2> QED BY <2>1, <1>1, RoundFactsNew
<1>6. d \in Replaced(Facts(store), RoundFacts(findings))
  BY <1>3, <1>4, <1>5 DEF Replaced
<1> QED BY <1>4, <1>6

LEMMA AfterScopes ==
  ASSUME StoreInv, RoundsTypeOK, ScopesSeen, round < MaxRounds,
         NEW findings \in SUBSET Finding, NEW retired,
         NEW c \in DOMAIN After(findings, retired), c.role = "fact"
  PROVE  c.scope = Unscoped \/ c.scope <= round + 1
<1>1. DOMAIN After(findings, retired) = DOMAIN store \cup Targets(Items(findings, round + 1))
  BY DEF After, Propagate, Supersede, Ingest
<1>2. round \in Nat
  BY ScopeFacts
<1>3. CASE c \in Targets(Items(findings, round + 1))
  BY <1>2, <1>3, RoundFactsNew
<1>4. CASE c \in DOMAIN store
  <2>1. c.scope = Unscoped \/ c.scope <= round
    BY <1>4 DEF ScopesSeen
  <2>2. c.scope = Unscoped \/ c.scope \in Nat
    BY <1>4, RoundsAssumption DEF RoundsTypeOK, Constraint, Fact, Requirement, Scope
  <2> QED BY <1>2, <2>1, <2>2
<1> QED BY <1>1, <1>3, <1>4

\* A complete report with counterexamples retires the goal's constraints it
\* does not name; what survives with the goal's evidence is named.
LEMMA AfterExhaustive ==
  ASSUME StoreInv, NEW findings \in SUBSET Finding, NEW retired,
         FromSource(store, "goal") \ Said(Goal(findings), round + 1) \subseteq retired,
         NEW c \in Managed(After(findings, retired)),
         NEW e \in After(findings, retired)[c].evidence, e.source = "goal"
  PROVE  c \in Said(Goal(findings), round + 1)
<1> DEFINE items == Items(findings, round + 1)
<1>1. c \notin retired /\ (c \in Managed(store) \/ c \notin DOMAIN store)
      /\ c \in DOMAIN store \cup Targets(items)
      /\ e \in Ingest(store, items)[c].evidence
  BY Survives DEF StoreInv
<1>2. c \in DOMAIN Ingest(store, items)
  BY <1>1 DEF Ingest
<1>3. CASE \E i \in items : i.constraint = c /\ e = i.evidence
  <2>1. PICK i \in items : i.constraint = c /\ e = i.evidence
    BY <1>3
  <2>2. PICK f \in findings : \E d \in Statements(f, round + 1) :
          i = [constraint |-> d, hard |-> f.hard,
               evidence |-> [round |-> round + 1, source |-> SourceOf(f)]]
    BY <2>1 DEF Items
  <2>3. c \in Statements(f, round + 1) /\ SourceOf(f) = "goal"
    BY <2>1, <2>2
  <2> QED BY <2>3 DEF Said, Goal
<1>4. CASE c \in DOMAIN store /\ e \in store[c].evidence
  <2>1. c \in FromSource(store, "goal")
    BY <1>1, <1>4 DEF FromSource
  <2> QED BY <2>1, <1>1
<1> QED BY <1>1, <1>2, <1>3, <1>4 DEF Ingest

-----------------------------------------------------------------------------
\* What every state satisfies.
RoundsInv ==
  /\ StoreInv
  /\ RoundsTypeOK
  /\ ScopesSeen
  /\ ObservationsAreCurrent
  /\ CompleteReportIsExhaustive

LEMMA RoundsInvInit == RoundsInit => RoundsInv
<1> SUFFICES ASSUME RoundsInit PROVE RoundsInv
  OBVIOUS
<1>1. PICK findings \in SUBSET Initial :
        store = Propagate(Ingest(EmptyStore, Items(findings, Unscoped)))
  BY DEF RoundsInit
<1>2. DOMAIN store = Targets(Items(findings, Unscoped))
  BY <1>1 DEF Propagate, Ingest, EmptyStore
<1>3. \A c \in DOMAIN store : c.role = "fact" => c.scope = Unscoped
  <2>1. findings \in SUBSET (Finding \cup Initial) /\ Unscoped \in Scope
    BY DEF Scope
  <2> QED BY <1>2, <2>1, ItemType DEF Targets
<1>4. ScopesSeen
  BY <1>3 DEF ScopesSeen
<1>5. ObservationsAreCurrent
  BY <1>3 DEF ObservationsAreCurrent, Facts, Managed
<1>6. CompleteReportIsExhaustive
  BY DEF RoundsInit, CompleteReportIsExhaustive, Report
<1> QED BY <1>4, <1>5, <1>6, StoreInvInit, RoundsTypeInit DEF RoundsInv

LEMMA RoundsInvFail ==
  ASSUME RoundsInv, Fail
  PROVE  ScopesSeen' /\ ObservationsAreCurrent' /\ CompleteReportIsExhaustive'
<1>1. round < MaxRounds /\ round' = round + 1
  BY FailShape
<1>2. PICK findings \in SUBSET Finding, complete \in BOOLEAN :
        /\ report' = Report(findings, complete)
        /\ store' = After(findings, Dropped(findings, complete))
  BY FailShape
<1>3. ScopesSeen'
  BY <1>1, <1>2, AfterScopes DEF RoundsInv, ScopesSeen
<1>4. ObservationsAreCurrent'
  <2>1. Replaced(Facts(store), RoundFacts(findings)) \subseteq Dropped(findings, complete)
    BY DEF Dropped
  <2> QED BY <1>1, <1>2, <2>1, AfterCurrent DEF RoundsInv, ObservationsAreCurrent
<1>5. CompleteReportIsExhaustive'
  <2> SUFFICES ASSUME complete, Counterexamples(findings) # {},
                      NEW c \in Managed(store'), NEW e \in store'[c].evidence, e.source = "goal"
               PROVE  c \in Said(Goal(findings), round + 1)
    BY <1>1, <1>2 DEF CompleteReportIsExhaustive, Report
  <2>1. FromSource(store, "goal") \ Said(Goal(findings), round + 1)
          \subseteq Dropped(findings, complete)
    BY DEF Dropped
  <2> QED BY <1>2, <2>1, AfterExhaustive DEF RoundsInv
<1> QED BY <1>3, <1>4, <1>5

LEMMA RoundsInvPass ==
  ASSUME RoundsInv, Pass
  PROVE  ScopesSeen' /\ ObservationsAreCurrent' /\ CompleteReportIsExhaustive'
<1>1. round < MaxRounds /\ round' = round + 1
  BY PassShape
<1>0. PICK findings \in SUBSET Finding : \E retired :
        /\ Facts(store) \subseteq retired
        /\ report' = Report(findings, FALSE)
        /\ store' = After(findings, retired)
  BY PassShape
<1>2. PICK retired :
        /\ Facts(store) \subseteq retired
        /\ report' = Report(findings, FALSE)
        /\ store' = After(findings, retired)
  BY <1>0
<1>3. ScopesSeen'
  BY <1>1, <1>2, AfterScopes DEF RoundsInv, ScopesSeen
<1>4. ObservationsAreCurrent'
  <2>1. Replaced(Facts(store), RoundFacts(findings)) \subseteq retired
    BY <1>2 DEF Replaced
  <2> QED BY <1>1, <1>2, <2>1, AfterCurrent DEF RoundsInv, ObservationsAreCurrent
<1>5. CompleteReportIsExhaustive'
  BY <1>2 DEF CompleteReportIsExhaustive, Report
<1> QED BY <1>3, <1>4, <1>5

LEMMA RoundsInvAlways == RoundsSpec => []RoundsInv
<1>1. RoundsInv /\ [RoundsNext]_roundVars => RoundsInv'
  <2> SUFFICES ASSUME RoundsInv, [RoundsNext]_roundVars PROVE RoundsInv'
    OBVIOUS
  <2>1. CASE RoundsNext
    <3>1. StoreInv' /\ RoundsTypeOK'
      BY <2>1, StoreInvStep, RoundsTypeStep DEF RoundsInv
    <3>2. ScopesSeen' /\ ObservationsAreCurrent' /\ CompleteReportIsExhaustive'
      BY <2>1, RoundsInvFail, RoundsInvPass DEF RoundsNext
    <3> QED BY <3>1, <3>2 DEF RoundsInv
  <2>2. CASE UNCHANGED roundVars
    BY <2>2 DEF roundVars, RoundsInv, StoreInv, PropagationConverged, RoundsTypeOK, ScopesSeen,
                ObservationsAreCurrent, CompleteReportIsExhaustive
  <2> QED BY <2>1, <2>2
<1> QED BY <1>1, RoundsInvInit, PTL DEF RoundsSpec

\* What the last candidate says of a subject has replaced what earlier ones,
\* or the initial evidence, said: a round's facts have a scope no earlier fact
\* has, so all of them count as changed and replace the prior facts of theirs.
THEOREM Current == RoundsSpec => []ObservationsAreCurrent
<1>1. RoundsInv => ObservationsAreCurrent
  BY DEF RoundsInv
<1> QED BY <1>1, RoundsInvAlways, PTL

\* After a complete failing report the goal's constraints are those it names:
\* whatever else carried the goal's evidence was retired with the same round.
THEOREM Exhaustive == RoundsSpec => []CompleteReportIsExhaustive
<1>1. RoundsInv => CompleteReportIsExhaustive
  BY DEF RoundsInv
<1> QED BY <1>1, RoundsInvAlways, PTL

=============================================================================
