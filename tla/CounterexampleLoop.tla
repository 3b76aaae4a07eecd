------------------------- MODULE CounterexampleLoop ------------------------
(***************************************************************************)
(* envsolve/solver/counterexample.py: CounterexampleGuidedDeploymentLoop   *)
(* asks a policy for candidates, runs each in a leased environment, and    *)
(* either delivers it, turns the verifier's counterexamples into           *)
(* constraints and goes on, or stops.  With environment_strategy           *)
(* "postcondition-persistent" an environment whose state the verifier      *)
(* found reusable hosts the next candidate, and a candidate that passes    *)
(* there is replayed in a fresh environment before it is certified.        *)
(*                                                                         *)
(* Every call to the policy, the budget, the provider, the verifier and    *)
(* the constraint engine is one step with the answers it may give.  The    *)
(* events the session appends are kept as the state they add up to:        *)
(* SolverSession has their details.  A clean replay goes through the same  *)
(* steps as a candidate, as an action of its own.                          *)
(***************************************************************************)
EXTENDS Naturals, FiniteSets

CONSTANTS
  Strategies,         \* SUBSET BOOLEAN: environment_strategy may be "postcondition-persistent"
  Retain,             \* retain_admissible_candidate
  MaxCandidates,      \* the loop's candidate budget
  MaxPolicyFailures,  \* recoverable policy failures in a row
  Limit,              \* the ledger's limit of each scope
  MaxEnvironments,    \* bound on the identities a provider hands out
  Outcome,            \* the verifications a verifier may return
  MaxRuns             \* bound on the runs on one state log

Scope == {"requests", "candidates", "environments", "commands"}

\* ExecutableVerification.  exitOk: bootstrap.exit_code = 0; internal: the
\* feedback channel; typed, guessed: it has counterexamples, hypotheses;
\* damaged: the state-integrity boundary was violated; rank: of an admissible
\* assessment, the smaller the better, else 0.  What the verifier finds damaged
\* it reports as failed.
Verification ==
  {o \in [passed : {"passed", "failed", "unknown"}, exitOk : BOOLEAN, internal : BOOLEAN,
          typed : BOOLEAN, guessed : BOOLEAN, damaged : BOOLEAN, rank : Nat] :
     /\ o.rank > 0 => o.passed = "failed" /\ o.exitOk
     /\ o.damaged => o.passed = "failed"}

ASSUME LoopAssumption ==
  /\ Strategies \subseteq BOOLEAN /\ Retain \in BOOLEAN
  /\ {MaxCandidates, MaxPolicyFailures} \subseteq Nat \ {0}
  /\ Limit \in [Scope -> Nat \ {0}]
  /\ MaxEnvironments \in Nat /\ MaxRuns \in Nat
  /\ Outcome \subseteq Verification

\* assess_state_transition: the environment may host the next candidate.
Reusable(o) ==
  /\ ~o.damaged
  /\ o.exitOk
  /\ (o.passed = "passed" /\ ~o.typed) \/ o.rank > 0

VARIABLES
  persistent,     \* environment_strategy = "postcondition-persistent"
  pc,             \* the step of run() that comes next
  loop,           \* locals of run() and attributes of the loop: see LoopState
  round,          \* the candidate being driven: see RoundState
  result,         \* what run() is about to return
  actions,        \* status of the actions in the state log
  verifications,  \* verification records in the state log
  failures,       \* actions with a failure record in the state log
  goal,           \* status of the goal in the state log
  lease, hosted,  \* the environments, and what ran in them since they were leased
  spent, late,    \* the ledger's counters; the wall-clock limit has passed
  runs            \* runs started on this log

logVars == <<actions, verifications, failures, goal>>
environmentVars == <<lease, hosted>>
budgetVars == <<spent, late>>
runVars == <<runs, persistent>>
loopVars == <<pc, loop, round, result, logVars, environmentVars, budgetVars, runVars>>

Environment == 1 .. MaxEnvironments
NoEnvironment == 0
Candidate == 1 .. MaxCandidates
Role == {"candidate", "replay"}

\* A candidate's own execution, and its clean replay.
Action == Candidate \X Role
NoAction == <<0, "candidate">>
Number(a) == a[1]

Control == {"closed", "proposing", "admitting", "leasing", "provisioning", "checking",
            "leased",
            "verifying", "settling", "completing", "judging", "feeding", "finishing",
            "reporting", "returned", "raised"}

Unknown ==
  [passed |-> "unknown", exitOk |-> FALSE, internal |-> TRUE, typed |-> FALSE,
   guessed |-> FALSE, damaged |-> FALSE, rank |-> 0]

Delivery(certification, action, environment, rank) ==
  [certification |-> certification, action |-> action, environment |-> environment,
   rank |-> rank]
Nothing == Delivery("none", NoAction, NoEnvironment, 0)

\* valid: the verifier returned an ExecutableVerification and no release
\* voided it; matched: the receipt names the case.
RoundState ==
  [action : Action \cup {NoAction}, environment : Environment \cup {NoEnvironment},
   matched : BOOLEAN, valid : BOOLEAN, outcome : Outcome \cup {Unknown}]
NoRound ==
  [action |-> NoAction, environment |-> NoEnvironment, matched |-> TRUE, valid |-> FALSE,
   outcome |-> Unknown]

\* excuses: consecutive_policy_failures; known: environment_ids; next: the
\* number of the policy's next candidate; basis: why the last round let the
\* loop propose again.
LoopState ==
  [attempted : Nat, excuses : Nat, known : SUBSET Environment,
   retained : Environment \cup {NoEnvironment}, next : Nat, best : [certification : {"none", "uncertified"},
     action : Action \cup {NoAction}, environment : Environment \cup {NoEnvironment}, rank : Nat],
   basis : {"start", "rejected", "conflict", "hypothesis"}]
Fresh(known) ==
  [attempted |-> 0, excuses |-> 0, known |-> known, retained |-> NoEnvironment, next |-> 1,
   best |-> Nothing, basis |-> "start"]

LoopInit ==
  /\ pc = "closed" /\ loop = Fresh({}) /\ round = NoRound /\ result = Nothing
  /\ actions = [a \in Action |-> "absent"]
  /\ verifications = {} /\ failures = {} /\ goal = "absent"
  /\ lease = [e \in Environment |-> "absent"]
  /\ hosted = [e \in Environment |-> {}]
  /\ spent = [s \in Scope |-> 0] /\ late = FALSE
  /\ runs = 0 /\ persistent \in Strategies

Replaying == round.action[2] = "replay"

Verdict(passed, o) ==
  [action |-> round.action, environment |-> round.environment, passed |-> passed,
   rank |-> o.rank, reusable |-> Reusable(o)]

-----------------------------------------------------------------------------
(* Ends of a round and of the run                                          *)

\* _block: the failure is recorded, about an action or none, and run() ends.
Block(about) ==
  /\ failures' = failures \cup about
  /\ result' = Nothing
  /\ pc' = "finishing"

\* The action ends with exit code 255, the candidate counts, and run() ends.
Abandon(retained) ==
  /\ actions' = [actions EXCEPT ![round.action] = "failed"]
  /\ loop' = [loop EXCEPT !.attempted = @ + IF Replaying THEN 0 ELSE 1,
                          !.retained = retained]
  /\ Block({<<Number(round.action), "candidate">>})

\* The loop goes back to the policy.
Continue(basis) ==
  /\ loop' = [loop EXCEPT !.basis = basis]
  /\ round' = NoRound
  /\ pc' = "proposing"

\* provider.release, which may raise.
Release(e, released) ==
  lease' = [lease EXCEPT ![e] = IF released THEN "released" ELSE "leaked"]

\* Mutant: the retained environment outlives the run.
ReleaseRetainedNever ==
  /\ pc = "finishing"
  /\ pc' = "reporting"
  /\ UNCHANGED <<loop, round, result, logVars, environmentVars, budgetVars, runVars>>

\* _finish: what is still retained is released, then the goal is decided.
ReleaseRetained ==
  /\ pc = "finishing"
  /\ IF loop.retained = NoEnvironment THEN UNCHANGED lease
     ELSE \E released \in BOOLEAN : Release(loop.retained, released)
  /\ loop' = [loop EXCEPT !.retained = NoEnvironment]
  /\ pc' = "reporting"
  /\ UNCHANGED <<round, result, logVars, hosted, budgetVars, runVars>>

Report ==
  /\ pc = "reporting"
  /\ goal' = IF result.certification = "certified" THEN "satisfied" ELSE "blocked"
  /\ round' = NoRound
  /\ pc' = "returned"
  /\ UNCHANGED <<loop, result, actions, verifications, failures, environmentVars,
                 budgetVars, runVars>>

-----------------------------------------------------------------------------
(* The budget and the policy                                               *)

\* Mutant: the limit itself can still be reserved.
ExhaustedPast(scope) == late \/ spent[scope] > Limit[scope]

Exhausted(scope) == late \/ spent[scope] >= Limit[scope]
Reserve(scope) == spent' = [spent EXCEPT ![scope] = @ + 1]

\* Before a model request the ledger looks at the limits of every scope.
CanRequest == \A scope \in Scope : ~Exhausted(scope)

\* run() starts: the goal is opened once, and the identities of recorded
\* verifications are remembered.
Start ==
  /\ pc = "closed"
  /\ runs < MaxRuns
  /\ runs' = runs + 1
  /\ goal' = IF goal = "absent" THEN "in_progress" ELSE goal
  /\ loop' = Fresh({v.environment : v \in verifications})
  /\ pc' = "proposing"
  /\ UNCHANGED <<round, result, actions, verifications, failures, environmentVars, budgetVars, persistent>>

Asking == pc = "proposing" /\ loop.attempted < MaxCandidates

\* The budget is exhausted, the provider or the policy fails, or the policy
\* returns a StopDecision or something else.
PolicyStops ==
  /\ Asking
  /\ IF CanRequest THEN Reserve("requests") ELSE UNCHANGED spent
  /\ Block({})
  /\ UNCHANGED <<loop, round, actions, verifications, goal, environmentVars, late, runVars>>

\* RecoverablePolicyError: tried again, up to max_policy_failures in a row.
PolicyErrs ==
  /\ Asking
  /\ CanRequest /\ Reserve("requests")
  /\ loop' = [loop EXCEPT !.excuses = @ + 1]
  /\ pc' = IF loop.excuses + 1 >= MaxPolicyFailures THEN "finishing" ELSE "proposing"
  /\ UNCHANGED <<round, result, logVars, environmentVars, late, runVars>>

\* StructuredModelPolicy numbers its candidates from 1 in every process.
PolicyProposes ==
  /\ Asking
  /\ CanRequest /\ Reserve("requests")
  /\ loop' = [loop EXCEPT !.excuses = 0, !.next = @ + 1]
  /\ round' = [NoRound EXCEPT !.action = <<loop.next, "candidate">>]
  /\ pc' = "admitting"
  /\ UNCHANGED <<result, logVars, environmentVars, late, runVars>>

\* The candidate budget of the loop is spent: the best admissible candidate.
CandidatesSpent ==
  /\ pc = "proposing" /\ ~Asking
  /\ result' = loop.best
  /\ pc' = "finishing"
  /\ UNCHANGED <<loop, round, logVars, environmentVars, budgetVars, runVars>>

-----------------------------------------------------------------------------
(* The candidate is admitted                                               *)

\* reserve_candidate fails; or the validator or the guard raises; or the state
\* already has the action or misses a precondition.
AdmissionStops ==
  /\ pc = "admitting"
  /\ IF Exhausted("candidates") THEN UNCHANGED spent ELSE Reserve("candidates")
  /\ Block({})
  /\ UNCHANGED <<loop, round, actions, verifications, goal, environmentVars, late, runVars>>

Admissible ==
  /\ pc = "admitting"
  /\ ~Exhausted("candidates")
  /\ actions[round.action] = "absent"
  /\ Reserve("candidates")

\* Mutant: a rejected candidate is not an attempt.
RejectUncounted ==
  /\ Admissible
  /\ actions' = [actions EXCEPT ![round.action] = "failed"]
  /\ failures' = failures \cup {round.action}
  /\ loop' = [loop EXCEPT !.basis = "rejected"]
  /\ round' = NoRound
  /\ pc' = "proposing"
  /\ UNCHANGED <<result, verifications, goal, environmentVars, late, runVars>>

\* The validator or the operation guard rejects it: exit code 252 or 251.
Reject ==
  /\ Admissible
  /\ actions' = [actions EXCEPT ![round.action] = "failed"]
  /\ failures' = failures \cup {round.action}
  /\ loop' = [loop EXCEPT !.attempted = @ + 1, !.basis = "rejected"]
  /\ round' = NoRound
  /\ pc' = "proposing"
  /\ UNCHANGED <<result, verifications, goal, environmentVars, late, runVars>>

Admit ==
  /\ Admissible
  /\ actions' = [actions EXCEPT ![round.action] = "running"]
  /\ pc' = "leasing"
  /\ UNCHANGED <<loop, round, result, verifications, failures, goal, environmentVars, late, runVars>>

-----------------------------------------------------------------------------
(* It gets an environment                                                  *)

\* The round runs in the construction environment.
Constructing == persistent /\ ~Replaying

\* Mutant: the clean replay runs in the retained environment as well.
ReuseForReplay ==
  /\ pc = "leasing"
  /\ persistent /\ loop.retained # NoEnvironment
  /\ round' = [round EXCEPT !.environment = loop.retained]
  /\ pc' = "leased"
  /\ UNCHANGED <<loop, result, logVars, environmentVars, budgetVars, runVars>>

Reuse ==
  /\ pc = "leasing"
  /\ Constructing /\ loop.retained # NoEnvironment
  /\ round' = [round EXCEPT !.environment = loop.retained]
  /\ pc' = "leased"
  /\ UNCHANGED <<loop, result, logVars, environmentVars, budgetVars, runVars>>

NeedsEnvironment == pc = "leasing" /\ (Constructing => loop.retained = NoEnvironment)

ReserveEnvironment ==
  /\ NeedsEnvironment
  /\ ~Exhausted("environments") /\ Reserve("environments")
  /\ pc' = "provisioning"
  /\ UNCHANGED <<loop, round, result, logVars, environmentVars, late, runVars>>

EnvironmentRefused ==
  /\ NeedsEnvironment
  /\ Exhausted("environments")
  /\ Abandon(loop.retained)
  /\ UNCHANGED <<round, verifications, goal, environmentVars, budgetVars, runVars>>

\* provision raises, or returns something that is no lease.
ProvisionFails ==
  /\ pc = "provisioning"
  /\ Abandon(loop.retained)
  /\ UNCHANGED <<round, verifications, goal, environmentVars, budgetVars, runVars>>

\* A provider hands out an identity of its own, or one it had back.
Offered ==
  {e \in Environment :
     \/ lease[e] \in {"released", "leaked"}
     \/ lease[e] = "absent" /\ \A f \in 1 .. e - 1 : lease[f] # "absent"}

Provision ==
  /\ pc = "provisioning"
  /\ \E e \in Offered, matched \in BOOLEAN :
       /\ lease' = [lease EXCEPT ![e] = "leased"]
       /\ hosted' = [hosted EXCEPT ![e] = {}]
       /\ round' = [round EXCEPT !.environment = e, !.matched = matched]
  /\ pc' = "checking"
  /\ UNCHANGED <<loop, result, logVars, budgetVars, runVars>>

\* Mutant: only the case of a receipt is compared.
UniqueCase == round.matched

Unique == round.environment \notin loop.known /\ round.matched

AcceptReceipt ==
  /\ pc = "checking"
  /\ Unique
  /\ loop' = [loop EXCEPT !.known = @ \cup {round.environment},
                          !.retained = IF Constructing THEN round.environment ELSE @]
  /\ pc' = "leased"
  /\ UNCHANGED <<round, result, logVars, environmentVars, budgetVars, runVars>>

\* The receipt names a known identity or another case.
RefuseReceipt ==
  /\ pc = "checking"
  /\ ~Unique
  /\ \E released \in BOOLEAN : Release(round.environment, released)
  /\ Abandon(loop.retained)
  /\ UNCHANGED <<round, verifications, goal, hosted, budgetVars, runVars>>

\* What is retained once the round gave its environment up.
RetainedAfter == IF Constructing THEN NoEnvironment ELSE loop.retained

ReserveCommand ==
  /\ pc = "leased"
  /\ ~Exhausted("commands") /\ Reserve("commands")
  /\ pc' = "verifying"
  /\ UNCHANGED <<loop, round, result, logVars, environmentVars, late, runVars>>

\* Mutant: with a retained environment the loop waits for a command.
CommandAwaited ==
  /\ pc = "leased"
  /\ Exhausted("commands") /\ round.environment # loop.retained
  /\ \E released \in BOOLEAN : Release(round.environment, released)
  /\ Abandon(RetainedAfter)
  /\ UNCHANGED <<round, verifications, goal, hosted, budgetVars, runVars>>

CommandRefused ==
  /\ pc = "leased"
  /\ Exhausted("commands")
  /\ \E released \in BOOLEAN : Release(round.environment, released)
  /\ Abandon(RetainedAfter)
  /\ UNCHANGED <<round, verifications, goal, hosted, budgetVars, runVars>>

-----------------------------------------------------------------------------
(* It is executed and verified                                             *)

\* verify returns a verification, something else, or raises.
Verify ==
  /\ pc = "verifying"
  /\ hosted' = [hosted EXCEPT ![round.environment] = @ \cup {round.action}]
  /\ \/ \E o \in Outcome : round' = [round EXCEPT !.outcome = o, !.valid = TRUE]
     \/ UNCHANGED round
  /\ pc' = "settling"
  /\ UNCHANGED <<loop, result, logVars, lease, budgetVars, runVars>>

\* A fresh environment is released whatever happened; an error voids the outcome.
SettleFresh ==
  /\ pc = "settling"
  /\ ~Constructing
  /\ \E released \in BOOLEAN :
       /\ Release(round.environment, released)
       /\ round' = IF released THEN round
                   ELSE [round EXCEPT !.valid = FALSE, !.outcome = Unknown]
  /\ pc' = "completing"
  /\ UNCHANGED <<loop, result, logVars, hosted, budgetVars, runVars>>

\* Mutant: a candidate that exits with 0 leaves a reusable state.
KeepCompleted == round.valid /\ round.outcome.exitOk

Keep == round.valid /\ Reusable(round.outcome)

\* The verifier found the construction environment reusable: it is retained.
KeepConstruction ==
  /\ pc = "settling"
  /\ Constructing /\ Keep
  /\ pc' = "completing"
  /\ UNCHANGED <<loop, round, result, logVars, environmentVars, budgetVars, runVars>>

DropConstruction ==
  /\ pc = "settling"
  /\ Constructing /\ ~Keep
  /\ Release(round.environment, TRUE)
  /\ loop' = [loop EXCEPT !.retained = NoEnvironment]
  /\ pc' = "completing"
  /\ UNCHANGED <<round, result, logVars, hosted, budgetVars, runVars>>

\* Its release raises: the run ends, and when the verifier had answered, it
\* ends before complete_recorded_action and without counting the candidate.
DropFails ==
  /\ pc = "settling"
  /\ Constructing /\ ~Keep
  /\ Release(round.environment, FALSE)
  /\ IF round.valid
       THEN /\ loop' = [loop EXCEPT !.retained = NoEnvironment]
            /\ Block({round.action})
            /\ UNCHANGED actions
       ELSE Abandon(NoEnvironment)
  /\ UNCHANGED <<round, verifications, goal, hosted, budgetVars, runVars>>

VerifierFailed ==
  /\ pc = "completing"
  /\ ~round.valid
  /\ Abandon(loop.retained)
  /\ UNCHANGED <<round, verifications, goal, environmentVars, budgetVars, runVars>>

\* complete_recorded_action with the bootstrap's exit code.
Complete ==
  /\ pc = "completing"
  /\ round.valid
  /\ actions' = [actions EXCEPT
       ![round.action] = IF round.outcome.exitOk THEN "succeeded" ELSE "failed"]
  /\ loop' = [loop EXCEPT !.attempted = @ + IF Replaying THEN 0 ELSE 1]
  /\ pc' = "judging"
  /\ UNCHANGED <<round, result, verifications, failures, goal, environmentVars, budgetVars, runVars>>

-----------------------------------------------------------------------------
(* The outcome is judged                                                   *)

Record(passed) ==
  verifications' = verifications \cup {Verdict(passed, round.outcome)}

Judging(o) == pc = "judging" /\ o = round.outcome

\* Mutant: the first candidate of an environment needs no clean replay.
ToReplayLater(o) ==
  /\ o.internal /\ Constructing /\ Reusable(o) /\ o.passed = "passed"
  /\ Cardinality(hosted[round.environment]) > 1

\* A construction that passed in a reusable state is replayed in a fresh
\* environment: its own verification stays undecided.
ToReplay(o) == o.internal /\ Constructing /\ Reusable(o) /\ o.passed = "passed"

StartReplay ==
  \E o \in Outcome :
  /\ Judging(o) /\ ToReplay(o)
  /\ Record("unknown")
  /\ LET replay == <<Number(round.action), "replay">> IN
       /\ actions' = [actions EXCEPT ![replay] = "running"]
       /\ round' = [NoRound EXCEPT !.action = replay]
  /\ pc' = "leasing"
  /\ UNCHANGED <<loop, result, failures, goal, environmentVars, budgetVars, runVars>>

Contradictory(o) == o.passed = "passed" /\ (~o.exitOk \/ o.typed)

\* Feedback of the official evaluator, an undecided verifier, or a pass that
\* contradicts the exit code or its own counterexamples.
JudgeStops ==
  \E o \in Outcome :
  /\ Judging(o) /\ ~ToReplay(o)
  /\ ~o.internal \/ o.passed = "unknown" \/ Contradictory(o)
  /\ Record(IF o.internal /\ o.passed = "unknown" THEN "unknown" ELSE "failed")
  /\ Block({round.action})
  /\ UNCHANGED <<loop, round, actions, goal, environmentVars, budgetVars, runVars>>

\* The candidate passed: its observations replace the prior constraints, the
\* verification is recorded and the candidate is the certified result.
Accept ==
  \E o \in Outcome :
  /\ Judging(o) /\ ~ToReplay(o)
  /\ o.internal /\ o.passed = "passed" /\ ~Contradictory(o)
  /\ Record("passed")
  /\ result' = Delivery("certified", round.action, round.environment, 0)
  /\ pc' = "finishing"
  /\ UNCHANGED <<loop, round, actions, failures, goal, environmentVars, budgetVars, runVars>>

\* Mutant: a later candidate of the same rank replaces the best.
BetterOrEqual(o) ==
  /\ Retain /\ o.rank > 0
  /\ loop.best = Nothing \/ o.rank <= loop.best.rank

Better(o) ==
  /\ Retain /\ o.rank > 0
  /\ loop.best = Nothing \/ o.rank < loop.best.rank

\* The candidate failed: verification, best admissible candidate, failure.
JudgeFailed ==
  \E o \in Outcome :
  /\ Judging(o)
  /\ o.internal /\ o.passed = "failed"
  /\ Record("failed")
  /\ failures' = failures \cup {round.action}
  /\ loop' = IF Better(o)
               THEN [loop EXCEPT !.best = Delivery("uncertified", round.action,
                                                   round.environment, o.rank)]
               ELSE loop
  /\ pc' = "feeding"
  /\ UNCHANGED <<round, result, actions, goal, environmentVars, budgetVars, runVars>>

\* The evidence is ingested and propagated: another candidate is asked for
\* when a constraint is violated, or when there is only a hypothesis.
Feed ==
  /\ pc = "feeding"
  /\ \/ /\ round.outcome.typed
        /\ Continue("conflict")
     \/ /\ round.outcome.guessed
        /\ Continue("hypothesis")
  /\ UNCHANGED <<result, logVars, environmentVars, budgetVars, runVars>>

\* The failure normalizes to nothing and there is no hypothesis, or what it
\* normalizes to violates no constraint.
FeedStops ==
  /\ pc = "feeding"
  /\ round.outcome.guessed => round.outcome.typed
  /\ Block({round.action})
  /\ UNCHANGED <<loop, round, actions, verifications, goal, environmentVars, budgetVars, runVars>>

-----------------------------------------------------------------------------
\* An exception leaves run(): the state session cannot write, in a handler as
\* well.  The locals are gone, but the process goes on, and so do the leases:
\* nobody releases them, and the loop object refuses another run() while it
\* still holds a retained environment.
Escape ==
  /\ pc \notin {"closed", "returned", "raised"}
  /\ pc' = "raised"
  /\ loop' = Fresh({}) /\ round' = NoRound /\ result' = Nothing
  /\ UNCHANGED <<logVars, environmentVars, budgetVars, runVars>>

\* The process dies, in run() or after an exception left it.
Crash ==
  /\ pc \notin {"closed", "returned"}
  /\ pc' = "closed"
  /\ loop' = Fresh({}) /\ round' = NoRound /\ result' = Nothing
  /\ lease' = [e \in Environment |-> IF lease[e] = "leased" THEN "orphaned" ELSE lease[e]]
  /\ UNCHANGED <<logVars, hosted, budgetVars, runVars>>

\* max_wall_clock_seconds since the ledger was created.
TimePasses ==
  /\ ~late
  /\ late' = TRUE
  /\ UNCHANGED <<pc, loop, round, result, logVars, environmentVars, spent, runVars>>

LoopStep ==
  \/ PolicyStops \/ PolicyErrs \/ PolicyProposes \/ CandidatesSpent
  \/ AdmissionStops \/ Reject \/ Admit
  \/ Reuse \/ ReserveEnvironment \/ EnvironmentRefused \/ ProvisionFails \/ Provision
  \/ AcceptReceipt \/ RefuseReceipt \/ ReserveCommand \/ CommandRefused
  \/ Verify \/ SettleFresh \/ KeepConstruction \/ DropConstruction \/ DropFails
  \/ VerifierFailed \/ Complete
  \/ StartReplay \/ JudgeStops \/ Accept \/ JudgeFailed \/ Feed \/ FeedStops
  \/ ReleaseRetained \/ Report

LoopNext == Start \/ LoopStep \/ Escape \/ Crash \/ TimePasses

LoopSpec == LoopInit /\ [][LoopNext]_loopVars

\* One process runs the loop, and the policy, the provider and the verifier
\* are assumed to return or to raise: run() itself puts no deadline on them.
FairLoopSpec == LoopSpec /\ WF_loopVars(LoopStep)

-----------------------------------------------------------------------------
LoopTypeOK ==
  /\ pc \in Control /\ loop \in LoopState /\ round \in RoundState
  /\ result \in [certification : {"none", "uncertified", "certified"},
                 action : Action \cup {NoAction},
                 environment : Environment \cup {NoEnvironment}, rank : Nat]
  /\ actions \in [Action -> {"absent", "running", "succeeded", "failed"}]
  /\ verifications \subseteq [action : Action, environment : Environment,
       passed : {"passed", "failed", "unknown"}, rank : Nat, reusable : BOOLEAN]
  /\ failures \subseteq Action
  /\ goal \in {"absent", "in_progress", "satisfied", "blocked"}
  /\ lease \in [Environment -> {"absent", "leased", "released", "leaked", "orphaned"}]
  /\ hosted \in [Environment -> SUBSET Action]
  /\ spent \in [Scope -> Nat] /\ late \in BOOLEAN /\ runs \in Nat
  /\ persistent \in Strategies

Undelivered == <<NoAction, NoEnvironment>>

Delivered ==
  IF pc = "returned" /\ result.certification = "certified"
    THEN <<result.action, result.environment>> ELSE Undelivered

\* The loop keeps the promise of CertifiedDelivery: no environment is used
\* outside of its lease or released twice, one is leased at a time, two with a
\* retained one, and what is certified ran alone in an environment that is gone.
Promise == INSTANCE CertifiedDelivery WITH
  delivered <- Delivered, capacity <- IF persistent THEN 2 ELSE 1
DeliversAsPromised == Promise!Spec

\* When run() returns a result every environment was given up - the candidate's,
\* the replay's and the retained one - and when it asks the policy again, all
\* but the retained one.  A release that raised gives up as well: it is not
\* tried again.  After an exception left run() nothing is promised.
EnvironmentsReturned ==
  \A e \in Environment :
    /\ pc = "returned" => lease[e] # "leased"
    /\ pc = "proposing" /\ lease[e] = "leased" => e = loop.retained

\* Every environment leased, command executed and candidate run was reserved
\* before, across crashes, and no reservation exceeds its limit.
ReservationsCover ==
  /\ Cardinality({e \in Environment : lease[e] # "absent"}) <= spent["environments"]
  /\ Cardinality(UNION {hosted[e] : e \in Environment}) <= spent["commands"]
  /\ Cardinality({c \in Candidate : actions[<<c, "candidate">>] # "absent"})
       <= spent["candidates"]
  /\ loop.attempted <= MaxCandidates
  /\ \A scope \in Scope : spent[scope] <= Limit[scope]

\* Two verifications in the log never share an environment, unless they are
\* constructions: also when an interrupted run is started again on the log.
VerifiedInOwnEnvironment ==
  \A v, w \in verifications :
    v.environment = w.environment /\ v # w =>
      persistent /\ v.action[2] = "candidate" /\ w.action[2] = "candidate"

\* A candidate executes in a retained environment only when the verifier found
\* every execution there before it to leave a reusable state.
ReusedOnlyWhenReusable ==
  pc = "verifying" =>
    \A a \in hosted[round.environment] :
      \E v \in verifications :
        v.action = a /\ v.environment = round.environment /\ v.reusable

\* The policy is asked again only when every candidate before is terminal and
\* counted, none passed, and each left a failure for the policy to read.
FeedbackPrecedesProposal ==
  pc = "proposing" =>
    /\ loop.attempted = loop.next - 1
    /\ \A c \in Candidate : c < loop.next =>
         /\ \A role \in Role : actions[<<c, role>>] # "running"
         /\ {<<c, "candidate">>, <<c, "replay">>} \cap failures # {}
         /\ \A v \in verifications : Number(v.action) = c => v.passed # "passed"

\* A certified result is a satisfied goal and a passing verification of a
\* fresh execution; a satisfied goal is nothing else.  With a persistent
\* environment the construction it replays was verified, and left undecided.
VerdictIsVerified ==
  pc = "returned" =>
    /\ goal = "satisfied" <=> result.certification = "certified"
    /\ result.certification = "certified" =>
         /\ \E v \in verifications :
              /\ v.action = result.action /\ v.environment = result.environment
              /\ v.passed = "passed"
         /\ persistent =>
              /\ result.action[2] = "replay"
              /\ \E v \in verifications :
                   /\ v.action = <<Number(result.action), "candidate">>
                   /\ v.passed = "unknown" /\ v.reusable
                   /\ v.environment # result.environment

Ranked == {v \in verifications : v.passed = "failed" /\ v.rank > 0}

\* An uncertified result is returned only when the candidate budget is spent,
\* and is the first of the best admissible candidates the log knows.
UncertifiedIsBest ==
  pc = "returned" /\ result.certification = "uncertified" =>
    /\ Retain /\ loop.attempted = MaxCandidates
    /\ \E v \in Ranked :
         /\ v.action = result.action /\ v.environment = result.environment
         /\ \A w \in Ranked :
              \/ v.rank < w.rank
              \/ v.rank = w.rank /\ Number(v.action) <= Number(w.action)

\* run() ends, whatever the policy, the provider and the verifier answer.
LoopEnds == pc = "proposing" ~> pc \in {"returned", "raised", "closed"}

\* research/P2_STATE_PROTOCOL.md: the audit "rejects non-terminal actions".
ReturnedActionsTerminal ==
  pc = "returned" /\ runs = 1 => \A a \in Action : actions[a] # "running"

=============================================================================
