------------------------------ MODULE LoopProofs -----------------------------
(***************************************************************************)
(* The deployment loop with any limits, candidates, environments, verifier *)
(* answers and interruptions.  LoopInv is built part by part, each resting *)
(* on those before it: the shape of the locals (LoopShape), what is leased *)
(* (Tenancy), what the retained environment hosted (Vouching), where fresh *)
(* executions run (OwnEnvironments), what a verdict rests on               *)
(* (Certification), what the log says of the candidates (History), and     *)
(* which is the best (Ladder).  Covered relates use to reservations.       *)
(***************************************************************************)
EXTENDS CounterexampleLoop, FiniteSetTheorems, TLAPS

Results ==
  [certification : {"none", "uncertified", "certified"}, action : Action \cup {NoAction},
   environment : Environment \cup {NoEnvironment}, rank : Nat]

\* The steps in which a candidate is being driven.
Rounds == {"admitting", "leasing", "provisioning", "checking", "leased", "verifying",
           "settling", "completing", "judging", "feeding"}

\* A candidate counts once its own execution ended, and its clean replay does
\* not count again: the numbers of the policy and of the loop go together.
Counted ==
  /\ loop.attempted <= MaxCandidates
  /\ pc = "proposing" => loop.next = loop.attempted + 1
  /\ pc \in Rounds =>
       /\ round.action \in Action
       /\ loop.next = Number(round.action) + 1
       /\ loop.attempted =
            IF Replaying \/ pc \in {"judging", "feeding"}
              THEN Number(round.action) ELSE Number(round.action) - 1
  /\ pc = "admitting" => ~Replaying

\* From the provider's answer to the verdict the round has an environment.
Housed ==
  pc \in {"checking", "leased", "verifying", "settling", "completing", "judging"} =>
    round.environment \in Environment

LoopShape == LoopTypeOK /\ Counted /\ Housed

LEMMA ShapeInit == LoopInit => LoopShape
<1> SUFFICES ASSUME LoopInit PROVE LoopShape
  OBVIOUS
<1>1. loop \in LoopState /\ loop.attempted = 0 /\ pc = "closed"
  BY DEF LoopInit, Fresh, LoopState, Nothing, Delivery
<1>2. round \in RoundState
  BY DEF LoopInit, NoRound, RoundState
<1>3. result \in Results
  BY DEF LoopInit, Nothing, Delivery, Results
<1>4. Counted /\ Housed
  BY <1>1, LoopAssumption DEF Counted, Housed, Rounds
<1> QED
  BY <1>1, <1>2, <1>3, <1>4, LoopAssumption DEF LoopInit, LoopTypeOK, Control, Results, LoopShape

LEMMA ActionParts ==
  ASSUME NEW a \in Action
  PROVE  /\ Number(a) \in Candidate /\ a[2] \in Role
         /\ a = <<Number(a), a[2]>>
         /\ Number(a) \in Nat /\ Number(a) >= 1 /\ Number(a) <= MaxCandidates
BY LoopAssumption DEF Action, Number, Candidate

\* The ends of a round and of the run.
LEMMA AbandonTypes ==
  ASSUME LoopTypeOK, Counted, pc \in Rounds \ {"judging", "feeding"},
         NEW e \in Environment \cup {NoEnvironment}, Abandon(e)
  PROVE  /\ loop' \in LoopState /\ loop'.attempted <= MaxCandidates
         /\ loop'.retained = e /\ loop'.best = loop.best
         /\ actions' \in [Action -> {"absent", "running", "succeeded", "failed"}]
         /\ failures' \subseteq Action
         /\ result' = Nothing /\ pc' = "finishing"
<1>1. Number(round.action) \in Candidate /\ round.action \in Action
  BY ActionParts DEF Counted
<1>2. loop \in LoopState
  BY DEF LoopTypeOK
<1> DEFINE n == loop.attempted + IF Replaying THEN 0 ELSE 1
<1>3. n \in Nat /\ n <= MaxCandidates
  BY <1>2, ActionParts, LoopAssumption DEF Counted, LoopState
<1>4. loop' = [loop EXCEPT !.attempted = n, !.retained = e]
  BY <1>2 DEF Abandon, LoopState
<1> HIDE DEF n
<1>5. loop' \in LoopState /\ loop'.attempted = n /\ loop'.retained = e /\ loop'.best = loop.best
  BY <1>2, <1>3, <1>4 DEF LoopState
<1>6. actions' \in [Action -> {"absent", "running", "succeeded", "failed"}]
  BY DEF Abandon, LoopTypeOK
<1>7. {<<Number(round.action), "candidate">>} \subseteq Action
  BY <1>1 DEF Action, Role
<1>8. failures' \subseteq Action /\ result' = Nothing /\ pc' = "finishing"
  BY <1>7 DEF Abandon, Block, LoopTypeOK
<1> QED BY <1>3, <1>5, <1>6, <1>8

LEMMA ShapeNext ==
  ASSUME LoopShape, [LoopNext]_loopVars
  PROVE  LoopShape'
<1> USE LoopAssumption DEF LoopShape, Housed
<1>0. /\ loop \in LoopState /\ round \in RoundState
      /\ loop.attempted \in Nat /\ loop.next \in Nat /\ loop.excuses \in Nat
      /\ round.environment \in Environment \cup {NoEnvironment}
      /\ loop.retained \in Environment \cup {NoEnvironment}
      /\ loop.known \in SUBSET Environment
  BY DEF LoopTypeOK, LoopState, RoundState
<1>1. Nothing \in Results
  BY DEF Nothing, Delivery, Results
<1>2. NoRound \in RoundState
  BY DEF NoRound, RoundState
<1>3. CASE UNCHANGED loopVars
  BY <1>3 DEF loopVars, LoopTypeOK, Counted, Housed, Replaying, Number, logVars, environmentVars,
     budgetVars, runVars
<1>4. CASE Start
  <2>1. {v.environment : v \in verifications} \subseteq Environment
    BY DEF LoopTypeOK
  <2>2. loop' \in LoopState /\ loop'.attempted = 0 /\ loop'.next = 1
    BY <1>4, <2>1 DEF Start, Fresh, LoopState, Nothing, Delivery
  <2> QED
    BY <1>0, <1>4, <2>2 DEF Start, LoopTypeOK, Counted, Rounds, Control, logVars,
       environmentVars, budgetVars, runVars
<1>5. CASE PolicyStops
  BY <1>0, <1>1, <1>5 DEF PolicyStops, Block, Reserve, CanRequest, Scope, Asking, LoopTypeOK,
     Counted, Rounds, Control, environmentVars, runVars, Results
<1>6. CASE PolicyErrs
  <2>1. loop' \in LoopState /\ loop'.attempted = loop.attempted /\ loop'.next = loop.next
    BY <1>0, <1>6 DEF PolicyErrs, LoopState
  <2> QED
    BY <1>0, <1>6, <2>1 DEF PolicyErrs, Asking, Reserve, Scope, LoopTypeOK, Counted, Rounds,
       Control, logVars, environmentVars, runVars
<1>7. CASE PolicyProposes
  <2>1. loop.next \in Candidate /\ pc = "proposing" /\ loop.next = loop.attempted + 1
    BY <1>0, <1>7 DEF PolicyProposes, Asking, Counted, Candidate
  <2> DEFINE n == loop.next + 1
  <2>2. loop' = [loop EXCEPT !.excuses = 0, !.next = n] /\ n \in Nat
    BY <1>0, <1>7 DEF PolicyProposes, LoopState
  <2> HIDE DEF n
  <2>3. loop' \in LoopState /\ loop'.attempted = loop.attempted /\ loop'.next = n
    BY <1>0, <2>2 DEF LoopState
  <2>4. <<loop.next, "candidate">> \in Action
    BY <2>1 DEF Action, Role
  <2>5. round' \in RoundState /\ round'.action = <<loop.next, "candidate">>
    BY <1>2, <1>7, <2>4 DEF PolicyProposes, NoRound, RoundState
  <2>6. Number(round'.action) = loop.next /\ round'.action[2] = "candidate"
    BY <2>5 DEF Number
  <2>7. Counted'
    <3>1. pc' = "admitting"
      BY <1>7 DEF PolicyProposes
    <3>2. ~Replaying' /\ Number(round.action)' = loop.next
      BY <2>6 DEF Replaying, Number
    <3> QED BY <1>0, <2>1, <2>3, <2>4, <2>5, <3>1, <3>2 DEF Counted, Rounds, n
  <2> QED
    BY <1>0, <1>7, <2>3, <2>5, <2>7 DEF PolicyProposes, Reserve, Scope, LoopTypeOK, Control,
       logVars, environmentVars, runVars
<1>8. CASE CandidatesSpent
  <2>1. result' \in Results
    BY <1>0, <1>8 DEF CandidatesSpent, LoopState, Results
  <2> QED
    BY <1>8, <2>1 DEF CandidatesSpent, LoopTypeOK, Counted, Rounds, Control, logVars,
       environmentVars, budgetVars, runVars, Results
<1>9. CASE AdmissionStops
  BY <1>0, <1>1, <1>9 DEF AdmissionStops, Block, Reserve, Scope, LoopTypeOK, Counted, Rounds,
     Control, environmentVars, runVars, Results
<1>10. CASE Reject
  <2>1. /\ round.action \in Action /\ loop.next = Number(round.action) + 1
        /\ loop.attempted = Number(round.action) - 1
        /\ Number(round.action) \in Nat /\ Number(round.action) <= MaxCandidates
    BY <1>10, ActionParts DEF Reject, Admissible, Counted, Rounds
  <2> DEFINE n == loop.attempted + 1
  <2>2. loop' = [loop EXCEPT !.attempted = n, !.basis = "rejected"] /\ n \in Nat
    BY <1>0, <1>10 DEF Reject, LoopState
  <2> HIDE DEF n
  <2>3. loop' \in LoopState /\ loop'.attempted = n /\ loop'.next = loop.next
    BY <1>0, <2>2 DEF LoopState
  <2>4. Counted'
    BY <1>0, <1>10, <2>1, <2>3 DEF Reject, Counted, Rounds, n
  <2> QED
    BY <1>0, <1>2, <1>10, <2>1, <2>3, <2>4 DEF Reject, Admissible, Reserve, Scope, LoopTypeOK,
       Control, environmentVars, runVars
<1>11. CASE Admit
  BY <1>0, <1>11 DEF Admit, Admissible, Reserve, Scope, LoopTypeOK, Control, Counted, Rounds,
     Replaying, Number, environmentVars, runVars
<1>12. CASE Reuse \/ ReserveEnvironment
  <2>1. round' \in RoundState /\ round'.action = round.action
    BY <1>0, <1>12 DEF Reuse, ReserveEnvironment, RoundState
  <2>2. pc = "leasing" /\ pc' \in {"leased", "provisioning"} /\ loop' = loop
    BY <1>12 DEF Reuse, ReserveEnvironment, NeedsEnvironment
  <2>3. Counted'
    BY <2>1, <2>2 DEF Counted, Rounds, Replaying, Number
  <2>4. Housed'
    BY <1>0, <1>12 DEF Reuse, ReserveEnvironment, RoundState
  <2> QED
    BY <1>0, <1>12, <2>1, <2>2, <2>3, <2>4 DEF Reuse, ReserveEnvironment, Reserve, Scope, LoopTypeOK,
       Control, logVars, environmentVars, budgetVars, runVars
<1>13. CASE EnvironmentRefused \/ ProvisionFails
  <2>1. pc \in {"leasing", "provisioning"} /\ Abandon(loop.retained)
    BY <1>13 DEF EnvironmentRefused, ProvisionFails, NeedsEnvironment
  <2>2. /\ loop' \in LoopState /\ loop'.attempted <= MaxCandidates
        /\ actions' \in [Action -> {"absent", "running", "succeeded", "failed"}]
        /\ failures' \subseteq Action /\ result' = Nothing /\ pc' = "finishing"
    BY <1>0, <2>1, AbandonTypes DEF Rounds
  <2> QED
    BY <1>1, <1>13, <2>2 DEF EnvironmentRefused, ProvisionFails, LoopTypeOK, Counted, Rounds,
       Control, environmentVars, budgetVars, runVars, Results
<1>14. CASE Provision
  <2>1. PICK e \in Environment, matched \in BOOLEAN :
          /\ lease' = [lease EXCEPT ![e] = "leased"]
          /\ hosted' = [hosted EXCEPT ![e] = {}]
          /\ round' = [round EXCEPT !.environment = e, !.matched = matched]
    BY <1>14 DEF Provision, Offered
  <2>2. round' \in RoundState /\ round'.action = round.action
    BY <1>0, <2>1 DEF RoundState
  <2>3. Counted'
    BY <1>14, <2>2 DEF Provision, Counted, Rounds, Replaying, Number
  <2>4. Housed'
    BY <1>0, <2>1 DEF RoundState
  <2> QED
    BY <1>14, <2>1, <2>2, <2>3, <2>4 DEF Provision, LoopTypeOK, Control, logVars, budgetVars, runVars
<1>15. CASE AcceptReceipt
  <2>1. /\ loop' \in LoopState /\ loop'.attempted = loop.attempted /\ loop'.next = loop.next
    <3>1. round.environment \in Environment
      BY <1>15 DEF AcceptReceipt
    <3> QED BY <1>0, <1>15, <3>1 DEF AcceptReceipt, LoopState
  <2>2. Counted'
    BY <1>15, <2>1 DEF AcceptReceipt, Counted, Rounds, Replaying, Number
  <2> QED
    BY <1>15, <2>1, <2>2 DEF AcceptReceipt, LoopTypeOK, Control, logVars, environmentVars,
       budgetVars, runVars
<1>16. CASE RefuseReceipt \/ CommandRefused
  <2>1. PICK e \in Environment \cup {NoEnvironment} :
          pc \in {"checking", "leased"} /\ Abandon(e)
    BY <1>0, <1>16 DEF RefuseReceipt, CommandRefused, RetainedAfter
  <2>2. /\ loop' \in LoopState /\ loop'.attempted <= MaxCandidates
        /\ actions' \in [Action -> {"absent", "running", "succeeded", "failed"}]
        /\ failures' \subseteq Action /\ result' = Nothing /\ pc' = "finishing"
    BY <1>0, <2>1, AbandonTypes DEF Rounds
  <2>3. lease' \in [Environment -> {"absent", "leased", "released", "leaked", "orphaned"}]
    BY <1>16 DEF RefuseReceipt, CommandRefused, Release, LoopTypeOK
  <2> QED
    BY <1>1, <1>16, <2>2, <2>3 DEF RefuseReceipt, CommandRefused, LoopTypeOK, Counted, Rounds,
       Control, budgetVars, runVars, Results
<1>17. CASE ReserveCommand
  BY <1>0, <1>17 DEF ReserveCommand, Reserve, Scope, LoopTypeOK, Control, Counted, Rounds,
     Replaying, Number, logVars, environmentVars, runVars
<1>18. CASE Verify
  <2>1. /\ round' \in RoundState /\ round'.action = round.action
        /\ round'.environment = round.environment
    BY <1>0, <1>18 DEF Verify, RoundState
  <2>2. Counted'
    BY <1>18, <2>1 DEF Verify, Counted, Rounds, Replaying, Number
  <2>3. hosted' \in [Environment -> SUBSET Action]
    BY <1>18 DEF Verify, Counted, Rounds, LoopTypeOK
  <2> QED
    BY <1>18, <2>1, <2>2, <2>3 DEF Verify, LoopTypeOK, Control, logVars, budgetVars, runVars
<1>19. CASE SettleFresh
  <2>1. /\ round' \in RoundState /\ round'.action = round.action
        /\ round'.environment = round.environment
    BY <1>0, <1>19 DEF SettleFresh, RoundState
  <2>2. Counted'
    BY <1>19, <2>1 DEF SettleFresh, Counted, Rounds, Replaying, Number
  <2> QED
    BY <1>19, <2>1, <2>2 DEF SettleFresh, Release, LoopTypeOK, Control, logVars, budgetVars, runVars
<1>20. CASE KeepConstruction
  BY <1>20 DEF KeepConstruction, LoopTypeOK, Control, Counted, Rounds, Replaying, Number,
     logVars, environmentVars, budgetVars, runVars
<1>21. CASE DropConstruction
  <2>1. /\ loop' \in LoopState /\ loop'.attempted = loop.attempted /\ loop'.next = loop.next
    BY <1>0, <1>21 DEF DropConstruction, LoopState
  <2>2. Counted'
    BY <1>21, <2>1 DEF DropConstruction, Counted, Rounds, Replaying, Number
  <2> QED
    BY <1>21, <2>1, <2>2 DEF DropConstruction, Release, LoopTypeOK, Control, logVars, budgetVars,
       runVars
<1>22. CASE DropFails
  <2>1. lease' \in [Environment -> {"absent", "leased", "released", "leaked", "orphaned"}]
    BY <1>22 DEF DropFails, Release, LoopTypeOK
  <2>2. round.action \in Action
    BY <1>22 DEF DropFails, Counted, Rounds
  <2>3. /\ loop' \in LoopState /\ loop'.attempted <= MaxCandidates
        /\ actions' \in [Action -> {"absent", "running", "succeeded", "failed"}]
        /\ failures' \subseteq Action /\ result' = Nothing /\ pc' = "finishing"
    <3>1. CASE round.valid
      <4>1. /\ loop' = [loop EXCEPT !.retained = NoEnvironment]
            /\ Block({round.action})
            /\ actions' = actions
        BY <1>22, <3>1 DEF DropFails
      <4>2. loop' \in LoopState /\ loop'.attempted = loop.attempted
        BY <1>0, <4>1 DEF LoopState
      <4> QED BY <2>2, <4>1, <4>2 DEF Block, LoopTypeOK, Counted
    <3>2. CASE ~round.valid
      <4>1. Abandon(NoEnvironment) /\ pc \in Rounds \ {"judging", "feeding"}
        BY <1>22, <3>2 DEF DropFails, Rounds
      <4> QED BY <4>1, AbandonTypes
    <3> QED BY <3>1, <3>2
  <2> QED
    BY <1>1, <1>22, <2>1, <2>3 DEF DropFails, LoopTypeOK, Counted, Rounds, Control, budgetVars,
       runVars, Results
<1>23. CASE VerifierFailed
  <2>1. /\ loop' \in LoopState /\ loop'.attempted <= MaxCandidates
        /\ actions' \in [Action -> {"absent", "running", "succeeded", "failed"}]
        /\ failures' \subseteq Action /\ result' = Nothing /\ pc' = "finishing"
    BY <1>0, <1>23, AbandonTypes DEF VerifierFailed, Rounds
  <2> QED
    BY <1>1, <1>23, <2>1 DEF VerifierFailed, LoopTypeOK, Counted, Rounds, Control,
       environmentVars, budgetVars, runVars, Results
<1>24. CASE Complete
  <2>1. /\ round.action \in Action /\ loop.next = Number(round.action) + 1
        /\ loop.attempted = IF Replaying THEN Number(round.action) ELSE Number(round.action) - 1
        /\ Number(round.action) \in Nat /\ Number(round.action) <= MaxCandidates
    BY <1>24, ActionParts DEF Complete, Counted, Rounds
  <2> DEFINE n == loop.attempted + IF Replaying THEN 0 ELSE 1
  <2>2. loop' = [loop EXCEPT !.attempted = n] /\ n \in Nat /\ n = Number(round.action)
    BY <1>0, <1>24, <2>1 DEF Complete, LoopState
  <2> HIDE DEF n
  <2>3. loop' \in LoopState /\ loop'.attempted = n /\ loop'.next = loop.next
    BY <1>0, <2>2 DEF LoopState
  <2>4. Counted'
    BY <1>24, <2>1, <2>2, <2>3 DEF Complete, Counted, Rounds, Replaying, Number
  <2> QED
    BY <1>0, <1>24, <2>1, <2>3, <2>4 DEF Complete, LoopTypeOK, Control, environmentVars,
       budgetVars, runVars
<1>25. \A o \in Outcome, passed \in {"passed", "failed", "unknown"} :
         pc = "judging" => Verdict(passed, o) \in [action : Action, environment : Environment,
           passed : {"passed", "failed", "unknown"}, rank : Nat, reusable : BOOLEAN]
  BY DEF Verdict, Counted, Rounds, Reusable, Verification
<1>26. CASE StartReplay
  <2>1. PICK o \in Outcome : pc = "judging" /\ Record("unknown")
    BY <1>26 DEF StartReplay, Judging
  <2>2. verifications' \subseteq [action : Action, environment : Environment,
           passed : {"passed", "failed", "unknown"}, rank : Nat, reusable : BOOLEAN]
    BY <1>25, <1>26 DEF StartReplay, Judging, Record, LoopTypeOK
  <2> DEFINE replay == <<Number(round.action), "replay">>
  <2>3. replay \in Action /\ Number(replay) = Number(round.action) /\ replay[2] = "replay"
    BY <2>1, ActionParts DEF Counted, Rounds, Action, Role, Number
  <2>4. /\ round' \in RoundState /\ round'.action = replay
        /\ actions' = [actions EXCEPT ![replay] = "running"]
        /\ pc' = "leasing" /\ loop' = loop
    BY <1>2, <1>26, <2>3 DEF StartReplay, NoRound, RoundState
  <2> HIDE DEF replay
  <2>5. Replaying' /\ Number(round.action)' = Number(round.action)
    BY <2>3, <2>4 DEF Replaying, Number
  <2>6. Counted'
    BY <2>1, <2>3, <2>4, <2>5 DEF Counted, Rounds
  <2> QED
    BY <1>26, <2>2, <2>3, <2>4, <2>6 DEF StartReplay, LoopTypeOK, Control, environmentVars,
       budgetVars, runVars
<1>27. CASE JudgeStops
  <2>1. verifications' \subseteq [action : Action, environment : Environment,
           passed : {"passed", "failed", "unknown"}, rank : Nat, reusable : BOOLEAN]
    BY <1>25, <1>27 DEF JudgeStops, Judging, Record, LoopTypeOK
  <2>2. failures' \subseteq Action /\ result' = Nothing /\ pc' = "finishing"
    BY <1>27 DEF JudgeStops, Judging, Block, Counted, Rounds, LoopTypeOK
  <2> QED
    BY <1>1, <1>27, <2>1, <2>2 DEF JudgeStops, LoopTypeOK, Counted, Rounds, Control,
       environmentVars, budgetVars, runVars, Results
<1>28. CASE Accept
  <2>1. verifications' \subseteq [action : Action, environment : Environment,
           passed : {"passed", "failed", "unknown"}, rank : Nat, reusable : BOOLEAN]
    BY <1>25, <1>28 DEF Accept, Judging, Record, LoopTypeOK
  <2>2. result' \in Results /\ pc' = "finishing"
    BY <1>28 DEF Accept, Judging, Delivery, Counted, Rounds, Results
  <2> QED
    BY <1>28, <2>1, <2>2 DEF Accept, LoopTypeOK, Counted, Rounds, Control,
       environmentVars, budgetVars, runVars, Results
<1>29. CASE JudgeFailed
  <2>1. PICK o \in Outcome :
          /\ pc = "judging" /\ Record("failed") /\ o = round.outcome
          /\ loop' = IF Better(o)
               THEN [loop EXCEPT !.best = Delivery("uncertified", round.action,
                                                   round.environment, o.rank)]
               ELSE loop
    BY <1>29 DEF JudgeFailed, Judging
  <2>2. verifications' \subseteq [action : Action, environment : Environment,
           passed : {"passed", "failed", "unknown"}, rank : Nat, reusable : BOOLEAN]
    BY <1>25, <2>1 DEF Record, LoopTypeOK
  <2>3. /\ round.action \in Action /\ round.environment \in Environment /\ o.rank \in Nat
    BY <2>1 DEF Counted, Rounds, Verification
  <2>4. loop' \in LoopState /\ loop'.attempted = loop.attempted /\ loop'.next = loop.next
    BY <1>0, <2>1, <2>3 DEF LoopState, Delivery
  <2>5. Counted'
    BY <1>29, <2>1, <2>4 DEF JudgeFailed, Counted, Rounds, Replaying, Number
  <2> QED
    BY <1>29, <2>1, <2>2, <2>3, <2>4, <2>5 DEF JudgeFailed, LoopTypeOK, Control,
       environmentVars, budgetVars, runVars
<1>30. CASE Feed
  <2>1. /\ loop' \in LoopState /\ loop'.attempted = loop.attempted /\ loop'.next = loop.next
    BY <1>0, <1>30 DEF Feed, Continue, LoopState
  <2>2. Counted'
    BY <1>0, <1>30, <2>1, ActionParts DEF Feed, Continue, Counted, Rounds
  <2> QED
    BY <1>2, <1>30, <2>1, <2>2 DEF Feed, Continue, LoopTypeOK, Control, logVars,
       environmentVars, budgetVars, runVars
<1>31. CASE FeedStops
  BY <1>1, <1>31 DEF FeedStops, Block, LoopTypeOK, Counted, Rounds, Control,
     environmentVars, budgetVars, runVars, Results
<1>32. CASE ReleaseRetained
  <2>1. /\ loop' \in LoopState /\ loop'.attempted = loop.attempted
    BY <1>0, <1>32 DEF ReleaseRetained, LoopState
  <2> QED
    BY <1>32, <2>1 DEF ReleaseRetained, Release, LoopTypeOK, Counted, Rounds, Control, logVars,
       budgetVars, runVars
<1>33. CASE Report
  BY <1>2, <1>33 DEF Report, LoopTypeOK, Counted, Rounds, Control, environmentVars, budgetVars,
     runVars
<1>34. CASE Crash
  <2>1. loop' \in LoopState /\ loop'.attempted = 0 /\ pc' = "closed"
    BY <1>34 DEF Crash, Fresh, LoopState, Nothing, Delivery
  <2> QED
    BY <1>1, <1>2, <1>34, <2>1 DEF Crash, LoopTypeOK, Counted, Rounds, Control, logVars,
       budgetVars, runVars, Results
<1>35. CASE TimePasses
  BY <1>35 DEF TimePasses, LoopTypeOK, Counted, Rounds, Control, Replaying, Number, logVars,
     environmentVars, runVars
<1>36. CASE Escape
  <2>1. loop' \in LoopState /\ loop'.attempted = 0 /\ pc' = "raised"
    BY <1>36 DEF Escape, Fresh, LoopState, Nothing, Delivery
  <2> QED
    BY <1>1, <1>2, <1>36, <2>1 DEF Escape, LoopTypeOK, Counted, Rounds, Control, logVars,
       environmentVars, budgetVars, runVars, Results
<1> QED
  BY <1>3, <1>4, <1>5, <1>6, <1>7, <1>8, <1>9, <1>10, <1>11, <1>12, <1>13, <1>14, <1>15, <1>16,
     <1>17, <1>18, <1>19, <1>20, <1>21, <1>22, <1>23, <1>24, <1>26, <1>27, <1>28, <1>29, <1>30,
     <1>31, <1>32, <1>33, <1>34, <1>35, <1>36 DEF LoopNext, LoopStep

THEOREM LoopTypeCorrect == LoopSpec => []LoopTypeOK
<1>1. LoopShape => LoopTypeOK
  BY DEF LoopShape
<1> QED BY <1>1, ShapeInit, ShapeNext, PTL DEF LoopSpec

-----------------------------------------------------------------------------
(* Environments                                                            *)

\* The round has an environment under lease.
Using == pc \in {"checking", "leased", "verifying", "settling"}

\* What run() has leased is the retained environment and the round's.  A construction
\* runs in the retained one, a clean replay never does.
Tenancy ==
  /\ pc # "raised" => \A e \in Environment :
       lease[e] = "leased" <=> e = loop.retained \/ (Using /\ e = round.environment)
  /\ loop.retained # NoEnvironment =>
       persistent /\ pc \notin {"closed", "reporting", "returned", "raised"}
  /\ pc \in {"provisioning", "checking"} /\ Constructing => loop.retained = NoEnvironment
  /\ Using /\ ~Constructing => round.environment # loop.retained
  /\ pc \in {"leased", "verifying", "settling"} /\ Constructing =>
       round.environment = loop.retained

\* What the steps that count an attempt leave in the loop's other locals.
LEMMA AbandonKeeps ==
  ASSUME LoopShape, NEW e \in Environment \cup {NoEnvironment}, Abandon(e)
  PROVE  /\ loop'.retained = e /\ loop'.known = loop.known /\ loop'.next = loop.next
         /\ loop'.best = loop.best /\ pc' = "finishing" /\ result' = Nothing
BY DEF Abandon, Block, LoopShape, LoopTypeOK, LoopState

LEMMA CountKeeps ==
  ASSUME LoopShape, Reject \/ Complete
  PROVE  /\ loop'.retained = loop.retained /\ loop'.known = loop.known /\ loop'.next = loop.next
         /\ loop'.best = loop.best
<1>1. loop \in LoopState
  BY DEF LoopShape, LoopTypeOK
<1>2. CASE Reject
  BY <1>1, <1>2 DEF Reject, LoopState
<1>3. CASE Complete
  BY <1>1, <1>3 DEF Complete, LoopState
<1> QED BY <1>2, <1>3

LEMMA TenancyInit == LoopInit => Tenancy
BY DEF LoopInit, Tenancy, Using, Fresh, Environment, NoEnvironment

LEMMA TenancyNext ==
  ASSUME LoopShape, Tenancy, [LoopNext]_loopVars
  PROVE  Tenancy'
<1>0. /\ loop \in LoopState /\ round \in RoundState
      /\ Using => round.environment \in Environment
      /\ lease \in [Environment -> {"absent", "leased", "released", "leaked", "orphaned"}]
      /\ NoEnvironment \notin Environment
  BY DEF LoopShape, LoopTypeOK, Housed, Using, Environment, NoEnvironment
<1> USE DEF Tenancy, Using
<1>1. CASE UNCHANGED loopVars
  BY <1>1 DEF loopVars, Constructing, Replaying, environmentVars, runVars
<1>2. CASE Start
  BY <1>2 DEF Start, Fresh, environmentVars
<1>3. CASE PolicyStops \/ PolicyErrs \/ PolicyProposes \/ CandidatesSpent
  <2>1. /\ loop'.retained = loop.retained /\ UNCHANGED <<lease, persistent>>
        /\ pc = "proposing" /\ pc' \in {"proposing", "admitting", "finishing"}
    BY <1>0, <1>3 DEF PolicyStops, PolicyErrs, PolicyProposes, CandidatesSpent, Asking, Block,
       environmentVars, runVars, LoopState
  <2> QED BY <1>0, <2>1
<1>4. CASE AdmissionStops \/ Reject \/ Admit
  <2>1. loop'.retained = loop.retained
    BY <1>0, <1>4, CountKeeps DEF AdmissionStops, Admit
  <2> QED
    BY <1>0, <1>4, <2>1 DEF AdmissionStops, Reject, Admit, Admissible, Block, environmentVars,
       runVars
<1>5. CASE Reuse
  BY <1>0, <1>5 DEF Reuse, Constructing, Replaying, environmentVars, runVars, RoundState
<1>6. CASE ReserveEnvironment
  BY <1>0, <1>6 DEF ReserveEnvironment, NeedsEnvironment, Constructing, Replaying,
     environmentVars, runVars
<1>7. CASE EnvironmentRefused \/ ProvisionFails
  <2>1. /\ loop'.retained = loop.retained /\ UNCHANGED <<lease, persistent>>
        /\ pc \in {"leasing", "provisioning"} /\ pc' = "finishing"
    BY <1>0, <1>7, AbandonKeeps DEF EnvironmentRefused, ProvisionFails, NeedsEnvironment,
       environmentVars, runVars, LoopState
  <2> QED BY <1>0, <2>1
<1>8. CASE Provision
  <2>1. PICK e \in Environment :
          /\ lease[e] # "leased"
          /\ lease' = [lease EXCEPT ![e] = "leased"]
          /\ round'.environment = e /\ round'.action = round.action
    BY <1>0, <1>8 DEF Provision, Offered, RoundState
  <2> QED
    BY <1>0, <1>8, <2>1 DEF Provision, Constructing, Replaying, runVars
<1>9. CASE AcceptReceipt
  <2>1. loop'.retained = IF Constructing THEN round.environment ELSE loop.retained
    BY <1>0, <1>9 DEF AcceptReceipt, LoopState
  <2> QED BY <1>0, <1>9, <2>1 DEF AcceptReceipt, Constructing, Replaying, environmentVars, runVars
<1>10. CASE RefuseReceipt
  BY <1>0, <1>10 DEF RefuseReceipt, Release, Abandon, Block, Constructing, Replaying, runVars, LoopState
<1>11. CASE ReserveCommand
  BY <1>0, <1>11 DEF ReserveCommand, Constructing, Replaying, environmentVars, runVars
<1>12. CASE CommandRefused
  BY <1>0, <1>12 DEF CommandRefused, RetainedAfter, Release, Abandon, Block, Constructing, Replaying,
     runVars, LoopState
<1>13. CASE Verify
  <2>1. round'.environment = round.environment /\ round'.action = round.action
    BY <1>0, <1>13 DEF Verify, RoundState
  <2> QED BY <1>0, <1>13, <2>1 DEF Verify, Constructing, Replaying, runVars
<1>14. CASE SettleFresh
  <2>1. round'.environment = round.environment /\ round'.action = round.action
    BY <1>0, <1>14 DEF SettleFresh, RoundState
  <2> QED BY <1>0, <1>14, <2>1 DEF SettleFresh, Release, Constructing, Replaying, runVars
<1>15. CASE KeepConstruction
  BY <1>0, <1>15 DEF KeepConstruction, Constructing, Replaying, environmentVars, runVars
<1>16. CASE DropConstruction
  BY <1>0, <1>16 DEF DropConstruction, Release, Constructing, Replaying, runVars, LoopState
<1>17. CASE DropFails
  <2>1. loop'.retained = NoEnvironment /\ pc' = "finishing"
    BY <1>0, <1>17, AbandonKeeps DEF DropFails, Block, LoopState
  <2> QED
    BY <1>0, <1>17, <2>1 DEF DropFails, Release, Constructing, Replaying, runVars
<1>18. CASE VerifierFailed \/ Complete
  <2>1. loop'.retained = loop.retained /\ pc' \in {"finishing", "judging"}
    BY <1>0, <1>18, AbandonKeeps, CountKeeps DEF VerifierFailed, Complete, LoopState
  <2> QED
    BY <1>0, <1>18, <2>1 DEF VerifierFailed, Complete, environmentVars, runVars
<1>19. CASE StartReplay \/ JudgeStops \/ Accept
  BY <1>0, <1>19 DEF StartReplay, JudgeStops, Accept, Judging, Block, environmentVars, runVars
<1>20. CASE JudgeFailed
  <2>1. loop'.retained = loop.retained
    BY <1>0, <1>20 DEF JudgeFailed, LoopState
  <2> QED BY <1>0, <1>20, <2>1 DEF JudgeFailed, Judging, environmentVars, runVars
<1>21. CASE Feed \/ FeedStops
  BY <1>0, <1>21 DEF Feed, FeedStops, Continue, Block, environmentVars, runVars, LoopState
<1>22. CASE ReleaseRetained
  BY <1>0, <1>22 DEF ReleaseRetained, Release, runVars, LoopState
<1>23. CASE Report
  BY <1>0, <1>23 DEF Report, environmentVars, runVars
<1>24. CASE Crash
  BY <1>0, <1>24 DEF Crash, Fresh, runVars
<1>25. CASE TimePasses
  BY <1>25 DEF TimePasses, Constructing, Replaying, environmentVars, runVars
<1>26. CASE Escape
  BY <1>0, <1>26 DEF Escape, Fresh, runVars
<1> QED
  BY <1>1, <1>2, <1>3, <1>4, <1>5, <1>6, <1>7, <1>8, <1>9, <1>10, <1>11, <1>12, <1>13, <1>14,
     <1>15, <1>16, <1>17, <1>18, <1>19, <1>20, <1>21, <1>22, <1>23, <1>24, <1>25, <1>26
     DEF LoopNext, LoopStep

-----------------------------------------------------------------------------
(* What ran in the retained environment was found reusable                 *)

Vouched(a, e) ==
  \E v \in verifications : v.action = a /\ v.environment = e /\ v.reusable

\* The construction that was executed and whose verdict is not recorded yet.
Unrecorded ==
  IF pc \in {"settling", "completing", "judging"} /\ Constructing THEN {round.action} ELSE {}

Vouching ==
  /\ loop.retained # NoEnvironment /\ pc # "finishing" =>
       \A a \in hosted[loop.retained] \ Unrecorded : Vouched(a, loop.retained)
  /\ pc \in {"checking", "leased", "verifying"} /\ (Constructing => pc = "checking") =>
       hosted[round.environment] = {}
  /\ pc \in {"completing", "judging"} /\ Constructing /\ loop.retained # NoEnvironment =>
       round.valid /\ Reusable(round.outcome) /\ round.environment = loop.retained

LEMMA VerdictIs ==
  ASSUME NEW passed, NEW o
  PROVE  /\ Verdict(passed, o).action = round.action
         /\ Verdict(passed, o).environment = round.environment
         /\ Verdict(passed, o).passed = passed /\ Verdict(passed, o).rank = o.rank
         /\ Reusable(o) => Verdict(passed, o).reusable
BY DEF Verdict

LEMMA VouchingInit == LoopInit => Vouching
BY DEF LoopInit, Vouching, Fresh

LEMMA VouchingNext ==
  ASSUME LoopShape, Tenancy, Vouching, [LoopNext]_loopVars
  PROVE  Vouching'
<1>0. /\ loop \in LoopState /\ round \in RoundState
      /\ hosted \in [Environment -> SUBSET Action]
      /\ Using => round.environment \in Environment
      /\ loop.retained \in Environment \cup {NoEnvironment}
      /\ NoEnvironment \notin Environment
  BY DEF LoopShape, LoopTypeOK, Housed, Using, Environment, NoEnvironment, LoopState
<1> USE DEF Vouching, Vouched, Unrecorded
<1>1. CASE UNCHANGED loopVars
  BY <1>1 DEF loopVars, Constructing, Replaying, Reusable, logVars, environmentVars, runVars
<1>2. CASE Start
  BY <1>2 DEF Start, Fresh
<1>3. CASE PolicyStops \/ PolicyErrs \/ PolicyProposes \/ CandidatesSpent
  <2>1. /\ loop'.retained = loop.retained /\ UNCHANGED <<hosted, verifications, persistent>>
        /\ pc = "proposing" /\ pc' \in {"proposing", "admitting", "finishing"}
    BY <1>0, <1>3 DEF PolicyStops, PolicyErrs, PolicyProposes, CandidatesSpent, Asking, Block,
       environmentVars, runVars, logVars, LoopState
  <2> QED BY <1>0, <2>1
<1>4. CASE AdmissionStops \/ Reject \/ Admit
  <2>1. loop'.retained = loop.retained
    BY <1>0, <1>4, CountKeeps DEF AdmissionStops, Admit
  <2> QED
    BY <1>0, <1>4, <2>1 DEF AdmissionStops, Reject, Admit, Admissible, Block, environmentVars, runVars
<1>5. CASE Reuse
  <2>1. round'.environment = loop.retained /\ round'.action = round.action
    BY <1>0, <1>5 DEF Reuse, RoundState
  <2> QED
    BY <1>0, <1>5, <2>1 DEF Reuse, Constructing, Replaying, environmentVars, logVars, runVars
<1>6. CASE ReserveEnvironment
  BY <1>0, <1>6 DEF ReserveEnvironment, NeedsEnvironment, environmentVars, logVars, runVars
<1>7. CASE EnvironmentRefused \/ ProvisionFails \/ RefuseReceipt \/ CommandRefused \/ VerifierFailed
  <2>1. pc' = "finishing"
    BY <1>7 DEF EnvironmentRefused, ProvisionFails, RefuseReceipt, CommandRefused, VerifierFailed,
       Abandon, Block
  <2> QED BY <2>1
<1>8. CASE Provision
  <2>1. PICK e \in Environment :
          /\ lease[e] # "leased"
          /\ hosted' = [hosted EXCEPT ![e] = {}]
          /\ round'.environment = e /\ round'.action = round.action
    BY <1>0, <1>8 DEF Provision, Offered, RoundState
  <2>2. e # loop.retained
    BY <1>0, <2>1 DEF Tenancy
  <2> QED
    BY <1>0, <1>8, <2>1, <2>2 DEF Provision, logVars, runVars
<1>9. CASE AcceptReceipt
  <2>1. loop'.retained = IF Constructing THEN round.environment ELSE loop.retained
    BY <1>0, <1>9 DEF AcceptReceipt, LoopState
  <2>2. /\ hosted[round.environment] = {}
        /\ pc' = "leased"
        /\ UNCHANGED <<hosted, verifications, round, persistent>>
    BY <1>9 DEF AcceptReceipt, environmentVars, logVars, runVars
  <2> QED BY <1>0, <1>9, <2>1, <2>2 DEF AcceptReceipt, Constructing, Replaying
<1>10. CASE ReserveCommand
  BY <1>0, <1>10 DEF ReserveCommand, Constructing, Replaying, environmentVars, logVars, runVars
<1>11. CASE Verify
  <2>1. /\ round'.environment = round.environment /\ round'.action = round.action
        /\ hosted' = [hosted EXCEPT ![round.environment] = @ \cup {round.action}]
        /\ pc = "verifying" /\ pc' = "settling"
        /\ UNCHANGED <<loop, verifications, persistent>>
    BY <1>0, <1>11 DEF Verify, RoundState, logVars, runVars
  <2>2. Constructing' = Constructing
    BY <2>1 DEF Constructing, Replaying
  <2>3. CASE Constructing
    BY <1>0, <2>1, <2>2, <2>3 DEF Using
  <2>4. CASE ~Constructing
    BY <1>0, <2>1, <2>2, <2>4 DEF Using, Tenancy
  <2> QED BY <2>3, <2>4
<1>12. CASE SettleFresh
  <2>1. round'.environment = round.environment /\ round'.action = round.action
    BY <1>0, <1>12 DEF SettleFresh, RoundState
  <2> QED BY <1>0, <1>12, <2>1 DEF SettleFresh, Constructing, Replaying, logVars, runVars
<1>13. CASE KeepConstruction
  BY <1>0, <1>13 DEF KeepConstruction, Keep, Constructing, Replaying, Tenancy, Reusable, Using,
     environmentVars, logVars, runVars
<1>14. CASE DropConstruction
  BY <1>0, <1>14 DEF DropConstruction, LoopState
<1>15. CASE DropFails
  <2>1. pc' = "finishing"
    BY <1>15 DEF DropFails, Abandon, Block
  <2> QED BY <2>1
<1>16. CASE Complete
  <2>1. loop'.retained = loop.retained /\ pc = "completing" /\ pc' = "judging"
        /\ UNCHANGED <<round, hosted, verifications, persistent>>
    BY <1>0, <1>16, CountKeeps DEF Complete, environmentVars, runVars
  <2> QED BY <1>0, <2>1 DEF Constructing, Replaying, Reusable
<1>17. CASE StartReplay
  <2>1. /\ verifications' = verifications \cup {Verdict("unknown", round.outcome)}
        /\ pc = "judging" /\ pc' = "leasing" /\ Constructing
        /\ UNCHANGED <<loop, hosted>>
    BY <1>17 DEF StartReplay, Judging, Record, ToReplay, environmentVars
  <2>2. loop.retained # NoEnvironment =>
          \E v \in verifications' :
            v.action = round.action /\ v.environment = loop.retained /\ v.reusable
    BY <2>1, VerdictIs
  <2> QED BY <1>0, <2>1, <2>2
<1>18. CASE JudgeStops \/ Accept
  BY <1>18 DEF JudgeStops, Accept, Block
<1>19. CASE JudgeFailed
  <2>1. /\ verifications' = verifications \cup {Verdict("failed", round.outcome)}
        /\ pc = "judging" /\ pc' = "feeding" /\ loop'.retained = loop.retained
        /\ UNCHANGED <<hosted, persistent>>
    BY <1>0, <1>19 DEF JudgeFailed, Judging, Record, environmentVars, runVars, LoopState
  <2>2. loop.retained # NoEnvironment /\ Constructing =>
          \E v \in verifications' :
            v.action = round.action /\ v.environment = loop.retained /\ v.reusable
    BY <2>1, VerdictIs
  <2> QED BY <1>0, <2>1, <2>2
<1>20. CASE Feed \/ FeedStops
  BY <1>0, <1>20 DEF Feed, FeedStops, Continue, Block, environmentVars, logVars, runVars, LoopState
<1>21. CASE ReleaseRetained \/ Report
  BY <1>0, <1>21 DEF ReleaseRetained, Report, Tenancy, LoopState
<1>22. CASE Escape \/ Crash
  BY <1>0, <1>22 DEF Escape, Crash, Fresh
<1>23. CASE TimePasses
  BY <1>23 DEF TimePasses, Constructing, Replaying, Reusable, logVars, environmentVars, runVars
<1> QED
  BY <1>1, <1>2, <1>3, <1>4, <1>5, <1>6, <1>7, <1>8, <1>9, <1>10, <1>11, <1>12, <1>13, <1>14,
     <1>15, <1>16, <1>17, <1>18, <1>19, <1>20, <1>21, <1>22, <1>23
     DEF LoopNext, LoopStep

-----------------------------------------------------------------------------
(* Every fresh execution is verified in an environment of its own          *)

\* The round has an environment whose receipt was accepted.
Accepted == pc \in {"leased", "verifying", "settling", "completing", "judging"}

OnlyConstructions(e) ==
  \A v \in verifications : v.environment = e => v.action[2] = "candidate"

\* The loop knows every environment of the log and its own, and takes none of
\* them for a fresh execution.
OwnEnvironments ==
  /\ VerifiedInOwnEnvironment
  /\ loop.retained # NoEnvironment =>
       loop.retained \in loop.known /\ OnlyConstructions(loop.retained)
  /\ pc \in Rounds \cup {"proposing"} => \A v \in verifications : v.environment \in loop.known
  /\ Accepted \/ pc = "feeding" => round.environment \in loop.known
  /\ Accepted /\ Constructing => OnlyConstructions(round.environment)
  /\ Accepted /\ ~Constructing =>
       /\ round.environment # loop.retained
       /\ \A v \in verifications : v.environment # round.environment

LEMMA OwnInit == LoopInit => OwnEnvironments
BY DEF LoopInit, OwnEnvironments, VerifiedInOwnEnvironment, Fresh, Rounds, Accepted

\* A verdict is recorded, and the round is over.
LEMMA OwnRecord ==
  ASSUME LoopShape, Tenancy, OwnEnvironments, pc = "judging",
         NEW passed, Record(passed), persistent' = persistent,
         loop'.retained = loop.retained, loop'.known = loop.known,
         ~Accepted', round'.environment = round.environment \/ pc' # "feeding"
  PROVE  OwnEnvironments'
<1> DEFINE w == Verdict(passed, round.outcome)
<1>1. /\ verifications' = verifications \cup {w}
      /\ w.action = round.action /\ w.environment = round.environment
  BY VerdictIs DEF Record
<1>2. round.action \in Action /\ (~Replaying => round.action[2] = "candidate")
  BY ActionParts DEF LoopShape, Counted, Rounds, Replaying, Role
<1>3. Constructing => persistent /\ w.action[2] = "candidate"
  BY <1>1, <1>2 DEF Constructing
<1> HIDE DEF w
<1>4. VerifiedInOwnEnvironment'
  BY <1>1, <1>3 DEF OwnEnvironments, VerifiedInOwnEnvironment, Accepted, OnlyConstructions
<1>5. loop.retained # NoEnvironment => OnlyConstructions(loop.retained)'
  BY <1>1, <1>3 DEF OwnEnvironments, Accepted, OnlyConstructions
<1>6. \A v \in verifications' : v.environment \in loop.known
  BY <1>1 DEF OwnEnvironments, Accepted, Rounds
<1> QED BY <1>1, <1>4, <1>5, <1>6 DEF OwnEnvironments, Accepted

LEMMA OwnNext ==
  ASSUME LoopShape, Tenancy, OwnEnvironments, [LoopNext]_loopVars
  PROVE  OwnEnvironments'
<1>0. /\ loop \in LoopState /\ round \in RoundState
      /\ loop.retained \in Environment \cup {NoEnvironment}
      /\ NoEnvironment \notin Environment
  BY DEF LoopShape, LoopTypeOK, Environment, NoEnvironment, LoopState
<1>a. ASSUME UNCHANGED <<verifications, persistent>>, loop'.known = loop.known,
             loop'.retained \in {loop.retained, NoEnvironment},
             pc' \in Rounds \cup {"proposing"} => pc \in Rounds \cup {"proposing"},
             ~Accepted', pc' # "feeding"
      PROVE  OwnEnvironments'
  BY <1>a DEF OwnEnvironments, VerifiedInOwnEnvironment, OnlyConstructions
<1>b. ASSUME UNCHANGED <<verifications, persistent>>, loop'.known = loop.known,
             loop'.retained \in {loop.retained, NoEnvironment}, Accepted, Accepted',
             round'.environment = round.environment, round'.action = round.action
      PROVE  OwnEnvironments'
  <2>1. Constructing' = Constructing
    BY <1>b DEF Constructing, Replaying
  <2> HIDE DEF Constructing
  <2>2. Accepted => pc \in Rounds /\ (Accepted => round.environment \in Environment)
    BY DEF Accepted, Rounds, LoopShape, Housed
  <2> QED
    BY <1>b, <1>0, <2>1, <2>2 DEF OwnEnvironments, VerifiedInOwnEnvironment, OnlyConstructions
<1>1. CASE UNCHANGED loopVars
  BY <1>1 DEF loopVars, OwnEnvironments, VerifiedInOwnEnvironment, OnlyConstructions, Accepted,
     Constructing, Replaying, logVars, runVars
<1>2. CASE Start
  BY <1>2 DEF Start, Fresh, OwnEnvironments, VerifiedInOwnEnvironment, OnlyConstructions,
     Accepted, Rounds
<1>3. CASE PolicyStops \/ PolicyErrs \/ PolicyProposes \/ CandidatesSpent \/ AdmissionStops
             \/ Admit \/ ReserveEnvironment
  BY <1>0, <1>3, <1>a DEF PolicyStops, PolicyErrs, PolicyProposes, CandidatesSpent, Asking, Block,
     AdmissionStops, Admit, Admissible, ReserveEnvironment, NeedsEnvironment, runVars, logVars, LoopState,
     Accepted, Rounds
<1>4. CASE Reject
  BY <1>4, <1>a, CountKeeps DEF Reject, Admissible, runVars, Accepted, Rounds
<1>5. CASE Reuse
  <2>1. round'.environment = loop.retained /\ round'.action = round.action
    BY <1>0, <1>5 DEF Reuse, RoundState
  <2>2. Constructing' /\ pc' = "leased" /\ UNCHANGED <<verifications, loop, persistent>>
        /\ pc = "leasing" /\ loop.retained # NoEnvironment
    BY <1>5, <2>1 DEF Reuse, Constructing, Replaying, logVars, runVars
  <2> QED
    BY <2>1, <2>2 DEF OwnEnvironments, VerifiedInOwnEnvironment, OnlyConstructions, Accepted, Rounds
<1>6. CASE EnvironmentRefused \/ ProvisionFails \/ RefuseReceipt \/ CommandRefused \/ VerifierFailed
  <2>1. PICK e \in {loop.retained, NoEnvironment} : Abandon(e)
    BY <1>0, <1>6 DEF EnvironmentRefused, ProvisionFails, RefuseReceipt, CommandRefused, VerifierFailed,
       RetainedAfter
  <2>2. loop'.known = loop.known /\ loop'.retained = e /\ pc' = "finishing"
    BY <1>0, <2>1, AbandonKeeps
  <2> QED
    BY <1>6, <1>a, <2>2 DEF EnvironmentRefused, ProvisionFails, RefuseReceipt, CommandRefused,
       VerifierFailed, runVars, Accepted, Rounds
<1>7. CASE Provision
  BY <1>7, <1>a DEF Provision, logVars, runVars, Accepted, Rounds
<1>8. CASE AcceptReceipt
  <2>1. /\ loop'.retained = IF Constructing THEN round.environment ELSE loop.retained
        /\ loop'.known = loop.known \cup {round.environment}
    BY <1>0, <1>8 DEF AcceptReceipt, LoopState
  <2>2. /\ round.environment \notin loop.known
        /\ pc = "checking" /\ pc' = "leased" /\ UNCHANGED <<verifications, round, persistent>>
    BY <1>8 DEF AcceptReceipt, Unique, logVars, runVars
  <2>3. Constructing' = Constructing /\ (~Constructing => round.environment # loop.retained)
    BY <2>2 DEF Constructing, Replaying, Tenancy, Using
  <2>4. \A v \in verifications : v.environment # round.environment
    BY <2>2 DEF OwnEnvironments, Rounds
  <2> HIDE DEF Constructing
  <2> QED
    BY <2>1, <2>2, <2>3, <2>4 DEF OwnEnvironments, VerifiedInOwnEnvironment, OnlyConstructions,
       Accepted, Rounds
<1>9. CASE ReserveCommand \/ KeepConstruction
  BY <1>9, <1>b DEF ReserveCommand, KeepConstruction, environmentVars, logVars, runVars, Accepted
<1>10. CASE Verify \/ SettleFresh
  <2>1. round'.environment = round.environment /\ round'.action = round.action
    BY <1>0, <1>10 DEF Verify, SettleFresh, RoundState
  <2> QED BY <1>10, <1>b, <2>1 DEF Verify, SettleFresh, logVars, runVars, Accepted
<1>11. CASE DropConstruction
  BY <1>0, <1>11, <1>b DEF DropConstruction, logVars, runVars, Accepted, LoopState
<1>12. CASE DropFails
  <2>1. loop'.known = loop.known /\ loop'.retained = NoEnvironment /\ pc' = "finishing"
    BY <1>0, <1>12, AbandonKeeps DEF DropFails, Block, LoopState
  <2> QED BY <1>12, <1>a, <2>1 DEF DropFails, runVars, Accepted, Rounds
<1>13. CASE Complete
  BY <1>13, <1>b, CountKeeps DEF Complete, runVars, Accepted
<1>14. CASE StartReplay
  <2>1. PICK passed : Record(passed)
    BY <1>14 DEF StartReplay
  <2> QED BY <1>14, <2>1, OwnRecord DEF StartReplay, Judging, runVars, Accepted
<1>15. CASE JudgeStops
  <2>1. PICK passed : Record(passed)
    BY <1>15 DEF JudgeStops
  <2> QED BY <1>15, <2>1, OwnRecord DEF JudgeStops, Judging, Block, runVars, Accepted
<1>16. CASE Accept
  <2>1. PICK passed : Record(passed)
    BY <1>16 DEF Accept
  <2> QED BY <1>16, <2>1, OwnRecord DEF Accept, Judging, runVars, Accepted
<1>17. CASE JudgeFailed
  <2>1. /\ Record("failed")
        /\ pc = "judging"
        /\ pc' = "feeding"
        /\ round' = round
        /\ persistent' = persistent
        /\ loop'.retained = loop.retained /\ loop'.known = loop.known
    BY <1>0, <1>17 DEF JudgeFailed, Judging, runVars, LoopState
  <2> QED BY <2>1, OwnRecord DEF Accepted
<1>18. CASE Feed \/ FeedStops
  BY <1>0, <1>18, <1>a DEF Feed, FeedStops, Continue, Block, logVars, runVars, LoopState, Accepted,
     Rounds
<1>19. CASE ReleaseRetained \/ Report
  BY <1>0, <1>19, <1>a DEF ReleaseRetained, Report, logVars, runVars, LoopState, Accepted, Rounds
<1>20. CASE Escape \/ Crash
  BY <1>0, <1>20 DEF Escape, Crash, Fresh, OwnEnvironments, VerifiedInOwnEnvironment, logVars, runVars,
     Accepted, Rounds
<1>21. CASE TimePasses
  BY <1>21 DEF TimePasses, OwnEnvironments, VerifiedInOwnEnvironment, OnlyConstructions, Accepted,
     Constructing, Replaying, logVars, runVars
<1> QED
  BY <1>1, <1>2, <1>3, <1>4, <1>5, <1>6, <1>7, <1>8, <1>9, <1>10, <1>11, <1>12, <1>13, <1>14,
     <1>15, <1>16, <1>17, <1>18, <1>19, <1>20, <1>21
     DEF LoopNext, LoopStep

-----------------------------------------------------------------------------
(* What is certified passed alone, in a fresh environment                  *)

Ending == pc \in {"finishing", "reporting", "returned"}

\* The verification of the construction that a clean replay repeats.
Constructed(n) ==
  \E v \in verifications :
    v.action = <<n, "candidate">> /\ v.passed = "unknown" /\ v.reusable

\* What the verdict on a fresh execution rests on, and the verdict itself.
Certification ==
  /\ ~Ending => result = Nothing
  /\ pc = "judging" => round.valid
  /\ pc \in Rounds /\ Replaying => persistent /\ Constructed(Number(round.action))
  /\ pc = "settling" /\ ~Constructing => hosted[round.environment] = {round.action}
  /\ pc \in {"completing", "judging"} /\ ~Constructing /\ round.valid =>
       hosted[round.environment] = {round.action} /\ lease[round.environment] = "released"
  /\ Ending /\ result.certification = "certified" =>
       /\ result.action \in Action /\ result.environment \in Environment
       /\ hosted[result.environment] = {result.action} /\ lease[result.environment] = "released"
       /\ \E v \in verifications :
            /\ v.action = result.action /\ v.environment = result.environment
            /\ v.passed = "passed"
       /\ persistent =>
            /\ result.action[2] = "replay"
            /\ \E v \in verifications :
                 /\ v.action = <<Number(result.action), "candidate">>
                 /\ v.passed = "unknown" /\ v.reusable
                 /\ v.environment # result.environment
  /\ pc = "returned" => (goal = "satisfied" <=> result.certification = "certified")

LEMMA CertificationInit == LoopInit => Certification
BY DEF LoopInit, Certification, Ending, Rounds

\* The run ends without a result.
LEMMA NothingCertified ==
  ASSUME pc' = "finishing", result' = Nothing
  PROVE  Certification'
BY DEF Certification, Ending, Nothing, Delivery, Rounds

\* A pass that is accepted is one of a fresh execution: a construction that
\* passed is reusable, and would be replayed.
LEMMA AcceptedIsFresh ==
  ASSUME NEW o \in Outcome, ~ToReplay(o), o.internal, o.passed = "passed", ~Contradictory(o)
  PROVE  ~Constructing
BY LoopAssumption DEF ToReplay, Contradictory, Reusable, Verification

LEMMA CertificationNext ==
  ASSUME LoopShape, Tenancy, Vouching, OwnEnvironments, Certification, [LoopNext]_loopVars
  PROVE  Certification'
<1>0. /\ loop \in LoopState /\ round \in RoundState
      /\ hosted \in [Environment -> SUBSET Action]
      /\ lease \in [Environment -> {"absent", "leased", "released", "leaked", "orphaned"}]
      /\ loop.retained \in Environment \cup {NoEnvironment}
      /\ NoEnvironment \notin Environment
  BY DEF LoopShape, LoopTypeOK, Environment, NoEnvironment, LoopState
\* The round goes on, with what it has.
<1>a. ASSUME pc \in Rounds, ~Ending', pc' \notin {"settling", "completing", "judging"},
             result' = result, verifications \subseteq verifications', persistent' = persistent,
             pc' \in Rounds => round'.action = round.action
      PROVE  Certification'
  <2>1. ~Ending
    BY <1>a DEF Ending, Rounds
  <2>2. result' = Nothing
    BY <1>a, <2>1 DEF Certification
  <2>3. ASSUME pc' \in Rounds, Replaying'
        PROVE  persistent' /\ Constructed(Number(round.action))'
    <3>1. Replaying /\ Number(round'.action) = Number(round.action)
      BY <1>a, <2>3 DEF Replaying
    <3> QED BY <1>a, <2>3, <3>1 DEF Certification, Constructed, Number
  <2> QED BY <1>a, <2>2, <2>3 DEF Certification, Ending
<1>b. ASSUME ~Ending, result' = result, pc' \in {"proposing", "admitting", "closed", "raised"},
             pc' = "admitting" => ~Replaying'
      PROVE  Certification'
  BY <1>b DEF Certification, Ending, Rounds
<1>1. CASE UNCHANGED loopVars
  BY <1>1 DEF loopVars, Certification, Constructed, Ending, Constructing, Replaying, Number,
     logVars, runVars, environmentVars
<1>2. CASE Start
  BY <1>2, <1>b DEF Start, Ending
<1>3. CASE PolicyStops \/ AdmissionStops \/ FeedStops \/ JudgeStops
  BY <1>3, NothingCertified DEF PolicyStops, AdmissionStops, FeedStops, JudgeStops, Block
<1>4. CASE PolicyErrs
  BY <1>4, <1>b, NothingCertified DEF PolicyErrs, Asking, Ending, Certification
<1>5. CASE PolicyProposes
  <2>1. round'.action = <<loop.next, "candidate">>
    BY <1>5 DEF PolicyProposes, NoRound
  <2> QED BY <1>5, <1>b, <2>1 DEF PolicyProposes, Asking, Ending, Replaying
<1>6. CASE CandidatesSpent
  <2>1. result'.certification \in {"none", "uncertified"} /\ pc' = "finishing"
    BY <1>0, <1>6 DEF CandidatesSpent, LoopState
  <2> QED BY <2>1 DEF Certification, Ending, Rounds
<1>7. CASE Reject
  BY <1>7, <1>b DEF Reject, Admissible, Ending
<1>8. CASE Admit \/ ReserveEnvironment
  BY <1>8, <1>a DEF Admit, Admissible, ReserveEnvironment, NeedsEnvironment, Rounds, Ending, logVars,
     runVars
<1>9. CASE Reuse
  <2>1. round'.action = round.action
    BY <1>0, <1>9 DEF Reuse, RoundState
  <2> QED BY <1>9, <1>a, <2>1 DEF Reuse, Rounds, Ending, logVars, runVars
<1>10. CASE EnvironmentRefused \/ ProvisionFails \/ RefuseReceipt \/ CommandRefused \/ VerifierFailed
  BY <1>10, NothingCertified DEF EnvironmentRefused, ProvisionFails, RefuseReceipt, CommandRefused,
     VerifierFailed, Abandon, Block
<1>11. CASE Provision
  <2>1. round'.action = round.action
    BY <1>0, <1>11 DEF Provision, RoundState
  <2> QED BY <1>11, <1>a, <2>1 DEF Provision, Rounds, Ending, logVars, runVars
<1>12. CASE AcceptReceipt \/ ReserveCommand
  BY <1>12, <1>a DEF AcceptReceipt, ReserveCommand, Rounds, Ending, logVars, runVars
<1>13. CASE Verify
  <2>1. /\ round'.environment = round.environment /\ round'.action = round.action
        /\ hosted' = [hosted EXCEPT ![round.environment] = @ \cup {round.action}]
        /\ pc = "verifying" /\ pc' = "settling"
        /\ UNCHANGED <<result, verifications, persistent>>
    BY <1>0, <1>13 DEF Verify, RoundState, logVars, runVars
  <2>2. ~Constructing => hosted'[round.environment] = {round.action}
    BY <1>0, <2>1 DEF Vouching, LoopShape, Housed
  <2>3. /\ Replaying' = Replaying
        /\ Constructing' = Constructing
        /\ Number(round.action)' = Number(round.action)
    BY <2>1 DEF Replaying, Constructing, Number
  <2>4. Constructed(Number(round.action))' <=> Constructed(Number(round.action))
    BY <2>1, <2>3 DEF Constructed, Number
  <2> HIDE DEF Replaying, Constructing
  <2> QED BY <2>1, <2>2, <2>3, <2>4 DEF Certification, Ending, Rounds
<1>14. CASE SettleFresh
  <2>1. /\ round'.environment = round.environment /\ round'.action = round.action
        /\ pc = "settling" /\ pc' = "completing" /\ ~Constructing
        /\ UNCHANGED <<result, verifications, persistent, hosted>>
    BY <1>0, <1>14 DEF SettleFresh, RoundState, logVars, runVars
  <2>2. round'.valid => lease'[round.environment] = "released"
    BY <1>0, <1>14 DEF SettleFresh, RoundState, Release, LoopShape, Housed
  <2>3. Replaying' = Replaying /\ Number(round.action)' = Number(round.action)
    BY <2>1 DEF Replaying, Number
  <2>4. Constructed(Number(round.action))' <=> Constructed(Number(round.action))
    BY <2>1, <2>3 DEF Constructed, Number
  <2> HIDE DEF Replaying, Constructing
  <2> QED BY <2>1, <2>2, <2>3, <2>4 DEF Certification, Ending, Rounds
<1>15. CASE KeepConstruction \/ DropConstruction
  <2>1. /\ round' = round /\ pc = "settling" /\ pc' = "completing" /\ Constructing
        /\ UNCHANGED <<result, verifications, persistent>>
    BY <1>15 DEF KeepConstruction, DropConstruction, logVars, runVars
  <2>2. Constructing'
    BY <2>1 DEF Constructing, Replaying
  <2> QED BY <2>1, <2>2 DEF Certification, Ending, Constructing, Replaying
<1>16. CASE DropFails
  BY <1>16, NothingCertified DEF DropFails, Abandon, Block
<1>17. CASE Complete
  BY <1>17 DEF Complete, Certification, Constructed, Number, Ending, Constructing, Replaying,
     Rounds, environmentVars, runVars
<1>18. CASE StartReplay
  <2>1. PICK o \in Outcome : Judging(o) /\ ToReplay(o)
    BY <1>18 DEF StartReplay
  <2>2. /\ verifications' = verifications \cup {Verdict("unknown", o)}
        /\ pc = "judging" /\ pc' = "leasing" /\ o = round.outcome
        /\ round'.action = <<Number(round.action), "replay">>
        /\ UNCHANGED <<result, persistent>>
    BY <1>18, <2>1 DEF StartReplay, Judging, Record, runVars, NoRound
  <2>3. round.action = <<Number(round.action), "candidate">>
    BY <2>1, <2>2, ActionParts DEF LoopShape, Counted, Rounds, ToReplay, Constructing, Replaying, Role
  <2>4. \E v \in verifications' :
          v.action = <<Number(round.action), "candidate">> /\ v.passed = "unknown" /\ v.reusable
    BY <2>1, <2>2, <2>3, VerdictIs DEF ToReplay
  <2>5. Number(round'.action) = Number(round.action) /\ persistent'
    BY <2>1, <2>2 DEF Number, ToReplay, Constructing
  <2>6. Constructed(Number(round.action))'
    BY <2>4, <2>5 DEF Constructed, Number
  <2> QED BY <2>2, <2>5, <2>6 DEF Certification, Ending
<1>19. CASE Accept
  <2>1. PICK o \in Outcome : /\ Judging(o) /\ ~ToReplay(o)
                             /\ o.internal /\ o.passed = "passed" /\ ~Contradictory(o)
    BY <1>19 DEF Accept
  <2>2. ~Constructing
    BY <2>1, AcceptedIsFresh
  <2>3. /\ verifications' = verifications \cup {Verdict("passed", round.outcome)}
        /\ pc = "judging" /\ pc' = "finishing"
        /\ result' = Delivery("certified", round.action, round.environment, 0)
        /\ UNCHANGED <<hosted, lease, persistent>>
    BY <1>19, <2>1 DEF Accept, Judging, Record, runVars, environmentVars
  <2>4. /\ result'.action = round.action /\ result'.environment = round.environment
        /\ result'.certification = "certified"
    BY <2>3 DEF Delivery
  <2>5. round.action \in Action /\ round.environment \in Environment
    BY <2>3 DEF LoopShape, Counted, Housed, Rounds
  <2>6. hosted[round.environment] = {round.action} /\ lease[round.environment] = "released"
    BY <2>2, <2>3 DEF Certification
  <2>7. \E v \in verifications' :
          v.action = round.action /\ v.environment = round.environment /\ v.passed = "passed"
    BY <2>3, VerdictIs
  <2>8. persistent =>
          /\ round.action[2] = "replay"
          /\ \E v \in verifications' :
               /\ v.action = <<Number(round.action), "candidate">>
               /\ v.passed = "unknown" /\ v.reusable
               /\ v.environment # round.environment
    <3>1. SUFFICES ASSUME persistent PROVE Replaying /\ Constructed(Number(round.action))
      BY <2>2, <2>3 DEF Replaying, Constructed, OwnEnvironments, Accepted
    <3> QED BY <2>2, <2>3, <3>1 DEF Constructing, Certification, Rounds
  <2>9. Number(result'.action) = Number(round.action)
    BY <2>4 DEF Number
  <2> QED BY <2>3, <2>4, <2>5, <2>6, <2>7, <2>8, <2>9 DEF Certification, Ending, Rounds, Number
<1>20. CASE JudgeFailed
  <2>1. verifications \subseteq verifications'
    BY <1>20 DEF JudgeFailed, Record
  <2> QED BY <1>20, <1>a, <2>1 DEF JudgeFailed, Judging, Rounds, Ending, runVars
<1>21. CASE Feed
  BY <1>21, <1>b DEF Feed, Continue, Ending
<1>22. CASE ReleaseRetained
  <2>1. /\ pc = "finishing" /\ pc' = "reporting"
        /\ UNCHANGED <<result, verifications, hosted, persistent>>
    BY <1>22 DEF ReleaseRetained, logVars, runVars
  <2>2. \A e \in Environment : lease[e] = "released" => lease'[e] = "released"
    BY <1>0, <1>22 DEF ReleaseRetained, Release, Tenancy
  <2> QED BY <2>1, <2>2 DEF Certification, Ending, Rounds
<1>23. CASE Report
  BY <1>23 DEF Report, Certification, Ending, Rounds, environmentVars, runVars
<1>24. CASE Escape \/ Crash
  BY <1>24 DEF Escape, Crash, Certification, Ending, Rounds
<1>25. CASE TimePasses
  BY <1>25 DEF TimePasses, Certification, Constructed, Ending, Constructing, Replaying, Number,
     logVars, runVars, environmentVars
<1> QED
  BY <1>1, <1>2, <1>3, <1>4, <1>5, <1>6, <1>7, <1>8, <1>9, <1>10, <1>11, <1>12, <1>13, <1>14,
     <1>15, <1>16, <1>17, <1>18, <1>19, <1>20, <1>21, <1>22, <1>23, <1>24, <1>25
     DEF LoopNext, LoopStep

-----------------------------------------------------------------------------
(* The log a proposal is made from                                         *)

Present(c) == actions[<<c, "candidate">>] # "absent"

\* The candidate is terminal, did not pass, and left a failure to read.
Explained(c) ==
  /\ \A role \in Role : actions[<<c, role>>] # "running"
  /\ {<<c, "candidate">>, <<c, "replay">>} \cap failures # {}
  /\ \A v \in verifications : Number(v.action) = c => v.passed # "passed"

\* Nothing is known of a candidate the log does not have, also when an earlier
\* run wrote it; and the candidates of this run are explained one by one.
History ==
  /\ \A c \in Candidate : ~Present(c) =>
       /\ actions[<<c, "replay">>] = "absent"
       /\ \A v \in verifications : Number(v.action) # c
  /\ pc = "proposing" => \A c \in Candidate : c < loop.next => Explained(c)
  /\ pc \in Rounds => \A c \in Candidate : c < Number(round.action) => Explained(c)
  /\ pc \in Rounds \ {"admitting"} =>
       /\ Present(Number(round.action))
       /\ \A v \in verifications : Number(v.action) = Number(round.action) => v.passed # "passed"
       /\ ~Replaying => actions[<<Number(round.action), "replay">>] = "absent"
       /\ ~Replaying /\ pc # "feeding" =>
            \A v \in verifications : Number(v.action) # Number(round.action)
       /\ Replaying => actions[<<Number(round.action), "candidate">>] # "running"
       /\ pc \in {"judging", "feeding"} => actions[round.action] # "running"
       /\ pc = "feeding" => round.action \in failures

LEMMA HistoryInit == LoopInit => History
BY DEF LoopInit, History, Present, Action, Role, Rounds

\* The action of the round and those of the other candidates.
LEMMA RoundAction ==
  ASSUME LoopShape, pc \in Rounds
  PROVE  /\ round.action \in Action /\ Number(round.action) \in Candidate
         /\ round.action = <<Number(round.action), IF Replaying THEN "replay" ELSE "candidate">>
         /\ \A c \in Candidate, role \in Role :
              /\ <<c, role>> \in Action
              /\ <<c, role>> = round.action <=>
                   c = Number(round.action) /\ (role = "replay" <=> Replaying)
<1>1. round.action \in Action
  BY DEF LoopShape, Counted
<1>2. /\ Number(round.action) \in Candidate /\ round.action[2] \in Role
      /\ round.action = <<Number(round.action), round.action[2]>>
  BY <1>1, ActionParts
<1>3. round.action[2] = IF Replaying THEN "replay" ELSE "candidate"
  BY <1>2 DEF Replaying, Role
<1>4. \A c \in Candidate, role \in Role :
        /\ <<c, role>> \in Action
        /\ <<c, role>> = round.action <=> c = Number(round.action) /\ role = round.action[2]
  BY <1>2 DEF Action, Number
<1> QED BY <1>1, <1>2, <1>3, <1>4 DEF Role

LEMMA HistoryNext ==
  ASSUME LoopShape, Certification, History, [LoopNext]_loopVars
  PROVE  History'
<1>0. /\ loop \in LoopState /\ round \in RoundState
      /\ actions \in [Action -> {"absent", "running", "succeeded", "failed"}]
      /\ pc = "proposing" => loop.next \in Nat
      /\ Candidate \subseteq Nat
  BY DEF LoopShape, LoopTypeOK, LoopState, Candidate
<1> USE DEF History, Present
\* The run ends, or is over, and leaves the log alone.
<1>a. ASSUME UNCHANGED <<actions, verifications>>, pc' \notin Rounds \cup {"proposing"}
      PROVE  History'
  BY <1>a
\* The run ends, and the round's action with it.
<1>b. ASSUME pc \in Rounds \ {"admitting"}, verifications' = verifications,
             actions' = [actions EXCEPT ![round.action] = "failed"],
             pc' = "finishing"
      PROVE  History'
  BY <1>0, <1>b, RoundAction DEF Rounds, Role
\* The round goes on.
<1>c. ASSUME UNCHANGED <<actions, verifications, failures>>,
             {pc, pc'} \subseteq Rounds \ {"admitting", "judging", "feeding"},
             round'.action = round.action
      PROVE  History'
  <2>1. Number(round.action)' = Number(round.action) /\ Replaying' = Replaying
    BY <1>c DEF Number, Replaying
  <2>2. \A c \in Candidate : Explained(c) => Explained(c)'
    BY <1>c DEF Explained
  <2>3. pc \in Rounds /\ pc # "admitting" /\ pc' \notin {"proposing", "judging", "feeding"}
    BY <1>c DEF Rounds
  <2>4. \A c \in Candidate : c < Number(round.action) => Explained(c)'
    BY <2>2, <2>3
  <2> HIDE DEF Replaying
  <2> QED BY <1>c, <2>1, <2>3, <2>4
<1>1. CASE UNCHANGED loopVars
  BY <1>1 DEF loopVars, Explained, Number, Replaying, logVars
<1>2. CASE Start
  <2>1. loop'.next = 1 /\ pc' = "proposing" /\ UNCHANGED <<actions, verifications>>
    BY <1>2 DEF Start, Fresh
  <2> QED BY <2>1 DEF Candidate, Rounds
<1>3. CASE PolicyStops \/ CandidatesSpent \/ AdmissionStops \/ FeedStops \/ ReleaseRetained
             \/ Report \/ Escape \/ Crash
  BY <1>3, <1>a DEF PolicyStops, CandidatesSpent, AdmissionStops, FeedStops, ReleaseRetained,
     Report, Escape, Crash, Block, logVars, Rounds
<1>4. CASE PolicyErrs
  <2>1. loop'.next = loop.next /\ UNCHANGED <<actions, verifications, failures>>
        /\ pc = "proposing" /\ pc' \in {"proposing", "finishing"}
    BY <1>0, <1>4 DEF PolicyErrs, Asking, LoopState, logVars
  <2> QED BY <2>1 DEF Explained, Rounds
<1>5. CASE PolicyProposes
  <2>1. round'.action = <<loop.next, "candidate">> /\ UNCHANGED <<actions, verifications, failures>>
        /\ pc = "proposing" /\ pc' = "admitting"
    BY <1>5 DEF PolicyProposes, Asking, NoRound, logVars
  <2>2. Number(round.action)' = loop.next
    BY <2>1 DEF Number
  <2> QED BY <2>1, <2>2 DEF Explained
<1>6. CASE Reject
  <2>1. /\ pc = "admitting" /\ pc' = "proposing" /\ ~Replaying
        /\ actions[round.action] = "absent"
        /\ actions' = [actions EXCEPT ![round.action] = "failed"]
        /\ failures' = failures \cup {round.action} /\ verifications' = verifications
        /\ loop'.next = loop.next /\ loop.next = Number(round.action) + 1
    BY <1>6, CountKeeps DEF Reject, Admissible, LoopShape, Counted, Rounds
  <2>2. /\ Number(round.action) \in Candidate /\ round.action \in Action
        /\ round.action = <<Number(round.action), "candidate">>
        /\ \A c \in Candidate, role \in Role :
             /\ <<c, role>> \in Action
             /\ <<c, role>> = round.action <=> c = Number(round.action) /\ role = "candidate"
    BY <2>1, RoundAction DEF Rounds, Role
  <2>3. \A c \in Candidate : c < Number(round.action) => Explained(c)'
    BY <1>0, <2>1, <2>2 DEF Explained, Rounds
  <2>4. ASSUME NEW c \in Candidate, c = Number(round.action)
        PROVE  Explained(c)'
    <3>1. actions[<<c, "candidate">>] = "absent" /\ actions[<<c, "replay">>] = "absent"
      BY <2>1, <2>2, <2>4
    <3>2. \A role \in Role : actions'[<<c, role>>] # "running"
      BY <1>0, <2>1, <2>2, <2>4, <3>1 DEF Role
    <3>3. \A v \in verifications' : Number(v.action) # c
      BY <2>1, <2>4, <3>1
    <3>4. <<c, "candidate">> \in failures'
      BY <2>1, <2>2, <2>4
    <3> QED BY <3>2, <3>3, <3>4 DEF Explained
  <2>5. \A c \in Candidate : c < loop'.next => Explained(c)'
    <3> SUFFICES ASSUME NEW c \in Candidate, c < loop'.next PROVE Explained(c)'
      OBVIOUS
    <3>1. c < Number(round.action) \/ c = Number(round.action)
      BY <2>1, <2>2, LoopAssumption DEF Candidate
    <3> QED BY <2>3, <2>4, <3>1
  <2> QED BY <1>0, <2>1, <2>2, <2>5 DEF Rounds, Role
<1>7. CASE Admit
  <2>1. /\ pc = "admitting" /\ pc' = "leasing" /\ ~Replaying
        /\ actions[round.action] = "absent"
        /\ actions' = [actions EXCEPT ![round.action] = "running"]
        /\ UNCHANGED <<failures, verifications, round>>
    BY <1>7 DEF Admit, Admissible, LoopShape, Counted, Rounds
  <2>2. /\ Number(round.action) \in Candidate /\ round.action \in Action
        /\ round.action = <<Number(round.action), "candidate">>
        /\ \A c \in Candidate, role \in Role :
             /\ <<c, role>> \in Action
             /\ <<c, role>> = round.action <=> c = Number(round.action) /\ role = "candidate"
    BY <2>1, RoundAction DEF Rounds, Role
  <2>3. \A c \in Candidate : c < Number(round.action) => Explained(c)'
    BY <1>0, <2>1, <2>2 DEF Explained, Rounds
  <2>4. ~Replaying' /\ Number(round.action)' = Number(round.action)
    BY <2>1 DEF Replaying, Number
  <2>5. /\ ~Present(Number(round.action))
        /\ \A v \in verifications : Number(v.action) # Number(round.action)
        /\ actions[<<Number(round.action), "replay">>] = "absent"
    BY <2>1, <2>2
  <2>6. \A c \in Candidate : actions'[<<c, "replay">>] = actions[<<c, "replay">>]
    BY <1>0, <2>1, <2>2 DEF Role
  <2>7. \A c \in Candidate :
          actions'[<<c, "candidate">>] =
            IF c = Number(round.action) THEN "running" ELSE actions[<<c, "candidate">>]
    BY <1>0, <2>1, <2>2 DEF Role
  <2> QED BY <2>1, <2>2, <2>3, <2>4, <2>5, <2>6, <2>7
<1>8. CASE Reuse \/ Provision \/ Verify \/ SettleFresh
  <2>1. round'.action = round.action
    BY <1>0, <1>8 DEF Reuse, Provision, Verify, SettleFresh, RoundState
  <2> QED
    BY <1>8, <1>c, <2>1 DEF Reuse, Provision, Verify, SettleFresh, logVars, Rounds
<1>9. CASE ReserveEnvironment \/ AcceptReceipt \/ ReserveCommand \/ KeepConstruction \/ DropConstruction
  BY <1>9, <1>c DEF ReserveEnvironment, NeedsEnvironment, AcceptReceipt, ReserveCommand,
     KeepConstruction, DropConstruction, logVars, Rounds
<1>10. CASE EnvironmentRefused \/ ProvisionFails \/ RefuseReceipt \/ CommandRefused \/ VerifierFailed
  BY <1>10, <1>b DEF EnvironmentRefused, ProvisionFails, RefuseReceipt, CommandRefused,
     VerifierFailed, NeedsEnvironment, Abandon, Block, Rounds
<1>11. CASE DropFails
  <2>1. CASE round.valid
    BY <1>11, <1>a, <2>1 DEF DropFails, Block, Rounds
  <2>2. CASE ~round.valid
    BY <1>11, <1>b, <2>2 DEF DropFails, Abandon, Block, Rounds
  <2> QED BY <2>1, <2>2
<1>12. CASE Complete
  <2>1. /\ pc = "completing" /\ pc' = "judging" /\ UNCHANGED <<failures, verifications, round>>
        /\ \E status \in {"succeeded", "failed"} : actions' = [actions EXCEPT ![round.action] = status]
    BY <1>12 DEF Complete
  <2>2. PICK status \in {"succeeded", "failed"} : actions' = [actions EXCEPT ![round.action] = status]
    BY <2>1
  <2>3. Replaying' = Replaying /\ Number(round.action)' = Number(round.action)
    BY <2>1 DEF Replaying, Number
  <2>4. \A c \in Candidate, role \in Role :
          actions'[<<c, role>>] =
            IF <<c, role>> = round.action THEN status ELSE actions[<<c, role>>]
    BY <1>0, <2>1, <2>2, RoundAction DEF Rounds
  <2>5. \A c \in Candidate : c < Number(round.action) => Explained(c)'
    BY <1>0, <2>1, <2>2, <2>4, RoundAction DEF Explained, Rounds
  <2>6. actions'[round.action] = status
    BY <1>0, <2>1, <2>2, RoundAction DEF Rounds
  <2> HIDE DEF Replaying
  <2>7. \A c \in Candidate : (~Present(c))' => ~Present(c) /\ actions'[<<c, "replay">>] = "absent"
    BY <1>0, <2>1, <2>4, RoundAction DEF Rounds, Role
  <2>8. /\ Present(Number(round.action))'
        /\ ~Replaying => actions'[<<Number(round.action), "replay">>] = "absent"
        /\ Replaying => actions'[<<Number(round.action), "candidate">>] # "running"
    BY <1>0, <2>1, <2>3, <2>4, RoundAction DEF Rounds, Role
  <2>9. /\ \A v \in verifications : Number(v.action) = Number(round.action) => v.passed # "passed"
        /\ ~Replaying => \A v \in verifications : Number(v.action) # Number(round.action)
    BY <2>1 DEF Rounds
  <2>10. \A c \in Candidate : (~Present(c))' =>
           /\ actions'[<<c, "replay">>] = "absent"
           /\ \A v \in verifications' : Number(v.action) # c
    BY <2>1, <2>7
  <2>11. /\ pc' \in Rounds
         /\ pc' \notin {"proposing", "admitting", "feeding"}
         /\ actions'[round'.action] = status
    BY <2>1, <2>6 DEF Rounds
  <2> HIDE DEF Present
  <2> QED BY <2>1, <2>3, <2>5, <2>8, <2>9, <2>10, <2>11
<1>13. CASE StartReplay
  <2>1. /\ pc = "judging" /\ pc' = "leasing" /\ ~Replaying
        /\ verifications' = verifications \cup {Verdict("unknown", round.outcome)}
        /\ actions' = [actions EXCEPT ![<<Number(round.action), "replay">>] = "running"]
        /\ round'.action = <<Number(round.action), "replay">> /\ failures' = failures
    BY <1>13 DEF StartReplay, Judging, ToReplay, Constructing, Record, NoRound
  <2>2. Replaying' /\ Number(round.action)' = Number(round.action)
    BY <2>1 DEF Replaying, Number
  <2>3. Number(round.action) \in Candidate
    BY <2>1, RoundAction DEF Rounds
  <2>4. \A c \in Candidate, role \in Role :
          actions'[<<c, role>>] =
            IF c = Number(round.action) /\ role = "replay" THEN "running" ELSE actions[<<c, role>>]
    BY <1>0, <2>1, <2>3 DEF Action, Role
  <2>5. /\ Present(Number(round.action)) /\ round.action = <<Number(round.action), "candidate">>
        /\ actions[round.action] # "running"
    BY <2>1, RoundAction DEF Rounds
  <2>6. \A v \in verifications' :
          v \in verifications \/ (Number(v.action) = Number(round.action) /\ v.passed = "unknown")
    BY <2>1, VerdictIs
  <2>7. \A c \in Candidate : c < Number(round.action) => Explained(c)'
    BY <1>0, <2>1, <2>3, <2>4, <2>6 DEF Explained, Rounds
  <2>8. \A c \in Candidate : (~Present(c))' => ~Present(c) /\ c # Number(round.action)
    BY <2>4, <2>5 DEF Role
  <2> QED BY <2>1, <2>2, <2>3, <2>4, <2>5, <2>6, <2>7, <2>8 DEF Rounds, Role
<1>14. CASE JudgeStops \/ Accept
  <2>1. PICK passed : Record(passed)
    BY <1>14 DEF JudgeStops, Accept
  <2>2. actions' = actions /\ pc = "judging" /\ pc' = "finishing"
    BY <1>14 DEF JudgeStops, Accept, Judging, Block
  <2>3. \A v \in verifications' : v \in verifications \/ Number(v.action) = Number(round.action)
    BY <2>1, VerdictIs DEF Record
  <2> QED BY <2>2, <2>3 DEF Rounds
<1>15. CASE JudgeFailed
  <2>1. /\ pc = "judging" /\ pc' = "feeding"
        /\ verifications' = verifications \cup {Verdict("failed", round.outcome)}
        /\ failures' = failures \cup {round.action} /\ UNCHANGED <<actions, round>>
    BY <1>15 DEF JudgeFailed, Judging, Record
  <2>2. Replaying' = Replaying /\ Number(round.action)' = Number(round.action)
    BY <2>1 DEF Replaying, Number
  <2>3. \A v \in verifications' :
          v \in verifications \/ (Number(v.action) = Number(round.action) /\ v.passed = "failed")
    BY <2>1, VerdictIs
  <2>4. \A c \in Candidate : c < Number(round.action) => Explained(c)'
    BY <1>0, <2>1, <2>3, RoundAction DEF Explained, Rounds
  <2> HIDE DEF Replaying
  <2> QED BY <2>1, <2>2, <2>3, <2>4 DEF Rounds
<1>16. CASE Feed
  <2>1. /\ pc = "feeding" /\ pc' = "proposing" /\ UNCHANGED <<actions, failures, verifications>>
        /\ loop'.next = loop.next
    BY <1>0, <1>16 DEF Feed, Continue, LoopState, logVars
  <2>2. /\ loop.next = Number(round.action) + 1 /\ Number(round.action) \in Candidate
        /\ round.action = <<Number(round.action), IF Replaying THEN "replay" ELSE "candidate">>
    BY <2>1, RoundAction DEF LoopShape, Counted, Rounds
  <2>3. ASSUME NEW c \in Candidate, c = Number(round.action)
        PROVE  Explained(c)
    BY <2>1, <2>2, <2>3 DEF Explained, Rounds, Role
  <2>4. \A c \in Candidate : c < loop'.next => Explained(c)'
    <3> SUFFICES ASSUME NEW c \in Candidate, c < loop'.next PROVE Explained(c)'
      OBVIOUS
    <3>1. c < Number(round.action) \/ c = Number(round.action)
      BY <2>1, <2>2, LoopAssumption DEF Candidate
    <3>2. Explained(c)
      BY <2>1, <2>3, <3>1 DEF Rounds
    <3> QED BY <2>1, <3>2 DEF Explained
  <2> QED BY <2>1, <2>4 DEF Rounds
<1>17. CASE TimePasses
  BY <1>17 DEF TimePasses, Explained, Number, Replaying, logVars
<1> QED
  BY <1>1, <1>2, <1>3, <1>4, <1>5, <1>6, <1>7, <1>8, <1>9, <1>10, <1>11, <1>12, <1>13, <1>14,
     <1>15, <1>16, <1>17 DEF LoopNext, LoopStep

-----------------------------------------------------------------------------
(* The best admissible candidate of the log                                *)

\* The last candidate that this run brought into the log.
Top == IF pc \in {"proposing", "admitting"} THEN loop.attempted ELSE Number(round.action)

\* This run brought one.  What earlier runs wrote of candidates is then
\* nothing: they would have had the first one.
Admitted ==
  pc \in Rounds \ {"admitting"} \/ (pc \in {"proposing", "admitting"} /\ loop.attempted > 0)

\* b is the first of the best admissible candidates.
Leading(b) ==
  /\ b = Nothing => (Retain => Ranked = {})
  /\ b # Nothing =>
       /\ Retain /\ b.certification = "uncertified"
       /\ \E v \in Ranked :
            v.action = b.action /\ v.environment = b.environment /\ v.rank = b.rank
       /\ \A w \in Ranked :
            b.rank < w.rank \/ (b.rank = w.rank /\ Number(b.action) <= Number(w.action))

\* Candidates come into the log in the order of their numbers, and best is the
\* best of them.
Ladder ==
  /\ \A c, d \in Candidate : d < c /\ Present(c) => Present(d)
  /\ pc = "proposing" => \A c \in Candidate : c < loop.next => Present(c)
  /\ pc \in Rounds => \A c \in Candidate : c < Number(round.action) => Present(c)
  /\ pc \in {"proposing", "admitting"} /\ loop.attempted = 0 => loop.best = Nothing
  /\ Admitted => Leading(loop.best) /\ \A c \in Candidate : c > Top => ~Present(c)
  /\ Ending /\ result.certification = "uncertified" =>
       loop.attempted = MaxCandidates /\ Leading(result)

LEMMA LadderInit == LoopInit => Ladder
<1> SUFFICES ASSUME LoopInit PROVE Ladder
  OBVIOUS
<1>1. pc = "closed" /\ \A a \in Action : actions[a] = "absent"
  BY DEF LoopInit
<1>2. \A c \in Candidate : <<c, "candidate">> \in Action
  BY DEF Action, Role
<1> QED BY <1>1, <1>2 DEF Ladder, Present, Admitted, Ending, Rounds

\* What a round writes of its own actions brings no candidate into the log.
LEMMA PresentSame ==
  ASSUME LoopShape, History, pc \in Rounds \ {"admitting"},
         NEW a, NEW status \in {"running", "succeeded", "failed"},
         a = round.action \/ a = <<Number(round.action), "replay">>,
         actions' = [actions EXCEPT ![a] = status]
  PROVE  \A c \in Candidate : Present(c)' <=> Present(c)
<1>0. actions \in [Action -> {"absent", "running", "succeeded", "failed"}]
  BY DEF LoopShape, LoopTypeOK
<1>1. Present(Number(round.action)) /\ Number(round.action) \in Candidate
  BY RoundAction DEF History
<1>2. ASSUME NEW c \in Candidate, c # Number(round.action) \/ a # <<c, "candidate">>
      PROVE  actions'[<<c, "candidate">>] = actions[<<c, "candidate">>]
  <2>1. <<c, "candidate">> \in Action /\ <<c, "candidate">> # a
    BY <1>1, <1>2, RoundAction DEF Role, Action
  <2> QED BY <1>0, <2>1
<1>3. ASSUME NEW c \in Candidate, c = Number(round.action), a = <<c, "candidate">>
      PROVE  actions'[<<c, "candidate">>] = status
  <2>1. <<c, "candidate">> \in Action
    BY DEF Action, Role
  <2> QED BY <1>0, <1>3, <2>1
<1> QED BY <1>1, <1>2, <1>3 DEF Present

LEMMA LadderNext ==
  ASSUME LoopShape, Certification, History, Ladder, [LoopNext]_loopVars
  PROVE  Ladder'
<1>0. /\ loop \in LoopState /\ round \in RoundState
      /\ actions \in [Action -> {"absent", "running", "succeeded", "failed"}]
      /\ loop.next \in Nat /\ loop.attempted \in Nat /\ Candidate \subseteq Nat
  BY DEF LoopShape, LoopTypeOK, LoopState, Candidate
<1> USE DEF Ladder
\* The run ends without an uncertified result, or is over.
<1>a. ASSUME \A c \in Candidate : Present(c)' <=> Present(c),
             pc' \notin Rounds \cup {"proposing"},
             Ending' => result'.certification # "uncertified"
      PROVE  Ladder'
  BY <1>a DEF Admitted, Rounds
\* The round goes on, or the next one begins, and nothing is ranked.
<1>b. ASSUME \A c \in Candidate : Present(c)' <=> Present(c), Ranked' = Ranked,
             pc \in Rounds \ {"admitting"}, pc' \in Rounds \ {"admitting"},
             Number(round.action)' = Number(round.action), loop'.best = loop.best
      PROVE  Ladder'
  <2>1. Admitted /\ Admitted' /\ ~Ending' /\ Top' = Top
        /\ pc' \notin {"proposing", "admitting"}
    BY <1>b DEF Admitted, Ending, Rounds, Top
  <2>2. Leading(loop.best)'
    BY <1>b, <2>1 DEF Leading
  <2>3. Top = Number(round.action) /\ pc' \in Rounds /\ pc' # "proposing"
    BY <1>b, <2>1 DEF Top, Rounds
  <2>4. \A c \in Candidate :
          /\ c < Number(round.action) => Present(c)'
          /\ c > Top => ~Present(c)'
    BY <1>b, <2>1, <2>3
  <2>5. \A c, d \in Candidate : d < c /\ Present(c)' => Present(d)'
    BY <1>b
  <2> HIDE DEF Ladder
  <2> QED BY <1>b, <2>1, <2>2, <2>3, <2>4, <2>5 DEF Ladder
<1>d. actions' = actions => \A c \in Candidate : Present(c)' <=> Present(c)
  BY DEF Present
<1>e. verifications' = verifications => Ranked' = Ranked
  BY DEF Ranked
<1>f. Nothing.certification = "none"
  BY DEF Nothing, Delivery
<1>1. CASE UNCHANGED loopVars
  BY <1>1 DEF loopVars, Present, Admitted, Leading, Top, Ranked, Ending, Number, logVars
<1>2. CASE Start
  <2>1. /\ loop'.next = 1 /\ loop'.attempted = 0 /\ loop'.best = Nothing
        /\ pc' = "proposing" /\ actions' = actions
    BY <1>2 DEF Start, Fresh
  <2> QED BY <2>1, <1>d DEF Candidate, Rounds, Admitted, Ending
<1>3. CASE PolicyStops \/ AdmissionStops \/ FeedStops \/ JudgeStops
  BY <1>3, <1>a, <1>d, <1>f DEF PolicyStops, AdmissionStops, FeedStops, JudgeStops, Block, Rounds
<1>4. CASE PolicyErrs
  <2>1. /\ loop'.next = loop.next /\ loop'.attempted = loop.attempted /\ loop'.best = loop.best
        /\ UNCHANGED <<actions, verifications, failures, result>>
        /\ pc = "proposing" /\ pc' \in {"proposing", "finishing"}
    BY <1>0, <1>4 DEF PolicyErrs, Asking, LoopState, logVars
  <2>2. CASE pc' = "finishing"
    BY <2>1, <2>2, <1>a, <1>d, <1>f DEF Rounds, Certification, Ending
  <2>3. CASE pc' = "proposing"
    BY <2>1, <2>3, <1>d, <1>e DEF Rounds, Admitted, Leading, Top, Ending
  <2> QED BY <2>1, <2>2, <2>3
<1>5. CASE PolicyProposes
  <2>1. /\ round'.action = <<loop.next, "candidate">> /\ UNCHANGED <<actions, verifications>>
        /\ pc = "proposing" /\ pc' = "admitting"
        /\ loop'.attempted = loop.attempted /\ loop'.best = loop.best
    BY <1>0, <1>5 DEF PolicyProposes, Asking, NoRound, logVars, LoopState
  <2>2. Number(round.action)' = loop.next
    BY <2>1 DEF Number
  <2> QED BY <2>1, <2>2, <1>d, <1>e DEF Rounds, Admitted, Leading, Top, Ending
<1>6. CASE CandidatesSpent
  <2>1. /\ pc = "proposing" /\ pc' = "finishing" /\ result' = loop.best
        /\ UNCHANGED <<loop, actions, verifications>> /\ loop.attempted = MaxCandidates
    BY <1>0, <1>6, LoopAssumption DEF CandidatesSpent, Asking, logVars, LoopShape, Counted
  <2>2. loop.attempted > 0
    BY <2>1, LoopAssumption
  <2>3. Leading(loop.best)
    BY <2>1, <2>2 DEF Admitted
  <2>4. Leading(result)'
    BY <2>1, <2>3, <1>e DEF Leading
  <2> QED BY <2>1, <2>4, <1>d DEF Rounds, Admitted
<1>7. CASE Reject \/ Admit
  <2>1. /\ pc = "admitting" /\ ~Replaying /\ verifications' = verifications
        /\ actions[round.action] = "absent"
        /\ \E status \in {"failed", "running"} : actions' = [actions EXCEPT ![round.action] = status]
        /\ loop.attempted = Number(round.action) - 1 /\ loop.next = Number(round.action) + 1
        /\ loop'.best = loop.best /\ loop'.next = loop.next
    BY <1>7, CountKeeps DEF Reject, Admit, Admissible, LoopShape, Counted, Rounds
  <2>2. PICK status \in {"failed", "running"} : actions' = [actions EXCEPT ![round.action] = status]
    BY <2>1
  <2>3. /\ Number(round.action) \in Candidate
        /\ \A c \in Candidate :
             /\ <<c, "candidate">> \in Action
             /\ <<c, "candidate">> = round.action <=> c = Number(round.action)
    BY <2>1, RoundAction DEF Rounds, Role
  <2>4. \A c \in Candidate : Present(c)' <=> c = Number(round.action) \/ Present(c)
    BY <1>0, <2>1, <2>2, <2>3 DEF Present
  <2>5. ~Present(Number(round.action))
    BY <2>1, <2>3 DEF Present
  <2>6. \A c \in Candidate : c > Number(round.action) => ~Present(c)
    BY <2>3, <2>5
  <2>7. Leading(loop.best)
    <3>1. CASE loop.attempted > 0
      BY <2>1, <3>1 DEF Admitted
    <3>2. CASE loop.attempted = 0
      <4>1. loop.best = Nothing /\ Number(round.action) = 1
        BY <2>1, <2>3, <3>2 DEF Candidate
      <4>2. \A c \in Candidate : ~Present(c)
        BY <2>5, <2>6, <4>1 DEF Candidate
      <4>3. \A v \in verifications : Number(v.action) \in Candidate
        BY ActionParts DEF LoopShape, LoopTypeOK
      <4>4. verifications = {}
        BY <4>2, <4>3 DEF History
      <4> QED BY <4>1, <4>4 DEF Leading, Ranked
    <3> QED BY <1>0, <3>1, <3>2
  <2>8. Leading(loop.best)'
    BY <2>1, <2>7, <1>e DEF Leading
  <2>9. \A c, d \in Candidate : d < c /\ Present(c)' => Present(d)'
    BY <1>0, <2>1, <2>3, <2>4 DEF Rounds
  <2>10. CASE Reject
    <3>1. pc' = "proposing" /\ loop'.attempted = Number(round.action)
      BY <1>0, <2>1, <2>3, <2>10 DEF Reject, Admissible, LoopState, Candidate
    <3>2. \A c \in Candidate : c < loop'.next => Present(c)'
      BY <1>0, <2>1, <2>3, <2>4 DEF Rounds, Candidate
    <3>3. \A c \in Candidate : c > loop'.attempted => ~Present(c)'
      BY <1>0, <2>1, <2>3, <2>4, <2>6, <3>1 DEF Candidate
    <3> QED BY <2>3, <2>8, <2>9, <3>1, <3>2, <3>3 DEF Rounds, Admitted, Top, Ending, Candidate
  <2>11. CASE Admit
    <3>1. pc' = "leasing" /\ round' = round
      BY <2>11 DEF Admit
    <3>2. \A c \in Candidate : c < Number(round.action) => Present(c)'
      BY <2>1, <2>4 DEF Rounds
    <3>3. \A c \in Candidate : c > Number(round.action) => ~Present(c)'
      BY <1>0, <2>3, <2>4, <2>6 DEF Candidate
    <3>4. Top' = Number(round.action)' /\ Number(round.action)' = Number(round.action)
      BY <3>1 DEF Top
    <3> QED BY <2>8, <2>9, <3>1, <3>2, <3>3, <3>4 DEF Rounds, Ending
  <2> QED BY <1>7, <2>10, <2>11
<1>8. CASE Reuse \/ Provision \/ Verify \/ SettleFresh
  <2>1. round'.action = round.action
    BY <1>0, <1>8 DEF Reuse, Provision, Verify, SettleFresh, RoundState
  <2>2. Number(round.action)' = Number(round.action)
    BY <2>1 DEF Number
  <2> QED
    BY <1>8, <1>b, <1>d, <1>e, <2>2 DEF Reuse, Provision, Verify, SettleFresh, logVars, Rounds
<1>9. CASE ReserveEnvironment \/ ReserveCommand \/ KeepConstruction
  BY <1>9, <1>b, <1>d, <1>e DEF ReserveEnvironment, NeedsEnvironment, ReserveCommand,
     KeepConstruction, logVars, Rounds
<1>10. CASE AcceptReceipt \/ DropConstruction
  <2>1. loop'.best = loop.best
    BY <1>0, <1>10 DEF AcceptReceipt, DropConstruction, LoopState
  <2> QED
    BY <1>10, <1>b, <1>d, <1>e, <2>1 DEF AcceptReceipt, DropConstruction, logVars, Rounds
<1>11. CASE EnvironmentRefused \/ ProvisionFails \/ RefuseReceipt \/ CommandRefused \/ VerifierFailed
  <2>1. /\ actions' = [actions EXCEPT ![round.action] = "failed"]
        /\ pc \in Rounds \ {"admitting"} /\ pc' = "finishing" /\ result' = Nothing
    BY <1>11 DEF EnvironmentRefused, ProvisionFails, RefuseReceipt, CommandRefused,
       VerifierFailed, NeedsEnvironment, Abandon, Block, Rounds
  <2> QED BY <1>a, PresentSame, <1>f, <2>1 DEF Rounds
<1>12. CASE DropFails
  <2>1. /\ actions' = actions \/ actions' = [actions EXCEPT ![round.action] = "failed"]
        /\ pc \in Rounds \ {"admitting"} /\ pc' = "finishing" /\ result' = Nothing
    BY <1>12 DEF DropFails, Abandon, Block, Rounds
  <2> QED BY <1>a, <1>d, PresentSame, <1>f, <2>1 DEF Rounds
<1>13. CASE Complete
  <2>1. PICK status \in {"succeeded", "failed"} : actions' = [actions EXCEPT ![round.action] = status]
    BY <1>13 DEF Complete
  <2>2. \A c \in Candidate : Present(c)' <=> Present(c)
    BY <1>13, PresentSame, <2>1 DEF Complete, Rounds
  <2> QED BY <1>13, <1>b, <1>e, <2>2, CountKeeps DEF Complete, Rounds
<1>14. CASE StartReplay
  <2>1. /\ pc = "judging" /\ pc' = "leasing" /\ loop' = loop
        /\ verifications' = verifications \cup {Verdict("unknown", round.outcome)}
        /\ actions' = [actions EXCEPT ![<<Number(round.action), "replay">>] = "running"]
        /\ round'.action = <<Number(round.action), "replay">>
    BY <1>14 DEF StartReplay, Judging, Record, NoRound
  <2>2. Number(round.action)' = Number(round.action)
    BY <2>1 DEF Number
  <2>3. Ranked' = Ranked
    BY <2>1, VerdictIs DEF Ranked
  <2>4. \A c \in Candidate : Present(c)' <=> Present(c)
    BY PresentSame, <2>1 DEF Rounds
  <2> QED BY <1>b, <2>1, <2>2, <2>3, <2>4 DEF Rounds
<1>15. CASE Accept
  BY <1>15, <1>a, <1>d DEF Accept, Delivery, Rounds
<1>16. CASE JudgeFailed
  <2>1. PICK o \in Outcome :
          /\ pc = "judging" /\ pc' = "feeding" /\ o = round.outcome
          /\ verifications' = verifications \cup {Verdict("failed", o)}
          /\ loop' = IF Better(o)
               THEN [loop EXCEPT !.best = Delivery("uncertified", round.action,
                                                   round.environment, o.rank)]
               ELSE loop
          /\ UNCHANGED <<round, actions>>
    BY <1>16 DEF JudgeFailed, Judging, Record
  <2>2. \A c \in Candidate : Present(c)' <=> Present(c)
    BY <1>d, <2>1
  <2>3. Admitted /\ Admitted' /\ Top' = Top /\ Top = Number(round.action) /\ ~Ending'
    BY <2>1 DEF Admitted, Top, Rounds, Number, Ending
  <2> DEFINE w == Verdict("failed", o)
  <2>4. /\ w.action = round.action /\ w.environment = round.environment
        /\ w.passed = "failed" /\ w.rank = o.rank /\ o.rank \in Nat
    BY VerdictIs, LoopAssumption DEF Verification
  <2>5. Ranked' = Ranked \cup (IF o.rank > 0 THEN {w} ELSE {})
    BY <2>1, <2>4 DEF Ranked
  <2> HIDE DEF w
  <2>6. \A v \in Ranked : v.rank \in Nat /\ v.rank > 0 /\ Number(v.action) \in Nat
                          /\ Number(v.action) <= Number(round.action)
    <3> SUFFICES ASSUME NEW v \in Ranked
                 PROVE  v.rank \in Nat /\ v.rank > 0 /\ Number(v.action) \in Nat
                        /\ Number(v.action) <= Number(round.action)
      OBVIOUS
    <3>1. v \in verifications /\ v.rank \in Nat /\ v.rank > 0 /\ v.action \in Action
      BY DEF Ranked, LoopShape, LoopTypeOK
    <3>2. Number(v.action) \in Candidate
      BY <3>1, ActionParts
    <3>3. Present(Number(v.action))
      BY <3>1, <3>2 DEF History
    <3>4. ~(Number(v.action) > Number(round.action))
      BY <2>3, <3>2, <3>3
    <3>5. Number(round.action) \in Candidate
      BY <2>1, RoundAction DEF Rounds
    <3> QED BY <3>1, <3>2, <3>4, <3>5, LoopAssumption DEF Candidate
  <2>7. Leading(loop.best)'
    <3>1. Leading(loop.best)
      BY <2>3
    <3>2. CASE Better(o)
      <4>1. /\ loop'.best = Delivery("uncertified", round.action, round.environment, o.rank)
            /\ Retain /\ o.rank > 0 /\ (loop.best = Nothing \/ o.rank < loop.best.rank)
        BY <1>0, <2>1, <3>2 DEF Better, LoopState
      <4>2. /\ loop'.best.certification = "uncertified" /\ loop'.best.action = round.action
            /\ loop'.best.environment = round.environment /\ loop'.best.rank = o.rank
            /\ loop'.best # Nothing
        BY <4>1 DEF Delivery, Nothing
      <4>3. \A v \in Ranked : o.rank < v.rank
        BY <1>0, <2>4, <2>6, <3>1, <4>1 DEF Leading, LoopState
      <4>4. Number(round.action) <= Number(round.action)
        BY <2>1, RoundAction, LoopAssumption DEF Rounds, Candidate
      <4>5. \A v \in Ranked' : o.rank < v.rank
                \/ (o.rank = v.rank /\ Number(round.action) <= Number(v.action))
        BY <2>4, <2>5, <4>3, <4>4
      <4>6. Number(loop'.best.action) = Number(round.action)
        BY <4>2 DEF Number
      <4>7. w \in Ranked'
        BY <2>5, <4>1
      <4> QED BY <2>4, <4>1, <4>2, <4>5, <4>6, <4>7 DEF Leading
    <3>3. CASE ~Better(o)
      <4>1. loop' = loop
        BY <2>1, <3>3
      <4>2. CASE o.rank = 0 \/ ~Retain
        <5>1. Retain => Ranked' = Ranked
          BY <2>5, <4>2
        <5>2. loop.best # Nothing => Retain
          BY <3>1 DEF Leading
        <5> QED BY <3>1, <4>1, <5>1, <5>2 DEF Leading
      <4>3. CASE o.rank > 0 /\ Retain
        <5>1. loop.best # Nothing /\ ~(o.rank < loop.best.rank)
          BY <3>3, <4>3 DEF Better
        <5>2. PICK v \in Ranked : v.action = loop.best.action /\ v.environment = loop.best.environment
                                  /\ v.rank = loop.best.rank
          BY <3>1, <5>1 DEF Leading
        <5>3. Number(loop.best.action) = Number(v.action)
          BY <5>2 DEF Number
        <5>4. loop.best.rank < o.rank
              \/ (loop.best.rank = o.rank /\ Number(loop.best.action) <= Number(round.action))
          BY <2>4, <2>6, <5>1, <5>2, <5>3
        <5>5. Number(w.action) = Number(round.action)
          BY <2>4 DEF Number
        <5>6. \A u \in Ranked' : loop.best.rank < u.rank
                \/ (loop.best.rank = u.rank /\ Number(loop.best.action) <= Number(u.action))
          BY <2>4, <2>5, <3>1, <5>1, <5>4, <5>5 DEF Leading
        <5>7. v \in Ranked'
          BY <2>5
        <5> QED BY <3>1, <4>1, <5>1, <5>2, <5>6, <5>7 DEF Leading
      <4> QED BY <2>4, <4>2, <4>3
    <3> QED BY <3>2, <3>3
  <2> QED BY <2>1, <2>2, <2>3, <2>7 DEF Rounds, Number
<1>17. CASE Feed
  <2>1. /\ pc = "feeding" /\ pc' = "proposing" /\ UNCHANGED <<actions, verifications>>
        /\ loop'.next = loop.next /\ loop'.best = loop.best /\ loop'.attempted = loop.attempted
    BY <1>0, <1>17 DEF Feed, Continue, LoopState, logVars
  <2>2. /\ loop.next = Number(round.action) + 1 /\ Number(round.action) \in Candidate
        /\ loop.attempted = Number(round.action) /\ loop.attempted > 0
    BY <2>1, RoundAction, LoopAssumption DEF LoopShape, Counted, Rounds, Candidate
  <2>3. Present(Number(round.action)) /\ Admitted /\ Top = Number(round.action)
    BY <2>1 DEF History, Rounds, Admitted, Top
  <2>4. \A c \in Candidate : c < loop'.next => Present(c)'
    <3> SUFFICES ASSUME NEW c \in Candidate, c < loop'.next PROVE Present(c)'
      OBVIOUS
    <3>1. c < Number(round.action) \/ c = Number(round.action)
      BY <2>1, <2>2, LoopAssumption DEF Candidate
    <3> QED BY <1>d, <2>1, <2>3, <3>1 DEF Rounds
  <2>5. Leading(loop.best)'
    BY <1>e, <2>1, <2>3 DEF Leading
  <2> QED BY <1>d, <2>1, <2>2, <2>3, <2>4, <2>5 DEF Rounds, Top, Ending
<1>18. CASE ReleaseRetained \/ Report
  <2>1. /\ pc \in {"finishing", "reporting"} /\ pc' \in {"reporting", "returned"}
        /\ UNCHANGED <<actions, verifications, result>> /\ loop'.attempted = loop.attempted
    BY <1>0, <1>18 DEF ReleaseRetained, Report, LoopState, logVars
  <2> QED BY <1>d, <1>e, <2>1 DEF Rounds, Admitted, Ending, Leading
<1>19. CASE Escape \/ Crash
  BY <1>19, <1>a, <1>d DEF Escape, Crash, logVars, Rounds, Ending
<1>20. CASE TimePasses
  BY <1>20 DEF TimePasses, Present, Admitted, Leading, Top, Ranked, Ending, Number, logVars
<1> QED
  BY <1>1, <1>2, <1>3, <1>4, <1>5, <1>6, <1>7, <1>8, <1>9, <1>10, <1>11, <1>12, <1>13, <1>14,
     <1>15, <1>16, <1>17, <1>18, <1>19, <1>20 DEF LoopNext, LoopStep

-----------------------------------------------------------------------------
(* The promise                                                             *)

LoopInv ==
  /\ LoopShape /\ Tenancy /\ Vouching /\ OwnEnvironments /\ Certification /\ History /\ Ladder

LEMMA LoopInvNext == LoopInv /\ [LoopNext]_loopVars => LoopInv'
BY ShapeNext, TenancyNext, VouchingNext, OwnNext, CertificationNext, HistoryNext, LadderNext
   DEF LoopInv

LEMMA LoopInvInit == LoopInit => LoopInv
BY ShapeInit, TenancyInit, VouchingInit, OwnInit, CertificationInit, HistoryInit, LadderInit
   DEF LoopInv

LEMMA PromiseInit == LoopInit => Promise!Init
BY DEF LoopInit, Promise!Init, Delivered

\* What has been executed in an environment is not executed there again.
LEMMA HostedOnce ==
  ASSUME LoopInv, pc = "verifying"
  PROVE  round.action \notin hosted[round.environment]
<1> SUFFICES ASSUME round.action \in hosted[round.environment] PROVE FALSE
  OBVIOUS
<1>1. Constructing /\ ~Replaying
  BY DEF LoopInv, Vouching, Constructing
<1>2. Vouched(round.action, round.environment)
  BY <1>1 DEF LoopInv, Vouching, Tenancy, Unrecorded, LoopShape, Housed, Using, Environment,
     NoEnvironment
<1> QED BY <1>1, <1>2 DEF Vouched, LoopInv, History, Rounds, Number

LEMMA PromiseNext ==
  ASSUME LoopInv, [LoopNext]_loopVars
  PROVE  [Promise!Next]_(Promise!vars)
<1>0. /\ LoopShape /\ Tenancy /\ Certification
      /\ loop \in LoopState /\ round \in RoundState
      /\ lease \in [Environment -> {"absent", "leased", "released", "leaked", "orphaned"}]
      /\ hosted \in [Environment -> SUBSET Action]
      /\ loop.retained \in Environment \cup {NoEnvironment}
      /\ NoEnvironment \notin Environment
  BY DEF LoopInv, LoopShape, LoopTypeOK, Environment, NoEnvironment, LoopState
<1>a. pc # "returned" /\ pc' # "returned" => Delivered' = Delivered /\ Delivered = Undelivered
  BY DEF Delivered, Undelivered
<1>b. ASSUME UNCHANGED <<lease, hosted, persistent>>, Delivered' = Delivered
      PROVE  [Promise!Next]_(Promise!vars)
  BY <1>b DEF Promise!vars
<1>c. ASSUME NEW e \in Environment, lease[e] = "leased", NEW released \in BOOLEAN,
             Release(e, released), UNCHANGED <<hosted, persistent>>, Delivered' = Delivered
      PROVE  [Promise!Next]_(Promise!vars)
  BY <1>c DEF Release, Promise!Next, Promise!Release
<1>1. CASE UNCHANGED loopVars
  BY <1>1, <1>b DEF loopVars, environmentVars, runVars, Delivered
<1>2. CASE Start \/ PolicyStops \/ PolicyErrs \/ PolicyProposes \/ CandidatesSpent
             \/ AdmissionStops \/ Reject \/ Admit \/ Reuse \/ ReserveEnvironment
  BY <1>2, <1>a, <1>b DEF Start, PolicyStops, PolicyErrs, PolicyProposes, CandidatesSpent, Asking,
     AdmissionStops, Reject, Admit, Admissible, Reuse, ReserveEnvironment, NeedsEnvironment, Block,
     environmentVars, runVars
<1>3. CASE EnvironmentRefused \/ ProvisionFails \/ AcceptReceipt \/ ReserveCommand
             \/ KeepConstruction \/ VerifierFailed \/ Complete
  BY <1>3, <1>a, <1>b DEF EnvironmentRefused, ProvisionFails, NeedsEnvironment, AcceptReceipt,
     ReserveCommand, KeepConstruction, VerifierFailed, Complete, Abandon, Block, environmentVars,
     runVars
<1>4. CASE StartReplay \/ JudgeStops \/ Accept \/ JudgeFailed \/ Feed \/ FeedStops
  BY <1>4, <1>a, <1>b DEF StartReplay, JudgeStops, Accept, JudgeFailed, Feed, FeedStops, Judging,
     Continue, Block, environmentVars, runVars
<1>5. CASE Provision
  <2>1. PICK e \in Environment :
          /\ lease[e] \in {"absent", "released", "leaked"}
          /\ lease' = [lease EXCEPT ![e] = "leased"]
          /\ hosted' = [hosted EXCEPT ![e] = {}]
    BY <1>5 DEF Provision, Offered
  <2>2. persistent' = persistent /\ Delivered' = Delivered
    BY <1>5, <1>a DEF Provision, runVars
  <2>3. Cardinality(Promise!Leased) < IF persistent THEN 2 ELSE 1
    <3>1. \A f \in Environment : lease[f] = "leased" => f = loop.retained
      BY <1>0, <1>5 DEF Provision, Tenancy, Using
    <3>2. ~persistent => loop.retained = NoEnvironment
      BY <1>0 DEF Tenancy
    <3>3. CASE loop.retained = NoEnvironment
      <4>1. Promise!Leased = {}
        BY <1>0, <3>1, <3>3 DEF Promise!Leased
      <4> QED BY <4>1, FS_EmptySet
    <3>4. CASE loop.retained # NoEnvironment
      <4>1. Promise!Leased \subseteq {loop.retained}
        BY <3>1 DEF Promise!Leased
      <4>2. Cardinality(Promise!Leased) <= 1
        <5>1. IsFiniteSet({loop.retained}) /\ Cardinality({loop.retained}) = 1
          BY FS_Singleton
        <5>2. Cardinality(Promise!Leased) \in Nat /\ Cardinality(Promise!Leased) <= 1
          BY <4>1, <5>1, FS_Subset, FS_CardinalityType
        <5> QED BY <5>2
      <4>3. Cardinality(Promise!Leased) \in Nat
        BY <4>1, FS_Singleton, FS_Subset, FS_CardinalityType
      <4> QED BY <3>2, <3>4, <4>2, <4>3
    <3> QED BY <3>3, <3>4
  <2>4. UNCHANGED <<IF persistent THEN 2 ELSE 1, Delivered>>
    BY <2>2
  <2>5. Promise!Cardinality(Promise!Leased) = Cardinality(Promise!Leased)
    BY DEF Promise!Cardinality, Cardinality
  <2>6. Promise!Provision(e)
    BY <2>1, <2>3, <2>4, <2>5, Zenon DEF Promise!Provision
  <2> QED BY <2>6 DEF Promise!Next
<1>6. CASE RefuseReceipt \/ CommandRefused
  <2>1. PICK released \in BOOLEAN : Release(round.environment, released)
    BY <1>6 DEF RefuseReceipt, CommandRefused
  <2>2. round.environment \in Environment /\ lease[round.environment] = "leased"
    BY <1>0, <1>6 DEF RefuseReceipt, CommandRefused, Tenancy, Using, LoopShape, Housed
  <2> QED
    BY <1>6, <1>a, <1>c, <2>1, <2>2 DEF RefuseReceipt, CommandRefused, Abandon, Block, runVars
<1>7. CASE Verify
  <2>1. round.environment \in Environment /\ lease[round.environment] = "leased"
    BY <1>0, <1>7 DEF Verify, Tenancy, Using, LoopShape, Housed
  <2>2. round.action \in Action /\ round.action \notin hosted[round.environment]
    BY <1>0, <1>7, HostedOnce DEF Verify, LoopShape, Counted, Rounds
  <2> QED
    BY <1>7, <1>a, <2>1, <2>2 DEF Verify, runVars, Promise!Next, Promise!Host
<1>8. CASE SettleFresh \/ DropConstruction \/ DropFails
  <2>1. PICK released \in BOOLEAN : Release(round.environment, released)
    BY <1>8 DEF SettleFresh, DropConstruction, DropFails
  <2>2. round.environment \in Environment /\ lease[round.environment] = "leased"
    BY <1>0, <1>8 DEF SettleFresh, DropConstruction, DropFails, Tenancy, Using, LoopShape, Housed
  <2>3. pc # "returned" /\ pc' # "returned" /\ UNCHANGED <<hosted, persistent>>
    BY <1>8 DEF SettleFresh, DropConstruction, DropFails, Abandon, Block, runVars
  <2> QED BY <1>a, <1>c, <2>1, <2>2, <2>3
<1>9. CASE ReleaseRetained
  <2>1. pc # "returned" /\ pc' # "returned" /\ UNCHANGED <<hosted, persistent>>
    BY <1>9 DEF ReleaseRetained, runVars
  <2>2. CASE loop.retained = NoEnvironment
    BY <1>9, <1>a, <1>b, <2>1, <2>2 DEF ReleaseRetained
  <2>3. CASE loop.retained # NoEnvironment
    <3>1. PICK released \in BOOLEAN : Release(loop.retained, released)
      BY <1>9, <2>3 DEF ReleaseRetained
    <3>2. loop.retained \in Environment /\ lease[loop.retained] = "leased"
      BY <1>0, <2>3 DEF Tenancy
    <3> QED BY <1>a, <1>c, <2>1, <3>1, <3>2
  <2> QED BY <2>2, <2>3
<1>10. CASE Report
  <2>1. pc = "reporting" /\ pc' = "returned" /\ UNCHANGED <<result, lease, hosted, persistent>>
    BY <1>10 DEF Report, environmentVars, runVars
  <2>2. CASE result.certification = "certified"
    <3>1. /\ result.action \in Action /\ result.environment \in Environment
          /\ hosted[result.environment] = {result.action} /\ lease[result.environment] = "released"
      BY <1>0, <2>1, <2>2 DEF Certification, Ending
    <3>2. Delivered = Undelivered /\ Delivered' = <<result.action, result.environment>>
      BY <2>1, <2>2 DEF Delivered
    <3>3. Promise!Deliver(result.environment, result.action)
      BY <2>1, <3>1, <3>2 DEF Promise!Deliver
    <3> QED BY <3>1, <3>3 DEF Promise!Next
  <2>3. CASE result.certification # "certified"
    <3>1. Delivered' = Delivered
      BY <2>1, <2>3 DEF Delivered
    <3> QED BY <1>b, <2>1, <3>1
  <2> QED BY <2>2, <2>3
<1>11. CASE Crash
  <2>1. Delivered' = Delivered
    BY <1>11, <1>a DEF Crash
  <2>2. hosted' = hosted /\ persistent' = persistent
    BY <1>11 DEF Crash, runVars
  <2>3. lease' = [e \in Environment |-> IF lease[e] = "leased" THEN "orphaned" ELSE lease[e]]
    BY <1>11 DEF Crash
  <2>4. Promise!Lose
    BY <2>1, <2>2, <2>3 DEF Promise!Lose
  <2> QED BY <2>4 DEF Promise!Next
<1>12. CASE TimePasses
  BY <1>12, <1>b DEF TimePasses, environmentVars, runVars, Delivered
<1>13. CASE Escape
  BY <1>13, <1>a, <1>b DEF Escape, environmentVars, runVars
<1> QED
  BY <1>1, <1>2, <1>3, <1>4, <1>5, <1>6, <1>7, <1>8, <1>9, <1>10, <1>11, <1>12, <1>13
     DEF LoopNext, LoopStep

-----------------------------------------------------------------------------
(* The budget                                                              *)

Provided == {e \in Environment : lease[e] # "absent"}
Executed == UNION {hosted[e] : e \in Environment}
Logged == {c \in Candidate : Present(c)}

\* The reservation that is made and not used yet counts as used.
Covered ==
  /\ \A scope \in Scope : spent[scope] <= Limit[scope]
  /\ Cardinality(Provided) + (IF pc = "provisioning" THEN 1 ELSE 0) <= spent["environments"]
  /\ Cardinality(Executed) + (IF pc = "verifying" THEN 1 ELSE 0) <= spent["commands"]
  /\ Cardinality(Logged) <= spent["candidates"]

LEMMA FiniteParts ==
  ASSUME LoopShape
  PROVE  /\ IsFiniteSet(Provided) /\ IsFiniteSet(Executed) /\ IsFiniteSet(Logged)
         /\ Cardinality(Provided) \in Nat /\ Cardinality(Executed) \in Nat
         /\ Cardinality(Logged) \in Nat
<1>1. IsFiniteSet(Environment) /\ IsFiniteSet(Candidate)
  BY LoopAssumption, FS_Interval DEF Environment, Candidate
<1>2. IsFiniteSet(Role)
  <2>1. Role = {"candidate"} \cup {"replay"}
    BY DEF Role
  <2>2. IsFiniteSet({"candidate"}) /\ IsFiniteSet({"replay"})
    BY FS_Singleton
  <2> QED BY <2>1, <2>2, FS_Union
<1>3. IsFiniteSet(Action)
  BY <1>1, <1>2, FS_Product DEF Action
<1>4. Provided \subseteq Environment /\ Logged \subseteq Candidate /\ Executed \subseteq Action
  BY DEF Provided, Logged, Executed, LoopShape, LoopTypeOK
<1>5. IsFiniteSet(Provided) /\ IsFiniteSet(Executed) /\ IsFiniteSet(Logged)
  BY <1>1, <1>3, <1>4, FS_Subset
<1> QED BY <1>5, FS_CardinalityType

LEMMA OneMore ==
  ASSUME NEW S, IsFiniteSet(S), NEW x, NEW T, T \subseteq S \cup {x}
  PROVE  Cardinality(T) \in Nat /\ Cardinality(T) <= Cardinality(S) + 1
<1>1. IsFiniteSet(S \cup {x}) /\ Cardinality(S \cup {x}) <= Cardinality(S) + 1
  <2>1. /\ IsFiniteSet(S \cup {x}) /\ Cardinality(S) \in Nat
        /\ Cardinality(S \cup {x}) = IF x \in S THEN Cardinality(S) ELSE Cardinality(S) + 1
    BY FS_AddElement, FS_CardinalityType
  <2> QED BY <2>1
<1>2. IsFiniteSet(T) /\ Cardinality(T) <= Cardinality(S \cup {x})
  BY <1>1, FS_Subset
<1>3. {Cardinality(T), Cardinality(S), Cardinality(S \cup {x})} \subseteq Nat
  BY <1>1, <1>2, FS_CardinalityType
<1> QED BY <1>1, <1>2, <1>3

LEMMA CoveredInit == LoopInit => Covered
<1> SUFFICES ASSUME LoopInit PROVE Covered
  OBVIOUS
<1>1. Provided = {} /\ Executed = {}
  BY DEF LoopInit, Provided, Executed
<1>2. Logged = {}
  BY DEF LoopInit, Logged, Present, Action, Role
<1> QED BY <1>1, <1>2, FS_EmptySet, LoopAssumption DEF LoopInit, Covered, Scope

\* A step that uses nothing, or reserves what it may still use.
LEMMA CoveredKept ==
  ASSUME LoopShape, LoopShape', Covered, Provided' \subseteq Provided, Executed' \subseteq Executed,
         Logged' \subseteq Logged,
         NEW scope \in Scope,
         \/ spent' = spent /\ pc' \notin {"provisioning", "verifying"}
         \/ spent' = spent /\ pc' = pc
         \/ /\ ~Exhausted(scope) /\ Reserve(scope)
            /\ pc' = "provisioning" => scope = "environments"
            /\ pc' = "verifying" => scope = "commands"
  PROVE  Covered'
<1>1. spent \in [Scope -> Nat] /\ Limit \in [Scope -> Nat \ {0}]
  BY LoopAssumption DEF LoopShape, LoopTypeOK
<1>2. /\ Cardinality(Provided') <= Cardinality(Provided)
      /\ Cardinality(Executed') <= Cardinality(Executed)
      /\ Cardinality(Logged') <= Cardinality(Logged)
      /\ {Cardinality(Provided), Cardinality(Executed), Cardinality(Logged)} \subseteq Nat
      /\ {Cardinality(Provided'), Cardinality(Executed'), Cardinality(Logged')} \subseteq Nat
  <2>1. /\ IsFiniteSet(Provided') /\ IsFiniteSet(Executed') /\ IsFiniteSet(Logged')
        /\ Cardinality(Provided') <= Cardinality(Provided)
        /\ Cardinality(Executed') <= Cardinality(Executed)
        /\ Cardinality(Logged') <= Cardinality(Logged)
    BY FiniteParts, FS_Subset
  <2> QED BY <2>1, FiniteParts, FS_CardinalityType
<1>3. CASE spent' = spent
  <2>1. ~Reserve(scope)
    BY <1>1, <1>3 DEF Reserve
  <2>2. pc' = pc \/ pc' \notin {"provisioning", "verifying"}
    BY <2>1
  <2>3. Cardinality(Provided') + (IF pc' = "provisioning" THEN 1 ELSE 0) <= spent'["environments"]
    BY <1>1, <1>2, <1>3, <2>2 DEF Covered, Scope
  <2>4. Cardinality(Executed') + (IF pc' = "verifying" THEN 1 ELSE 0) <= spent'["commands"]
    BY <1>1, <1>2, <1>3, <2>2 DEF Covered, Scope
  <2>5. Cardinality(Logged') <= spent'["candidates"]
    BY <1>1, <1>2, <1>3 DEF Covered, Scope
  <2> QED BY <1>3, <2>3, <2>4, <2>5 DEF Covered
<1>4. CASE ~Exhausted(scope) /\ Reserve(scope) /\ spent' # spent
  <2>1. \A other \in Scope : spent'[other] = IF other = scope THEN spent[other] + 1 ELSE spent[other]
    BY <1>1, <1>4 DEF Reserve
  <2>2. spent[scope] < Limit[scope]
    BY <1>1, <1>4 DEF Exhausted
  <2>3. \A other \in Scope : spent'[other] <= Limit[other]
    BY <1>1, <2>1, <2>2 DEF Covered
  <2>4. Cardinality(Provided') + (IF pc' = "provisioning" THEN 1 ELSE 0) <= spent'["environments"]
    BY <1>1, <1>2, <1>4, <2>1 DEF Covered, Scope
  <2>5. Cardinality(Executed') + (IF pc' = "verifying" THEN 1 ELSE 0) <= spent'["commands"]
    BY <1>1, <1>2, <1>4, <2>1 DEF Covered, Scope
  <2>6. Cardinality(Logged') <= spent'["candidates"]
    BY <1>1, <1>2, <2>1 DEF Covered, Scope
  <2> QED BY <2>3, <2>4, <2>5, <2>6 DEF Covered
<1> QED BY <1>3, <1>4

LEMMA CoveredNext ==
  ASSUME LoopInv, Covered, [LoopNext]_loopVars
  PROVE  Covered'
<1>0. /\ LoopShape /\ LoopShape' /\ Tenancy /\ History
      /\ spent \in [Scope -> Nat] /\ spent' \in [Scope -> Nat] /\ Limit \in [Scope -> Nat \ {0}]
      /\ lease \in [Environment -> {"absent", "leased", "released", "leaked", "orphaned"}]
      /\ hosted \in [Environment -> SUBSET Action]
  BY ShapeNext, LoopAssumption DEF LoopInv, LoopShape, LoopTypeOK
<1>a. /\ UNCHANGED lease => Provided' \subseteq Provided
      /\ UNCHANGED hosted => Executed' \subseteq Executed
      /\ UNCHANGED actions => Logged' \subseteq Logged
  BY DEF Provided, Executed, Logged, Present
<1>b. ASSUME NEW e \in Environment, lease[e] = "leased", NEW released \in BOOLEAN, Release(e, released)
      PROVE  Provided' \subseteq Provided
  BY <1>0, <1>b DEF Release, Provided
<1>c. ASSUME pc \in Rounds \ {"admitting"}, NEW status \in {"running", "succeeded", "failed"},
             NEW a, a = round.action \/ a = <<Number(round.action), "replay">>,
             actions' = [actions EXCEPT ![a] = status]
      PROVE  Logged' \subseteq Logged
  BY <1>0, <1>c, PresentSame DEF Logged
<1>d. Using /\ pc \in Rounds => round.environment \in Environment /\ lease[round.environment] = "leased"
  BY <1>0 DEF Tenancy, Using, LoopShape, Housed
<1>e. ASSUME Provided' \subseteq Provided, Executed' \subseteq Executed, Logged' \subseteq Logged,
             NEW scope \in Scope,
             \/ spent' = spent /\ pc' \notin {"provisioning", "verifying"}
             \/ spent' = spent /\ pc' = pc
             \/ /\ ~Exhausted(scope) /\ Reserve(scope)
                /\ pc' = "provisioning" => scope = "environments"
                /\ pc' = "verifying" => scope = "commands"
      PROVE  Covered'
  BY <1>0, <1>e, CoveredKept
<1>f. "requests" \in Scope /\ "candidates" \in Scope /\ "environments" \in Scope /\ "commands" \in Scope
  BY DEF Scope
<1>1. CASE UNCHANGED loopVars
  BY <1>1, <1>a, <1>e, <1>f DEF loopVars, logVars, environmentVars, budgetVars
<1>2. CASE Start \/ CandidatesSpent \/ Reuse \/ AcceptReceipt \/ KeepConstruction
  BY <1>2, <1>a, <1>e, <1>f DEF Start, CandidatesSpent, Reuse, AcceptReceipt, KeepConstruction,
     logVars, environmentVars, budgetVars
<1>3. CASE PolicyStops \/ PolicyErrs \/ PolicyProposes
  <2>1. /\ UNCHANGED <<actions, lease, hosted>> /\ pc' \notin {"provisioning", "verifying"}
        /\ spent' = spent \/ (~Exhausted("requests") /\ Reserve("requests"))
    BY <1>3, <1>f DEF PolicyStops, PolicyErrs, PolicyProposes, CanRequest, Block, logVars,
       environmentVars
  <2> QED BY <1>a, <1>e, <1>f, <2>1
<1>4. CASE AdmissionStops
  <2>1. /\ UNCHANGED <<actions, lease, hosted>> /\ pc' \notin {"provisioning", "verifying"}
        /\ spent' = spent \/ (~Exhausted("candidates") /\ Reserve("candidates"))
    BY <1>4 DEF AdmissionStops, Block, environmentVars
  <2> QED BY <1>a, <1>e, <1>f, <2>1
<1>5. CASE Reject \/ Admit
  <2>1. /\ ~Exhausted("candidates") /\ Reserve("candidates") /\ UNCHANGED <<lease, hosted>>
        /\ pc' \notin {"provisioning", "verifying"} /\ pc = "admitting"
    BY <1>5 DEF Reject, Admit, Admissible, environmentVars
  <2>2. Logged' \subseteq Logged \cup {Number(round.action)}
    <3>1. PICK status \in {"running", "failed"} :
            actions' = [actions EXCEPT ![round.action] = status]
      BY <1>5 DEF Reject, Admit
    <3>2. ASSUME NEW c \in Candidate, c # Number(round.action)
          PROVE  actions'[<<c, "candidate">>] = actions[<<c, "candidate">>]
      <4>1. <<c, "candidate">> # round.action /\ <<c, "candidate">> \in Action
        BY <1>0, <2>1, <3>2, RoundAction DEF Rounds, Role
      <4> QED BY <1>0, <3>1, <4>1 DEF LoopShape, LoopTypeOK
    <3> QED BY <3>2 DEF Logged, Present
  <2>3. Cardinality(Logged') <= Cardinality(Logged) + 1
    BY <1>0, <2>2, FiniteParts, OneMore
  <2>4. /\ Provided' = Provided /\ Executed' = Executed
        /\ {Cardinality(Provided), Cardinality(Executed), Cardinality(Logged),
            Cardinality(Logged')} \subseteq Nat
    <3>1. Provided' = Provided /\ Executed' = Executed
      BY <2>1 DEF Provided, Executed
    <3>2. {Cardinality(Provided), Cardinality(Executed), Cardinality(Logged)} \subseteq Nat
      BY <1>0, FiniteParts
    <3>3. Cardinality(Logged') \in Nat
      BY <1>0, <2>2, FiniteParts, OneMore
    <3> QED BY <3>1, <3>2, <3>3
  <2>5. /\ \A other \in Scope :
             spent'[other] = IF other = "candidates" THEN spent[other] + 1 ELSE spent[other]
        /\ spent["candidates"] < Limit["candidates"]
    BY <1>0, <2>1 DEF Reserve, Exhausted, Scope
  <2>6. \A scope \in Scope : spent'[scope] <= Limit[scope]
    BY <1>0, <2>5 DEF Covered, Scope
  <2>7. Cardinality(Provided') + (IF pc' = "provisioning" THEN 1 ELSE 0) <= spent'["environments"]
    BY <1>0, <2>1, <2>4, <2>5 DEF Covered, Scope
  <2>8. Cardinality(Executed') + (IF pc' = "verifying" THEN 1 ELSE 0) <= spent'["commands"]
    BY <1>0, <2>1, <2>4, <2>5 DEF Covered, Scope
  <2>9. Cardinality(Logged') <= spent'["candidates"]
    BY <1>0, <2>3, <2>4, <2>5 DEF Covered, Scope
  <2> QED BY <2>6, <2>7, <2>8, <2>9 DEF Covered
<1>6. CASE ReserveEnvironment
  BY <1>6, <1>a, <1>e, <1>f DEF ReserveEnvironment, logVars, environmentVars
<1>7. CASE ReserveCommand
  BY <1>7, <1>a, <1>e, <1>f DEF ReserveCommand, logVars, environmentVars
<1>8. CASE EnvironmentRefused \/ ProvisionFails \/ VerifierFailed \/ Complete
  <2>1. PICK status \in {"succeeded", "failed"} : actions' = [actions EXCEPT ![round.action] = status]
    BY <1>8 DEF EnvironmentRefused, ProvisionFails, VerifierFailed, Complete, Abandon
  <2>2. /\ UNCHANGED <<lease, hosted, spent>> /\ pc' \notin {"provisioning", "verifying"}
        /\ pc \in Rounds \ {"admitting"}
    BY <1>8 DEF EnvironmentRefused, ProvisionFails, NeedsEnvironment, VerifierFailed, Complete,
       Abandon, Block, Rounds, environmentVars, budgetVars
  <2> QED BY <1>a, <1>c, <1>e, <1>f, <2>1, <2>2
<1>9. CASE Provision
  <2>1. PICK e \in Environment :
          lease' = [lease EXCEPT ![e] = "leased"] /\ hosted' = [hosted EXCEPT ![e] = {}]
    BY <1>9 DEF Provision, Offered
  <2>2. pc = "provisioning" /\ pc' = "checking" /\ UNCHANGED <<actions, spent>>
    BY <1>9 DEF Provision, logVars, budgetVars
  <2>3. Provided' \subseteq Provided \cup {e} /\ Executed' \subseteq Executed
    BY <1>0, <2>1 DEF Provided, Executed
  <2>4. Cardinality(Provided') \in Nat /\ Cardinality(Provided') <= Cardinality(Provided) + 1
    BY <1>0, <2>3, FiniteParts, OneMore
  <2>5. Logged' = Logged /\ Cardinality(Executed') <= Cardinality(Executed)
    BY <1>0, <2>2, <2>3, FiniteParts, FS_Subset DEF Logged, Present
  <2>6. /\ {Cardinality(Provided), Cardinality(Executed), Cardinality(Logged)} \subseteq Nat
        /\ Cardinality(Executed') \in Nat
    BY <1>0, <2>3, FiniteParts, FS_Subset, FS_CardinalityType
  <2>7. Cardinality(Provided') + (IF pc' = "provisioning" THEN 1 ELSE 0) <= spent'["environments"]
    BY <1>0, <2>2, <2>4, <2>6 DEF Covered, Scope
  <2>8. Cardinality(Executed') + (IF pc' = "verifying" THEN 1 ELSE 0) <= spent'["commands"]
    BY <1>0, <2>2, <2>5, <2>6 DEF Covered, Scope
  <2> QED BY <2>2, <2>5, <2>7, <2>8 DEF Covered
<1>10. CASE RefuseReceipt \/ CommandRefused
  <2>1. /\ actions' = [actions EXCEPT ![round.action] = "failed"]
        /\ \E released \in BOOLEAN : Release(round.environment, released)
    BY <1>10 DEF RefuseReceipt, CommandRefused, Abandon
  <2>2. /\ UNCHANGED <<hosted, spent>> /\ pc' \notin {"provisioning", "verifying"}
        /\ Using /\ pc \in Rounds \ {"admitting"}
    BY <1>10 DEF RefuseReceipt, CommandRefused, Abandon, Block, Rounds, Using, budgetVars
  <2> QED BY <1>a, <1>b, <1>c, <1>d, <1>e, <1>f, <2>1, <2>2
<1>11. CASE Verify
  <2>1. /\ hosted' = [hosted EXCEPT ![round.environment] = @ \cup {round.action}]
        /\ pc = "verifying" /\ pc' = "settling" /\ UNCHANGED <<actions, spent, lease>>
    BY <1>11 DEF Verify, logVars, budgetVars
  <2>2. Executed' \subseteq Executed \cup {round.action}
    BY <1>0, <2>1 DEF Executed
  <2>3. Cardinality(Executed') \in Nat /\ Cardinality(Executed') <= Cardinality(Executed) + 1
    BY <1>0, <2>2, FiniteParts, OneMore
  <2>4. /\ Logged' = Logged /\ Provided' = Provided
        /\ {Cardinality(Provided), Cardinality(Executed), Cardinality(Logged)} \subseteq Nat
    BY <1>0, <2>1, FiniteParts DEF Logged, Present, Provided
  <2>5. Cardinality(Provided') + (IF pc' = "provisioning" THEN 1 ELSE 0) <= spent'["environments"]
    BY <1>0, <2>1, <2>4 DEF Covered, Scope
  <2>6. Cardinality(Executed') + (IF pc' = "verifying" THEN 1 ELSE 0) <= spent'["commands"]
    BY <1>0, <2>1, <2>3, <2>4 DEF Covered, Scope
  <2> QED BY <2>1, <2>4, <2>5, <2>6 DEF Covered
<1>12. CASE SettleFresh \/ DropConstruction
  <2>1. /\ UNCHANGED <<actions, hosted, spent>> /\ pc' \notin {"provisioning", "verifying"}
        /\ Using /\ pc \in Rounds /\ \E released \in BOOLEAN : Release(round.environment, released)
    BY <1>12 DEF SettleFresh, DropConstruction, Using, Rounds, logVars, budgetVars
  <2> QED BY <1>a, <1>b, <1>d, <1>e, <1>f, <2>1
<1>13. CASE DropFails
  <2>1. /\ UNCHANGED <<hosted, spent>> /\ pc' \notin {"provisioning", "verifying"}
        /\ Using /\ pc \in Rounds \ {"admitting"}
        /\ \E released \in BOOLEAN : Release(round.environment, released)
        /\ actions' = actions \/ actions' = [actions EXCEPT ![round.action] = "failed"]
    BY <1>13 DEF DropFails, Abandon, Block, Using, Rounds, budgetVars
  <2> QED BY <1>a, <1>b, <1>c, <1>d, <1>e, <1>f, <2>1
<1>14. CASE StartReplay
  <2>1. /\ UNCHANGED <<lease, hosted, spent>> /\ pc' \notin {"provisioning", "verifying"}
        /\ pc \in Rounds \ {"admitting"}
        /\ actions' = [actions EXCEPT ![<<Number(round.action), "replay">>] = "running"]
    BY <1>14 DEF StartReplay, Judging, Rounds, environmentVars, budgetVars
  <2> QED BY <1>a, <1>c, <1>e, <1>f, <2>1
<1>15. CASE JudgeStops \/ Accept \/ JudgeFailed \/ Feed \/ FeedStops \/ Report
  <2>1. /\ UNCHANGED <<actions, lease, hosted, spent>> /\ pc' \notin {"provisioning", "verifying"}
    BY <1>15 DEF JudgeStops, Accept, JudgeFailed, Feed, FeedStops, Report, Judging, Block, Continue,
       logVars, environmentVars, budgetVars
  <2> QED BY <1>a, <1>e, <1>f, <2>1
<1>16. CASE ReleaseRetained
  <2>1. Provided' \subseteq Provided
    <3>1. CASE loop.retained = NoEnvironment
      BY <1>16, <1>a, <3>1 DEF ReleaseRetained
    <3>2. CASE loop.retained # NoEnvironment
      <4>1. loop.retained \in Environment /\ lease[loop.retained] = "leased"
        BY <1>0, <3>2 DEF Tenancy, LoopShape, LoopTypeOK, LoopState
      <4>2. PICK released \in BOOLEAN : Release(loop.retained, released)
        BY <1>16, <3>2 DEF ReleaseRetained
      <4> QED BY <1>b, <4>1, <4>2
    <3> QED BY <3>1, <3>2
  <2>2. UNCHANGED <<actions, hosted, spent>> /\ pc' \notin {"provisioning", "verifying"}
    BY <1>16 DEF ReleaseRetained, logVars, budgetVars
  <2> QED BY <1>a, <1>e, <1>f, <2>1, <2>2
<1>17. CASE Crash
  <2>1. Provided' \subseteq Provided
    BY <1>0, <1>17 DEF Crash, Provided
  <2>2. UNCHANGED <<actions, hosted, spent>> /\ pc' \notin {"provisioning", "verifying"}
    BY <1>17 DEF Crash, logVars, budgetVars
  <2> QED BY <1>a, <1>e, <1>f, <2>1, <2>2
<1>18. CASE TimePasses
  BY <1>18, <1>a, <1>e, <1>f DEF TimePasses, logVars, environmentVars
<1>19. CASE Escape
  BY <1>19, <1>a, <1>e, <1>f DEF Escape, logVars, environmentVars, budgetVars
<1> QED
  BY <1>1, <1>2, <1>3, <1>4, <1>5, <1>6, <1>7, <1>8, <1>9, <1>10, <1>11, <1>12, <1>13, <1>14,
     <1>15, <1>16, <1>17, <1>18, <1>19 DEF LoopNext, LoopStep

-----------------------------------------------------------------------------
(* What a run shows on a small instance, for every loop                    *)

LEMMA LoopInvariant == LoopSpec => [](LoopInv /\ Covered)
<1>1. LoopInit => LoopInv /\ Covered
  BY LoopInvInit, CoveredInit
<1>2. LoopInv /\ Covered /\ [LoopNext]_loopVars => (LoopInv /\ Covered)'
  BY LoopInvNext, CoveredNext
<1> QED BY <1>1, <1>2, PTL DEF LoopSpec

\* When run() returns - accepted, blocked, out of budget, after a release that
\* raised or a crash of an earlier run - it has given every environment up, and
\* whenever it asks the policy again, every one but the retained.  Of a run()
\* that an exception leaves, or that dies, it says nothing.
THEOREM LoopReturnsEnvironments == LoopSpec => []EnvironmentsReturned
<1>1. LoopInv => EnvironmentsReturned
  BY DEF LoopInv, LoopShape, LoopTypeOK, Tenancy, Using, EnvironmentsReturned, Environment,
     NoEnvironment
<1> QED BY <1>1, LoopInvariant, PTL

\* The loop reserves in the ledger before it leases, executes and writes a
\* candidate: no interleaving of failures, replays and restarts on the log
\* uses what was not reserved, or reserves past a limit.
THEOREM LoopReservesFirst == LoopSpec => []ReservationsCover
<1>1. ASSUME LoopInv, Covered PROVE ReservationsCover
  <2>1. /\ spent \in [Scope -> Nat] /\ loop.attempted <= MaxCandidates
        /\ {Cardinality(Provided), Cardinality(Executed), Cardinality(Logged)} \subseteq Nat
    BY <1>1, FiniteParts DEF LoopInv, LoopShape, LoopTypeOK, Counted
  <2>2. /\ Cardinality(Provided) <= spent["environments"]
        /\ Cardinality(Executed) <= spent["commands"]
    BY <1>1, <2>1 DEF Covered, Scope
  <2> QED
    BY <1>1, <2>1, <2>2 DEF Covered, ReservationsCover, Provided, Executed, Logged, Present
<1> QED BY <1>1, LoopInvariant, PTL

\* environment_ids is rebuilt from the log when a run starts again on it, so a
\* fresh execution is never verified where another one was.
THEOREM LoopVerifiesApart == LoopSpec => []VerifiedInOwnEnvironment
<1>1. LoopInv => VerifiedInOwnEnvironment
  BY DEF LoopInv, OwnEnvironments
<1> QED BY <1>1, LoopInvariant, PTL

\* The retained environment is kept only after verify found its state reusable
\* and the verification is recorded before it hosts the next candidate.
THEOREM LoopReusesOnlyReusable == LoopSpec => []ReusedOnlyWhenReusable
<1>1. ASSUME LoopInv PROVE ReusedOnlyWhenReusable
  <2>1. SUFFICES ASSUME pc = "verifying", NEW a \in hosted[round.environment]
                 PROVE  Vouched(a, round.environment)
    BY DEF ReusedOnlyWhenReusable, Vouched
  <2>2. Constructing
    BY <1>1, <2>1 DEF LoopInv, Vouching
  <2>3. round.environment = loop.retained /\ loop.retained # NoEnvironment
    BY <1>1, <2>1, <2>2 DEF LoopInv, Tenancy, LoopShape, Housed, Environment, NoEnvironment
  <2> QED BY <1>1, <2>1, <2>3 DEF LoopInv, Vouching, Unrecorded
<1> QED BY <1>1, LoopInvariant, PTL

\* No path back to the policy - a rejected candidate, a conflict, a hypothesis,
\* with or without a replay - leaves a candidate running, uncounted, passed or
\* without the failure the next proposal is to read.
THEOREM LoopFeedsBackFirst == LoopSpec => []FeedbackPrecedesProposal
<1>1. ASSUME LoopInv PROVE FeedbackPrecedesProposal
  <2>1. SUFFICES ASSUME pc = "proposing"
                 PROVE  /\ loop.attempted = loop.next - 1
                        /\ \A c \in Candidate : c < loop.next => Explained(c)
    BY DEF FeedbackPrecedesProposal, Explained
  <2>2. loop.next = loop.attempted + 1 /\ loop.attempted \in Nat
    BY <1>1, <2>1 DEF LoopInv, LoopShape, LoopTypeOK, LoopState, Counted
  <2>3. \A c \in Candidate : c < loop.next => Explained(c)
    BY <1>1, <2>1 DEF LoopInv, History
  <2> QED BY <2>2, <2>3
<1> QED BY <1>1, LoopInvariant, PTL

\* run() returns "certified" only with the recorded pass of an execution that
\* had an environment to itself, after the construction it replays was verified
\* elsewhere; and only then _finish satisfies the goal.
THEOREM LoopVerdictIsVerified == LoopSpec => []VerdictIsVerified
<1>1. LoopInv => VerdictIsVerified
  BY DEF LoopInv, Certification, Ending, VerdictIsVerified
<1> QED BY <1>1, LoopInvariant, PTL

\* The admissible candidate that is delivered when the candidates are spent is
\* the earliest of the best the log knows, also on the log of an earlier run.
THEOREM LoopDeliversBest == LoopSpec => []UncertifiedIsBest
<1>1. ASSUME LoopInv PROVE UncertifiedIsBest
  <2>1. SUFFICES ASSUME pc = "returned", result.certification = "uncertified"
                 PROVE  /\ Retain /\ loop.attempted = MaxCandidates
                        /\ \E v \in Ranked :
                             /\ v.action = result.action /\ v.environment = result.environment
                             /\ \A w \in Ranked :
                                  \/ v.rank < w.rank
                                  \/ v.rank = w.rank /\ Number(v.action) <= Number(w.action)
    BY DEF UncertifiedIsBest
  <2>2. loop.attempted = MaxCandidates /\ Leading(result) /\ result # Nothing
    BY <1>1, <2>1 DEF LoopInv, Ladder, Ending, Nothing, Delivery
  <2>3. PICK v \in Ranked :
          v.action = result.action /\ v.environment = result.environment /\ v.rank = result.rank
    BY <2>2 DEF Leading
  <2>4. \A w \in Ranked :
          v.rank < w.rank \/ (v.rank = w.rank /\ Number(v.action) <= Number(w.action))
    BY <2>2, <2>3 DEF Leading, Number
  <2> QED BY <2>2, <2>3, <2>4 DEF Leading
<1> QED BY <1>1, LoopInvariant, PTL

\* The loop, with every failure and crash, implements CertifiedDelivery: each
\* environment is used within one lease and given up once, no more than its
\* share are leased at a time, and what is delivered ran alone.
THEOREM LoopDelivers == LoopSpec => DeliversAsPromised
<1>1. LoopInv /\ [LoopNext]_loopVars => [Promise!Next]_(Promise!vars)
  BY PromiseNext
<1> QED BY <1>1, PromiseInit, LoopInvariant, PTL DEF LoopSpec, DeliversAsPromised, Promise!Spec

=============================================================================
