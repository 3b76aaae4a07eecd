# Verification of EnvSolve

EnvSolve asks a language model for installation scripts ("candidates"), runs each in a Docker
environment, turns what a verifier says about it into typed constraints, and goes on until a
candidate passes, the budget is spent or the failure cannot be explained. Everything it does is
recorded as events of an append-only log, from which its state is reconstructed.

These modules model the part of the repository where that can go wrong in ways a unit test hardly
reaches: the event log and its file, the sessions and loops that write it, the life of an
environment between lease and release, the constraint store the evidence accumulates in, the
ledger that limits it all, the schedule that runs one such episode after the other in processes of
their own, and the model session that replays its programs before it submits one. `PROJECT.json` gives, for each definition, the source lines it
translates; the paths below are relative to `src/`.

Contents: 1 the system; 2 what is hard; 3 the modules; 4 the runs; 5 fairness; 6 the proofs;
7 what is only model-checked; 8 abstractions and assumptions; 9 where code and documents
disagree; 10 what is not modelled; 11 where it could grow.

## 1. The system

| component | state it keeps | operations | talks to |
| --- | --- | --- | --- |
| events and reducer, `envsolve/state/events.py`, `reducer.py` | none (pure) | `apply_event`, `reduce_events`, hashing | called by the store |
| event store, `envsolve/state/store.py` | one JSONL file; per object a signature and a cached state | `read`, `reconstruct`, `append` under `flock` | other processes, through the file |
| session, `envsolve/solver/session.py` | snapshot file, run identifier | `start`, `upsert_*`, `record_*`, `execute_action`, `refresh_snapshot` | event store |
| stateful loop, `envsolve/solver/loop.py` | counter of executed actions | `run` | policy, executor, session |
| command line, `experiments/state_log.py` | none | `init`, `append`, `snapshot` | event store, past any session |
| audit, `envsolve/state/audit.py` | none | `audit_state_artifacts` | log and snapshot |
| deployment loop, `envsolve/solver/counterexample.py`, `transitions.py` | attempts, known environment identities, retained lease, best admissible candidate | `run`, `_finish`, `_block` | policy, validator, guard, provider, verifier, budget, session, constraint engine |
| docker provider, `envsolve/runtime/docker.py` | containers and checkouts | `provision`, `release` | docker, git |
| model policy, `envsolve/runtime/policy.py` | candidate counter | `propose` | chat model |
| constraint engine, `envsolve/constraints/` | none; it reads and writes the `constraint` records of the state | `ingest_evidence`, `supersede_*`, `solve`, `propagate_constraints` | session |
| initial evidence, `envsolve_harness/runners/envsolve.py` | none | admission before the loop | session, constraint engine |
| budget ledger, `envsolve_harness/budget/ledger.py` | one JSON file; per object a copy | `preflight`, `reserve_*`, `record_*`, `finalize` | the loop's object and the model's, through the file |
| budgeted model, `envsolve_harness/budget/langchain.py` | the request in progress | `invoke`, callback, retries | ledger, provider |
| schedule coordinator, `experiments/run_schedule.py`, `envsolve_harness/execution/schedule.py`, `batch.py` | the progress file; the episode process it waits for | `recover_orphans`, `begin`, `run_scheduled_process`, `complete` | episode processes (a signal, an exit code), containers, the run directories |
| episode, `experiments/run_case.py`, `storage/`, `adapters/envbench.py` | one run directory: manifest, status, evaluation claim | `RunArtifacts.create`, `update_manifest`, `evaluate` | the solver, the evaluator, its heartbeat |
| heartbeat, `execution/heartbeat.py` | a thread, its lock and `heartbeat.jsonl` | `start`, `_run`, `_append`, `stop` | the episode's main thread |
| audit and eligibility, `envsolve_harness/audit.py`, `eligibility.py`, `results.py` | none | `audit_run`, `assess_scientific_eligibility` | run directories, after the fact |
| clean replay service, `codex/minimal_b_mcp.py` | `replays.jsonl`, `certification.json`, `programs/`, the environment of the replay | `submit` | validator, provider, verifier |
| model session, `runners/openrouter_agent.py` | requests, incumbent and current program, the submission | `run`, its tools | provider, shell, replay service |

How they interact. The runner builds a session over an event store, admits the initial evidence,
and hands the loop a policy, a provider, a verifier and a budget. Inside `run()` every component is
called synchronously and may raise. The session turns each call into one or more appended events
and replaces the snapshot after each. The policy spends from the ledger through a callback while
the loop reserves from the same file through an object of its own. The verifier's evidence comes
back into the loop, is ingested into the store of constraints, and the propagated statuses decide
whether another candidate is asked for.

Above all this, a coordinator starts one process per position of a frozen schedule, in a session of
its own, waits for it with a deadline, and writes the outcome to a progress file. The two share
nothing but the file system: a run directory, written by the episode's main thread and its heartbeat
thread, that the coordinator may mark as interrupted and that the audit reads later. The model
session is another solver of an episode: it may ask the replay service to run a program in a fresh
environment, and what it submits is checked against the service's certificates and trace.

What makes each part correct:

- **Log.** One hash chain from `run_started` on; every event cites only what it introduced before;
  the metadata of an object name its last writer; an action is proposed, started and ended in that
  order and once.
- **Store.** No process builds an event on a state the file does not have, whatever it has cached
  and however its last write failed; nothing is added behind a half-written line.
- **Sessions.** The snapshot is the reconstruction; every action is ended, with its result; an
  action has one driver; a run ends.
- **Deployment loop.** Every lease has ended when `run()` returns a result; nothing is used without a reservation; a
  certified candidate ran alone in an environment of its own; a retained environment is used again
  only when the verifier vouched for it; the policy sees a failure before it is asked again; the
  loop ends.
- **Constraints.** Statuses in the log are those the solver gives; observations of two candidates
  are never compared; a complete report replaces the earlier ones; no evidence is lost.
- **Ledger.** Use acknowledged to a caller is never lost; its counters agree with each other; no
  limit is passed by more than one response; `finalize` is final.
- **Episode.** A run directory is evaluated once; a run that finished passes for eligible, and one
  that was cut short anywhere does not.
- **Schedule.** Positions begin once and in turn; an outcome belongs to a process that is gone; what
  is marked interrupted stays so and never had a result; a success on record is one that counts.
- **Model session.** A certificate has its trace record and its released environment; the incumbent
  is the newest certified program; what is delivered ran alone in an environment of its own; the
  session comes to its teardown.

## 2. What is hard

The list, line by line, is under `hazards` in `PROJECT.json`. In short:

- *interleaving*: two processes on one log; generated identifiers chosen before the append; the
  snapshot replaced after the append without a lock; two ledger objects on one file; a heartbeat
  thread that outlives its join; an orphaned episode beside the next coordinator's;
- *crashes and partial failure*: a writer dying in its line or failing to `fsync` a complete one, a
  run killed between starting and ending an action, a lease or release that raises, an alarm that
  interrupts a callback, a coordinator that dies before its episode, an episode that dies after its
  claim, a replay that passes and whose release fails;
- *stale state*: caches served by signature, ledger objects that must re-read, observations of an
  earlier candidate's environment, retained environments;
- *order*: retiring, merging and propagating constraints; recording a failure before asking again;
- *timeouts*: a hard timeout that fires while the episode records its result; a cap that cuts a model
  session short while a replay replaces its incumbent;
- *limits and termination*: reservations at the limit, retries, policy failures in a row, and that
  the loops end for every policy.

## 3. The modules

Each module starts with the file it translates. Actions carry the names of what they do in the
code; the comment above one says which calls it stands for. Operators whose comment starts with
"Mutant:" are plausible bugs of the definition they precede. No behaviour uses them; they show that
the property next to them in `PROJECT.json` can fail.

```
            ActionLifecycle                              CertifiedDelivery
                  ^ refines                          refines ^         ^ refines
EnvironmentState -> StateLog  <-refines-  EventStore     CounterexampleLoop  AgentLoop
                       ^                                       |                 ^ extends
                       | extends                 its Feed step v            CleanReplay
                  SolverSession         ConstraintEngine -> FeedbackRounds

             EpisodeRun -> Schedule  -refines-> FrozenSchedule           BudgetLedger
```

**EnvironmentState** is `reducer.py`: `Accepts` is the conjunction of the checks of `apply_event`
and its helpers, `ApplyEvent` what they assign. An object is a record of value, revision and
sequence number. Hashes are injective: an event's hash is the event's position and payload.

**StateLog** is what the store promises: `lines`, the events of the file, and `reduced`, what
`reduce_events` makes of them. Its only step appends an accepted payload. **ActionLifecycle** is the
life of an action without the log: absent, proposed, running, terminal.

**EventStore** is `store.py`. `tail` says how the file ends (newline, no newline, half an event, two
events glued to a line), `size` is the signature, `holder` the `flock`, `draft[p]` the event a
process built under the lock and has not written, `cache[p]` its cached signature and state. `append`
is `BeginAppend` (lock, load, validate, build) and one of `CommitAppend` and the four failures:
before the write, inside the line, before the newline and after it.

**SolverSession** is `session.py` and `loop.py`, several of them on one `StateLog`. A call is a list
of events (`todo`); for each event the session chooses identifiers (`Name`), appends (`AppendFirst`),
reconstructs (`Reduce`) and replaces the snapshot (`Replace`), and another process may act in
between. `Enter`, `Finish`, `Report`, `RejectDecision`, `Act` and `Execute` are the branches of
`StatefulSolverLoop.run`; `Crash` and `Reopen` kill and restart a process; `CommandLine` is
`state_log.py`.

**CounterexampleLoop** is `CounterexampleGuidedDeploymentLoop.run` for both environment strategies.
`pc` names the place in `run()`, `loop` holds its locals, `round` the candidate being driven. Each
call to the policy, ledger, provider, verifier or engine is a step with the answers it may give.
The session's events appear as the state they add up to (`actions`, `verifications`, `failures`,
`goal`). A clean replay goes through the same steps as its candidate, as an action of its own.
`Escape` is an exception that leaves `run()`, `Crash` the end of the process.
**CertifiedDelivery** is what it promises: leases that end once, at most one environment leased at a
time (two with a retained one), and a delivery of what ran alone in an environment that was released.

**ConstraintEngine** is `engine.py`, `models.py` and the outcome of `normalization.py` as operators
on a store, a function from the known constraints to their status, confidence and evidence:
`Ingest`, `Supersede`, `Conflict`, `Propagate`. **FeedbackRounds** is what the loop does with them
after a failed (`Fail`) and a passed (`Pass`) candidate, and the admission of initial evidence
(`RoundsInit`). It is the detail of the step `Feed` of `CounterexampleLoop`, which chooses freely
between the answers `FeedbackRounds` computes.

**BudgetLedger** is `ledger.py` and `JSONResponseRetryModel.invoke` with its callback. `file` is the
ledger file, `memory[o]` the copy of the loop's and the model's object. An operation works on
`Current(o)`, which is the file because `_resume_locked` reads it again; `Interrupted` is a deadline
alarm that rings inside an operation, before or after the file was replaced; `Restart` a process
that dies, also between two records that belong together (`Partial`).

**EpisodeRun** is one position's process: `run_case.py` and what it calls. `files` is the run directory
(manifest sections, status, claim, heartbeat file and its hash), `process` the main thread (`pc`), its
heartbeat thread (`thread`, `draft`) and the counter `_sequence` they share. `Create` to `Close` are
the writes of the main thread in their order, `ThreadWakes` to `ThreadCounts` a wait that ended and
one `_append` of the thread, `SetStop`, `Join`, `EndDrafts` and `EndWrites` are `stop()`, whose join may give up while the
thread holds the record it drafted. `Die` kills the process between any two of them. Several processes
may be started on one directory. `AuditValid` and `Eligible` are the checks of `audit_run` and
`assess_scientific_eligibility` that these writes can fail.

**Schedule** adds the coordinator: `Start` (`recover_orphans`), `Begin`, `Launch`, then `Collect` or
`GiveUp`, `Terminate`, `Clean`, `Mark`, `Complete`, and `Crash` at any step, after which the episode
process goes on. **FrozenSchedule** is what it promises: one position at a time, each begun once,
outcomes final.

**CleanReplay** is `CleanReplayService.submit`: store and validate the program, provision, verify,
release, append to the trace, rewrite the certification. **AgentLoop** is the model session around
it in every replay mode: requests with their retries, the tools, the atomic and the incremental
submission, the incumbent that a cap delivers, and the integrity check of `run()`. It implements
**CertifiedDelivery** with capacity 1, as the deployment loop does with 1 or 2.

**StateLogProofs**, **EventStoreProofs**, **SessionProofs**, **FeedbackProofs**, **BudgetLedgerProofs**,
**ScheduleProofs** (episodes and schedule), **AgentProofs** and **LoopProofs** hold the theorems of
section 6, and the **MC** modules the inputs, views and symmetries of the runs that need any.

## 4. The runs

Each run is a module with a configuration; `PROJECT.json` lists it with its
properties and, for every property, a mutant of the code that breaks it.

| run | configuration | distinct states | what it shows |
| --- | --- | --- | --- |
| `store` | `MCEventStore.cfg` | 23 804 | two processes on one file, and one action's life: `CacheCoherent`, `CitationsGrounded`, `TornLogIsSealed`, and the refinements `ActionsFollowLifecycle` and `ImplementsLog` |
| `session` | `MCSolverSession.cfg` | 18 948 | one process, killed anywhere and reopened: `ReturnedRunAudits`, `OpenActionsAreLostRuns`, `RunsEnd` |
| `session_shared` | `MCSolverSessionShared.cfg` | 57 620 | two sessions and the command line on one log: `ResultsAreCitable`, `OneDriverPerAction` |
| `loop` | `MCLoop.cfg` | 303 021 | both environment strategies, interrupted anywhere and started again: `EnvironmentsReturned`, `ReservationsCover`, `VerifiedInOwnEnvironment`, `FeedbackPrecedesProposal`, `UncertifiedIsBest`, `ReusedOnlyWhenReusable`, `VerdictIsVerified`, the refinement `DeliversAsPromised`, `LoopEnds` |
| `loop_terminal` | `MCLoopTerminal.cfg` | violated | `ReturnedActionsTerminal`, see section 9 |
| `feedback` | `MCFeedbackRounds.cfg` | 480 311 | three rounds of findings: `PropagationConverged`, `ObservationsAreCurrent`, `CompleteReportIsExhaustive`, `EvidenceAccumulates` |
| `feedback_regression` | `MCFeedbackRegression.cfg` | violated | `ContradictionsDetected`, see section 9 |
| `ledger` | `MCBudgetLedger.cfg` | 413 039 | two ledger objects, retries, alarms and a restart: `AcknowledgedUsePersists`, `AttemptsReconcile`, `BudgetIsRespected` |
| `episode` | `MCEpisodeRun.cfg` | 1 553 519 | two processes on one run directory, each with a heartbeat thread, dying anywhere: `EvaluatedOnce`, `FinishedIsEligible`, `EligibleWentThrough` |
| `schedule` | `MCSchedule.cfg` | 633 092 | two coordinators, killed anywhere, over two positions: `RecordedIsQuiet`, `RecordedSuccessCounts`, `InterruptedIsFinal`, the refinement `BeginsOnceAndInTurn`, `ScheduleEnds` |
| `schedule_orphans` | `MCScheduleOrphans.cfg` | violated | `OrphansCensored`, see section 9 |
| `agent` | `MCAgentLoop.cfg` | 678 386 | one session in each of nine replay modes: `CertificatesTraced`, `CertificatesHold`, `IncumbentIsLatest`, `EnvironmentsSettled`, the refinement `DeliversAsPromised`, `AgentEnds` |

The type invariants are not among the properties of the runs: `tlapm` proves those of every module
with a proof module, and every one of them held in TLC before it was proved.

Deadlock is not checked: in every one of these systems a run, an episode or a bounded log really
stops.

**Bounds, and why they are enough.**

- *store*: `MaxSize = 6` writes of two processes. The stories that matter are short: an append by
  one process, a failed append by the other, and one more by each through its cache. Six writes are
  also an action's life behind `run_started`: evidence or a constraint, proposed, started, finished,
  rolled back. Of the ten requests one is never accepted, and the reducer refuses the others whenever
  they come out of order.
- *session*: `MaxActions = 2` so that the loop's own budget is reached, `MaxRuns = 2` so that a
  killed run is reopened. There are enough identifiers that generation never runs out.
- *session_shared*: two sessions of one action each, that may ask for the same identifier, and a
  command line that may record evidence and roll the first action back. Sessions are interchangeable
  (`Symmetry`), and `WithoutOrder` leaves out of a state what no step and no property of that run
  reads: the order of the events and the reconstructed view.
- *loop*: three candidates, so that a best candidate can be kept, beaten or equalled; two policy
  failures in a row; limits that let each scope run out before the others; one restart; and up to
  four identities, so that a provider may repeat one. `MCOutcome` has the nine kinds of answer the
  bundled verifiers give. `loop_terminal` needs one candidate and no restart.
- *feedback*: three rounds are what a regression needs: reported, gone, reported again. A module (a
  discrete value), a version and an operation (whose facts are not replaced) are the three ways a
  subject is treated; initial findings give the loop something that is not the verifier's, with an
  observation of the version and without, so that the engine decides on requirements alone as well.
- *ledger*: two requests, one retry each, costs 0 and 2 with a limit of 3 (so the limit is passed by
  one response), one restart; `Attempts = 4` is as many as those requests can start.
- *episode*: one position, two processes on its directory and one heartbeat beside the first and the
  last record of each: enough for the thread to hold a draft when `stop()` gives up on it.
- *schedule*: two positions, so that one may be orphaned while the other runs; two processes; two
  coordinators, the second of which finds the orphan of the first and may be killed as well. The
  heartbeat thread only adds to the coordinator's view that its join may give up, and has
  `MaxBeats = 0` here; `RecordedSuccesses` proves the property for any number of heartbeats.
- *agent*: two admissible programs and one that is not, two replays (the second may replace the
  incumbent of the first, or fail after it passed), two requests of two tool calls, and two attempts
  per request.

## 5. Fairness

`FairSessionSpec`, `FairLoopSpec`, `FairScheduleSpec` and `FairAgentSpec` assume weak fairness of
steps of one process, which is in each a single thread of straight calls. Where the code waits
without a deadline, either the specification says that the wait ends, which is then an assumption, or
the step has no fairness and may never be taken:

- *sessions, deployment loop*: the policy, the executor, the provider and the verifier are assumed to
  return or to raise. `run()` puts no deadline on them.
- *model session*: requests, shell commands and replays have deadlines of their own. Assumed to end
  are git in the construction workspace, the `docker rm` of a container that did not start, and the
  write of a command to the shell's input. The teardown, `Close`, has no fairness: `docker exec`,
  `docker rm` and the cleanup of containers have no deadline (`openrouter_agent.py:3065-3086`,
  `batch.py:110-139`). `AgentEnds` says that a session comes to its teardown, not that it gets through.
- *schedule*: the coordinator's wait for its child has the hard timeout, and what follows a timeout
  of it, up to the signals, has deadlines as well. The second `communicate()` has none
  (`schedule.py:151`, `156`): it waits for the end of the pipes, which a descendant may hold open after
  its leader is gone. Nor has the cleanup of containers. Both are in `Clean`, which has no fairness;
  nothing is assumed of the episodes. So `ScheduleEnds` says that a coordinator finishes its schedule,
  dies, or hangs in a cleanup forever.

Nothing is assumed of crashes, of the wall clock or of which answer is given: a policy may fail forever, an engine may report conflicts
forever, a provider may fail every request. `RunsEnd`, `LoopEnds` and `AgentEnds` hold all the same
because every way back to the policy or the provider is counted (`executed`, `attempted`, consecutive
policy failures, requests and attempts), and `ScheduleEnds` because a position leaves the pending ones
when it begins. The other specifications state safety only.

## 6. The proofs

`tlapm` checks all of them, for every value of the constants that the named assumptions allow: any
sets of identifiers, requests, processes, positions, programs, findings, and any bounds.

**StateLogProofs.** `LogInv` is the inductive invariant: the typing, `ChainUnbroken`, `StartsOnce` and
`CitationsGrounded`, together with two facts that relate the reduced state to the log: `Summarised`
(it remembers the log's length and the hash of its end) and `Introduced` (it knows an object only
if some event names it). Without these the reducer's checks, which look at the state only, say
nothing about the log. `AppendKeepsInv` is the one real step. `LogTypeCorrect` and `LogSafety`
follow. `ProvenanceCorrect` adds the counting of writers, and `LifecycleImplemented` needs
`AbsentIsUnwritten` (an unwritten record has no status) to map "not in the dictionary" to "absent".

**EventStoreProofs.** `StoreInv` adds `Signed` (no cached signature is of the future, and the current
writer's is the file's) to `CacheCoherent` and `DraftFits`. `Signed` makes a write invalidate every
other cache, which is why a cache that still matches is right. `StoreSafety` is the invariant,
`StoreImplementsLog` the refinement: every write, complete or not, is one step of `StateLog` or none.
`StoreKeepsChain` then is inherited. `TornLogStaysSealed` needs `Sealed`: behind a torn line
nobody has a matching cache or a draft.

**FeedbackProofs.** `PropagateIdempotent`: solving reads only which constraints are managed and which
are hard (`SolverReads`), and propagation changes neither (`PropagateManages`). Since every round
ends with a propagation (`RoundShape`), `Converged` follows for every set of findings; `Accumulates`
follows from what admission, retirement and propagation each keep. `Grounded` is a consequence of
convergence and typing: a status is the solver's, and the solver calls a requirement satisfied only
beside a fact (`SupportGrounded`). `Current` and `Exhaustive` rest on `RoundsInv`, which adds
`ScopesSeen`: every fact belongs to a candidate verified so far. Hence a round's facts are not in the
store before it (`RoundFactsNew`), count as changed, and replace the prior facts of their subjects;
without it an observation repeated word for word would change nothing and retire nothing. The
findings are any for which a subject that is not a version requires at most one value, which is
how the normalizer builds them (`RoundsAssumption`).

`ConflictsDecided` compares the solver with what it is to decide. On any set of constraints,
`_solve_versions` and `_solve_discrete` find a conflict only if no value is admitted by all of them
(`VersionsDecided`, `DiscretesDecided`). The converse holds for discrete values and where a version was
observed; of requirements of a version alone it holds for those the engine sees to be empty, the
constant `Evident`. Since the statuses are the solver's, in every reachable state a subject has a
violated constraint exactly when what is certain of it contradicts itself in one of these ways
(`Shown`), and what is violated does so without the rest. Two more things it does not say, and the code
does not do: that everything in a conflict is violated, and that a contradiction with a requirement
that was retired is seen (both in section 9).

**BudgetLedgerProofs** covers every property of the ledger's run, for any limits, costs (there is at
least one), retries and restarts. `UsePersists` needs that every ledger an operation writes extends
the file it read (`Extends`), which is what `_resume_locked` is for. `LimitsRespected` adds `Bounded`:
while a request has not answered, usage is below its limit, and no request is in progress when the
episode is over or the ledger closed; the retry loop does not look at the limits again, so it
depends on retryable errors carrying no usage. `CountersReconcile` adds `Accounted`, what the request
in progress still owes: the outcome of the attempt it is in, an attempt for its last retry, and a
recovery that its retries pay for. The last one is why a process that dies between two records
leaves counters that still agree.

**SessionProofs** covers every safety property of the sessions' runs, for any number of sessions and
command lines on one log. It stands on the lemmas of `StateLogProofs`, and in layers:

- `SessionInv` is the typing, the log's own invariants and `Scripted`, which says what the queue
  `todo` holds at each place of a call, and that what is appended next carries its identifier.
  `SharedLogSafety`, `SessionsImplementLog` and `SharedLifecycle` need no more: whatever the sessions
  interleave, the log sees one accepted event after the other.
- `DriverInv`: what a session owns is known to the log, and no two own the same (`OwnsApart`). It is
  preserved because a session comes to own an action only by the append that proposes it, which
  `_record_unique` refuses to the second one; an identifier chosen before another's append is just
  refused. `OneDriver` is the consequence.
- `Accounts`: what a run owes for each action it proposed (an end, its evidence, a failure record
  unless it succeeded) is in the log, in the queue, or still to come from the action being driven.
  `ResultsCitable` follows when nothing is queued and nothing driven. It survives the other sessions
  because an event is never withdrawn and a terminal action only moves on to `rolled_back`.
- `OrphanInv` counts: an open action that no live run drives was left by a lost run, and one lost run
  leaves one. `OpenActionsCharged` has the hypothesis `NoProposals`, that no request of the command line
  proposes an action: `state_log.py append` may write any event, and one it proposed is nobody's. The
  run's requests satisfy it.
- `Fresh`: a snapshot about to be replaced is the reconstruction of the log as it is.
  `ReturnedAudits` has the hypothesis `Alone(s)`, one session and no command line, without which the
  snapshot may be an older one (section 9).

**ScheduleProofs** starts with the episodes. `EvaluatedOnce` holds for any number of processes on a
directory: a process is past its claim only if the claim exists and it was the one that created it, so
that the exclusive `open` is what keeps the second one out (`ClaimExclusive`).

`RunsInv` says what a process that is alone in its directory finds there: `Untouched` (a directory that
nobody was let into is empty), `Threads` (when the heartbeat thread runs, and that it has been joined
exactly when `joined` says so) and `Runs`, which relates the place of the main thread to the directory.
`Solved` is its part about the sections and the status. `Beating` is the part about the heartbeat:
records are numbered without a gap, a record that was written and not counted yet is the next one, the
number of a drafted record is still the counter's, and nothing is sealed before `Seal`. After a join
that gave up only the last of these is left, so `FinishedEligible` is about a joined thread, and
`WentThrough` is not. Both hold for any number of heartbeats and any order of the two threads' steps.
A second process does not disturb the first one's part because whoever shares a directory with it has
either been let in, so that it is not alone any more, or has written nothing (`RunMove`).

The schedule's invariant `ScheduleInv` adds four parts to the episodes' and to `RecordedIsQuiet`:
`Charge` (the position and the child the coordinator holds are those of the progress file, and at most
one position is running), `Begun` (a position with a process or files was begun), `Attended` (a living
process is the coordinator's child or an orphan's), and `Marked` (an interrupted directory has no result
and no living writer). `RecordedQuiet`, `InterruptionsFinal`, `TurnsKept` (the refinement of
`FrozenSchedule`) and `ScheduledEvaluatedOnce` follow, for any number of coordinators and deaths.
`RecordedSuccesses` needs `Outcomes` beside it: a position has one process, hence one alone in its
directory (`OneEach`); one that exited with zero left what counts (`Left`); and an exit code in the
progress file is that process's (`Collected`, `Reported`). `mark_case_interrupted` keeps `Left` because
it passes over a run with a result.

**AgentProofs.** The invariant of the replay service has four parts: `Numbered` (what it stored bears the
numbers of replays made so far), `Held` (which environment is leased, at each step of `submit`),
`Certain` (what is known of the replay in progress) and `Recorded` (the certificates on disk and in
memory against the trace, programs and environments). `Attentive` relates the session to it: a replay is only in progress while a tool waits
for it, and the incumbent is updated before the next call. `CertificationTraced` holds across a death
between the trace and the certification because the trace is written first.

`AgentDelivers` is the refinement of `CertifiedDelivery`, for any number of replays, requests and calls.
It needs `Truthful`: the record of a passing replay names an environment in which only that replay ran
and that is released. It is true when the record is written, because the release went through before the
status became "pass", and stays true because no environment that was released is leased or used again
(`AloneStays`). `Effects` splits the steps by what they do to environments and records, so that most of
them are one case, and `Standing` says that nothing `run()` checked changes after its verdict.

**LoopProofs** covers every safety property of the loop's run and its refinement of
`CertifiedDelivery`, for any number of candidates, environments, restarts, limits and answers. Only
the first part of `LoopInv` is inductive alone; each of the others rests on some before it:

- `LoopShape` is the typing, `Housed`, and `Counted`: the numbers of the policy and of the loop go
  together, at each `pc`, because a candidate counts once and its replay does not count again.
- `Tenancy` says what is leased: the retained environment and the round's, and when they are the
  same. At `returned` there is neither, and at `proposing` only the first, which is
  `EnvironmentsReturned`. After an exception left `run()` it says nothing: whatever was leased then
  stays leased until the process ends, and the loop object refuses another `run()` with a retained
  environment (`counterexample.py:702`).
- `Vouching`: what ran in the retained environment was found reusable, up to the candidate whose
  verification is not recorded yet; whatever else the round has is unused.
- `OwnEnvironments`: the loop knows every environment of the log, also a restarted one, and compares
  each receipt with them.
- `Certification`: a pass that is accepted is one of a fresh execution (`AcceptedIsFresh`), and a
  replay only runs when its construction was verified. `AcceptedIsFresh` needs the assumption that
  a verifier never reports a pass with a damaged state: the loop would not find that state reusable
  and would certify the construction without a replay. The bundled verifiers make that
  observation only beside `passed=False` (`verifier.py:702-735`, `goal_verifier.py:422-456`, which the
  v2 and v22 verifiers refine, and `stateful_goal_verifier_v24.py:243-272`).
- `History` says that a candidate the log does not have has left nothing in it, which is why a run
  started again on a log with candidates gets no further than its first one; and that each
  candidate before the current one is `Explained`.
- `Ladder`: candidates enter the log in order, and `best` is the first of the best of them.

`Covered` adds the reservation that is made and not used yet, and counts what was used by the
cardinalities of the sets `ReservationsCover` names. `PromiseNext` shows that every step is a step of
`CertifiedDelivery` or none; it needs `HostedOnce`, that an action is not executed twice in one
environment, which follows from `Vouching` and `History`.

## 7. What is only model-checked

Liveness: `RunsEnd`, `LoopEnds`, `ScheduleEnds` and `AgentEnds`, under the fairness of section 5.
Every other property of a passing run is a theorem.

## 8. Abstractions and assumptions

- Finitely many sessions share a log (`SessionAssumption`).
- Event hashes are injective. A payload's own fields are checked as one flag (`wellFormed`).
- A signature that has not changed means a file that has not changed: the size only grows, and the
  inode and modification time are not modelled on top of it.
- `os.replace` and a line of `write` under the lock are single steps, except where a failure
  separates them.
- A version specifier is the set of versions it admits; that pre-releases are admitted only when a
  specifier names one, and local versions, are left out. Which specifiers the engine sees to be empty
  together (`_obviously_empty`, and the exact versions after it) is the constant `Evident`: any of those
  that are, since the code compares bounds and may miss some, as its comment says.
- The evidence of the verifier has one scope (`goal`), as with the bundled verifiers. A verifier that
  reports a pass with a damaged state does not occur among them.
- The ledger's operations of one episode run in one thread, and one process uses a ledger file, as
  the runners arrange it. Tokens and cost are one counter. An error that carries usage is not
  retryable; `BudgetIsRespected` depends on that and fails when it is (`MayRetryAny`).
- The heartbeat thread and the main thread race for `_sequence` when the join gives up; every order of
  their reads and writes is a behaviour of `EpisodeRun`. Other data races do not arise in what is
  modelled.
- `Initialize` takes the directories, the manifest and the start of the heartbeat as one step. An episode
  with `--overwrite`, which deletes the claim of the run it replaces (`artifacts.py:29`), and one that
  only generates (`run_case.py:99-103`) are left out: the coordinator starts neither.
- One coordinator works on a progress file at a time, which nothing in the code enforces. An episode's
  process is the leader of its group, and it is the leader that is gone when `RecordedIsQuiet` says so:
  a descendant that left the group may survive it. Its containers, which are found by their mounts
  (`batch.py:86-99`), may be left over.
- Programs stand for their canonical digests; a passing record's repository audit is whole or cut by
  the bound on its text, and the certificate check of `run()` fails on one that was cut.
- A provider of environments does not repeat an identity for the replay service, whose check of known
  identities (`minimal_b_mcp.py:587`) is left out; the deployment loop gets to meet one that does.
  `VerifiedInOwnEnvironment` mostly speaks of one run: one started again on the log gets no further
  than its first candidate, which collides with the recorded one, before it verifies anything.
- Of `run()` of the model session, the errors between a certified replay and its delivery
  (`openrouter_agent.py:2947-3028`) are one choice of `Finish`.
- The budget is finalized when no request is in progress, as the runner arranges it: a callback that
  comes later is not modelled.

## 9. Where code and documents disagree

Three of the disagreements are run, each with a counterexample (`findings`):

- `loop_terminal`: `research/P2_STATE_PROTOCOL.md:129-130` and `research/COUNTEREXAMPLE_LOOP_V1.md:40`. When
  the release of a construction environment that may not be retained raises, `run()` returns with
  the candidate's action running and without its verification.
- `feedback_regression`: `research/P3_CONSTRAINT_PROTOCOL.md:68`. A requirement a complete report retired
  keeps the status "superseded" when it is reported again, so the contradiction is not detected and
  the loop blocks.

- `schedule_orphans`: `research/ENVSOLVE_RESEARCH_PLAN.md:950` says the coordinator "censors orphaned
  positions". `recover_orphans` renames the position in the progress file; its process goes on, its
  run directory becomes eligible and is counted, since the results never read the progress file.

Others were met and are not claimed by a run:

- `research/P2_STATE_PROTOCOL.md:25` says the store "validates the complete existing trajectory before
  each write". A cache hit skips the validation (`store.py:38`), and a writer whose own append was
  glued to an unterminated line goes on behind it.
- `research/P2_STATE_PROTOCOL.md:103`, "atomically refreshes a derived snapshot after every accepted
  event": two sessions on one log may replace the snapshot in the opposite order of their
  reconstructions (`session.py:125`). `ReturnedRunAudits` claims it of a session that is alone.
- `research/HARNESS_HARDENING_STATUS.md` says active artifacts "transition atomically to
  `interrupted`"; an episode killed between the result and the status keeps the status "running",
  since `mark_case_interrupted` does not touch a run with a result.
- Details of more than 16 000 characters are cut in the trace (`minimal_b_mcp.py:479`): the audit in
  them cannot be decoded, and a certified program is reported failed.

- `research/P2_STATE_PROTOCOL.md:111-113` says a goal ends satisfied or blocked; a policy that returns
  neither decision raises out of `StatefulSolverLoop.run` and leaves it in progress
  (`envsolve/solver/loop.py:106`).
- `research/COUNTEREXAMPLE_LOOP_V1.md:40` promises each attempted candidate a verification; rejected
  candidates and those that got no environment have none (`counterexample.py:903`).
- `research/COUNTEREXAMPLE_LOOP_V2_AMENDMENT.md:11-13` allows another candidate only after an explicit
  conflict; a hypothesis is enough (`counterexample.py:1449`), and a conflict of any constraint
  counts, not only of newly admitted ones.
- A run started again on its log numbers its candidates from 1 (`policy.py:213`): the first one
  collides with the interrupted run's and the loop blocks.
- `_solve_discrete` marks requirements satisfied when requirements and facts have the same several
  values, although it reports their conflict; the model's `Supported` does the same.
- A failure of which only observations are reported does not retire the goal's earlier constraints.

The stale ledger object described in `research/ENVSOLVE_RESEARCH_PLAN.md:657-663` is repaired in
this code; as the mutant `CurrentStale` it breaks `AcknowledgedUsePersists`.

## 10. What is not modelled

`components` gives the reason for each part. Three kinds are left out for good: what is text
(prompts, log parsing, repair proposals, reports), what is I/O without a protocol (docker, git, ssh,
rsync), and what is superseded (the v0 agent). Inside the modelled components, left out are
redaction, truncation and artifacts of the session, its rejection of another case's log, trace step
identifiers, the asynchronous variant of the model, and bytes Python flushes only when a file object
is closed after an error.

## 11. Where it could grow

- **Source cache** (`source_cache.py`): population under a lock, interrupted between the rename and the
  receipt. Its lock is that of the event store; what remains are directory operations.
- **Version bounds** (`_obviously_empty`): the arithmetic as functions, against the set of versions.
- **Container shell** (`container_mcp.py`): the marker of a command, its timeout and the restart.
