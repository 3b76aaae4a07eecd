------------------------------- MODULE Schedule -----------------------------
(***************************************************************************)
(* experiments/run_schedule.py and execution/schedule.py: a coordinator    *)
(* runs the positions of a frozen schedule one after the other, each as an *)
(* episode process in a session of its own (EpisodeRun), and keeps their   *)
(* outcomes in a progress file that it replaces as a whole.  It may be     *)
(* killed at any step: the episode process goes on, and the next           *)
(* coordinator takes its position for an orphan.  One coordinator runs at  *)
(* a time; nothing in the code enforces that.                              *)
(***************************************************************************)
EXTENDS EpisodeRun

CONSTANT MaxStarts   \* bound on the coordinators started

ASSUME ScheduleAssumption == MaxStarts \in Nat

VARIABLES
  progress,     \* the progress file: the state of each position
  code,         \* and the exit code of its process
  coordinator,  \* the coordinator in charge, see CoordinatorState
  starts        \* coordinators started so far

scheduleVars == <<progress, code, coordinator, starts, episodeVars>>

TerminalState == {"process_finished", "process_error", "timed_out", "interrupted", "orphaned"}

\* first: --start-position; position, child: what it waits for; ending: the
\* state it will record.
CoordinatorState ==
  [pc : {"down", "scheduling", "launching", "waiting", "terminating", "cleaning",
         "marking", "completing"},
   first : Position, position : Position \cup {0}, child : Process \cup {0},
   ending : TerminalState \cup {"none"}]
Down == [pc |-> "down", first |-> 1, position |-> 0, child |-> 0, ending |-> "none"]

ScheduleInit ==
  /\ EpisodeInit
  /\ progress = [n \in Position |-> "absent"]
  /\ code = [n \in Position |-> "none"]
  /\ coordinator = Down
  /\ starts = 0

In(place) == coordinator.pc = place
Proceed(next) == coordinator' = [coordinator EXCEPT !.pc = next]
Running == {n \in Position : progress[n] = "running"}

\* main() loads the progress, and recover_orphans gives up what was running.
Start ==
  /\ In("down")
  /\ starts < MaxStarts
  /\ starts' = starts + 1
  /\ progress' = [n \in Position |-> IF n \in Running THEN "orphaned" ELSE progress[n]]
  /\ \E first \in Position :
       coordinator' = [Down EXCEPT !.pc = "scheduling", !.first = first]
  /\ UNCHANGED <<code, episodeVars>>

\* Positions from the first one on that have no outcome.
Pending == {n \in Position : n >= coordinator.first /\ progress[n] = "absent"}

\* ScheduleProgress.begin for the next position.
Begin ==
  /\ In("scheduling")
  /\ \E n \in Pending :
       /\ \A m \in Pending : n <= m
       /\ progress' = [progress EXCEPT ![n] = "running"]
       /\ coordinator' = [coordinator EXCEPT !.pc = "launching", !.position = n]
  /\ UNCHANGED <<code, starts, episodeVars>>

\* run_scheduled_process: Popen starts the process in a new session ...
Launch ==
  /\ In("launching")
  /\ \E p \in Process :
       /\ Spawn(p, coordinator.position)
       /\ coordinator' = [coordinator EXCEPT !.pc = "waiting", !.child = p]
  /\ UNCHANGED <<progress, code, starts>>

\* ... or raises OSError.
LaunchFails ==
  /\ In("launching")
  /\ coordinator' = [coordinator EXCEPT !.pc = "completing", !.ending = "process_error"]
  /\ UNCHANGED <<progress, code, starts, episodeVars>>

\* communicate() returns when the process has ended and its output is closed.
\* A descendant may hold the output open after that: nothing forces this step,
\* and the deadline of GiveUp runs on ...
Collect ==
  /\ In("waiting") /\ At(coordinator.child, "exited")
  /\ coordinator' = [coordinator EXCEPT !.pc = "completing", !.ending = "process_finished"]
  /\ UNCHANGED <<progress, code, starts, episodeVars>>

\* ... so that the hard deadline passes, or SIGTERM or SIGINT interrupts it.
GiveUp ==
  /\ In("waiting")
  /\ \E ending \in {"timed_out", "interrupted"} :
       coordinator' = [coordinator EXCEPT !.pc = "terminating", !.ending = ending]
  /\ UNCHANGED <<progress, code, starts, episodeVars>>

\* Mutant: the process group is left to end by itself.
TerminateNothing ==
  /\ In("terminating")
  /\ Proceed("cleaning")
  /\ UNCHANGED <<progress, code, starts, episodeVars>>

\* terminate_process_group: nothing for a process that has ended; else SIGTERM
\* and, after the grace period, SIGKILL to its group.  It waits for the process
\* alone, each time with a deadline, not for its descendants.
Terminate ==
  /\ In("terminating")
  /\ LET p == coordinator.child IN
       IF Alive(p)
         THEN Gone(p, "killed")
         ELSE UNCHANGED process
  /\ Proceed("cleaning")
  /\ UNCHANGED <<progress, code, starts, files, evaluations>>

\* The second communicate() reads the output to its end, and then
\* cleanup_case_containers asks docker for the containers with a mount below the
\* run directory and removes them.  Neither has a deadline: a descendant that
\* holds the output open, or docker, can keep the coordinator here for ever.
\* The containers themselves are no part of the state.
Clean ==
  /\ In("cleaning")
  /\ Proceed("marking")
  /\ UNCHANGED <<progress, code, starts, episodeVars>>

\* Mutant: whatever has a status is marked.
MarkAnyway ==
  /\ In("marking")
  /\ LET f == files[coordinator.position] IN
       files' = IF f.status # "none"
                  THEN [files EXCEPT ![coordinator.position].status = "interrupted"]
                  ELSE files
  /\ Proceed("completing")
  /\ UNCHANGED <<progress, code, starts, process, evaluations>>

\* mark_case_interrupted, unless the manifest has a result.
Mark ==
  /\ In("marking")
  /\ LET f == files[coordinator.position] IN
       files' = IF f.monitor # "absent" /\ f.status # "none" /\ f.result = "none"
                  THEN [files EXCEPT ![coordinator.position].status = "interrupted"]
                  ELSE files
  /\ Proceed("completing")
  /\ UNCHANGED <<progress, code, starts, process, evaluations>>

\* Mutant: a position whose process could not be started is left to be begun again.
CompleteRetrying ==
  /\ In("completing")
  /\ progress' = [progress EXCEPT ![coordinator.position] =
                    IF coordinator.ending = "process_error" THEN "absent" ELSE coordinator.ending]
  /\ coordinator' = [coordinator EXCEPT !.pc = "scheduling", !.position = 0, !.child = 0,
                                        !.ending = "none"]
  /\ UNCHANGED <<code, starts, episodeVars>>

\* ScheduleProgress.complete; after an interruption main() returns.
Complete ==
  /\ In("completing")
  /\ progress' = [progress EXCEPT ![coordinator.position] = coordinator.ending]
  /\ code' = IF coordinator.child = 0 THEN code
             ELSE [code EXCEPT ![coordinator.position] = process[coordinator.child].exit]
  /\ coordinator' = IF coordinator.ending = "interrupted" THEN Down
                    ELSE [coordinator EXCEPT !.pc = "scheduling", !.position = 0, !.child = 0,
                                             !.ending = "none"]
  /\ UNCHANGED <<starts, episodeVars>>

\* Mutant: main() also waits for the positions before its first.
EndWhenAllDone ==
  /\ In("scheduling") /\ \A n \in Position : progress[n] # "absent"
  /\ coordinator' = Down
  /\ UNCHANGED <<progress, code, starts, episodeVars>>

End ==
  /\ In("scheduling") /\ Pending = {}
  /\ coordinator' = Down
  /\ UNCHANGED <<progress, code, starts, episodeVars>>

\* SIGKILL, SIGTERM outside of run_scheduled_process, or an interrupt while
\* the process group is terminated.
Crash ==
  /\ ~In("down")
  /\ coordinator' = Down
  /\ UNCHANGED <<progress, code, starts, episodeVars>>

\* The episode processes go on by themselves, and die.
EpisodeMoves ==
  /\ \E p \in Process : EpisodeStep(p) \/ ThreadStep(p) \/ Die(p)
  /\ UNCHANGED <<progress, code, coordinator, starts>>

\* What the coordinator does by itself or waits for with a deadline.
TimedStep ==
  \/ Begin \/ Launch \/ LaunchFails \/ Collect \/ GiveUp
  \/ Terminate \/ Mark \/ Complete \/ End

CoordinatorStep == TimedStep \/ Clean

ScheduleNext == Start \/ CoordinatorStep \/ Crash \/ EpisodeMoves

ScheduleSpec == ScheduleInit /\ [][ScheduleNext]_scheduleVars

\* The coordinator is one thread that the operating system runs.  Its wait for
\* the episode has a deadline; nothing is assumed of Clean, which has none.
FairScheduleSpec == ScheduleSpec /\ WF_scheduleVars(TimedStep)

-----------------------------------------------------------------------------
ScheduleTypeOK ==
  /\ EpisodeTypeOK
  /\ progress \in [Position -> TerminalState \cup {"absent", "running"}]
  /\ code \in [Position -> {"none", "zero", "failure", "refused", "killed"}]
  /\ coordinator \in CoordinatorState
  /\ starts \in Nat

\* An outcome that the coordinator records itself is that of a process that is
\* gone: no run_case of a position that timed out, was interrupted or finished
\* writes into its directory again.  Only an orphan's may.  (Nothing is said of
\* what a run_case started and did not wait for.)
RecordedIsQuiet ==
  \A p \in Process : Alive(p) =>
    progress[process[p].position] \in {"running", "orphaned"}

\* The progress file and the run directory agree: a position recorded as
\* finished with exit code zero is a run that the eligibility check accepts
\* and the results count, and it stays one; unless stop() gave up joining the
\* heartbeat thread, which may then have broken the lifecycle.
RecordedSuccessCounts ==
  \A p \in Process : LET n == process[p].position IN
    process[p].joined /\ progress[n] = "process_finished" /\ code[n] = "zero" =>
      Scored(files[n])

\* What mark_case_interrupted marks stays as it is, without a result; and it
\* never takes back a result.
InterruptedIsFinal ==
  [][\A n \in Position :
       /\ files[n].status = "interrupted" => files'[n] = files[n]
       /\ files[n].result # "none" => files'[n].status # "interrupted"]_scheduleVars

\* Whatever its episodes do, a coordinator ends, by itself or by a crash, unless
\* it waits for ever at the one place that has no deadline: the output of a
\* terminated process and docker.
ScheduleEnds == In("scheduling") ~> (In("down") \/ []In("cleaning"))

\* The abstract schedule: one position at a time, and outcomes are final.
Abstract == INSTANCE FrozenSchedule WITH outcome <- progress
BeginsOnceAndInTurn == Abstract!Spec

\* research/ENVSOLVE_RESEARCH_PLAN.md:950 says of the coordinator that it
\* "censors orphaned positions": an orphan's run is not one that counts.
OrphansCensored ==
  \A n \in Position : progress[n] = "orphaned" => ~Scored(files[n])

=============================================================================
