------------------------------ MODULE EpisodeRun ----------------------------
(***************************************************************************)
(* experiments/run_case.py: one process generates and evaluates the script *)
(* of one scheduled position in a directory of its own.  main() creates    *)
(* the directory, writes the manifest, starts the heartbeat thread, runs   *)
(* the solver and the official evaluation (adapters/envbench.py), stops    *)
(* the heartbeat and seals it in the manifest.                             *)
(*                                                                         *)
(* A step ends at a write that somebody else may read.  The process dies   *)
(* between any two of them; several processes may be started on one        *)
(* directory.  The heartbeat thread (execution/heartbeat.py) interleaves   *)
(* with the main thread, which gives up joining it after a while.          *)
(***************************************************************************)
EXTENDS Naturals, FiniteSets, Sequences, SequencesExt

CONSTANTS
  MaxPosition,   \* positions of the schedule, one directory each
  MaxProcesses,  \* bound on the processes started
  MaxBeats       \* bound on the heartbeats of a process

ASSUME EpisodeAssumption ==
  MaxPosition \in Nat \ {0} /\ MaxProcesses \in Nat \ {0} /\ MaxBeats \in Nat

Position == 1 .. MaxPosition
Process == 1 .. MaxProcesses

VARIABLES
  files,       \* the run directory of each position
  process,     \* the episode processes
  evaluations  \* the processes that started the evaluator, of each position

episodeVars == <<files, process, evaluations>>

Outcome == {"complete", "incomplete"}
Record == [event : {"started", "heartbeat", "stopped"}, sequence : Nat]

\* monitor, solver, result: sections of the manifest, there is none while the
\* monitor is "absent"; status: status.json; claim: the evaluation claim;
\* beats: heartbeat.jsonl; sealed: what its hash in the manifest is the hash of.
Files ==
  [monitor : {"absent", "running", "completed"}, solver : {"none", "failed", "generated"},
   result : Outcome \cup {"none"}, claim : BOOLEAN,
   status : {"none", "generating", "generated", "failed", "running", "completed", "interrupted"},
   beats : Seq(Record), sealed : Seq(Record)]
NoFiles ==
  [monitor |-> "absent", solver |-> "none", result |-> "none", claim |-> FALSE,
   status |-> "none", beats |-> <<>>, sealed |-> <<>>]

Control == {"idle", "creating", "making", "solving", "generating", "admitting", "claiming",
            "preparing", "evaluating", "closing", "stopping", "joining", "ending",
            "appending", "sealing", "leaving", "exited"}

\* exit: what main() will return, or how the process ended; measured: the
\* result the main thread holds; last: the number of its last record.
\* thread, draft: the heartbeat thread and the number of the record it built;
\* sequence: _sequence, of both threads; joined: join() saw the thread end, or
\* had seen it when the process ended.
ProcessState ==
  [pc : Control, position : Position \cup {0}, measured : Outcome \cup {"none"}, last : Nat,
   exit : {"none", "zero", "failure", "refused", "killed"}, sequence : Nat,
   thread : {"off", "waiting", "woken", "drafted", "writing", "written"}, draft : Nat,
   stop : BOOLEAN, joined : BOOLEAN]
NoProcess ==
  [pc |-> "idle", position |-> 0, measured |-> "none", last |-> 0, exit |-> "none",
   sequence |-> 0, thread |-> "off", draft |-> 0, stop |-> FALSE, joined |-> FALSE]

EpisodeInit ==
  /\ files = [n \in Position |-> NoFiles]
  /\ process = [p \in Process |-> NoProcess]
  /\ evaluations = [n \in Position |-> {}]

At(p, place) == process[p].pc = place
Alive(p) == ~At(p, "idle") /\ ~At(p, "exited")
Here(p) == files[process[p].position]

\* Process p goes on to a place, leaves the with block, or is gone; and what
\* it writes into its directory.
Go(p, next) == process' = [process EXCEPT ![p].pc = next]
Unwind(p, exit) == process' = [process EXCEPT ![p].pc = "stopping", ![p].exit = exit]
Gone(p, exit) ==
  process' = [process EXCEPT ![p] =
    [NoProcess EXCEPT !.pc = "exited", !.position = process[p].position, !.exit = exit,
                      !.joined = process[p].joined]]
Put(p, field, value) == files' = [files EXCEPT ![process[p].position][field] = value]

\* The operating system starts a process; processes are numbered.
Spawn(p, n) ==
  /\ At(p, "idle")
  /\ \A q \in Process : q < p => ~At(q, "idle")
  /\ process' = [process EXCEPT ![p].pc = "creating", ![p].position = n]
  /\ UNCHANGED <<files, evaluations>>

-----------------------------------------------------------------------------
(* main() and the solver                                                   *)

\* RunArtifacts.create looks whether the directory has something in it ...
Create(p) ==
  /\ At(p, "creating")
  /\ IF Here(p).monitor = "absent" THEN Go(p, "making") ELSE Gone(p, "refused")
  /\ UNCHANGED <<files, evaluations>>

Beat(event, sequence) == [event |-> event, sequence |-> sequence]

\* Mutant: the record of start() is not counted.
StartUncounted(p) ==
  /\ At(p, "making")
  /\ files' = [files EXCEPT ![process[p].position] =
       [@ EXCEPT !.monitor = "running", !.beats = <<Beat("started", 0)>>]]
  /\ process' = [process EXCEPT ![p].pc = "solving", ![p].thread = "waiting"]
  /\ UNCHANGED evaluations

\* ... and makes it; initialize_manifest, the monitor section and
\* RunHeartbeat.start follow.  They are one step: a directory without a status
\* is neither evaluated nor eligible, however many of them were done.  Only a
\* second process that looked in time makes it again.  (--overwrite, which
\* first deletes the directory with its claim, is left out.)
Initialize(p) ==
  /\ At(p, "making")
  /\ files' = [files EXCEPT ![process[p].position] =
       [@ EXCEPT !.monitor = "running", !.solver = "none", !.result = "none",
                 !.sealed = <<>>, !.beats = <<Beat("started", 0)>>]]
  /\ process' = [process EXCEPT ![p].pc = "solving", ![p].thread = "waiting",
                                ![p].sequence = 1]
  /\ UNCHANGED evaluations

Solve(p) ==
  /\ At(p, "solving")
  /\ Put(p, "status", "generating")
  /\ Go(p, "generating")
  /\ UNCHANGED evaluations

\* The runner's _finish writes the solver section and the status; or it raises.
\* (A run for generation only would end here with exit code zero; the schedule
\* starts none.)
Generate(p) ==
  /\ At(p, "generating")
  /\ \/ /\ files' = [files EXCEPT ![process[p].position] =
             [@ EXCEPT !.solver = "generated", !.status = "generated"]]
        /\ Go(p, "admitting")
     \/ /\ files' = [files EXCEPT ![process[p].position] =
             [@ EXCEPT !.solver = "failed", !.status = "failed"]]
        /\ Unwind(p, "failure")
     \/ Unwind(p, "failure") /\ UNCHANGED files
  /\ UNCHANGED evaluations

-----------------------------------------------------------------------------
(* EnvBenchEvaluator.evaluate                                              *)

\* A manifest that has a result is refused.
AdmitEvaluation(p) ==
  /\ At(p, "admitting")
  /\ IF Here(p).result = "none" THEN Go(p, "claiming") ELSE Unwind(p, "failure")
  /\ UNCHANGED <<files, evaluations>>

\* Mutant: the claim is written whether or not there is one.
ClaimAgain(p) ==
  /\ At(p, "claiming")
  /\ Put(p, "claim", TRUE)
  /\ Go(p, "preparing")
  /\ UNCHANGED evaluations

\* os.open with O_CREAT | O_EXCL.
Claim(p) ==
  /\ At(p, "claiming")
  /\ IF Here(p).claim
       THEN Unwind(p, "failure") /\ UNCHANGED files
       ELSE Put(p, "claim", TRUE) /\ Go(p, "preparing")
  /\ UNCHANGED evaluations

\* The status is written and the evaluator's container started.
Prepare(p) ==
  /\ At(p, "preparing")
  /\ Put(p, "status", "running")
  /\ evaluations' = [evaluations EXCEPT ![process[p].position] = @ \cup {p}]
  /\ Go(p, "evaluating")

\* The evaluator ran, to an end or not, and the manifest gets the result; or
\* something raises.
Evaluate(p) ==
  /\ At(p, "evaluating")
  /\ \/ \E outcome \in Outcome :
          /\ Put(p, "result", outcome)
          /\ process' = [process EXCEPT ![p].pc = "closing", ![p].measured = outcome]
     \/ Unwind(p, "failure") /\ UNCHANGED files
  /\ UNCHANGED evaluations

\* Mutant: an evaluation that did not complete is an episode that succeeded.
CloseLenient(p) ==
  /\ At(p, "closing")
  /\ Put(p, "status", IF process[p].measured = "complete" THEN "completed" ELSE "failed")
  /\ Unwind(p, "zero")
  /\ UNCHANGED evaluations

\* The status is the last write of evaluate(), and main() takes its exit code;
\* or the write raises.
Close(p) ==
  /\ At(p, "closing")
  /\ \/ LET complete == process[p].measured = "complete" IN
          /\ Put(p, "status", IF complete THEN "completed" ELSE "failed")
          /\ Unwind(p, IF complete THEN "zero" ELSE "failure")
     \/ Unwind(p, "failure") /\ UNCHANGED files
  /\ UNCHANGED evaluations

-----------------------------------------------------------------------------
(* RunHeartbeat: the thread, stop(), and the end of main()                 *)

\* wait() returns False after the interval when the event is not set.
ThreadWakes(p) ==
  /\ process[p].thread = "waiting" /\ ~process[p].stop
  /\ process[p].sequence <= MaxBeats
  /\ process' = [process EXCEPT ![p].thread = "woken"]
  /\ UNCHANGED <<files, evaluations>>

\* _append of the thread reads the sequence number before it has the lock; by
\* then the event may be set.
ThreadDrafts(p) ==
  /\ process[p].thread = "woken"
  /\ process' = [process EXCEPT ![p].thread = "drafted", ![p].draft = process[p].sequence]
  /\ UNCHANGED <<files, evaluations>>

\* It writes under the lock, and keeps it until fsync returns.
ThreadWrites(p) ==
  /\ process[p].thread = "drafted"
  /\ Put(p, "beats", Append(Here(p).beats, Beat("heartbeat", process[p].draft)))
  /\ process' = [process EXCEPT ![p].thread = "writing"]
  /\ UNCHANGED evaluations

ThreadUnlocks(p) ==
  /\ process[p].thread = "writing"
  /\ process' = [process EXCEPT ![p].thread = "written"]
  /\ UNCHANGED <<files, evaluations>>

ThreadCounts(p) ==
  /\ process[p].thread = "written"
  /\ process' = [process EXCEPT ![p].thread = "waiting", ![p].sequence = @ + 1]
  /\ UNCHANGED <<files, evaluations>>

\* stop() sets the event.
SetStop(p) ==
  /\ At(p, "stopping")
  /\ process' = [process EXCEPT ![p].pc = "joining", ![p].stop = TRUE]
  /\ UNCHANGED <<files, evaluations>>

\* join() returns when the thread has ended, or after the interval and a
\* second: by then a waiting thread has seen the event.
Join(p) ==
  /\ At(p, "joining")
  /\ process' = [process EXCEPT ![p].pc = "ending", ![p].joined = process[p].thread = "waiting",
                                ![p].thread = IF @ = "waiting" THEN "off" ELSE @]
  /\ UNCHANGED <<files, evaluations>>

\* _append of the main thread, with the same lock.  Its count is left out: a
\* thread that was not joined could read it, but behind the record "stopped" no
\* record is part of a lifecycle, whatever its number.
EndDrafts(p) ==
  /\ At(p, "ending")
  /\ process' = [process EXCEPT ![p].pc = "appending", ![p].last = process[p].sequence]
  /\ UNCHANGED <<files, evaluations>>

EndWrites(p) ==
  /\ At(p, "appending") /\ process[p].thread # "writing"
  /\ Put(p, "beats", Append(Here(p).beats, Beat("stopped", process[p].last)))
  /\ Go(p, "sealing")
  /\ UNCHANGED evaluations

\* The finally clause hashes the file and completes the monitor section.
Seal(p) ==
  /\ At(p, "sealing")
  /\ files' = [files EXCEPT ![process[p].position] =
       [@ EXCEPT !.monitor = "completed", !.sealed = Here(p).beats]]
  /\ Go(p, "leaving")
  /\ UNCHANGED evaluations

Leave(p) ==
  /\ At(p, "leaving")
  /\ Gone(p, process[p].exit)
  /\ UNCHANGED <<files, evaluations>>

\* The process is killed, or dies, with both threads.
Die(p) ==
  /\ Alive(p)
  /\ Gone(p, "killed")
  /\ UNCHANGED <<files, evaluations>>

EpisodeStep(p) ==
  \/ Create(p) \/ Initialize(p) \/ Solve(p) \/ Generate(p)
  \/ AdmitEvaluation(p) \/ Claim(p) \/ Prepare(p) \/ Evaluate(p) \/ Close(p)
  \/ SetStop(p) \/ Join(p) \/ EndDrafts(p) \/ EndWrites(p) \/ Seal(p) \/ Leave(p)

ThreadStep(p) ==
  ThreadWakes(p) \/ ThreadDrafts(p) \/ ThreadWrites(p) \/ ThreadUnlocks(p) \/ ThreadCounts(p)

EpisodeNext ==
  \E p \in Process :
    \/ \E n \in Position : Spawn(p, n)
    \/ EpisodeStep(p) \/ ThreadStep(p) \/ Die(p)

EpisodeSpec == EpisodeInit /\ [][EpisodeNext]_episodeVars

-----------------------------------------------------------------------------
(* audit.py and eligibility.py                                             *)

\* audit_run on the files of one run.
AuditValid(f) ==
  /\ f.monitor # "absent" /\ f.status # "none"
  /\ f.monitor = "completed" => f.sealed = f.beats
  /\ IF f.result = "none"
       THEN f.status = "interrupted" \/ (f.solver = "failed" /\ f.status = "failed")
       ELSE /\ f.claim
            /\ f.status = IF f.result = "complete" THEN "completed" ELSE "failed"

\* analyze_heartbeat_records: from started to stopped, without a gap.
Lifecycle(beats) ==
  /\ beats # <<>>
  /\ Head(beats).event = "started" /\ Last(beats).event = "stopped"
  /\ \A i \in 1 .. Len(beats) : beats[i].sequence = i - 1

\* Mutant: the hash of the heartbeat is not compared.
EligibleUnsealed(f) == AuditValid(f) /\ Lifecycle(f.beats)

\* assess_scientific_eligibility, for a clean source and a kept budget.
Eligible(f) == AuditValid(f) /\ f.sealed = f.beats /\ Lifecycle(f.beats)

\* summarize_schedule counts the run as an official pass or fail.
Scored(f) == Eligible(f) /\ f.result = "complete"

-----------------------------------------------------------------------------
EpisodeTypeOK ==
  /\ files \in [Position -> Files] /\ process \in [Process -> ProcessState]
  /\ evaluations \in [Position -> SUBSET Process]

\* The official evaluator runs at most once in a run directory, whatever dies
\* and whoever starts run_case.py again on it: even two processes that both
\* found the directory empty.  (--overwrite makes it a new directory.)
EvaluatedOnce == \A n \in Position : Cardinality(evaluations[n]) <= 1

\* No other process was let into the directory of p.
Alone(p) ==
  \A q \in Process \ {p} :
    process[q].position = process[p].position => process[q].exit = "refused" \/ At(q, "creating")

\* A solver that failed, or a result that has its status.
Finished(f) == (f.result # "none" \/ f.solver = "failed") /\ f.status # "running"

\* An episode that reaches its end with the heartbeat thread joined is
\* eligible, unless an exception took its solver section, its result or the
\* status of its evaluation; one that says it succeeded is scored.  Whatever
\* heartbeats there were, the file is one lifecycle.
FinishedIsEligible ==
  \A p \in Process : At(p, "leaving") /\ process[p].joined /\ Alone(p) =>
    /\ Finished(Here(p)) => Eligible(Here(p))
    /\ process[p].exit = "zero" => Scored(Here(p))

\* A run that counts went through to its end: nothing that a process leaves
\* behind when it dies before it sealed its heartbeat is eligible, whatever the
\* thread wrote last.
EligibleWentThrough ==
  \A p \in Process : Alone(p) /\ Alive(p) /\ Eligible(Here(p)) => At(p, "leaving")

=============================================================================
