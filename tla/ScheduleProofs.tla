---------------------------- MODULE ScheduleProofs --------------------------
(***************************************************************************)
(* First the episodes: any number of processes started on any number of    *)
(* run directories, with their heartbeat threads, and deaths at any step.  *)
(* The directories are well formed, and each is evaluated at most once.    *)
(*                                                                         *)
(* Then the schedule: its coordinators, whenever they are killed, begin    *)
(* every position at most once and one at a time, and leave a recorded     *)
(* position alone: no process of it writes any more, and an interrupted    *)
(* run stays as it was marked.  For any number of positions, processes,    *)
(* heartbeats and coordinators.                                            *)
(***************************************************************************)
EXTENDS Schedule, FiniteSetTheorems, TLAPS

-----------------------------------------------------------------------------
(* The episodes                                                            *)

\* Whatever writes is alive, and writes into a directory of the schedule.
Located ==
  \A p \in Process :
    /\ ~At(p, "idle") => process[p].position \in Position
    /\ process[p].thread # "off" => Alive(p)

\* The process that holds the claim of a directory: it has the evaluator
\* running, or ran it, or is about to start it.
Holds(p, n) ==
  \/ p \in evaluations[n]
  \/ At(p, "preparing") /\ process[p].position = n

\* Who holds a claim wrote the claim file, and is the only one.  The file is
\* never removed.
ClaimExclusive ==
  \A n \in Position : \A p \in Process :
    Holds(p, n) =>
      /\ files[n].claim
      /\ \A q \in Process : Holds(q, n) => q = p

EpisodeInv == EpisodeTypeOK /\ Located /\ ClaimExclusive

LEMMA EpisodeInitInv == EpisodeInit => EpisodeInv
<1> SUFFICES ASSUME EpisodeInit PROVE EpisodeInv
  OBVIOUS
<1>1. NoFiles \in Files /\ NoProcess \in ProcessState
  BY DEF NoFiles, Files, NoProcess, ProcessState, Control, Outcome
<1>2. EpisodeTypeOK
  BY <1>1 DEF EpisodeInit, EpisodeTypeOK
<1>3. Located /\ ClaimExclusive
  BY DEF EpisodeInit, NoProcess, Located, ClaimExclusive, Holds, At, Alive
<1> QED BY <1>2, <1>3 DEF EpisodeInv

-----------------------------------------------------------------------------
(* What a step writes                                                      *)

LEMMA PutIs ==
  ASSUME EpisodeTypeOK, NEW p \in Process, process[p].position \in Position,
         NEW field, NEW value, Put(p, field, value)
  PROVE  files' = [files EXCEPT ![process[p].position] = [Here(p) EXCEPT ![field] = value]]
BY DEF EpisodeTypeOK, Put, Here

\* Every section but the claim, by its name.
LEMMA SectionTypes ==
  ASSUME NEW f \in Files
  PROVE  /\ \A v \in Seq(Record) :
              LET g == [f EXCEPT !["beats"] = v] IN g \in Files /\ g.claim = f.claim
         /\ \A v \in {"generating", "generated", "failed", "running", "completed", "interrupted"} :
              LET g == [f EXCEPT !["status"] = v] IN g \in Files /\ g.claim = f.claim
         /\ \A v \in Outcome :
              LET g == [f EXCEPT !["result"] = v] IN g \in Files /\ g.claim = f.claim
BY DEF Files

LEMMA BeatTypes ==
  ASSUME NEW f \in Files, NEW n \in Nat, NEW event \in {"started", "heartbeat", "stopped"}
  PROVE  Append(f.beats, Beat(event, n)) \in Seq(Record) /\ <<Beat(event, n)>> \in Seq(Record)
BY DEF Files, Beat, Record

\* Process p goes on, in its place, and may write into its directory, but not
\* to the place behind the claim and not to the claim file.
LEMMA QuietMove ==
  ASSUME EpisodeInv, NEW p \in Process, process[p].position \in Position,
         NEW r \in ProcessState, process' = [process EXCEPT ![p] = r],
         r.position = process[p].position,
         r.thread # "off" => r.pc \notin {"idle", "exited"},
         r.pc = "preparing" => process[p].pc = "preparing",
         NEW f \in Files, f.claim = Here(p).claim,
         files' = files \/ files' = [files EXCEPT ![process[p].position] = f],
         evaluations' = evaluations
  PROVE  EpisodeInv'
<1> USE DEF EpisodeInv, EpisodeTypeOK
<1>1. EpisodeTypeOK'
  OBVIOUS
<1>2. Located'
  BY DEF Located, At, Alive
<1>3. \A n \in Position : files'[n].claim = files[n].claim
  BY DEF Here
<1>4. \A q \in Process, n \in Position : Holds(q, n)' => Holds(q, n)
  BY DEF Holds, At
<1>5. ClaimExclusive'
  BY <1>3, <1>4 DEF ClaimExclusive
<1> QED BY <1>1, <1>2, <1>5

\* The same without a write.
LEMMA SilentMove ==
  ASSUME EpisodeInv, NEW p \in Process, process[p].position \in Position,
         NEW r \in ProcessState, process' = [process EXCEPT ![p] = r],
         r.position = process[p].position,
         r.thread # "off" => r.pc \notin {"idle", "exited"},
         r.pc = "preparing" => process[p].pc = "preparing",
         files' = files, evaluations' = evaluations
  PROVE  EpisodeInv'
BY QuietMove DEF EpisodeInv, EpisodeTypeOK, Here

\* The ways a process goes on.
LEMMA MoveTypes ==
  ASSUME EpisodeTypeOK, NEW p \in Process, process[p].position \in Position
  PROVE  /\ process[p] \in ProcessState /\ Here(p) \in Files
         /\ \A place \in Control :
              Go(p, place) =>
                \E r \in ProcessState :
                  /\ process' = [process EXCEPT ![p] = r]
                  /\ r.position = process[p].position /\ r.pc = place
         /\ \A exit \in {"none", "zero", "failure", "refused", "killed"} :
              /\ Unwind(p, exit) =>
                   \E r \in ProcessState :
                     /\ process' = [process EXCEPT ![p] = r]
                     /\ r.position = process[p].position /\ r.pc = "stopping"
              /\ Gone(p, exit) =>
                   \E r \in ProcessState :
                     /\ process' = [process EXCEPT ![p] = r]
                     /\ r.position = process[p].position /\ r.pc = "exited" /\ r.thread = "off"
<1>1. process[p] \in ProcessState /\ Here(p) \in Files
  BY DEF EpisodeTypeOK, Here
<1>2. ASSUME NEW place \in Control, Go(p, place)
      PROVE  \E r \in ProcessState :
               /\ process' = [process EXCEPT ![p] = r]
               /\ r.position = process[p].position /\ r.pc = place
  <2> DEFINE r == [process[p] EXCEPT !.pc = place]
  <2>1. r \in ProcessState /\ r.position = process[p].position /\ r.pc = place
    BY <1>1 DEF ProcessState
  <2>2. process' = [process EXCEPT ![p] = r]
    BY <1>2 DEF Go
  <2> QED BY <2>1, <2>2
<1>3. ASSUME NEW exit \in {"none", "zero", "failure", "refused", "killed"}, Unwind(p, exit)
      PROVE  \E r \in ProcessState :
               /\ process' = [process EXCEPT ![p] = r]
               /\ r.position = process[p].position /\ r.pc = "stopping"
  <2> DEFINE r == [process[p] EXCEPT !.pc = "stopping", !.exit = exit]
  <2>1. r \in ProcessState /\ r.position = process[p].position /\ r.pc = "stopping"
    BY ZenonT(40), <1>1 DEF ProcessState, Control
  <2>2. process' = [process EXCEPT ![p] = r]
    BY <1>1, <1>3 DEF Unwind, EpisodeTypeOK, ProcessState
  <2> QED BY <2>1, <2>2
<1>4. ASSUME NEW exit \in {"none", "zero", "failure", "refused", "killed"}, Gone(p, exit)
      PROVE  \E r \in ProcessState :
               /\ process' = [process EXCEPT ![p] = r]
               /\ r.position = process[p].position /\ r.pc = "exited" /\ r.thread = "off"
  <2> DEFINE r == [NoProcess EXCEPT !.pc = "exited", !.position = process[p].position,
                                    !.exit = exit, !.joined = process[p].joined]
  <2>1. r \in ProcessState /\ r.position = process[p].position /\ r.pc = "exited" /\ r.thread = "off"
    BY ZenonT(40), <1>1, <1>4 DEF ProcessState, NoProcess, Control, Outcome
  <2>2. process' = [process EXCEPT ![p] = r]
    BY <1>4 DEF Gone
  <2> QED BY <2>1, <2>2
<1> QED BY <1>1, <1>2, <1>3, <1>4

-----------------------------------------------------------------------------
(* The steps                                                               *)

LEMMA SpawnInv ==
  ASSUME EpisodeInv, NEW p \in Process, NEW n \in Position, Spawn(p, n)
  PROVE  EpisodeInv'
<1> USE DEF EpisodeInv
<1> DEFINE r == [process[p] EXCEPT !.pc = "creating", !.position = n]
<1>0. process[p] \in ProcessState
  BY DEF EpisodeTypeOK
<1>1. r \in ProcessState /\ process' = [process EXCEPT ![p] = r]
  <2>1. r \in ProcessState
    BY <1>0 DEF ProcessState, Control
  <2>2. process' = [process EXCEPT ![p] = r]
    BY <1>0 DEF Spawn, EpisodeTypeOK, ProcessState
  <2> QED BY <2>1, <2>2
<1>2. EpisodeTypeOK' /\ Located'
  BY <1>1 DEF Spawn, EpisodeTypeOK, Located, At, Alive
<1>3. \A q \in Process, m \in Position : Holds(q, m)' => Holds(q, m)
  BY <1>1 DEF Spawn, Holds, At, EpisodeTypeOK, ProcessState
<1>4. files' = files
  BY DEF Spawn
<1>5. ClaimExclusive'
  BY <1>3, <1>4 DEF ClaimExclusive
<1> QED BY <1>2, <1>5

LEMMA ThreadStepInv ==
  ASSUME EpisodeInv, NEW p \in Process, ThreadStep(p)
  PROVE  EpisodeInv'
<1> USE DEF EpisodeInv
<1>1. process[p].position \in Position /\ process[p].pc \notin {"idle", "exited"}
  BY DEF Located, Alive, At, ThreadStep, ThreadWakes, ThreadDrafts, ThreadWrites, ThreadUnlocks, ThreadCounts
<1>2. process[p] \in ProcessState /\ Here(p) \in Files
  BY <1>1, MoveTypes
<1>7. CASE ThreadWakes(p)
  <2> DEFINE r == [process[p] EXCEPT !.thread = "woken"]
  <2>1. r \in ProcessState /\ r.position = process[p].position /\ r.pc = process[p].pc
    BY <1>2 DEF ProcessState
  <2>2. process' = [process EXCEPT ![p] = r]
    BY <1>2, <1>7 DEF ThreadWakes, EpisodeTypeOK, ProcessState
  <2> QED BY <1>1, <1>7, <2>1, <2>2, SilentMove DEF ThreadWakes
<1>3. CASE ThreadDrafts(p)
  <2> DEFINE r == [process[p] EXCEPT !.thread = "drafted", !.draft = process[p].sequence]
  <2>1. r \in ProcessState /\ r.position = process[p].position /\ r.pc = process[p].pc
    BY <1>2 DEF ProcessState
  <2>2. process' = [process EXCEPT ![p] = r]
    BY <1>2, <1>3 DEF ThreadDrafts, EpisodeTypeOK, ProcessState
  <2>3. files' = files /\ evaluations' = evaluations
    BY <1>3 DEF ThreadDrafts
  <2> HIDE DEF r
  <2> QED BY <1>1, <2>1, <2>2, <2>3, SilentMove
<1>4. CASE ThreadWrites(p)
  <2> DEFINE r == [process[p] EXCEPT !.thread = "writing"]
             f == [Here(p) EXCEPT !["beats"] =
                     Append(Here(p).beats, Beat("heartbeat", process[p].draft))]
  <2>1. r \in ProcessState /\ r.position = process[p].position /\ r.pc = process[p].pc
    BY <1>2 DEF ProcessState
  <2>2. process' = [process EXCEPT ![p] = r]
    BY <1>2, <1>4 DEF ThreadWrites, EpisodeTypeOK, ProcessState
  <2>3. process[p].draft \in Nat
    BY <1>2 DEF ProcessState
  <2>4. f \in Files /\ f.claim = Here(p).claim
    BY <1>2, <2>3, BeatTypes, SectionTypes
  <2>5. files' = [files EXCEPT ![process[p].position] = f]
    BY ZenonT(40), <1>1, <1>4, PutIs DEF ThreadWrites
  <2>6. evaluations' = evaluations
    BY <1>4 DEF ThreadWrites
  <2> QED BY <1>1, <2>1, <2>2, <2>4, <2>5, <2>6, QuietMove
<1>5. CASE ThreadUnlocks(p)
  <2> DEFINE r == [process[p] EXCEPT !.thread = "written"]
  <2>1. r \in ProcessState /\ r.position = process[p].position /\ r.pc = process[p].pc
    BY <1>2 DEF ProcessState
  <2>2. process' = [process EXCEPT ![p] = r]
    BY <1>2, <1>5 DEF ThreadUnlocks, EpisodeTypeOK, ProcessState
  <2> QED BY <1>1, <1>5, <2>1, <2>2, SilentMove DEF ThreadUnlocks
<1>6. CASE ThreadCounts(p)
  <2> DEFINE next == process[p].sequence + 1
             r == [process[p] EXCEPT !.thread = "waiting", !.sequence = next]
  <2>0. next \in Nat
    BY <1>2 DEF ProcessState
  <2> HIDE DEF next
  <2>1. r \in ProcessState /\ r.position = process[p].position /\ r.pc = process[p].pc
    BY <1>2, <2>0 DEF ProcessState
  <2>2. process' = [process EXCEPT ![p] = r]
    BY <1>2, <1>6 DEF next, ThreadCounts, EpisodeTypeOK, ProcessState
  <2> QED BY ZenonT(40), <1>1, <1>6, <2>1, <2>2, SilentMove DEF ThreadCounts
<1> QED BY <1>3, <1>4, <1>5, <1>6, <1>7 DEF ThreadStep

\* What a step of the main thread writes, and where it goes on.
LEMMA MainStepQuiet ==
  ASSUME EpisodeInv, NEW p \in Process, EpisodeStep(p), ~Claim(p), ~Prepare(p)
  PROVE  EpisodeInv'
<1> USE DEF EpisodeInv
<1>1. process[p].position \in Position
  BY DEF Located, EpisodeStep, At, Create, Initialize, Solve, Generate, AdmitEvaluation, Evaluate,
     Close, SetStop, Join, EndDrafts, EndWrites, Seal, Leave
<1>2. process[p] \in ProcessState /\ Here(p) \in Files
  BY <1>1, MoveTypes
<1>3. ASSUME NEW place \in Control \ {"preparing", "idle", "exited"}, Go(p, place), evaluations' = evaluations,
             NEW f \in Files, f.claim = Here(p).claim,
             files' = files \/ files' = [files EXCEPT ![process[p].position] = f]
      PROVE  EpisodeInv'
  <2>1. PICK r \in ProcessState : /\ process' = [process EXCEPT ![p] = r]
                                  /\ r.position = process[p].position /\ r.pc = place
    BY <1>1, <1>3, MoveTypes
  <2> QED BY <1>1, <1>3, <2>1, QuietMove
<1>4. ASSUME NEW exit \in {"none", "zero", "failure", "refused", "killed"},
             Unwind(p, exit) \/ Gone(p, exit), evaluations' = evaluations,
             NEW f \in Files, f.claim = Here(p).claim,
             files' = files \/ files' = [files EXCEPT ![process[p].position] = f]
      PROVE  EpisodeInv'
  <2>1. PICK r \in ProcessState : /\ process' = [process EXCEPT ![p] = r]
                                  /\ r.position = process[p].position
                                  /\ r.pc = "stopping" \/ (r.pc = "exited" /\ r.thread = "off")
    BY <1>1, <1>4, MoveTypes
  <2>2. r.pc # "preparing" /\ (r.thread # "off" => r.pc \notin {"idle", "exited"})
    BY <2>1
  <2> QED BY <1>1, <1>4, <2>1, <2>2, QuietMove
<1>5. CASE Create(p) \/ AdmitEvaluation(p) \/ Leave(p)
  <2>1. process[p].exit \in {"none", "zero", "failure", "refused", "killed"}
    BY <1>2 DEF ProcessState
  <2>2. /\ files' = files /\ evaluations' = evaluations
        /\ \/ \E place \in {"making", "claiming"} : Go(p, place)
           \/ \E exit \in {"none", "zero", "failure", "refused", "killed"} :
                Unwind(p, exit) \/ Gone(p, exit)
    BY <1>5, <2>1 DEF Create, AdmitEvaluation, Leave
  <2> QED BY <1>2, <1>3, <1>4, <2>2 DEF Control
<1>6. CASE Initialize(p)
  <2> DEFINE r == [process[p] EXCEPT !.pc = "solving", !.thread = "waiting", !.sequence = 1]
             f == [Here(p) EXCEPT !.monitor = "running", !.solver = "none", !.result = "none",
                                  !.sealed = <<>>, !.beats = <<Beat("started", 0)>>]
  <2>1. r \in ProcessState /\ r.position = process[p].position /\ r.pc \notin {"preparing", "idle", "exited"}
    BY ZenonT(40), <1>2 DEF ProcessState, Control
  <2>2. process' = [process EXCEPT ![p] = r]
    BY <1>2, <1>6 DEF Initialize, EpisodeTypeOK, ProcessState
  <2>3. <<Beat("started", 0)>> \in Seq(Record) /\ <<>> \in Seq(Record)
    BY DEF Beat, Record
  <2>4. f \in Files /\ f.claim = Here(p).claim
    BY <1>2, <2>3 DEF Files
  <2>5. files' = [files EXCEPT ![process[p].position] = f] /\ evaluations' = evaluations
    BY <1>1, <1>6 DEF Initialize, Here, EpisodeTypeOK
  <2> QED BY <1>1, <2>1, <2>2, <2>4, <2>5, QuietMove
<1>7. CASE Solve(p)
  <2> DEFINE f == [Here(p) EXCEPT !["status"] = "generating"]
  <2>1. f \in Files /\ f.claim = Here(p).claim
    BY <1>2, SectionTypes
  <2>2. files' = [files EXCEPT ![process[p].position] = f]
    BY <1>1, <1>7, PutIs DEF Solve
  <2> QED BY <1>3, <1>7, <2>1, <2>2 DEF Solve, Control
<1>8. CASE Generate(p)
  <2> DEFINE f(solver, status) == [Here(p) EXCEPT !.solver = solver, !.status = status]
  <2>1. \/ /\ files' = [files EXCEPT ![process[p].position] = f("generated", "generated")]
           /\ Go(p, "admitting")
        \/ /\ files' = [files EXCEPT ![process[p].position] = f("failed", "failed")]
           /\ Unwind(p, "failure")
        \/ Unwind(p, "failure") /\ files' = files
    BY <1>1, <1>8 DEF Generate, Here, EpisodeTypeOK
  <2>2. /\ f("generated", "generated") \in Files /\ f("generated", "generated").claim = Here(p).claim
        /\ f("failed", "failed") \in Files /\ f("failed", "failed").claim = Here(p).claim
    BY <1>2 DEF Files
  <2>3. evaluations' = evaluations
    BY <1>8 DEF Generate
  <2> QED BY <1>2, <1>3, <1>4, <2>1, <2>2, <2>3 DEF Control
<1>9. CASE Evaluate(p)
  <2>1. CASE Unwind(p, "failure") /\ UNCHANGED files
    BY <1>2, <1>4, <1>9, <2>1 DEF Evaluate
  <2>2. ASSUME NEW outcome \in Outcome, Put(p, "result", outcome),
               process' = [process EXCEPT ![p].pc = "closing", ![p].measured = outcome]
        PROVE  EpisodeInv'
    <3> DEFINE r == [process[p] EXCEPT !.pc = "closing", !.measured = outcome]
    <3>1. r \in ProcessState /\ r.position = process[p].position /\ r.pc \notin {"preparing", "idle", "exited"}
      BY <1>2 DEF ProcessState, Control
    <3>2. process' = [process EXCEPT ![p] = r]
      BY <1>2, <2>2 DEF EpisodeTypeOK, ProcessState
    <3>3. evaluations' = evaluations
      BY <1>9 DEF Evaluate
    <3> DEFINE f == [Here(p) EXCEPT !["result"] = outcome]
    <3>4. f \in Files /\ f.claim = Here(p).claim
      BY <1>2, SectionTypes
    <3>5. files' = [files EXCEPT ![process[p].position] = f]
      BY <1>1, <2>2, PutIs
    <3> QED BY <1>1, <3>1, <3>2, <3>3, <3>4, <3>5, QuietMove
  <2> QED BY <1>9, <2>1, <2>2 DEF Evaluate
<1>10. CASE Close(p)
  <2>1. CASE Unwind(p, "failure") /\ UNCHANGED files
    BY <1>2, <1>4, <1>10, <2>1 DEF Close
  <2>2. ASSUME NEW status \in {"completed", "failed"}, NEW exit \in {"zero", "failure"},
               Put(p, "status", status), Unwind(p, exit)
        PROVE  EpisodeInv'
    <3>1. evaluations' = evaluations
      BY <1>10 DEF Close
    <3> DEFINE f == [Here(p) EXCEPT !["status"] = status]
    <3>2. f \in Files /\ f.claim = Here(p).claim
      BY <1>2, SectionTypes
    <3>3. files' = [files EXCEPT ![process[p].position] = f]
      BY <1>1, <2>2, PutIs
    <3> QED BY <1>4, <2>2, <3>1, <3>2, <3>3
  <2> QED BY <1>10, <2>1, <2>2 DEF Close
<1>11. CASE SetStop(p)
  <2> DEFINE r == [process[p] EXCEPT !.pc = "joining", !.stop = TRUE]
  <2>1. r \in ProcessState /\ r.position = process[p].position /\ r.pc \notin {"preparing", "idle", "exited"}
    BY <1>2 DEF ProcessState, Control
  <2>2. process' = [process EXCEPT ![p] = r]
    BY <1>2, <1>11 DEF SetStop, EpisodeTypeOK, ProcessState
  <2> QED BY <1>1, <1>11, <2>1, <2>2, SilentMove DEF SetStop
<1>12. CASE Join(p)
  <2> DEFINE waiting == process[p].thread = "waiting"
             r == [process[p] EXCEPT !.pc = "ending", !.joined = waiting,
                                     !.thread = IF waiting THEN "off" ELSE @]
  <2>1. r \in ProcessState /\ r.position = process[p].position /\ r.pc \notin {"preparing", "idle", "exited"}
    BY ZenonT(40), <1>2 DEF ProcessState, Control
  <2>2. process' = [process EXCEPT ![p] = r]
    BY <1>2, <1>12 DEF Join, EpisodeTypeOK, ProcessState
  <2> QED BY <1>1, <1>12, <2>1, <2>2, SilentMove DEF Join
<1>13. CASE EndDrafts(p)
  <2> DEFINE r == [process[p] EXCEPT !.pc = "appending", !.last = process[p].sequence]
  <2>1. r \in ProcessState /\ r.position = process[p].position /\ r.pc \notin {"preparing", "idle", "exited"}
    BY <1>2 DEF ProcessState, Control
  <2>2. process' = [process EXCEPT ![p] = r]
    BY <1>2, <1>13 DEF EndDrafts, EpisodeTypeOK, ProcessState
  <2> QED BY <1>1, <1>13, <2>1, <2>2, SilentMove DEF EndDrafts
<1>14. CASE EndWrites(p)
  <2>1. process[p].last \in Nat
    BY <1>2 DEF ProcessState
  <2> DEFINE f == [Here(p) EXCEPT !["beats"] =
                     Append(Here(p).beats, Beat("stopped", process[p].last))]
  <2>2. f \in Files /\ f.claim = Here(p).claim
    BY <1>2, <2>1, BeatTypes, SectionTypes
  <2>3. files' = [files EXCEPT ![process[p].position] = f]
    BY ZenonT(40), <1>1, <1>14, PutIs DEF EndWrites
  <2> QED BY <1>3, <1>14, <2>2, <2>3 DEF EndWrites, Control
<1>15. CASE Seal(p)
  <2> DEFINE f == [Here(p) EXCEPT !.monitor = "completed", !.sealed = Here(p).beats]
  <2>1. f \in Files /\ f.claim = Here(p).claim
    BY <1>2 DEF Files
  <2>2. files' = [files EXCEPT ![process[p].position] = f]
    BY <1>1, <1>15 DEF Seal, Here, EpisodeTypeOK
  <2> QED BY <1>3, <1>15, <2>1, <2>2 DEF Seal, Control
<1> QED
  BY <1>5, <1>6, <1>7, <1>8, <1>9, <1>10, <1>11, <1>12, <1>13, <1>14, <1>15 DEF EpisodeStep

\* The claim file is made by one process, which is the one that holds it.
LEMMA ClaimInv ==
  ASSUME EpisodeInv, NEW p \in Process, Claim(p)
  PROVE  EpisodeInv'
<1> USE DEF EpisodeInv
<1> DEFINE n == process[p].position
<1>1. n \in Position
  BY DEF Located, Claim, At
<1>2. process[p] \in ProcessState /\ Here(p) \in Files
  BY <1>1, MoveTypes
<1>3. CASE Here(p).claim
  <2>1. Unwind(p, "failure") /\ files' = files /\ evaluations' = evaluations
    BY <1>3 DEF Claim
  <2>2. PICK r \in ProcessState : /\ process' = [process EXCEPT ![p] = r]
                                  /\ r.position = n /\ r.pc = "stopping"
    BY <1>1, <2>1, MoveTypes
  <2> QED BY <1>1, <2>1, <2>2, SilentMove
<1>4. CASE ~Here(p).claim
  <2> DEFINE f == [Here(p) EXCEPT !["claim"] = TRUE]
  <2>1. /\ files' = [files EXCEPT ![n] = f] /\ f \in Files /\ f.claim
        /\ evaluations' = evaluations
    <3>1. f \in Files /\ f.claim
      BY <1>2 DEF Files
    <3>2. files' = [files EXCEPT ![n] = f]
      BY <1>1, <1>4, PutIs DEF Claim
    <3> QED BY <1>4, <3>1, <3>2 DEF Claim
  <2>2. PICK r \in ProcessState : /\ process' = [process EXCEPT ![p] = r]
                                  /\ r.position = n /\ r.pc = "preparing"
    BY <1>1, <1>4, MoveTypes DEF Claim, Control
  <2>3. EpisodeTypeOK' /\ Located'
    BY <1>1, <2>1, <2>2 DEF EpisodeTypeOK, Located, At, Alive
  <2>4. \A q \in Process : ~Holds(q, n)
    BY <1>1, <1>4 DEF ClaimExclusive, Here
  <2>5. \A q \in Process, m \in Position :
          Holds(q, m)' => Holds(q, m) \/ (q = p /\ m = n)
    BY <2>1, <2>2 DEF Holds, At, EpisodeTypeOK
  <2>6. \A m \in Position : files[m].claim => files'[m].claim
    BY <2>1 DEF EpisodeTypeOK
  <2>7. files'[n].claim
    BY <1>1, <2>1 DEF EpisodeTypeOK
  <2>8. ClaimExclusive'
    BY <2>4, <2>5, <2>6, <2>7 DEF ClaimExclusive
  <2> QED BY <2>3, <2>8
<1> QED BY <1>3, <1>4

\* It starts the evaluator where it holds the claim.
LEMMA PrepareInv ==
  ASSUME EpisodeInv, NEW p \in Process, Prepare(p)
  PROVE  EpisodeInv'
<1> USE DEF EpisodeInv
<1> DEFINE n == process[p].position
           f == [Here(p) EXCEPT !["status"] = "running"]
<1>1. n \in Position
  BY DEF Located, Prepare, At
<1>2. process[p] \in ProcessState /\ Here(p) \in Files
  BY <1>1, MoveTypes
<1>3. files' = [files EXCEPT ![n] = f] /\ f \in Files /\ f.claim = Here(p).claim
  BY <1>1, <1>2, PutIs, SectionTypes DEF Prepare
<1>4. PICK r \in ProcessState : /\ process' = [process EXCEPT ![p] = r]
                                /\ r.position = n /\ r.pc = "evaluating"
  BY <1>1, MoveTypes DEF Prepare, Control
<1>5. EpisodeTypeOK' /\ Located'
  BY <1>1, <1>3, <1>4 DEF Prepare, EpisodeTypeOK, Located, At, Alive
<1>6. \A q \in Process, m \in Position : Holds(q, m)' => Holds(q, m)
  BY <1>1, <1>4 DEF Prepare, Holds, At, EpisodeTypeOK
<1>7. \A m \in Position : files'[m].claim = files[m].claim
  BY <1>3 DEF Here, EpisodeTypeOK
<1>8. ClaimExclusive'
  BY <1>6, <1>7 DEF ClaimExclusive
<1> QED BY <1>5, <1>8

LEMMA DieInv ==
  ASSUME EpisodeInv, NEW p \in Process, Die(p)
  PROVE  EpisodeInv'
<1> USE DEF EpisodeInv
<1>1. process[p].position \in Position
  BY DEF Located, Die, Alive, At
<1>2. PICK r \in ProcessState : /\ process' = [process EXCEPT ![p] = r]
                                /\ r.position = process[p].position /\ r.pc = "exited" /\ r.thread = "off"
  BY <1>1, MoveTypes DEF Die
<1> QED BY <1>1, <1>2, SilentMove DEF Die

LEMMA EpisodeStepInv ==
  ASSUME EpisodeInv, NEW p \in Process, EpisodeStep(p)
  PROVE  EpisodeInv'
BY MainStepQuiet, ClaimInv, PrepareInv

LEMMA EpisodeNextInv == EpisodeInv /\ [EpisodeNext]_episodeVars => EpisodeInv'
<1> SUFFICES ASSUME EpisodeInv, [EpisodeNext]_episodeVars PROVE EpisodeInv'
  OBVIOUS
<1>1. CASE UNCHANGED episodeVars
  BY <1>1 DEF episodeVars, EpisodeInv, EpisodeTypeOK, Located, ClaimExclusive, Holds, At, Alive
<1>2. CASE EpisodeNext
  BY <1>2, SpawnInv, EpisodeStepInv, ThreadStepInv, DieInv DEF EpisodeNext
<1> QED BY <1>1, <1>2

-----------------------------------------------------------------------------
\* One holder of the claim is one evaluation.
LEMMA InvImpliesEvaluatedOnce == EpisodeInv => EvaluatedOnce
<1> SUFFICES ASSUME EpisodeInv, NEW n \in Position
             PROVE  Cardinality(evaluations[n]) <= 1
  BY DEF EvaluatedOnce
<1>1. \A p, q \in evaluations[n] : p = q
  BY DEF EpisodeInv, EpisodeTypeOK, ClaimExclusive, Holds
<1>2. CASE evaluations[n] = {}
  BY <1>2, FS_EmptySet
<1>3. CASE evaluations[n] # {}
  <2>1. PICK p : evaluations[n] = {p}
    BY <1>1, <1>3
  <2>2. Cardinality({p}) = 1
    BY FS_Singleton
  <2> QED BY <2>1, <2>2
<1> QED BY <1>2, <1>3

-----------------------------------------------------------------------------
(* What a process may change, for the modules that compose it              *)

LEMMA EpisodeFrame ==
  ASSUME EpisodeInv, NEW p \in Process, EpisodeStep(p) \/ ThreadStep(p) \/ Die(p)
  PROVE  /\ Alive(p) /\ process[p].position \in Position
         /\ process'[p].position = process[p].position /\ ~At(p, "idle")'
         /\ \A q \in Process \ {p} : process'[q] = process[q]
         /\ \A n \in Position \ {process[p].position} : files'[n] = files[n]
         /\ \A n \in Position :
              files'[n].status = "interrupted" => files[n].status = "interrupted"
<1> USE DEF EpisodeInv, EpisodeTypeOK
<1>1. Alive(p)
  BY DEF Located, EpisodeStep, ThreadStep, Die, Alive, At, Create, Initialize, Solve, Generate,
     AdmitEvaluation, Claim, Prepare, Evaluate, Close, SetStop, Join, EndDrafts, EndWrites, Seal,
     Leave, ThreadWakes, ThreadDrafts, ThreadWrites, ThreadUnlocks, ThreadCounts
<1>2. process[p].position \in Position /\ process[p] \in ProcessState /\ Here(p) \in Files
  BY <1>1 DEF Located, Alive, Here
<1> DEFINE Process1 ==
             /\ process'[p].position = process[p].position /\ process'[p].pc # "idle"
             /\ \A q \in Process \ {p} : process'[q] = process[q]
           Files1 ==
             /\ \A n \in Position \ {process[p].position} : files'[n] = files[n]
             /\ \A n \in Position :
                  files'[n].status = "interrupted" => files[n].status = "interrupted"
<1>3. \A r \in ProcessState :
        r.position = process[p].position /\ r.pc # "idle" /\ process' = [process EXCEPT ![p] = r]
          => Process1
  OBVIOUS
<1>4. (\E place \in Control \ {"idle"} : Go(p, place)) => Process1
  BY <1>2, <1>3, MoveTypes
<1>5. ASSUME \E exit \in {"none", "zero", "failure", "refused", "killed"} :
               Unwind(p, exit) \/ Gone(p, exit)
      PROVE  Process1
  <2>1. PICK r \in ProcessState : /\ process' = [process EXCEPT ![p] = r]
                                  /\ r.position = process[p].position
                                  /\ r.pc \in {"stopping", "exited"}
    BY <1>2, <1>5, MoveTypes
  <2> QED BY <1>3, <2>1
<1>6. ASSUME NEW f \in Files, files' = [files EXCEPT ![process[p].position] = f],
             f.status = "interrupted" => Here(p).status = "interrupted"
      PROVE  Files1
  BY <1>2, <1>6 DEF Here
<1>7. ASSUME NEW field \in {"beats", "claim", "result"}, NEW value, Put(p, field, value)
      PROVE  Files1
  <2> DEFINE f == [Here(p) EXCEPT ![field] = value]
  <2>1. f.status = Here(p).status
    BY <1>2 DEF Files
  <2>2. files' = [files EXCEPT ![process[p].position] = f]
    BY <1>2, <1>7, PutIs
  <2> QED BY <1>2, <2>1, <2>2 DEF Here
<1>8. ASSUME NEW value, value # "interrupted", Put(p, "status", value)
      PROVE  Files1
  <2> DEFINE f == [Here(p) EXCEPT !["status"] = value]
  <2>1. f.status = value
    BY <1>2 DEF Files
  <2>2. files' = [files EXCEPT ![process[p].position] = f]
    BY <1>2, <1>8, PutIs
  <2> QED BY <1>2, <1>8, <2>1, <2>2 DEF Here
<1>9. files' = files => Files1
  OBVIOUS
<1>10. Process1
  <2>1. process[p].exit \in {"none", "zero", "failure", "refused", "killed"}
    BY <1>2 DEF ProcessState
  <2>2. CASE Create(p) \/ AdmitEvaluation(p) \/ Leave(p) \/ Die(p)
    BY <1>4, <1>5, <2>1, <2>2 DEF Create, AdmitEvaluation, Leave, Die, Control
  <2>3. CASE Solve(p) \/ Generate(p) \/ Claim(p) \/ Prepare(p) \/ EndWrites(p) \/ Seal(p)
    BY <1>4, <1>5, <2>3 DEF Solve, Generate, Claim, Prepare, EndWrites, Seal, Control
  <2>4. CASE Close(p)
    BY <1>5, <2>4 DEF Close
  <2>5. CASE Evaluate(p) \/ Initialize(p)
    BY <1>2, <1>5, <2>5 DEF Evaluate, Initialize, ProcessState
  <2>6. CASE SetStop(p) \/ Join(p) \/ EndDrafts(p)
    BY <1>2, <2>6 DEF SetStop, Join, EndDrafts, ProcessState
  <2>7. CASE ThreadStep(p)
    BY <1>1, <1>2, <2>7 DEF ThreadStep, ThreadWakes, ThreadDrafts, ThreadWrites, ThreadUnlocks, ThreadCounts,
       ProcessState, Alive, At
  <2> QED BY <2>2, <2>3, <2>4, <2>5, <2>6, <2>7 DEF EpisodeStep
<1>11. Files1
  <2>1. CASE Create(p) \/ AdmitEvaluation(p) \/ Leave(p) \/ Die(p) \/ SetStop(p) \/ Join(p) \/ EndDrafts(p)
    BY <1>9, <2>1 DEF Create, AdmitEvaluation, Leave, Die, SetStop, Join, EndDrafts
  <2>2. CASE ThreadStep(p)
    BY <1>7, <1>9, <2>2 DEF ThreadStep, ThreadWakes, ThreadDrafts, ThreadWrites, ThreadUnlocks, ThreadCounts
  <2>3. CASE Claim(p) \/ Evaluate(p) \/ EndWrites(p)
    BY <1>7, <1>9, <2>3 DEF Claim, Evaluate, EndWrites
  <2>4. CASE Solve(p) \/ Prepare(p)
    BY <1>8, <2>4 DEF Solve, Prepare
  <2>5. CASE Close(p)
    BY <1>8, <1>9, <2>5 DEF Close
  <2>6. CASE Initialize(p)
    BY <1>2, <2>6 DEF Initialize, Here, Files
  <2>7. CASE Seal(p)
    BY <1>2, <2>7 DEF Seal, Here, Files
  <2>8. CASE Generate(p)
    <3> DEFINE f(solver, status) == [Here(p) EXCEPT !.solver = solver, !.status = status]
    <3>1. \/ files' = [files EXCEPT ![process[p].position] = f("generated", "generated")]
          \/ files' = [files EXCEPT ![process[p].position] = f("failed", "failed")]
          \/ files' = files
      BY <1>2, <2>8 DEF Generate, Here
    <3>2. /\ f("generated", "generated") \in Files /\ f("generated", "generated").status = "generated"
          /\ f("failed", "failed") \in Files /\ f("failed", "failed").status = "failed"
      BY <1>2 DEF Files
    <3> QED BY <1>6, <1>9, <3>1, <3>2
  <2> QED BY <2>1, <2>2, <2>3, <2>4, <2>5, <2>6, <2>7, <2>8 DEF EpisodeStep
<1> QED BY <1>1, <1>2, <1>10, <1>11 DEF At

-----------------------------------------------------------------------------
\* The invariant holds of every run.
THEOREM EpisodeSafe == EpisodeSpec => []EpisodeInv
BY EpisodeInitInv, EpisodeNextInv, PTL DEF EpisodeSpec

\* Run directories, claims, evaluations and processes are well formed.
THEOREM EpisodeTypeCorrect == EpisodeSpec => []EpisodeTypeOK
<1>1. EpisodeInv => EpisodeTypeOK
  BY DEF EpisodeInv
<1> QED BY <1>1, EpisodeSafe, PTL

\* EnvBenchEvaluator.evaluate: however many processes are started on however
\* many directories, and wherever they die, no directory is evaluated twice.
THEOREM NeverEvaluatedTwice == EpisodeSpec => []EvaluatedOnce
BY EpisodeSafe, InvImpliesEvaluatedOnce, PTL

-----------------------------------------------------------------------------
(* What a run leaves in its directory.  Who is alone in a directory finds  *)
(* there what it wrote itself: the place of the process says which records *)
(* and which sections there are.                                           *)

Working == {"solving", "generating", "admitting", "claiming", "preparing", "evaluating", "closing",
            "stopping", "joining"}
Ending == {"ending", "appending", "sealing", "leaving"}

\* RunArtifacts.create let the process in, or it died before it was asked.
Entered(p) == ~At(p, "idle") /\ ~At(p, "creating") /\ process[p].exit # "refused"

Untouched ==
  \A n \in Position :
    (\A p \in Process : process[p].position = n => ~Entered(p)) => files[n] = NoFiles

\* The heartbeat thread r of a process: it runs while the process works, and
\* after that unless it was joined; then the last number is its last one.
ThreadOK(r) ==
  /\ r.pc \in {"idle", "creating", "making", "exited"} => r.thread = "off"
  /\ r.pc \in Working => r.thread # "off"
  /\ r.pc \in Ending => (r.joined <=> r.thread = "off")
  /\ r.pc \in {"appending", "sealing", "leaving"} /\ r.joined => r.last = r.sequence
  /\ r.thread # "off" => r.sequence > 0
  /\ r.exit = "refused" => r.pc = "exited"
  /\ r.pc = "idle" => r.position = 0 /\ ~r.joined

\* The records are numbered from the one of start() on, and one that the
\* thread has written but not counted yet is the next one.
Numbered(beats) ==
  /\ beats # <<>> /\ Head(beats).event = "started"
  /\ \A i \in 1 .. Len(beats) : beats[i].sequence = i - 1
Counted(r) == IF r.thread \in {"writing", "written"} THEN r.sequence + 1 ELSE r.sequence
Counting(r, f) ==
  /\ Numbered(f.beats) /\ Len(f.beats) = Counted(r)
  /\ r.thread = "drafted" => r.draft = r.sequence

\* The heartbeat of a process that is alone in its directory, by its place.
\* Only Seal writes what is sealed.
Beating(r, f) ==
  /\ r.pc \in Working \cup {"ending", "appending", "sealing"} =>
       f.monitor = "running" /\ f.beats # <<>> /\ f.sealed = <<>>
  /\ r.pc \in Working \/ (r.pc \in {"ending", "appending"} /\ r.joined) => Counting(r, f)
  /\ r.pc \in {"sealing", "leaving"} /\ r.joined => Lifecycle(f.beats)
  /\ r.pc = "leaving" /\ r.joined => f.monitor = "completed" /\ f.sealed = f.beats

\* The sections and the status at the end of a run: a solver that failed has its
\* status, and a result that was measured has its own or still that of before.
Recorded(f) ==
  /\ f.solver = "failed" /\ f.result = "none" => f.status = "failed"
  /\ f.result # "none" =>
       /\ f.claim
       /\ f.status \in {IF f.result = "complete" THEN "completed" ELSE "failed", "running"}

\* The sections on the way there.
Solved(r, f) ==
  /\ r.pc \in {"solving", "generating"} => f.solver = "none"
  /\ r.pc \in {"admitting", "claiming", "preparing", "evaluating"} => f.solver = "generated"
  /\ r.pc \in Working \ {"closing", "stopping", "joining"} => f.result = "none"
  /\ r.pc \in {"preparing", "evaluating", "closing"} => f.claim
  /\ r.pc \in {"evaluating", "closing"} => f.status = "running"
  /\ r.pc = "closing" => f.result = r.measured /\ f.result # "none"
  /\ r.pc \in Ending \cup {"stopping", "joining"} =>
       Recorded(f) /\ (r.exit = "zero" => f.result = "complete" /\ f.status = "completed")

RunOK(r, f) == (r.pc = "making" => f = NoFiles) /\ Beating(r, f) /\ Solved(r, f)

Threads == \A p \in Process : ThreadOK(process[p])
Runs == \A p \in Process : Entered(p) /\ Alone(p) => RunOK(process[p], Here(p))

RunsInv == Untouched /\ Threads /\ Runs

LEMMA RunsInitInv == EpisodeInit => RunsInv
BY DEF EpisodeInit, NoProcess, RunsInv, Untouched, Threads, ThreadOK, Runs, Entered, At, Working,
   Ending

\* A process that was let in finds the directory as RunOK says.
LEMMA RunNow ==
  ASSUME EpisodeInv, RunsInv, NEW p \in Process, Alive(p), ~At(p, "creating")
  PROVE  /\ process[p].position \in Position /\ process[p] \in ProcessState /\ Here(p) \in Files
         /\ ThreadOK(process[p]) /\ process[p].exit # "refused"
         /\ Alone(p) => RunOK(process[p], Here(p))
<1>1. process[p].position \in Position /\ process[p] \in ProcessState /\ Here(p) \in Files
  BY MoveTypes DEF EpisodeInv, Located, Alive
<1>2. ThreadOK(process[p])
  BY DEF RunsInv, Threads
<1>3. process[p].exit # "refused"
  BY <1>2 DEF ThreadOK, Alive, At
<1>4. Entered(p)
  BY <1>3 DEF Entered, Alive
<1> QED BY <1>1, <1>2, <1>3, <1>4 DEF RunsInv, Runs

\* A process goes on inside of its directory.  The others that are alone are
\* so in other directories.
LEMMA RunMove ==
  ASSUME EpisodeInv, RunsInv, NEW p \in Process, process[p].position \in Position,
         NEW r, process' = [process EXCEPT ![p] = r], r.position = process[p].position,
         r.pc \notin {"idle", "creating"}, r.exit # "refused", ThreadOK(r),
         NEW f, files' = [files EXCEPT ![process[p].position] = f],
         Alone(p) => RunOK(r, f)
  PROVE  RunsInv'
<1> DEFINE n == process[p].position
<1>1. /\ process'[p] = r /\ \A q \in Process \ {p} : process'[q] = process[q]
      /\ files'[n] = f /\ \A m \in Position \ {n} : files'[m] = files[m]
  BY DEF EpisodeInv, EpisodeTypeOK
<1>2. Entered(p)' /\ \A q \in Process \ {p} : Entered(q)' <=> Entered(q)
  BY <1>1 DEF Entered, At
<1>3. Untouched'
  <2> SUFFICES ASSUME NEW m \in Position,
                      \A q \in Process : process'[q].position = m => ~Entered(q)'
               PROVE  files'[m] = NoFiles
    BY DEF Untouched
  <2>1. m # n
    BY <1>1, <1>2
  <2>2. \A q \in Process : process[q].position = m => ~Entered(q)
    BY <1>1, <1>2, <2>1
  <2> QED BY <1>1, <2>1, <2>2 DEF RunsInv, Untouched
<1>4. Threads'
  BY <1>1 DEF RunsInv, Threads
<1>5. ASSUME NEW q \in Process, Entered(q)', Alone(q)'
      PROVE  RunOK(process'[q], Here(q)')
  <2>1. CASE q = p
    <3>1. Alone(p)
      BY <1>1, <1>5, <2>1 DEF Alone, At
    <3> QED BY <1>1, <2>1, <3>1 DEF Here
  <2>2. CASE q # p
    <3>1. process'[q] = process[q] /\ Entered(q) /\ process[q].position \in Position
      BY <1>1, <1>2, <1>5, <2>2 DEF Entered, EpisodeInv, Located
    <3>2. process[q].position # n
      BY <1>1, <1>5, <2>2, <3>1 DEF Alone, At
    <3>3. Alone(q)
      BY <1>1, <1>5, <2>2, <3>1, <3>2 DEF Alone, At
    <3>4. Here(q)' = Here(q)
      BY <1>1, <3>1, <3>2 DEF Here
    <3> QED BY <3>1, <3>3, <3>4 DEF RunsInv, Runs
  <2> QED BY <2>1, <2>2
<1>6. Runs'
  BY <1>5 DEF Runs
<1> QED BY <1>3, <1>4, <1>6 DEF RunsInv

\* The same without a write.
LEMMA RunMoveSilent ==
  ASSUME EpisodeInv, RunsInv, NEW p \in Process, process[p].position \in Position,
         NEW r, process' = [process EXCEPT ![p] = r], r.position = process[p].position,
         r.pc \notin {"idle", "creating"}, r.exit # "refused", ThreadOK(r),
         files' = files, Alone(p) => RunOK(r, Here(p))
  PROVE  RunsInv'
<1>1. files' = [files EXCEPT ![process[p].position] = Here(p)]
  BY DEF EpisodeInv, EpisodeTypeOK, Here
<1> QED BY <1>1, RunMove

\* What is left of a process when it goes on, and of the sections of a file.
Kept(r, s) ==
  /\ s.position = r.position /\ s.last = r.last /\ s.sequence = r.sequence
  /\ s.thread = r.thread /\ s.draft = r.draft /\ s.joined = r.joined

LEMMA GoIs ==
  ASSUME EpisodeTypeOK, NEW p \in Process, NEW place \in Control, Go(p, place)
  PROVE  \E r \in ProcessState :
           /\ process' = [process EXCEPT ![p] = r]
           /\ Kept(process[p], r) /\ r.pc = place /\ r.exit = process[p].exit
<1> DEFINE r == [process[p] EXCEPT !.pc = place]
<1>1. process[p] \in ProcessState
  BY DEF EpisodeTypeOK
<1>2. r \in ProcessState /\ Kept(process[p], r) /\ r.pc = place /\ r.exit = process[p].exit
  BY <1>1 DEF ProcessState, Kept
<1>3. process' = [process EXCEPT ![p] = r]
  BY DEF Go
<1> QED BY <1>2, <1>3

LEMMA UnwindIs ==
  ASSUME EpisodeTypeOK, NEW p \in Process, NEW exit \in {"zero", "failure"}, Unwind(p, exit)
  PROVE  \E r \in ProcessState :
           /\ process' = [process EXCEPT ![p] = r]
           /\ Kept(process[p], r) /\ r.pc = "stopping" /\ r.exit = exit
<1> DEFINE r == [process[p] EXCEPT !.pc = "stopping", !.exit = exit]
<1>1. process[p] \in ProcessState
  BY DEF EpisodeTypeOK
<1>2. r \in ProcessState /\ r.pc = "stopping" /\ r.exit = exit
  BY ZenonT(40), <1>1 DEF ProcessState, Control
<1>3. Kept(process[p], r)
  BY <1>1 DEF ProcessState, Kept
<1>4. process' = [process EXCEPT ![p] = r]
  BY <1>1 DEF Unwind, EpisodeTypeOK, ProcessState
<1> QED BY <1>2, <1>3, <1>4

LEMMA GoneIs ==
  ASSUME EpisodeTypeOK, NEW p \in Process,
         NEW exit \in {"none", "zero", "failure", "refused", "killed"}, Gone(p, exit)
  PROVE  \E r :
           /\ process' = [process EXCEPT ![p] = r]
           /\ r.position = process[p].position /\ r.pc = "exited" /\ r.exit = exit /\ r.thread = "off"
           /\ r.joined = process[p].joined
<1> DEFINE r == [NoProcess EXCEPT !.pc = "exited", !.position = process[p].position, !.exit = exit,
                                  !.joined = process[p].joined]
<1>1. /\ r.position = process[p].position /\ r.pc = "exited" /\ r.exit = exit /\ r.thread = "off"
      /\ r.joined = process[p].joined
  BY DEF NoProcess
<1>2. process' = [process EXCEPT ![p] = r]
  BY DEF Gone
<1> QED BY <1>1, <1>2

\* A process that is gone has nothing to say of its directory.
LEMMA GoneOK ==
  ASSUME NEW r, NEW f, r.pc = "exited", r.thread = "off"
  PROVE  ThreadOK(r) /\ RunOK(r, f)
BY DEF ThreadOK, RunOK, Beating, Solved, Working, Ending

LEMMA StatusIs ==
  ASSUME NEW f \in Files, NEW v
  PROVE  LET g == [f EXCEPT !["status"] = v] IN
           /\ g.monitor = f.monitor /\ g.solver = f.solver /\ g.result = f.result
           /\ g.claim = f.claim /\ g.status = v /\ g.beats = f.beats /\ g.sealed = f.sealed
BY DEF Files

LEMMA ResultIs ==
  ASSUME NEW f \in Files, NEW v
  PROVE  LET g == [f EXCEPT !["result"] = v] IN
           /\ g.monitor = f.monitor /\ g.solver = f.solver /\ g.result = v
           /\ g.claim = f.claim /\ g.status = f.status /\ g.beats = f.beats /\ g.sealed = f.sealed
BY DEF Files

LEMMA ClaimIs ==
  ASSUME NEW f \in Files, NEW v
  PROVE  LET g == [f EXCEPT !["claim"] = v] IN
           /\ g.monitor = f.monitor /\ g.solver = f.solver /\ g.result = f.result
           /\ g.claim = v /\ g.status = f.status /\ g.beats = f.beats /\ g.sealed = f.sealed
BY DEF Files

LEMMA BeatsIs ==
  ASSUME NEW f \in Files, NEW v
  PROVE  LET g == [f EXCEPT !["beats"] = v] IN
           /\ g.monitor = f.monitor /\ g.solver = f.solver /\ g.result = f.result
           /\ g.claim = f.claim /\ g.status = f.status /\ g.beats = v /\ g.sealed = f.sealed
BY DEF Files

\* The records of the heartbeat, with a next one, and at the end with the last.
LEMMA NumberedAppend ==
  ASSUME NEW beats \in Seq(Record), Numbered(beats),
         NEW event \in {"heartbeat", "stopped"}
  PROVE  LET next == Append(beats, Beat(event, Len(beats))) IN
           /\ next \in Seq(Record) /\ Len(next) = Len(beats) + 1 /\ Numbered(next)
           /\ event = "stopped" => Lifecycle(next)
<1> DEFINE next == Append(beats, Beat(event, Len(beats)))
<1>1. Beat(event, Len(beats)) \in Record
  BY DEF Beat, Record
<1>2. /\ next \in Seq(Record) /\ Len(next) = Len(beats) + 1
      /\ \A i \in 1 .. Len(beats) : next[i] = beats[i]
      /\ next[Len(beats) + 1] = Beat(event, Len(beats))
  BY <1>1
<1>3. next # <<>> /\ Len(beats) \in Nat /\ Len(beats) > 0
  BY <1>2 DEF Numbered
<1>4. Head(next) = Head(beats)
  BY <1>2, <1>3
<1>5. \A i \in 1 .. Len(next) : next[i].sequence = i - 1
  <2> SUFFICES ASSUME NEW i \in 1 .. Len(beats) + 1 PROVE next[i].sequence = i - 1
    BY <1>2
  <2>1. CASE i \in 1 .. Len(beats)
    BY <1>2, <2>1 DEF Numbered
  <2>2. CASE i = Len(beats) + 1
    BY <1>2, <1>3, <2>2 DEF Beat
  <2> QED BY <1>3, <2>1, <2>2
<1>6. Numbered(next)
  BY <1>3, <1>4, <1>5 DEF Numbered
<1>7. Last(next).event = event
  BY <1>2, <1>3 DEF Last, Beat
<1>8. event = "stopped" => Lifecycle(next)
  BY <1>3, <1>5, <1>6, <1>7 DEF Lifecycle, Numbered
<1> QED BY <1>2, <1>6, <1>8

-----------------------------------------------------------------------------
(* The steps, again                                                        *)

LEMMA FilesStay ==
  ASSUME EpisodeTypeOK, NEW p \in Process, process[p].position \in Position, files' = files
  PROVE  files' = [files EXCEPT ![process[p].position] = Here(p)]
BY DEF EpisodeTypeOK, Here

\* While it works, the heartbeat is left to the thread.
LEMMA WorkMove ==
  ASSUME EpisodeInv, RunsInv, NEW p \in Process, process[p].pc \in Working,
         NEW r, process' = [process EXCEPT ![p] = r], Kept(process[p], r),
         r.pc \in Working, r.exit # "refused",
         NEW f, files' = [files EXCEPT ![process[p].position] = f],
         f.monitor = Here(p).monitor, f.beats = Here(p).beats, f.sealed = Here(p).sealed,
         Alone(p) => Solved(r, f)
  PROVE  RunsInv'
<1>1. Alive(p) /\ ~At(p, "creating")
  BY DEF Alive, At, Working
<1>2. /\ process[p].position \in Position
      /\ ThreadOK(process[p])
      /\ Alone(p) => RunOK(process[p], Here(p))
  BY <1>1, RunNow
<1>3. ThreadOK(r) /\ r.pc \notin {"idle", "creating"} /\ r.position = process[p].position
  BY <1>2 DEF ThreadOK, Kept, Working, Ending
<1>4. Alone(p) => RunOK(r, f)
  BY <1>2 DEF RunOK, Beating, Counting, Counted, Kept, Working
<1> QED BY <1>2, <1>3, <1>4, RunMove

LEMMA SolveRuns ==
  ASSUME EpisodeInv, RunsInv, NEW p \in Process, Solve(p)
  PROVE  RunsInv'
<1>1. process[p].pc = "solving" /\ Alive(p) /\ ~At(p, "creating")
  BY DEF Solve, Alive, At
<1>2. /\ process[p].position \in Position /\ Here(p) \in Files /\ process[p].exit # "refused"
      /\ Alone(p) => RunOK(process[p], Here(p))
  BY <1>1, RunNow
<1>3. PICK r \in ProcessState :
        /\ process' = [process EXCEPT ![p] = r]
        /\ Kept(process[p], r) /\ r.pc = "generating" /\ r.exit = process[p].exit
  BY GoIs DEF Solve, EpisodeInv, Control
<1> DEFINE f == [Here(p) EXCEPT !["status"] = "generating"]
<1>4. files' = [files EXCEPT ![process[p].position] = f]
  BY <1>2, PutIs DEF Solve, EpisodeInv
<1>5. /\ f.monitor = Here(p).monitor /\ f.beats = Here(p).beats /\ f.sealed = Here(p).sealed
      /\ f.solver = Here(p).solver /\ f.result = Here(p).result
  BY <1>2, StatusIs
<1> HIDE DEF f
<1>6. Alone(p) => Solved(r, f)
  BY <1>1, <1>2, <1>3, <1>5 DEF RunOK, Solved, Working, Ending
<1> QED BY <1>1, <1>2, <1>3, <1>4, <1>5, <1>6, WorkMove DEF Working

\* The runner finished, failed, or raised: then it left no solver section.
LEMMA GenerateRuns ==
  ASSUME EpisodeInv, RunsInv, NEW p \in Process, Generate(p)
  PROVE  RunsInv'
<1>1. process[p].pc = "generating" /\ Alive(p) /\ ~At(p, "creating")
  BY DEF Generate, Alive, At
<1>2. /\ process[p].position \in Position /\ Here(p) \in Files /\ process[p].exit # "refused"
      /\ Alone(p) => RunOK(process[p], Here(p))
  BY <1>1, RunNow
<1> DEFINE f(solver, status) == [Here(p) EXCEPT !.solver = solver, !.status = status]
<1>3. \A solver, status :
        /\ f(solver, status).monitor = Here(p).monitor /\ f(solver, status).beats = Here(p).beats
        /\ f(solver, status).sealed = Here(p).sealed /\ f(solver, status).result = Here(p).result
        /\ f(solver, status).solver = solver /\ f(solver, status).status = status
  BY <1>2 DEF Files
<1>4. \/ /\ files' = [files EXCEPT ![process[p].position] = f("generated", "generated")]
         /\ Go(p, "admitting")
      \/ /\ files' = [files EXCEPT ![process[p].position] = f("failed", "failed")]
         /\ Unwind(p, "failure")
      \/ Unwind(p, "failure") /\ files' = files
  BY <1>2 DEF Generate, Here, EpisodeInv, EpisodeTypeOK
<1>5. CASE /\ files' = [files EXCEPT ![process[p].position] = f("generated", "generated")]
           /\ Go(p, "admitting")
  <2>1. PICK r \in ProcessState :
          /\ process' = [process EXCEPT ![p] = r]
          /\ Kept(process[p], r) /\ r.pc = "admitting" /\ r.exit = process[p].exit
    BY <1>5, GoIs DEF EpisodeInv, Control
  <2> DEFINE g == f("generated", "generated")
  <2>2. /\ g.monitor = Here(p).monitor /\ g.beats = Here(p).beats /\ g.sealed = Here(p).sealed
        /\ g.result = Here(p).result /\ g.solver = "generated"
        /\ files' = [files EXCEPT ![process[p].position] = g]
    BY <1>3, <1>5
  <2> HIDE DEF g
  <2>3. Alone(p) => Solved(r, g)
    BY <1>1, <1>2, <2>1, <2>2 DEF RunOK, Solved, Working, Ending
  <2> QED BY <1>1, <1>2, <2>1, <2>2, <2>3, WorkMove DEF Working
<1>6. CASE /\ files' = [files EXCEPT ![process[p].position] = f("failed", "failed")]
           /\ Unwind(p, "failure")
  <2>1. PICK r \in ProcessState :
          /\ process' = [process EXCEPT ![p] = r]
          /\ Kept(process[p], r) /\ r.pc = "stopping" /\ r.exit = "failure"
    BY <1>6, UnwindIs DEF EpisodeInv
  <2> DEFINE g == f("failed", "failed")
  <2>2. /\ g.monitor = Here(p).monitor /\ g.beats = Here(p).beats /\ g.sealed = Here(p).sealed
        /\ g.result = Here(p).result /\ g.solver = "failed" /\ g.status = "failed"
        /\ files' = [files EXCEPT ![process[p].position] = g]
    BY <1>3, <1>6
  <2> HIDE DEF g
  <2>3. Alone(p) => Solved(r, g)
    BY <1>1, <1>2, <2>1, <2>2 DEF RunOK, Solved, Recorded, Working, Ending
  <2> QED BY <1>1, <1>2, <2>1, <2>2, <2>3, WorkMove DEF Working
<1>7. CASE Unwind(p, "failure") /\ files' = files
  <2>1. PICK r \in ProcessState :
          /\ process' = [process EXCEPT ![p] = r]
          /\ Kept(process[p], r) /\ r.pc = "stopping" /\ r.exit = "failure"
    BY <1>7, UnwindIs DEF EpisodeInv
  <2>2. files' = [files EXCEPT ![process[p].position] = Here(p)]
    BY <1>2, <1>7, FilesStay DEF EpisodeInv
  <2>3. Alone(p) => Solved(r, Here(p))
    BY <1>1, <1>2, <2>1 DEF RunOK, Solved, Recorded, Working, Ending
  <2> QED BY <1>1, <1>2, <2>1, <2>2, <2>3, WorkMove DEF Working
<1> QED BY <1>4, <1>5, <1>6, <1>7

\* An evaluation that is refused leaves what is recorded.
LEMMA AdmitEvaluationRuns ==
  ASSUME EpisodeInv, RunsInv, NEW p \in Process, AdmitEvaluation(p)
  PROVE  RunsInv'
<1>1. process[p].pc = "admitting" /\ Alive(p) /\ ~At(p, "creating")
  BY DEF AdmitEvaluation, Alive, At
<1>2. /\ process[p].position \in Position /\ process[p].exit # "refused"
      /\ Alone(p) => RunOK(process[p], Here(p))
  BY <1>1, RunNow
<1>3. files' = [files EXCEPT ![process[p].position] = Here(p)]
  BY <1>2, FilesStay DEF AdmitEvaluation, EpisodeInv
<1>4. PICK r \in ProcessState :
        /\ process' = [process EXCEPT ![p] = r] /\ Kept(process[p], r)
        /\ r.pc \in {"claiming", "stopping"} /\ r.exit \in {process[p].exit, "failure"}
        /\ r.pc = "stopping" => r.exit = "failure"
  <2>1. CASE Here(p).result = "none"
    BY <2>1, GoIs DEF AdmitEvaluation, EpisodeInv, Control
  <2>2. CASE Here(p).result # "none"
    BY <2>2, UnwindIs DEF AdmitEvaluation, EpisodeInv
  <2> QED BY <2>1, <2>2
<1>5. Alone(p) => Solved(r, Here(p))
  BY <1>1, <1>2, <1>4 DEF RunOK, Solved, Recorded, Working, Ending
<1> QED BY <1>1, <1>2, <1>3, <1>4, <1>5, WorkMove DEF Working

LEMMA ClaimRuns ==
  ASSUME EpisodeInv, RunsInv, NEW p \in Process, Claim(p)
  PROVE  RunsInv'
<1>1. process[p].pc = "claiming" /\ Alive(p) /\ ~At(p, "creating")
  BY DEF Claim, Alive, At
<1>2. /\ process[p].position \in Position /\ Here(p) \in Files /\ process[p].exit # "refused"
      /\ Alone(p) => RunOK(process[p], Here(p))
  BY <1>1, RunNow
<1>3. CASE Here(p).claim
  <2>1. PICK r \in ProcessState :
          /\ process' = [process EXCEPT ![p] = r]
          /\ Kept(process[p], r) /\ r.pc = "stopping" /\ r.exit = "failure"
    BY <1>3, UnwindIs DEF Claim, EpisodeInv
  <2>2. files' = [files EXCEPT ![process[p].position] = Here(p)]
    BY <1>2, <1>3, FilesStay DEF Claim, EpisodeInv
  <2>3. Alone(p) => Solved(r, Here(p))
    BY <1>1, <1>2, <2>1 DEF RunOK, Solved, Recorded, Working, Ending
  <2> QED BY <1>1, <1>2, <2>1, <2>2, <2>3, WorkMove DEF Working
<1>4. CASE ~Here(p).claim
  <2>1. PICK r \in ProcessState :
          /\ process' = [process EXCEPT ![p] = r]
          /\ Kept(process[p], r) /\ r.pc = "preparing" /\ r.exit = process[p].exit
    BY <1>4, GoIs DEF Claim, EpisodeInv, Control
  <2> DEFINE f == [Here(p) EXCEPT !["claim"] = TRUE]
  <2>2. files' = [files EXCEPT ![process[p].position] = f]
    BY <1>2, <1>4, PutIs DEF Claim, EpisodeInv
  <2>3. /\ f.monitor = Here(p).monitor /\ f.beats = Here(p).beats /\ f.sealed = Here(p).sealed
        /\ f.solver = Here(p).solver /\ f.result = Here(p).result /\ f.claim = TRUE
    BY <1>2, ClaimIs
  <2> HIDE DEF f
  <2>4. Alone(p) => Solved(r, f)
    BY <1>1, <1>2, <2>1, <2>3 DEF RunOK, Solved, Working, Ending
  <2> QED BY <1>1, <1>2, <2>1, <2>2, <2>3, <2>4, WorkMove DEF Working
<1> QED BY <1>3, <1>4

LEMMA PrepareRuns ==
  ASSUME EpisodeInv, RunsInv, NEW p \in Process, Prepare(p)
  PROVE  RunsInv'
<1>1. process[p].pc = "preparing" /\ Alive(p) /\ ~At(p, "creating")
  BY DEF Prepare, Alive, At
<1>2. /\ process[p].position \in Position /\ Here(p) \in Files /\ process[p].exit # "refused"
      /\ Alone(p) => RunOK(process[p], Here(p))
  BY <1>1, RunNow
<1>3. PICK r \in ProcessState :
        /\ process' = [process EXCEPT ![p] = r]
        /\ Kept(process[p], r) /\ r.pc = "evaluating" /\ r.exit = process[p].exit
  BY GoIs DEF Prepare, EpisodeInv, Control
<1> DEFINE f == [Here(p) EXCEPT !["status"] = "running"]
<1>4. files' = [files EXCEPT ![process[p].position] = f]
  BY <1>2, PutIs DEF Prepare, EpisodeInv
<1>5. /\ f.monitor = Here(p).monitor /\ f.beats = Here(p).beats /\ f.sealed = Here(p).sealed
      /\ f.solver = Here(p).solver /\ f.result = Here(p).result /\ f.claim = Here(p).claim
      /\ f.status = "running"
  BY <1>2, StatusIs
<1> HIDE DEF f
<1>6. Alone(p) => Solved(r, f)
  BY <1>1, <1>2, <1>3, <1>5 DEF RunOK, Solved, Working, Ending
<1> QED BY <1>1, <1>2, <1>3, <1>4, <1>5, <1>6, WorkMove DEF Working

\* An evaluation has a result, or raised and left none.
LEMMA EvaluateRuns ==
  ASSUME EpisodeInv, RunsInv, NEW p \in Process, Evaluate(p)
  PROVE  RunsInv'
<1>1. process[p].pc = "evaluating" /\ Alive(p) /\ ~At(p, "creating")
  BY DEF Evaluate, Alive, At
<1>2. /\ process[p].position \in Position /\ process[p] \in ProcessState
      /\ Here(p) \in Files /\ process[p].exit # "refused"
      /\ Alone(p) => RunOK(process[p], Here(p))
  BY <1>1, RunNow
<1>3. CASE Unwind(p, "failure") /\ UNCHANGED files
  <2>1. PICK r \in ProcessState :
          /\ process' = [process EXCEPT ![p] = r]
          /\ Kept(process[p], r) /\ r.pc = "stopping" /\ r.exit = "failure"
    BY <1>3, UnwindIs DEF EpisodeInv
  <2>2. files' = [files EXCEPT ![process[p].position] = Here(p)]
    BY <1>2, <1>3, FilesStay DEF EpisodeInv
  <2>3. Alone(p) => Solved(r, Here(p))
    BY <1>1, <1>2, <2>1 DEF RunOK, Solved, Recorded, Working, Ending
  <2> QED BY <1>1, <1>2, <2>1, <2>2, <2>3, WorkMove DEF Working
<1>4. ASSUME NEW outcome \in Outcome, Put(p, "result", outcome),
             process' = [process EXCEPT ![p].pc = "closing", ![p].measured = outcome]
      PROVE  RunsInv'
  <2> DEFINE r == [process[p] EXCEPT !.pc = "closing", !.measured = outcome]
             f == [Here(p) EXCEPT !["result"] = outcome]
  <2>1. process' = [process EXCEPT ![p] = r]
    BY <1>2, <1>4 DEF EpisodeInv, EpisodeTypeOK, ProcessState
  <2>2. Kept(process[p], r) /\ r.pc = "closing" /\ r.measured = outcome /\ r.exit = process[p].exit
    BY <1>2 DEF Kept, ProcessState
  <2>3. files' = [files EXCEPT ![process[p].position] = f]
    BY <1>2, <1>4, PutIs DEF EpisodeInv
  <2>4. /\ f.monitor = Here(p).monitor /\ f.beats = Here(p).beats /\ f.sealed = Here(p).sealed
        /\ f.claim = Here(p).claim /\ f.result = outcome /\ f.status = Here(p).status
    BY <1>2, ResultIs
  <2>5. outcome # "none"
    BY DEF Outcome
  <2> HIDE DEF r, f
  <2>6. Alone(p) => Solved(r, f)
    BY <1>1, <1>2, <2>2, <2>4, <2>5 DEF RunOK, Solved, Working, Ending
  <2> QED BY <1>1, <1>2, <2>1, <2>2, <2>3, <2>4, <2>6, WorkMove DEF Working
<1> QED BY <1>3, <1>4 DEF Evaluate

\* The status and the exit code are those of the result that was measured; or
\* the status stays what it was and the exit code says so.
LEMMA CloseRuns ==
  ASSUME EpisodeInv, RunsInv, NEW p \in Process, Close(p)
  PROVE  RunsInv'
<1> DEFINE complete == process[p].measured = "complete"
           status == IF complete THEN "completed" ELSE "failed"
           exit == IF complete THEN "zero" ELSE "failure"
           f == [Here(p) EXCEPT !["status"] = status]
<1>1. process[p].pc = "closing" /\ Alive(p) /\ ~At(p, "creating")
  BY DEF Close, Alive, At
<1>2. /\ process[p].position \in Position /\ Here(p) \in Files
      /\ Alone(p) => RunOK(process[p], Here(p))
  BY <1>1, RunNow
<1>3. CASE Unwind(p, "failure") /\ UNCHANGED files
  <2>1. PICK r \in ProcessState :
          /\ process' = [process EXCEPT ![p] = r]
          /\ Kept(process[p], r) /\ r.pc = "stopping" /\ r.exit = "failure"
    BY <1>3, UnwindIs DEF EpisodeInv
  <2>2. files' = [files EXCEPT ![process[p].position] = Here(p)]
    BY <1>2, <1>3, FilesStay DEF EpisodeInv
  <2>3. Alone(p) => Solved(r, Here(p))
    BY <1>1, <1>2, <2>1 DEF RunOK, Solved, Recorded, Working, Ending
  <2> QED BY <1>1, <1>2, <2>1, <2>2, <2>3, WorkMove DEF Working
<1>4. CASE Put(p, "status", status) /\ Unwind(p, exit)
  <2>1. PICK r \in ProcessState :
          /\ process' = [process EXCEPT ![p] = r]
          /\ Kept(process[p], r) /\ r.pc = "stopping" /\ r.exit = exit
    BY <1>4, UnwindIs DEF EpisodeInv
  <2>2. files' = [files EXCEPT ![process[p].position] = f]
    BY <1>2, <1>4, PutIs DEF EpisodeInv
  <2>3. /\ f.monitor = Here(p).monitor /\ f.beats = Here(p).beats /\ f.sealed = Here(p).sealed
        /\ f.claim = Here(p).claim /\ f.result = Here(p).result /\ f.status = status
    BY <1>2, StatusIs
  <2>4. exit \in {"zero", "failure"}
    OBVIOUS
  <2> HIDE DEF f
  <2>5. Alone(p) => Solved(r, f)
    BY <1>1, <1>2, <2>1, <2>3 DEF RunOK, Solved, Recorded, Working, Ending
  <2> QED BY <1>1, <1>2, <2>1, <2>2, <2>3, <2>4, <2>5, WorkMove DEF Working
<1> QED BY <1>3, <1>4 DEF Close

\* The first record starts the count, for whoever reads this directory.
LEMMA InitializeRuns ==
  ASSUME EpisodeInv, RunsInv, NEW p \in Process, Initialize(p)
  PROVE  RunsInv'
<1> DEFINE r == [process[p] EXCEPT !.pc = "solving", !.thread = "waiting", !.sequence = 1]
           beats == <<Beat("started", 0)>>
           f == [Here(p) EXCEPT !.monitor = "running", !.solver = "none", !.result = "none",
                                !.sealed = <<>>, !.beats = beats]
<1>1. process[p].pc = "making" /\ Alive(p) /\ ~At(p, "creating")
  BY DEF Initialize, Alive, At
<1>2. /\ process[p].position \in Position /\ process[p] \in ProcessState
      /\ Here(p) \in Files /\ process[p].exit # "refused"
      /\ Alone(p) => RunOK(process[p], Here(p))
  BY <1>1, RunNow
<1>3. process' = [process EXCEPT ![p] = r]
  BY <1>2 DEF Initialize, EpisodeInv, EpisodeTypeOK, ProcessState
<1>4. /\ r.pc = "solving" /\ r.thread = "waiting" /\ r.sequence = 1
      /\ r.position = process[p].position /\ r.exit = process[p].exit
  BY <1>2 DEF ProcessState
<1>5. files' = [files EXCEPT ![process[p].position] = f]
  BY <1>2 DEF Initialize, Here, EpisodeInv, EpisodeTypeOK
<1>6. /\ f.monitor = "running" /\ f.solver = "none" /\ f.result = "none" /\ f.sealed = <<>>
      /\ f.beats = beats
  BY <1>2 DEF Files
<1>7. Len(beats) = 1 /\ beats # <<>> /\ Numbered(beats)
  BY DEF Numbered, Beat
<1> HIDE DEF r, f, beats
<1>8. ThreadOK(r)
  BY <1>2, <1>4 DEF ThreadOK, Working, Ending
<1>9. Solved(r, f)
  BY <1>4, <1>6 DEF Solved, Working, Ending
<1>10. Beating(r, f)
  BY <1>4, <1>6, <1>7 DEF Beating, Counting, Counted, Working
<1>11. RunOK(r, f)
  BY <1>4, <1>9, <1>10 DEF RunOK
<1> QED BY <1>2, <1>3, <1>4, <1>5, <1>8, <1>11, RunMove

LEMMA SetStopRuns ==
  ASSUME EpisodeInv, RunsInv, NEW p \in Process, SetStop(p)
  PROVE  RunsInv'
<1> DEFINE r == [process[p] EXCEPT !.pc = "joining", !.stop = TRUE]
<1>1. process[p].pc = "stopping" /\ Alive(p) /\ ~At(p, "creating")
  BY DEF SetStop, Alive, At
<1>2. /\ process[p].position \in Position /\ process[p] \in ProcessState
      /\ process[p].exit # "refused"
      /\ Alone(p) => RunOK(process[p], Here(p))
  BY <1>1, RunNow
<1>3. process' = [process EXCEPT ![p] = r]
  BY <1>2 DEF SetStop, EpisodeInv, EpisodeTypeOK, ProcessState
<1>4. Kept(process[p], r) /\ r.pc = "joining" /\ r.exit = process[p].exit
  BY <1>2 DEF ProcessState, Kept
<1>5. files' = [files EXCEPT ![process[p].position] = Here(p)]
  BY <1>2, FilesStay DEF SetStop, EpisodeInv
<1> HIDE DEF r
<1>6. Alone(p) => Solved(r, Here(p))
  BY <1>1, <1>2, <1>4 DEF RunOK, Solved, Working, Ending
<1> QED BY <1>1, <1>2, <1>3, <1>4, <1>5, <1>6, WorkMove DEF Working

\* join() returns for a thread that has ended, or gives up: then nothing is
\* promised of the records any more.
LEMMA JoinRuns ==
  ASSUME EpisodeInv, RunsInv, NEW p \in Process, Join(p)
  PROVE  RunsInv'
<1> DEFINE waiting == process[p].thread = "waiting"
           r == [process[p] EXCEPT !.pc = "ending", !.joined = waiting,
                                   !.thread = IF waiting THEN "off" ELSE @]
<1>1. process[p].pc = "joining" /\ Alive(p) /\ ~At(p, "creating")
  BY DEF Join, Alive, At
<1>2. /\ process[p].position \in Position /\ process[p] \in ProcessState
      /\ process[p].exit # "refused" /\ ThreadOK(process[p])
      /\ Alone(p) => RunOK(process[p], Here(p))
  BY <1>1, RunNow
<1>3. process' = [process EXCEPT ![p] = r]
  BY <1>2 DEF Join, EpisodeInv, EpisodeTypeOK, ProcessState
<1>4. /\ r.pc = "ending" /\ r.joined = waiting /\ r.position = process[p].position
      /\ r.thread = (IF waiting THEN "off" ELSE process[p].thread)
      /\ r.sequence = process[p].sequence /\ r.exit = process[p].exit
  BY <1>2 DEF ProcessState
<1>5. files' = files
  BY DEF Join
<1> HIDE DEF r
<1>6. ThreadOK(r)
  BY <1>1, <1>2, <1>4 DEF ThreadOK, Working, Ending
<1>7. ASSUME RunOK(process[p], Here(p)) PROVE RunOK(r, Here(p))
  <2>1. Solved(r, Here(p))
    BY <1>1, <1>4, <1>7 DEF RunOK, Solved, Working, Ending
  <2>2. waiting => Counting(r, Here(p))
    BY <1>1, <1>4, <1>7 DEF RunOK, Beating, Counting, Counted, Working
  <2>3. Beating(r, Here(p))
    BY <1>1, <1>4, <1>7, <2>2 DEF RunOK, Beating, Working
  <2> QED BY <1>4, <2>1, <2>3 DEF RunOK
<1> QED BY <1>2, <1>3, <1>4, <1>5, <1>6, <1>7, RunMoveSilent

LEMMA EndDraftsRuns ==
  ASSUME EpisodeInv, RunsInv, NEW p \in Process, EndDrafts(p)
  PROVE  RunsInv'
<1> DEFINE r == [process[p] EXCEPT !.pc = "appending", !.last = process[p].sequence]
<1>1. process[p].pc = "ending" /\ Alive(p) /\ ~At(p, "creating")
  BY DEF EndDrafts, Alive, At
<1>2. /\ process[p].position \in Position /\ process[p] \in ProcessState
      /\ process[p].exit # "refused" /\ ThreadOK(process[p])
      /\ Alone(p) => RunOK(process[p], Here(p))
  BY <1>1, RunNow
<1>3. process' = [process EXCEPT ![p] = r]
  BY <1>2 DEF EndDrafts, EpisodeInv, EpisodeTypeOK, ProcessState
<1>4. /\ r.pc = "appending" /\ r.last = process[p].sequence /\ r.position = process[p].position
      /\ r.joined = process[p].joined /\ r.thread = process[p].thread /\ r.draft = process[p].draft
      /\ r.sequence = process[p].sequence /\ r.exit = process[p].exit
  BY <1>2 DEF ProcessState
<1>5. files' = files
  BY DEF EndDrafts
<1> HIDE DEF r
<1>6. ThreadOK(r)
  BY <1>1, <1>2, <1>4 DEF ThreadOK, Working, Ending
<1>7. ASSUME RunOK(process[p], Here(p)) PROVE RunOK(r, Here(p))
  <2>1. Solved(r, Here(p))
    BY <1>1, <1>4, <1>7 DEF RunOK, Solved, Working, Ending
  <2>2. r.joined => Counting(r, Here(p))
    BY <1>1, <1>4, <1>7 DEF RunOK, Beating, Counting, Counted, Working
  <2>3. Beating(r, Here(p))
    BY <1>1, <1>4, <1>7, <2>2 DEF RunOK, Beating, Working
  <2> QED BY <1>4, <2>1, <2>3 DEF RunOK
<1> QED BY <1>2, <1>3, <1>4, <1>5, <1>6, <1>7, RunMoveSilent

\* With the thread joined the last record has the next number.
LEMMA EndWritesRuns ==
  ASSUME EpisodeInv, RunsInv, NEW p \in Process, EndWrites(p)
  PROVE  RunsInv'
<1> DEFINE beats == Here(p).beats
           next == Append(beats, Beat("stopped", process[p].last))
           f == [Here(p) EXCEPT !["beats"] = next]
<1>1. process[p].pc = "appending" /\ Alive(p) /\ ~At(p, "creating")
  BY DEF EndWrites, Alive, At
<1>2. /\ process[p].position \in Position /\ process[p] \in ProcessState /\ Here(p) \in Files
      /\ process[p].exit # "refused" /\ ThreadOK(process[p])
      /\ Alone(p) => RunOK(process[p], Here(p))
  BY <1>1, RunNow
<1>3. PICK r \in ProcessState :
        /\ process' = [process EXCEPT ![p] = r]
        /\ Kept(process[p], r) /\ r.pc = "sealing" /\ r.exit = process[p].exit
  BY GoIs DEF EndWrites, EpisodeInv, Control
<1>4. files' = [files EXCEPT ![process[p].position] = f]
  BY ZenonT(40), <1>2, PutIs DEF EndWrites, EpisodeInv
<1>5. /\ f.monitor = Here(p).monitor /\ f.beats = next /\ f.sealed = Here(p).sealed
      /\ f.solver = Here(p).solver /\ f.result = Here(p).result /\ f.claim = Here(p).claim
      /\ f.status = Here(p).status
  BY <1>2, BeatsIs
<1>6. beats \in Seq(Record) /\ process[p].last \in Nat
  BY <1>2 DEF Files, ProcessState
<1>7. Beat("stopped", process[p].last) \in Record
  BY <1>6 DEF Beat, Record
<1>8. next # <<>>
  BY <1>6, <1>7
<1> HIDE DEF f
<1>9. ThreadOK(r) /\ r.position = process[p].position
  BY <1>1, <1>2, <1>3 DEF ThreadOK, Kept, Working, Ending
<1>10. ASSUME RunOK(process[p], Here(p)) PROVE RunOK(r, f)
  <2>1. Solved(r, f)
    BY <1>1, <1>3, <1>5, <1>10 DEF RunOK, Solved, Recorded, Working, Ending
  <2>2. ASSUME r.joined PROVE Lifecycle(next)
    <3>1. process[p].joined /\ process[p].thread = "off" /\ process[p].last = process[p].sequence
      BY <1>1, <1>2, <1>3, <2>2 DEF Kept, ThreadOK, Ending
    <3>2. Numbered(beats) /\ Len(beats) = process[p].last
      BY <1>1, <1>10, <3>1 DEF RunOK, Beating, Counting, Counted
    <3> QED BY <1>6, <3>2, NumberedAppend
  <2>3. Beating(r, f)
    BY <1>1, <1>3, <1>5, <1>8, <1>10, <2>2 DEF RunOK, Beating, Working
  <2> QED BY <1>3, <2>1, <2>3 DEF RunOK
<1> QED BY <1>2, <1>3, <1>4, <1>9, <1>10, RunMove

LEMMA SealRuns ==
  ASSUME EpisodeInv, RunsInv, NEW p \in Process, Seal(p)
  PROVE  RunsInv'
<1> DEFINE f == [Here(p) EXCEPT !.monitor = "completed", !.sealed = Here(p).beats]
<1>1. process[p].pc = "sealing" /\ Alive(p) /\ ~At(p, "creating")
  BY DEF Seal, Alive, At
<1>2. /\ process[p].position \in Position /\ process[p] \in ProcessState /\ Here(p) \in Files
      /\ process[p].exit # "refused" /\ ThreadOK(process[p])
      /\ Alone(p) => RunOK(process[p], Here(p))
  BY <1>1, RunNow
<1>3. PICK r \in ProcessState :
        /\ process' = [process EXCEPT ![p] = r]
        /\ Kept(process[p], r) /\ r.pc = "leaving" /\ r.exit = process[p].exit
  BY GoIs DEF Seal, EpisodeInv, Control
<1>4. files' = [files EXCEPT ![process[p].position] = f]
  BY <1>2 DEF Seal, Here, EpisodeInv, EpisodeTypeOK
<1>5. /\ f.monitor = "completed" /\ f.beats = Here(p).beats /\ f.sealed = Here(p).beats
      /\ f.solver = Here(p).solver /\ f.result = Here(p).result /\ f.claim = Here(p).claim
      /\ f.status = Here(p).status
  BY <1>2 DEF Files
<1> HIDE DEF f
<1>6. ThreadOK(r) /\ r.position = process[p].position
  BY <1>1, <1>2, <1>3 DEF ThreadOK, Kept, Working, Ending
<1>7. ASSUME RunOK(process[p], Here(p)) PROVE RunOK(r, f)
  <2>1. Solved(r, f)
    BY <1>1, <1>3, <1>5, <1>7 DEF RunOK, Solved, Recorded, Working, Ending
  <2>2. Beating(r, f)
    BY <1>1, <1>3, <1>5, <1>7 DEF RunOK, Beating, Kept, Working
  <2> QED BY <1>3, <2>1, <2>2 DEF RunOK
<1> QED BY <1>2, <1>3, <1>4, <1>6, <1>7, RunMove

\* A thread that is there has not been joined; it leaves the sections alone.
LEMMA ThreadMove ==
  ASSUME EpisodeInv, RunsInv, NEW p \in Process, process[p].thread # "off",
         NEW r, process' = [process EXCEPT ![p] = r], r.thread # "off", r.sequence > 0,
         r.pc = process[p].pc, r.position = process[p].position, r.exit = process[p].exit,
         r.joined = process[p].joined, r.measured = process[p].measured,
         NEW f, files' = [files EXCEPT ![process[p].position] = f],
         f.monitor = Here(p).monitor, f.sealed = Here(p).sealed, f.solver = Here(p).solver,
         f.result = Here(p).result, f.claim = Here(p).claim, f.status = Here(p).status,
         Here(p).beats # <<>> => f.beats # <<>>,
         Counting(process[p], Here(p)) => Counting(r, f)
  PROVE  RunsInv'
<1>1. process[p].pc \in Working \cup Ending /\ Alive(p) /\ ~At(p, "creating")
  BY DEF EpisodeInv, EpisodeTypeOK, ProcessState, Control, RunsInv, Threads, ThreadOK, Working,
     Ending, Alive, At
<1>2. /\ process[p].position \in Position /\ process[p].exit # "refused" /\ ThreadOK(process[p])
      /\ Alone(p) => RunOK(process[p], Here(p))
  BY <1>1, RunNow
<1>3. process[p].pc \in Ending => ~process[p].joined
  BY <1>2 DEF ThreadOK
<1>4. ThreadOK(r) /\ r.pc \notin {"idle", "creating"}
  BY <1>1, <1>2, <1>3 DEF ThreadOK, Working, Ending
<1>5. ASSUME RunOK(process[p], Here(p)) PROVE RunOK(r, f)
  <2>1. Solved(r, f)
    BY <1>5 DEF RunOK, Solved, Recorded
  <2>2. r.pc \in Working => Counting(r, f)
    BY <1>5 DEF RunOK, Beating
  <2>3. Beating(r, f)
    BY <1>3, <1>5, <2>2 DEF RunOK, Beating, Working, Ending
  <2>4. r.pc # "making"
    BY <1>1 DEF Working, Ending
  <2> QED BY <2>1, <2>3, <2>4 DEF RunOK
<1> QED BY <1>2, <1>4, <1>5, RunMove

\* The number that the thread takes is the one that is next, when it writes
\* its record as when it counts it.
LEMMA ThreadStepRuns ==
  ASSUME EpisodeInv, RunsInv, NEW p \in Process, ThreadStep(p)
  PROVE  RunsInv'
<1>1. process[p].thread # "off"
  BY DEF ThreadStep, ThreadWakes, ThreadDrafts, ThreadWrites, ThreadUnlocks, ThreadCounts
<1>2. Alive(p) /\ ~At(p, "creating")
  BY <1>1 DEF EpisodeInv, EpisodeTypeOK, ProcessState, RunsInv, Threads, ThreadOK, Located, Alive, At
<1>3. /\ process[p].position \in Position /\ process[p] \in ProcessState /\ Here(p) \in Files
      /\ process[p].sequence > 0 /\ process[p].sequence \in Nat /\ process[p].draft \in Nat
  BY <1>1, <1>2, RunNow DEF ThreadOK, ProcessState
<1>4. Here(p).beats \in Seq(Record)
  BY <1>3 DEF Files
<1> DEFINE Keeps(r) ==
      /\ r.pc = process[p].pc /\ r.position = process[p].position /\ r.exit = process[p].exit
      /\ r.joined = process[p].joined /\ r.measured = process[p].measured
<1>9. CASE ThreadWakes(p)
  <2> DEFINE r == [process[p] EXCEPT !.thread = "woken"]
  <2>1. /\ Keeps(r) /\ r.thread = "woken" /\ r.sequence = process[p].sequence
    BY <1>3 DEF ProcessState
  <2>2. process' = [process EXCEPT ![p] = r]
    BY <1>3, <1>9 DEF ThreadWakes, EpisodeInv, EpisodeTypeOK, ProcessState
  <2>3. files' = [files EXCEPT ![process[p].position] = Here(p)]
    BY <1>3, <1>9, FilesStay DEF ThreadWakes, EpisodeInv
  <2> HIDE DEF r
  <2>4. Counting(process[p], Here(p)) => Counting(r, Here(p))
    BY <1>9, <2>1 DEF ThreadWakes, Counting, Counted
  <2>5. r.thread # "off" /\ r.sequence > 0
    BY <1>3, <2>1
  <2> QED BY <1>1, <2>1, <2>2, <2>3, <2>4, <2>5, ThreadMove
<1>5. CASE ThreadDrafts(p)
  <2> DEFINE r == [process[p] EXCEPT !.thread = "drafted", !.draft = process[p].sequence]
  <2>1. /\ Keeps(r) /\ r.thread = "drafted" /\ r.draft = process[p].sequence
        /\ r.sequence = process[p].sequence
    BY <1>3 DEF ProcessState
  <2>2. process' = [process EXCEPT ![p] = r]
    BY <1>3, <1>5 DEF ThreadDrafts, EpisodeInv, EpisodeTypeOK, ProcessState
  <2>3. files' = [files EXCEPT ![process[p].position] = Here(p)]
    BY <1>3, <1>5, FilesStay DEF ThreadDrafts, EpisodeInv
  <2> HIDE DEF r
  <2>4. Counting(process[p], Here(p)) => Counting(r, Here(p))
    BY <1>5, <2>1 DEF ThreadDrafts, Counting, Counted
  <2>5. r.thread # "off" /\ r.sequence > 0
    BY <1>3, <2>1
  <2> QED BY <1>1, <2>1, <2>2, <2>3, <2>4, <2>5, ThreadMove
<1>6. CASE ThreadWrites(p)
  <2> DEFINE r == [process[p] EXCEPT !.thread = "writing"]
             next == Append(Here(p).beats, Beat("heartbeat", process[p].draft))
             f == [Here(p) EXCEPT !["beats"] = next]
  <2>1. /\ Keeps(r) /\ r.thread = "writing" /\ r.sequence = process[p].sequence
    BY <1>3 DEF ProcessState
  <2>2. process' = [process EXCEPT ![p] = r]
    BY <1>3, <1>6 DEF ThreadWrites, EpisodeInv, EpisodeTypeOK, ProcessState
  <2>3. files' = [files EXCEPT ![process[p].position] = f]
    BY ZenonT(40), <1>3, <1>6, PutIs DEF ThreadWrites, EpisodeInv
  <2>4. /\ f.monitor = Here(p).monitor /\ f.beats = next /\ f.sealed = Here(p).sealed
        /\ f.solver = Here(p).solver /\ f.result = Here(p).result /\ f.claim = Here(p).claim
        /\ f.status = Here(p).status
    BY <1>3, BeatsIs
  <2>5. Beat("heartbeat", process[p].draft) \in Record
    BY <1>3 DEF Beat, Record
  <2>6. next # <<>>
    BY <1>4, <2>5
  <2>7. ASSUME Counting(process[p], Here(p))
        PROVE  Numbered(next) /\ Len(next) = process[p].sequence + 1
    <3>1. /\ Numbered(Here(p).beats) /\ process[p].draft = Len(Here(p).beats)
          /\ Len(Here(p).beats) = process[p].sequence
      BY <1>6, <2>7 DEF ThreadWrites, Counting, Counted
    <3> QED BY <1>4, <3>1, NumberedAppend
  <2> HIDE DEF r, f, next
  <2>8. Counting(process[p], Here(p)) => Counting(r, f)
    BY <2>1, <2>4, <2>7 DEF Counting, Counted
  <2>9. r.thread # "off" /\ r.sequence > 0
    BY <1>3, <2>1
  <2> QED BY <1>1, <2>1, <2>2, <2>3, <2>4, <2>6, <2>8, <2>9, ThreadMove
<1>7. CASE ThreadUnlocks(p)
  <2> DEFINE r == [process[p] EXCEPT !.thread = "written"]
  <2>1. /\ Keeps(r) /\ r.thread = "written" /\ r.sequence = process[p].sequence
    BY <1>3 DEF ProcessState
  <2>2. process' = [process EXCEPT ![p] = r]
    BY <1>3, <1>7 DEF ThreadUnlocks, EpisodeInv, EpisodeTypeOK, ProcessState
  <2>3. files' = [files EXCEPT ![process[p].position] = Here(p)]
    BY <1>3, <1>7, FilesStay DEF ThreadUnlocks, EpisodeInv
  <2> HIDE DEF r
  <2>4. Counting(process[p], Here(p)) => Counting(r, Here(p))
    BY <1>7, <2>1 DEF ThreadUnlocks, Counting, Counted
  <2>5. r.thread # "off" /\ r.sequence > 0
    BY <1>3, <2>1
  <2> QED BY <1>1, <2>1, <2>2, <2>3, <2>4, <2>5, ThreadMove
<1>8. CASE ThreadCounts(p)
  <2> DEFINE next == process[p].sequence + 1
             r == [process[p] EXCEPT !.thread = "waiting", !.sequence = next]
  <2>1. /\ Keeps(r) /\ r.thread = "waiting" /\ r.sequence = next
    BY <1>3 DEF ProcessState
  <2>2. process' = [process EXCEPT ![p] = r]
    BY <1>3, <1>8 DEF ThreadCounts, EpisodeInv, EpisodeTypeOK, ProcessState
  <2>3. files' = [files EXCEPT ![process[p].position] = Here(p)]
    BY <1>3, <1>8, FilesStay DEF ThreadCounts, EpisodeInv
  <2> HIDE DEF r
  <2>4. Counting(process[p], Here(p)) => Counting(r, Here(p))
    BY <1>8, <2>1 DEF ThreadCounts, Counting, Counted
  <2>5. r.thread # "off" /\ r.sequence > 0
    BY <1>3, <2>1
  <2> QED BY <1>1, <2>1, <2>2, <2>3, <2>4, <2>5, ThreadMove
<1> QED BY <1>5, <1>6, <1>7, <1>8, <1>9 DEF ThreadStep

\* RunArtifacts.create lets in who finds nothing, or sends it away.
LEMMA CreateRuns ==
  ASSUME EpisodeInv, RunsInv, NEW p \in Process, Create(p)
  PROVE  RunsInv'
<1>1. At(p, "creating") /\ process[p].position \in Position /\ files' = files /\ ~Entered(p)
  BY DEF Create, At, Entered, EpisodeInv, Located
<1>2. process[p].exit # "refused" /\ process[p].thread = "off"
  BY <1>1 DEF RunsInv, Threads, ThreadOK, At
<1>3. CASE Here(p).monitor = "absent"
  <2>1. PICK r \in ProcessState :
          /\ process' = [process EXCEPT ![p] = r]
          /\ Kept(process[p], r) /\ r.pc = "making" /\ r.exit = process[p].exit
    BY <1>3, GoIs DEF Create, EpisodeInv, Control
  <2>2. ThreadOK(r) /\ r.position = process[p].position
    BY <1>2, <2>1 DEF ThreadOK, Kept, Working, Ending
  <2>3. ASSUME Alone(p) PROVE RunOK(r, Here(p))
    <3>1. \A q \in Process : process[q].position = process[p].position => ~Entered(q)
      BY <1>1, <2>3 DEF Alone, Entered
    <3>2. Here(p) = NoFiles
      BY <1>1, <3>1 DEF RunsInv, Untouched, Here
    <3> QED BY <2>1, <3>2 DEF RunOK, Beating, Solved, Working, Ending, NoFiles
  <2> QED BY <1>1, <1>2, <2>1, <2>2, <2>3, RunMoveSilent
<1>4. CASE Here(p).monitor # "absent"
  <2>1. PICK r : /\ process' = [process EXCEPT ![p] = r] /\ r.position = process[p].position
                 /\ r.pc = "exited" /\ r.exit = "refused" /\ r.thread = "off"
    BY <1>4, GoneIs DEF Create, EpisodeInv
  <2>2. process'[p] = r /\ \A q \in Process \ {p} : process'[q] = process[q]
    BY <2>1 DEF EpisodeInv, EpisodeTypeOK
  <2>3. \A q \in Process : Entered(q)' <=> Entered(q)
    BY <1>1, <2>1, <2>2 DEF Entered, At
  <2>4. \A q \in Process : process'[q].position = process[q].position
    BY <2>1, <2>2
  <2>5. Untouched'
    BY <1>1, <2>3, <2>4 DEF RunsInv, Untouched
  <2>6. Threads'
    BY <2>1, <2>2 DEF RunsInv, Threads, ThreadOK, Working, Ending
  <2>7. ASSUME NEW q \in Process, Entered(q)', Alone(q)'
        PROVE  RunOK(process'[q], Here(q)')
    <3>1. Entered(q) /\ q # p /\ process'[q] = process[q]
      BY <1>1, <2>2, <2>3, <2>7
    <3>2. Alone(q)
      BY <1>1, <2>2, <2>7, <3>1 DEF Alone, At
    <3> QED BY <1>1, <3>1, <3>2 DEF RunsInv, Runs, Here
  <2>8. Runs'
    BY <2>7 DEF Runs
  <2> QED BY <2>5, <2>6, <2>8 DEF RunsInv
<1> QED BY <1>3, <1>4

\* Who is started has not been let in.
LEMMA SpawnRuns ==
  ASSUME EpisodeInv, RunsInv, NEW p \in Process, NEW n \in Position, Spawn(p, n)
  PROVE  RunsInv'
<1> DEFINE r == [process[p] EXCEPT !.pc = "creating", !.position = n]
<1>0. process[p] \in ProcessState /\ At(p, "idle") /\ files' = files
  BY DEF EpisodeInv, EpisodeTypeOK, Spawn
<1>1. process[p].position = 0 /\ process[p].thread = "off" /\ process[p].exit # "refused"
  BY <1>0 DEF RunsInv, Threads, ThreadOK, At
<1>2. process' = [process EXCEPT ![p] = r]
  BY <1>0 DEF Spawn, EpisodeInv, EpisodeTypeOK, ProcessState
<1>3. r.pc = "creating" /\ r.thread = process[p].thread /\ r.exit = process[p].exit
  BY <1>0 DEF ProcessState
<1>4. process'[p] = r /\ \A q \in Process \ {p} : process'[q] = process[q]
  BY <1>2 DEF EpisodeInv, EpisodeTypeOK
<1> HIDE DEF r
<1>5. \A q \in Process : Entered(q)' <=> Entered(q)
  BY <1>0, <1>3, <1>4 DEF Entered, At
<1>6. Untouched'
  <2> SUFFICES ASSUME NEW m \in Position,
                      \A q \in Process : process'[q].position = m => ~Entered(q)'
               PROVE  files'[m] = NoFiles
    BY DEF Untouched
  <2>1. \A q \in Process : process[q].position = m => ~Entered(q)
    BY <1>0, <1>4, <1>5 DEF Entered
  <2> QED BY <1>0, <2>1 DEF RunsInv, Untouched
<1>7. Threads'
  BY <1>1, <1>3, <1>4 DEF RunsInv, Threads, ThreadOK, Working, Ending
<1>8. ASSUME NEW q \in Process, Entered(q)', Alone(q)'
      PROVE  RunOK(process'[q], Here(q)')
  <2>1. Entered(q) /\ q # p /\ process'[q] = process[q] /\ process[q].position \in Position
    BY <1>0, <1>4, <1>5, <1>8 DEF Entered, EpisodeInv, Located
  <2>2. process[q].position # 0
    BY <2>1 DEF Position
  <2>3. Alone(q)
    BY <1>1, <1>4, <1>8, <2>1, <2>2 DEF Alone, At
  <2> QED BY <1>0, <2>1, <2>3 DEF RunsInv, Runs, Here
<1>9. Runs'
  BY <1>8 DEF Runs
<1> QED BY <1>6, <1>7, <1>9 DEF RunsInv

LEMMA LeaveRuns ==
  ASSUME EpisodeInv, RunsInv, NEW p \in Process, Leave(p) \/ Die(p)
  PROVE  RunsInv'
<1>1. Alive(p) /\ files' = files /\ process[p].position \in Position
  BY DEF Leave, Die, Alive, At, EpisodeInv, Located
<1>2. Die(p) \/ process[p].exit # "refused"
  BY RunNow DEF Leave, Alive, At
<1>3. process[p].exit \in {"none", "zero", "failure", "refused", "killed"}
  BY DEF EpisodeInv, EpisodeTypeOK, ProcessState
<1>4. PICK r : /\ process' = [process EXCEPT ![p] = r] /\ r.position = process[p].position
               /\ r.pc = "exited" /\ r.exit \in {process[p].exit, "killed"} /\ r.thread = "off"
               /\ r.exit # "refused"
  BY <1>2, <1>3, GoneIs DEF Leave, Die, EpisodeInv
<1>5. ThreadOK(r) /\ RunOK(r, Here(p))
  BY <1>4, GoneOK
<1> QED BY <1>1, <1>4, <1>5, RunMoveSilent

LEMMA EpisodeStepRuns ==
  ASSUME EpisodeInv, RunsInv, NEW p \in Process, EpisodeStep(p)
  PROVE  RunsInv'
BY CreateRuns, InitializeRuns, SolveRuns, GenerateRuns, AdmitEvaluationRuns, ClaimRuns, PrepareRuns,
   EvaluateRuns, CloseRuns, SetStopRuns, JoinRuns, EndDraftsRuns, EndWritesRuns, SealRuns, LeaveRuns
   DEF EpisodeStep

LEMMA RunsNextInv == EpisodeInv /\ RunsInv /\ [EpisodeNext]_episodeVars => RunsInv'
<1> SUFFICES ASSUME EpisodeInv, RunsInv, [EpisodeNext]_episodeVars PROVE RunsInv'
  OBVIOUS
<1>1. CASE UNCHANGED episodeVars
  BY <1>1 DEF episodeVars, RunsInv, Untouched, Threads, Runs, Entered, Alone, At, Here
<1>2. CASE EpisodeNext
  BY <1>2, SpawnRuns, EpisodeStepRuns, ThreadStepRuns, LeaveRuns DEF EpisodeNext
<1> QED BY <1>1, <1>2

\* A process at its end, with its thread joined, leaves what counts.
LEMMA LeavingCounts ==
  ASSUME NEW r, NEW f \in Files, RunOK(r, f), r.pc = "leaving", r.joined
  PROVE  /\ Finished(f) => Eligible(f)
         /\ r.exit = "zero" => Scored(f)
<1>1. /\ f.monitor = "completed" /\ f.sealed = f.beats /\ Lifecycle(f.beats)
      /\ Recorded(f) /\ (r.exit = "zero" => f.result = "complete" /\ f.status = "completed")
  BY DEF RunOK, Beating, Solved, Ending
<1>2. ASSUME Finished(f) PROVE AuditValid(f)
  BY <1>1, <1>2 DEF AuditValid, Recorded, Finished
<1>3. Finished(f) => Eligible(f)
  BY <1>1, <1>2 DEF Eligible
<1>4. r.exit = "zero" => Scored(f)
  BY <1>1, <1>3 DEF Scored, Finished
<1> QED BY <1>3, <1>4

\* RunHeartbeat and main(): when nobody else was let into the directory and
\* stop() saw the thread end, an episode that reaches its end is eligible,
\* unless an exception took its solver section, its result or the status of its
\* evaluation; and one that exits with zero is counted.  For any number of heartbeats, in any order of
\* the steps of the two threads.
THEOREM FinishedEligible == EpisodeSpec => []FinishedIsEligible
<1>1. EpisodeInit => EpisodeInv /\ RunsInv
  BY EpisodeInitInv, RunsInitInv
<1>2. EpisodeInv /\ RunsInv /\ [EpisodeNext]_episodeVars => (EpisodeInv /\ RunsInv)'
  BY EpisodeNextInv, RunsNextInv
<1>3. EpisodeInv /\ RunsInv => FinishedIsEligible
  <2> SUFFICES ASSUME EpisodeInv, RunsInv, NEW p \in Process,
                      At(p, "leaving"), process[p].joined, Alone(p)
               PROVE  /\ Finished(Here(p)) => Eligible(Here(p))
                      /\ process[p].exit = "zero" => Scored(Here(p))
    BY DEF FinishedIsEligible
  <2>1. Here(p) \in Files /\ RunOK(process[p], Here(p))
    BY RunNow DEF Alive, At
  <2> QED BY <2>1, LeavingCounts DEF At
<1> QED BY <1>1, <1>2, <1>3, PTL DEF EpisodeSpec

\* assess_scientific_eligibility: as long as a process that is alone in its
\* directory has not sealed its heartbeat, what is there is not eligible, and
\* so is not what it leaves there when it dies; whatever the thread writes.
THEOREM WentThrough == EpisodeSpec => []EligibleWentThrough
<1>1. EpisodeInit => EpisodeInv /\ RunsInv
  BY EpisodeInitInv, RunsInitInv
<1>2. EpisodeInv /\ RunsInv /\ [EpisodeNext]_episodeVars => (EpisodeInv /\ RunsInv)'
  BY EpisodeNextInv, RunsNextInv
<1>3. EpisodeInv /\ RunsInv => EligibleWentThrough
  <2> SUFFICES ASSUME EpisodeInv, RunsInv, NEW p \in Process, Alone(p), Alive(p),
                      ~At(p, "leaving")
               PROVE  ~Eligible(Here(p))
    BY DEF EligibleWentThrough
  <2>1. CASE At(p, "creating")
    <3>1. \A q \in Process : process[q].position = process[p].position => ~Entered(q)
      BY <2>1 DEF Alone, Entered
    <3>2. Here(p) = NoFiles
      BY <3>1 DEF RunsInv, Untouched, Here, EpisodeInv, Located, Alive
    <3> QED BY <3>2 DEF Eligible, AuditValid, NoFiles
  <2>2. CASE ~At(p, "creating")
    <3>1. RunOK(process[p], Here(p))
      BY <2>2, RunNow
    <3>2. process[p].pc \in Control
      BY DEF EpisodeInv, EpisodeTypeOK, ProcessState
    <3>3. CASE At(p, "making")
      BY <3>1, <3>3 DEF RunOK, At, Eligible, AuditValid, NoFiles
    <3>4. CASE ~At(p, "making")
      <4>1. process[p].pc \in Working \cup {"ending", "appending", "sealing"}
        BY <2>2, <3>2, <3>4 DEF Control, Working, Alive, At
      <4>2. Here(p).beats # <<>> /\ Here(p).sealed = <<>>
        BY <3>1, <4>1 DEF RunOK, Beating
      <4> QED BY <4>2 DEF Eligible
    <3> QED BY <3>3, <3>4
  <2> QED BY <2>1, <2>2
<1> QED BY <1>1, <1>2, <1>3, PTL DEF EpisodeSpec

-----------------------------------------------------------------------------
(* The schedule                                                            *)

Busy == coordinator.pc \in {"launching", "waiting", "terminating", "cleaning", "marking", "completing"}
Attending == coordinator.pc \in {"waiting", "terminating", "cleaning", "marking"}

\* What the coordinator has in hand is the one position that is running.  A
\* coordinator that was killed leaves it to the next one.
Charge ==
  /\ \A m, n \in Running : m = n
  /\ In("scheduling") => Running = {}
  /\ Busy => coordinator.position \in Running
  /\ Attending => coordinator.child \in Process
  /\ coordinator.pc \in {"terminating", "cleaning", "marking"} =>
       coordinator.ending \in {"timed_out", "interrupted"}
  /\ In("completing") => coordinator.ending \in TerminalState \ {"orphaned"}

\* Processes are only started for positions that were begun, and one for each.
Begun ==
  \A p \in Process : ~At(p, "idle") =>
    /\ progress[process[p].position] # "absent"
    /\ Busy /\ process[p].position = coordinator.position =>
         ~In("launching") /\ (Attending => p = coordinator.child)

\* The process that the coordinator waits for; when it cleans up, marks and
\* records, that process is gone.
Attended ==
  /\ Attending =>
       /\ ~At(coordinator.child, "idle")
       /\ process[coordinator.child].position = coordinator.position
  /\ coordinator.pc \in {"cleaning", "marking"} => At(coordinator.child, "exited")
  /\ In("completing") =>
       \A p \in Process : process[p].position = coordinator.position => ~Alive(p)

\* A run that was marked has no result, and no process that could write one.
Marked ==
  \A n \in Position : files[n].status = "interrupted" =>
    /\ files[n].result = "none"
    /\ \A p \in Process : process[p].position = n => ~Alive(p)
    /\ \E p \in Process : ~At(p, "idle") /\ process[p].position = n

ScheduleInv ==
  EpisodeInv /\ ScheduleTypeOK /\ Charge /\ Begun /\ Attended /\ RecordedIsQuiet /\ Marked

-----------------------------------------------------------------------------
LEMMA ScheduleInitInv == ScheduleInit => ScheduleInv
<1> SUFFICES ASSUME ScheduleInit PROVE ScheduleInv
  OBVIOUS
<1>1. EpisodeInv
  BY EpisodeInitInv DEF ScheduleInit
<1>2. ScheduleTypeOK
  BY <1>1, EpisodeAssumption
     DEF ScheduleInit, ScheduleTypeOK, EpisodeInv, CoordinatorState, Down, Position
<1>3. \A p \in Process : At(p, "idle") /\ ~Alive(p)
  BY DEF ScheduleInit, EpisodeInit, NoProcess, At, Alive
<1>4. \A n \in Position : files[n].status # "interrupted"
  BY DEF ScheduleInit, EpisodeInit, NoFiles
<1>5. coordinator.pc = "down" /\ Running = {}
  BY DEF ScheduleInit, Down, Running
<1> QED
  BY <1>1, <1>2, <1>3, <1>4, <1>5
     DEF ScheduleInv, Charge, Begun, Attended, RecordedIsQuiet, Marked, Busy, Attending, In

\* A step of the coordinator alone keeps what is about the run directories.
LEMMA DirectoriesSame ==
  ASSUME ScheduleInv, UNCHANGED episodeVars
  PROVE  EpisodeInv' /\ EpisodeTypeOK' /\ Marked'
<1>1. EpisodeInv' /\ EpisodeTypeOK'
  BY EpisodeNextInv DEF ScheduleInv, EpisodeInv
<1>2. Marked'
  BY DEF ScheduleInv, Marked, episodeVars, Alive, At
<1> QED BY <1>1, <1>2

LEMMA StartInv ==
  ASSUME ScheduleInv, Start
  PROVE  ScheduleInv'
<1> USE DEF ScheduleInv
<1>1. EpisodeInv' /\ EpisodeTypeOK' /\ Marked'
  BY DirectoriesSame DEF Start
<1>2. \A n \in Position : progress'[n] = IF progress[n] = "running" THEN "orphaned" ELSE progress[n]
  BY DEF Start, Running
<1>3. coordinator' \in CoordinatorState /\ coordinator'.pc = "scheduling"
  BY DEF Start, Down, CoordinatorState
<1>4. ScheduleTypeOK'
  BY <1>1, <1>3 DEF Start, ScheduleTypeOK, TerminalState
<1>5. Running' = {}
  BY <1>2 DEF Running
<1>6. Charge' /\ Attended'
  BY <1>3, <1>5 DEF Charge, Attended, Busy, Attending, In
<1>7. Begun' /\ RecordedIsQuiet'
  BY <1>1, <1>2, <1>3 DEF Start, episodeVars, Begun, RecordedIsQuiet, Busy, Alive, At,
     EpisodeInv, Located
<1> QED BY <1>1, <1>4, <1>6, <1>7

LEMMA BeginInv ==
  ASSUME ScheduleInv, Begin
  PROVE  ScheduleInv'
<1> USE DEF ScheduleInv
<1>1. EpisodeInv' /\ EpisodeTypeOK' /\ Marked'
  BY DirectoriesSame DEF Begin
<1>2. PICK n \in Position :
        /\ progress[n] = "absent"
        /\ progress' = [progress EXCEPT ![n] = "running"]
        /\ coordinator' = [coordinator EXCEPT !.pc = "launching", !.position = n]
  BY DEF Begin, Pending
<1>3. coordinator' \in CoordinatorState /\ coordinator'.pc = "launching" /\ coordinator'.position = n
  BY <1>2 DEF ScheduleTypeOK, CoordinatorState
<1>4. ScheduleTypeOK'
  BY <1>1, <1>2, <1>3 DEF Begin, ScheduleTypeOK
<1>5. Running' = {n}
  BY <1>2 DEF Begin, Running, Charge, ScheduleTypeOK
<1>6. \A p \in Process : ~At(p, "idle") => process[p].position \in Position \ {n}
  BY <1>2 DEF Begun, EpisodeInv, Located
<1>7. Charge' /\ Attended'
  BY <1>3, <1>5 DEF Charge, Attended, Busy, Attending, In
<1>8. Begun' /\ RecordedIsQuiet'
  BY <1>2, <1>3, <1>6 DEF Begin, episodeVars, Begun, RecordedIsQuiet, Busy, Attending, Alive, At,
     ScheduleTypeOK
<1> QED BY <1>1, <1>4, <1>7, <1>8

\* The process that Launch starts is the first of its position.
LEMMA LaunchInv ==
  ASSUME ScheduleInv, Launch
  PROVE  ScheduleInv'
<1> USE DEF ScheduleInv
<1> DEFINE n == coordinator.position
<1>1. PICK p \in Process :
        Spawn(p, n) /\ coordinator' = [coordinator EXCEPT !.pc = "waiting", !.child = p]
  BY DEF Launch
<1>2. /\ In("launching") /\ Busy /\ n \in Position /\ progress[n] = "running"
      /\ UNCHANGED <<progress, code, starts, files>>
  BY <1>1 DEF Launch, Spawn, Charge, Busy, In, Running
<1>3. EpisodeInv'
  BY <1>1, <1>2, SpawnInv
<1>4. /\ coordinator' \in CoordinatorState /\ coordinator'.pc = "waiting"
      /\ coordinator'.position = n /\ coordinator'.child = p
  BY <1>1 DEF ScheduleTypeOK, CoordinatorState
<1>5. ScheduleTypeOK'
  BY <1>2, <1>3, <1>4 DEF ScheduleTypeOK, EpisodeInv
<1>6. /\ process'[p].pc = "creating" /\ process'[p].position = n /\ At(p, "idle")
      /\ \A q \in Process \ {p} : process'[q] = process[q]
  BY <1>1 DEF Spawn, EpisodeInv, EpisodeTypeOK, ProcessState
<1>7. \A q \in Process : ~At(q, "idle") => process[q].position # n
  BY <1>2 DEF Begun
<1>8. Running' = Running
  BY <1>2 DEF Running
<1>9. Charge' /\ Attended'
  BY <1>2, <1>4, <1>6, <1>8 DEF Charge, Attended, Busy, Attending, In, At
<1>10. Begun'
  BY <1>2, <1>4, <1>6, <1>7 DEF Begun, Busy, Attending, In, At
<1>11. RecordedIsQuiet'
  BY <1>2, <1>6 DEF RecordedIsQuiet, Alive, At
<1>12. Marked'
  BY <1>2, <1>6, <1>7 DEF Marked, Alive, At
<1> QED BY <1>3, <1>5, <1>9, <1>10, <1>11, <1>12

\* The coordinator goes on, without a change to the progress file.
LEMMA WaitInv ==
  ASSUME ScheduleInv, LaunchFails \/ Collect \/ GiveUp \/ Clean
  PROVE  ScheduleInv'
<1> USE DEF ScheduleInv
<1>1. EpisodeInv' /\ EpisodeTypeOK' /\ Marked'
  BY DirectoriesSame DEF LaunchFails, Collect, GiveUp, Clean
<1>2. /\ coordinator' \in CoordinatorState /\ coordinator'.position = coordinator.position
      /\ coordinator'.child = coordinator.child
      /\ UNCHANGED <<progress, code, starts, process>>
  BY DEF LaunchFails, Collect, GiveUp, Clean, Proceed, ScheduleTypeOK, CoordinatorState, TerminalState,
     episodeVars
<1>4. ScheduleTypeOK'
  BY <1>1, <1>2 DEF LaunchFails, Collect, GiveUp, Clean, ScheduleTypeOK
<1>5. Running' = Running /\ Busy /\ Busy'
  BY <1>2 DEF Running, Busy, LaunchFails, Collect, GiveUp, Clean, Proceed, In, ScheduleTypeOK,
     CoordinatorState
<1>6. \/ /\ coordinator.pc = "launching" /\ coordinator'.pc = "completing"
         /\ coordinator'.ending = "process_error"
      \/ /\ coordinator.pc = "waiting" /\ coordinator'.pc = "completing"
         /\ At(coordinator.child, "exited") /\ coordinator'.ending = "process_finished"
      \/ /\ coordinator.pc = "waiting" /\ coordinator'.pc = "terminating"
         /\ coordinator'.ending \in {"timed_out", "interrupted"}
      \/ /\ coordinator.pc = "cleaning" /\ coordinator'.pc = "marking"
         /\ coordinator'.ending = coordinator.ending
  BY DEF LaunchFails, Collect, GiveUp, Clean, Proceed, In, ScheduleTypeOK, CoordinatorState
<1>7. Charge'
  BY <1>2, <1>5, <1>6 DEF Charge, Busy, Attending, In, TerminalState
<1>8. Begun'
  BY <1>2, <1>5, <1>6 DEF Begun, Attending, In, At
<1>9. Attended'
  BY <1>2, <1>5, <1>6 DEF Attended, Begun, Attending, In, At, Alive
<1>10. RecordedIsQuiet'
  BY <1>2 DEF RecordedIsQuiet, Alive, At
<1> QED BY <1>1, <1>4, <1>7, <1>8, <1>9, <1>10

LEMMA TerminateInv ==
  ASSUME ScheduleInv, Terminate
  PROVE  ScheduleInv'
<1> USE DEF ScheduleInv
<1> DEFINE p == coordinator.child
<1>1. /\ coordinator.pc = "terminating" /\ p \in Process /\ ~At(p, "idle")
      /\ process[p].position \in Position
  BY DEF Terminate, In, Charge, Attended, Attending, EpisodeInv, Located
<1>2. /\ process'[p].pc = "exited" /\ process'[p].position = process[p].position
      /\ \A q \in Process \ {p} : process'[q] = process[q]
  <2>1. CASE Alive(p)
    <3>1. PICK r \in ProcessState : /\ process' = [process EXCEPT ![p] = r]
                                    /\ r.position = process[p].position /\ r.pc = "exited"
      BY <1>1, <2>1, MoveTypes DEF Terminate, EpisodeInv
    <3> QED BY <1>1, <3>1 DEF EpisodeInv, EpisodeTypeOK
  <2>2. CASE ~Alive(p)
    BY <1>1, <2>2 DEF Terminate, Alive, At
  <2> QED BY <2>1, <2>2
<1>3. UNCHANGED <<progress, code, starts, files, evaluations>>
  BY DEF Terminate
<1>4. EpisodeInv'
  <2>1. CASE Alive(p)
    BY <1>1, <1>3, <2>1, DieInv DEF Terminate, Die
  <2>2. CASE ~Alive(p)
    BY <1>3, <2>2, DirectoriesSame DEF Terminate, episodeVars
  <2> QED BY <2>1, <2>2
<1>5. /\ coordinator' \in CoordinatorState /\ coordinator'.pc = "cleaning"
      /\ coordinator'.position = coordinator.position
      /\ coordinator'.child = coordinator.child /\ coordinator'.ending = coordinator.ending
  BY DEF Terminate, Proceed, ScheduleTypeOK, CoordinatorState
<1>7. ScheduleTypeOK'
  BY <1>3, <1>4, <1>5 DEF ScheduleTypeOK, EpisodeInv
<1>8. Running' = Running
  BY <1>3 DEF Running
<1>9. Charge'
  BY <1>1, <1>5, <1>8 DEF Charge, Busy, Attending, In
<1>10. Begun' /\ Attended' /\ RecordedIsQuiet' /\ Marked'
  BY <1>1, <1>2, <1>3, <1>5
     DEF Begun, Attended, RecordedIsQuiet, Marked, Busy, Attending, In, At, Alive
<1> QED BY <1>4, <1>7, <1>9, <1>10

\* What is marked has no process that could write: the one that there was is
\* the coordinator's child, and gone.
LEMMA MarkInv ==
  ASSUME ScheduleInv, Mark
  PROVE  ScheduleInv'
<1> USE DEF ScheduleInv
<1> DEFINE n == coordinator.position
           f == [files[n] EXCEPT !.status = "interrupted"]
<1>1. /\ coordinator.pc = "marking" /\ n \in Position /\ coordinator.child \in Process
      /\ process[coordinator.child].position = n /\ At(coordinator.child, "exited")
  BY DEF Mark, In, Charge, Attended, Attending, Busy, Running
<1>2. UNCHANGED <<progress, code, starts, process, evaluations>>
  BY DEF Mark
<1>3. f \in Files /\ f.claim = files[n].claim /\ f.result = files[n].result
  <2> SUFFICES ASSUME NEW g \in Files
               PROVE  LET h == [g EXCEPT !.status = "interrupted"] IN
                        h \in Files /\ h.claim = g.claim /\ h.result = g.result
    BY <1>1 DEF EpisodeInv, EpisodeTypeOK
  <2> QED BY SMTT(30) DEF Files
<1>4. \/ files' = files
      \/ files' = [files EXCEPT ![n] = f] /\ files[n].result = "none"
  BY <1>1 DEF Mark, EpisodeInv, EpisodeTypeOK
<1>5. EpisodeTypeOK'
  BY <1>1, <1>2, <1>3, <1>4 DEF EpisodeInv, EpisodeTypeOK
<1>6. \A m \in Position : files'[m].claim = files[m].claim
  BY <1>1, <1>3, <1>4 DEF EpisodeInv, EpisodeTypeOK
<1>7. EpisodeInv'
  BY <1>2, <1>5, <1>6 DEF EpisodeInv, Located, ClaimExclusive, Holds, At, Alive
<1>8. /\ coordinator' \in CoordinatorState /\ coordinator'.pc = "completing"
      /\ coordinator'.position = n /\ coordinator'.child = coordinator.child
      /\ coordinator'.ending = coordinator.ending
  BY DEF Mark, Proceed, ScheduleTypeOK, CoordinatorState
<1>9. ScheduleTypeOK'
  BY <1>2, <1>5, <1>8 DEF ScheduleTypeOK
<1>10. Running' = Running
  BY <1>2 DEF Running
<1>11. Charge'
  BY <1>1, <1>8, <1>10 DEF Charge, Busy, Attending, In, TerminalState
<1>12. \A p \in Process : process[p].position = n => ~Alive(p)
  BY <1>1 DEF Begun, Busy, Attending, In, At, Alive
<1>13. Begun' /\ Attended' /\ RecordedIsQuiet'
  BY <1>1, <1>2, <1>8, <1>12
     DEF Begun, Attended, RecordedIsQuiet, Busy, Attending, In, At, Alive
<1>14. Marked'
  <2> SUFFICES ASSUME NEW m \in Position, files'[m].status = "interrupted"
               PROVE  /\ files'[m].result = "none"
                      /\ \A p \in Process : process[p].position = m => ~Alive(p)
                      /\ \E p \in Process : ~At(p, "idle") /\ process[p].position = m
    BY <1>2 DEF Marked, At, Alive
  <2>1. CASE files'[m] = files[m]
    BY <2>1 DEF Marked
  <2>2. CASE files'[m] # files[m]
    <3>1. m = n /\ files'[m] = f /\ files[n].result = "none"
      BY <1>1, <1>4, <2>2 DEF EpisodeInv, EpisodeTypeOK
    <3> QED BY <1>1, <1>3, <1>12, <3>1 DEF At
  <2> QED BY <2>1, <2>2
<1> QED BY <1>7, <1>9, <1>11, <1>13, <1>14

\* What is recorded has no process that is left: Attended says so of the
\* position in hand.
LEMMA CompleteInv ==
  ASSUME ScheduleInv, Complete
  PROVE  ScheduleInv'
<1> USE DEF ScheduleInv
<1> DEFINE n == coordinator.position
<1>1. EpisodeInv' /\ EpisodeTypeOK' /\ Marked'
  BY DirectoriesSame DEF Complete
<1>2. /\ coordinator.pc = "completing" /\ n \in Position /\ progress[n] = "running"
      /\ coordinator.ending \in TerminalState \ {"orphaned"}
  BY DEF Complete, In, Charge, Busy, Running
<1>3. /\ progress' = [progress EXCEPT ![n] = coordinator.ending]
      /\ UNCHANGED <<starts, process>>
  BY DEF Complete, episodeVars
<1>4. coordinator' \in CoordinatorState /\ coordinator'.pc \in {"down", "scheduling"}
  <2>1. CASE coordinator.ending = "interrupted"
    BY <2>1, EpisodeAssumption DEF Complete, Down, CoordinatorState, Position
  <2>2. CASE coordinator.ending # "interrupted"
    BY <2>2 DEF Complete, ScheduleTypeOK, CoordinatorState
  <2> QED BY <2>1, <2>2
<1>5. code' \in [Position -> {"none", "zero", "failure", "refused", "killed"}]
  <2>1. coordinator.child # 0 =>
          process[coordinator.child].exit \in {"none", "zero", "failure", "refused", "killed"}
    BY DEF ScheduleTypeOK, CoordinatorState, EpisodeTypeOK, ProcessState
  <2> QED BY <2>1 DEF Complete, ScheduleTypeOK
<1>6. ScheduleTypeOK'
  BY <1>1, <1>2, <1>3, <1>4, <1>5 DEF ScheduleTypeOK
<1>7. Running' = {}
  BY <1>2, <1>3 DEF Running, Charge, ScheduleTypeOK, TerminalState
<1>8. Charge' /\ Attended'
  BY <1>4, <1>7 DEF Charge, Attended, Busy, Attending, In
<1>9. \A m \in Position : progress'[m] = IF m = n THEN coordinator.ending ELSE progress[m]
  BY <1>3 DEF ScheduleTypeOK
<1>10. Begun'
  BY <1>2, <1>3, <1>4, <1>9 DEF Begun, Busy, At, EpisodeInv, Located, TerminalState
<1>11. RecordedIsQuiet'
  BY <1>2, <1>3, <1>9 DEF RecordedIsQuiet, Attended, In, Alive, At, EpisodeInv, Located
<1> QED BY <1>1, <1>6, <1>8, <1>10, <1>11

\* A coordinator that ends, or is killed, leaves everything as it is.
LEMMA DownInv ==
  ASSUME ScheduleInv, End \/ Crash
  PROVE  ScheduleInv'
<1> USE DEF ScheduleInv
<1>1. EpisodeInv' /\ EpisodeTypeOK' /\ Marked'
  BY DirectoriesSame DEF End, Crash
<1>2. /\ coordinator' \in CoordinatorState /\ coordinator'.pc = "down"
      /\ UNCHANGED <<progress, code, starts, process>>
  <2>1. Down \in CoordinatorState /\ Down.pc = "down"
    BY EpisodeAssumption DEF Down, CoordinatorState, Position
  <2> QED BY <2>1 DEF End, Crash, episodeVars
<1>3. ScheduleTypeOK'
  BY <1>1, <1>2 DEF ScheduleTypeOK
<1>4. Charge' /\ Begun' /\ Attended' /\ RecordedIsQuiet'
  BY <1>2 DEF Charge, Begun, Attended, RecordedIsQuiet, Busy, Attending, In, Alive, At, Running
<1> QED BY <1>1, <1>3, <1>4

\* An episode's step moves one process, that is alive, in its own directory:
\* not one of a position that was recorded or marked.
LEMMA EpisodeMovesInv ==
  ASSUME ScheduleInv, EpisodeMoves
  PROVE  ScheduleInv'
<1> USE DEF ScheduleInv
<1>1. PICK p \in Process : EpisodeStep(p) \/ ThreadStep(p) \/ Die(p)
  BY DEF EpisodeMoves
<1>2. UNCHANGED <<progress, code, coordinator, starts>>
  BY DEF EpisodeMoves
<1>3. EpisodeInv'
  BY <1>1, EpisodeStepInv, ThreadStepInv, DieInv
<1> DEFINE n == process[p].position
<1>4. /\ Alive(p) /\ n \in Position
      /\ process'[p].position = n /\ process'[p].pc # "idle"
      /\ \A q \in Process \ {p} : process'[q] = process[q]
      /\ \A m \in Position \ {n} : files'[m] = files[m]
      /\ \A m \in Position : files'[m].status = "interrupted" => files[m].status = "interrupted"
  BY <1>1, EpisodeFrame DEF At
<1>6. ScheduleTypeOK'
  BY <1>2, <1>3 DEF ScheduleTypeOK, EpisodeInv
<1>7. Charge'
  BY <1>2 DEF Charge, Busy, Attending, In, Running
<1>8. \A q \in Process :
        /\ process'[q].position = process[q].position
        /\ At(q, "idle")' <=> At(q, "idle")
        /\ Alive(q)' => Alive(q)
  BY <1>4 DEF At, Alive
<1>9. Begun' /\ RecordedIsQuiet'
  BY <1>2, <1>8 DEF Begun, RecordedIsQuiet, Busy, Attending, In
<1>10. Attended'
  <2>1. coordinator.pc \in {"cleaning", "marking"} => coordinator.child # p
    BY <1>4 DEF Attended, Alive, At
  <2> QED BY <1>2, <1>4, <1>8, <2>1 DEF Attended, Charge, Attending, In, At
<1>11. Marked'
  <2> SUFFICES ASSUME NEW m \in Position, files'[m].status = "interrupted"
               PROVE  /\ files'[m].result = "none"
                      /\ \A q \in Process : process'[q].position = m => ~Alive(q)'
                      /\ \E q \in Process : ~At(q, "idle")' /\ process'[q].position = m
    BY DEF Marked
  <2>1. files[m].status = "interrupted" /\ m # n
    BY <1>4 DEF Marked
  <2> QED BY <1>4, <1>8, <2>1 DEF Marked
<1> QED BY <1>3, <1>6, <1>7, <1>9, <1>10, <1>11

LEMMA ScheduleNextInv == ScheduleInv /\ [ScheduleNext]_scheduleVars => ScheduleInv'
<1> SUFFICES ASSUME ScheduleInv, [ScheduleNext]_scheduleVars PROVE ScheduleInv'
  OBVIOUS
<1>1. CASE UNCHANGED scheduleVars
  <2>1. EpisodeInv' /\ EpisodeTypeOK' /\ Marked'
    BY <1>1, DirectoriesSame DEF scheduleVars
  <2> QED BY <1>1, <2>1 DEF scheduleVars, episodeVars, ScheduleInv, ScheduleTypeOK, Charge, Begun,
       Attended, RecordedIsQuiet, Busy, Attending, In, Alive, At, Running
<1>2. CASE ScheduleNext
  BY <1>2, StartInv, BeginInv, LaunchInv, WaitInv, TerminateInv, MarkInv, CompleteInv, DownInv,
     EpisodeMovesInv DEF ScheduleNext, CoordinatorStep, TimedStep
<1> QED BY <1>1, <1>2

-----------------------------------------------------------------------------
\* The invariant holds of every run of the schedule.
THEOREM ScheduleSafe == ScheduleSpec => []ScheduleInv
BY ScheduleInitInv, ScheduleNextInv, PTL DEF ScheduleSpec

\* The progress file, the coordinator and the episodes are well formed.
THEOREM ScheduleTypeCorrect == ScheduleSpec => []ScheduleTypeOK
<1>1. ScheduleInv => ScheduleTypeOK
  BY DEF ScheduleInv
<1> QED BY <1>1, ScheduleSafe, PTL

\* run_scheduled_process and ScheduleProgress.complete: when an outcome of the
\* coordinator's own is in the progress file, no process of that position is
\* left, however often coordinators were killed and started again.
THEOREM RecordedQuiet == ScheduleSpec => []RecordedIsQuiet
<1>1. ScheduleInv => RecordedIsQuiet
  BY DEF ScheduleInv
<1> QED BY <1>1, ScheduleSafe, PTL

\* EnvBenchEvaluator.evaluate: the schedule, too, evaluates no directory twice.
THEOREM ScheduledEvaluatedOnce == ScheduleSpec => []EvaluatedOnce
<1>1. ScheduleInv => EvaluatedOnce
  BY InvImpliesEvaluatedOnce DEF ScheduleInv
<1> QED BY <1>1, ScheduleSafe, PTL

\* mark_case_interrupted: a run that it marked does not change any more, and
\* a run that has a result is never marked.
THEOREM InterruptionsFinal == ScheduleSpec => InterruptedIsFinal
<1> DEFINE Final ==
      \A n \in Position :
        /\ files[n].status = "interrupted" => files'[n] = files[n]
        /\ files[n].result # "none" => files'[n].status # "interrupted"
<1>1. ASSUME ScheduleInv, [ScheduleNext]_scheduleVars PROVE [Final]_scheduleVars
  <2> USE <1>1 DEF ScheduleInv
  <2> SUFFICES ASSUME ScheduleNext, NEW n \in Position
               PROVE  /\ files[n].status = "interrupted" => files'[n] = files[n]
                      /\ files[n].result # "none" => files'[n].status # "interrupted"
    OBVIOUS
  <2>1. CASE files' = files
    BY <2>1 DEF Marked
  <2>2. CASE Mark
    <3> DEFINE m == coordinator.position
               f == [files[m] EXCEPT !.status = "interrupted"]
    <3>1. m \in Position /\ files[m] \in Files
      BY <2>2 DEF Mark, In, Charge, Busy, Running, EpisodeInv, EpisodeTypeOK
    <3>2. files[m].status = "interrupted" => f = files[m]
      BY <3>1 DEF Files
    <3>3. files' = files \/ (files' = [files EXCEPT ![m] = f] /\ files[m].result = "none")
      BY <2>2, <3>1 DEF Mark, EpisodeInv, EpisodeTypeOK
    <3> QED BY <3>1, <3>2, <3>3 DEF Marked, EpisodeInv, EpisodeTypeOK
  <2>3. CASE EpisodeMoves
    <3>1. PICK p \in Process : EpisodeStep(p) \/ ThreadStep(p) \/ Die(p)
      BY <2>3 DEF EpisodeMoves
    <3> QED BY <3>1, EpisodeFrame DEF Marked
  <2>4. CASE Start \/ Begin \/ LaunchFails \/ Collect \/ GiveUp \/ Clean \/ Complete \/ End \/ Crash
    BY <2>1, <2>4 DEF Start, Begin, LaunchFails, Collect, GiveUp, Clean, Complete, End, Crash, episodeVars
  <2>5. CASE Launch \/ Terminate
    BY <2>1, <2>5 DEF Launch, Spawn, Terminate
  <2> QED BY <2>2, <2>3, <2>4, <2>5 DEF ScheduleNext, CoordinatorStep, TimedStep
<1> QED BY <1>1, ScheduleSafe, PTL DEF ScheduleSpec, InterruptedIsFinal

\* ScheduleProgress: every position is begun at most once, none while another
\* is running, and an outcome is final.  The next coordinator finds at most
\* one position running, so that giving it up is a step of the abstract
\* schedule, too.
THEOREM TurnsKept == ScheduleSpec => BeginsOnceAndInTurn
<1>1. ScheduleInit => Abstract!Init
  BY DEF ScheduleInit, Abstract!Init
<1>2. ASSUME ScheduleInv, [ScheduleNext]_scheduleVars PROVE [Abstract!Next]_progress
  <2> USE <1>2 DEF ScheduleInv
  <2> SUFFICES ASSUME ScheduleNext, progress' # progress PROVE Abstract!Next
    BY DEF scheduleVars
  <2>1. CASE Start
    <3>1. progress = [n \in Position |-> progress[n]]
      BY DEF ScheduleTypeOK
    <3>2. progress' = [n \in Position |-> IF n \in Running THEN "orphaned" ELSE progress[n]]
      BY <2>1 DEF Start
    <3>3. PICK n \in Position : n \in Running
      BY <3>1, <3>2 DEF Running
    <3>4. Running = {n}
      BY <3>3 DEF Charge
    <3>5. progress' = [progress EXCEPT ![n] = "orphaned"]
      BY <3>1, <3>2, <3>4
    <3> QED BY <3>3, <3>5 DEF Abstract!Next, Abstract!Complete, TerminalState, Running
  <2>2. CASE Begin
    <3>1. PICK n \in Position : progress[n] = "absent" /\ progress' = [progress EXCEPT ![n] = "running"]
      BY <2>2 DEF Begin, Pending
    <3>2. \A m \in Position : progress[m] # "running"
      BY <2>2 DEF Begin, Charge, Running
    <3> QED BY <3>1, <3>2 DEF Abstract!Next, Abstract!Begin
  <2>3. CASE Complete
    <3>1. /\ coordinator.position \in Position /\ progress[coordinator.position] = "running"
          /\ coordinator.ending \in TerminalState
          /\ progress' = [progress EXCEPT ![coordinator.position] = coordinator.ending]
      BY <2>3 DEF Complete, In, Charge, Busy, Running
    <3> QED BY <3>1 DEF Abstract!Next, Abstract!Complete
  <2>4. CASE Launch \/ LaunchFails \/ Collect \/ GiveUp \/ Terminate \/ Clean \/ Mark \/ End
               \/ Crash \/ EpisodeMoves
    BY <2>4 DEF Launch, LaunchFails, Collect, GiveUp, Terminate, Clean, Mark, End, Crash, EpisodeMoves
  <2> QED BY <2>1, <2>2, <2>3, <2>4 DEF ScheduleNext, CoordinatorStep, TimedStep
<1> QED BY <1>1, <1>2, ScheduleSafe, PTL DEF ScheduleSpec, BeginsOnceAndInTurn, Abstract!Spec

-----------------------------------------------------------------------------
(* What the progress file says of the runs                                 *)

\* A position has one process, whose directory nobody else is let into.
OneEach ==
  \A p, q \in Process :
    ~At(p, "idle") /\ ~At(q, "idle") /\ process[p].position = process[q].position => p = q

\* What a process that exited with zero left behind, its thread joined.
Left ==
  \A p \in Process : At(p, "exited") /\ process[p].exit = "zero" /\ process[p].joined =>
    Scored(Here(p))

\* Where an exit code came from, when the coordinator has it and when it is
\* in the progress file.
Collected ==
  In("completing") /\ coordinator.ending = "process_finished" =>
    /\ coordinator.child \in Process /\ At(coordinator.child, "exited")
    /\ process[coordinator.child].position = coordinator.position
Reported ==
  \A n \in Position : progress[n] = "process_finished" /\ code[n] = "zero" =>
    \E p \in Process :
      At(p, "exited") /\ process[p].exit = "zero" /\ process[p].position = n

Outcomes == RunsInv /\ OneEach /\ Left /\ Collected /\ Reported

LEMMA OutcomesInit == ScheduleInit => Outcomes
<1> SUFFICES ASSUME ScheduleInit PROVE Outcomes
  OBVIOUS
<1>1. RunsInv
  BY RunsInitInv DEF ScheduleInit
<1>2. \A p \in Process : At(p, "idle")
  BY DEF ScheduleInit, EpisodeInit, NoProcess, At
<1>3. coordinator.pc = "down" /\ \A n \in Position : progress[n] = "absent"
  BY DEF ScheduleInit, Down
<1> QED BY <1>1, <1>2, <1>3 DEF Outcomes, OneEach, Left, Collected, Reported, In, At

LEMMA OneIsAlone ==
  ASSUME EpisodeInv, RunsInv, OneEach, NEW p \in Process, ~At(p, "idle")
  PROVE  Alone(p)
<1> SUFFICES ASSUME NEW q \in Process \ {p}, process[q].position = process[p].position
             PROVE  FALSE
  BY DEF Alone
<1>1. process[p].position \in Position
  BY DEF EpisodeInv, Located
<1>2. CASE At(q, "idle")
  BY <1>1, <1>2 DEF RunsInv, Threads, ThreadOK, At, Position
<1>3. CASE ~At(q, "idle")
  BY <1>3 DEF OneEach
<1> QED BY <1>2, <1>3

\* A step of the coordinator that touches no process and no directory, and
\* no exit code.
LEMMA OutcomesSame ==
  ASSUME Outcomes, UNCHANGED episodeVars, code' = code,
         \A n \in Position : progress'[n] = "process_finished" => progress[n] = "process_finished",
         Collected'
  PROVE  Outcomes'
<1>1. RunsInv'
  BY DEF Outcomes, episodeVars, RunsInv, Untouched, Threads, Runs, Entered, Alone, At, Here
<1>2. OneEach' /\ Left' /\ Reported'
  BY DEF Outcomes, episodeVars, OneEach, Left, Reported, At, Here
<1> QED BY <1>1, <1>2 DEF Outcomes

LEMMA CoordinatorOutcomes ==
  ASSUME ScheduleInv, Outcomes,
         Start \/ Begin \/ LaunchFails \/ Collect \/ GiveUp \/ Clean \/ End \/ Crash
  PROVE  Outcomes'
<1>1. UNCHANGED episodeVars /\ code' = code
  BY DEF Start, Begin, LaunchFails, Collect, GiveUp, Clean, End, Crash
<1>2. \A n \in Position : progress'[n] = "process_finished" => progress[n] = "process_finished"
  BY DEF Start, Begin, LaunchFails, Collect, GiveUp, Clean, End, Crash, ScheduleInv, ScheduleTypeOK
<1>3. Collected'
  <2>1. CASE Collect
    <3>1. /\ coordinator.pc = "waiting" /\ coordinator.child \in Process
          /\ At(coordinator.child, "exited")
          /\ process[coordinator.child].position = coordinator.position
      BY <2>1 DEF Collect, In, ScheduleInv, Charge, Attended, Attending
    <3>2. coordinator'.child = coordinator.child /\ coordinator'.position = coordinator.position
      BY <2>1 DEF Collect, ScheduleInv, ScheduleTypeOK, CoordinatorState
    <3> QED BY <1>1, <3>1, <3>2 DEF Collected, episodeVars, At
  <2>2. CASE LaunchFails
    BY <2>2 DEF LaunchFails, Collected, ScheduleInv, ScheduleTypeOK, CoordinatorState
  <2>3. CASE Start \/ Begin \/ GiveUp \/ Clean \/ End \/ Crash
    <3>1. CASE Start
      BY <3>1 DEF Start, Collected, In, Down
    <3>2. CASE End \/ Crash
      BY <3>2 DEF End, Crash, Collected, In, Down
    <3>3. CASE Begin \/ GiveUp \/ Clean
      <4>1. coordinator'.pc \in {"launching", "terminating", "marking"}
        BY <3>3 DEF Begin, GiveUp, Clean, Proceed, ScheduleInv, ScheduleTypeOK, CoordinatorState
      <4> QED BY <4>1 DEF Collected, In
    <3> QED BY <2>3, <3>1, <3>2, <3>3
  <2> QED BY <2>1, <2>2, <2>3
<1> QED BY <1>1, <1>2, <1>3, OutcomesSame

\* Launch starts the first process of a position.
LEMMA LaunchOutcomes ==
  ASSUME ScheduleInv, Outcomes, Launch
  PROVE  Outcomes'
<1> USE DEF ScheduleInv, Outcomes
<1> DEFINE n == coordinator.position
<1>1. PICK p \in Process :
        Spawn(p, n) /\ coordinator' = [coordinator EXCEPT !.pc = "waiting", !.child = p]
  BY DEF Launch
<1>2. /\ In("launching") /\ Busy /\ n \in Position
      /\ UNCHANGED <<progress, code, files>>
  BY <1>1 DEF Launch, Spawn, Charge, Busy, In, Running
<1>3. RunsInv'
  BY <1>1, <1>2, SpawnRuns
<1>4. /\ process'[p].pc = "creating" /\ process'[p].position = n /\ At(p, "idle")
      /\ \A q \in Process \ {p} : process'[q] = process[q]
  BY <1>1 DEF Spawn, EpisodeInv, EpisodeTypeOK, ProcessState
<1>5. \A q \in Process : ~At(q, "idle") => process[q].position # n
  BY <1>2 DEF Begun
<1>6. OneEach'
  BY <1>4, <1>5 DEF OneEach, At
<1>7. Left'
  BY <1>2, <1>4 DEF Left, At, Here
<1>8. Collected'
  BY <1>1 DEF Collected, In, ScheduleTypeOK, CoordinatorState
<1>9. Reported'
  BY <1>2, <1>4 DEF Reported, At
<1> QED BY <1>3, <1>6, <1>7, <1>8, <1>9

\* A process of the position goes on, alone: where it exits with zero it was
\* at its end.
LEMMA MoveOutcomes ==
  ASSUME ScheduleInv, Outcomes, NEW p \in Process,
         EpisodeStep(p) \/ ThreadStep(p) \/ Die(p),
         UNCHANGED <<progress, code>>,
         In("completing")' => coordinator' = coordinator
  PROVE  Outcomes'
<1> USE DEF ScheduleInv, Outcomes
<1> DEFINE n == process[p].position
<1>1. RunsInv'
  BY EpisodeStepRuns, ThreadStepRuns, LeaveRuns
<1>2. /\ Alive(p) /\ n \in Position
      /\ process'[p].position = n /\ process'[p].pc # "idle"
      /\ \A q \in Process \ {p} : process'[q] = process[q]
      /\ \A m \in Position \ {n} : files'[m] = files[m]
  BY EpisodeFrame DEF At
<1>3. \A q \in Process :
        process'[q].position = process[q].position /\ (At(q, "idle")' <=> At(q, "idle"))
  BY <1>2 DEF At, Alive
<1>4. OneEach'
  BY <1>3 DEF OneEach
<1>5. ASSUME At(p, "exited")', process'[p].exit = "zero", process'[p].joined
      PROVE  Scored(Here(p)')
  <2>1. Leave(p) /\ process[p].exit = "zero" /\ process[p].joined
    <3>1. process[p] \in ProcessState
      BY DEF EpisodeInv, EpisodeTypeOK
    <3>2. CASE Leave(p)
      <4>1. process[p].exit \in {"none", "zero", "failure", "refused", "killed"}
        BY <3>1 DEF ProcessState
      <4>2. PICK r : /\ process' = [process EXCEPT ![p] = r]
                     /\ r.exit = process[p].exit /\ r.joined = process[p].joined
        BY <3>2, <4>1, GoneIs DEF Leave, EpisodeInv
      <4> QED BY <1>5, <3>2, <4>2 DEF EpisodeInv, EpisodeTypeOK
    <3>3. CASE Die(p)
      <4>1. PICK r : process' = [process EXCEPT ![p] = r] /\ r.exit = "killed"
        BY <3>3, GoneIs DEF Die, EpisodeInv
      <4> QED BY <1>5, <4>1 DEF EpisodeInv, EpisodeTypeOK
    <3>4. CASE Create(p)
      <4>1. CASE Here(p).monitor = "absent"
        BY <1>5, <3>4, <4>1 DEF Create, Go, At, EpisodeInv, EpisodeTypeOK, ProcessState
      <4>2. CASE Here(p).monitor # "absent"
        <5>1. PICK r : process' = [process EXCEPT ![p] = r] /\ r.exit = "refused"
          BY <3>4, <4>2, GoneIs DEF Create, EpisodeInv
        <5> QED BY <1>5, <5>1 DEF EpisodeInv, EpisodeTypeOK
      <4> QED BY <4>1, <4>2
    <3>5. CASE Solve(p) \/ Generate(p) \/ AdmitEvaluation(p) \/ Claim(p) \/ Prepare(p)
               \/ EndWrites(p) \/ Seal(p) \/ Close(p)
      <4>1. (\E place \in Control \ {"exited"} : Go(p, place))
              \/ \E exit \in {"zero", "failure"} : Unwind(p, exit)
        BY <3>5 DEF Solve, Generate, AdmitEvaluation, Claim, Prepare, EndWrites, Seal, Close, Control
      <4>2. PICK r \in ProcessState : process' = [process EXCEPT ![p] = r] /\ r.pc # "exited"
        BY <4>1, GoIs, UnwindIs DEF EpisodeInv
      <4> QED BY <1>5, <4>2 DEF At, EpisodeInv, EpisodeTypeOK
    <3>6. CASE Initialize(p) \/ SetStop(p) \/ Join(p) \/ EndDrafts(p)
      BY <1>5, <3>1, <3>6 DEF Initialize, SetStop, Join, EndDrafts, At, EpisodeInv, EpisodeTypeOK,
         ProcessState
    <3>7. CASE Evaluate(p)
      <4>1. CASE Unwind(p, "failure")
        <5>1. PICK r \in ProcessState : process' = [process EXCEPT ![p] = r] /\ r.pc # "exited"
          BY <4>1, UnwindIs DEF EpisodeInv
        <5> QED BY <1>5, <5>1 DEF At, EpisodeInv, EpisodeTypeOK
      <4>2. CASE ~Unwind(p, "failure")
        BY <1>5, <3>1, <3>7, <4>2 DEF Evaluate, At, EpisodeInv, EpisodeTypeOK, ProcessState
      <4> QED BY <4>1, <4>2
    <3>8. CASE ThreadStep(p)
      BY <1>2, <1>5, <3>1, <3>8 DEF ThreadStep, ThreadWakes, ThreadDrafts, ThreadWrites, ThreadUnlocks,
         ThreadCounts, At, Alive, EpisodeInv, EpisodeTypeOK, ProcessState
    <3> QED BY <3>2, <3>3, <3>4, <3>5, <3>6, <3>7, <3>8 DEF EpisodeStep
  <2>2. process[p].pc = "leaving" /\ process[p].joined /\ files' = files
    BY <2>1 DEF Leave, At
  <2>3. Here(p) \in Files /\ RunOK(process[p], Here(p))
    BY <1>2, <2>2, OneIsAlone, RunNow DEF Alive, At
  <2>4. Scored(Here(p))
    BY <2>1, <2>2, <2>3, LeavingCounts
  <2> QED BY <1>2, <2>2, <2>4 DEF Here
<1>6. Left'
  <2> SUFFICES ASSUME NEW q \in Process, At(q, "exited")', process'[q].exit = "zero",
                      process'[q].joined
               PROVE  Scored(Here(q)')
    BY DEF Left
  <2>1. CASE q = p
    BY <1>5, <2>1
  <2>2. CASE q # p
    <3>1. process'[q] = process[q] /\ At(q, "exited") /\ process[q].position \in Position
      BY <1>2, <2>2 DEF At, EpisodeInv, Located
    <3>2. process[q].position # n
      BY <1>2, <2>2, <3>1 DEF OneEach, At, Alive
    <3>3. Here(q)' = Here(q)
      BY <1>2, <3>1, <3>2 DEF Here
    <3> QED BY <3>1, <3>3 DEF Left
  <2> QED BY <2>1, <2>2
<1>7. \A q \in Process : At(q, "exited") => process'[q] = process[q]
  BY <1>2 DEF At, Alive
<1>8. Collected'
  BY <1>7 DEF Collected, In, At
<1>9. Reported'
  BY <1>7 DEF Reported, At
<1> QED BY <1>1, <1>4, <1>6, <1>8, <1>9

LEMMA TerminateOutcomes ==
  ASSUME ScheduleInv, Outcomes, Terminate
  PROVE  Outcomes'
<1>1. coordinator'.pc = "cleaning" /\ coordinator.child \in Process
  BY DEF Terminate, Proceed, In, ScheduleInv, ScheduleTypeOK, CoordinatorState, Charge, Attending
<1>2. UNCHANGED <<progress, code, files, evaluations>>
  BY DEF Terminate
<1>3. CASE Alive(coordinator.child)
  <2>1. Die(coordinator.child)
    BY <1>3 DEF Terminate, Die
  <2> QED BY <1>1, <1>2, <2>1, MoveOutcomes DEF In
<1>4. CASE ~Alive(coordinator.child)
  <2>1. UNCHANGED episodeVars
    BY <1>2, <1>4 DEF Terminate, episodeVars
  <2>2. Collected'
    BY <1>1 DEF Collected, In
  <2> QED BY <1>2, <2>1, <2>2, OutcomesSame
<1> QED BY <1>3, <1>4

\* What is marked has no result, so that it is no run that counts.
LEMMA MarkOutcomes ==
  ASSUME ScheduleInv, Outcomes, Mark
  PROVE  Outcomes'
<1> USE DEF ScheduleInv, Outcomes
<1> DEFINE n == coordinator.position
           f == [files[n] EXCEPT !.status = "interrupted"]
<1>1. /\ coordinator.pc = "marking" /\ n \in Position /\ coordinator.child \in Process
      /\ process[coordinator.child].position = n /\ At(coordinator.child, "exited")
      /\ coordinator.ending \in {"timed_out", "interrupted"}
  BY DEF Mark, In, Charge, Attended, Attending, Busy, Running
<1>2. UNCHANGED <<progress, code, process>>
  BY DEF Mark
<1>3. \/ files' = files
      \/ /\ files' = [files EXCEPT ![n] = f]
         /\ files[n].result = "none" /\ files[n].monitor # "absent"
  BY <1>1 DEF Mark, EpisodeInv, EpisodeTypeOK
<1>4. \A m \in Position :
        files'[m] = files[m] \/ (m = n /\ files[n].result = "none" /\ files[n] # NoFiles)
  BY <1>1, <1>3 DEF EpisodeInv, EpisodeTypeOK, NoFiles
<1>5. \A q \in Process : process[q].position = n /\ ~At(q, "idle") => q = coordinator.child
  BY <1>1 DEF OneEach, At
<1>6. RunsInv'
  <2>1. Untouched'
    BY <1>2, <1>4 DEF RunsInv, Untouched, Entered, At
  <2>2. ASSUME NEW q \in Process, Entered(q)', Alone(q)' PROVE RunOK(process'[q], Here(q)')
    <3>1. Entered(q) /\ Alone(q) /\ process[q].position \in Position
      BY <1>2, <2>2 DEF Entered, Alone, At, EpisodeInv, Located
    <3>2. CASE files'[process[q].position] = files[process[q].position]
      BY <1>2, <3>1, <3>2 DEF RunsInv, Runs, Here
    <3>3. CASE files'[process[q].position] # files[process[q].position]
      <4>1. q = coordinator.child
        BY <1>4, <1>5, <3>1, <3>3 DEF Entered
      <4>2. process[q].pc = "exited" /\ process[q].thread = "off"
        BY <1>1, <4>1 DEF At, RunsInv, Threads, ThreadOK
      <4> QED BY <1>2, <4>2, GoneOK
    <3> QED BY <3>2, <3>3
  <2> QED BY <1>2, <2>1, <2>2 DEF RunsInv, Threads, Runs
<1>7. OneEach' /\ Reported'
  BY <1>2 DEF OneEach, Reported, At
<1>8. Left'
  <2> SUFFICES ASSUME NEW q \in Process, At(q, "exited"), process[q].exit = "zero",
                      process[q].joined
               PROVE  Scored(Here(q)')
    BY <1>2 DEF Left, At
  <2>1. Scored(Here(q)) /\ process[q].position \in Position
    BY DEF Left, EpisodeInv, Located, At
  <2>2. files'[process[q].position] = files[process[q].position]
    BY <1>4, <2>1 DEF Scored, Here
  <2> QED BY <1>2, <2>1, <2>2 DEF Here
<1>9. Collected'
  BY <1>1 DEF Mark, Proceed, Collected, ScheduleTypeOK, CoordinatorState
<1> QED BY <1>6, <1>7, <1>8, <1>9

\* The exit code that is recorded is that of the position's process.
LEMMA CompleteOutcomes ==
  ASSUME ScheduleInv, Outcomes, Complete
  PROVE  Outcomes'
<1> USE DEF ScheduleInv, Outcomes
<1> DEFINE n == coordinator.position
<1>1. UNCHANGED episodeVars
  BY DEF Complete
<1>2. RunsInv' /\ OneEach' /\ Left'
  BY <1>1 DEF episodeVars, RunsInv, Untouched, Threads, Runs, Entered, Alone, At, Here, OneEach, Left
<1>3. In("completing") /\ n \in Position
  BY DEF Complete, In, Charge, Busy, Running
<1>4. ~In("completing")'
  BY DEF Complete, In, Down, ScheduleTypeOK, CoordinatorState
<1>5. Reported'
  <2> SUFFICES ASSUME NEW m \in Position, progress'[m] = "process_finished", code'[m] = "zero"
               PROVE  \E p \in Process : At(p, "exited") /\ process[p].exit = "zero"
                                         /\ process[p].position = m
    BY <1>1 DEF Reported, episodeVars, At
  <2>1. CASE m # n
    <3>1. progress[m] = "process_finished" /\ code[m] = "zero"
      BY <1>3, <2>1 DEF Complete, ScheduleTypeOK
    <3> QED BY <3>1 DEF Reported
  <2>2. CASE m = n
    <3>1. coordinator.ending = "process_finished"
      BY <1>3, <2>2 DEF Complete, ScheduleTypeOK
    <3>2. /\ coordinator.child \in Process /\ At(coordinator.child, "exited")
          /\ process[coordinator.child].position = n
      BY <1>3, <3>1 DEF Collected
    <3>3. coordinator.child # 0
      BY <3>2 DEF Process
    <3>4. process[coordinator.child].exit = "zero"
      BY <1>3, <2>2, <3>3 DEF Complete, ScheduleTypeOK
    <3> QED BY <2>2, <3>2, <3>4
  <2> QED BY <2>1, <2>2
<1> QED BY <1>2, <1>4, <1>5 DEF Collected

LEMMA OutcomesNext ==
  ASSUME ScheduleInv, Outcomes, [ScheduleNext]_scheduleVars
  PROVE  Outcomes'
<1>1. CASE UNCHANGED scheduleVars
  BY <1>1, OutcomesSame DEF scheduleVars, episodeVars, Outcomes, Collected, In, At
<1>2. CASE EpisodeMoves
  <2>1. PICK p \in Process : EpisodeStep(p) \/ ThreadStep(p) \/ Die(p)
    BY <1>2 DEF EpisodeMoves
  <2> QED BY <1>2, <2>1, MoveOutcomes DEF EpisodeMoves
<1>3. CASE ScheduleNext /\ ~EpisodeMoves
  BY <1>3, CoordinatorOutcomes, LaunchOutcomes, TerminateOutcomes, MarkOutcomes, CompleteOutcomes
     DEF ScheduleNext, CoordinatorStep, TimedStep
<1> QED BY <1>1, <1>2, <1>3

\* ScheduleProgress.complete and summarize_schedule: a position recorded as
\* finished with exit code zero is a run that the eligibility check accepts
\* and the results count, through any number of killed coordinators and with
\* any number of heartbeats, unless stop() gave up on the heartbeat thread.
THEOREM RecordedSuccesses == ScheduleSpec => []RecordedSuccessCounts
<1>1. ScheduleInv /\ Outcomes => RecordedSuccessCounts
  <2> SUFFICES ASSUME ScheduleInv, Outcomes, NEW p \in Process, NEW n, n = process[p].position,
                      process[p].joined, progress[n] = "process_finished", code[n] = "zero"
               PROVE  Scored(files[n])
    BY DEF RecordedSuccessCounts
  <2>1. n \in Position /\ ~At(p, "idle")
    BY DEF ScheduleInv, EpisodeInv, Located, Outcomes, RunsInv, Threads, ThreadOK, At
  <2>2. PICK q \in Process :
          At(q, "exited") /\ process[q].exit = "zero" /\ process[q].position = n
    BY <2>1 DEF Outcomes, Reported
  <2>3. q = p
    BY <2>1, <2>2 DEF Outcomes, OneEach, At
  <2> QED BY <2>2, <2>3 DEF Outcomes, Left, Here
<1>2. ScheduleInv /\ Outcomes /\ [ScheduleNext]_scheduleVars => Outcomes'
  BY OutcomesNext
<1> QED BY <1>1, <1>2, ScheduleSafe, OutcomesInit, PTL DEF ScheduleSpec

=============================================================================
