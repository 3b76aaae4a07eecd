------------------------------ MODULE AgentLoop -----------------------------
(***************************************************************************)
(* runners/openrouter_agent.py: one model session works on one repository. *)
(* Each request asks the provider, with retries, and its response calls    *)
(* tools in order: shell commands, replays of a program (CleanReplay), and *)
(* the submission that ends the session.  The replay mode of the episode   *)
(* says which tools there are and what a passing replay does.  run() then  *)
(* checks the certificate and its record again before it writes the script.*)
(***************************************************************************)
EXTENDS CleanReplay

CONSTANTS
  Modes,        \* replay modes of the episodes
  MaxRequests,  \* max_iterations
  MaxCalls,     \* bound on the tool calls of a response
  MaxAttempts   \* model_max_retries + 1

\* "soft" stands for current, ledger, scheduled, stateful, hypothesis and
\* operation-frontier, "terminal" for soft-validity-terminal and
\* operation-frontier-live, "editable" for both editable incremental modes and
\* "incremental" for the two others: they differ in what the model reads.  So
\* does the handoff of "handoff" and "atomic-handoff": while it is pending it
\* only sets the tool choice of the request, which the model may not follow.
Mode == {"none", "soft", "terminal", "incumbent", "handoff", "atomic", "atomic-handoff",
         "incremental", "editable"}

ASSUME AgentAssumption ==
  /\ Modes \subseteq Mode /\ MaxRequests \in Nat \ {0} /\ MaxCalls \in Nat
  /\ MaxAttempts \in Nat \ {0}

VARIABLES
  mode,        \* replay_mode
  agent,       \* the session, see AgentState
  incumbent,   \* the certified incumbent
  current,     \* the incremental program, NoProgram without steps
  submission,  \* what the loop returned
  result       \* of run(): "delivered", "failed" or "none" yet

agentVars == <<mode, agent, incumbent, current, submission, result, serviceVars>>
sessionVars == <<mode, incumbent, current, submission, result>>

\* calls: tool calls left of the response; caller: the tool that waits for a
\* replay.
Tool == {"replay", "submit", "program"}
AgentState ==
  [pc : {"starting", "requesting", "asking", "calling", "returning", "finishing", "done", "dead"},
   request : 0 .. MaxRequests, attempt : 0 .. MaxAttempts, calls : 0 .. MaxCalls,
   caller : Tool \cup {"none"}]

Replays == mode # "none"
Atomic == mode \in {"atomic", "atomic-handoff"}
Incremental == mode \in {"incremental", "editable"}

AgentInit ==
  /\ ReplayInit
  /\ mode \in Modes
  /\ agent = [pc |-> "starting", request |-> 0, attempt |-> 0, calls |-> 0,
              caller |-> "none"]
  /\ incumbent = NoProgram /\ current = NoProgram
  /\ submission = NoProgram /\ result = "none"

Doing(place) == agent.pc = place
Become(place) == agent' = [agent EXCEPT !.pc = place]

\* The containers and services are set up, and a first observation is made.
BeginSession ==
  /\ Doing("starting")
  /\ Become("requesting")
  /\ UNCHANGED <<sessionVars, serviceVars>>

\* fallback_submission: the incumbent, if there is one, is returned instead of
\* the exception.
GiveUp ==
  /\ submission' = incumbent
  /\ agent' = [agent EXCEPT !.pc = IF incumbent = NoProgram THEN "finishing" ELSE "returning"]
  /\ result' = IF incumbent = NoProgram THEN "failed" ELSE result

\* The request cap is reached, or the wall clock passed its cap.
Stop ==
  /\ Doing("requesting")
  /\ GiveUp
  /\ UNCHANGED <<mode, incumbent, current, serviceVars>>

\* Mutant: only a response with tool calls counts as an iteration.
RequestUncounted ==
  /\ Doing("requesting") /\ agent.request < MaxRequests
  /\ agent' = [agent EXCEPT !.pc = "asking", !.attempt = 1]
  /\ UNCHANGED <<sessionVars, serviceVars>>

Request ==
  /\ Doing("requesting") /\ agent.request < MaxRequests
  /\ agent' = [agent EXCEPT !.pc = "asking", !.request = @ + 1, !.attempt = 1]
  /\ UNCHANGED <<sessionVars, serviceVars>>

\* _provider_request: a retryable error is tried again while attempts are left;
Retry ==
  /\ Doing("asking") /\ agent.attempt < MaxAttempts
  /\ agent' = [agent EXCEPT !.attempt = @ + 1]
  /\ UNCHANGED <<sessionVars, serviceVars>>

\* any other, and the last, ends the session.
AskFails ==
  /\ Doing("asking")
  /\ GiveUp
  /\ UNCHANGED <<mode, incumbent, current, serviceVars>>

\* The response has some tool calls, or none.
Respond ==
  /\ Doing("asking")
  /\ \E calls \in 0 .. MaxCalls :
       agent' = [agent EXCEPT !.pc = IF calls = 0 THEN "requesting" ELSE "calling",
                              !.calls = calls, !.attempt = 0]
  /\ UNCHANGED <<sessionVars, serviceVars>>

-----------------------------------------------------------------------------
(* Tool calls                                                              *)

Ready == Doing("calling") /\ Serving("idle")

\* The call is answered, and the next one or the next request follows.
Answered(caller) ==
  [agent EXCEPT !.pc = IF agent.calls = 1 THEN "requesting" ELSE "calling",
                !.calls = @ - 1, !.caller = caller]

\* A shell command, with its observation; invalid arguments, an unknown tool, or
\* one that only reads.
OtherCall ==
  /\ Ready
  /\ agent' = Answered("none")
  /\ UNCHANGED <<sessionVars, serviceVars>>

\* The call waits for a replay of the program.
Replaying(p, caller) ==
  /\ Submit(p)
  /\ agent' = [agent EXCEPT !.caller = caller]

\* record_incremental_step: a successful command becomes a step of the
\* program, which is replayed when the goal passes in the shell's environment.
RecordStep ==
  /\ Ready /\ Incremental
  /\ \E p \in Program :
       /\ current' = p
       /\ \/ Replaying(p, "program")
          \/ agent' = Answered("none") /\ UNCHANGED serviceVars
  /\ UNCHANGED <<mode, incumbent, submission, result>>

\* revise_program: edits make another program, which is replayed; without a step
\* left it is empty, and the replay refuses it.
Revise ==
  /\ Ready /\ mode = "editable" /\ current # NoProgram
  /\ \E p \in Program :
       /\ Replaying(p, "program")
       /\ current' \in IF p \in Admissible THEN {p} ELSE {p, NoProgram}
  /\ UNCHANGED <<mode, incumbent, submission, result>>

ReplayCurrent ==
  /\ Ready /\ Incremental /\ current # NoProgram
  /\ Replaying(current, "program")
  /\ UNCHANGED sessionVars

ReplayProgram ==
  /\ Ready /\ Replays
  /\ \E p \in Program : Replaying(p, "replay")
  /\ UNCHANGED sessionVars

\* _submit accepts an admissible program, in a replay mode a certified one.
Submittable(p) ==
  p \in Admissible /\ (Replays => \E c \in ToSet(certified) : c.program = p)

SubmitBootstrap ==
  /\ Ready /\ ~Atomic
  /\ \E p \in {q \in Program : Submittable(q)} :
       /\ submission' = p
       /\ Become("returning")
  /\ UNCHANGED <<mode, incumbent, current, result, serviceVars>>

\* _atomic_submit replays an admissible program first.
SubmitAtomically ==
  /\ Ready /\ Atomic
  /\ \E p \in Admissible : Replaying(p, "submit")
  /\ UNCHANGED sessionVars

\* A passing replay that ends the session, by the tool and the mode.
Returns ==
  \/ agent.caller \in {"submit", "program"}
  \/ mode \in {"terminal", "handoff", "atomic-handoff"}

\* Mutant: the incumbent is the first program that passed.
IncumbentFirst ==
  IF mode = "incumbent" /\ service.status = "pass" /\ incumbent = NoProgram
    THEN service.program ELSE incumbent

\* The incumbent after the replay: the latest program that passed.
Incumbent ==
  IF mode = "incumbent" /\ service.status = "pass" THEN service.program ELSE incumbent

\* submit() returned to the tool.
TakeAnswer ==
  /\ Doing("calling") /\ Serving("answered")
  /\ incumbent' = Incumbent
  /\ IF service.status = "pass" /\ Returns /\ Submittable(service.program)
       THEN submission' = service.program /\ Become("returning")
       ELSE agent' = Answered("none") /\ UNCHANGED submission
  /\ service' = [service EXCEPT !.pc = "idle", !.program = NoProgram, !.environment = 0,
                                !.found = "none", !.status = "none"]
  /\ UNCHANGED <<mode, current, result, certified, programs, trace, certification, lease, hosted>>

\* It raised, or the setup, an observation or the trajectory file did: run()
\* fails, with or without an incumbent.
Raise ==
  /\ Doing("starting") \/ (Doing("calling") /\ (Serving("raised") \/ Serving("idle")))
  /\ Become("finishing")
  /\ result' = "failed"
  /\ UNCHANGED <<mode, incumbent, current, submission, serviceVars>>

-----------------------------------------------------------------------------
(* run()                                                                   *)

Passing(p) == {i \in 1 .. Len(trace) : trace[i].program = p /\ trace[i].status = "pass"}

\* i is the last of the passing records of the program.
LastPassing(p, i) == i \in Passing(p) /\ \A j \in Passing(p) : j <= i

\* _certified_repository_integrity: a certificate, a passing record, and the
\* audit of the last one.
Integrity(p) ==
  /\ \E c \in ToSet(certified) : c.program = p
  /\ \E i \in 1 .. Len(trace) : LastPassing(p, i) /\ trace[i].audit = "whole"

\* Without a replay service it is the audit of the construction workspace.  That
\* audit, the metadata and the write of the script may raise in every mode.
Finish ==
  /\ Doing("returning")
  /\ result' \in IF Replays => Integrity(submission) THEN {"delivered", "failed"}
                                                     ELSE {"failed"}
  /\ Become("finishing")
  /\ UNCHANGED <<mode, incumbent, current, submission, serviceVars>>

\* The finally clause closes the shell, gives the workspace back to the user and
\* removes the containers: docker calls without a deadline.
Close ==
  /\ Doing("finishing")
  /\ Become("done")
  /\ UNCHANGED <<sessionVars, serviceVars>>

\* The episode process is gone, with its leases.
Die ==
  /\ ~Doing("done") /\ ~Doing("dead")
  /\ Become("dead")
  /\ lease' = [e \in Environment |-> IF lease[e] = "leased" THEN "orphaned" ELSE lease[e]]
  /\ UNCHANGED <<sessionVars, service, certified, programs, trace, certification, hosted>>

Serve == Doing("calling") /\ ServiceStep /\ UNCHANGED <<agent, sessionVars>>

\* What the session does but its teardown.
SessionStep ==
  \/ BeginSession \/ Stop \/ Request \/ Retry \/ AskFails \/ Respond
  \/ OtherCall \/ RecordStep \/ Revise \/ ReplayCurrent \/ ReplayProgram
  \/ SubmitBootstrap \/ SubmitAtomically \/ Serve \/ TakeAnswer \/ Raise
  \/ Finish

AgentStep == SessionStep \/ Close

AgentNext == AgentStep \/ Die

AgentSpec == AgentInit /\ [][AgentNext]_agentVars

\* The session is one thread.  Its model requests, the output of a command, and
\* the git and docker calls of a replay have deadlines.  Assumed to return
\* without one: git in the construction workspace, the removal of a container
\* that did not start, and the write of a command to the shell.  Nothing is
\* assumed of Close.
FairAgentSpec == AgentSpec /\ WF_agentVars(SessionStep)

-----------------------------------------------------------------------------
AgentTypeOK ==
  /\ ServiceTypeOK /\ mode \in Mode /\ agent \in AgentState
  /\ {incumbent, current, submission} \subseteq Program \cup {NoProgram}
  /\ result \in {"none", "delivered", "failed"}

\* The incumbent is the program of the latest passing replay: what a session
\* cut short by the provider or a cap hands to run() is its newest certified
\* program.  (run() still refuses it when the record of its audit was cut.)
IncumbentIsLatest ==
  mode = "incumbent" /\ Serving("idle") =>
    incumbent = IF certified = <<>> THEN NoProgram ELSE Last(certified).program

\* A session that ended by itself holds no replay environment any more; one
\* whose release raised counts as given up.
EnvironmentsSettled == Doing("done") => \A e \in Environment : lease[e] # "leased"

\* Whatever the model calls and the provider answers, the session comes to its
\* teardown: retries, responses without a call and refused calls use it up.
AgentEnds == Doing("starting") ~> (Doing("finishing") \/ Doing("dead"))

\* In a replay mode a program is delivered once, after it ran alone in an
\* environment that was released: the promise of the deployment loop.
Delivered ==
  IF Replays /\ result = "delivered"
    THEN LET i == CHOOSE i \in 1 .. Len(trace) : LastPassing(submission, i)
         IN  <<trace[i].replay, trace[i].environment>>
    ELSE <<0, 0>>
Abstract == INSTANCE CertifiedDelivery WITH
  Action <- Replay, Undelivered <- <<0, 0>>, capacity <- 1, delivered <- Delivered
DeliversAsPromised == Abstract!Spec

=============================================================================
