---------------------------- MODULE SolverSession ---------------------------
(***************************************************************************)
(* envsolve/solver/session.py and loop.py: SolverStateSession writes the   *)
(* state log one event at a time, each followed by a refresh of the        *)
(* snapshot file; StatefulSolverLoop.run drives it with a policy and an    *)
(* executor.  Identifiers are chosen, events appended, states reconstructed*)
(* and snapshots replaced in separate steps, so that several sessions, and *)
(* the state_log.py command line, interleave with them on the same files.  *)
(***************************************************************************)
EXTENDS StateLog

CONSTANTS
  Session,      \* processes that open a session on the log and run the loop
  GoalId,       \* StatefulSolverLoop.goal_id
  Preconditions,\* the precondition sets a policy may attach to an action
  RequestedIds, \* the action identifiers a policy may ask for; NoId: none
  NoSnapshot,   \* the snapshot file does not exist
  MaxActions,   \* StatefulSolverLoop.max_actions
  MaxRuns       \* bound on the runs each process starts (reopening after the first)

ASSUME SessionAssumption ==
  /\ IsFiniteSet(Session)
  /\ GoalId \in Goal
  /\ Preconditions \subseteq SUBSET Object
  /\ RequestedIds \subseteq Action \cup {NoId}
  /\ NoSnapshot \notin State
  /\ MaxActions \in Nat \ {0}
  /\ MaxRuns \in Nat

VARIABLES
  snapshot,  \* the snapshot file
  session,   \* each process: see SessionState
  lost       \* auxiliary: how many runs died or raised

sessionVars == <<lines, reduced, snapshot, session, lost>>

Control == {"closed", "entering", "deciding", "executing", "naming", "appending",
            "reducing", "replacing", "finishing", "returned", "raised"}

\* pc: the next step; then: the step after the pending events; todo: the events
\* the current call still appends; view: the state reconstructed for the
\* snapshot; executed: the loop's counter; action: the action being driven;
\* mine: the actions this run proposed; runs: runs started so far.
SessionState ==
  [pc : Control, then : Control, todo : Seq(Payload), view : State, executed : Nat,
   action : Action \cup {NoId}, mine : SUBSET Action, runs : Nat]

Closed(runs) ==
  [pc |-> "closed", then |-> "closed", todo |-> <<>>, view |-> InitialState,
   executed |-> 0, action |-> NoId, mine |-> {}, runs |-> runs]

SessionInit ==
  /\ LogInit
  /\ snapshot = NoSnapshot
  /\ session = [s \in Session |-> Closed(0)]
  /\ lost = 0

At(s, pc) == session[s].pc = pc

Write(kind, id, value, refs) ==
  [kind |-> kind, id |-> id, value |-> value, refs |-> refs, wellFormed |-> TRUE]

\* NoId as the target of an event that needs one asks for a generated identifier.
RecordFailure(refs) == Write("failure_recorded", NoId, "recorded", refs)
UpsertGoal(status) == Write("goal_upserted", GoalId, status, {})

\* The session starts a call that appends the events todo and continues at pc.
Call(s, todo, pc) ==
  session' = [session EXCEPT ![s].pc = "naming", ![s].todo = todo, ![s].then = pc]

-----------------------------------------------------------------------------
(* SolverStateSession                                                      *)

\* __init__: the log is read once; run_started is appended when it was empty,
\* and the snapshot is refreshed in both cases.
Open(s) ==
  /\ At(s, "closed")
  /\ session[s].runs < MaxRuns
  /\ session' = [session EXCEPT ![s] =
       [Closed(@.runs + 1) EXCEPT
          !.pc = IF lines = <<>> THEN "appending" ELSE "reducing",
          !.todo = IF lines = <<>> THEN <<Write("run_started", NoId, "recorded", {})>>
                                   ELSE <<>>,
          !.then = "entering"]]
  /\ UNCHANGED <<lines, reduced, snapshot, lost>>

\* _next_id: the first identifier the reconstructed state does not know.
NextId(dimension) == CHOOSE id \in dimension : id \notin Known(reduced, dimension)

\* The reconstruct() and _next_id that precede an append.  propose_action
\* returns the identifier: the events after it are about that action.
Name(s) ==
  LET payload == Head(session[s].todo)
      dimension == Dimension(payload.kind)
      id == IF payload.id = NoId /\ dimension # {NoId} THEN NextId(dimension)
                                                     ELSE payload.id
      named == [session[s] EXCEPT !.pc = "appending", !.todo[1].id = id]
  IN
  /\ At(s, "naming")
  /\ payload.id \in dimension \/ dimension \ Known(reduced, dimension) # {}
  /\ session' = [session EXCEPT ![s] =
       IF payload.kind = "action_proposed"
         THEN [named EXCEPT !.action = id,
                            !.todo = Append(@, Write("action_started", id, "running", {}))]
         ELSE named]
  /\ UNCHANGED <<lines, reduced, snapshot, lost>>

\* EventStore.append: a refused event is a ValueError that nothing catches.
AppendFirst(s) ==
  LET payload == Head(session[s].todo) IN
  /\ At(s, "appending")
  /\ IF Accepts(reduced, payload)
       THEN /\ AppendPayload(payload)
            /\ session' = [session EXCEPT
                 ![s].pc = "reducing",
                 ![s].todo = Tail(@),
                 ![s].mine = IF payload.kind = "action_proposed"
                               THEN @ \cup {payload.id} ELSE @]
            /\ UNCHANGED lost
       ELSE /\ session' = [session EXCEPT ![s].pc = "raised"]
            /\ lost' = lost + 1
            /\ UNCHANGED logVars
  /\ UNCHANGED snapshot

\* refresh_snapshot, first half: reconstruct().
Reduce(s) ==
  /\ At(s, "reducing")
  /\ session' = [session EXCEPT ![s].pc = "replacing", ![s].view = reduced]
  /\ UNCHANGED <<lines, reduced, snapshot, lost>>

\* refresh_snapshot, second half: os.replace of the snapshot file; then the
\* call's next event, or its caller.
Replace(s) ==
  /\ At(s, "replacing")
  /\ snapshot' = session[s].view
  /\ session' = [session EXCEPT
       ![s].pc = IF session[s].todo = <<>> THEN session[s].then ELSE "naming",
       ![s].view = InitialState]
  /\ UNCHANGED <<lines, reduced, lost>>

-----------------------------------------------------------------------------
(* StatefulSolverLoop.run                                                  *)

\* The goal is opened unless an earlier run left one.
Enter(s) ==
  /\ At(s, "entering")
  /\ IF GoalId \in Known(reduced, Goal)
       THEN session' = [session EXCEPT ![s].pc = "deciding"]
       ELSE Call(s, <<UpsertGoal("in_progress")>>, "deciding")
  /\ UNCHANGED <<lines, reduced, snapshot, lost>>

\* The policy stops, raises, or the action budget is spent: _finish.
Finish(s) ==
  /\ At(s, "deciding")
  /\ \/ /\ session[s].executed < MaxActions
        /\ \E status \in {"satisfied", "blocked"} :
             Call(s, <<UpsertGoal(status)>>, "finishing")
     \/ Call(s, <<RecordFailure({}), UpsertGoal("blocked")>>, "finishing")
  /\ UNCHANGED <<lines, reduced, snapshot, lost>>

\* _finish refreshes the snapshot once more for the result's snapshot_hash.
Report(s) ==
  /\ At(s, "finishing")
  /\ session' = [session EXCEPT ![s].pc = "reducing", ![s].then = "returned"]
  /\ UNCHANGED <<lines, reduced, snapshot, lost>>

\* The policy returns neither decision, or a stop with another goal status:
\* TypeError or ValueError out of run().
RejectDecision(s) ==
  /\ At(s, "deciding")
  /\ session[s].executed < MaxActions
  /\ session' = [session EXCEPT ![s].pc = "raised"]
  /\ lost' = lost + 1
  /\ UNCHANGED <<lines, reduced, snapshot>>

\* Mutant: execute_action is called again before the action was executed.
ActTwice(s) ==
  /\ At(s, "deciding")
  /\ session[s].executed < MaxActions
  /\ \E refs \in Preconditions, id \in RequestedIds :
       Call(s, <<Write("action_proposed", id, "proposed", refs)>>, "deciding")
  /\ UNCHANGED <<lines, reduced, snapshot, lost>>

\* The policy returns an ActionSpec: execute_action proposes and starts it.
Act(s) ==
  /\ At(s, "deciding")
  /\ session[s].executed < MaxActions
  /\ \E refs \in Preconditions, id \in RequestedIds :
       Call(s, <<Write("action_proposed", id, "proposed", refs)>>, "executing")
  /\ UNCHANGED <<lines, reduced, snapshot, lost>>

\* Mutants: an executor exception leaves the action running; the loop does not
\* count the action; the result is not recorded as evidence.
ExecuteUnfinished(s) ==
  LET a == session[s].action IN
  /\ At(s, "executing")
  /\ \E result \in {"succeeded", "failed"} :
       session' = [session EXCEPT
         ![s].pc = "naming",
         ![s].then = "deciding",
         ![s].executed = @ + 1,
         ![s].todo =
           IF result = "failed" THEN <<RecordFailure({a})>>
           ELSE <<Write("action_finished", a, result, {}),
                  Write("evidence_recorded", NoId, "recorded", {a})>>]
  /\ UNCHANGED <<lines, reduced, snapshot, lost>>

ExecuteUncounted(s) ==
  LET a == session[s].action IN
  /\ At(s, "executing")
  /\ \E result \in {"succeeded", "failed"} :
       session' = [session EXCEPT ![s].pc = "deciding"]
  /\ UNCHANGED <<lines, reduced, snapshot, lost>>

ExecuteUncited(s) ==
  LET a == session[s].action IN
  /\ At(s, "executing")
  /\ \E result \in {"succeeded", "failed"} :
       session' = [session EXCEPT
         ![s].pc = "naming",
         ![s].then = "deciding",
         ![s].executed = @ + 1,
         ![s].todo = <<Write("action_finished", a, result, {})>>]
  /\ UNCHANGED <<lines, reduced, snapshot, lost>>

\* The executor answers, fails or raises; the result is recorded as the end of
\* the action, as evidence and, unless it succeeded, as a failure.
Execute(s) ==
  LET a == session[s].action IN
  /\ At(s, "executing")
  /\ \E result \in {"succeeded", "failed"} :
       session' = [session EXCEPT
         ![s].pc = "naming",
         ![s].then = "deciding",
         ![s].executed = @ + 1,
         ![s].todo =
           <<Write("action_finished", a, result, {}),
             Write("evidence_recorded", NoId, "recorded", {a})>>
           \o IF result = "failed" THEN <<RecordFailure({a})>> ELSE <<>>]
  /\ UNCHANGED <<lines, reduced, snapshot, lost>>

\* The process dies between two steps; Open may run it again.
Crash(s) ==
  /\ session[s].pc \notin {"closed", "returned", "raised"}
  /\ session' = [session EXCEPT ![s] = Closed(@.runs)]
  /\ lost' = lost + 1
  /\ UNCHANGED <<lines, reduced, snapshot>>

\* The caller of a run that ended starts another one on the same log.
Reopen(s) ==
  /\ session[s].pc \in {"returned", "raised"}
  /\ session[s].runs < MaxRuns
  /\ session' = [session EXCEPT ![s] = Closed(@.runs)]
  /\ UNCHANGED <<lines, reduced, snapshot, lost>>

\* experiments/state_log.py init and append: no snapshot is written.
CommandLine ==
  /\ LogNext
  /\ UNCHANGED <<snapshot, session, lost>>

Step(s) == \/ Open(s) \/ Name(s) \/ AppendFirst(s) \/ Reduce(s) \/ Replace(s)
           \/ Enter(s) \/ Finish(s) \/ Report(s) \/ RejectDecision(s) \/ Act(s) \/ Execute(s)

SessionNext == CommandLine \/ \E s \in Session : Step(s) \/ Crash(s) \/ Reopen(s)

SessionSpec == SessionInit /\ [][SessionNext]_sessionVars

\* One process runs alone; its policy and executor answer.
FairSessionSpec == SessionSpec /\ \A s \in Session : WF_sessionVars(Step(s))

-----------------------------------------------------------------------------
SessionTypeOK ==
  /\ LogTypeOK
  /\ snapshot \in State \cup {NoSnapshot}
  /\ session \in [Session -> SessionState]
  /\ lost \in Nat

Live(s) == session[s].pc \notin {"closed", "returned", "raised"}

\* A run that returned and is alone on its log leaves artifacts that
\* audit_state_artifacts accepts: its snapshot is the reconstruction of the
\* log, also when an earlier run died and left a stale one, and no action is
\* still proposed or running unless a lost run left it so.
ReturnedRunAudits ==
  \A s \in Session : session[s].pc = "returned" =>
    /\ snapshot = reduced
    /\ lost = 0 => Terminal(reduced)

Mentions(kind, a) ==
  \E i \in 1 .. Len(lines) : lines[i].payload.kind = kind /\ a \in lines[i].payload.refs

\* Every action a returned run proposed is terminal, has its result recorded
\* as evidence, and has a failure record when it did not succeed, whatever the
\* other sessions and runs on the log did in between.
ResultsAreCitable ==
  \A s \in Session : session[s].pc = "returned" =>
    \A a \in session[s].mine :
      /\ reduced.objects[a].value \in {"succeeded", "failed", "rolled_back"}
      /\ Mentions("evidence_recorded", a)
      /\ \/ Mentions("failure_recorded", a)
         \/ \E i \in 1 .. Len(lines) :
              lines[i].payload.id = a /\ lines[i].payload.value = "succeeded"

\* Two sessions that generate the same identifier do not end up driving the
\* same action: the reducer lets only one of them propose it.
OneDriverPerAction ==
  \A s, t \in Session :
    /\ s # t => session[s].mine \cap session[t].mine = {}
    /\ session[s].pc = "executing" => session[s].action \in session[s].mine

\* The only actions nobody will ever finish are those a lost run was driving:
\* one per run at most.
OpenActionsAreLostRuns ==
  LET open == {a \in Known(reduced, Action) :
                 reduced.objects[a].value \in {"proposed", "running"}}
  IN Cardinality(open) <= lost + Cardinality({s \in Session : Live(s)})

\* A run that was started ends: it returns, raises or dies.
RunsEnd == \A s \in Session : Live(s) ~> ~Live(s)

=============================================================================
