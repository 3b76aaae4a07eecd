---------------------------- MODULE SessionProofs ---------------------------
(***************************************************************************)
(* What holds of the sessions on one state log, for every set of sessions, *)
(* identifiers, preconditions, command-line requests and bounds: several   *)
(* sessions, and the command line, append between any two steps of a run.  *)
(***************************************************************************)
EXTENDS SolverSession, StateLogProofs, SequenceTheorems

-----------------------------------------------------------------------------
(* Steps                                                                   *)

LEMMA WriteType ==
  ASSUME NEW kind \in EventType, NEW id \in Object \cup {NoId}, NEW value \in Status,
         NEW refs \in SUBSET Object
  PROVE  Write(kind, id, value, refs) \in Payload
BY DEF Write, Payload

LEMMA GoalType ==
  ASSUME NEW status \in {"in_progress", "satisfied", "blocked"}
  PROVE  UpsertGoal(status) \in Payload
<1>1. GoalId \in Object /\ status \in Status /\ "goal_upserted" \in EventType
  BY SessionAssumption DEF Object, Status, EventType, UpsertKind
<1> QED BY <1>1, WriteType DEF UpsertGoal

LEMMA FailureType ==
  ASSUME NEW refs \in SUBSET Action
  PROVE  RecordFailure(refs) \in Payload
<1>1. refs \in SUBSET Object /\ "recorded" \in Status /\ "failure_recorded" \in EventType
  BY DEF Object, Status, EventType, UniqueKind
<1> QED BY <1>1, WriteType DEF RecordFailure

\* Every dimension but the missing one is a set of identifiers.
LEMMA DimensionType ==
  ASSUME NEW kind, Dimension(kind) # {NoId}
  PROVE  Dimension(kind) \subseteq Object
BY DEF Dimension, Object

\* The loop's steps leave the session's record but for where it goes on.
LEMMA CallMoves ==
  ASSUME SessionTypeOK, NEW s \in Session, Enter(s) \/ Finish(s) \/ Act(s)
  PROVE  /\ session'[s].mine = session[s].mine
         /\ session'[s].pc \in {"deciding", "naming"}
<1>1. session[s] \in SessionState
  BY DEF SessionTypeOK
<1>2. \/ session' = [session EXCEPT ![s].pc = "deciding"]
      \/ \E todo, pc : Call(s, todo, pc)
  BY Zenon DEF Enter, Finish, Act
<1>3. ASSUME session' = [session EXCEPT ![s].pc = "deciding"]
      PROVE  session'[s].mine = session[s].mine /\ session'[s].pc = "deciding"
  BY <1>1, <1>3 DEF SessionTypeOK, SessionState
<1>4. ASSUME NEW todo, NEW pc, Call(s, todo, pc)
      PROVE  session'[s].mine = session[s].mine /\ session'[s].pc = "naming"
  <2>1. session'[s] = [session[s] EXCEPT !.pc = "naming", !.todo = todo, !.then = pc]
    BY <1>4 DEF Call, SessionTypeOK
  <2> QED BY <1>1, <2>1 DEF SessionState
<1> QED BY <1>2, <1>3, <1>4

LEMMA RestMoves ==
  ASSUME SessionTypeOK, NEW s \in Session,
         Reduce(s) \/ Replace(s) \/ Report(s) \/ RejectDecision(s)
  PROVE  session'[s].mine = session[s].mine
<1>1. session[s] \in SessionState
  BY DEF SessionTypeOK
<1>2. CASE Reduce(s)
  BY <1>1, <1>2 DEF Reduce, SessionTypeOK, SessionState
<1>3. CASE Replace(s)
  BY <1>1, <1>3 DEF Replace, SessionTypeOK, SessionState
<1>4. CASE Report(s)
  BY <1>1, <1>4 DEF Report, SessionTypeOK, SessionState
<1>5. CASE RejectDecision(s)
  BY <1>1, <1>5 DEF RejectDecision, SessionTypeOK, SessionState
<1> QED BY <1>2, <1>3, <1>4, <1>5

\* A session moves alone.
LEMMA OnlySelfMoves ==
  ASSUME SessionTypeOK, NEW s \in Session, Step(s) \/ Crash(s) \/ Reopen(s)
  PROVE  \A t \in Session : t # s => session'[t] = session[t]
<1> USE DEF SessionTypeOK
<1>1. CASE Open(s) BY <1>1 DEF Open
<1>2. CASE Name(s) BY <1>2 DEF Name
<1>3. CASE AppendFirst(s) BY <1>3 DEF AppendFirst
<1>4. CASE Reduce(s) BY <1>4 DEF Reduce
<1>5. CASE Replace(s) BY <1>5 DEF Replace
<1>6. CASE Enter(s) BY <1>6 DEF Enter, Call
<1>7. CASE Finish(s) BY <1>7 DEF Finish, Call
<1>8. CASE Report(s) BY <1>8 DEF Report
<1>9. CASE RejectDecision(s) BY <1>9 DEF RejectDecision
<1>10. CASE Act(s) BY <1>10 DEF Act, Call
<1>11. CASE Execute(s) BY <1>11 DEF Execute
<1>12. CASE Crash(s) BY <1>12 DEF Crash
<1>13. CASE Reopen(s) BY <1>13 DEF Reopen
<1> QED
  BY <1>1, <1>2, <1>3, <1>4, <1>5, <1>6, <1>7, <1>8, <1>9, <1>10, <1>11, <1>12, <1>13
     DEF Step

-----------------------------------------------------------------------------
(* Calls                                                                   *)

\* The session is somewhere between the events of a call.
Pending(s) == session[s].pc \in {"naming", "appending", "reducing", "replacing"}

\* The action the session proposed is started or about to be executed.
Driving(s) ==
  \/ session[s].pc = "executing"
  \/ /\ Pending(s)
     /\ session[s].then = "executing"
     /\ \A i \in 1 .. Len(session[s].todo) : session[s].todo[i].kind # "action_proposed"

\* A call proposes an action first and then names it in what it still appends.
Scheduled(s, i) ==
  LET self == session[s]
      payload == self.todo[i]
  IN
  /\ payload.kind = "action_proposed" =>
       /\ i = 1 /\ self.then = "executing" /\ self.pc \in {"naming", "appending"}
       /\ self.pc = "naming" => Len(self.todo) = 1 /\ payload.id \in Action \cup {NoId}
       /\ self.pc = "appending" => payload.id = self.action
  /\ payload.kind \in TransitionKind => payload.id = self.action /\ payload.id \in Action

\* Between the events of a call the session goes on with the call, and after
\* them with the loop; the action it drives is one this run proposed.
Scripted(s) ==
  LET self == session[s] IN
  /\ self.pc \notin {"naming", "appending", "reducing", "replacing", "raised"} => self.todo = <<>>
  /\ self.pc \in {"naming", "appending"} => self.todo # <<>>
  /\ self.pc = "closed" => self.mine = {}
  /\ Pending(s) =>
       /\ self.then \in {"entering", "deciding", "executing", "finishing", "returned"}
       /\ \A i \in 1 .. Len(self.todo) : Scheduled(s, i)
  /\ Driving(s) => self.action \in self.mine

SessionInv ==
  /\ SessionTypeOK
  /\ LogInv
  /\ RecordsInv
  /\ \A s \in Session : Scripted(s)

\* What a step does to its own session, in terms of that session alone.
Kept(s) == session' \in [Session -> SessionState] /\ Scripted(s)'

\* The record of a session, field by field.
LEMMA SelfType ==
  ASSUME SessionTypeOK, NEW s \in Session
  PROVE  /\ session[s].pc \in Control /\ session[s].then \in Control
         /\ session[s].todo \in Seq(Payload) /\ session[s].view \in State
         /\ session[s].executed \in Nat /\ session[s].action \in Action \cup {NoId}
         /\ session[s].mine \in SUBSET Action /\ session[s].runs \in Nat
BY DEF SessionTypeOK, SessionState

LEMMA ClosedType ==
  ASSUME NEW runs \in Nat
  PROVE  Closed(runs) \in SessionState
BY InitialStateType DEF Closed, SessionState, Control

\* A step that puts a session outside of a call.
LEMMA Resting ==
  ASSUME SessionTypeOK, NEW s \in Session, NEW self \in SessionState,
         session' = [session EXCEPT ![s] = self],
         self.pc \notin {"naming", "appending", "reducing", "replacing", "executing"},
         self.pc # "raised" => self.todo = <<>>,
         self.pc = "closed" => self.mine = {}
  PROVE  Kept(s)
<1>1. session' \in [Session -> SessionState] /\ session'[s] = self
  BY DEF SessionTypeOK
<1> QED BY <1>1 DEF Kept, Scripted, Driving, Pending

\* A step that starts a call, or that ends one without an action.
LEMMA Calling ==
  ASSUME SessionTypeOK, NEW s \in Session, NEW self \in SessionState,
         session' = [session EXCEPT ![s] = self],
         self.pc \in {"naming", "reducing"},
         self.pc = "naming" => self.todo # <<>>,
         self.then \in {"entering", "deciding", "finishing", "returned"},
         \A i \in 1 .. Len(self.todo) :
           /\ self.todo[i].kind # "action_proposed"
           /\ self.todo[i].kind \in TransitionKind =>
                self.todo[i].id = self.action /\ self.todo[i].id \in Action
  PROVE  Kept(s)
<1>1. session' \in [Session -> SessionState] /\ session'[s] = self
  BY DEF SessionTypeOK
<1> QED BY <1>1 DEF Kept, Scripted, Scheduled, Driving, Pending

LEMMA OpenKeeps ==
  ASSUME SessionInv, NEW s \in Session, Open(s)
  PROVE  Kept(s)
<1> DEFINE started == <<Write("run_started", NoId, "recorded", {})>>
           self == [Closed(session[s].runs + 1) EXCEPT
                      !.pc = IF lines = <<>> THEN "appending" ELSE "reducing",
                      !.todo = IF lines = <<>> THEN started ELSE <<>>,
                      !.then = "entering"]
<1>1. started \in Seq(Payload) /\ Len(started) = 1 /\ started[1].kind = "run_started"
  <2>1. Write("run_started", NoId, "recorded", {}) \in Payload
    BY WriteType DEF EventType, Status
  <2> QED BY <2>1 DEF Write
<1>2. Closed(session[s].runs + 1) \in SessionState
  BY ClosedType, SelfType DEF SessionInv
<1>3. session' = [session EXCEPT ![s] = self]
  BY DEF Open
<1> HIDE DEF started
<1>4. /\ self \in SessionState /\ self.then = "entering"
      /\ \/ self.pc = "appending" /\ self.todo = started
         \/ self.pc = "reducing" /\ self.todo = <<>>
  BY <1>1, <1>2 DEF SessionState, Control, Closed
<1> HIDE DEF self
<1>5. session' \in [Session -> SessionState] /\ session'[s] = self
  BY <1>3, <1>4 DEF SessionInv, SessionTypeOK
<1> QED
  BY <1>1, <1>4, <1>5 DEF Kept, Scripted, Scheduled, Driving, Pending, TransitionKind

LEMMA EnterKeeps ==
  ASSUME SessionInv, NEW s \in Session, Enter(s)
  PROVE  Kept(s)
<1>1. SessionTypeOK /\ session[s].todo = <<>> /\ session[s] \in SessionState
  BY DEF Enter, At, SessionInv, Scripted, SessionTypeOK
<1>2. CASE GoalId \in Known(reduced, Goal)
  <2> DEFINE self == [session[s] EXCEPT !.pc = "deciding"]
  <2>1. self \in SessionState /\ self.pc = "deciding" /\ self.todo = <<>>
    BY <1>1 DEF SessionState, Control
  <2>2. session' = [session EXCEPT ![s] = self]
    BY <1>2, <1>1 DEF Enter, SessionTypeOK
  <2> QED BY <1>1, <2>1, <2>2, Resting
<1>3. CASE GoalId \notin Known(reduced, Goal)
  <2> DEFINE todo == <<UpsertGoal("in_progress")>>
             self == [session[s] EXCEPT !.pc = "naming", !.todo = todo, !.then = "deciding"]
  <2>1. /\ todo \in Seq(Payload) /\ Len(todo) = 1 /\ todo # <<>>
        /\ todo[1].kind = "goal_upserted"
    <3>1. UpsertGoal("in_progress") \in Payload
      BY GoalType
    <3> QED BY <3>1 DEF UpsertGoal, Write
  <2>2. session' = [session EXCEPT ![s] = self]
    BY <1>3, <1>1 DEF Enter, Call, SessionTypeOK
  <2> HIDE DEF todo
  <2>3. /\ self \in SessionState
        /\ self.pc = "naming" /\ self.then = "deciding" /\ self.todo = todo
    BY <1>1, <2>1 DEF SessionState, Control
  <2> HIDE DEF self
  <2>4. \A i \in 1 .. Len(self.todo) : self.todo[i].kind = "goal_upserted"
    <3> SUFFICES ASSUME NEW i \in 1 .. Len(todo) PROVE todo[i].kind = "goal_upserted"
      BY <2>3
    <3>1. i = 1
      BY <2>1
    <3> QED BY <2>1, <3>1
  <2> QED BY <1>1, <2>1, <2>2, <2>3, <2>4, Calling DEF TransitionKind
<1> QED BY <1>2, <1>3

LEMMA FinishKeeps ==
  ASSUME SessionInv, NEW s \in Session, Finish(s)
  PROVE  Kept(s)
<1>1. SessionTypeOK /\ session[s] \in SessionState
  BY DEF SessionInv, SessionTypeOK
<1>2. PICK todo :
        /\ \/ \E status \in {"satisfied", "blocked"} : todo = <<UpsertGoal(status)>>
           \/ todo = <<RecordFailure({}), UpsertGoal("blocked")>>
        /\ Call(s, todo, "finishing")
  BY DEF Finish
<1>3. /\ todo \in Seq(Payload) /\ todo # <<>>
      /\ \A i \in 1 .. Len(todo) : todo[i].kind \in {"failure_recorded", "goal_upserted"}
  <2>1. UpsertGoal("satisfied") \in Payload /\ UpsertGoal("blocked") \in Payload
    BY GoalType
  <2>2. RecordFailure({}) \in Payload
    BY FailureType
  <2>3. ASSUME NEW status \in {"satisfied", "blocked"}, todo = <<UpsertGoal(status)>>
        PROVE  /\ todo \in Seq(Payload) /\ todo # <<>>
               /\ \A i \in 1 .. Len(todo) : todo[i].kind = "goal_upserted"
    <3>0. UpsertGoal(status) \in Payload /\ UpsertGoal(status).kind = "goal_upserted"
      <4>1. UpsertGoal(status) \in Payload
        BY GoalType
      <4> QED BY <4>1 DEF UpsertGoal, Write
    <3>1. /\ Len(todo) = 1 /\ todo \in Seq(Payload) /\ todo # <<>>
          /\ todo[1].kind = "goal_upserted"
      BY <2>3, <3>0
    <3>2. \A i \in 1 .. Len(todo) : i = 1
      BY <3>1
    <3> QED BY <3>1, <3>2
  <2>4. ASSUME todo = <<RecordFailure({}), UpsertGoal("blocked")>>
        PROVE  /\ todo \in Seq(Payload) /\ todo # <<>>
               /\ \A i \in 1 .. Len(todo) : todo[i].kind \in {"failure_recorded", "goal_upserted"}
    <3>1. /\ Len(todo) = 2 /\ todo \in Seq(Payload)
          /\ todo[1].kind = "failure_recorded" /\ todo[2].kind = "goal_upserted"
      BY <2>1, <2>2, <2>4 DEF UpsertGoal, RecordFailure, Write
    <3>2. \A i \in 1 .. Len(todo) : i = 1 \/ i = 2
      BY <3>1
    <3> QED BY <3>1, <3>2
  <2> QED BY <1>2, <2>3, <2>4
<1> DEFINE self == [session[s] EXCEPT !.pc = "naming", !.todo = todo, !.then = "finishing"]
<1>4. session' = [session EXCEPT ![s] = self]
  BY <1>1, <1>2 DEF Call, SessionTypeOK
<1>5. /\ self \in SessionState
      /\ self.pc = "naming" /\ self.then = "finishing" /\ self.todo = todo
  BY <1>1, <1>3 DEF SessionState, Control
<1> HIDE DEF self
<1> QED BY <1>1, <1>3, <1>4, <1>5, Calling DEF TransitionKind

LEMMA ReportKeeps ==
  ASSUME SessionInv, NEW s \in Session, Report(s)
  PROVE  Kept(s)
<1>1. SessionTypeOK /\ session[s].todo = <<>> /\ session[s] \in SessionState
  BY DEF Report, At, SessionInv, Scripted, SessionTypeOK
<1> DEFINE self == [session[s] EXCEPT !.pc = "reducing", !.then = "returned"]
<1>2. session' = [session EXCEPT ![s] = self]
  BY <1>1 DEF Report, SessionTypeOK
<1>3. self \in SessionState /\ self.pc = "reducing" /\ self.then = "returned" /\ self.todo = <<>>
  BY <1>1 DEF SessionState, Control
<1> HIDE DEF self
<1>4. 1 .. Len(self.todo) = {}
  BY <1>3
<1> QED BY <1>1, <1>2, <1>3, <1>4, Calling

LEMMA RejectKeeps ==
  ASSUME SessionInv, NEW s \in Session, RejectDecision(s)
  PROVE  Kept(s)
<1>1. SessionTypeOK /\ session[s] \in SessionState
  BY DEF SessionInv, SessionTypeOK
<1> DEFINE self == [session[s] EXCEPT !.pc = "raised"]
<1>2. session' = [session EXCEPT ![s] = self]
  BY <1>1 DEF RejectDecision, SessionTypeOK
<1>3. self \in SessionState /\ self.pc = "raised"
  BY <1>1 DEF SessionState, Control
<1> HIDE DEF self
<1> QED BY <1>1, <1>2, <1>3, Resting

LEMMA CloseKeeps ==
  ASSUME SessionInv, NEW s \in Session, Crash(s) \/ Reopen(s)
  PROVE  Kept(s)
<1> DEFINE self == Closed(session[s].runs)
<1>1. SessionTypeOK /\ session' = [session EXCEPT ![s] = self]
  BY DEF Crash, Reopen, SessionInv
<1>2. self \in SessionState
  BY <1>1, SelfType, ClosedType
<1>3. self.pc = "closed" /\ self.todo = <<>> /\ self.mine = {}
  BY DEF Closed
<1> HIDE DEF self
<1> QED BY <1>1, <1>2, <1>3, Resting

\* execute_action: the action is not driven before it is proposed.
LEMMA ActKeeps ==
  ASSUME SessionInv, NEW s \in Session, Act(s)
  PROVE  Kept(s)
<1>1. SessionTypeOK /\ session[s] \in SessionState
  BY DEF SessionInv, SessionTypeOK
<1>2. PICK refs \in Preconditions, id \in RequestedIds :
        Call(s, <<Write("action_proposed", id, "proposed", refs)>>, "executing")
  BY DEF Act
<1> DEFINE todo == <<Write("action_proposed", id, "proposed", refs)>>
           self == [session[s] EXCEPT !.pc = "naming", !.todo = todo, !.then = "executing"]
<1>3. /\ todo \in Seq(Payload) /\ Len(todo) = 1 /\ todo # <<>>
      /\ todo[1].kind = "action_proposed" /\ todo[1].id \in Action \cup {NoId}
  <2>1. /\ id \in Action \cup {NoId} /\ id \in Object \cup {NoId} /\ refs \in SUBSET Object
        /\ "action_proposed" \in EventType /\ "proposed" \in Status
    BY SessionAssumption DEF Object, EventType, UniqueKind, Status, ActionStatus
  <2>2. Write("action_proposed", id, "proposed", refs) \in Payload
    BY <2>1, WriteType
  <2> QED BY <2>1, <2>2 DEF Write
<1>4. session' = [session EXCEPT ![s] = self]
  BY <1>1, <1>2 DEF Call, SessionTypeOK
<1> HIDE DEF todo
<1>5. /\ self \in SessionState
      /\ self.pc = "naming" /\ self.then = "executing" /\ self.todo = todo
  BY <1>1, <1>3 DEF SessionState, Control
<1> HIDE DEF self
<1>6. session' \in [Session -> SessionState] /\ session'[s] = self
  BY <1>1, <1>4, <1>5 DEF SessionTypeOK
<1> QED
  BY <1>3, <1>5, <1>6 DEF Kept, Scripted, Scheduled, Driving, Pending, TransitionKind

\* What Execute queues: the end of the driven action, its result as evidence,
\* and its failure unless it succeeded.
LEMMA ExecuteQueues ==
  ASSUME SessionInv, NEW s \in Session, Execute(s)
  PROVE  LET a == session[s].action
             self == session'[s]
         IN /\ a \in session[s].mine /\ a \in Action
            /\ self \in SessionState
            /\ session' = [session EXCEPT ![s] = self]
            /\ self.pc = "naming" /\ self.then = "deciding"
            /\ self.action = a /\ self.mine = session[s].mine
            /\ Len(self.todo) \in {2, 3}
            /\ self.todo[1].kind = "action_finished" /\ self.todo[1].id = a
            /\ self.todo[2].kind = "evidence_recorded" /\ self.todo[2].refs = {a}
            /\ Len(self.todo) = 2 => self.todo[1].value = "succeeded"
            /\ Len(self.todo) = 3 => self.todo[3] = RecordFailure({a})
<1>1. SessionTypeOK /\ session[s] \in SessionState
  BY DEF SessionInv, SessionTypeOK
<1> DEFINE a == session[s].action
<1>2. a \in session[s].mine /\ a \in Action
  BY SelfType DEF SessionInv, Scripted, Driving, Execute, At
<1>3. PICK result \in {"succeeded", "failed"} :
        session' = [session EXCEPT
          ![s].pc = "naming",
          ![s].then = "deciding",
          ![s].executed = @ + 1,
          ![s].todo =
            <<Write("action_finished", a, result, {}),
              Write("evidence_recorded", NoId, "recorded", {a})>>
            \o IF result = "failed" THEN <<RecordFailure({a})>> ELSE <<>>]
  BY DEF Execute
<1> DEFINE head == <<Write("action_finished", a, result, {}),
                     Write("evidence_recorded", NoId, "recorded", {a})>>
           tail == IF result = "failed" THEN <<RecordFailure({a})>> ELSE <<>>
           queue == head \o tail
           self == [session[s] EXCEPT !.pc = "naming", !.then = "deciding",
                                      !.executed = @ + 1, !.todo = queue]
<1>4. head \in Seq(Payload) /\ Len(head) = 2
  <2>1. Write("action_finished", a, result, {}) \in Payload
    <3>1. a \in Object /\ result \in Status /\ "action_finished" \in EventType
      BY <1>2 DEF Object, Status, ActionStatus, EventType, TransitionKind
    <3> QED BY <3>1, WriteType
  <2>2. Write("evidence_recorded", NoId, "recorded", {a}) \in Payload
    <3>1. {a} \in SUBSET Object /\ "recorded" \in Status /\ "evidence_recorded" \in EventType
      BY <1>2 DEF Object, Status, EventType, UniqueKind
    <3> QED BY <3>1, WriteType
  <2> QED BY <2>1, <2>2
<1>5. /\ tail \in Seq(Payload)
      /\ result = "failed" => Len(tail) = 1 /\ tail[1] = RecordFailure({a})
      /\ result # "failed" => Len(tail) = 0
  <2>1. RecordFailure({a}) \in Payload
    BY <1>2, FailureType
  <2> QED BY <2>1
<1>6. /\ head[1].kind = "action_finished" /\ head[1].id = a /\ head[1].value = result
      /\ head[2].kind = "evidence_recorded" /\ head[2].refs = {a}
  BY DEF Write
<1>7. session' = [session EXCEPT ![s] = self]
  BY <1>1, <1>3 DEF SessionTypeOK
<1> HIDE DEF head, tail
<1>8. /\ queue \in Seq(Payload) /\ Len(queue) = 2 + Len(tail)
      /\ \A i \in 1 .. 2 + Len(tail) : queue[i] = IF i <= 2 THEN head[i] ELSE tail[i - 2]
  <2>1. /\ queue \in Seq(Payload)
        /\ Len(queue) = Len(head) + Len(tail)
        /\ \A i \in 1 .. Len(head) + Len(tail) :
             queue[i] = IF i <= Len(head) THEN head[i] ELSE tail[i - Len(head)]
    BY <1>4, <1>5, ConcatProperties, Zenon
  <2> HIDE DEF queue
  <2> QED BY <2>1, <1>4
<1> HIDE DEF queue
<1>9. /\ self \in SessionState /\ self.pc = "naming" /\ self.then = "deciding"
      /\ self.action = a /\ self.mine = session[s].mine /\ self.todo = queue
  <2> DEFINE count == session[s].executed + 1
  <2>1. count \in Nat
    BY <1>1 DEF SessionState
  <2> HIDE DEF count
  <2>2. self = [session[s] EXCEPT !.pc = "naming", !.then = "deciding",
                                  !.executed = count, !.todo = queue]
    BY DEF count
  <2> HIDE DEF self
  <2> QED BY <2>1, <2>2, <1>1, <1>8 DEF SessionState, Control
<1>10. session'[s] = self
  BY <1>1, <1>7 DEF SessionTypeOK
<1> HIDE DEF self, a
<1>11. /\ queue[1] = head[1] /\ queue[2] = head[2]
       /\ Len(tail) = 1 => queue[3] = tail[1]
  <2>1. Len(tail) \in Nat /\ 1 \in 1 .. 2 + Len(tail) /\ 2 \in 1 .. 2 + Len(tail)
    BY <1>5
  <2>2. Len(tail) = 1 => 3 \in 1 .. 2 + Len(tail)
    OBVIOUS
  <2> QED BY <1>8, <2>1, <2>2
<1>12. /\ queue[1].kind = "action_finished" /\ queue[1].id = a
       /\ queue[2].kind = "evidence_recorded" /\ queue[2].refs = {a}
       /\ queue[1].value = result
  BY <1>6, <1>11
<1>13. /\ Len(queue) \in {2, 3}
       /\ Len(queue) = 2 => result = "succeeded"
       /\ Len(queue) = 3 => queue[3] = RecordFailure({a})
  BY <1>5, <1>8, <1>11
<1>14. session' = [session EXCEPT ![s] = session'[s]]
  BY <1>7, <1>10
<1>15. /\ session'[s].pc = "naming" /\ session'[s].then = "deciding"
       /\ session'[s].action = a /\ session'[s].mine = session[s].mine
       /\ session'[s].todo = queue /\ session'[s] \in SessionState
  BY <1>9, <1>10
<1> QED BY <1>2, <1>12, <1>13, <1>14, <1>15, Zenon DEF a

LEMMA ExecuteKeeps ==
  ASSUME SessionInv, NEW s \in Session, Execute(s)
  PROVE  Kept(s)
<1> DEFINE self == session'[s]
           a == session[s].action
<1>1. /\ self \in SessionState /\ session' = [session EXCEPT ![s] = self]
      /\ self.pc = "naming" /\ self.then = "deciding"
      /\ self.action = a /\ a \in Action
      /\ Len(self.todo) \in {2, 3}
      /\ self.todo[1].kind = "action_finished" /\ self.todo[1].id = a
      /\ self.todo[2].kind = "evidence_recorded"
      /\ Len(self.todo) = 3 => self.todo[3] = RecordFailure({a})
  BY ExecuteQueues
<1> HIDE DEF self, a
<1>2. ASSUME NEW i \in 1 .. Len(self.todo)
      PROVE  /\ self.todo[i].kind # "action_proposed"
             /\ self.todo[i].kind \in TransitionKind =>
                  self.todo[i].id = self.action /\ self.todo[i].id \in Action
  <2>1. CASE i = 1
    BY <1>1, <2>1
  <2>2. CASE i = 2
    BY <1>1, <2>2 DEF TransitionKind
  <2>3. CASE i = 3
    BY <1>1, <2>3 DEF TransitionKind, RecordFailure, Write
  <2> QED BY <1>1, <2>1, <2>2, <2>3
<1>3. SessionTypeOK /\ self.todo # <<>>
  BY <1>1 DEF SessionInv
<1> QED BY <1>1, <1>2, <1>3, Calling

LEMMA ReduceKeeps ==
  ASSUME SessionInv, NEW s \in Session, Reduce(s)
  PROVE  Kept(s)
<1>1. SessionTypeOK /\ session[s] \in SessionState /\ reduced \in State
  BY DEF SessionInv, SessionTypeOK, LogTypeOK
<1> DEFINE self == [session[s] EXCEPT !.pc = "replacing", !.view = reduced]
<1>2. session' = [session EXCEPT ![s] = self]
  BY <1>1 DEF Reduce, SessionTypeOK
<1>3. /\ self \in SessionState /\ self.pc = "replacing"
      /\ self.then = session[s].then /\ self.todo = session[s].todo
      /\ self.action = session[s].action /\ self.mine = session[s].mine
  BY <1>1 DEF SessionState, Control
<1> HIDE DEF self
<1>4. session' \in [Session -> SessionState] /\ session'[s] = self
  BY <1>1, <1>2, <1>3 DEF SessionTypeOK
<1>5. Scripted(s) /\ session[s].pc = "reducing"
  BY DEF SessionInv, Reduce, At
<1> QED BY <1>3, <1>4, <1>5 DEF Kept, Scripted, Scheduled, Driving, Pending

LEMMA ReplaceKeeps ==
  ASSUME SessionInv, NEW s \in Session, Replace(s)
  PROVE  Kept(s)
<1>1. SessionTypeOK /\ session[s] \in SessionState
  BY DEF SessionInv, SessionTypeOK
<1>2. Scripted(s) /\ session[s].pc = "replacing"
  BY DEF SessionInv, Replace, At
<1> DEFINE pc == IF session[s].todo = <<>> THEN session[s].then ELSE "naming"
           self == [session[s] EXCEPT !.pc = pc, !.view = InitialState]
<1>3. session' = [session EXCEPT ![s] = self]
  BY <1>1 DEF Replace, SessionTypeOK
<1>4. pc \in Control
  BY <1>1 DEF SessionState, Control
<1> HIDE DEF pc
<1>5. /\ self \in SessionState /\ self.pc = pc
      /\ self.then = session[s].then /\ self.todo = session[s].todo
      /\ self.action = session[s].action /\ self.mine = session[s].mine
  BY <1>1, <1>4, InitialStateType DEF SessionState
<1> HIDE DEF self
<1>6. session' \in [Session -> SessionState] /\ session'[s] = self
  BY <1>1, <1>3, <1>5 DEF SessionTypeOK
<1>7. CASE session[s].todo = <<>>
  <2>1. /\ pc = session[s].then
        /\ pc \in {"entering", "deciding", "executing", "finishing", "returned"}
    BY <1>7, <1>2 DEF pc, Scripted, Pending
  <2>2. Driving(s)' => Driving(s)
    BY <2>1, <1>2, <1>5, <1>6, <1>7 DEF Driving, Pending
  <2> QED BY <2>1, <2>2, <1>2, <1>5, <1>6, <1>7 DEF Kept, Scripted, Pending
<1>8. CASE session[s].todo # <<>>
  <2>1. pc = "naming"
    BY <1>8 DEF pc
  <2>2. Driving(s)' => Driving(s)
    BY <2>1, <1>2, <1>5, <1>6 DEF Driving, Pending
  <2>3. \A i \in 1 .. Len(session[s].todo) : Scheduled(s, i)'
    BY <2>1, <1>2, <1>5, <1>6 DEF Scripted, Scheduled, Pending
  <2> QED BY <2>1, <2>2, <2>3, <1>2, <1>5, <1>6, <1>8 DEF Kept, Scripted, Pending
<1> QED BY <1>7, <1>8

\* What Name does: the next event gets an identifier when it has none, and
\* after a proposal the start of the action is queued.
LEMMA NameQueues ==
  ASSUME SessionInv, NEW s \in Session, Name(s)
  PROVE  LET old == session[s].todo
             self == session'[s]
             new == self.todo
         IN /\ session[s].pc = "naming"
            /\ old \in Seq(Payload) /\ Len(old) > 0
            /\ self \in SessionState
            /\ session' = [session EXCEPT ![s] = self]
            /\ self.pc = "appending" /\ self.then = session[s].then
            /\ self.mine = session[s].mine
            /\ \A i \in 1 .. Len(old) :
                 /\ new[i].kind = old[i].kind /\ new[i].value = old[i].value
                 /\ new[i].refs = old[i].refs
                 /\ old[i].id # NoId => new[i].id = old[i].id
            /\ IF old[1].kind = "action_proposed"
                 THEN /\ self.action = new[1].id /\ self.action \in Action
                      /\ Len(old) = 1 /\ Len(new) = 2
                      /\ new[2].kind = "action_started" /\ new[2].id = self.action
                 ELSE self.action = session[s].action /\ Len(new) = Len(old)
<1> DEFINE old == session[s].todo
           payload == Head(old)
           dimension == Dimension(payload.kind)
           id == IF payload.id = NoId /\ dimension # {NoId} THEN NextId(dimension)
                                                          ELSE payload.id
           named == [session[s] EXCEPT !.pc = "appending", !.todo[1].id = id]
           queue == [old EXCEPT ![1] = [old[1] EXCEPT !.id = id]]
           started == Write("action_started", id, "running", {})
<1>1. /\ SessionTypeOK /\ session[s] \in SessionState /\ session[s].pc = "naming"
      /\ Scripted(s)
  BY DEF SessionInv, SessionTypeOK, Name, At
<1>2. old \in Seq(Payload) /\ old # <<>> /\ Len(old) > 0 /\ payload = old[1] /\ payload \in Payload
  BY <1>1 DEF Scripted, SessionState
<1>3. payload.id \in dimension \/ dimension \ Known(reduced, dimension) # {}
  BY DEF Name
<1>4. /\ id \in Object \cup {NoId}
      /\ payload.id # NoId => id = payload.id
      /\ payload.id = NoId /\ dimension # {NoId} => id \in dimension
  <2>1. CASE payload.id = NoId /\ dimension # {NoId}
    <3>1. dimension \subseteq Object
      BY <2>1, DimensionType
    <3>2. payload.id \notin dimension
      BY <2>1, <3>1, DimensionsDisjoint
    <3>3. NextId(dimension) \in dimension
      BY <1>3, <3>2 DEF NextId
    <3> QED BY <2>1, <3>1, <3>3
  <2>2. CASE ~(payload.id = NoId /\ dimension # {NoId})
    BY <2>2, <1>2 DEF Payload
  <2> QED BY <2>1, <2>2
<1>5. Scheduled(s, 1)
  BY <1>1, <1>2 DEF Scripted, Pending
<1>6. payload.kind = "action_proposed" => id \in Action /\ Len(old) = 1
  BY <1>1, <1>2, <1>4, <1>5, DimensionsDisjoint DEF Scheduled, Dimension, Object
<1>14. session' = [session EXCEPT ![s] =
          IF payload.kind = "action_proposed"
            THEN [named EXCEPT !.action = id, !.todo = Append(@, started)]
            ELSE named]
  BY DEF Name
<1> HIDE DEF id
<1>7. [old[1] EXCEPT !.id = id] \in Payload
  BY <1>2, <1>4 DEF Payload
<1>8. /\ queue \in Seq(Payload) /\ Len(queue) = Len(old)
      /\ \A i \in 1 .. Len(old) :
           queue[i] = IF i = 1 THEN [old[1] EXCEPT !.id = id] ELSE old[i]
  BY <1>2, <1>7, ExceptSeq
<1>9. named = [session[s] EXCEPT !.pc = "appending", !.todo = queue]
  BY <1>1 DEF SessionState
<1> HIDE DEF queue
<1>10. /\ queue[1].kind = old[1].kind /\ queue[1].value = old[1].value
       /\ queue[1].refs = old[1].refs /\ queue[1].id = id
  BY <1>2, <1>7, <1>8 DEF Payload
<1>11. \A i \in 1 .. Len(old) :
         /\ queue[i].kind = old[i].kind /\ queue[i].value = old[i].value
         /\ queue[i].refs = old[i].refs
         /\ old[i].id # NoId => queue[i].id = old[i].id
  BY <1>2, <1>4, <1>8, <1>10
<1>12. CASE payload.kind = "action_proposed"
  <2>1. started \in Payload /\ started.kind = "action_started" /\ started.id = id
    <3>1. /\ id \in Object /\ "running" \in Status /\ {} \in SUBSET Object
          /\ "action_started" \in EventType
      BY <1>6, <1>12 DEF Object, Status, ActionStatus, EventType, TransitionKind
    <3> QED BY <3>1, WriteType DEF Write
  <2> DEFINE self == [session[s] EXCEPT !.pc = "appending", !.todo = Append(queue, started),
                                        !.action = id]
  <2>2. session' = [session EXCEPT ![s] = self]
    BY <1>1, <1>9, <1>12, <1>14 DEF SessionState
  <2> HIDE DEF started
  <2>3. /\ Append(queue, started) \in Seq(Payload)
        /\ Len(Append(queue, started)) = Len(queue) + 1
        /\ \A i \in 1 .. Len(queue) : Append(queue, started)[i] = queue[i]
        /\ Append(queue, started)[Len(queue) + 1] = started
    BY <1>8, <2>1, AppendProperties
  <2>4. /\ self \in SessionState /\ self.pc = "appending" /\ self.then = session[s].then
        /\ self.mine = session[s].mine /\ self.action = id
        /\ self.todo = Append(queue, started)
    BY <1>1, <1>6, <1>12, <2>3 DEF SessionState, Control
  <2> HIDE DEF self
  <2>5. session'[s] = self
    BY <1>1, <2>2 DEF SessionTypeOK
  <2>6. /\ Len(old) = 1 /\ Len(self.todo) = 2 /\ self.todo[1] = queue[1]
        /\ self.todo[2] = started
    BY <1>6, <1>8, <1>12, <2>3, <2>4
  <2> DEFINE new == session'[s].todo
  <2>7. session' = [session EXCEPT ![s] = session'[s]]
    BY <2>2, <2>5
  <2>8. /\ session'[s].pc = "appending" /\ session'[s].then = session[s].then
        /\ session'[s].mine = session[s].mine /\ session'[s].action = id
        /\ session'[s] \in SessionState
    BY <2>4, <2>5
  <2>9. /\ Len(new) = 2 /\ new[1] = queue[1] /\ new[2] = started
    BY <2>5, <2>6
  <2>10. \A i \in 1 .. Len(old) :
           /\ new[i].kind = old[i].kind /\ new[i].value = old[i].value
           /\ new[i].refs = old[i].refs
           /\ old[i].id # NoId => new[i].id = old[i].id
    BY <1>11, <2>6, <2>9
  <2> QED
    BY <1>1, <1>2, <1>6, <1>10, <1>12, <2>1, <2>6, <2>7, <2>8, <2>9, <2>10
<1>13. CASE payload.kind # "action_proposed"
  <2> DEFINE self == [session[s] EXCEPT !.pc = "appending", !.todo = queue]
  <2>1. session' = [session EXCEPT ![s] = self]
    BY <1>9, <1>13, <1>14
  <2>2. /\ self \in SessionState /\ self.pc = "appending" /\ self.then = session[s].then
        /\ self.mine = session[s].mine /\ self.action = session[s].action
        /\ self.todo = queue
    BY <1>1, <1>8 DEF SessionState, Control
  <2> HIDE DEF self
  <2>3. session'[s] = self
    BY <1>1, <2>1 DEF SessionTypeOK
  <2>4. session' = [session EXCEPT ![s] = session'[s]]
    BY <2>1, <2>3
  <2>5. /\ session'[s].pc = "appending" /\ session'[s].then = session[s].then
        /\ session'[s].mine = session[s].mine /\ session'[s].action = session[s].action
        /\ session'[s] \in SessionState /\ session'[s].todo = queue
    BY <2>2, <2>3
  <2> QED
    BY <1>1, <1>2, <1>8, <1>11, <1>13, <2>4, <2>5
<1> QED BY <1>12, <1>13

LEMMA NameKeeps ==
  ASSUME SessionInv, NEW s \in Session, Name(s)
  PROVE  Kept(s)
<1> DEFINE old == session[s].todo
           self == session'[s]
           new == self.todo
<1>1. /\ session[s].pc = "naming"
      /\ old \in Seq(Payload) /\ Len(old) > 0
      /\ self \in SessionState
      /\ session' = [session EXCEPT ![s] = self]
      /\ self.pc = "appending" /\ self.then = session[s].then
      /\ self.mine = session[s].mine
      /\ \A i \in 1 .. Len(old) :
           new[i].kind = old[i].kind /\ (old[i].id # NoId => new[i].id = old[i].id)
      /\ IF old[1].kind = "action_proposed"
           THEN /\ self.action = new[1].id /\ self.action \in Action
                /\ Len(old) = 1 /\ Len(new) = 2
                /\ new[2].kind = "action_started" /\ new[2].id = self.action
           ELSE self.action = session[s].action /\ Len(new) = Len(old)
  BY NameQueues
<1>2. Scripted(s)
  BY DEF SessionInv
<1>3. session' \in [Session -> SessionState]
  BY <1>1 DEF SessionInv, SessionTypeOK
<1>4. new \in Seq(Payload) /\ Len(new) \in Nat /\ Len(old) \in Nat
  BY <1>1 DEF SessionState
<1>5. \A i \in 1 .. Len(old) : Scheduled(s, i)
  BY <1>1, <1>2 DEF Scripted, Pending
<1>6. self.then \in {"entering", "deciding", "executing", "finishing", "returned"}
  BY <1>1, <1>2 DEF Scripted, Pending
<1> HIDE DEF self
<1>7. CASE old[1].kind = "action_proposed"
  <2>1. ~Driving(s)'
    BY <1>1, <1>7 DEF Driving, Pending, self
  <2>4. Len(new) = 2
    BY <1>1, <1>7
  <2>2. ASSUME NEW i \in 1 .. Len(new)
        PROVE  Scheduled(s, i)'
    <3>1. CASE i = 1
      <4>1. session[s].then = "executing"
        BY <1>1, <1>5, <1>7 DEF Scheduled
      <4> QED BY <3>1, <4>1, <1>1, <1>7 DEF Scheduled, self, TransitionKind
    <3>2. CASE i = 2
      BY <3>2, <1>1, <1>7 DEF Scheduled, self, TransitionKind
    <3>3. i = 1 \/ i = 2
      BY <2>4
    <3> QED BY <3>1, <3>2, <3>3
  <2>3. new # <<>>
    BY <1>1, <1>7
  <2> QED BY <1>1, <1>3, <1>6, <2>1, <2>2, <2>3 DEF Kept, Scripted, Pending, self
<1>8. CASE old[1].kind # "action_proposed"
  <2>1. \A i \in 1 .. Len(old) : old[i].kind # "action_proposed"
    BY <1>5, <1>8, <1>1 DEF Scheduled
  <2>2. Driving(s)' => Driving(s)
    BY <1>1, <2>1, <1>8 DEF Driving, Pending, self
  <2>3. ASSUME NEW i \in 1 .. Len(new)
        PROVE  Scheduled(s, i)'
    <3>1. /\ i \in 1 .. Len(old) /\ new[i].kind = old[i].kind
          /\ old[i].kind # "action_proposed"
      BY <1>1, <1>8, <2>1
    <3>2. ASSUME new[i].kind \in TransitionKind
          PROVE  new[i].id = self.action /\ new[i].id \in Action
      <4>1. old[i].id = session[s].action /\ old[i].id \in Action
        BY <1>5, <3>1, <3>2 DEF Scheduled
      <4>2. old[i].id # NoId
        BY <4>1, DimensionsDisjoint DEF Object
      <4> QED BY <4>1, <4>2, <3>1, <1>1, <1>8
    <3> QED BY <3>1, <3>2 DEF Scheduled, self
  <2>4. new # <<>>
    BY <1>1, <1>8
  <2>5. Driving(s)' => self.action \in self.mine
    BY <2>2, <1>1, <1>2, <1>8 DEF Scripted
  <2> QED BY <1>1, <1>3, <1>6, <2>3, <2>4, <2>5 DEF Kept, Scripted, Pending, self
<1> QED BY <1>7, <1>8

\* What AppendFirst does with an event the reducer accepts.
LEMMA AppendMoves ==
  ASSUME SessionInv, NEW s \in Session, AppendFirst(s),
         Accepts(reduced, session[s].todo[1])
  PROVE  LET old == session[s].todo
             self == session'[s]
             new == self.todo
         IN /\ session[s].pc = "appending"
            /\ old \in Seq(Payload) /\ Len(old) > 0 /\ old[1] \in Payload
            /\ AppendPayload(old[1])
            /\ self \in SessionState
            /\ session' = [session EXCEPT ![s] = self]
            /\ self.pc = "reducing" /\ self.then = session[s].then
            /\ self.action = session[s].action
            /\ self.mine = IF old[1].kind = "action_proposed"
                             THEN session[s].mine \cup {old[1].id} ELSE session[s].mine
            /\ Len(new) = Len(old) - 1
            /\ \A i \in 1 .. Len(new) : new[i] = old[i + 1]
            /\ UNCHANGED lost
<1> DEFINE old == session[s].todo
           payload == Head(old)
           grown == IF payload.kind = "action_proposed"
                      THEN session[s].mine \cup {payload.id} ELSE session[s].mine
           self == [session[s] EXCEPT !.pc = "reducing", !.todo = Tail(old), !.mine = grown]
<1>1. /\ SessionTypeOK /\ session[s] \in SessionState /\ session[s].pc = "appending"
      /\ Scripted(s)
  BY DEF SessionInv, SessionTypeOK, AppendFirst, At
<1>2. old \in Seq(Payload) /\ old # <<>> /\ Len(old) > 0 /\ payload = old[1] /\ payload \in Payload
  BY <1>1 DEF Scripted, SessionState
<1>3. /\ AppendPayload(payload) /\ UNCHANGED lost
      /\ session' = [session EXCEPT ![s] = self]
  BY <1>1, <1>2 DEF AppendFirst, SessionTypeOK, SessionState
<1>4. /\ Tail(old) \in Seq(Payload) /\ Len(Tail(old)) = Len(old) - 1
      /\ \A i \in 1 .. Len(Tail(old)) : Tail(old)[i] = old[i + 1]
  BY <1>2, HeadTailProperties
<1>5. grown \in SUBSET Action
  <2>1. CASE payload.kind = "action_proposed"
    <3>1. payload.id \in Action
      BY <2>1, <1>2 DEF Accepts, Dimension
    <3> QED BY <2>1, <3>1, <1>1 DEF SessionState
  <2>2. CASE payload.kind # "action_proposed"
    BY <2>2, <1>1 DEF SessionState
  <2> QED BY <2>1, <2>2
<1>6. grown = IF old[1].kind = "action_proposed"
                THEN session[s].mine \cup {old[1].id} ELSE session[s].mine
  BY <1>2
<1> HIDE DEF grown, payload
<1>7. /\ self \in SessionState /\ self.pc = "reducing" /\ self.then = session[s].then
      /\ self.action = session[s].action /\ self.mine = grown /\ self.todo = Tail(old)
  BY <1>1, <1>4, <1>5 DEF SessionState, Control
<1> HIDE DEF self
<1>8. session'[s] = self /\ session' = [session EXCEPT ![s] = session'[s]]
  BY <1>1, <1>3 DEF SessionTypeOK
<1>9. /\ session'[s].pc = "reducing" /\ session'[s].then = session[s].then
      /\ session'[s].action = session[s].action /\ session'[s].mine = grown
      /\ session'[s].todo = Tail(old) /\ session'[s] \in SessionState
  BY <1>7, <1>8
<1>10. AppendPayload(old[1]) /\ old[1] \in Payload
  BY <1>2, <1>3
<1>11. /\ Len(session'[s].todo) = Len(old) - 1
       /\ \A i \in 1 .. Len(session'[s].todo) : session'[s].todo[i] = old[i + 1]
  BY <1>4, <1>9
<1> HIDE DEF old
<1> QED BY <1>1, <1>2, <1>3, <1>6, <1>8, <1>9, <1>10, <1>11 DEF old

LEMMA AppendKeeps ==
  ASSUME SessionInv, NEW s \in Session, AppendFirst(s)
  PROVE  Kept(s)
<1> DEFINE old == session[s].todo
           self == session'[s]
           new == self.todo
<1>1. /\ SessionTypeOK /\ session[s] \in SessionState /\ session[s].pc = "appending"
      /\ Scripted(s) /\ old # <<>> /\ old \in Seq(Payload)
  BY DEF SessionInv, SessionTypeOK, AppendFirst, At, Scripted, SessionState
<1>2. CASE ~Accepts(reduced, old[1])
  <2> DEFINE next == [session[s] EXCEPT !.pc = "raised"]
  <2>1. Head(old) = old[1]
    BY <1>1
  <2>2. session' = [session EXCEPT ![s] = next]
    BY <2>1, <1>1, <1>2 DEF AppendFirst, SessionTypeOK
  <2>3. next \in SessionState /\ next.pc = "raised"
    BY <1>1 DEF SessionState, Control
  <2> HIDE DEF next
  <2> QED BY <1>1, <2>2, <2>3, Resting
<1>3. CASE Accepts(reduced, old[1])
  <2>1. /\ Len(old) > 0
        /\ self \in SessionState
        /\ session' = [session EXCEPT ![s] = self]
        /\ self.pc = "reducing" /\ self.then = session[s].then
        /\ self.action = session[s].action
        /\ self.mine = IF old[1].kind = "action_proposed"
                         THEN session[s].mine \cup {old[1].id} ELSE session[s].mine
        /\ Len(new) = Len(old) - 1
        /\ \A i \in 1 .. Len(new) : new[i] = old[i + 1]
    BY <1>3, AppendMoves
  <2>2. session' \in [Session -> SessionState]
    BY <1>1, <2>1 DEF SessionTypeOK
  <2>3. Len(old) \in Nat
    BY <1>1
  <2>4. \A i \in 1 .. Len(old) : Scheduled(s, i)
    BY <1>1 DEF Scripted, Pending
  <2>5. self.then \in {"entering", "deciding", "executing", "finishing", "returned"}
    BY <1>1, <2>1 DEF Scripted, Pending
  <2> HIDE DEF self
  <2>6. ASSUME NEW i \in 1 .. Len(new)
        PROVE  new[i].kind # "action_proposed" /\ Scheduled(s, i)'
    <3>1. i + 1 \in 1 .. Len(old) /\ i + 1 # 1 /\ new[i] = old[i + 1]
      BY <2>1, <2>3
    <3>2. Scheduled(s, i + 1)
      BY <3>1, <2>4
    <3>3. new[i].kind # "action_proposed"
      BY <3>1, <3>2 DEF Scheduled
    <3>4. new[i].kind \in TransitionKind => new[i].id = self.action /\ new[i].id \in Action
      BY <3>1, <3>2, <2>1 DEF Scheduled
    <3> QED BY <3>3, <3>4 DEF Scheduled, self
  <2>7. Driving(s)' => self.action \in self.mine
    <3>1. CASE old[1].kind = "action_proposed"
      <4>1. old[1].id = session[s].action
        BY <3>1, <1>1, <2>1, <2>3, <2>4 DEF Scheduled
      <4> QED BY <4>1, <3>1, <2>1
    <3>2. CASE old[1].kind # "action_proposed"
      <4>1. ASSUME Driving(s)' PROVE Driving(s)
        <5>1. self.then = "executing"
          BY <4>1, <2>1 DEF Driving, self
        <5>2. \A i \in 1 .. Len(old) : old[i].kind # "action_proposed"
          BY <2>3, <2>4, <3>2 DEF Scheduled
        <5> QED BY <5>1, <5>2, <1>1, <2>1 DEF Driving, Pending
      <4> QED BY <4>1, <3>2, <2>1, <1>1 DEF Scripted
    <3> QED BY <3>1, <3>2
  <2> QED BY <2>1, <2>2, <2>5, <2>6, <2>7 DEF Kept, Scripted, Pending, self
<1> QED BY <1>2, <1>3

-----------------------------------------------------------------------------
(* Types                                                                   *)

\* Every step leaves its own session in a call it can go on with.
LEMMA StepKeeps ==
  ASSUME SessionInv, NEW s \in Session, Step(s) \/ Crash(s) \/ Reopen(s)
  PROVE  Kept(s)
BY OpenKeeps, NameKeeps, AppendKeeps, ReduceKeeps, ReplaceKeeps, EnterKeeps, FinishKeeps,
   ReportKeeps, RejectKeeps, ActKeeps, ExecuteKeeps, CloseKeeps
   DEF Step

\* A session appends an event the reducer accepted, or leaves the log alone.
LEMMA StepAppends ==
  ASSUME SessionInv, NEW s \in Session, Step(s) \/ Crash(s) \/ Reopen(s)
  PROVE  \/ UNCHANGED logVars
         \/ /\ AppendFirst(s)
            /\ Accepts(reduced, session[s].todo[1])
            /\ session[s].todo[1] \in Payload
            /\ AppendPayload(session[s].todo[1])
<1>1. CASE AppendFirst(s)
  <2>1. Head(session[s].todo) = session[s].todo[1]
    BY <1>1, SelfType DEF SessionInv, Scripted, AppendFirst, At
  <2>2. CASE Accepts(reduced, session[s].todo[1])
    BY <1>1, <2>2, AppendMoves
  <2>3. CASE ~Accepts(reduced, session[s].todo[1])
    BY <1>1, <2>1, <2>3 DEF AppendFirst
  <2> QED BY <2>2, <2>3
<1>2. CASE ~AppendFirst(s)
  BY <1>2
     DEF Step, Open, Name, Reduce, Replace, Enter, Finish, Report, RejectDecision,
         Act, Execute, Crash, Reopen, logVars
<1> QED BY <1>1, <1>2

\* A step of any session or of the command line writes at most one payload.
LEMMA SomeAppend ==
  ASSUME SessionInv, [SessionNext]_sessionVars
  PROVE  \/ UNCHANGED logVars
         \/ \E payload \in Payload : AppendPayload(payload)
<1>1. CASE CommandLine
  BY <1>1, RequestsArePayloads DEF CommandLine, LogNext
<1>2. ASSUME NEW s \in Session, Step(s) \/ Crash(s) \/ Reopen(s)
      PROVE  \/ UNCHANGED logVars
             \/ \E payload \in Payload : AppendPayload(payload)
  BY <1>2, StepAppends
<1>3. CASE UNCHANGED sessionVars
  BY <1>3 DEF sessionVars, logVars
<1> QED BY <1>1, <1>2, <1>3 DEF SessionNext

LEMMA LogStays ==
  ASSUME LogInv, RecordsInv, UNCHANGED logVars
  PROVE  LogInv' /\ RecordsInv'
<1>1. lines' = lines /\ reduced' = reduced
  BY DEF logVars
<1>2. (LogTypeOK /\ Summarised /\ Introduced)'
  BY <1>1 DEF LogInv, LogTypeOK, Summarised, Introduced
<1>3. (ChainUnbroken /\ StartsOnce /\ CitationsGrounded)'
  BY <1>1 DEF LogInv, ChainUnbroken, StartsOnce, CitationsGrounded
<1>4. RecordsInv'
  BY <1>1 DEF RecordsInv, AbsentIsUnwritten, ActionsHaveStatus, Known
<1> QED BY <1>2, <1>3, <1>4 DEF LogInv

\* The snapshot file holds a state, and runs are lost one at a time.
LEMMA FilesType ==
  ASSUME SessionInv, [SessionNext]_sessionVars
  PROVE  snapshot' \in State \cup {NoSnapshot} /\ lost' \in Nat
<1>1. snapshot \in State \cup {NoSnapshot} /\ lost \in Nat
  BY DEF SessionInv, SessionTypeOK
<1>2. CASE CommandLine \/ UNCHANGED sessionVars
  BY <1>1, <1>2 DEF CommandLine, sessionVars
<1>3. ASSUME NEW s \in Session, Step(s) \/ Crash(s) \/ Reopen(s)
      PROVE  snapshot' \in State \cup {NoSnapshot} /\ lost' \in Nat
  <2>1. CASE Replace(s)
    BY <1>1, <2>1, SelfType DEF Replace, SessionInv
  <2>2. CASE AppendFirst(s)
    BY <1>1, <2>2 DEF AppendFirst
  <2>3. CASE ~(Replace(s) \/ AppendFirst(s))
    <3>1. UNCHANGED snapshot /\ lost' \in {lost, lost + 1}
      BY <1>3, <2>3
         DEF Step, Open, Name, Reduce, Enter, Finish, Report, RejectDecision, Act, Execute,
             Crash, Reopen
    <3> QED BY <1>1, <3>1
  <2> QED BY <2>1, <2>2, <2>3
<1> QED BY <1>2, <1>3 DEF SessionNext

\* A session that does not move stays where it is.
LEMMA RestScripted ==
  ASSUME NEW t \in Session, Scripted(t), session'[t] = session[t]
  PROVE  Scripted(t)'
BY DEF Scripted, Scheduled, Driving, Pending

LEMMA SessionInitInv == SessionInit => SessionInv
<1> SUFFICES ASSUME SessionInit PROVE SessionInv
  OBVIOUS
<1>1. LogInv /\ RecordsInv
  BY LogInitInv, LogInitRecords DEF SessionInit
<1>2. Closed(0) \in SessionState
  BY ClosedType
<1>3. SessionTypeOK
  BY <1>1, <1>2 DEF SessionInit, SessionTypeOK, LogInv
<1>4. \A s \in Session : Scripted(s)
  BY DEF SessionInit, Scripted, Scheduled, Driving, Pending, Closed
<1> QED BY <1>1, <1>3, <1>4 DEF SessionInv

LEMMA SessionNextInv == SessionInv /\ [SessionNext]_sessionVars => SessionInv'
<1> SUFFICES ASSUME SessionInv, [SessionNext]_sessionVars PROVE SessionInv'
  OBVIOUS
<1>1. LogInv' /\ RecordsInv'
  BY SomeAppend, LogStays, AppendKeepsInv, AppendKeepsRecords DEF SessionInv
<1>2. session' \in [Session -> SessionState] /\ \A t \in Session : Scripted(t)'
  <2>1. CASE CommandLine \/ UNCHANGED sessionVars
    <3>1. session' = session
      BY <2>1 DEF CommandLine, sessionVars
    <3> QED BY <3>1, RestScripted DEF SessionInv, SessionTypeOK
  <2>2. ASSUME NEW s \in Session, Step(s) \/ Crash(s) \/ Reopen(s)
        PROVE  session' \in [Session -> SessionState] /\ \A t \in Session : Scripted(t)'
    <3>1. Kept(s)
      BY <2>2, StepKeeps
    <3>2. \A t \in Session : t # s => session'[t] = session[t]
      BY <2>2, OnlySelfMoves DEF SessionInv
    <3>3. ASSUME NEW t \in Session, t # s PROVE Scripted(t)'
      BY <3>2, <3>3, RestScripted DEF SessionInv
    <3> QED BY <3>1, <3>3 DEF Kept
  <2> QED BY <2>1, <2>2 DEF SessionNext
<1>3. SessionTypeOK'
  BY <1>1, <1>2, FilesType DEF SessionTypeOK, LogInv
<1> QED BY <1>1, <1>2, <1>3 DEF SessionInv

\* A session's call, the log and the reconstructed state are consistent in
\* every state, however the steps of the sessions interleave.
THEOREM SessionInvariant == SessionSpec => []SessionInv
<1> QED BY SessionInitInv, SessionNextInv, PTL DEF SessionSpec

\* Sessions, their queued events, the log and the snapshot file are well typed:
\* what a session appends next is always an event payload, with its identifier.
THEOREM SessionTypeCorrect == SessionSpec => []SessionTypeOK
<1>1. SessionInv => SessionTypeOK BY DEF SessionInv
<1> QED BY <1>1, SessionInvariant, PTL

\* However many sessions and command lines share the file, it stays one hash
\* chain that starts once and cites only what it introduced (store.py appends
\* under the log's lock, session.py numbers before it).
THEOREM SharedLogSafety ==
  SessionSpec => [](ChainUnbroken /\ StartsOnce /\ CitationsGrounded)
<1>1. SessionInv => ChainUnbroken /\ StartsOnce /\ CitationsGrounded
  BY DEF SessionInv, LogInv
<1> QED BY <1>1, SessionInvariant, PTL

\* LogSpec of callers that may submit any payload.
AnyLogSpec == LogInit /\ [][\E payload \in Payload : AppendPayload(payload)]_logVars

\* Sessions write the files as the event store promises: however their steps
\* interleave, what the log sees is one accepted event after the other.
THEOREM SessionsImplementLog == SessionSpec => AnyLogSpec
<1>1. SessionInit => LogInit
  BY DEF SessionInit
<1>2. SessionInv /\ [SessionNext]_sessionVars
        => [\E payload \in Payload : AppendPayload(payload)]_logVars
  BY SomeAppend
<1> QED BY <1>1, <1>2, SessionInvariant, PTL DEF SessionSpec, AnyLogSpec

\* The actions several sessions drive on one log follow the lifecycle of the
\* state protocol.
THEOREM SharedLifecycle == SessionSpec => ActionsFollowLifecycle
<1> DEFINE status == [a \in Action |-> reduced.objects[a].value]
<1>1. SessionInit => Lifecycle!Init
  BY LifecycleInit DEF SessionInit
<1>2. SessionInv /\ [SessionNext]_sessionVars => [Lifecycle!Next]_status
  <2> SUFFICES ASSUME SessionInv, [SessionNext]_sessionVars PROVE [Lifecycle!Next]_status
    OBVIOUS
  <2>1. CASE UNCHANGED logVars
    BY <2>1 DEF logVars
  <2>2. ASSUME NEW payload \in Payload, AppendPayload(payload)
        PROVE  [Lifecycle!Next]_status
    BY <2>2, AppendFollowsLifecycle DEF SessionInv
  <2> QED BY <2>1, <2>2, SomeAppend
<1> QED
  BY <1>1, <1>2, SessionInvariant, PTL
     DEF SessionSpec, ActionsFollowLifecycle, Lifecycle!Spec

-----------------------------------------------------------------------------
(* Whose action it is                                                      *)

\* Proposed actions are known to the reducer, each to one session.
OwnsKnown == \A s \in Session : session[s].mine \subseteq Known(reduced, Action)

OwnsApart ==
  \A s, t \in Session : s # t => session[s].mine \cap session[t].mine = {}

DriverInv == SessionInv /\ OwnsKnown /\ OwnsApart

\* A log remembers what it knows, and learns the target of what is appended.
LEMMA AppendKnows ==
  ASSUME LogInv, NEW payload \in Payload, AppendPayload(payload)
  PROVE  /\ Known(reduced, Action) \subseteq Known(reduced', Action)
         /\ Known(reduced', Action) \subseteq Known(reduced, Action) \cup {payload.id}
         /\ payload.id \in Action => payload.id \in Known(reduced', Action)
<1>1. \A o \in Object :
        reduced'.objects[o].revision = IF o = payload.id THEN reduced.objects[o].revision + 1
                                                         ELSE reduced.objects[o].revision
  BY AppendWrites
<1>2. Action \subseteq Object /\ \A o \in Object : reduced.objects[o].revision \in Nat
  BY DEF LogInv, LogTypeOK, State, Record, Object
<1> QED BY <1>1, <1>2 DEF Known

\* A run gets an action by proposing it, and no other way.
LEMMA MineMoves ==
  ASSUME SessionInv, NEW s \in Session, Step(s) \/ Crash(s) \/ Reopen(s)
  PROVE  \/ session'[s].mine \subseteq session[s].mine
         \/ /\ AppendFirst(s)
            /\ Accepts(reduced, session[s].todo[1])
            /\ session[s].todo[1].kind = "action_proposed"
            /\ session'[s].mine = session[s].mine \cup {session[s].todo[1].id}
<1>1. SessionTypeOK /\ session[s] \in SessionState
  BY DEF SessionInv, SessionTypeOK
<1>2. CASE AppendFirst(s)
  <2>1. CASE Accepts(reduced, session[s].todo[1])
    BY <1>2, <2>1, AppendMoves
  <2>2. CASE ~Accepts(reduced, session[s].todo[1])
    <3>1. Head(session[s].todo) = session[s].todo[1]
      BY <1>1, <1>2 DEF SessionInv, Scripted, AppendFirst, At, SessionState
    <3>2. session' = [session EXCEPT ![s].pc = "raised"]
      BY <3>1, <2>2, <1>2 DEF AppendFirst
    <3> QED BY <3>2, <1>1 DEF SessionTypeOK, SessionState
  <2> QED BY <2>1, <2>2
<1>3. CASE Name(s)
  BY <1>3, NameQueues
<1>4. CASE Execute(s)
  BY <1>4, ExecuteQueues
<1>5. CASE Open(s)
  <2> DEFINE self == [Closed(session[s].runs + 1) EXCEPT
                        !.pc = IF lines = <<>> THEN "appending" ELSE "reducing",
                        !.todo = IF lines = <<>>
                                   THEN <<Write("run_started", NoId, "recorded", {})>>
                                   ELSE <<>>,
                        !.then = "entering"]
  <2>1. session' = [session EXCEPT ![s] = self]
    BY <1>5 DEF Open
  <2>2. self.mine = {}
    BY DEF Closed
  <2> HIDE DEF self
  <2> QED BY <2>1, <2>2, <1>1 DEF SessionTypeOK
<1>8. CASE Crash(s) \/ Reopen(s)
  BY <1>1, <1>8 DEF Crash, Reopen, Closed, SessionTypeOK
<1>6. CASE Reduce(s) \/ Replace(s) \/ Report(s) \/ RejectDecision(s)
  BY <1>1, <1>6, RestMoves
<1>7. CASE Enter(s) \/ Finish(s) \/ Act(s)
  BY <1>1, <1>7, CallMoves
<1> QED BY <1>2, <1>3, <1>4, <1>5, <1>6, <1>7, <1>8 DEF Step

LEMMA DriverInitInv == SessionInit => DriverInv
<1> SUFFICES ASSUME SessionInit PROVE OwnsKnown /\ OwnsApart
  BY SessionInitInv DEF DriverInv
<1>1. \A s \in Session : session[s].mine = {}
  BY DEF SessionInit, Closed
<1> QED BY <1>1 DEF OwnsKnown, OwnsApart

LEMMA DriverNextInv == DriverInv /\ [SessionNext]_sessionVars => DriverInv'
<1> SUFFICES ASSUME DriverInv, [SessionNext]_sessionVars PROVE DriverInv'
  OBVIOUS
<1>1. SessionInv'
  BY SessionNextInv DEF DriverInv
<1>2. Known(reduced, Action) \subseteq Known(reduced', Action)
  <2>1. CASE UNCHANGED logVars
    BY <2>1 DEF logVars
  <2>2. ASSUME NEW payload \in Payload, AppendPayload(payload)
        PROVE  Known(reduced, Action) \subseteq Known(reduced', Action)
    BY <2>2, AppendKnows DEF DriverInv, SessionInv
  <2> QED BY <2>1, <2>2, SomeAppend DEF DriverInv
<1>3. OwnsKnown' /\ OwnsApart'
  <2>1. CASE CommandLine \/ UNCHANGED sessionVars
    <3>1. session' = session
      BY <2>1 DEF CommandLine, sessionVars
    <3> QED BY <3>1, <1>2 DEF DriverInv, OwnsKnown, OwnsApart
  <2>2. ASSUME NEW s \in Session, Step(s) \/ Crash(s) \/ Reopen(s)
        PROVE  OwnsKnown' /\ OwnsApart'
    <3>1. \A t \in Session : t # s => session'[t] = session[t]
      BY <2>2, OnlySelfMoves DEF DriverInv, SessionInv
    <3>2. CASE session'[s].mine \subseteq session[s].mine
      <4>1. \A t \in Session : session'[t].mine \subseteq session[t].mine
        BY <3>1, <3>2
      <4> QED BY <4>1, <1>2 DEF DriverInv, OwnsKnown, OwnsApart
    <3>3. ASSUME AppendFirst(s), Accepts(reduced, session[s].todo[1]),
                 session[s].todo[1].kind = "action_proposed",
                 session'[s].mine = session[s].mine \cup {session[s].todo[1].id}
          PROVE  OwnsKnown' /\ OwnsApart'
      <4> DEFINE a == session[s].todo[1].id
      <4>1. session[s].todo[1] \in Payload /\ AppendPayload(session[s].todo[1])
        BY <3>3, AppendMoves DEF DriverInv
      <4>2. a \in Action /\ a \notin Known(reduced, Action)
        BY <3>3 DEF Accepts, New, UniqueKind, Dimension, Known, Object
      <4>3. a \in Known(reduced', Action)
        BY <4>1, <4>2, AppendKnows DEF DriverInv, SessionInv
      <4> HIDE DEF a
      <4>4. \A t \in Session : a \notin session[t].mine
        BY <4>2 DEF DriverInv, OwnsKnown
      <4>5. session'[s].mine = session[s].mine \cup {a}
        BY <3>3 DEF a
      <4>6. OwnsKnown'
        BY <1>2, <3>1, <4>3, <4>5 DEF DriverInv, OwnsKnown
      <4>7. OwnsApart'
        BY <3>1, <4>4, <4>5 DEF DriverInv, OwnsApart
      <4> QED BY <4>6, <4>7
    <3> QED BY <2>2, <3>2, <3>3, MineMoves DEF DriverInv
  <2> QED BY <2>1, <2>2 DEF SessionNext
<1> QED BY <1>1, <1>3 DEF DriverInv

LEMMA DriverInvariant == SessionSpec => []DriverInv
<1> QED BY DriverInitInv, DriverNextInv, PTL DEF SessionSpec

\* Two sessions that computed the same identifier before either appended never
\* drive the same action: _record_unique lets one of them propose it, and a
\* session executes only what it proposed.
THEOREM OneDriver == SessionSpec => []OneDriverPerAction
<1>1. DriverInv => OneDriverPerAction
  BY DEF DriverInv, OwnsApart, OneDriverPerAction, SessionInv, Scripted, Driving
<1> QED BY <1>1, DriverInvariant, PTL

-----------------------------------------------------------------------------
(* What a run owes for its actions: their end, their result as evidence,   *)
(* and a failure unless they succeed.                                      *)

Duty == {"end", "evidence", "failure"}

Done(a) == reduced.objects[a].value \in {"succeeded", "failed", "rolled_back"}

Succeeded(a) ==
  \E i \in 1 .. Len(lines) : lines[i].payload.id = a /\ lines[i].payload.value = "succeeded"

\* The log already has it.
Recorded(duty, a) ==
  \/ duty = "end" /\ Done(a)
  \/ duty = "evidence" /\ Mentions("evidence_recorded", a)
  \/ duty = "failure" /\ (Mentions("failure_recorded", a) \/ Succeeded(a))

\* Appending the payload gives it to the log.
Records(duty, payload, a) ==
  \/ duty = "end" /\ payload.kind = "action_finished" /\ payload.id = a
  \/ duty = "evidence" /\ payload.kind = "evidence_recorded" /\ a \in payload.refs
  \/ duty = "failure" /\ payload.kind = "failure_recorded" /\ a \in payload.refs
  \/ /\ duty = "failure"
     /\ payload.kind = "action_finished" /\ payload.id = a /\ payload.value = "succeeded"

Queued(s, duty, a) ==
  \E i \in 1 .. Len(session[s].todo) : Records(duty, session[s].todo[i], a)

Drives(s, a) == Driving(s) /\ session[s].action = a

Settled(s, duty, a) == Recorded(duty, a) \/ Queued(s, duty, a) \/ Drives(s, a)

\* Unless a run raised, everything its actions owe is in the log, in the events
\* it is appending, or still to come from the action it drives.
Accounts ==
  \A s \in Session : session[s].pc # "raised" =>
    \A a \in session[s].mine, duty \in Duty : Settled(s, duty, a)

\* What is recorded stays recorded, whoever appends.
LEMMA RecordedStays ==
  ASSUME LogInv, RecordsInv, NEW payload \in Payload, AppendPayload(payload),
         NEW a \in Action, NEW duty \in Duty, Recorded(duty, a)
  PROVE  Recorded(duty, a)'
<1>1. /\ Accepts(reduced, payload)
      /\ Len(lines) \in Nat /\ Len(lines') = Len(lines) + 1
      /\ \A i \in 1 .. Len(lines) : i \in 1 .. Len(lines') /\ lines'[i] = lines[i]
      /\ \A o \in Object : reduced'.objects[o].value =
           IF o = payload.id THEN payload.value ELSE reduced.objects[o].value
  BY AppendWrites
<1>2. Done(a) => Done(a)'
  <2> SUFFICES ASSUME Done(a) PROVE Done(a)'
    OBVIOUS
  <2>1. a \in Object /\ reduced \in State
    BY DEF Object, LogInv, LogTypeOK
  <2>2. CASE a = payload.id
    <3>1. payload.value \in {"succeeded", "failed", "rolled_back"}
      BY <1>1, <2>1, <2>2, ActionEvents DEF Done, RecordsInv, AbsentIsUnwritten
    <3> QED BY <1>1, <2>1, <2>2, <3>1 DEF Done
  <2>3. CASE a # payload.id
    BY <1>1, <2>1, <2>3 DEF Done
  <2> QED BY <2>2, <2>3
<1>3. Succeeded(a) => Succeeded(a)'
  BY <1>1 DEF Succeeded
<1>4. \A kind : Mentions(kind, a) => Mentions(kind, a)'
  BY <1>1 DEF Mentions
<1> QED BY <1>2, <1>3, <1>4 DEF Recorded, Duty

\* An appended event is recorded.
LEMMA AppendRecords ==
  ASSUME LogInv, NEW payload \in Payload, AppendPayload(payload),
         NEW a \in Action, NEW duty \in Duty, Records(duty, payload, a)
  PROVE  Recorded(duty, a)'
<1>1. /\ Accepts(reduced, payload)
      /\ Len(lines) + 1 \in 1 .. Len(lines')
      /\ lines'[Len(lines) + 1].payload = payload
      /\ \A o \in Object : reduced'.objects[o].value =
           IF o = payload.id THEN payload.value ELSE reduced.objects[o].value
  BY AppendWrites
<1>2. a \in Object
  BY DEF Object
<1>3. CASE duty = "end"
  <2>1. payload.kind = "action_finished" /\ payload.id = a
    BY <1>3 DEF Records
  <2>2. payload.value \in {"succeeded", "failed"}
    BY <2>1, <1>1 DEF Accepts, Values
  <2> QED BY <1>1, <1>2, <1>3, <2>1, <2>2 DEF Recorded, Done
<1>4. CASE duty = "evidence"
  BY <1>1, <1>4 DEF Records, Recorded, Mentions
<1>5. CASE duty = "failure"
  BY <1>1, <1>5 DEF Records, Recorded, Mentions, Succeeded
<1> QED BY <1>3, <1>4, <1>5 DEF Duty

LEMMA RecordedRests ==
  ASSUME UNCHANGED logVars, NEW a, NEW duty, Recorded(duty, a)
  PROVE  Recorded(duty, a)'
BY DEF logVars, Recorded, Done, Succeeded, Mentions

\* Recorded is forever, for every step of the sessions and the command line.
LEMMA RecordedForever ==
  ASSUME SessionInv, [SessionNext]_sessionVars, NEW a \in Action, NEW duty \in Duty,
         Recorded(duty, a)
  PROVE  Recorded(duty, a)'
BY SomeAppend, RecordedStays, RecordedRests DEF SessionInv

\* A session that rests owes what it owed.
LEMMA SettledElsewhere ==
  ASSUME SessionInv, [SessionNext]_sessionVars, NEW t \in Session, session'[t] = session[t],
         NEW a \in Action, NEW duty \in Duty, Settled(t, duty, a)
  PROVE  Settled(t, duty, a)'
<1>1. Queued(t, duty, a) => Queued(t, duty, a)'
  BY DEF Queued, Records
<1>2. Drives(t, a) => Drives(t, a)'
  BY DEF Drives, Driving, Pending
<1> QED BY <1>1, <1>2, RecordedForever DEF Settled

\* Outside of a call nothing is queued.
LEMMA NothingQueued ==
  ASSUME SessionInv, NEW s \in Session,
         session[s].pc \in {"entering", "deciding", "finishing", "returned"},
         NEW a, NEW duty
  PROVE  Settled(s, duty, a) => Recorded(duty, a)
<1>1. session[s].todo = <<>>
  BY DEF SessionInv, Scripted
<1> QED BY <1>1 DEF Settled, Queued, Drives, Driving, Pending

\* A named event records what the unnamed one would have.
LEMMA NameSettles ==
  ASSUME SessionInv, NEW s \in Session, Name(s), NEW a \in Action, NEW duty \in Duty,
         Settled(s, duty, a)
  PROVE  Settled(s, duty, a)'
<1> DEFINE old == session[s].todo
           new == session'[s].todo
<1>1. /\ session[s].pc = "naming"
      /\ Len(old) > 0 /\ old \in Seq(Payload)
      /\ session'[s].pc = "appending" /\ session'[s].then = session[s].then
      /\ \A i \in 1 .. Len(old) :
           /\ new[i].kind = old[i].kind /\ new[i].value = old[i].value
           /\ new[i].refs = old[i].refs
           /\ old[i].id # NoId => new[i].id = old[i].id
      /\ IF old[1].kind = "action_proposed"
           THEN Len(old) = 1 /\ Len(new) = 2
           ELSE session'[s].action = session[s].action /\ Len(new) = Len(old)
  BY NameQueues
<1>2. UNCHANGED logVars
  BY DEF Name, logVars
<1>3. CASE Recorded(duty, a)
  BY <1>2, <1>3, RecordedRests DEF Settled
<1>4. CASE Queued(s, duty, a)
  <2>1. PICK i \in 1 .. Len(old) : Records(duty, old[i], a)
    BY <1>4 DEF Queued
  <2>2. a # NoId
    BY DimensionsDisjoint DEF Object
  <2>3. Records(duty, new[i], a)
    BY <1>1, <2>1, <2>2 DEF Records
  <2>4. i \in 1 .. Len(new)
    BY <1>1, <2>1
  <2> QED BY <2>3, <2>4 DEF Settled, Queued, Records
<1>5. CASE Drives(s, a)
  <2>1. \A i \in 1 .. Len(old) : old[i].kind # "action_proposed"
    BY <1>1, <1>5 DEF Drives, Driving
  <2>2. session'[s].action = session[s].action /\ Len(new) = Len(old)
    BY <1>1, <2>1
  <2>3. Driving(s)'
    BY <1>1, <1>5, <2>1, <2>2 DEF Drives, Driving, Pending
  <2> QED BY <1>5, <2>2, <2>3 DEF Settled, Drives
<1> QED BY <1>3, <1>4, <1>5 DEF Settled

\* An appended event moves from what is queued to what is recorded; a proposal
\* the reducer accepts makes the session drive the action.
LEMMA AppendSettles ==
  ASSUME SessionInv, NEW s \in Session, AppendFirst(s),
         Accepts(reduced, session[s].todo[1]),
         NEW a \in Action, NEW duty \in Duty, a \in session'[s].mine,
         a \in session[s].mine => Settled(s, duty, a)
  PROVE  Settled(s, duty, a)'
<1> DEFINE old == session[s].todo
           new == session'[s].todo
<1>1. /\ session[s].pc = "appending"
      /\ old \in Seq(Payload) /\ Len(old) > 0 /\ old[1] \in Payload
      /\ AppendPayload(old[1])
      /\ session'[s].pc = "reducing" /\ session'[s].then = session[s].then
      /\ session'[s].action = session[s].action
      /\ session'[s].mine = IF old[1].kind = "action_proposed"
                              THEN session[s].mine \cup {old[1].id} ELSE session[s].mine
      /\ Len(new) = Len(old) - 1
      /\ \A i \in 1 .. Len(new) : new[i] = old[i + 1]
  BY AppendMoves
<1>2. LogInv /\ RecordsInv /\ Len(old) \in Nat
  BY <1>1 DEF SessionInv
<1>3. CASE Recorded(duty, a)
  BY <1>1, <1>2, <1>3, RecordedStays DEF Settled
<1>4. CASE Queued(s, duty, a)
  <2>1. PICK i \in 1 .. Len(old) : Records(duty, old[i], a)
    BY <1>4 DEF Queued
  <2>2. CASE i = 1
    BY <1>1, <1>2, <2>1, <2>2, AppendRecords DEF Settled
  <2>3. CASE i # 1
    <3>1. i - 1 \in 1 .. Len(new)
      BY <1>1, <1>2, <2>3
    <3>3. new[i - 1] = old[i]
      <4> DEFINE j == i - 1
      <4>1. new[j] = old[j + 1] /\ j + 1 = i
        BY <1>1, <3>1
      <4> QED BY <4>1
    <3>2. Records(duty, new[i - 1], a)
      BY <2>1, <3>3
    <3> QED BY <3>1, <3>2 DEF Settled, Queued, Records
  <2> QED BY <2>2, <2>3
<1>5. \A i \in 1 .. Len(old) : Scheduled(s, i)
  BY <1>1 DEF SessionInv, Scripted, Pending
<1>6. \A i \in 1 .. Len(new) : new[i].kind # "action_proposed"
  <2> SUFFICES ASSUME NEW i \in 1 .. Len(new) PROVE new[i].kind # "action_proposed"
    OBVIOUS
  <2>1. i + 1 \in 1 .. Len(old) /\ i + 1 # 1 /\ new[i] = old[i + 1]
    BY <1>1, <1>2
  <2> QED BY <2>1, <1>5 DEF Scheduled
<1>7. CASE Drives(s, a)
  BY <1>1, <1>6, <1>7 DEF Settled, Drives, Driving, Pending
<1>8. CASE a \notin session[s].mine
  <2>1. old[1].kind = "action_proposed" /\ a = old[1].id
    BY <1>1, <1>8
  <2>2. session[s].then = "executing" /\ old[1].id = session[s].action
    BY <1>1, <1>2, <1>5, <2>1 DEF Scheduled
  <2> QED BY <1>1, <1>6, <2>1, <2>2 DEF Settled, Drives, Driving, Pending
<1> QED BY <1>3, <1>4, <1>7, <1>8 DEF Settled

\* After the executor, everything the driven action owes is queued.
LEMMA ExecuteSettles ==
  ASSUME SessionInv, NEW s \in Session, Execute(s), NEW a \in Action, NEW duty \in Duty,
         Settled(s, duty, a)
  PROVE  Settled(s, duty, a)'
<1>1. /\ Len(session'[s].todo) \in {2, 3}
      /\ session'[s].todo[1].kind = "action_finished"
      /\ session'[s].todo[1].id = session[s].action
      /\ session'[s].todo[2].kind = "evidence_recorded"
      /\ session'[s].todo[2].refs = {session[s].action}
      /\ Len(session'[s].todo) = 2 => session'[s].todo[1].value = "succeeded"
      /\ Len(session'[s].todo) = 3 => session'[s].todo[3] = RecordFailure({session[s].action})
  BY ExecuteQueues
<1>2. CASE Recorded(duty, a)
  BY <1>2, RecordedRests DEF Settled, Execute, logVars
<1>3. CASE Queued(s, duty, a)
  <2>1. session[s].todo = <<>>
    BY DEF SessionInv, Scripted, Execute, At
  <2> QED BY <1>3, <2>1 DEF Queued
<1>4. CASE Drives(s, a)
  <2>1. a = session[s].action
    BY <1>4 DEF Drives
  <2> DEFINE new == session'[s].todo
  <2>2. 1 \in 1 .. Len(new) /\ 2 \in 1 .. Len(new) /\ (Len(new) = 3 => 3 \in 1 .. Len(new))
    BY <1>1
  <2>3. \E i \in 1 .. Len(new) : Records(duty, new[i], a)
    <3>1. CASE duty = "end"
      BY <3>1, <1>1, <2>1, <2>2 DEF Records
    <3>2. CASE duty = "evidence"
      BY <3>2, <1>1, <2>1, <2>2 DEF Records
    <3>3. CASE duty = "failure"
      <4>1. CASE Len(new) = 2
        BY <3>3, <4>1, <1>1, <2>1, <2>2 DEF Records
      <4>2. CASE Len(new) = 3
        <5>1. new[3].kind = "failure_recorded" /\ new[3].refs = {a}
          BY <1>1, <2>1, <4>2 DEF RecordFailure, Write
        <5> QED BY <3>3, <4>2, <5>1, <2>2 DEF Records
      <4> QED BY <1>1, <4>1, <4>2
    <3> QED BY <3>1, <3>2, <3>3 DEF Duty
  <2> QED BY <2>3 DEF Settled, Queued, Records
<1> QED BY <1>2, <1>3, <1>4 DEF Settled

\* A step that rests in its call, or leaves it with nothing queued.
LEMMA RefreshSettles ==
  ASSUME SessionInv, NEW s \in Session, Reduce(s) \/ Replace(s),
         NEW a \in Action, NEW duty \in Duty, Settled(s, duty, a)
  PROVE  Settled(s, duty, a)'
<1>1. SessionTypeOK /\ session[s] \in SessionState /\ Scripted(s)
  BY DEF SessionInv, SessionTypeOK
<1>2. /\ session'[s].todo = session[s].todo /\ session'[s].then = session[s].then
      /\ session'[s].action = session[s].action
      /\ UNCHANGED logVars
      /\ session[s].pc \in {"reducing", "replacing"}
  BY <1>1 DEF Reduce, Replace, SessionTypeOK, SessionState, logVars, At
<1>3. \/ session'[s].pc \in {"replacing", "naming"}
      \/ session[s].todo = <<>> /\ session'[s].pc = session[s].then
  BY <1>1 DEF Reduce, Replace, SessionTypeOK, SessionState
<1>4. CASE Recorded(duty, a)
  BY <1>2, <1>4, RecordedRests DEF Settled
<1>5. CASE Queued(s, duty, a)
  BY <1>2, <1>5 DEF Settled, Queued, Records
<1>6. CASE Drives(s, a)
  BY <1>2, <1>3, <1>6 DEF Settled, Drives, Driving, Pending
<1> QED BY <1>4, <1>5, <1>6 DEF Settled

LEMMA RestingSettles ==
  ASSUME SessionInv, NEW s \in Session, Enter(s) \/ Finish(s) \/ Report(s) \/ Act(s),
         NEW a \in Action, NEW duty \in Duty, Settled(s, duty, a)
  PROVE  Settled(s, duty, a)'
<1>1. session[s].pc \in {"entering", "deciding", "finishing"} /\ UNCHANGED logVars
  BY DEF Enter, Finish, Report, Act, At, logVars
<1>2. Recorded(duty, a)
  BY <1>1, NothingQueued
<1> QED BY <1>1, <1>2, RecordedRests DEF Settled

LEMMA AccountsNext ==
  ASSUME DriverInv, Accounts, [SessionNext]_sessionVars
  PROVE  Accounts'
<1> SUFFICES ASSUME NEW t \in Session, session'[t].pc # "raised",
                    NEW a \in session'[t].mine, NEW duty \in Duty
             PROVE  Settled(t, duty, a)'
  BY DEF Accounts
<1>1. SessionInv /\ SessionInv'
  BY SessionNextInv DEF DriverInv
<1>2. a \in Action
  BY <1>1 DEF SessionInv, SessionTypeOK, SessionState
<1>3. CASE session'[t] = session[t]
  BY <1>1, <1>2, <1>3, SettledElsewhere DEF Accounts
<1>4. CASE session'[t] # session[t]
  <2>1. Step(t) \/ Crash(t) \/ Reopen(t)
    <3>1. ~CommandLine /\ ~UNCHANGED sessionVars
      BY <1>4 DEF CommandLine, sessionVars
    <3>2. PICK s \in Session : Step(s) \/ Crash(s) \/ Reopen(s)
      BY <3>1 DEF SessionNext
    <3>3. s = t
      BY <1>1, <1>4, <3>2, OnlySelfMoves DEF SessionInv
    <3> QED BY <3>2, <3>3
  <2>2. CASE Open(t) \/ Crash(t) \/ Reopen(t)
    <3>1. session'[t].mine = {}
      <4>1. CASE Open(t)
        <5>1. Scripted(t) /\ session[t].mine = {}
          BY <1>1, <4>1 DEF SessionInv, Scripted, Open, At
        <5>2. ~AppendFirst(t)
          BY <4>1 DEF Open, AppendFirst, At
        <5> QED BY <1>1, <2>1, <5>1, <5>2, MineMoves
      <4>2. CASE Crash(t) \/ Reopen(t)
        <5>1. session'[t] = Closed(session[t].runs)
          BY <1>1, <4>2 DEF Crash, Reopen, SessionInv, SessionTypeOK
        <5> QED BY <5>1 DEF Closed
      <4> QED BY <2>2, <4>1, <4>2
    <3> QED BY <3>1
  <2>3. CASE RejectDecision(t)
    <3>1. session'[t].pc = "raised"
      BY <1>1, <2>3 DEF RejectDecision, SessionInv, SessionTypeOK, SessionState
    <3> QED BY <3>1
  <2>4. CASE AppendFirst(t)
    <3>1. Accepts(reduced, session[t].todo[1])
      <4> SUFFICES ASSUME ~Accepts(reduced, session[t].todo[1]) PROVE FALSE
        OBVIOUS
      <4>1. Head(session[t].todo) = session[t].todo[1]
        BY <1>1, <2>4 DEF SessionInv, Scripted, AppendFirst, At, SessionTypeOK, SessionState
      <4>2. session' = [session EXCEPT ![t].pc = "raised"]
        BY <2>4, <4>1 DEF AppendFirst
      <4>3. session'[t].pc = "raised"
        BY <1>1, <4>2 DEF SessionInv, SessionTypeOK, SessionState
      <4> QED BY <4>3
    <3>2. session[t].pc = "appending"
      BY <2>4 DEF AppendFirst, At
    <3>3. a \in session[t].mine => Settled(t, duty, a)
      BY <3>2 DEF Accounts
    <3> QED BY <1>1, <1>2, <2>4, <3>1, <3>3, AppendSettles
  <2>5. ASSUME ~AppendFirst(t), ~Open(t), ~Crash(t), ~Reopen(t), ~RejectDecision(t)
        PROVE  Settled(t, duty, a)'
    <3>1. a \in session[t].mine
      BY <1>1, <2>1, <2>5, MineMoves
    <3>2. session[t].pc # "raised"
      BY <2>1, <2>5
         DEF Step, At, Name, Reduce, Replace, Enter, Finish, Report, Act, Execute
    <3>3. Settled(t, duty, a)
      BY <3>1, <3>2 DEF Accounts
    <3> QED
      BY <1>1, <1>2, <2>1, <2>5, <3>3, NameSettles, RefreshSettles, RestingSettles,
         ExecuteSettles
         DEF Step
  <2> QED BY <2>2, <2>3, <2>4, <2>5
<1> QED BY <1>3, <1>4

\* What a run owes is never forgotten: from the proposal of an action to the
\* return of the run, its end, its evidence and its failure are in the log, in
\* the events being appended, or still to come from the action being driven.
LEMMA AccountsInvariant == SessionSpec => []Accounts
<1>1. SessionInit => Accounts
  BY DEF SessionInit, Accounts, Closed
<1>2. DriverInv /\ Accounts /\ [SessionNext]_sessionVars => Accounts'
  BY AccountsNext
<1> QED BY <1>1, <1>2, DriverInvariant, PTL DEF SessionSpec

\* Every action a returned run proposed has ended, its result is recorded as
\* evidence, and it has a failure record unless it succeeded: execute_action
\* records all of it before run() goes on, and no other session undoes it.
THEOREM ResultsCitable == SessionSpec => []ResultsAreCitable
<1>1. DriverInv /\ Accounts => ResultsAreCitable
  <2> SUFFICES ASSUME DriverInv, Accounts, NEW s \in Session, session[s].pc = "returned",
                      NEW a \in session[s].mine
               PROVE  /\ reduced.objects[a].value \in {"succeeded", "failed", "rolled_back"}
                      /\ Mentions("evidence_recorded", a)
                      /\ Mentions("failure_recorded", a) \/ Succeeded(a)
    BY DEF ResultsAreCitable, Succeeded
  <2>1. SessionInv
    BY DEF DriverInv
  <2>2. \A duty \in Duty : Recorded(duty, a)
    BY <2>1, NothingQueued DEF Accounts
  <2> QED BY <2>2 DEF Recorded, Duty, Done
<1> QED BY <1>1, DriverInvariant, AccountsInvariant, PTL

-----------------------------------------------------------------------------
(* What lost runs leave open                                               *)

\* The command line may append anything but proposals: an action proposed
\* there is open and no run is driving it.
NoProposals == \A payload \in Requests : payload.kind # "action_proposed"

OpenActions ==
  {a \in Known(reduced, Action) : reduced.objects[a].value \in {"proposed", "running"}}

\* The open actions that no live run will ever finish.
Orphans ==
  {a \in OpenActions : \A s \in Session : Live(s) => a \notin session[s].mine}

OrphanInv == IsFiniteSet(Orphans) /\ Cardinality(Orphans) <= lost

\* Only a proposal opens an action.
LEMMA AppendOpens ==
  ASSUME LogInv, RecordsInv, NEW payload \in Payload, AppendPayload(payload),
         NEW a \in OpenActions'
  PROVE  a \in OpenActions \/ (payload.kind = "action_proposed" /\ a = payload.id)
<1>1. /\ Accepts(reduced, payload)
      /\ \A o \in Object :
           /\ reduced'.objects[o].value =
                IF o = payload.id THEN payload.value ELSE reduced.objects[o].value
           /\ reduced'.objects[o].revision =
                IF o = payload.id THEN reduced.objects[o].revision + 1
                                  ELSE reduced.objects[o].revision
  BY AppendWrites
<1>2. /\ a \in Action /\ a \in Object /\ reduced'.objects[a].revision > 0
      /\ reduced'.objects[a].value \in {"proposed", "running"}
  BY DEF OpenActions, Known, Object
<1>3. reduced \in State /\ reduced.objects[a].revision \in Nat
  BY <1>2 DEF LogInv, LogTypeOK, State, Record
<1>4. CASE a # payload.id
  BY <1>1, <1>2, <1>4 DEF OpenActions, Known
<1>5. CASE a = payload.id
  <2>1. payload.value \in {"proposed", "running"}
    BY <1>1, <1>2, <1>5
  <2>2. \/ payload.kind = "action_proposed"
        \/ reduced.objects[a].value = "proposed"
    BY <1>1, <1>2, <1>3, <1>5, <2>1, ActionEvents
  <2>3. ASSUME reduced.objects[a].value = "proposed" PROVE a \in OpenActions
    <3>1. reduced.objects[a].revision > 0
      BY <1>2, <1>3, <2>3 DEF RecordsInv, AbsentIsUnwritten
    <3> QED BY <1>2, <2>3, <3>1 DEF OpenActions, Known
  <2> QED BY <1>5, <2>2, <2>3
<1> QED BY <1>4, <1>5

\* A run drives at most one open action at a time.
LEMMA OpenIsDriven ==
  ASSUME DriverInv, Accounts, NEW s \in Session, session[s].pc # "raised",
         NEW a \in session[s].mine, a \in OpenActions
  PROVE  /\ a = session[s].action
         /\ Pending(s) \/ session[s].pc = "executing"
         /\ session[s].todo = <<>> => session[s].pc = "executing" \/ session[s].then = "executing"
<1>1. SessionInv /\ Scripted(s)
  BY DEF DriverInv, SessionInv
<1>2. Settled(s, "end", a)
  BY DEF Accounts, Duty
<1>3. ~Recorded("end", a)
  BY DEF Recorded, Done, OpenActions
<1>4. CASE Queued(s, "end", a)
  <2>1. PICK i \in 1 .. Len(session[s].todo) :
          session[s].todo[i].kind = "action_finished" /\ session[s].todo[i].id = a
    BY <1>4 DEF Queued, Records
  <2>2. session[s].todo # <<>>
    BY <2>1
  <2>3. Pending(s)
    BY <1>1, <2>2 DEF Scripted, Pending
  <2>4. Scheduled(s, i)
    BY <1>1, <2>3 DEF Scripted
  <2> QED BY <2>1, <2>2, <2>3, <2>4 DEF Scheduled, TransitionKind
<1>5. CASE Drives(s, a)
  BY <1>5 DEF Drives, Driving
<1> QED BY <1>2, <1>3, <1>4, <1>5 DEF Settled

\* A run that is lost leaves the action it was driving, and no other.
LEMMA LosingOrphans ==
  ASSUME DriverInv, Accounts, NEW s \in Session, session[s].pc # "raised",
         UNCHANGED logVars, \A t \in Session : t # s => session'[t] = session[t]
  PROVE  Orphans' \subseteq Orphans \cup {session[s].action}
<1> SUFFICES ASSUME NEW a \in Orphans', a \notin Orphans PROVE a = session[s].action
  OBVIOUS
<1>1. a \in OpenActions
  BY DEF Orphans, OpenActions, logVars
<1>2. PICK t \in Session : Live(t) /\ a \in session[t].mine
  BY <1>1 DEF Orphans
<1>3. t = s
  <2> SUFFICES ASSUME t # s PROVE FALSE
    OBVIOUS
  <2>1. session'[t] = session[t]
    OBVIOUS
  <2>2. Live(t)'
    BY <1>2, <2>1 DEF Live
  <2> QED BY <1>2, <2>1, <2>2 DEF Orphans
<1> QED BY <1>1, <1>2, <1>3, OpenIsDriven

\* A run that goes on leaves nothing.
LEMMA KeepingOrphans ==
  ASSUME SessionInv, NEW s \in Session,
         \A t \in Session : t # s => session'[t] = session[t],
         \A a \in OpenActions' : a \notin session'[s].mine => a \in OpenActions,
         Live(s) => /\ session[s].mine \subseteq session'[s].mine
                    /\ Live(s)' \/ \A a \in OpenActions' : a \notin session'[s].mine,
         ~Live(s)' => OpenActions' \subseteq OpenActions
  PROVE  Orphans' \subseteq Orphans
<1> SUFFICES ASSUME NEW a \in Orphans' PROVE a \in Orphans
  OBVIOUS
<1>1. a \in OpenActions' /\ \A t \in Session : Live(t)' => a \notin session'[t].mine
  BY DEF Orphans
<1>2. a \in OpenActions
  <2>1. CASE Live(s)'
    BY <1>1, <2>1
  <2>2. CASE ~Live(s)'
    BY <1>1, <2>2
  <2> QED BY <2>1, <2>2
<1>3. ASSUME NEW t \in Session, Live(t) PROVE a \notin session[t].mine
  <2>1. CASE t # s
    <3>1. session'[t] = session[t]
      BY <2>1
    <3>2. Live(t)'
      BY <1>3, <3>1 DEF Live
    <3> QED BY <1>1, <3>1, <3>2
  <2>2. CASE t = s
    BY <1>1, <1>3, <2>2
  <2> QED BY <2>1, <2>2
<1> QED BY <1>2, <1>3 DEF Orphans

\* One step adds at most one orphan, and only with a lost run.
LEMMA OrphanStep ==
  ASSUME DriverInv, Accounts, NEW s \in Session, Step(s) \/ Crash(s) \/ Reopen(s)
  PROVE  \/ Orphans' \subseteq Orphans /\ lost' = lost
         \/ Orphans' \subseteq Orphans \cup {session[s].action} /\ lost' = lost + 1
<1>1. /\ SessionInv /\ SessionTypeOK /\ session[s] \in SessionState /\ Scripted(s)
      /\ LogInv /\ RecordsInv
  BY DEF DriverInv, SessionInv, SessionTypeOK
<1>2. \A t \in Session : t # s => session'[t] = session[t]
  BY <1>1, OnlySelfMoves
<1>3. CASE Crash(s) \/ RejectDecision(s)
  <2>1. session[s].pc # "raised" /\ UNCHANGED logVars /\ lost' = lost + 1
    BY <1>3 DEF Crash, RejectDecision, At, logVars
  <2> QED BY <1>2, <2>1, LosingOrphans
<1>4. CASE AppendFirst(s) /\ ~Accepts(reduced, session[s].todo[1])
  <2>1. Head(session[s].todo) = session[s].todo[1]
    BY <1>1, <1>4 DEF Scripted, AppendFirst, At, SessionState
  <2>2. session[s].pc # "raised" /\ UNCHANGED logVars /\ lost' = lost + 1
    BY <1>4, <2>1 DEF AppendFirst, At
  <2> QED BY <1>2, <2>2, LosingOrphans
<1>5. CASE AppendFirst(s) /\ Accepts(reduced, session[s].todo[1])
  <2> DEFINE payload == session[s].todo[1]
  <2>1. /\ payload \in Payload /\ AppendPayload(payload) /\ lost' = lost
        /\ session'[s].pc = "reducing"
        /\ session'[s].mine = IF payload.kind = "action_proposed"
                                THEN session[s].mine \cup {payload.id} ELSE session[s].mine
    BY <1>1, <1>5, AppendMoves
  <2> HIDE DEF payload
  <2>2. \A a \in OpenActions' : a \notin session'[s].mine => a \in OpenActions
    BY <1>1, <2>1, AppendOpens
  <2>3. session[s].mine \subseteq session'[s].mine /\ Live(s)'
    BY <2>1 DEF Live
  <2> QED BY <1>1, <1>2, <2>1, <2>2, <2>3, KeepingOrphans
<1>6. CASE Open(s) \/ Reopen(s)
  <2>1. ~Live(s) /\ UNCHANGED logVars /\ lost' = lost
    BY <1>6 DEF Open, Reopen, At, Live, logVars
  <2>2. OpenActions' = OpenActions
    BY <2>1 DEF OpenActions, logVars
  <2> QED BY <1>1, <1>2, <2>1, <2>2, KeepingOrphans
<1>7. ASSUME ~Crash(s), ~RejectDecision(s), ~AppendFirst(s), ~Open(s), ~Reopen(s)
      PROVE  Orphans' \subseteq Orphans /\ lost' = lost
  <2>1. Step(s) /\ UNCHANGED logVars /\ lost' = lost
    BY <1>7
       DEF Step, Name, Reduce, Replace, Enter, Finish, Report, Act, Execute, logVars
  <2>2. OpenActions' = OpenActions
    BY <2>1 DEF OpenActions, logVars
  <2>3. session[s].mine = session'[s].mine
    <3>1. CASE Name(s)
      BY <1>1, <3>1, NameQueues
    <3>2. CASE Execute(s)
      BY <1>1, <3>2, ExecuteQueues
    <3>3. CASE Reduce(s) \/ Replace(s) \/ Report(s)
      BY <1>1, <3>3, RestMoves
    <3>4. CASE Enter(s) \/ Finish(s) \/ Act(s)
      BY <1>1, <3>4, CallMoves
    <3> QED BY <1>7, <2>1, <3>1, <3>2, <3>3, <3>4 DEF Step
  <2>4. Live(s)' \/ \A a \in OpenActions' : a \notin session'[s].mine
    <3>1. CASE Replace(s)
      <4>1. session[s].pc = "replacing"
        BY <3>1 DEF Replace, At
      <4>2. session'[s].pc = IF session[s].todo = <<>> THEN session[s].then ELSE "naming"
        BY <1>1, <3>1 DEF Replace, SessionTypeOK, SessionState
      <4>3. session[s].then \in {"entering", "deciding", "executing", "finishing", "returned"}
        BY <1>1, <4>1 DEF Scripted, Pending
      <4>4. ASSUME ~Live(s)' PROVE \A a \in OpenActions : a \notin session[s].mine
        <5>1. session[s].todo = <<>> /\ session[s].then = "returned"
          BY <4>2, <4>3, <4>4 DEF Live
        <5> QED BY <4>1, <5>1, OpenIsDriven
      <4> QED BY <4>4, <2>2, <2>3
    <3>2. CASE ~Replace(s)
      <4>1. CASE Name(s)
        BY <1>1, <4>1, NameQueues DEF Live
      <4>2. CASE Execute(s)
        BY <1>1, <4>2, ExecuteQueues DEF Live
      <4>3. CASE Reduce(s) \/ Report(s)
        BY <1>1, <4>3 DEF Reduce, Report, SessionTypeOK, SessionState, Live
      <4>4. CASE Enter(s) \/ Finish(s) \/ Act(s)
        <5>1. session'[s].pc \in {"deciding", "naming"}
          BY <1>1, <4>4, CallMoves
        <5> QED BY <5>1 DEF Live
      <4> QED BY <1>7, <2>1, <3>2, <4>1, <4>2, <4>3, <4>4 DEF Step
    <3> QED BY <3>1, <3>2
  <2> QED BY <1>1, <1>2, <2>1, <2>2, <2>3, <2>4, KeepingOrphans
<1> QED BY <1>3, <1>4, <1>5, <1>6, <1>7

LEMMA OrphanNext ==
  ASSUME NoProposals, DriverInv, Accounts, OrphanInv, [SessionNext]_sessionVars
  PROVE  OrphanInv'
<1>1. lost \in Nat /\ LogInv /\ RecordsInv
  BY DEF DriverInv, SessionInv, SessionTypeOK
<1>2. ASSUME Orphans' \subseteq Orphans, lost' = lost
      PROVE  OrphanInv'
  <2>1. /\ IsFiniteSet(Orphans') /\ Cardinality(Orphans') <= Cardinality(Orphans)
        /\ Cardinality(Orphans) \in Nat /\ Cardinality(Orphans') \in Nat
    BY <1>2, FS_Subset, FS_CardinalityType DEF OrphanInv
  <2> QED BY <1>1, <1>2, <2>1 DEF OrphanInv
<1>3. ASSUME NEW a, Orphans' \subseteq Orphans \cup {a}, lost' = lost + 1
      PROVE  OrphanInv'
  <2>1. /\ IsFiniteSet(Orphans \cup {a})
        /\ Cardinality(Orphans) \in Nat
        /\ Cardinality(Orphans \cup {a}) <= Cardinality(Orphans) + 1
        /\ Cardinality(Orphans \cup {a}) \in Nat
    BY FS_AddElement, FS_CardinalityType DEF OrphanInv
  <2>2. /\ IsFiniteSet(Orphans') /\ Cardinality(Orphans') <= Cardinality(Orphans \cup {a})
        /\ Cardinality(Orphans') \in Nat
    BY <1>3, <2>1, FS_Subset, FS_CardinalityType
  <2> QED BY <1>1, <1>3, <2>1, <2>2 DEF OrphanInv
<1>4. CASE CommandLine
  <2>1. PICK payload \in Requests : AppendPayload(payload)
    BY <1>4 DEF CommandLine, LogNext
  <2>2. payload \in Payload /\ payload.kind # "action_proposed"
    BY RequestsArePayloads DEF NoProposals
  <2>3. OpenActions' \subseteq OpenActions
    BY <1>1, <2>1, <2>2, AppendOpens
  <2>4. Orphans' \subseteq Orphans /\ lost' = lost
    BY <1>4, <2>3 DEF CommandLine, Orphans, Live
  <2> QED BY <1>2, <2>4
<1>5. CASE UNCHANGED sessionVars
  BY <1>2, <1>5 DEF sessionVars, Orphans, OpenActions, Live
<1>6. ASSUME NEW s \in Session, Step(s) \/ Crash(s) \/ Reopen(s)
      PROVE  OrphanInv'
  BY <1>2, <1>3, <1>6, OrphanStep
<1> QED BY <1>4, <1>5, <1>6 DEF SessionNext

LEMMA OrphanInvariant ==
  ASSUME NoProposals
  PROVE  SessionSpec => []OrphanInv
<1>1. SessionInit => OrphanInv
  <2> SUFFICES ASSUME SessionInit PROVE OrphanInv
    OBVIOUS
  <2>1. Orphans = {}
    BY DEF SessionInit, LogInit, InitialState, AbsentRecord, Orphans, OpenActions, Known, Object
  <2> QED BY <2>1, FS_EmptySet DEF SessionInit, OrphanInv
<1>2. DriverInv /\ Accounts /\ OrphanInv /\ [SessionNext]_sessionVars => OrphanInv'
  BY OrphanNext
<1> QED BY <1>1, <1>2, DriverInvariant, AccountsInvariant, PTL DEF SessionSpec

\* Every open action that is no orphan is driven by a live run of its own.
LEMMA OpenActionsBounded ==
  ASSUME DriverInv, Accounts, OrphanInv
  PROVE  OpenActionsAreLostRuns
<1> DEFINE live == {s \in Session : Live(s)}
           driven == OpenActions \ Orphans
           driver == [a \in driven |-> CHOOSE s \in live : session[s].action = a]
<1>1. IsFiniteSet(live)
  BY SessionAssumption, FS_Subset
<1>2. \A a \in driven : driver[a] \in live /\ session[driver[a]].action = a
  <2> SUFFICES ASSUME NEW a \in driven PROVE \E s \in live : session[s].action = a
    OBVIOUS
  <2>1. PICK s \in Session : Live(s) /\ a \in session[s].mine
    BY DEF Orphans
  <2>2. session[s].pc # "raised"
    BY <2>1 DEF Live
  <2> QED BY <2>1, <2>2, OpenIsDriven
<1>3. driver \in Injection(driven, live)
  BY <1>2 DEF Injection, IsInjective
<1> HIDE DEF driver, driven, live
<1>4. /\ IsFiniteSet(driven) /\ Cardinality(driven) <= Cardinality(live)
      /\ Cardinality(driven) \in Nat /\ Cardinality(live) \in Nat
  BY <1>1, <1>3, FS_Injection, FS_CardinalityType
<1>5. OpenActions = Orphans \cup driven /\ Orphans \cap driven = {}
  BY DEF driven, Orphans
<1>6. /\ Cardinality(OpenActions) = Cardinality(Orphans) + Cardinality(driven)
      /\ Cardinality(Orphans) \in Nat /\ lost \in Nat
  <2>1. lost \in Nat
    BY DEF DriverInv, SessionInv, SessionTypeOK
  <2>2. Cardinality(Orphans) \in Nat
    BY FS_CardinalityType DEF OrphanInv
  <2>3. Cardinality(Orphans \cup driven) = Cardinality(Orphans) + Cardinality(driven)
    <3>1. Cardinality(Orphans \cap driven) = 0
      BY <1>5, FS_EmptySet
    <3>2. IsFiniteSet(Orphans)
      BY DEF OrphanInv
    <3>3. Cardinality(Orphans \cup driven) =
            Cardinality(Orphans) + Cardinality(driven) - Cardinality(Orphans \cap driven)
      BY <1>4, <3>2, FS_Union
    <3> QED BY <1>4, <2>2, <3>1, <3>3
  <2> QED BY <1>5, <2>1, <2>2, <2>3
<1>7. Cardinality(OpenActions) <= lost + Cardinality(live)
  BY <1>4, <1>6 DEF OrphanInv
<1> QED BY <1>7 DEF OpenActionsAreLostRuns, OpenActions, live

\* The only open actions are those that live runs are driving and those that
\* lost runs were driving, one per run at most: between two runs of
\* execute_action nothing is left proposed or running.
THEOREM OpenActionsCharged ==
  ASSUME NoProposals
  PROVE  SessionSpec => []OpenActionsAreLostRuns
<1>1. DriverInv /\ Accounts /\ OrphanInv => OpenActionsAreLostRuns
  BY OpenActionsBounded
<1> QED BY <1>1, DriverInvariant, AccountsInvariant, OrphanInvariant, PTL

-----------------------------------------------------------------------------
(* A session alone on its log                                              *)

\* One process, and no command line.
Alone(s) == Session = {s} /\ Requests = {}

\* The state a lone session reconstructed is still the log's when it replaces
\* the snapshot, and the snapshot of a run that returned is the log's state.
Fresh ==
  \A s \in Session :
    /\ session[s].pc = "replacing" => session[s].view = reduced
    /\ session[s].pc = "returned" => snapshot = reduced

LEMMA FreshNext ==
  ASSUME NEW s \in Session, Alone(s), SessionInv, Fresh, [SessionNext]_sessionVars
  PROVE  Fresh'
<1>1. /\ SessionTypeOK /\ session[s] \in SessionState /\ Scripted(s)
      /\ Session = {s} /\ Requests = {}
  BY DEF SessionInv, SessionTypeOK, Alone
<1> SUFFICES /\ session'[s].pc = "replacing" => session'[s].view = reduced'
             /\ session'[s].pc = "returned" => snapshot' = reduced'
  BY <1>1 DEF Fresh
<1>2. CASE CommandLine
  BY <1>1, <1>2 DEF CommandLine, LogNext
<1>3. CASE UNCHANGED sessionVars
  BY <1>3 DEF sessionVars, Fresh
<1>4. CASE Reduce(s)
  BY <1>1, <1>4 DEF Reduce, SessionTypeOK, SessionState
<1>5. CASE Replace(s)
  <2>1. session[s].pc = "replacing" /\ UNCHANGED reduced /\ snapshot' = session[s].view
    BY <1>5 DEF Replace, At
  <2>2. session'[s].pc # "replacing"
    <3>1. session[s].then \in {"entering", "deciding", "executing", "finishing", "returned"}
      BY <1>1, <2>1 DEF Scripted, Pending
    <3> QED BY <1>1, <1>5, <3>1 DEF Replace, SessionTypeOK, SessionState
  <2> QED BY <2>1, <2>2 DEF Fresh
<1>6. CASE Name(s)
  BY <1>1, <1>6, NameQueues
<1>7. CASE Execute(s)
  BY <1>1, <1>7, ExecuteQueues
<1>8. CASE AppendFirst(s)
  <2>1. CASE Accepts(reduced, session[s].todo[1])
    BY <1>1, <1>8, <2>1, AppendMoves
  <2>2. CASE ~Accepts(reduced, session[s].todo[1])
    <3>1. Head(session[s].todo) = session[s].todo[1]
      BY <1>1, <1>8 DEF Scripted, AppendFirst, At, SessionState
    <3>2. session' = [session EXCEPT ![s].pc = "raised"]
      BY <1>8, <2>2, <3>1 DEF AppendFirst
    <3> QED BY <1>1, <3>2 DEF SessionTypeOK, SessionState
  <2> QED BY <2>1, <2>2
<1>9. CASE Enter(s) \/ Finish(s) \/ Act(s)
  <2>1. session'[s].pc \in {"deciding", "naming"}
    BY <1>1, <1>9, CallMoves
  <2> QED BY <2>1
<1>10. CASE Report(s) \/ RejectDecision(s)
  BY <1>1, <1>10 DEF Report, RejectDecision, SessionTypeOK, SessionState
<1>11. CASE Open(s)
  <2> DEFINE self == [Closed(session[s].runs + 1) EXCEPT
                        !.pc = IF lines = <<>> THEN "appending" ELSE "reducing",
                        !.todo = IF lines = <<>>
                                   THEN <<Write("run_started", NoId, "recorded", {})>>
                                   ELSE <<>>,
                        !.then = "entering"]
  <2>1. session' = [session EXCEPT ![s] = self]
    BY <1>11 DEF Open
  <2>2. self.pc \in {"appending", "reducing"}
    BY DEF Closed
  <2> HIDE DEF self
  <2> QED BY <1>1, <2>1, <2>2 DEF SessionTypeOK
<1>12. CASE Crash(s) \/ Reopen(s)
  BY <1>1, <1>12 DEF Crash, Reopen, Closed, SessionTypeOK
<1> QED
  BY <1>1, <1>2, <1>3, <1>4, <1>5, <1>6, <1>7, <1>8, <1>9, <1>10, <1>11, <1>12
     DEF SessionNext, Step

LEMMA FreshInvariant ==
  ASSUME NEW s \in Session, Alone(s)
  PROVE  SessionSpec => []Fresh
<1>1. SessionInit => Fresh
  BY DEF SessionInit, Fresh, Closed
<1>2. SessionInv /\ Fresh /\ [SessionNext]_sessionVars => Fresh'
  BY FreshNext
<1> QED BY <1>1, <1>2, SessionInvariant, PTL DEF SessionSpec

\* A run that returned and is alone on its log leaves what
\* audit_state_artifacts accepts: the snapshot is the reconstruction of the
\* log, and every action has ended unless an earlier run was lost.
THEOREM ReturnedAudits ==
  ASSUME NEW s \in Session, Alone(s)
  PROVE  SessionSpec => []ReturnedRunAudits
<1>1. NoProposals
  BY DEF Alone, NoProposals
<1>2. DriverInv /\ Accounts /\ OrphanInv /\ Fresh => ReturnedRunAudits
  <2> SUFFICES ASSUME DriverInv, Accounts, OrphanInv, Fresh, session[s].pc = "returned"
               PROVE  snapshot = reduced /\ (lost = 0 => Terminal(reduced))
    BY DEF ReturnedRunAudits, Alone
  <2>1. snapshot = reduced
    BY DEF Fresh
  <2>2. ASSUME lost = 0, NEW a \in Known(reduced, Action)
        PROVE  reduced.objects[a].value \in {"succeeded", "failed", "rolled_back"}
    <3>1. Orphans = {}
      BY <2>2, FS_CardinalityType, FS_EmptySet DEF OrphanInv
    <3>2. a \notin OpenActions
      BY <3>1 DEF Orphans, Alone, Live
    <3>3. reduced.objects[a].value \in ActionStatus
      BY DEF DriverInv, SessionInv, RecordsInv, ActionsHaveStatus
    <3> QED BY <3>2, <3>3 DEF OpenActions, ActionStatus
  <2> QED BY <2>1, <2>2 DEF Terminal
<1>3. SessionSpec => []OrphanInv
  BY <1>1, OrphanInvariant
<1>4. SessionSpec => []Fresh
  BY FreshInvariant
<1> QED BY <1>2, <1>3, <1>4, DriverInvariant, AccountsInvariant, PTL
=============================================================================
