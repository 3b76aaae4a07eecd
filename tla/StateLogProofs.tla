--------------------------- MODULE StateLogProofs ---------------------------
(***************************************************************************)
(* What holds of every history of the state log, for every set of          *)
(* identifiers and every set of requests.                                  *)
(***************************************************************************)
EXTENDS StateLog, FiniteSetTheorems, TLAPS

-----------------------------------------------------------------------------
(* The reducer                                                             *)

\* An event built for a state that has seen last + 1 events is well typed.
LEMMA NextEventType ==
  ASSUME NEW state \in State, state.last >= -1, NEW payload \in Payload
  PROVE  NextEvent(state, payload) \in Event
BY DEF NextEvent, Event, State

\* _upsert, _record_unique and _mark_transition write a record.
LEMMA RewriteType ==
  ASSUME NEW record \in Record, NEW event \in Event
  PROVE  Rewrite(record, event) \in Record
BY DEF Rewrite, Record, Event, Payload

\* apply_event leaves a state.
LEMMA ApplyEventType ==
  ASSUME NEW state \in State, NEW event \in Event
  PROVE  ApplyEvent(state, event) \in State
<1>1. HashOf(event) \in Hash
  BY DEF HashOf, Hash, Event
<1>2. \A o \in Object : state.objects[o] \in Record
  BY DEF State
<1>3. \A o \in Object : Rewrite(state.objects[o], event) \in Record
  BY <1>2, RewriteType
<1> QED
  BY <1>1, <1>2, <1>3 DEF ApplyEvent, State, Event

LEMMA InitialStateType == InitialState \in State
BY DEF InitialState, State, Hash, Genesis, Record, AbsentRecord

-----------------------------------------------------------------------------
(* The log                                                                 *)

\* The state a log reduces to remembers how long the log is and how it ends,
\* and knows only objects that some event introduced.
Summarised ==
  /\ reduced.last = Len(lines) - 1
  /\ reduced.hash = IF lines = <<>> THEN Genesis ELSE HashOf(lines[Len(lines)])
  /\ reduced.started <=> lines # <<>>

Introduced ==
  \A o \in Object : reduced.objects[o].revision > 0 =>
    \E j \in 1 .. Len(lines) : lines[j].payload.id = o

LogInv ==
  /\ LogTypeOK
  /\ Summarised
  /\ Introduced
  /\ ChainUnbroken
  /\ StartsOnce
  /\ CitationsGrounded

LEMMA LogInitInv == LogInit => LogInv
BY InitialStateType
   DEF LogInit, LogInv, LogTypeOK, Summarised, Introduced, ChainUnbroken, StartsOnce,
       CitationsGrounded, InitialState, AbsentRecord

\* What one accepted payload adds to a log that satisfies the invariant.
LEMMA AppendKeepsInv ==
  ASSUME LogInv, NEW payload \in Payload, AppendPayload(payload)
  PROVE  LogInv'
<1> DEFINE event == NextEvent(reduced, payload)
           n == Len(lines)
<1>1. event \in Event
  BY NextEventType DEF LogInv, LogTypeOK, Summarised
<1>2. /\ lines' = Append(lines, event)
      /\ reduced' = ApplyEvent(reduced, event)
      /\ Accepts(reduced, payload)
  BY DEF AppendPayload, AppendEvent
<1>3. LogTypeOK'
  BY <1>1, <1>2, ApplyEventType DEF LogInv, LogTypeOK
<1>4. /\ Len(lines') = n + 1
      /\ lines'[n + 1] = event
      /\ \A i \in 1 .. n : lines'[i] = lines[i]
  BY <1>1, <1>2 DEF LogInv, LogTypeOK
<1>5. event.payload = payload /\ event.sequence = n /\ event.previous = reduced.hash
  BY DEF NextEvent, LogInv, Summarised
<1> HIDE DEF event, n
<1>6. Summarised'
  <2>1. reduced'.last = n /\ reduced'.hash = HashOf(event) /\ reduced'.started
    BY <1>2, <1>5 DEF ApplyEvent
  <2> QED
    BY <2>1, <1>4, <1>3 DEF Summarised, LogTypeOK, n, LogInv
<1>7. Introduced'
  <2> SUFFICES ASSUME NEW o \in Object, reduced'.objects[o].revision > 0
               PROVE  \E j \in 1 .. n + 1 : lines'[j].payload.id = o
    BY <1>4 DEF Introduced
  <2>1. CASE o = payload.id
    BY <2>1, <1>4, <1>5 DEF n, LogInv, LogTypeOK
  <2>2. CASE o # payload.id
    <3>1. reduced'.objects[o] = reduced.objects[o]
      BY <2>2, <1>2, <1>5 DEF ApplyEvent
    <3>2. PICK j \in 1 .. n : lines[j].payload.id = o
      BY <3>1 DEF LogInv, Introduced, n
    <3> QED
      BY <3>2, <1>4 DEF n
  <2> QED BY <2>1, <2>2
<1>8. ChainUnbroken'
  <2> SUFFICES ASSUME NEW i \in 1 .. n + 1
               PROVE  /\ lines'[i].sequence = i - 1
                      /\ lines'[i].previous = IF i = 1 THEN Genesis ELSE HashOf(lines'[i - 1])
    BY <1>4 DEF ChainUnbroken
  <2>1. CASE i \in 1 .. n
    <3>1. i # 1 => lines'[i - 1] = lines[i - 1]
      BY <2>1, <1>4 DEF n, LogInv, LogTypeOK
    <3> QED BY <2>1, <3>1, <1>4 DEF LogInv, ChainUnbroken, n
  <2>2. CASE i = n + 1
    <3>1. n # 0 => lines # <<>> /\ lines'[n] = lines[n]
      BY <1>4 DEF n, LogInv, LogTypeOK
    <3>2. n = 0 => lines = <<>>
      BY DEF n, LogInv, LogTypeOK
    <3> QED BY <2>2, <3>1, <3>2, <1>4, <1>5 DEF LogInv, Summarised, n
  <2> QED BY <2>1, <2>2 DEF n
<1>9. StartsOnce'
  <2>1. payload.kind = "run_started" <=> lines = <<>>
    BY <1>2 DEF Accepts, Begins, LogInv, Summarised
  <2>2. lines = <<>> <=> n = 0
    BY DEF n, LogInv, LogTypeOK
  <2> QED
    BY <2>1, <2>2, <1>4, <1>5 DEF StartsOnce, LogInv, n, LogTypeOK
<1>10. CitationsGrounded'
  <2> SUFFICES ASSUME NEW i \in 1 .. n + 1, lines'[i].payload.kind # "evidence_recorded",
                      NEW r \in lines'[i].payload.refs
               PROVE  \E j \in 1 .. i - 1 : lines'[j].payload.id = r
    BY <1>4 DEF CitationsGrounded
  <2>1. CASE i \in 1 .. n
    <3>1. PICK j \in 1 .. i - 1 : lines[j].payload.id = r
      BY <2>1, <1>4 DEF LogInv, CitationsGrounded, n
    <3> QED BY <3>1, <2>1, <1>4 DEF n, LogInv, LogTypeOK
  <2>2. CASE i = n + 1
    <3>1. r \in Object /\ reduced.objects[r].revision > 0
      BY <2>2, <1>2, <1>4, <1>5 DEF Accepts, Grounded, Known
    <3>2. PICK j \in 1 .. n : lines[j].payload.id = r
      BY <3>1 DEF LogInv, Introduced, n
    <3> QED BY <3>2, <2>2, <1>4 DEF n, LogInv, LogTypeOK
  <2> QED BY <2>1, <2>2 DEF n
<1> QED BY <1>3, <1>6, <1>7, <1>8, <1>9, <1>10 DEF LogInv

LEMMA LogNextInv == LogInv /\ [LogNext]_logVars => LogInv'
<1> SUFFICES ASSUME LogInv, [LogNext]_logVars PROVE LogInv'
  OBVIOUS
<1>1. CASE LogNext
  BY <1>1, AppendKeepsInv, RequestsArePayloads DEF LogNext
<1>2. CASE UNCHANGED logVars
  <2>1. lines' = lines /\ reduced' = reduced
    BY <1>2 DEF logVars
  <2>2. (LogTypeOK /\ Summarised /\ Introduced)'
    BY <2>1 DEF LogInv, LogTypeOK, Summarised, Introduced
  <2>3. (ChainUnbroken /\ StartsOnce /\ CitationsGrounded)'
    BY <2>1 DEF LogInv, ChainUnbroken, StartsOnce, CitationsGrounded
  <2> QED BY <2>2, <2>3 DEF LogInv
<1> QED BY <1>1, <1>2

\* The invariant holds of every behaviour of the log.
THEOREM LogInvariant == LogSpec => []LogInv
<1>1. LogInit => LogInv BY LogInitInv
<1>2. LogInv /\ [LogNext]_logVars => LogInv' BY LogNextInv
<1> QED BY <1>1, <1>2, PTL DEF LogSpec

\* The log and the state reconstructed from it are well typed.
THEOREM LogTypeCorrect == LogSpec => []LogTypeOK
<1>1. LogInv => LogTypeOK BY DEF LogInv
<1> QED BY <1>1, LogInvariant, PTL

\* Every log is one unbroken hash chain, starts with run_started and with
\* nothing else, and cites only what it introduced before.
THEOREM LogSafety == LogSpec => [](ChainUnbroken /\ StartsOnce /\ CitationsGrounded)
<1>1. LogInv => ChainUnbroken /\ StartsOnce /\ CitationsGrounded BY DEF LogInv
<1> QED BY <1>1, LogInvariant, PTL

-----------------------------------------------------------------------------
(* Metadata                                                                *)

\* The metadata of an object follows its last writer when an event is added.
LEMMA AppendKeepsProvenance ==
  ASSUME LogInv, ProvenanceIsLatestEvent, NEW payload \in Payload, AppendPayload(payload)
  PROVE  ProvenanceIsLatestEvent'
<1> DEFINE event == NextEvent(reduced, payload)
           n == Len(lines)
<1>1. event \in Event
  BY NextEventType DEF LogInv, LogTypeOK, Summarised
<1>2. /\ lines' = Append(lines, event)
      /\ reduced' = ApplyEvent(reduced, event)
  BY DEF AppendPayload, AppendEvent
<1>3. /\ n \in Nat
      /\ Len(lines') = n + 1
      /\ lines'[n + 1] = event
      /\ \A i \in 1 .. n : lines'[i] = lines[i]
  BY <1>1, <1>2 DEF LogInv, LogTypeOK
<1>4. event.payload = payload /\ event.sequence = n
  BY DEF NextEvent, LogInv, Summarised
<1> HIDE DEF event, n
<1> SUFFICES ASSUME NEW o \in Object
    PROVE  LET record == reduced'.objects[o] IN
             /\ record.revision = Cardinality(Writers(o)')
             /\ record.revision > 0 =>
                  /\ record.sequence + 1 \in Writers(o)'
                  /\ \A i \in Writers(o)' : i <= record.sequence + 1
                  /\ record.value = lines'[record.sequence + 1].payload.value
  BY DEF ProvenanceIsLatestEvent
<1>5. LET record == reduced.objects[o] IN
        /\ record \in Record
        /\ record.revision = Cardinality(Writers(o))
        /\ record.revision > 0 =>
             /\ record.sequence + 1 \in Writers(o)
             /\ \A i \in Writers(o) : i <= record.sequence + 1
             /\ record.value = lines[record.sequence + 1].payload.value
  BY DEF ProvenanceIsLatestEvent, LogInv, LogTypeOK, State
<1>6. Writers(o) \subseteq 1 .. n /\ IsFiniteSet(Writers(o))
  <2>1. Writers(o) \subseteq 1 .. n
    BY DEF Writers, n
  <2>2. IsFiniteSet(1 .. n)
    BY <1>3, FS_Interval
  <2> QED BY <2>1, <2>2, FS_Subset
<1>7. CASE o = payload.id
  <2>1. Writers(o)' = Writers(o) \cup {n + 1}
    BY <1>7, <1>3, <1>4 DEF Writers, n
  <2>2. n + 1 \notin Writers(o)
    BY <1>6, <1>3
  <2>3. Cardinality(Writers(o)') = Cardinality(Writers(o)) + 1
    BY <2>1, <2>2, <1>6, FS_AddElement
  <2>4. reduced'.objects[o] = Rewrite(reduced.objects[o], event)
    BY <1>7, <1>2, <1>4 DEF ApplyEvent
  <2>5. /\ reduced'.objects[o].revision = reduced.objects[o].revision + 1
        /\ reduced'.objects[o].sequence = n
        /\ reduced'.objects[o].value = payload.value
    BY <2>4, <1>4 DEF Rewrite
  <2> QED
    BY <2>1, <2>3, <2>5, <1>3, <1>4, <1>5, <1>6
<1>8. CASE o # payload.id
  <2>1. Writers(o)' = Writers(o)
    BY <1>8, <1>3, <1>4 DEF Writers, n
  <2>2. reduced'.objects[o] = reduced.objects[o]
    BY <1>8, <1>2, <1>4 DEF ApplyEvent
  <2> QED
    BY <2>1, <2>2, <1>3, <1>5, <1>6
<1> QED BY <1>7, <1>8

\* The metadata of every object tells which event wrote it last and how many
\* events did.
THEOREM ProvenanceCorrect == LogSpec => []ProvenanceIsLatestEvent
<1>1. LogInit => ProvenanceIsLatestEvent
  <2> SUFFICES ASSUME LogInit, NEW o \in Object
               PROVE  reduced.objects[o].revision = 0 /\ Cardinality(Writers(o)) = 0
    BY DEF ProvenanceIsLatestEvent
  <2>1. Writers(o) = {}
    BY DEF LogInit, Writers
  <2> QED BY <2>1, FS_EmptySet DEF LogInit, InitialState, AbsentRecord
<1>2. LogInv /\ ProvenanceIsLatestEvent /\ [LogNext]_logVars => ProvenanceIsLatestEvent'
  <2> SUFFICES ASSUME LogInv, ProvenanceIsLatestEvent, [LogNext]_logVars
               PROVE  ProvenanceIsLatestEvent'
    OBVIOUS
  <2>1. CASE LogNext
    BY <2>1, AppendKeepsProvenance, RequestsArePayloads DEF LogNext
  <2>2. CASE UNCHANGED logVars
    BY <2>2 DEF logVars, ProvenanceIsLatestEvent, Writers
  <2> QED BY <2>1, <2>2
<1> QED BY <1>1, <1>2, LogInvariant, PTL DEF LogSpec

-----------------------------------------------------------------------------
(* Actions                                                                 *)

\* The values the events of the action dimension leave, and the ones they find.
LEMMA ActionEvents ==
  ASSUME NEW payload, NEW state \in State, Accepts(state, payload), payload.id \in Action
  PROVE  \/ /\ payload.kind = "action_proposed"
            /\ payload.value = "proposed"
            /\ state.objects[payload.id].revision = 0
         \/ /\ payload.kind = "action_started"
            /\ payload.value = "running"
            /\ state.objects[payload.id].value = "proposed"
         \/ /\ payload.kind = "action_finished"
            /\ payload.value \in {"succeeded", "failed"}
            /\ state.objects[payload.id].value = "running"
         \/ /\ payload.kind = "rollback_recorded"
            /\ payload.value = "rolled_back"
            /\ state.objects[payload.id].value \in {"succeeded", "failed"}
<1>1. payload.id \in Object /\ payload.id # NoId
  BY DimensionsDisjoint DEF Object
<1>2. payload.kind \in {"action_proposed"} \cup TransitionKind
  BY <1>1, DimensionsDisjoint DEF Accepts, Dimension, TransitionKind
<1>3. CASE payload.kind = "action_proposed"
  BY <1>1, <1>3 DEF Accepts, Values, New, UniqueKind, Known, State, Record
<1>4. CASE payload.kind \in TransitionKind
  BY <1>1, <1>4 DEF Accepts, Values, Movable, TransitionKind, Source
<1> QED BY <1>2, <1>3, <1>4

\* What an accepted payload writes: one line, and one record.
LEMMA AppendWrites ==
  ASSUME LogInv, NEW payload \in Payload, AppendPayload(payload)
  PROVE  /\ Accepts(reduced, payload)
         /\ Len(lines) \in Nat /\ Len(lines') = Len(lines) + 1
         /\ \A i \in 1 .. Len(lines) : lines'[i] = lines[i]
         /\ lines'[Len(lines) + 1].payload = payload
         /\ \A o \in Object :
              /\ reduced'.objects[o].value =
                   IF o = payload.id THEN payload.value ELSE reduced.objects[o].value
              /\ reduced'.objects[o].revision =
                   IF o = payload.id THEN reduced.objects[o].revision + 1
                                     ELSE reduced.objects[o].revision
<1> DEFINE event == NextEvent(reduced, payload)
<1>1. event \in Event
  BY NextEventType DEF LogInv, LogTypeOK, Summarised
<1>2. /\ Accepts(reduced, payload)
      /\ lines' = Append(lines, event)
      /\ reduced' = ApplyEvent(reduced, event)
  BY DEF AppendPayload, AppendEvent
<1>3. event.payload = payload
  BY DEF NextEvent
<1> HIDE DEF event
<1>4. /\ Len(lines) \in Nat /\ Len(lines') = Len(lines) + 1
      /\ \A i \in 1 .. Len(lines) : lines'[i] = lines[i]
      /\ lines'[Len(lines) + 1] = event
  BY <1>1, <1>2 DEF LogInv, LogTypeOK
<1>5. ASSUME NEW o \in Object
      PROVE  /\ reduced'.objects[o].value =
                  IF o = payload.id THEN payload.value ELSE reduced.objects[o].value
             /\ reduced'.objects[o].revision =
                  IF o = payload.id THEN reduced.objects[o].revision + 1
                                    ELSE reduced.objects[o].revision
  BY <1>2, <1>3 DEF ApplyEvent, Rewrite
<1> QED BY <1>2, <1>3, <1>4, <1>5

\* A record that no event wrote has no status, and an action that some event
\* wrote has one of the lifecycle's.
AbsentIsUnwritten ==
  \A o \in Object : reduced.objects[o].revision = 0 => reduced.objects[o].value = "absent"

ActionsHaveStatus ==
  \A a \in Known(reduced, Action) : reduced.objects[a].value \in ActionStatus

RecordsInv == AbsentIsUnwritten /\ ActionsHaveStatus

LEMMA LogInitRecords == LogInit => RecordsInv
BY DEF LogInit, InitialState, AbsentRecord, RecordsInv, AbsentIsUnwritten,
       ActionsHaveStatus, Known, Object

LEMMA AppendKeepsRecords ==
  ASSUME LogInv, RecordsInv, NEW payload \in Payload, AppendPayload(payload)
  PROVE  RecordsInv'
<1>1. /\ Accepts(reduced, payload)
      /\ \A o \in Object :
           /\ reduced'.objects[o].value =
                IF o = payload.id THEN payload.value ELSE reduced.objects[o].value
           /\ reduced'.objects[o].revision =
                IF o = payload.id THEN reduced.objects[o].revision + 1
                                  ELSE reduced.objects[o].revision
  BY AppendWrites
<1>2. /\ reduced \in State
      /\ \A o \in Object : reduced.objects[o].revision \in Nat
      /\ Action \subseteq Object
  BY DEF LogInv, LogTypeOK, State, Record, Object
<1>3. AbsentIsUnwritten'
  BY <1>1, <1>2 DEF RecordsInv, AbsentIsUnwritten
<1>4. ASSUME NEW a \in Action, reduced'.objects[a].revision > 0
      PROVE  reduced'.objects[a].value \in ActionStatus
  <2>1. CASE a = payload.id
    <3>1. payload.value \in ActionStatus
      BY <2>1, <1>1, <1>2, ActionEvents DEF ActionStatus
    <3> QED BY <3>1, <2>1, <1>1, <1>2
  <2>2. CASE a # payload.id
    BY <2>2, <1>1, <1>2, <1>4 DEF RecordsInv, ActionsHaveStatus, Known
  <2> QED BY <2>1, <2>2
<1>5. ActionsHaveStatus'
  BY <1>4 DEF ActionsHaveStatus, Known
<1> QED BY <1>3, <1>5 DEF RecordsInv

LEMMA RecordsInvariant == LogSpec => []RecordsInv
<1>1. LogInv /\ RecordsInv /\ [LogNext]_logVars => RecordsInv'
  <2> SUFFICES ASSUME LogInv, RecordsInv, [LogNext]_logVars PROVE RecordsInv'
    OBVIOUS
  <2>1. CASE LogNext
    BY <2>1, AppendKeepsRecords, RequestsArePayloads DEF LogNext
  <2>2. CASE UNCHANGED logVars
    BY <2>2 DEF logVars, RecordsInv, AbsentIsUnwritten, ActionsHaveStatus, Known
  <2> QED BY <2>1, <2>2
<1> QED BY <1>1, LogInitRecords, LogInvariant, PTL DEF LogSpec

\* An accepted payload moves at most one action, one step of its lifecycle.
LEMMA AppendFollowsLifecycle ==
  ASSUME LogInv, RecordsInv, NEW payload \in Payload, AppendPayload(payload)
  PROVE  [Lifecycle!Next]_[a \in Action |-> reduced.objects[a].value]
<1> DEFINE status == [a \in Action |-> reduced.objects[a].value]
           a == payload.id
<1> SUFFICES Lifecycle!Next \/ status' = status
  OBVIOUS
<1>1. /\ Accepts(reduced, payload)
      /\ \A o \in Object : reduced'.objects[o].value =
           IF o = a THEN payload.value ELSE reduced.objects[o].value
  BY AppendWrites
<1>2. reduced \in State /\ Action \subseteq Object
  BY DEF LogInv, LogTypeOK, Object
<1>3. CASE a \in Action
  <2>1. status' = [status EXCEPT ![a] = payload.value]
    BY <1>1, <1>2
  <2>2. status[a] = reduced.objects[a].value
    BY <1>3
  <2>3. \/ status[a] = "absent" /\ payload.value = "proposed"
        \/ status[a] = "proposed" /\ payload.value = "running"
        \/ status[a] = "running" /\ payload.value \in {"succeeded", "failed"}
        \/ status[a] \in {"succeeded", "failed"} /\ payload.value = "rolled_back"
    BY <2>2, <1>1, <1>2, <1>3, ActionEvents DEF RecordsInv, AbsentIsUnwritten
  <2> QED
    BY <2>1, <2>3, <1>3
       DEF Lifecycle!Next, Lifecycle!Propose, Lifecycle!Start, Lifecycle!Finish,
           Lifecycle!RollBack, Lifecycle!Move
<1>4. CASE a \notin Action
  BY <1>4, <1>1, <1>2
<1> QED BY <1>3, <1>4

LEMMA LifecycleInit == LogInit => Lifecycle!Init
BY DEF LogInit, Lifecycle!Init, InitialState, AbsentRecord, Object

\* Actions move through the lifecycle of the state protocol and no other way.
THEOREM LifecycleImplemented == LogSpec => ActionsFollowLifecycle
<1> DEFINE status == [a \in Action |-> reduced.objects[a].value]
<1>1. LogInv /\ RecordsInv /\ [LogNext]_logVars => [Lifecycle!Next]_status
  <2> SUFFICES ASSUME LogInv, RecordsInv, [LogNext]_logVars
               PROVE  [Lifecycle!Next]_status
    OBVIOUS
  <2>1. CASE LogNext
    BY <2>1, AppendFollowsLifecycle, RequestsArePayloads DEF LogNext
  <2>2. CASE UNCHANGED logVars
    BY <2>2 DEF logVars
  <2> QED BY <2>1, <2>2
<1> QED
  BY <1>1, LifecycleInit, LogInvariant, RecordsInvariant, PTL
     DEF LogSpec, ActionsFollowLifecycle, Lifecycle!Spec

=============================================================================
