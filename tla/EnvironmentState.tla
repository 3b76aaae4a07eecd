-------------------------- MODULE EnvironmentState --------------------------
(***************************************************************************)
(* The reducer of envsolve/state/reducer.py: which event may follow a      *)
(* state, and what state it produces.  Every dimension of the code's       *)
(* EnvironmentState is a dictionary of its own, so the identifiers of two  *)
(* dimensions never meet: here the dimensions are disjoint sets of         *)
(* identifiers and one function maps every identifier to its record.       *)
(***************************************************************************)
EXTENDS Integers, Sequences

CONSTANTS
  Evidence,     \* identifiers of state.evidence
  Constraint,   \* identifiers of state.constraints
  Hypothesis,   \* identifiers of state.hypotheses
  Goal,         \* identifiers of state.goals
  Fact,         \* names of state.environment, and the repository profile
  Action,       \* identifiers of state.actions
  Failure,      \* identifiers of state.failures
  NoId          \* the target of an event that names no object

Object == UNION {Evidence, Constraint, Hypothesis, Goal, Fact, Action, Failure}

\* The reducer keeps one dictionary per dimension.
ASSUME DimensionsDisjoint ==
  /\ Evidence \cap UNION {Constraint, Hypothesis, Goal, Fact, Action, Failure} = {}
  /\ Constraint \cap UNION {Hypothesis, Goal, Fact, Action, Failure} = {}
  /\ Hypothesis \cap UNION {Goal, Fact, Action, Failure} = {}
  /\ Goal \cap UNION {Fact, Action, Failure} = {}
  /\ Fact \cap UNION {Action, Failure} = {}
  /\ Action \cap Failure = {}
  /\ NoId \notin Object

-----------------------------------------------------------------------------
(* Events.  A payload names its target object, the value the target takes, *)
(* the identifiers it cites, and whether its own fields are well formed    *)
(* (confidence in [0, 1], a known status, an integer exit code, ...).      *)

UpsertKind == {"constraint_upserted", "hypothesis_upserted", "goal_upserted",
               "environment_updated"}

UniqueKind == {"evidence_recorded", "action_proposed", "failure_recorded"}

TransitionKind == {"action_started", "action_finished", "rollback_recorded"}

EventType == UNION {UpsertKind, UniqueKind, TransitionKind,
                    {"run_started", "verification_recorded"}}

ActionStatus == {"proposed", "running", "succeeded", "failed", "rolled_back"}

Status == UNION {{"active", "satisfied", "violated", "superseded"},
                 {"active", "confirmed", "rejected"},
                 {"pending", "in_progress", "satisfied", "blocked"},
                 {"observed", "recorded"}, ActionStatus}

Payload == [kind : EventType, id : Object \cup {NoId}, value : Status,
            refs : SUBSET Object, wellFormed : BOOLEAN]

\* GENESIS_HASH
Genesis == <<>>

Hash == (Nat \X Payload) \cup {Genesis}

Event == [payload : Payload, sequence : Nat, previous : Hash]

\* compute_event_hash: distinct events of one log have distinct hashes.
HashOf(event) == <<event.sequence, event.payload>>

\* The dimension an event of each kind writes to.
Dimension(kind) ==
  CASE kind = "evidence_recorded"   -> Evidence
    [] kind = "constraint_upserted" -> Constraint
    [] kind = "hypothesis_upserted" -> Hypothesis
    [] kind = "goal_upserted"       -> Goal
    [] kind = "environment_updated" -> Fact
    [] kind = "failure_recorded"    -> Failure
    [] kind \in TransitionKind \cup {"action_proposed"} -> Action
    [] OTHER -> {NoId}

\* The dimension whose existence the reducer requires of the cited objects;
\* evidence may mention anything.
Citable(kind) ==
  CASE kind \in {"constraint_upserted", "hypothesis_upserted"} -> Evidence
    [] kind = "action_proposed"  -> Constraint
    [] kind = "failure_recorded" -> Action
    [] kind = "evidence_recorded" -> Object
    [] OTHER -> {}

\* Mutant: a running action may be rolled back.
SourceLoose(kind) ==
  CASE kind = "action_started"    -> {"proposed"}
    [] kind = "action_finished"   -> {"running"}
    [] kind = "rollback_recorded" -> {"running", "succeeded", "failed"}
    [] OTHER -> {}

\* The status an action must have for a transition event.
Source(kind) ==
  CASE kind = "action_started"    -> {"proposed"}
    [] kind = "action_finished"   -> {"running"}
    [] kind = "rollback_recorded" -> {"succeeded", "failed"}
    [] OTHER -> {}

\* The values an event of each kind may give its target.
Values(kind) ==
  CASE kind = "constraint_upserted" -> {"active", "satisfied", "violated", "superseded"}
    [] kind = "hypothesis_upserted" -> {"active", "confirmed", "rejected"}
    [] kind = "goal_upserted"       -> {"pending", "in_progress", "satisfied", "blocked"}
    [] kind = "environment_updated" -> {"observed"}
    [] kind = "action_proposed"     -> {"proposed"}
    [] kind = "action_started"      -> {"running"}
    [] kind = "action_finished"     -> {"succeeded", "failed"}
    [] kind = "rollback_recorded"   -> {"rolled_back"}
    [] OTHER -> {"recorded"}

-----------------------------------------------------------------------------
(* States.                                                                 *)

\* A record's revision counts the events that wrote it and its sequence is
\* that of the last one (state_metadata); revision 0 is "not in the dictionary".
Record == [value : Status \cup {"absent"}, revision : Nat,
           sequence : Int, refs : SUBSET Object]

State == [last : Int, hash : Hash, started : BOOLEAN, objects : [Object -> Record],
          verifications : SUBSET Nat, rollbacks : SUBSET Nat]

AbsentRecord == [value |-> "absent", revision |-> 0, sequence |-> -1, refs |-> {}]

InitialState ==
  [last |-> -1, hash |-> Genesis, started |-> FALSE,
   objects |-> [o \in Object |-> AbsentRecord],
   verifications |-> {}, rollbacks |-> {}]

Known(state, dimension) == {o \in dimension : state.objects[o].revision > 0}

Terminal(state) ==
  \A a \in Known(state, Action) :
    state.objects[a].value \in {"succeeded", "failed", "rolled_back"}

\* run_started is the first event, and only the first.
Begins(state, payload) == payload.kind = "run_started" <=> ~state.started

\* Mutants: references are not looked up; identifiers are not looked up.
GroundedUnchecked(state, payload) == payload.refs \subseteq Citable(payload.kind)
NewUnchecked(state, payload) == TRUE

\* _require_references; evidence may mention anything.
Grounded(state, payload) ==
  /\ payload.refs \subseteq Citable(payload.kind)
  /\ payload.kind # "evidence_recorded" => payload.refs \subseteq Known(state, Object)

\* _record_unique
New(state, payload) ==
  payload.kind \in UniqueKind => payload.id \notin Known(state, Object)

\* A transition finds its action in the status it starts from.
Movable(state, payload) ==
  payload.kind \in TransitionKind =>
    state.objects[payload.id].value \in Source(payload.kind)

\* The payloads StateEvent.create and apply_event accept in a state.
Accepts(state, payload) ==
  /\ payload.wellFormed
  /\ payload.value \in Values(payload.kind)
  /\ payload.id \in Dimension(payload.kind)
  /\ Begins(state, payload)
  /\ Grounded(state, payload)
  /\ New(state, payload)
  /\ Movable(state, payload)

NextEvent(state, payload) ==
  [payload |-> payload, sequence |-> state.last + 1, previous |-> state.hash]

\* What _record_unique, _upsert and _mark_transition leave of the target.
Rewrite(record, event) ==
  [value    |-> event.payload.value,
   revision |-> record.revision + 1,
   sequence |-> event.sequence,
   refs     |-> IF event.payload.kind \in TransitionKind
                  THEN record.refs ELSE event.payload.refs]

ApplyEvent(state, event) ==
  LET payload == event.payload
      SequenceOf(kind) == IF payload.kind = kind THEN {event.sequence} ELSE {}
  IN [last    |-> event.sequence,
      hash    |-> HashOf(event),
      started |-> TRUE,
      objects |-> [o \in Object |-> IF o = payload.id THEN Rewrite(state.objects[o], event)
                                                     ELSE state.objects[o]],
      verifications |-> state.verifications \cup SequenceOf("verification_recorded"),
      rollbacks     |-> state.rollbacks \cup SequenceOf("rollback_recorded")]

=============================================================================
