------------------------------ MODULE StateLog ------------------------------
(***************************************************************************)
(* What the event store promises its callers: one totally ordered log of   *)
(* accepted events and the state they reduce to.  EventStore implements    *)
(* this with files, locks, caches and crashes; SolverSession uses it.      *)
(***************************************************************************)
EXTENDS EnvironmentState, FiniteSets

CONSTANTS Requests   \* the payloads callers submit

ASSUME RequestsArePayloads == Requests \subseteq Payload

VARIABLES
  lines,     \* the events of the JSONL file, in file order
  reduced    \* what reduce_events returns for those lines

logVars == <<lines, reduced>>

LogInit ==
  /\ lines = <<>>
  /\ reduced = InitialState

AppendEvent(event) ==
  /\ lines' = Append(lines, event)
  /\ reduced' = ApplyEvent(reduced, event)

\* EventStore.append of a payload the reducer accepts.
AppendPayload(payload) ==
  /\ Accepts(reduced, payload)
  /\ AppendEvent(NextEvent(reduced, payload))

LogNext == \E payload \in Requests : AppendPayload(payload)

LogSpec == LogInit /\ [][LogNext]_logVars

-----------------------------------------------------------------------------
LogTypeOK ==
  /\ lines \in Seq(Event)
  /\ reduced \in State

\* The log is one hash chain: every event carries its own position and the
\* hash of the event before it (apply_event's sequence and previous_hash checks).
ChainUnbroken ==
  \A i \in 1 .. Len(lines) :
    /\ lines[i].sequence = i - 1
    /\ lines[i].previous = IF i = 1 THEN Genesis ELSE HashOf(lines[i - 1])

\* run_started is the first event of the log and occurs nowhere else.
StartsOnce ==
  \A i \in 1 .. Len(lines) : lines[i].payload.kind = "run_started" <=> i = 1

\* Every identifier an event cites was introduced by an earlier event of the
\* log: constraints and hypotheses cite recorded evidence, actions cite
\* known constraints, failures cite known actions.
CitationsGrounded ==
  \A i \in 1 .. Len(lines) :
    lines[i].payload.kind # "evidence_recorded" =>
      \A r \in lines[i].payload.refs :
        \E j \in 1 .. i - 1 : lines[j].payload.id = r

\* The metadata of every object tells the truth about the log: its sequence
\* is the last event that wrote the object, its revision how many did.
Writers(o) == {i \in 1 .. Len(lines) : lines[i].payload.id = o}

ProvenanceIsLatestEvent ==
  \A o \in Object :
    LET record == reduced.objects[o] IN
      /\ record.revision = Cardinality(Writers(o))
      /\ record.revision > 0 =>
           /\ record.sequence + 1 \in Writers(o)
           /\ \A i \in Writers(o) : i <= record.sequence + 1
           /\ record.value = lines[record.sequence + 1].payload.value

Lifecycle == INSTANCE ActionLifecycle
               WITH status <- [a \in Action |-> reduced.objects[a].value]

\* Actions move through the protocol's lifecycle and no other way: no step is
\* skipped, and a terminal action never runs again.
ActionsFollowLifecycle == Lifecycle!Spec

=============================================================================
