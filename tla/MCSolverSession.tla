--------------------------- MODULE MCSolverSession --------------------------
(* Instances of the solver session: one process alone, and several sharing
   the log with the command line. *)
EXTENDS SolverSession, TLC

\* No step reads the snapshot or the state reconstructed for it, and neither
\* a step nor a property of the shared run reads the order of the events.
WithoutOrder ==
  <<{lines[i].payload : i \in 1 .. Len(lines)},
    [o \in Object |-> reduced.objects[o].value],
    lost, [s \in Session |-> [session[s] EXCEPT !.view = InitialState]]>>

\* Sessions are interchangeable.
Symmetry == Permutations(Session)

\* state_log.py is asked for evidence and to roll the first action back.
MCCommandLine ==
  {Write("evidence_recorded", "e1", "recorded", {}),
   Write("rollback_recorded", "a1", "rolled_back", {})}

\* No precondition, or one that is not in the state.
MCPreconditions == {{}, {"c1"}}

=============================================================================
