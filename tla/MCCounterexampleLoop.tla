------------------------ MODULE MCCounterexampleLoop -----------------------
(* Instances of the deployment loop: fresh and persistent environments. *)
EXTENDS CounterexampleLoop

Answer(passed, exitOk, typed, guessed, damaged, rank) ==
  [passed |-> passed, exitOk |-> exitOk, internal |-> TRUE, typed |-> typed,
   guessed |-> guessed, damaged |-> damaged, rank |-> rank]

Pass == Answer("passed", TRUE, FALSE, FALSE, FALSE, 0)

\* What the bundled verifiers return: a pass; an unknown; failures that are
\* admissible with two ranks, only guessed, damaged, with a failed bootstrap,
\* and empty; the official evaluator's feedback; and a pass that contradicts its exit code.
MCOutcome ==
  {Pass,
   Answer("unknown", TRUE, FALSE, TRUE, FALSE, 0),
   Answer("failed", TRUE, TRUE, FALSE, FALSE, 1),
   Answer("failed", TRUE, TRUE, TRUE, FALSE, 2),
   Answer("failed", TRUE, FALSE, TRUE, TRUE, 0),
   Answer("failed", FALSE, TRUE, FALSE, FALSE, 0),
   Answer("failed", TRUE, FALSE, FALSE, FALSE, 0),
   [Pass EXCEPT !.internal = FALSE],
   [Pass EXCEPT !.exitOk = FALSE]}

\* The limits let every scope run out before the others.
MCLimit ==
  [scope \in Scope |-> CASE scope = "requests" -> 4 [] scope = "candidates" -> 3
                         [] scope = "environments" -> 3 [] scope = "commands" -> 3]

=============================================================================
