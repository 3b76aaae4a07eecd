-------------------------- MODULE MCFeedbackRounds -------------------------
(* Instances of the feedback rounds: a module, versions and an operation. *)
EXTENDS FeedbackRounds

Find(subject, allowed, observed, hard, kind) ==
  [subject |-> subject, allowed |-> allowed, observed |-> observed, hard |-> hard, kind |-> kind]

\* A missing module, found, or only guessed from the action's output; a version
\* outside of what is allowed, and a requirement of other versions; an operation
\* found infeasible.
MCFinding ==
  {Find("module", {1}, 2, TRUE, "counterexample"), Find("module", {}, 1, TRUE, "observation"),
   Find("module", {1}, 2, FALSE, "action"),
   Find("version", {1, 2}, 3, TRUE, "counterexample"),
   Find("version", {2, 3}, 0, TRUE, "counterexample"),
   Find("operation", {}, 2, TRUE, "observation")}

\* A requirement that the verifier may contradict, satisfied or not observed yet:
\* then the engine sees whether a version is left.
MCInitial == {Find("version", {1}, 1, TRUE, "initial"), Find("version", {1}, 0, TRUE, "initial")}
MCEvident == {{{1}, {2, 3}}}

=============================================================================
