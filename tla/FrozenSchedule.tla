---------------------------- MODULE FrozenSchedule --------------------------
(***************************************************************************)
(* What a frozen schedule promises: every position is begun at most once,  *)
(* no position is begun while another is running, and the outcome of a     *)
(* position is final.                                                      *)
(***************************************************************************)
CONSTANTS
  Position,       \* the positions
  TerminalState   \* outcomes a position may end with

VARIABLE outcome  \* "absent", "running" or how the position ended

Init == outcome = [n \in Position |-> "absent"]

Begin(n) ==
  /\ outcome[n] = "absent"
  /\ \A m \in Position : outcome[m] # "running"
  /\ outcome' = [outcome EXCEPT ![n] = "running"]

Complete(n) ==
  /\ outcome[n] = "running"
  /\ \E state \in TerminalState : outcome' = [outcome EXCEPT ![n] = state]

Next == \E n \in Position : Begin(n) \/ Complete(n)

Spec == Init /\ [][Next]_outcome
=============================================================================
