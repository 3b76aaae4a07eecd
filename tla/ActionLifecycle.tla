-------------------------- MODULE ActionLifecycle ---------------------------
(***************************************************************************)
(* The lifecycle the state protocol promises for every action:             *)
(* proposed -> running -> succeeded | failed, and then perhaps rolled      *)
(* back; one action moves at a time and no step is skipped or undone.      *)
(***************************************************************************)
CONSTANTS Action

VARIABLE status

Move(a, from, to) ==
  /\ status[a] = from
  /\ status' = [status EXCEPT ![a] = to]

Init == status = [a \in Action |-> "absent"]

Propose(a) == Move(a, "absent", "proposed")
Start(a) == Move(a, "proposed", "running")
Finish(a) == \E result \in {"succeeded", "failed"} : Move(a, "running", result)
RollBack(a) == \E result \in {"succeeded", "failed"} : Move(a, result, "rolled_back")

Next == \E a \in Action : Propose(a) \/ Start(a) \/ Finish(a) \/ RollBack(a)

Spec == Init /\ [][Next]_status

=============================================================================
