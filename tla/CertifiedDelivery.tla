------------------------- MODULE CertifiedDelivery -------------------------
(***************************************************************************)
(* What the deployment loop promises about environments and its verdict:   *)
(* an environment is leased, hosts candidates while it is leased and is    *)
(* given up exactly once; no more than a fixed number of them are leased at a    *)
(* time; and a candidate is delivered as certified at most once, after it  *)
(* ran alone in an environment of its own that was released since.         *)
(***************************************************************************)
EXTENDS Naturals, FiniteSets

CONSTANTS
  Environment,  \* the identities a provider hands out
  Action,       \* the candidate executions
  Undelivered   \* no candidate was delivered

VARIABLES
  capacity,   \* environments that may be leased at the same time, chosen once
  lease,      \* what became of each environment
  hosted,     \* what ran in the environment since it was leased
  delivered   \* the certified execution and its environment

vars == <<capacity, lease, hosted, delivered>>

LeaseState == {"absent", "leased", "released", "leaked", "orphaned"}

Leased == {e \in Environment : lease[e] = "leased"}

Init ==
  /\ capacity \in Nat
  /\ lease = [e \in Environment |-> "absent"]
  /\ hosted = [e \in Environment |-> {}]
  /\ delivered = Undelivered

Provision(e) ==
  /\ lease[e] \in {"absent", "released", "leaked"}
  /\ Cardinality(Leased) < capacity
  /\ lease' = [lease EXCEPT ![e] = "leased"]
  /\ hosted' = [hosted EXCEPT ![e] = {}]
  /\ UNCHANGED <<capacity, delivered>>

Host(e, a) ==
  /\ lease[e] = "leased"
  /\ a \notin hosted[e]
  /\ hosted' = [hosted EXCEPT ![e] = @ \cup {a}]
  /\ UNCHANGED <<capacity, lease, delivered>>

\* The provider may fail to remove the environment: it is not tried again.
Release(e) ==
  /\ lease[e] = "leased"
  /\ \E outcome \in {"released", "leaked"} : lease' = [lease EXCEPT ![e] = outcome]
  /\ UNCHANGED <<capacity, hosted, delivered>>

\* The process that leased the environments is gone.
Lose ==
  /\ lease' = [e \in Environment |-> IF lease[e] = "leased" THEN "orphaned" ELSE lease[e]]
  /\ UNCHANGED <<capacity, hosted, delivered>>

Deliver(e, a) ==
  /\ delivered = Undelivered
  /\ hosted[e] = {a}
  /\ lease[e] = "released"
  /\ delivered' = <<a, e>>
  /\ UNCHANGED <<capacity, lease, hosted>>

Next ==
  \/ Lose
  \/ \E e \in Environment :
       \/ Provision(e)
       \/ Release(e)
       \/ \E a \in Action : Host(e, a) \/ Deliver(e, a)

Spec == Init /\ [][Next]_vars

=============================================================================
