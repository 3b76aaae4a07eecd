---------------------------- MODULE MCEventStore ----------------------------
(* A small instance of the event store, and of the log it implements. *)
EXTENDS EventStore

Pay(kind, id, value, refs) ==
  [kind |-> kind, id |-> id, value |-> value, refs |-> refs, wellFormed |-> TRUE]

\* Two citations deep, one action through its lifecycle, and one request that
\* is never accepted.
MCStoreRequests ==
  {Pay("run_started", "none", "recorded", {}),
   Pay("evidence_recorded", "e1", "recorded", {}),
   Pay("constraint_upserted", "c1", "active", {"e1"}),
   [Pay("constraint_upserted", "c1", "violated", {"e1"}) EXCEPT !.wellFormed = FALSE],
   Pay("action_proposed", "a1", "proposed", {"c1"}),
   Pay("action_proposed", "a1", "proposed", {}),
   Pay("action_started", "a1", "running", {}),
   Pay("action_finished", "a1", "failed", {}),
   Pay("failure_recorded", "f1", "recorded", {"a1"}),
   Pay("rollback_recorded", "a1", "rolled_back", {})}

=============================================================================
