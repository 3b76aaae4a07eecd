--------------------------- MODULE MCBudgetLedger --------------------------
(* An instance of the ledger: two candidates and one command.              *)
EXTENDS BudgetLedger

MCLimit == [r \in Resource |-> IF r = "candidates" THEN 2 ELSE 1]

=============================================================================
