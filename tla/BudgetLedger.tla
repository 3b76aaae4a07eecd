---------------------------- MODULE BudgetLedger ---------------------------
(***************************************************************************)
(* envsolve_harness/budget: the ledger file, the ledger objects that share *)
(* it in one thread (the loop's, and the model's behind OnlineBudgetCall-  *)
(* back), and JSONResponseRetryModel.invoke, which spends from it.  An     *)
(* operation re-reads the file, checks, changes the object and replaces    *)
(* the file; the alarm of a request's deadline may raise between any two   *)
(* of these, and the process may die.                                      *)
(* Usage stands for the tokens and for the cost that grows with them.      *)
(***************************************************************************)
EXTENDS Integers, FiniteSets

CONSTANTS
  Resource,    \* what reserve_* counts: candidates, environments, commands
  Limit,       \* of each resource
  MaxRequests, \* max_model_requests
  MaxUsage,    \* max_total_tokens
  Cost,        \* what one response can use
  Retries,     \* max_retries of the model
  Attempts,    \* bound on the provider attempts
  MaxCrashes   \* bound on the process deaths

ASSUME LedgerAssumption ==
  /\ Limit \in [Resource -> Nat \ {0}]
  /\ MaxRequests \in Nat \ {0} /\ MaxUsage \in Nat \ {0}
  /\ Cost \subseteq Nat /\ Cost # {}
  /\ Retries \in Nat /\ Attempts \in Nat /\ MaxCrashes \in Nat

\* The ledger objects of an episode.
Object == {"loop", "model"}

Outcome == {"in_progress", "response", "error", "usage_bearing_error"}

\* The error classes _retryable_provider_error tells apart.
Error == {"json", "transient", "fatal", "usage_bearing"}

VARIABLES
  file,      \* the persisted ledger
  memory,    \* what each object holds since its last operation
  request,   \* the logical model request in progress
  episode,   \* "running", "over" (no more work is asked for) or "finished"
  expired,   \* max_wall_clock_seconds have elapsed
  crashes,
  granted    \* history: the use that operations returned to their callers

ledgerVars == <<file, memory, request, episode, expired, crashes, granted>>

Blank ==
  [requests |-> 0, responses |-> 0, errors |-> 0, retries |-> 0, parseRetries |-> 0,
   recoveries |-> 0, parseRecoveries |-> 0, usage |-> 0, attempts |-> << >>,
   reserved |-> [r \in Resource |-> 0], terminated |-> FALSE, closed |-> FALSE]

NoRequest == [phase |-> "none", late |-> FALSE, retries |-> 0, parseFailures |-> 0]

NothingGranted == [requests |-> 0, usage |-> 0, reserved |-> [r \in Resource |-> 0]]

LedgerInit ==
  /\ file = Blank
  /\ memory = [o \in Object |-> Blank]
  /\ request = NoRequest
  /\ episode = "running"
  /\ expired = FALSE
  /\ crashes = 0
  /\ granted = NothingGranted

-----------------------------------------------------------------------------
(* The ledger                                                              *)

\* Mutant: an object works on what it knew last.
CurrentStale(o) == memory[o]

\* What an operation works on: _resume_locked reads the file again.
Current(o) == file

Exhausted(l) ==
  {r \in Resource : l.reserved[r] >= Limit[r]}
    \cup {s \in {"requests"} : l.requests >= MaxRequests}
    \cup {s \in {"usage"} : l.usage >= MaxUsage}
    \cup {s \in {"time"} : expired}

Began(l) == Cardinality(DOMAIN l.attempts)

\* record_provider_attempt_start with an identifier of its own.
Begin(l) ==
  [l EXCEPT !.attempts = [i \in 1 .. Began(l) + 1 |->
                            IF i \in DOMAIN l.attempts THEN l.attempts[i] ELSE "in_progress"]]

\* Mutant: an error that used tokens is not counted.
SettleUncounted(l, outcome, cost) ==
  [l EXCEPT !.attempts[Began(l)] = outcome,
            !.responses = IF outcome = "response" THEN @ + 1 ELSE @,
            !.errors = IF outcome = "error" THEN @ + 1 ELSE @,
            !.usage = @ + cost]

\* record_response and record_error of the attempt that began last.
Settle(l, outcome, cost) ==
  [l EXCEPT !.attempts[Began(l)] = outcome,
            !.responses = IF outcome = "error" THEN @ ELSE @ + 1,
            !.errors = IF outcome = "error" THEN @ + 1 ELSE @,
            !.usage = @ + cost]

\* Object o has completed an operation with ledger l.
Written(o, l) ==
  /\ file' = l
  /\ memory' = [memory EXCEPT ![o] = l]

\* It was interrupted, before or after it replaced the file.
Interrupted(o, l) ==
  /\ file' \in {file, l}
  /\ memory' = [memory EXCEPT ![o] = l]

\* preflight and _reserve_execution find a limit exhausted.
Terminate(o) ==
  /\ Written(o, [Current(o) EXCEPT !.terminated = TRUE])
  /\ episode' = "over"
  /\ UNCHANGED <<request, expired, crashes, granted>>

\* _require_open_locked: the operation raises, and so does the episode.
Closed(o) ==
  /\ Current(o).closed
  /\ episode' = "over"
  /\ memory' = [memory EXCEPT ![o] = Current(o)]
  /\ UNCHANGED <<file, request, expired, crashes, granted>>

Idle == episode = "running" /\ request.phase = "none"

Reserve(r) ==
  LET l == Current("loop")
      next == [l EXCEPT !.reserved[r] = @ + 1]
  IN /\ Idle
     /\ ~l.closed
     /\ {r, "time"} \cap Exhausted(l) = {}
     /\ Written("loop", next)
     /\ granted' = [granted EXCEPT !.reserved[r] = @ + 1]
     /\ UNCHANGED <<request, episode, expired, crashes>>

ReserveRefused(r) ==
  /\ Idle
  /\ \/ /\ ~Current("loop").closed
        /\ {r, "time"} \cap Exhausted(Current("loop")) # {}
        /\ Terminate("loop")
     \/ Closed("loop")

\* finalize, before EnvSolveRunner returns its result.
Finalize ==
  /\ episode = "over" \/ Idle
  /\ Written("loop", [Current("loop") EXCEPT !.closed = TRUE])
  /\ episode' = "finished"
  /\ UNCHANGED <<request, expired, crashes, granted>>

-----------------------------------------------------------------------------
(* JSONResponseRetryModel.invoke and the callback                          *)

\* preflight of a request.
Preflight ==
  LET l == Current("model")
      next == [l EXCEPT !.requests = @ + 1]
  IN /\ Idle
     /\ ~l.closed
     /\ Exhausted(l) = {}
     /\ Written("model", next)
     /\ granted' = [granted EXCEPT !.requests = @ + 1]
     /\ request' = [NoRequest EXCEPT !.phase = "ready"]
     /\ UNCHANGED <<episode, expired, crashes>>

PreflightRefused ==
  /\ Idle
  /\ \/ /\ ~Current("model").closed
        /\ Exhausted(Current("model")) # {}
        /\ Terminate("model")
     \/ Closed("model")

\* The deadline of the request passes; its alarm rings in what is going on.
DeadlinePasses ==
  /\ request.phase # "none" /\ ~request.late
  /\ request' = [request EXCEPT !.late = TRUE]
  /\ UNCHANGED <<file, memory, episode, expired, crashes, granted>>

\* on_chat_model_start of an attempt.
Attempt ==
  /\ request.phase = "ready"
  /\ Began(Current("model")) < Attempts
  /\ LET next == Begin(Current("model"))
     IN \/ Written("model", next) /\ request' = [request EXCEPT !.phase = "calling"]
        \/ request.late /\ Interrupted("model", next) /\ request' = NoRequest
  /\ UNCHANGED <<episode, expired, crashes, granted>>

\* on_llm_end.
Respond ==
  /\ request.phase = "calling"
  /\ \E cost \in Cost :
       LET next == Settle(Current("model"), "response", cost)
       IN \/ /\ Written("model", next)
             /\ request' = [request EXCEPT !.phase = "returning"]
             /\ granted' = [granted EXCEPT !.usage = @ + cost]
          \/ /\ request.late /\ Interrupted("model", next)
             /\ request' = NoRequest
             /\ UNCHANGED granted
  /\ UNCHANGED <<episode, expired, crashes>>

\* record_provider_retry, and record_response_parse_retry.
Retried(l, error) ==
  [l EXCEPT !.retries = @ + 1, !.parseRetries = IF error = "json" THEN @ + 1 ELSE @]

\* Mutant: an error that used tokens is retried, too.
MayRetryAny(error) ==
  error # "fatal" /\ request.retries < Retries /\ ~request.late

\* _retry_or_raise: only these errors, a bounded number of times, in time.
MayRetry(error) ==
  error \in {"json", "transient"} /\ request.retries < Retries /\ ~request.late

\* on_llm_error, and what invoke does with the error.
Fails(error) ==
  /\ request.phase = "calling"
  /\ \E cost \in IF error = "usage_bearing" THEN Cost ELSE {0} :
       LET next == IF error = "usage_bearing"
                     THEN Settle(Current("model"), "usage_bearing_error", cost)
                     ELSE Settle(Current("model"), "error", 0)
       IN \/ /\ MayRetry(error)
             /\ Written("model", Retried(next, error))
             /\ request' = [request EXCEPT !.phase = "ready", !.retries = @ + 1,
                                           !.parseFailures = IF error = "json" THEN @ + 1 ELSE @]
             /\ granted' = [granted EXCEPT !.usage = @ + cost]
          \/ /\ ~MayRetry(error)
             /\ Written("model", next)
             /\ request' = NoRequest
             /\ granted' = [granted EXCEPT !.usage = @ + cost]
          \/ /\ request.late /\ Interrupted("model", next)
             /\ request' = NoRequest
             /\ UNCHANGED granted
  /\ UNCHANGED <<episode, expired, crashes>>

\* record_response_parse_recovery and record_provider_retry_recovery.
Return ==
  /\ request.phase = "returning"
  /\ Written("model", [Current("model") EXCEPT
                         !.recoveries = IF request.retries > 0 THEN @ + 1 ELSE @,
                         !.parseRecoveries = IF request.parseFailures > 0 THEN @ + 1 ELSE @])
  /\ request' = NoRequest
  /\ UNCHANGED <<episode, expired, crashes, granted>>

\* The alarm rings between two operations: nothing is recorded.
Abandon ==
  /\ request.phase # "none" /\ request.late
  /\ request' = NoRequest
  /\ UNCHANGED <<file, memory, episode, expired, crashes, granted>>

-----------------------------------------------------------------------------
TimePasses ==
  /\ ~expired
  /\ expired' = TRUE
  /\ UNCHANGED <<file, memory, request, episode, crashes, granted>>

\* The files a process leaves that dies between the two operations by which an
\* attempt is retried, or by which a recovered request returns.
Partial ==
  {file}
    \cup (IF request.phase = "calling" /\ MayRetry("json")
            THEN {[Settle(file, "error", 0) EXCEPT !.retries = @ + 1]} ELSE {})
    \cup (IF request.phase = "returning" /\ request.parseFailures > 0
            THEN {[file EXCEPT !.parseRecoveries = @ + 1]} ELSE {})

\* The process dies, or finished, and is started again on the same ledger: new
\* objects resume the file.
Restart ==
  /\ crashes < MaxCrashes
  /\ crashes' = crashes + 1
  /\ file' \in Partial
  /\ memory' = [o \in Object |-> file']
  /\ request' = NoRequest
  /\ episode' = "running"
  /\ UNCHANGED <<expired, granted>>

LedgerNext ==
  \/ \E r \in Resource : Reserve(r) \/ ReserveRefused(r)
  \/ Finalize \/ Preflight \/ PreflightRefused
  \/ DeadlinePasses \/ Attempt \/ Respond \/ Return \/ Abandon
  \/ \E error \in Error : Fails(error)
  \/ TimePasses \/ Restart

LedgerSpec == LedgerInit /\ [][LedgerNext]_ledgerVars

-----------------------------------------------------------------------------
AttemptList == UNION {[1 .. n -> Outcome] : n \in 0 .. Attempts}

Ledger ==
  [requests : Nat, responses : Nat, errors : Nat, retries : Nat, parseRetries : Nat,
   recoveries : Nat, parseRecoveries : Nat, usage : Nat,
   attempts : AttemptList, reserved : [Resource -> Nat], terminated : BOOLEAN, closed : BOOLEAN]

LedgerTypeOK ==
  /\ file \in Ledger
  /\ memory \in [Object -> Ledger]
  /\ request \in [phase : {"none", "ready", "calling", "returning"}, late : BOOLEAN,
                  retries : 0 .. Retries, parseFailures : 0 .. Retries]
  /\ episode \in {"running", "over", "finished"}
  /\ expired \in BOOLEAN
  /\ crashes \in 0 .. MaxCrashes
  /\ granted \in [requests : Nat, usage : Nat, reserved : [Resource -> Nat]]

\* Whatever an operation returned to its caller is in the file from then on:
\* no later operation of the other object, interrupted one or restart loses it.
AcknowledgedUsePersists ==
  /\ granted.requests <= file.requests
  /\ granted.usage <= file.usage
  /\ \A r \in Resource : granted.reserved[r] <= file.reserved[r]

Ended(outcomes) == Cardinality({i \in DOMAIN file.attempts : file.attempts[i] \in outcomes})

\* The counters agree with the attempts: each was settled at most once, began
\* with a request or a retry, and each retry and recovery has its failure.
AttemptsReconcile ==
  /\ file.responses = Ended({"response", "usage_bearing_error"})
  /\ file.errors = Ended({"error"})
  /\ Began(file) <= file.requests + file.retries
  /\ file.parseRetries <= file.retries /\ file.retries <= file.errors
  /\ file.recoveries <= file.retries /\ file.parseRecoveries <= file.parseRetries

\* No limit is passed but by the one response that reaches it; no attempt, a
\* retry neither, begins when the usage is spent; and finalize is final.
BudgetIsRespected ==
  /\ [](/\ file.requests <= MaxRequests
        /\ \A r \in Resource : file.reserved[r] <= Limit[r]
        /\ \E cost \in Cost : file.usage < MaxUsage + cost)
  /\ [][/\ Began(file') > Began(file) => file.usage < MaxUsage
        /\ file.closed => file' = file]_ledgerVars

=============================================================================
