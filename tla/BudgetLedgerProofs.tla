------------------------- MODULE BudgetLedgerProofs ------------------------
(***************************************************************************)
(* Proofs about the budget ledger, for every limit, every cost of a        *)
(* response and any number of retries and restarts: the ledger stays well  *)
(* formed, and no use that was returned to a caller is lost.               *)
(***************************************************************************)
EXTENDS BudgetLedger, FiniteSetTheorems, TLAPS

-----------------------------------------------------------------------------
(* What the records of the ledger do to it                                 *)

\* The attempts of a ledger are numbered from 1.
LEMMA BeganType ==
  ASSUME NEW l \in Ledger
  PROVE  /\ Began(l) \in 0 .. Attempts
         /\ l.attempts \in [1 .. Began(l) -> Outcome]
<1>1. PICK n \in 0 .. Attempts : l.attempts \in [1 .. n -> Outcome]
  BY DEF Ledger, AttemptList
<1>2. DOMAIN l.attempts = 1 .. n
  BY <1>1
<1>3. Cardinality(1 .. n) = n
  BY <1>1, FS_Interval, LedgerAssumption
<1> QED
  BY <1>1, <1>2, <1>3 DEF Began

\* record_provider_attempt_start leaves a ledger.
LEMMA BeginType ==
  ASSUME NEW l \in Ledger, Began(l) < Attempts
  PROVE  Begin(l) \in Ledger
<1> DEFINE n == Began(l)
           next == [i \in 1 .. n + 1 |-> IF i \in DOMAIN l.attempts THEN l.attempts[i]
                                                                 ELSE "in_progress"]
<1>1. n \in 0 .. Attempts /\ l.attempts \in [1 .. n -> Outcome]
  BY BeganType
<1>2. n + 1 \in 0 .. Attempts
  BY <1>1, LedgerAssumption
<1>3. next \in [1 .. n + 1 -> Outcome]
  BY <1>1 DEF Outcome
<1>4. next \in AttemptList
  BY <1>2, <1>3 DEF AttemptList
<1>5. Begin(l) = [l EXCEPT !.attempts = next]
  BY DEF Begin
<1> HIDE DEF next
<1> QED
  BY <1>4, <1>5 DEF Ledger

\* record_response and record_error leave a ledger.
LEMMA SettleType ==
  ASSUME NEW l \in Ledger, NEW outcome \in Outcome, NEW cost \in Nat
  PROVE  Settle(l, outcome, cost) \in Ledger
<1> DEFINE next == [l.attempts EXCEPT ![Began(l)] = outcome]
<1>1. Began(l) \in 0 .. Attempts /\ l.attempts \in [1 .. Began(l) -> Outcome]
  BY BeganType
<1>2. next \in AttemptList
  BY <1>1 DEF AttemptList
<1> HIDE DEF next
<1>3. /\ (IF outcome = "error" THEN l.responses ELSE l.responses + 1) \in Nat
      /\ (IF outcome = "error" THEN l.errors + 1 ELSE l.errors) \in Nat
      /\ l.usage + cost \in Nat
  BY DEF Ledger
<1> QED
  BY <1>2, <1>3, Zenon DEF Settle, Ledger, next

LEMMA RetriedType ==
  ASSUME NEW l \in Ledger, NEW error
  PROVE  Retried(l, error) \in Ledger
<1>1. /\ l.retries + 1 \in Nat
      /\ (IF error = "json" THEN l.parseRetries + 1 ELSE l.parseRetries) \in Nat
  BY DEF Ledger
<1> QED
  BY <1>1, Zenon DEF Retried, Ledger

-----------------------------------------------------------------------------
(* The use an operation acknowledged is in the ledger.                     *)

Covers(l, use) ==
  /\ use.requests <= l.requests
  /\ use.usage <= l.usage
  /\ \A r \in Resource : use.reserved[r] <= l.reserved[r]

\* l is a ledger that has forgotten nothing of k.
Extends(l, k) ==
  /\ l \in Ledger
  /\ k.requests <= l.requests
  /\ k.usage <= l.usage
  /\ l.reserved = k.reserved

Use == [requests : Nat, usage : Nat, reserved : [Resource -> Nat]]

LEMMA ExtendsCovers ==
  ASSUME NEW k \in Ledger, NEW l, Extends(l, k), NEW use \in Use, Covers(k, use)
  PROVE  Covers(l, use)
BY DEF Covers, Extends, Ledger, Use

LEMMA BeginExtends ==
  ASSUME NEW l \in Ledger, Began(l) < Attempts
  PROVE  Extends(Begin(l), l)
BY BeginType DEF Extends, Begin, Ledger

LEMMA SettleExtends ==
  ASSUME NEW l \in Ledger, NEW outcome \in Outcome, NEW cost \in Nat
  PROVE  /\ Extends(Settle(l, outcome, cost), l)
         /\ Settle(l, outcome, cost).usage = l.usage + cost
<1>1. Settle(l, outcome, cost) \in Ledger
  BY SettleType
<1>2. /\ Settle(l, outcome, cost).requests = l.requests
      /\ Settle(l, outcome, cost).usage = l.usage + cost
      /\ Settle(l, outcome, cost).reserved = l.reserved
  BY DEF Settle, Ledger
<1>3. l.requests \in Nat /\ l.usage \in Nat
  BY DEF Ledger
<1> QED
  BY <1>1, <1>2, <1>3 DEF Extends

LEMMA RetriedExtends ==
  ASSUME NEW k \in Ledger, NEW l, Extends(l, k), NEW error
  PROVE  /\ Extends(Retried(l, error), k)
         /\ Retried(l, error).usage = l.usage
<1>1. Retried(l, error) \in Ledger
  BY RetriedType DEF Extends
<1> QED
  BY <1>1 DEF Extends, Retried, Ledger

\* Termination and finalization change no count.
LEMMA FlagsExtend ==
  ASSUME NEW l \in Ledger
  PROVE  /\ Extends([l EXCEPT !.terminated = TRUE], l)
         /\ Extends([l EXCEPT !.closed = TRUE], l)
<1>1. [l EXCEPT !.terminated = TRUE] \in Ledger /\ [l EXCEPT !.closed = TRUE] \in Ledger
  BY Zenon DEF Ledger
<1>2. l.requests \in Nat /\ l.usage \in Nat
  BY DEF Ledger
<1>3. \A k \in {[l EXCEPT !.terminated = TRUE], [l EXCEPT !.closed = TRUE]} :
        k.requests = l.requests /\ k.usage = l.usage /\ k.reserved = l.reserved
  BY Zenon DEF Ledger
<1> QED
  BY <1>1, <1>2, <1>3 DEF Extends

\* The counts that do not spend.
LEMMA CountedExtends ==
  ASSUME NEW k \in Ledger, NEW l, Extends(l, k)
  PROVE  /\ Extends([l EXCEPT !.retries = @ + 1], k)
         /\ Extends([l EXCEPT !.parseRecoveries = @ + 1], k)
<1>1. [l EXCEPT !.retries = @ + 1] \in Ledger /\ [l EXCEPT !.parseRecoveries = @ + 1] \in Ledger
  BY DEF Extends, Ledger
<1>2. \A m \in {[l EXCEPT !.retries = @ + 1], [l EXCEPT !.parseRecoveries = @ + 1]} :
        m.requests = l.requests /\ m.usage = l.usage /\ m.reserved = l.reserved
  BY DEF Extends, Ledger
<1> QED
  BY <1>1, <1>2 DEF Extends

LEMMA RecoveryExtends ==
  ASSUME NEW l \in Ledger, NEW recovered \in BOOLEAN, NEW parsed \in BOOLEAN
  PROVE  Extends([l EXCEPT !.recoveries = IF recovered THEN @ + 1 ELSE @,
                           !.parseRecoveries = IF parsed THEN @ + 1 ELSE @], l)
<1> DEFINE next == [l EXCEPT !.recoveries = IF recovered THEN @ + 1 ELSE @,
                             !.parseRecoveries = IF parsed THEN @ + 1 ELSE @]
<1>1. /\ (IF recovered THEN l.recoveries + 1 ELSE l.recoveries) \in Nat
      /\ (IF parsed THEN l.parseRecoveries + 1 ELSE l.parseRecoveries) \in Nat
      /\ l.requests \in Nat /\ l.usage \in Nat
  BY DEF Ledger
<1>2. next \in Ledger
  BY <1>1, Zenon DEF Ledger
<1>3. next.requests = l.requests /\ next.usage = l.usage /\ next.reserved = l.reserved
  BY DEF Ledger
<1> HIDE DEF next
<1>4. Extends(next, l)
  BY <1>1, <1>2, <1>3 DEF Extends
<1> QED BY <1>4 DEF next

-----------------------------------------------------------------------------
(* The invariant                                                           *)

\* The ledger objects and the file are well formed, and cover what was granted.
Persisted ==
  /\ file \in Ledger
  /\ memory \in [Object -> Ledger]
  /\ granted \in Use
  /\ Covers(file, granted)

RequestType ==
  [phase : {"none", "ready", "calling", "returning"}, late : BOOLEAN,
   retries : 0 .. Retries, parseFailures : 0 .. Retries]

\* A request has been retried for every answer that did not parse.
Controlled ==
  /\ request \in RequestType
  /\ request.parseFailures <= request.retries
  /\ episode \in {"running", "over", "finished"}
  /\ expired \in BOOLEAN
  /\ crashes \in 0 .. MaxCrashes

LedgerInv == Persisted /\ Controlled

LEMMA LedgerInitInv == LedgerInit => LedgerInv
<1> SUFFICES ASSUME LedgerInit PROVE LedgerInv
  OBVIOUS
<1>1. << >> \in [1 .. 0 -> Outcome] /\ 0 \in 0 .. Attempts
  BY LedgerAssumption
<1>2. << >> \in AttemptList
  BY <1>1 DEF AttemptList
<1>3. Blank \in Ledger
  BY <1>2 DEF Blank, Ledger
<1>4. NothingGranted \in Use /\ Covers(Blank, NothingGranted)
  BY DEF NothingGranted, Use, Covers, Blank
<1>5. Persisted
  BY <1>3, <1>4 DEF LedgerInit, Persisted
<1>6. Controlled
  <2>1. 0 \in 0 .. Retries /\ 0 \in 0 .. MaxCrashes
    BY LedgerAssumption
  <2>2. crashes \in 0 .. MaxCrashes /\ expired \in BOOLEAN /\ episode = "running"
    BY <2>1 DEF LedgerInit
  <2>3. NoRequest \in RequestType
    BY <2>1, Zenon DEF NoRequest, RequestType
  <2> QED
    BY <2>2, <2>3 DEF LedgerInit, Controlled, NoRequest
<1> QED BY <1>5, <1>6 DEF LedgerInv

\* An operation that completes leaves a ledger that covers what it grants.
LEMMA WrittenPersists ==
  ASSUME LedgerInv, NEW o \in Object, NEW l \in Ledger, NEW use \in Use, Covers(l, use),
         Written(o, l), granted' = use
  PROVE  Persisted'
<1>1. memory' \in [Object -> Ledger]
  BY DEF LedgerInv, Persisted, Written
<1>2. file' = l
  BY DEF Written
<1> QED BY <1>1, <1>2 DEF Persisted, Covers

\* One that is interrupted grants nothing, and forgets nothing either.
LEMMA InterruptedPersists ==
  ASSUME LedgerInv, NEW o \in Object, NEW l, Extends(l, file),
         Written(o, l) \/ Interrupted(o, l), UNCHANGED granted
  PROVE  Persisted'
<1>1. l \in Ledger /\ file \in Ledger /\ granted \in Use /\ Covers(file, granted)
  BY DEF LedgerInv, Persisted, Extends
<1>2. Covers(l, granted)
  BY <1>1, ExtendsCovers
<1>3. memory' \in [Object -> Ledger]
  BY <1>1 DEF LedgerInv, Persisted, Written, Interrupted
<1>4. file' \in {file, l}
  BY DEF Written, Interrupted
<1> QED BY <1>1, <1>2, <1>3, <1>4 DEF Persisted, Covers

\* The operations outside of a request.
LEMMA LoopOperations ==
  ASSUME LedgerInv,
         \/ \E r \in Resource : Reserve(r) \/ ReserveRefused(r)
         \/ Finalize \/ Preflight \/ PreflightRefused
  PROVE  Persisted'
<1>1. file \in Ledger /\ granted \in Use /\ Covers(file, granted)
  BY DEF LedgerInv, Persisted
<1>2. ASSUME NEW r \in Resource, Reserve(r) PROVE Persisted'
  <2> DEFINE l == [file EXCEPT !.reserved[r] = @ + 1]
             use == [granted EXCEPT !.reserved[r] = @ + 1]
  <2>1. /\ file.reserved \in [Resource -> Nat]
        /\ granted.reserved \in [Resource -> Nat]
        /\ [file.reserved EXCEPT ![r] = @ + 1] \in [Resource -> Nat]
        /\ [granted.reserved EXCEPT ![r] = @ + 1] \in [Resource -> Nat]
    BY <1>1 DEF Ledger, Use
  <2>2. l \in Ledger
    BY <1>1, <2>1 DEF Ledger
  <2>3. use \in Use
    BY <1>1, <2>1 DEF Use
  <2>4. Covers(l, use)
    BY <1>1, <2>1 DEF Covers, Ledger, Use
  <2>5. Written("loop", l) /\ granted' = use
    BY <1>2 DEF Reserve, Current
  <2> HIDE DEF l, use
  <2> QED BY <2>2, <2>3, <2>4, <2>5, WrittenPersists DEF Object
<1>3. CASE Preflight
  <2> DEFINE l == [file EXCEPT !.requests = @ + 1]
             use == [granted EXCEPT !.requests = @ + 1]
  <2>1. l \in Ledger
    BY <1>1 DEF Ledger
  <2>2. use \in Use /\ Covers(l, use)
    BY <1>1 DEF Use, Covers, Ledger
  <2>3. Written("model", l) /\ granted' = use
    BY <1>3 DEF Preflight, Current
  <2> HIDE DEF l, use
  <2> QED BY <2>1, <2>2, <2>3, WrittenPersists DEF Object
<1>4. ASSUME NEW o \in Object, Terminate(o) PROVE Persisted'
  <2>1. Extends([file EXCEPT !.terminated = TRUE], file)
    BY <1>1, FlagsExtend
  <2> QED BY <1>4, <2>1, InterruptedPersists DEF Terminate, Current
<1>5. ASSUME NEW o \in Object, Closed(o) PROVE Persisted'
  BY <1>1, <1>5 DEF Closed, Current, LedgerInv, Persisted, Covers
<1>6. CASE Finalize
  <2>1. Extends([file EXCEPT !.closed = TRUE], file)
    BY <1>1, FlagsExtend
  <2> QED BY <1>6, <2>1, InterruptedPersists DEF Finalize, Current, Object
<1> QED
  BY <1>2, <1>3, <1>4, <1>5, <1>6 DEF ReserveRefused, PreflightRefused, Object

\* The callbacks of a request, and what invoke records after them.
LEMMA RequestOperations ==
  ASSUME LedgerInv,
         Attempt \/ Respond \/ (\E error \in Error : Fails(error)) \/ Return
  PROVE  Persisted'
<1>1. file \in Ledger /\ granted \in Use /\ Covers(file, granted)
  BY DEF LedgerInv, Persisted
<1>2. "model" \in Object
  BY DEF Object
<1>3. CASE Attempt
  <2>1. Extends(Begin(file), file)
    BY <1>1, <1>3, BeginExtends DEF Attempt, Current
  <2> QED
    BY <1>2, <1>3, <2>1, InterruptedPersists DEF Attempt, Current
<1>4. ASSUME NEW outcome \in Outcome, NEW cost \in Nat, NEW l,
             Extends(l, file), l.usage = file.usage + cost,
             \/ /\ Written("model", l)
                /\ granted' = [granted EXCEPT !.usage = @ + cost]
             \/ /\ Interrupted("model", l)
                /\ UNCHANGED granted
      PROVE  Persisted'
  <2> DEFINE use == [granted EXCEPT !.usage = @ + cost]
  <2>1. use \in Use
    BY <1>1, <1>4 DEF Use
  <2>2. l \in Ledger /\ Covers(l, use)
    BY <1>1, <1>4 DEF Covers, Extends, Ledger, Use
  <2> HIDE DEF use
  <2>3. CASE Written("model", l) /\ granted' = use
    BY <1>2, <2>1, <2>2, <2>3, WrittenPersists
  <2>4. CASE Interrupted("model", l) /\ UNCHANGED granted
    BY <1>2, <1>4, <2>4, InterruptedPersists
  <2> QED BY <1>4, <2>3, <2>4 DEF use
<1>5. CASE Respond
  <2>1. PICK cost \in Cost :
          \/ /\ Written("model", Settle(file, "response", cost))
             /\ granted' = [granted EXCEPT !.usage = @ + cost]
          \/ /\ Interrupted("model", Settle(file, "response", cost))
             /\ UNCHANGED granted
    BY <1>5 DEF Respond, Current
  <2>2. cost \in Nat /\ "response" \in Outcome
    BY LedgerAssumption DEF Outcome
  <2> QED
    BY <1>1, <1>4, <2>1, <2>2, SettleExtends
<1>6. ASSUME NEW error \in Error, Fails(error) PROVE Persisted'
  <2> DEFINE outcome == IF error = "usage_bearing" THEN "usage_bearing_error" ELSE "error"
  <2>1. PICK cost \in Nat :
          \E l \in {Settle(file, outcome, cost),
                    Retried(Settle(file, outcome, cost), error)} :
            \/ /\ Written("model", l)
               /\ granted' = [granted EXCEPT !.usage = @ + cost]
            \/ /\ Interrupted("model", l)
               /\ UNCHANGED granted
    <3>1. CASE error = "usage_bearing"
      BY <1>6, <3>1, LedgerAssumption DEF Fails, Current
    <3>2. CASE error # "usage_bearing"
      BY <1>6, <3>2 DEF Fails, Current
    <3> QED BY <3>1, <3>2
  <2>2. outcome \in Outcome
    BY DEF Outcome
  <2> HIDE DEF outcome
  <2>3. \A l \in {Settle(file, outcome, cost), Retried(Settle(file, outcome, cost), error)} :
          Extends(l, file) /\ l.usage = file.usage + cost
    BY <1>1, <2>2, SettleExtends, RetriedExtends
  <2> QED
    BY <1>4, <2>1, <2>2, <2>3
<1>7. CASE Return
  <2> DEFINE next == [file EXCEPT
                        !.recoveries = IF request.retries > 0 THEN @ + 1 ELSE @,
                        !.parseRecoveries = IF request.parseFailures > 0 THEN @ + 1 ELSE @]
  <2>1. Extends(next, file)
    BY <1>1, RecoveryExtends
  <2>2. Written("model", next) /\ UNCHANGED granted
    BY <1>7 DEF Return, Current
  <2> HIDE DEF next
  <2> QED BY <1>2, <2>1, <2>2, InterruptedPersists
<1> QED BY <1>3, <1>5, <1>6, <1>7

\* A process that starts again finds everything that was acknowledged.
LEMMA RestartPersists ==
  ASSUME LedgerInv, Restart
  PROVE  Persisted'
<1>1. file \in Ledger /\ granted \in Use /\ Covers(file, granted)
  BY DEF LedgerInv, Persisted
<1>2. Extends(file, file)
  BY <1>1 DEF Extends, Ledger
<1>3. Extends([Settle(file, "error", 0) EXCEPT !.retries = @ + 1], file)
  BY <1>1, SettleExtends, CountedExtends DEF Outcome
<1>4. Extends([file EXCEPT !.parseRecoveries = @ + 1], file)
  BY <1>1, <1>2, CountedExtends
<1>5. Extends(file', file)
  BY <1>2, <1>3, <1>4 DEF Restart, Partial
<1>6. Covers(file', granted) /\ file' \in Ledger
  BY <1>1, <1>5, ExtendsCovers DEF Extends
<1> QED BY <1>1, <1>6 DEF Restart, Persisted, Covers

LEMMA PersistedNext == LedgerInv /\ [LedgerNext]_ledgerVars => Persisted'
<1> SUFFICES ASSUME LedgerInv, [LedgerNext]_ledgerVars PROVE Persisted'
  OBVIOUS
<1>1. ASSUME UNCHANGED <<file, memory, granted>> PROVE Persisted'
  BY <1>1 DEF LedgerInv, Persisted, Covers
<1>2. CASE DeadlinePasses \/ Abandon \/ TimePasses
  BY <1>1, <1>2 DEF DeadlinePasses, Abandon, TimePasses
<1>3. CASE UNCHANGED ledgerVars
  BY <1>1, <1>3 DEF ledgerVars
<1> QED
  BY <1>2, <1>3, LoopOperations, RequestOperations, RestartPersists DEF LedgerNext

\* What may become of the request in progress.
Requested ==
  {request, NoRequest, [NoRequest EXCEPT !.phase = "ready"],
   [request EXCEPT !.late = TRUE],
   [request EXCEPT !.phase = "calling"], [request EXCEPT !.phase = "returning"]}

RetriedRequest(error) ==
  [request EXCEPT !.phase = "ready", !.retries = @ + 1,
                  !.parseFailures = IF error = "json" THEN @ + 1 ELSE @]

LEMMA RequestNext ==
  ASSUME LedgerNext
  PROVE  \/ request' \in Requested
         \/ \E error \in Error : MayRetry(error) /\ request' = RetriedRequest(error)
<1>1. CASE \E error \in Error : Fails(error)
  BY <1>1 DEF Fails, Requested, RetriedRequest
<1>2. CASE Attempt \/ Respond \/ DeadlinePasses \/ Return \/ Abandon \/ Preflight
  BY <1>2 DEF Attempt, Respond, DeadlinePasses, Return, Abandon, Preflight, Requested
<1>3. CASE PreflightRefused \/ Finalize \/ TimePasses \/ Restart
  BY <1>3 DEF PreflightRefused, Finalize, TimePasses, Restart, Requested, Terminate, Closed
<1>4. CASE \E r \in Resource : Reserve(r) \/ ReserveRefused(r)
  BY <1>4 DEF Reserve, ReserveRefused, Requested, Terminate, Closed
<1> QED BY <1>1, <1>2, <1>3, <1>4 DEF LedgerNext

\* invoke retries at most max_retries times, and counts what it could not parse.
LEMMA ControlledNext == LedgerInv /\ [LedgerNext]_ledgerVars => Controlled'
<1> SUFFICES ASSUME Controlled, [LedgerNext]_ledgerVars PROVE Controlled'
  BY DEF LedgerInv
<1>1. CASE UNCHANGED ledgerVars
  BY <1>1 DEF ledgerVars, Controlled
<1>2. CASE LedgerNext
  <2>1. episode' \in {"running", "over", "finished"} /\ expired' \in BOOLEAN
    BY <1>2, Zenon DEF LedgerNext, Controlled, Reserve, ReserveRefused, Finalize, Preflight,
         PreflightRefused, DeadlinePasses, Attempt, Respond, Return, Abandon, Fails, TimePasses,
         Restart, Terminate, Closed
  <2>2. crashes' \in {crashes, crashes + 1} /\ (crashes' # crashes => crashes < MaxCrashes)
    BY <1>2 DEF LedgerNext, Reserve, ReserveRefused, Finalize, Preflight,
         PreflightRefused, DeadlinePasses, Attempt, Respond, Return, Abandon, Fails, TimePasses,
         Restart, Terminate, Closed
  <2>3. crashes' \in 0 .. MaxCrashes
    BY <2>2, LedgerAssumption DEF Controlled
  <2>4. request'.parseFailures <= request'.retries /\ request' \in RequestType
    <3>1. request \in RequestType /\ request.parseFailures <= request.retries
      BY DEF Controlled
    <3>2. CASE request' \in {request, [request EXCEPT !.late = TRUE],
                             [request EXCEPT !.phase = "calling"],
                             [request EXCEPT !.phase = "returning"]}
      <4>1. request' \in RequestType
        BY <3>1, <3>2, Zenon DEF RequestType
      <4>2. request'.parseFailures = request.parseFailures /\ request'.retries = request.retries
        BY <3>1, <3>2, Zenon DEF RequestType
      <4> QED BY <3>1, <4>1, <4>2
    <3>3. CASE request' \in {NoRequest, [NoRequest EXCEPT !.phase = "ready"]}
      <4>1. 0 \in 0 .. Retries
        BY LedgerAssumption
      <4>2. PICK phase \in {"none", "ready"} :
              request' = [phase |-> phase, late |-> FALSE, retries |-> 0, parseFailures |-> 0]
        BY <3>3 DEF NoRequest
      <4>3. phase \in {"none", "ready", "calling", "returning"} /\ FALSE \in BOOLEAN
        OBVIOUS
      <4>4. request' \in RequestType
        BY <4>1, <4>2, <4>3, Zenon DEF RequestType
      <4> QED BY <4>2, <4>4
    <3>4. ASSUME NEW error \in Error, MayRetry(error), request' = RetriedRequest(error)
          PROVE  request'.parseFailures <= request'.retries /\ request' \in RequestType
      <4> DEFINE retries == request.retries + 1
                 parsed == IF error = "json" THEN request.parseFailures + 1
                                             ELSE request.parseFailures
      <4>1. retries \in 0 .. Retries /\ parsed \in 0 .. Retries /\ parsed <= retries
        BY <3>1, <3>4, LedgerAssumption DEF MayRetry, RequestType
      <4>2. request' = [request EXCEPT !.phase = "ready", !.retries = retries,
                                       !.parseFailures = parsed]
        BY <3>4 DEF RetriedRequest
      <4> HIDE DEF retries, parsed
      <4>3. request' \in RequestType
        BY <3>1, <4>1, <4>2, Zenon DEF RequestType
      <4>4. request'.retries = retries /\ request'.parseFailures = parsed
        BY <3>1, <4>2 DEF RequestType
      <4> QED BY <4>1, <4>3, <4>4
    <3> QED
      BY <1>2, <3>2, <3>3, <3>4, RequestNext DEF Requested
  <2> QED BY <2>1, <2>3, <2>4 DEF Controlled
<1> QED BY <1>1, <1>2

LEMMA LedgerInvariant == LedgerSpec => []LedgerInv
<1>1. LedgerInv /\ [LedgerNext]_ledgerVars => LedgerInv'
  BY PersistedNext, ControlledNext DEF LedgerInv
<1> QED BY <1>1, LedgerInitInv, PTL DEF LedgerSpec

\* The ledger file, the objects and the request in progress are well formed.
THEOREM LedgerTypeCorrect == LedgerSpec => []LedgerTypeOK
<1>1. LedgerInv => LedgerTypeOK
  BY DEF LedgerInv, LedgerTypeOK, Persisted, Controlled, Use, RequestType
<1> QED BY <1>1, LedgerInvariant, PTL

\* What an operation returned to its caller stays in the file, whichever object
\* writes it next, whatever interrupts that, and through every restart.
THEOREM UsePersists == LedgerSpec => []AcknowledgedUsePersists
<1>1. LedgerInv => AcknowledgedUsePersists
  BY DEF LedgerInv, AcknowledgedUsePersists, Persisted, Covers
<1> QED BY <1>1, LedgerInvariant, PTL

-----------------------------------------------------------------------------
(* The limits                                                              *)

\* A request in progress has tokens left until it answers, and none is in
\* progress when the episode is over.
Bounded ==
  /\ file.requests <= MaxRequests
  /\ \A r \in Resource : file.reserved[r] <= Limit[r]
  /\ \E cost \in Cost : file.usage < MaxUsage + cost
  /\ request.phase \in {"ready", "calling"} => file.usage < MaxUsage
  /\ episode # "running" \/ file.closed => request.phase = "none"

\* Records that neither spend, begin an attempt nor close the ledger.
Kept(l) ==
  /\ l.requests = file.requests /\ l.usage = file.usage /\ l.reserved = file.reserved
  /\ DOMAIN l.attempts = DOMAIN file.attempts
  /\ l.closed = file.closed

LEMMA SettleKeeps ==
  ASSUME NEW l \in Ledger, NEW outcome, NEW cost \in Nat
  PROVE  LET next == Settle(l, outcome, cost) IN
         /\ next.requests = l.requests /\ next.reserved = l.reserved
         /\ next.usage = l.usage + cost
         /\ DOMAIN next.attempts = DOMAIN l.attempts
         /\ next.closed = l.closed
BY DEF Settle, Ledger

LEMMA SettleErrorKept ==
  ASSUME file \in Ledger
  PROVE  Settle(file, "error", 0) \in Ledger /\ Kept(Settle(file, "error", 0))
<1>1. "error" \in Outcome /\ 0 \in Nat
  BY DEF Outcome
<1>2. file.usage + 0 = file.usage
  BY DEF Ledger
<1> QED
  BY <1>1, <1>2, SettleKeeps, SettleType DEF Kept

LEMMA RetriedKeeps ==
  ASSUME NEW l \in Ledger, NEW error
  PROVE  LET next == Retried(l, error) IN
         /\ next.requests = l.requests /\ next.reserved = l.reserved
         /\ next.usage = l.usage
         /\ DOMAIN next.attempts = DOMAIN l.attempts
         /\ next.closed = l.closed
BY DEF Retried, Ledger

StepRespects ==
  /\ Began(file') > Began(file) => file.usage < MaxUsage
  /\ file.closed => file' = file

\* Steps that only record.
LEMMA QuietStep ==
  ASSUME LedgerInv, Bounded, Kept(file'), file.closed => file' = file,
         request'.phase \in {"ready", "calling"} => request.phase \in {"ready", "calling"},
         episode' # "running" \/ file'.closed => request'.phase = "none"
  PROVE  Bounded' /\ StepRespects
<1>1. Began(file') = Began(file) /\ Began(file) \in Nat
  BY BeganType DEF Kept, Began, LedgerInv, Persisted
<1>2. StepRespects
  BY <1>1 DEF StepRespects
<1>3. Bounded'
  BY DEF Bounded, Kept
<1> QED BY <1>2, <1>3

\* The loop's reservations, the preflight of a request, and the end.
LEMMA LoopStepBounded ==
  ASSUME LedgerInv, Bounded,
         \/ \E r \in Resource : Reserve(r) \/ ReserveRefused(r)
         \/ Finalize \/ Preflight \/ PreflightRefused
  PROVE  Bounded' /\ StepRespects
<1>1. file \in Ledger
  BY DEF LedgerInv, Persisted
<1>2. file.reserved \in [Resource -> Nat] /\ file.requests \in Nat /\ file.usage \in Nat
  BY <1>1 DEF Ledger
<1>3. Began(file) \in Nat
  BY <1>1, BeganType
<1>4. ASSUME NEW r \in Resource, Reserve(r) PROVE Bounded' /\ StepRespects
  <2>1. file' = [file EXCEPT !.reserved[r] = @ + 1]
    BY <1>4 DEF Reserve, Written, Current
  <2>2. /\ file'.requests = file.requests /\ file'.usage = file.usage
        /\ file'.attempts = file.attempts /\ file'.closed = file.closed
        /\ file'.reserved = [file.reserved EXCEPT ![r] = @ + 1]
    BY <1>1, <2>1 DEF Ledger
  <2>3. r \notin Exhausted(file) /\ ~file.closed
    BY <1>4 DEF Reserve, Current
  <2>4. file.reserved[r] < Limit[r]
    BY <1>2, <2>3, LedgerAssumption DEF Exhausted
  <2>5. \A q \in Resource : file'.reserved[q] <= Limit[q]
    BY <1>2, <2>2, <2>4, LedgerAssumption DEF Bounded
  <2>6. request' = request /\ episode' = episode
    BY <1>4 DEF Reserve
  <2>7. Bounded'
    BY <2>2, <2>5, <2>6 DEF Bounded
  <2>8. StepRespects
    BY <1>3, <2>2, <2>3 DEF StepRespects, Began
  <2> QED BY <2>7, <2>8
<1>5. CASE Preflight
  <2>1. file' = [file EXCEPT !.requests = @ + 1]
    BY <1>5 DEF Preflight, Written, Current
  <2>2. /\ file'.requests = file.requests + 1 /\ file'.usage = file.usage
        /\ file'.attempts = file.attempts /\ file'.closed = file.closed
        /\ file'.reserved = file.reserved
    BY <1>1, <2>1 DEF Ledger
  <2>3. Exhausted(file) = {} /\ ~file.closed /\ episode = "running"
    BY <1>5 DEF Preflight, Current, Idle
  <2>4. "requests" \notin Exhausted(file) /\ "usage" \notin Exhausted(file)
    BY <2>3
  <2>5. ~(file.requests >= MaxRequests) /\ ~(file.usage >= MaxUsage)
    BY <2>4 DEF Exhausted
  <2>6. file.requests < MaxRequests /\ file.usage < MaxUsage
    BY <1>2, <2>5, LedgerAssumption
  <2>7. file'.requests <= MaxRequests
    BY <1>2, <2>2, <2>6, LedgerAssumption
  <2>8. episode' = "running"
    BY <1>5, <2>3 DEF Preflight
  <2>9. Bounded'
    BY <2>2, <2>3, <2>6, <2>7, <2>8 DEF Bounded
  <2>10. StepRespects
    BY <1>3, <2>2, <2>3 DEF StepRespects, Began
  <2> QED BY <2>9, <2>10
<1>6. ASSUME NEW o \in Object, Idle, Terminate(o), ~file.closed
      PROVE  Bounded' /\ StepRespects
  <2>1. Kept(file')
    BY <1>1, <1>6 DEF Terminate, Written, Current, Kept, Ledger
  <2> QED BY <1>6, <2>1, QuietStep DEF Terminate, Idle
<1>7. ASSUME NEW o \in Object, Idle, Closed(o) PROVE Bounded' /\ StepRespects
  <2>1. Kept(file') /\ file' = file
    BY <1>7 DEF Closed, Kept
  <2> QED BY <1>7, <2>1, QuietStep DEF Closed, Idle
<1>8. CASE Finalize
  <2>1. file' = [file EXCEPT !.closed = TRUE]
    BY <1>8 DEF Finalize, Written, Current
  <2>2. /\ file'.requests = file.requests /\ file'.usage = file.usage
        /\ file'.attempts = file.attempts /\ file'.reserved = file.reserved
    BY <1>1, <2>1 DEF Ledger
  <2>3. request'.phase = "none"
    BY <1>8 DEF Finalize, Idle, Bounded
  <2>4. file.closed => file' = file
    BY <1>1, <2>1 DEF Ledger
  <2>5. Bounded'
    BY <2>2, <2>3 DEF Bounded
  <2>6. StepRespects
    BY <1>3, <2>2, <2>4 DEF StepRespects, Began
  <2> QED BY <2>5, <2>6
<1> QED
  BY <1>4, <1>5, <1>6, <1>7, <1>8 DEF ReserveRefused, PreflightRefused, Object, Current

\* A request that answers with an error spends nothing unless it carries usage.
LEMMA RequestStepBounded ==
  ASSUME LedgerInv, Bounded,
         \/ Attempt \/ Respond \/ Return \/ (\E error \in Error : Fails(error))
         \/ DeadlinePasses \/ Abandon \/ TimePasses \/ Restart
  PROVE  Bounded' /\ StepRespects
<1>1. file \in Ledger /\ request \in RequestType
  BY DEF LedgerInv, Persisted, Controlled
<1>2. /\ file.requests \in Nat /\ file.usage \in Nat /\ file.closed \in BOOLEAN
      /\ Began(file) \in Nat
  BY <1>1, BeganType DEF Ledger
<1>3. Kept(file)
  BY DEF Kept
<1>4. CASE DeadlinePasses \/ Abandon \/ TimePasses
  <2>1. file' = file /\ episode' = episode
    BY <1>4 DEF DeadlinePasses, Abandon, TimePasses
  <2>2. request'.phase \in {request.phase, "none"}
    BY <1>1, <1>4 DEF DeadlinePasses, Abandon, TimePasses, NoRequest, RequestType
  <2>3. episode' # "running" \/ file'.closed => request'.phase = "none"
    BY <2>1, <2>2 DEF Bounded
  <2> QED BY <1>3, <2>1, <2>2, <2>3, QuietStep
<1>5. ASSUME request.phase # "none"
      PROVE  ~file.closed /\ episode = "running"
  BY <1>5 DEF Bounded
<1>6. CASE Attempt
  <2>1. file' \in {file, Begin(file)} /\ request.phase = "ready" /\ episode' = episode
    BY <1>6 DEF Attempt, Written, Interrupted, Current
  <2>2. /\ Begin(file).requests = file.requests /\ Begin(file).usage = file.usage
        /\ Begin(file).reserved = file.reserved /\ Begin(file).closed = file.closed
    BY <1>1 DEF Begin, Ledger
  <2>3. file.usage < MaxUsage /\ ~file.closed /\ episode = "running"
    BY <2>1, <1>5 DEF Bounded
  <2>4. /\ file'.requests = file.requests /\ file'.usage = file.usage
        /\ file'.reserved = file.reserved /\ ~file'.closed
    BY <2>1, <2>2, <2>3
  <2>5. Bounded'
    BY <2>1, <2>3, <2>4 DEF Bounded
  <2> QED BY <2>3, <2>5 DEF StepRespects
<1>7. ASSUME request.phase = "calling", NEW l \in Ledger, NEW cost \in Cost,
             Kept([l EXCEPT !.usage = file.usage]), l.usage = file.usage + cost,
             file' \in {file, l}, episode' = episode,
             request'.phase \in {"none", "returning"}
      PROVE  Bounded' /\ StepRespects
  <2>1. file.usage < MaxUsage /\ ~file.closed /\ episode = "running"
    BY <1>5, <1>7 DEF Bounded
  <2>2. /\ l.requests = file.requests /\ l.reserved = file.reserved
        /\ DOMAIN l.attempts = DOMAIN file.attempts /\ l.closed = file.closed
    BY <1>7 DEF Kept, Ledger
  <2>3. file'.usage \in {file.usage, file.usage + cost}
    BY <1>7
  <2>4. \E c \in Cost : file'.usage < MaxUsage + c
    BY <1>2, <1>7, <2>1, <2>3, LedgerAssumption
  <2>5. /\ file'.requests = file.requests /\ file'.reserved = file.reserved
        /\ ~file'.closed
    BY <1>7, <2>1, <2>2
  <2>6. Bounded'
    BY <1>7, <2>1, <2>4, <2>5 DEF Bounded
  <2> QED BY <2>1, <2>6 DEF StepRespects
<1>8. CASE Respond
  <2>1. PICK cost \in Cost :
          file' \in {file, Settle(file, "response", cost)}
    BY <1>8 DEF Respond, Written, Interrupted, Current
  <2> DEFINE l == Settle(file, "response", cost)
  <2>2. cost \in Nat /\ "response" \in Outcome
    BY LedgerAssumption DEF Outcome
  <2>3. l \in Ledger
    BY <1>1, <2>2, SettleType
  <2>4. Kept([l EXCEPT !.usage = file.usage]) /\ l.usage = file.usage + cost
    BY <1>1, <2>2, <2>3, SettleKeeps DEF Kept, Ledger
  <2>5. request.phase = "calling" /\ episode' = episode
    BY <1>8 DEF Respond
  <2>6. request'.phase \in {"none", "returning"}
    BY <1>1, <1>8 DEF Respond, NoRequest, RequestType
  <2> HIDE DEF l
  <2>7. file' \in {file, l}
    BY <2>1 DEF l
  <2> QED BY <1>7, <2>3, <2>4, <2>5, <2>6, <2>7
<1>9. CASE Fails("usage_bearing")
  <2>1. PICK cost \in Cost :
          file' \in {file, Settle(file, "usage_bearing_error", cost)}
    BY <1>9 DEF Fails, Written, Interrupted, Current, MayRetry
  <2> DEFINE l == Settle(file, "usage_bearing_error", cost)
  <2>2. cost \in Nat /\ "usage_bearing_error" \in Outcome
    BY LedgerAssumption DEF Outcome
  <2>3. l \in Ledger
    BY <1>1, <2>2, SettleType
  <2>4. Kept([l EXCEPT !.usage = file.usage]) /\ l.usage = file.usage + cost
    BY <1>1, <2>2, <2>3, SettleKeeps DEF Kept, Ledger
  <2>5. request.phase = "calling" /\ episode' = episode
    BY <1>9 DEF Fails
  <2>6. request'.phase \in {"none", "returning"}
    <3>1. ~MayRetry("usage_bearing")
      BY DEF MayRetry
    <3>2. request' = NoRequest
      BY <1>9, <3>1 DEF Fails
    <3> QED BY <3>2 DEF NoRequest
  <2> HIDE DEF l
  <2>7. file' \in {file, l}
    BY <2>1 DEF l
  <2> QED BY <1>7, <2>3, <2>4, <2>5, <2>6, <2>7
<1>10. ASSUME NEW error \in Error \ {"usage_bearing"}, Fails(error)
       PROVE  Bounded' /\ StepRespects
  <2> DEFINE next == Settle(file, "error", 0)
  <2>1. file' \in {file, next, Retried(next, error)} /\ request.phase = "calling"
        /\ episode' = episode
    BY <1>10 DEF Fails, Written, Interrupted, Current
  <2>2. next \in Ledger /\ Kept(next)
    BY <1>1, SettleErrorKept
  <2>3. Kept(Retried(next, error))
    <3> HIDE DEF next
    <3> QED BY <2>2, RetriedKeeps DEF Kept
  <2> HIDE DEF next
  <2>4. Kept(file') /\ ~file'.closed
    BY <1>3, <1>5, <2>1, <2>2, <2>3 DEF Kept
  <2> QED BY <1>5, <2>1, <2>4, QuietStep
<1>11. CASE Return
  <2>1. Kept(file')
    BY <1>1, <1>11 DEF Return, Written, Current, Kept, Ledger
  <2>2. request.phase # "none" /\ request'.phase = "none" /\ episode' = episode
    BY <1>11 DEF Return, NoRequest
  <2> QED BY <1>5, <2>1, <2>2, QuietStep
<1>12. CASE Restart
  <2> DEFINE next == Settle(file, "error", 0)
  <2>1. next \in Ledger /\ Kept(next)
    BY <1>1, SettleErrorKept
  <2>2. Kept([next EXCEPT !.retries = @ + 1])
    <3> HIDE DEF next
    <3> QED BY <2>1 DEF Kept, Ledger
  <2>3. Kept([file EXCEPT !.parseRecoveries = @ + 1])
    BY <1>1 DEF Kept, Ledger
  <2>4. /\ file' \in {file, [next EXCEPT !.retries = @ + 1],
                      [file EXCEPT !.parseRecoveries = @ + 1]}
        /\ file' # file => request.phase # "none"
    BY <1>12 DEF Restart, Partial
  <2> HIDE DEF next
  <2>5. Kept(file') /\ request'.phase = "none" /\ (file.closed => file' = file)
    BY <1>3, <1>5, <1>12, <2>2, <2>3, <2>4 DEF Restart, NoRequest
  <2> QED BY <2>5, QuietStep
<1> QED
  BY <1>4, <1>6, <1>8, <1>9, <1>10, <1>11, <1>12

\* max_model_requests and the limits of the reservations hold, the usage passes
\* its limit by one response at most, no attempt begins when it has, and the
\* ledger does not change any more once it was finalized.
THEOREM LimitsRespected == LedgerSpec => BudgetIsRespected
<1>1. LedgerInit => Bounded
  <2> SUFFICES ASSUME LedgerInit PROVE Bounded
    OBVIOUS
  <2>1. PICK cost \in Cost : cost \in Nat
    BY LedgerAssumption
  <2>2. 0 < MaxUsage + cost /\ 0 < MaxUsage /\ 0 <= MaxRequests
    BY <2>1, LedgerAssumption
  <2>3. \A r \in Resource : 0 <= Limit[r]
    BY LedgerAssumption
  <2> QED
    BY <2>2, <2>3 DEF LedgerInit, Bounded, Blank, NoRequest
<1>2. LedgerInv /\ Bounded /\ [LedgerNext]_ledgerVars => Bounded' /\ [StepRespects]_ledgerVars
  <2> SUFFICES ASSUME LedgerInv, Bounded, [LedgerNext]_ledgerVars
               PROVE  Bounded' /\ [StepRespects]_ledgerVars
    OBVIOUS
  <2>1. CASE UNCHANGED ledgerVars
    BY <2>1 DEF ledgerVars, Bounded
  <2> QED
    BY <2>1, LoopStepBounded, RequestStepBounded DEF LedgerNext
<1>3. Bounded => /\ file.requests <= MaxRequests
                 /\ \A r \in Resource : file.reserved[r] <= Limit[r]
                 /\ \E cost \in Cost : file.usage < MaxUsage + cost
  BY DEF Bounded
<1>4. [StepRespects]_ledgerVars
        => [/\ Began(file') > Began(file) => file.usage < MaxUsage
            /\ file.closed => file' = file]_ledgerVars
  BY DEF StepRespects
<1> QED
  BY <1>1, <1>2, <1>3, <1>4, LedgerInvariant, PTL DEF LedgerSpec, BudgetIsRespected

-----------------------------------------------------------------------------
(* The counters                                                            *)

EndedOf(l, outcomes) == {i \in DOMAIN l.attempts : l.attempts[i] \in outcomes}

Answered == {"response", "usage_bearing_error"}

\* AttemptsReconcile of one ledger.
Reconciles(l) ==
  /\ l.responses = Cardinality(EndedOf(l, Answered))
  /\ l.errors = Cardinality(EndedOf(l, {"error"}))
  /\ Began(l) <= l.requests + l.retries
  /\ l.parseRetries <= l.retries /\ l.retries <= l.errors
  /\ l.recoveries <= l.retries /\ l.parseRecoveries <= l.parseRetries

\* An attempt that began has no outcome yet.
Answering(l) == Began(l) # 0 /\ l.attempts[Began(l)] = "in_progress"

LEMMA EndedFinite ==
  ASSUME NEW l \in Ledger, NEW outcomes
  PROVE  /\ IsFiniteSet(EndedOf(l, outcomes))
         /\ Cardinality(EndedOf(l, outcomes)) \in Nat
<1>1. DOMAIN l.attempts = 1 .. Began(l) /\ Began(l) \in Nat
  BY BeganType
<1>2. IsFiniteSet(1 .. Began(l))
  BY <1>1, FS_Interval
<1>3. EndedOf(l, outcomes) \subseteq 1 .. Began(l)
  BY <1>1 DEF EndedOf
<1> QED BY <1>2, <1>3, FS_Subset, FS_CardinalityType

\* A new attempt ends none.
LEMMA BeginCounts ==
  ASSUME NEW l \in Ledger, Reconciles(l), Began(l) < Attempts, Began(l) < l.requests + l.retries
  PROVE  Reconciles(Begin(l)) /\ Answering(Begin(l))
<1> DEFINE n == Began(l)
           k == Begin(l)
<1>1. n \in Nat /\ DOMAIN l.attempts = 1 .. n
  BY BeganType
<1>2. k.attempts = [i \in 1 .. n + 1 |-> IF i \in DOMAIN l.attempts THEN l.attempts[i]
                                                                   ELSE "in_progress"]
  BY DEF Begin, Ledger
<1>3. Cardinality(1 .. n + 1) = n + 1
  BY <1>1, FS_Interval
<1>4. Began(k) = n + 1
  BY <1>2, <1>3 DEF Began
<1>5. \A outcomes : "in_progress" \notin outcomes => EndedOf(k, outcomes) = EndedOf(l, outcomes)
  BY <1>1, <1>2 DEF EndedOf
<1>6. /\ k.responses = l.responses /\ k.errors = l.errors /\ k.requests = l.requests
      /\ k.retries = l.retries /\ k.parseRetries = l.parseRetries
      /\ k.recoveries = l.recoveries /\ k.parseRecoveries = l.parseRecoveries
  BY DEF Begin, Ledger
<1>7. l.requests \in Nat /\ l.retries \in Nat
  BY DEF Ledger
<1>8. n + 1 <= l.requests + l.retries
  BY <1>1, <1>7
<1>9. k.attempts[n + 1] = "in_progress"
  BY <1>1, <1>2
<1> HIDE DEF n, k
<1>10. Reconciles(k)
  BY <1>4, <1>5, <1>6, <1>8 DEF Reconciles, Answered, n
<1>11. Answering(k)
  BY <1>1, <1>4, <1>9 DEF Answering
<1> QED BY <1>10, <1>11 DEF k

\* An attempt is settled once, under one of the two counters.
LEMMA SettleCounts ==
  ASSUME NEW l \in Ledger, Reconciles(l), Answering(l),
         NEW outcome \in Answered \cup {"error"}, NEW cost \in Nat
  PROVE  LET k == Settle(l, outcome, cost) IN
         /\ Reconciles(k)
         /\ outcome = "error" => k.retries < k.errors
         /\ k.requests = l.requests /\ k.retries = l.retries
         /\ k.parseRetries = l.parseRetries
         /\ k.recoveries = l.recoveries /\ k.parseRecoveries = l.parseRecoveries
         /\ Began(k) = Began(l)
<1> DEFINE n == Began(l)
           k == Settle(l, outcome, cost)
<1>1. n \in Nat /\ DOMAIN l.attempts = 1 .. n /\ n \in 1 .. n /\ l.attempts[n] = "in_progress"
  BY BeganType DEF Answering
<1>2. k.attempts = [l.attempts EXCEPT ![n] = outcome]
  BY DEF Settle, Ledger
<1>3. Began(k) = n
  BY <1>2 DEF Began
<1>4. /\ k.requests = l.requests /\ k.retries = l.retries /\ k.parseRetries = l.parseRetries
      /\ k.recoveries = l.recoveries /\ k.parseRecoveries = l.parseRecoveries
      /\ k.responses = IF outcome = "error" THEN l.responses ELSE l.responses + 1
      /\ k.errors = IF outcome = "error" THEN l.errors + 1 ELSE l.errors
  BY DEF Settle, Ledger
<1>5. /\ l.responses \in Nat /\ l.errors \in Nat /\ l.retries \in Nat
  BY DEF Ledger
<1>6. ASSUME NEW outcomes, "in_progress" \notin outcomes
      PROVE  Cardinality(EndedOf(k, outcomes)) =
               IF outcome \in outcomes THEN Cardinality(EndedOf(l, outcomes)) + 1
                                       ELSE Cardinality(EndedOf(l, outcomes))
  <2>1. n \notin EndedOf(l, outcomes)
    BY <1>1, <1>6 DEF EndedOf
  <2>2. EndedOf(k, outcomes) = EndedOf(l, outcomes) \cup (IF outcome \in outcomes THEN {n} ELSE {})
    BY <1>1, <1>2, <1>6 DEF EndedOf
  <2>3. IsFiniteSet(EndedOf(l, outcomes))
    BY EndedFinite
  <2> HIDE DEF k, n
  <2> QED BY <2>1, <2>2, <2>3, FS_AddElement
<1> HIDE DEF n, k
<1>7. Cardinality(EndedOf(k, Answered)) =
        IF outcome = "error" THEN Cardinality(EndedOf(l, Answered))
                             ELSE Cardinality(EndedOf(l, Answered)) + 1
  BY <1>6 DEF Answered
<1>8. Cardinality(EndedOf(k, {"error"})) =
        IF outcome = "error" THEN Cardinality(EndedOf(l, {"error"})) + 1
                             ELSE Cardinality(EndedOf(l, {"error"}))
  BY <1>6 DEF Answered
<1>9. k.retries <= k.errors /\ (outcome = "error" => k.retries < k.errors)
  BY <1>4, <1>5 DEF Reconciles
<1>10. Reconciles(k)
  BY <1>3, <1>4, <1>7, <1>8, <1>9 DEF Reconciles, n
<1> QED BY <1>3, <1>4, <1>9, <1>10 DEF k, n

\* What the request in progress still owes to the counters: the outcome of its
\* attempt, an attempt for its last retry, and a recovery for its retries.
Accounted ==
  /\ Reconciles(file)
  /\ request.phase = "calling" => Answering(file)
  /\ request.phase = "ready" => Began(file) < file.requests + file.retries
  /\ request.phase # "none" /\ request.retries > 0 => file.recoveries < file.retries
  /\ request.phase # "none" /\ request.parseFailures > 0
       => file.parseRecoveries < file.parseRetries

SameCounts(l) ==
  /\ l.attempts = file.attempts /\ l.requests = file.requests /\ l.retries = file.retries
  /\ l.responses = file.responses /\ l.errors = file.errors
  /\ l.parseRetries = file.parseRetries
  /\ l.recoveries = file.recoveries /\ l.parseRecoveries = file.parseRecoveries

LEMMA SameReconciles ==
  ASSUME NEW l, Reconciles(file), SameCounts(l)
  PROVE  Reconciles(l)
<1>1. \A outcomes : EndedOf(l, outcomes) = EndedOf(file, outcomes)
  BY DEF EndedOf, SameCounts
<1> QED BY <1>1 DEF Reconciles, SameCounts, Began

\* A step that counts nothing.
LEMMA QuietAccounts ==
  ASSUME Accounted, SameCounts(file'),
         request'.phase \in {request.phase, "none"}, request'.retries \in {request.retries, 0},
         request'.parseFailures \in {request.parseFailures, 0}
  PROVE  Accounted'
<1>1. Reconciles(file')
  BY SameReconciles DEF Accounted
<1>2. Reconciles(file)'
  BY <1>1 DEF Reconciles, Began, EndedOf
<1>3. Began(file') = Began(file) /\ (Answering(file) => Answering(file'))
  BY DEF SameCounts, Began, Answering
<1> QED
  BY <1>2, <1>3 DEF Accounted, SameCounts, Answering, Began

LEMMA LoopStepAccounted ==
  ASSUME LedgerInv, Accounted,
         \/ \E r \in Resource : Reserve(r) \/ ReserveRefused(r)
         \/ Finalize \/ Preflight \/ PreflightRefused
         \/ DeadlinePasses \/ Abandon \/ TimePasses
  PROVE  Accounted'
<1>1. file \in Ledger /\ request \in RequestType
  BY DEF LedgerInv, Persisted, Controlled
<1>2. SameCounts(file)
  BY DEF SameCounts
<1>3. ASSUME NEW r \in Resource, Reserve(r) PROVE Accounted'
  <2>1. SameCounts(file') /\ request' = request
    BY <1>1, <1>3 DEF Reserve, Written, Current, SameCounts, Ledger
  <2> QED BY <2>1, QuietAccounts
<1>4. ASSUME NEW o \in Object, Terminate(o) \/ Closed(o) PROVE Accounted'
  <2>1. SameCounts(file') /\ request' = request
    BY <1>1, <1>4 DEF Terminate, Closed, Written, Current, SameCounts, Ledger
  <2> QED BY <2>1, QuietAccounts
<1>5. CASE Finalize
  <2>1. SameCounts(file') /\ request' = request
    BY <1>1, <1>5 DEF Finalize, Written, Current, SameCounts, Ledger
  <2> QED BY <2>1, QuietAccounts
<1>6. CASE DeadlinePasses \/ Abandon \/ TimePasses
  <2>1. SameCounts(file') /\ request' \in {request, NoRequest, [request EXCEPT !.late = TRUE]}
    BY <1>2, <1>6 DEF DeadlinePasses, Abandon, TimePasses, SameCounts
  <2>2. /\ request'.phase \in {request.phase, "none"}
        /\ request'.retries \in {request.retries, 0}
        /\ request'.parseFailures \in {request.parseFailures, 0}
    BY <1>1, <2>1 DEF NoRequest, RequestType
  <2> QED BY <2>1, <2>2, QuietAccounts
<1>7. CASE Preflight
  <2> DEFINE l == [file EXCEPT !.requests = @ + 1]
  <2>1. file' = l
    BY <1>7 DEF Preflight, Written, Current
  <2>2. /\ l.requests = file.requests + 1 /\ l.retries = file.retries
        /\ l.attempts = file.attempts
        /\ l.responses = file.responses /\ l.errors = file.errors
        /\ l.parseRetries = file.parseRetries
        /\ l.recoveries = file.recoveries /\ l.parseRecoveries = file.parseRecoveries
    BY <1>1 DEF Ledger
  <2> HIDE DEF l
  <2>3. /\ request'.phase = "ready" /\ request'.retries = 0 /\ request'.parseFailures = 0
    BY <1>7 DEF Preflight, NoRequest
  <2>4. file.requests \in Nat /\ file.retries \in Nat /\ Began(file) \in Nat
    BY <1>1, BeganType DEF Ledger
  <2>5. Began(l) = Began(file) /\ \A outcomes : EndedOf(l, outcomes) = EndedOf(file, outcomes)
    BY <2>2 DEF Began, EndedOf
  <2>6. Began(file) < l.requests + l.retries
    BY <2>2, <2>4 DEF Accounted, Reconciles
  <2>7. Reconciles(l)
    BY <2>2, <2>4, <2>5, <2>6 DEF Accounted, Reconciles
  <2> QED
    BY <2>1, <2>3, <2>5, <2>6, <2>7 DEF Accounted, Reconciles, Began, EndedOf
<1> QED
  BY <1>3, <1>4, <1>5, <1>6, <1>7 DEF ReserveRefused, PreflightRefused, Object

\* A retry is counted behind the error it answers.
LEMMA RetriedCounts ==
  ASSUME NEW l \in Ledger, Reconciles(l), l.retries < l.errors, NEW error
  PROVE  LET k == Retried(l, error) IN
         /\ Reconciles(k)
         /\ k.requests = l.requests /\ k.retries = l.retries + 1
         /\ k.parseRetries = IF error = "json" THEN l.parseRetries + 1 ELSE l.parseRetries
         /\ k.recoveries = l.recoveries /\ k.parseRecoveries = l.parseRecoveries
         /\ Began(k) = Began(l)
<1> DEFINE k == Retried(l, error)
<1>1. /\ k.requests = l.requests /\ k.retries = l.retries + 1 /\ k.attempts = l.attempts
      /\ k.parseRetries = IF error = "json" THEN l.parseRetries + 1 ELSE l.parseRetries
      /\ k.recoveries = l.recoveries /\ k.parseRecoveries = l.parseRecoveries
      /\ k.responses = l.responses /\ k.errors = l.errors
  BY DEF Retried, Ledger
<1> HIDE DEF k
<1>2. /\ l.requests \in Nat /\ l.retries \in Nat /\ l.errors \in Nat /\ l.parseRetries \in Nat
      /\ l.recoveries \in Nat /\ l.parseRecoveries \in Nat /\ Began(l) \in Nat
  BY BeganType DEF Ledger
<1>3. Began(k) = Began(l) /\ \A outcomes : EndedOf(k, outcomes) = EndedOf(l, outcomes)
  BY <1>1 DEF Began, EndedOf
<1>4. Reconciles(k)
  BY <1>1, <1>2, <1>3 DEF Reconciles
<1> QED BY <1>1, <1>3, <1>4 DEF k

\* Its recovery is counted behind the retry.
LEMMA RecoveredCounts ==
  ASSUME file \in Ledger, Reconciles(file), NEW k \in Ledger,
         SameCounts([k EXCEPT !.recoveries = file.recoveries,
                              !.parseRecoveries = file.parseRecoveries]),
         k.recoveries <= file.retries, k.parseRecoveries <= file.parseRetries
  PROVE  Reconciles(k)
<1>1. /\ k.attempts = file.attempts /\ k.requests = file.requests /\ k.retries = file.retries
      /\ k.responses = file.responses /\ k.errors = file.errors
      /\ k.parseRetries = file.parseRetries
  BY DEF SameCounts, Ledger
<1>2. Began(k) = Began(file) /\ \A outcomes : EndedOf(k, outcomes) = EndedOf(file, outcomes)
  BY <1>1 DEF Began, EndedOf
<1> QED BY <1>1, <1>2 DEF Reconciles

LEMMA RequestStepAccounted ==
  ASSUME LedgerInv, Accounted,
         Attempt \/ Respond \/ Return \/ (\E error \in Error : Fails(error)) \/ Restart
  PROVE  Accounted'
<1>1. file \in Ledger /\ request \in RequestType /\ Reconciles(file)
  BY DEF LedgerInv, Persisted, Controlled, Accounted
<1>2. NoRequest.phase = "none"
  BY DEF NoRequest
<1>3. ASSUME NEW l, file' = l, Reconciles(l), Answering(l) \/ request'.phase # "calling",
             request'.phase = "ready" => Began(l) < l.requests + l.retries,
             request'.phase # "none" /\ request'.retries > 0 => l.recoveries < l.retries,
             request'.phase # "none" /\ request'.parseFailures > 0
               => l.parseRecoveries < l.parseRetries
      PROVE  Accounted'
  BY <1>3 DEF Accounted, Reconciles, Answering, Began, EndedOf
<1>4. CASE Attempt
  <2> DEFINE l == Begin(file)
  <2>1. /\ request.phase = "ready" /\ Began(file) < Attempts
        /\ \/ file' = l /\ request' = [request EXCEPT !.phase = "calling"]
           \/ file' \in {file, l} /\ request' = NoRequest
    BY <1>4 DEF Attempt, Written, Interrupted, Current
  <2>2. Reconciles(l) /\ Answering(l)
    BY <1>1, <2>1, BeginCounts DEF Accounted
  <2>3. /\ l.recoveries = file.recoveries /\ l.retries = file.retries
        /\ l.parseRecoveries = file.parseRecoveries /\ l.parseRetries = file.parseRetries
    BY <1>1 DEF Begin, Ledger
  <2> HIDE DEF l
  <2>4. CASE file' = l /\ request' = [request EXCEPT !.phase = "calling"]
    <3>1. request'.phase = "calling" /\ request'.retries = request.retries
          /\ request'.parseFailures = request.parseFailures
      BY <1>1, <2>4 DEF RequestType
    <3> QED BY <1>3, <2>1, <2>2, <2>3, <2>4, <3>1 DEF Accounted
  <2>5. CASE file' \in {file, l} /\ request' = NoRequest
    BY <1>1, <1>2, <1>3, <2>2, <2>5
  <2> QED BY <2>1, <2>4, <2>5
<1>5. CASE Respond
  <2>1. PICK cost \in Cost :
          /\ request.phase = "calling"
          /\ \/ /\ file' = Settle(file, "response", cost)
                /\ request' = [request EXCEPT !.phase = "returning"]
             \/ /\ file' \in {file, Settle(file, "response", cost)}
                /\ request' = NoRequest
    BY <1>5 DEF Respond, Written, Interrupted, Current
  <2> DEFINE l == Settle(file, "response", cost)
  <2>2. cost \in Nat /\ "response" \in Answered \cup {"error"} /\ Answering(file)
    BY <2>1, LedgerAssumption DEF Answered, Accounted
  <2>3. /\ Reconciles(l)
        /\ l.recoveries = file.recoveries /\ l.retries = file.retries
        /\ l.parseRecoveries = file.parseRecoveries /\ l.parseRetries = file.parseRetries
    BY <1>1, <2>2, SettleCounts
  <2>4. \/ file' = l /\ request' = [request EXCEPT !.phase = "returning"]
        \/ file' \in {file, l} /\ request' = NoRequest
    BY <2>1, Zenon
  <2> HIDE DEF l
  <2>5. CASE file' = l /\ request' = [request EXCEPT !.phase = "returning"]
    <3>1. request'.phase = "returning" /\ request'.retries = request.retries
          /\ request'.parseFailures = request.parseFailures
      BY <1>1, <2>5 DEF RequestType
    <3> QED BY <1>3, <2>1, <2>3, <2>5, <3>1 DEF Accounted
  <2>6. CASE file' \in {file, l} /\ request' = NoRequest
    BY <1>1, <1>2, <1>3, <2>3, <2>6
  <2> QED BY <2>4, <2>5, <2>6
<1>6. CASE Fails("usage_bearing")
  <2>1. PICK cost \in Cost :
          /\ request.phase = "calling"
          /\ file' \in {file, Settle(file, "usage_bearing_error", cost)}
          /\ request' = NoRequest
    BY <1>6 DEF Fails, Written, Interrupted, Current, MayRetry
  <2> DEFINE l == Settle(file, "usage_bearing_error", cost)
  <2>2. cost \in Nat /\ "usage_bearing_error" \in Answered \cup {"error"} /\ Answering(file)
    BY <2>1, LedgerAssumption DEF Answered, Accounted
  <2>3. Reconciles(l)
    BY <1>1, <2>2, SettleCounts
  <2> HIDE DEF l
  <2>4. file' \in {file, l}
    BY <2>1 DEF l
  <2> QED BY <1>1, <1>2, <1>3, <2>1, <2>3, <2>4
<1>7. ASSUME Answering(file)
      PROVE  LET next == Settle(file, "error", 0) IN
             /\ next \in Ledger /\ Reconciles(next) /\ next.retries < next.errors
             /\ next.requests = file.requests /\ next.retries = file.retries
             /\ next.parseRetries = file.parseRetries
             /\ next.recoveries = file.recoveries
             /\ next.parseRecoveries = file.parseRecoveries
             /\ Began(next) = Began(file)
  <2>1. "error" \in Answered \cup {"error"} /\ "error" \in Outcome /\ 0 \in Nat
    BY DEF Outcome
  <2> QED BY <1>1, <1>7, <2>1, SettleCounts, SettleType
<1>8. ASSUME NEW error \in Error \ {"usage_bearing"}, Fails(error)
      PROVE  Accounted'
  <2> DEFINE next == Settle(file, "error", 0)
             l == Retried(next, error)
  <2>1. /\ request.phase = "calling"
        /\ \/ file' = l /\ request' = RetriedRequest(error)
           \/ file' \in {file, next} /\ request' = NoRequest
           \/ file' = l /\ request' = NoRequest
    BY <1>8 DEF Fails, Written, Interrupted, Current, RetriedRequest
  <2>2. /\ next \in Ledger /\ Reconciles(next) /\ next.retries < next.errors
        /\ next.requests = file.requests /\ next.retries = file.retries
        /\ next.parseRetries = file.parseRetries /\ next.recoveries = file.recoveries
        /\ next.parseRecoveries = file.parseRecoveries /\ Began(next) = Began(file)
    BY <1>7, <2>1 DEF Accounted
  <2>3. /\ Reconciles(l)
        /\ l.requests = next.requests /\ l.retries = next.retries + 1
        /\ l.parseRetries = IF error = "json" THEN next.parseRetries + 1 ELSE next.parseRetries
        /\ l.recoveries = next.recoveries /\ l.parseRecoveries = next.parseRecoveries
        /\ Began(l) = Began(next)
    <3> HIDE DEF next
    <3> QED BY <2>2, RetriedCounts
  <2> HIDE DEF next, l
  <2>4. CASE file' = l /\ request' = RetriedRequest(error)
    <3>1. /\ request'.phase = "ready"
          /\ request'.parseFailures = IF error = "json" THEN request.parseFailures + 1
                                                        ELSE request.parseFailures
      BY <1>1, <2>4 DEF RequestType, RetriedRequest
    <3>2. /\ file.requests \in Nat /\ file.retries \in Nat /\ file.parseRetries \in Nat
          /\ file.recoveries \in Nat /\ file.parseRecoveries \in Nat /\ Began(file) \in Nat
      BY <1>1, BeganType DEF Ledger
    <3>3. Began(l) < l.requests + l.retries /\ l.recoveries < l.retries
      BY <1>1, <2>2, <2>3, <3>2 DEF Reconciles
    <3>4. request'.parseFailures > 0 => l.parseRecoveries < l.parseRetries
      BY <1>1, <2>1, <2>2, <2>3, <3>1, <3>2 DEF Reconciles, Accounted
    <3> QED BY <1>3, <2>3, <2>4, <3>1, <3>3, <3>4
  <2>5. CASE file' \in {file, next, l} /\ request' = NoRequest
    BY <1>1, <1>2, <1>3, <2>2, <2>3, <2>5
  <2> QED BY <2>1, <2>4, <2>5
<1>9. CASE Return
  <2> DEFINE l == [file EXCEPT
                     !.recoveries = IF request.retries > 0 THEN @ + 1 ELSE @,
                     !.parseRecoveries = IF request.parseFailures > 0 THEN @ + 1 ELSE @]
  <2>1. file' = l /\ request' = NoRequest /\ request.phase = "returning"
    BY <1>9 DEF Return, Written, Current
  <2>2. l \in Ledger
    BY <1>1, RecoveryExtends DEF Extends
  <2>3. /\ l.recoveries = IF request.retries > 0 THEN file.recoveries + 1 ELSE file.recoveries
        /\ l.parseRecoveries = IF request.parseFailures > 0 THEN file.parseRecoveries + 1
                                                            ELSE file.parseRecoveries
        /\ SameCounts([l EXCEPT !.recoveries = file.recoveries,
                                !.parseRecoveries = file.parseRecoveries])
    BY <1>1 DEF Ledger, SameCounts
  <2> HIDE DEF l
  <2>4. /\ file.retries \in Nat /\ file.parseRetries \in Nat
        /\ file.recoveries \in Nat /\ file.parseRecoveries \in Nat
    BY <1>1 DEF Ledger
  <2>5. l.recoveries <= file.retries /\ l.parseRecoveries <= file.parseRetries
    BY <2>1, <2>3, <2>4 DEF Accounted, Reconciles
  <2>6. Reconciles(l)
    BY <1>1, <2>2, <2>3, <2>5, RecoveredCounts
  <2> QED BY <1>2, <1>3, <2>1, <2>6
<1>10. CASE Restart
  <2> DEFINE next == Settle(file, "error", 0)
             retried == [next EXCEPT !.retries = @ + 1]
             recovered == [file EXCEPT !.parseRecoveries = @ + 1]
  <2>1. /\ request' = NoRequest
        /\ \/ file' = file
           \/ file' = retried /\ request.phase = "calling"
           \/ file' = recovered /\ request.phase = "returning" /\ request.parseFailures > 0
    BY <1>10 DEF Restart, Partial
  <2>2. CASE file' = retried /\ request.phase = "calling"
    <3>1. /\ next \in Ledger /\ Reconciles(next) /\ next.retries < next.errors
      BY <1>7, <2>2 DEF Accounted
    <3>2. retried = Retried(next, "transient")
      BY <3>1 DEF Retried, Ledger
    <3> HIDE DEF next
    <3>3. Reconciles(Retried(next, "transient"))
      BY <3>1, RetriedCounts
    <3> QED BY <1>2, <1>3, <2>1, <2>2, <3>2, <3>3
  <2>3. CASE file' = recovered /\ request.phase = "returning" /\ request.parseFailures > 0
    <3>1. recovered \in Ledger
      BY <1>1 DEF Ledger
    <3>2. /\ recovered.recoveries = file.recoveries
          /\ recovered.parseRecoveries = file.parseRecoveries + 1
          /\ SameCounts([recovered EXCEPT !.recoveries = file.recoveries,
                                          !.parseRecoveries = file.parseRecoveries])
      BY <1>1 DEF Ledger, SameCounts
    <3>3. file.parseRecoveries < file.parseRetries /\ file.recoveries <= file.retries
      BY <2>3 DEF Accounted, Reconciles
    <3>4. recovered.parseRecoveries <= file.parseRetries /\ recovered.recoveries <= file.retries
      BY <1>1, <3>2, <3>3 DEF Ledger
    <3> HIDE DEF recovered
    <3>5. Reconciles(recovered)
      BY <1>1, <3>1, <3>2, <3>4, RecoveredCounts
    <3> QED BY <1>2, <1>3, <2>1, <2>3, <3>5
  <2>4. CASE file' = file
    BY <1>1, <1>2, <1>3, <2>1, <2>4
  <2> QED BY <2>1, <2>2, <2>3, <2>4
<1> QED BY <1>4, <1>5, <1>6, <1>8, <1>9, <1>10

\* Every response and error settles one attempt that a request or a counted
\* retry began, and no recovery is without its retry: also when the alarm rings
\* inside an operation or the process dies between two.
THEOREM CountersReconcile == LedgerSpec => []AttemptsReconcile
<1>1. LedgerInit => Accounted
  <2> SUFFICES ASSUME LedgerInit PROVE Accounted
    OBVIOUS
  <2>1. file = Blank /\ request.phase = "none"
    BY DEF LedgerInit, NoRequest
  <2>2. DOMAIN Blank.attempts = {} /\ Began(Blank) = 0
    BY FS_EmptySet DEF Blank, Began
  <2>3. \A outcomes : EndedOf(Blank, outcomes) = {}
    BY <2>2 DEF EndedOf
  <2>4. Cardinality(EndedOf(Blank, Answered)) = 0 /\ Cardinality(EndedOf(Blank, {"error"})) = 0
    BY <2>3, FS_EmptySet
  <2>5. /\ Blank.responses = 0 /\ Blank.errors = 0 /\ Blank.requests = 0 /\ Blank.retries = 0
        /\ Blank.parseRetries = 0 /\ Blank.recoveries = 0 /\ Blank.parseRecoveries = 0
    BY DEF Blank
  <2>6. Reconciles(Blank)
    BY <2>2, <2>4, <2>5 DEF Reconciles
  <2> QED BY <2>1, <2>6 DEF Accounted
<1>2. LedgerInv /\ Accounted /\ [LedgerNext]_ledgerVars => Accounted'
  <2> SUFFICES ASSUME LedgerInv, Accounted, [LedgerNext]_ledgerVars PROVE Accounted'
    OBVIOUS
  <2>1. CASE UNCHANGED ledgerVars
    BY <2>1, QuietAccounts DEF ledgerVars, SameCounts
  <2> QED BY <2>1, LoopStepAccounted, RequestStepAccounted DEF LedgerNext
<1>3. Accounted => AttemptsReconcile
  BY DEF Accounted, Reconciles, AttemptsReconcile, Ended, EndedOf, Answered
<1> QED BY <1>1, <1>2, <1>3, LedgerInvariant, PTL DEF LedgerSpec

=============================================================================
