-------------------------- MODULE EventStoreProofs --------------------------
(***************************************************************************)
(* The event store keeps its cache and its drafts true to the file and     *)
(* implements the state log, for any number of processes and in every      *)
(* failure.                                                                *)
(***************************************************************************)
EXTENDS EventStore, StateLogProofs

\* No cache has the signature of a file that does not exist yet, and a process
\* that builds an event has just loaded the file, in which there is room for it.
Signed ==
  \A p \in Process :
    /\ cache[p].signature <= size
    /\ draft[p] # NoEvent => Cached(p) /\ size < MaxSize

StoreInv ==
  /\ StoreTypeOK
  /\ LogInv
  /\ Signed
  /\ CacheCoherent
  /\ DraftFits

LEMMA StoreInitInv == StoreInit => StoreInv
<1> SUFFICES ASSUME StoreInit PROVE StoreInv
  OBVIOUS
<1>1. LogInv
  BY LogInitInv DEF StoreInit
<1>2. StoreTypeOK
  BY <1>1, StoreAssumption, InitialStateType
     DEF StoreInit, StoreTypeOK, LogInv, Ending, Cache, NoCache
<1>3. Signed /\ CacheCoherent /\ DraftFits
  BY <1>2 DEF StoreInit, Signed, CacheCoherent, DraftFits, Cached, NoCache, LogInit
<1> QED BY <1>1, <1>2, <1>3 DEF StoreInv

\* What a process loads is the state of the file, whether or not it reads it.
LEMMA LoadIsReduced ==
  ASSUME StoreInv, NEW p \in Process
  PROVE  Loaded(p) = reduced
BY DEF StoreInv, CacheCoherent, Loaded

\* An event a process built is the next event of the log, and it alone built one.
LEMMA DraftIsNext ==
  ASSUME StoreInv, NEW p \in Process, draft[p] # NoEvent
  PROVE  /\ draft[p] \in Event
         /\ \A q \in Process : draft[q] # NoEvent => q = p
         /\ cache[p].state = reduced
         /\ \E payload \in Requests :
              Accepts(reduced, payload) /\ draft[p] = NextEvent(reduced, payload)
BY DEF StoreInv, StoreTypeOK, DraftFits, CacheCoherent, Signed

\* Reading the file changes nothing but the reader's cache.
LEMMA LoadKeepsInv ==
  ASSUME StoreInv, NEW p \in Process, Remember(p, size, Loaded(p)),
         UNCHANGED <<lines, reduced, tail, size>>
  PROVE  /\ cache' \in [Process -> Cache]
         /\ LogInv'
         /\ CacheCoherent'
         /\ \A q \in Process : cache'[q].signature <= size
         /\ cache'[p].signature = size
         /\ \A q \in Process : cache[q].signature = size => cache'[q].signature = size
<1>1. cache' = [cache EXCEPT ![p] = [signature |-> size, state |-> reduced]]
  BY LoadIsReduced DEF Remember
<1>2. cache' \in [Process -> Cache]
  BY <1>1 DEF StoreInv, StoreTypeOK, LogTypeOK, Cache
<1>3. LogInv'
  BY LogNextInv DEF StoreInv, logVars
<1> QED
  BY <1>1, <1>2, <1>3 DEF StoreInv, StoreTypeOK, CacheCoherent, Cached, Signed

\* A write appends the event a process built: a step of the log.
LEMMA WriteIsAppend ==
  ASSUME StoreInv, NEW p \in Process, draft[p] # NoEvent, AppendEvent(draft[p])
  PROVE  LogNext
BY DraftIsNext DEF AppendEvent, LogNext, AppendPayload

\* When the writer leaves, nobody is building an event.
LEMMA LeaveClears ==
  ASSUME StoreInv, NEW p \in Process, Leave(p)
  PROVE  /\ draft' \in [Process -> Event \cup {NoEvent}]
         /\ holder' \in Process \cup {NoProcess}
         /\ \A q \in Process : draft'[q] = NoEvent
         /\ draft[p] # NoEvent
         /\ size < MaxSize
<1>1. draft[p] # NoEvent /\ draft' = [draft EXCEPT ![p] = NoEvent] /\ holder' = NoProcess
  BY DEF Leave
<1>2. \A q \in Process : draft[q] # NoEvent => q = p
  BY <1>1, DraftIsNext
<1>3. size < MaxSize
  BY <1>1 DEF StoreInv, Signed
<1> QED BY <1>1, <1>2, <1>3 DEF StoreInv, StoreTypeOK

\* A load, with or without a new draft, keeps the invariant.
LEMMA LoadStepInv ==
  ASSUME StoreInv, NEW p \in Process,
         \/ Read(p)
         \/ \E payload \in Requests : BeginAppend(p, payload) \/ RejectAppend(p, payload)
  PROVE  StoreInv'
<1>1. /\ Remember(p, size, Loaded(p))
      /\ UNCHANGED <<lines, reduced, tail, size>>
      /\ holder = NoProcess
  BY DEF Read, BeginAppend, RejectAppend, Unlocked
<1>2. /\ cache' \in [Process -> Cache]
      /\ LogInv'
      /\ CacheCoherent'
      /\ \A q \in Process : cache'[q].signature <= size
      /\ cache'[p].signature = size
      /\ \A q \in Process : cache[q].signature = size => cache'[q].signature = size
  BY <1>1, LoadKeepsInv
<1>3. \A q \in Process : draft[q] = NoEvent
  BY <1>1, StoreAssumption DEF StoreInv, DraftFits
<1>4. ASSUME NEW payload \in Requests, BeginAppend(p, payload) PROVE StoreInv'
  <2>1. /\ draft' = [draft EXCEPT ![p] = NextEvent(reduced, payload)]
        /\ holder' = p
        /\ size < MaxSize
        /\ Accepts(reduced, payload)
    BY <1>4, LoadIsReduced DEF BeginAppend
  <2>2. NextEvent(reduced, payload) \in Event
    BY NextEventType, RequestsArePayloads
       DEF StoreInv, LogInv, LogTypeOK, Summarised
  <2>3. StoreTypeOK'
    BY <1>1, <1>2, <2>1, <2>2 DEF StoreInv, StoreTypeOK, LogInv
  <2>4. Signed'
    BY <1>1, <1>2, <1>3, <2>1 DEF Signed, Cached, StoreInv, StoreTypeOK
  <2>5. DraftFits'
    BY <1>1, <1>3, <2>1 DEF DraftFits, StoreInv, StoreTypeOK
  <2> QED BY <1>2, <2>3, <2>4, <2>5 DEF StoreInv
<1>5. CASE Read(p) \/ \E payload \in Requests : RejectAppend(p, payload)
  <2>1. UNCHANGED <<holder, draft>>
    BY <1>5 DEF Read, RejectAppend
  <2>2. StoreTypeOK'
    BY <1>1, <1>2, <2>1 DEF StoreInv, StoreTypeOK, LogInv
  <2>3. Signed' /\ DraftFits'
    BY <1>1, <1>2, <1>3, <2>1 DEF Signed, DraftFits
  <2> QED BY <1>2, <2>2, <2>3 DEF StoreInv
<1> QED BY <1>4, <1>5

\* A write that fails, at whatever point, keeps the invariant: either nothing
\* was written and the file is the one the writer loaded, or the file has a
\* signature that no cache has.
LEMMA FailureStepInv ==
  ASSUME StoreInv, NEW p \in Process, Abandon(p),
         \/ UNCHANGED <<lines, reduced, tail, size>>
         \/ /\ AppendEvent(draft[p]) \/ UNCHANGED <<lines, reduced>>
            /\ size' = size + 1
            /\ tail' \in Ending
  PROVE  StoreInv'
<1>1. /\ draft' \in [Process -> Event \cup {NoEvent}]
      /\ holder' \in Process \cup {NoProcess}
      /\ \A q \in Process : draft'[q] = NoEvent
      /\ draft[p] # NoEvent
      /\ size < MaxSize
  BY LeaveClears DEF Abandon
<1>2. /\ cache' \in [Process -> Cache]
      /\ \A q \in Process : cache'[q] = cache[q] \/ cache'[q] = NoCache
  BY InitialStateType DEF Abandon, StoreInv, StoreTypeOK, NoCache, Cache
<1>3. LogInv'
  BY <1>1, WriteIsAppend, LogNextInv DEF StoreInv, logVars
<1>4. size \in 0 .. MaxSize /\ MaxSize \in Nat /\ size' \in 0 .. MaxSize /\ size' >= size
  BY <1>1, StoreAssumption DEF StoreInv, StoreTypeOK
<1>5. StoreTypeOK'
  BY <1>1, <1>2, <1>3, <1>4 DEF StoreInv, StoreTypeOK, LogInv
<1>6. Signed' /\ DraftFits'
  BY <1>1, <1>2, <1>4 DEF StoreInv, StoreTypeOK, Signed, DraftFits, NoCache, Cache
<1>7. CacheCoherent'
  <2> SUFFICES ASSUME NEW q \in Process, cache'[q].signature = size'
               PROVE  cache'[q].state = reduced'
    BY DEF CacheCoherent, Cached
  <2>1. cache'[q] = cache[q] /\ cache[q].signature <= size
    BY <1>2, <1>4 DEF NoCache, StoreInv, Signed
  <2>2. size' = size /\ UNCHANGED reduced
    BY <2>1, <1>4 DEF StoreInv, StoreTypeOK, Cache
  <2> QED BY <2>1, <2>2 DEF StoreInv, CacheCoherent, Cached
<1> QED BY <1>3, <1>5, <1>6, <1>7 DEF StoreInv

\* The writer that returns has the only cache with the new signature, and it
\* holds the state of the new file.
LEMMA CommitStepInv ==
  ASSUME StoreInv, NEW p \in Process, CommitAppend(p)
  PROVE  StoreInv'
<1>1. /\ draft' \in [Process -> Event \cup {NoEvent}]
      /\ holder' \in Process \cup {NoProcess}
      /\ \A q \in Process : draft'[q] = NoEvent
      /\ draft[p] # NoEvent
      /\ size < MaxSize
  BY LeaveClears DEF CommitAppend
<1>2. /\ AppendEvent(draft[p])
      /\ size' = size + 1
      /\ tail' \in Ending
  BY DEF CommitAppend, WriteLine, Ending
<1>3. LogInv'
  BY <1>1, <1>2, WriteIsAppend, LogNextInv DEF StoreInv
<1>4. cache' = [cache EXCEPT ![p] = [signature |-> size + 1, state |-> reduced']]
  BY <1>1, <1>2, DraftIsNext DEF CommitAppend, Remember, AppendEvent
<1>5. size \in 0 .. MaxSize /\ MaxSize \in Nat /\ size' \in 0 .. MaxSize
  BY <1>1, <1>2, StoreAssumption DEF StoreInv, StoreTypeOK
<1>6. cache' \in [Process -> Cache]
  BY <1>3, <1>4, <1>5 DEF StoreInv, StoreTypeOK, LogInv, LogTypeOK, Cache
<1>7. StoreTypeOK'
  BY <1>1, <1>2, <1>3, <1>5, <1>6 DEF StoreTypeOK, LogInv
<1>8. \A q \in Process : IF q = p THEN cache'[q].signature = size + 1 /\ cache'[q].state = reduced'
                                   ELSE cache'[q].signature \in Int /\ cache'[q].signature <= size
  BY <1>4 DEF StoreInv, StoreTypeOK, Signed, Cache
<1>9. Signed' /\ DraftFits'
  BY <1>1, <1>2, <1>5, <1>8 DEF Signed, DraftFits
<1>10. CacheCoherent'
  BY <1>2, <1>5, <1>8 DEF CacheCoherent, Cached
<1> QED BY <1>3, <1>7, <1>9, <1>10 DEF StoreInv

LEMMA StoreNextInv == StoreInv /\ [StoreNext]_storeVars => StoreInv'
<1> SUFFICES ASSUME StoreInv, [StoreNext]_storeVars PROVE StoreInv'
  OBVIOUS
<1>1. ASSUME NEW p \in Process, Read(p) PROVE StoreInv'
  BY <1>1, LoadStepInv
<1>2. ASSUME NEW p \in Process, NEW payload \in Requests,
             BeginAppend(p, payload) \/ RejectAppend(p, payload)
      PROVE  StoreInv'
  BY <1>2, LoadStepInv
<1>3. ASSUME NEW p \in Process, CommitAppend(p) PROVE StoreInv'
  BY <1>3, CommitStepInv
<1>4. ASSUME NEW p \in Process, FailBeforeWrite(p) PROVE StoreInv'
  BY <1>4, FailureStepInv DEF FailBeforeWrite
<1>5. ASSUME NEW p \in Process, FailInsideLine(p) PROVE StoreInv'
  BY <1>5, FailureStepInv DEF FailInsideLine, Ending
<1>6. ASSUME NEW p \in Process, FailBeforeNewline(p) PROVE StoreInv'
  BY <1>6, FailureStepInv DEF FailBeforeNewline, Ending
<1>7. ASSUME NEW p \in Process, FailAfterWrite(p) PROVE StoreInv'
  BY <1>7, FailureStepInv DEF FailAfterWrite, WriteLine, Ending
<1>8. CASE UNCHANGED storeVars
  <2>1. LogInv'
    BY <1>8, LogNextInv DEF StoreInv, storeVars, logVars
  <2>2. (StoreTypeOK /\ Signed /\ CacheCoherent /\ DraftFits)'
    BY <1>8, <2>1 DEF StoreInv, storeVars, StoreTypeOK, LogInv, Signed, CacheCoherent,
                      DraftFits, Cached
  <2> QED BY <2>1, <2>2 DEF StoreInv
<1> QED
  BY <1>1, <1>2, <1>3, <1>4, <1>5, <1>6, <1>7, <1>8 DEF StoreNext

\* The invariant holds of every behaviour of the store.
THEOREM StoreInvariant == StoreSpec => []StoreInv
<1>1. StoreInit => StoreInv BY StoreInitInv
<1>2. StoreInv /\ [StoreNext]_storeVars => StoreInv' BY StoreNextInv
<1> QED BY <1>1, <1>2, PTL DEF StoreSpec

\* The store's state is well typed.
THEOREM StoreTypeCorrect == StoreSpec => []StoreTypeOK
<1>1. StoreInv => StoreTypeOK BY DEF StoreInv
<1> QED BY <1>1, StoreInvariant, PTL

\* No process ever loads a state the file does not have, and no event that a
\* process built under the lock is out of date when it is written.
THEOREM StoreSafety == StoreSpec => [](CacheCoherent /\ DraftFits)
<1>1. StoreInv => CacheCoherent /\ DraftFits BY DEF StoreInv
<1> QED BY <1>1, StoreInvariant, PTL

-----------------------------------------------------------------------------
(* The store implements the log.                                           *)

\* Every step of the store appends one legal event or leaves the log alone.
LEMMA StepIsLogStep == StoreInv /\ [StoreNext]_storeVars => [LogNext]_logVars
<1> SUFFICES ASSUME StoreInv, [StoreNext]_storeVars PROVE LogNext \/ UNCHANGED logVars
  OBVIOUS
<1>1. ASSUME NEW p \in Process,
             CommitAppend(p) \/ FailBeforeNewline(p) \/ FailAfterWrite(p)
      PROVE  LogNext
  <2>1. draft[p] # NoEvent /\ AppendEvent(draft[p])
    BY <1>1 DEF CommitAppend, FailBeforeNewline, FailAfterWrite, Abandon, Leave, WriteLine
  <2> QED BY <2>1, WriteIsAppend
<1>2. ASSUME NEW p \in Process,
             \/ Read(p) \/ FailBeforeWrite(p) \/ FailInsideLine(p)
             \/ \E payload \in Requests : BeginAppend(p, payload) \/ RejectAppend(p, payload)
      PROVE  UNCHANGED logVars
  BY <1>2 DEF Read, BeginAppend, RejectAppend, FailBeforeWrite, FailInsideLine, logVars
<1>3. CASE UNCHANGED storeVars
  BY <1>3 DEF storeVars, logVars
<1> QED BY <1>1, <1>2, <1>3 DEF StoreNext

\* EventStore refines StateLog: wherever a write ends, by a death or an error, and
\* however writers interleave, the file is one totally ordered log of legal events.
THEOREM StoreImplementsLog == StoreSpec => ImplementsLog
<1>1. StoreInit => LogInit BY DEF StoreInit
<1>2. StoreInv /\ [StoreNext]_storeVars => [LogNext]_logVars BY StepIsLogStep
<1> QED BY <1>1, <1>2, StoreInvariant, PTL DEF StoreSpec, ImplementsLog, LogSpec

\* So the file is an unbroken chain that cites only what it contains.
THEOREM StoreKeepsChain == StoreSpec => [](ChainUnbroken /\ CitationsGrounded)
<1>1. LogInv => ChainUnbroken /\ CitationsGrounded BY DEF LogInv
<1>2. StoreInv => LogInv BY DEF StoreInv
<1> QED BY <1>1, <1>2, StoreInvariant, PTL

-----------------------------------------------------------------------------
(* A torn line ends the log.                                               *)

\* After a write that died inside its line no cache has the file's signature,
\* and nobody is writing.
Sealed ==
  tail = "torn" => \A p \in Process : ~Cached(p) /\ draft[p] = NoEvent

LEMMA SealedNext == StoreInv /\ Sealed /\ [StoreNext]_storeVars => Sealed'
<1> SUFFICES ASSUME StoreInv, Sealed, [StoreNext]_storeVars, tail' = "torn",
                    NEW q \in Process
             PROVE  cache'[q].signature # size' /\ draft'[q] = NoEvent
  BY DEF Sealed, Cached
<1>1. ASSUME NEW p \in Process, FailInsideLine(p)
      PROVE  cache'[q].signature # size' /\ draft'[q] = NoEvent
  <2>1. Leave(p) /\ size' = size + 1
    BY <1>1 DEF FailInsideLine, Abandon
  <2>2. cache'[q] = cache[q] \/ cache'[q] = NoCache
    BY <1>1 DEF FailInsideLine, Abandon, StoreInv, StoreTypeOK
  <2>3. draft'[q] = NoEvent
    BY <2>1, LeaveClears
  <2> QED
    BY <2>1, <2>2, <2>3 DEF NoCache, StoreInv, Signed, StoreTypeOK, Cache
<1>2. ASSUME NEW p \in Process,
             CommitAppend(p) \/ FailBeforeNewline(p) \/ FailAfterWrite(p)
      PROVE  FALSE
  BY <1>2 DEF CommitAppend, FailBeforeNewline, FailAfterWrite, WriteLine
<1>3. ASSUME NEW p \in Process,
             \/ Read(p)
             \/ \E payload \in Requests : BeginAppend(p, payload) \/ RejectAppend(p, payload)
      PROVE  FALSE
  BY <1>3 DEF Read, BeginAppend, RejectAppend, Sealed, Loadable, Parses
<1>4. ASSUME NEW p \in Process, FailBeforeWrite(p)
      PROVE  FALSE
  BY <1>4 DEF FailBeforeWrite, Abandon, Leave, Sealed
<1>5. CASE UNCHANGED storeVars
  BY <1>5 DEF storeVars, Sealed, Cached
<1> QED BY <1>1, <1>2, <1>3, <1>4, <1>5 DEF StoreNext

\* Once a writer died inside a line, nothing is added to the file any more.
THEOREM TornLogStaysSealed == StoreSpec => TornLogIsSealed
<1>1. StoreInit => Sealed
  BY DEF StoreInit, Sealed
<1>2. StoreInv /\ Sealed /\ [StoreNext]_storeVars
        => [tail = "torn" => UNCHANGED <<lines, reduced, size>>]_storeVars
  <2> SUFFICES ASSUME StoreInv, Sealed, [StoreNext]_storeVars, tail = "torn"
               PROVE  UNCHANGED <<lines, reduced, size>> \/ UNCHANGED storeVars
    OBVIOUS
  <2>1. ASSUME NEW p \in Process, Leave(p) PROVE FALSE
    BY <2>1 DEF Leave, Sealed
  <2> QED
    BY <2>1 DEF StoreNext, Read, BeginAppend, RejectAppend, CommitAppend, FailBeforeWrite,
                FailInsideLine, FailBeforeNewline, FailAfterWrite, Abandon
<1> QED
  BY <1>1, <1>2, SealedNext, StoreInvariant, PTL DEF StoreSpec, TornLogIsSealed

=============================================================================
