----------------------------- MODULE EventStore -----------------------------
(***************************************************************************)
(* envsolve/state/store.py: several processes append to one JSONL file.    *)
(* An append holds flock(LOCK_EX) from the load of the log to the fsync of *)
(* the new line; a load is served from the process's cache when the file's *)
(* signature has not changed.  A writer may die, or its write or fsync may *)
(* fail, before, inside or after the line: the kernel then drops its lock. *)
(***************************************************************************)
EXTENDS StateLog

CONSTANTS
  Process,   \* EventStore objects, one per process (sessions and state_log.py)
  NoProcess, \* nobody holds the lock
  NoEvent,   \* a process is not appending
  MaxSize    \* bound on the number of writes to the file

ASSUME StoreAssumption ==
  /\ NoProcess \notin Process
  /\ NoEvent \notin Event
  /\ MaxSize \in Nat

VARIABLES
  tail,      \* how the file ends: see Ending
  size,      \* st_size, counted in writes: the file only grows
  holder,    \* the process that holds LOCK_EX
  draft,     \* the event each process built under the lock and has not written yet
  cache      \* each process's _cached_signature and _cached_state

storeVars == <<lines, reduced, tail, size, holder, draft, cache>>

\* "clean": ends with a newline; "unterminated": a whole event whose newline
\* is missing; "torn": a partial event; "glued": an event was written behind
\* an unterminated one, on the same line.
Ending == {"clean", "unterminated", "torn", "glued"}

NoCache == [signature |-> -1, state |-> InitialState]

Cache == [signature : Int, state : State]

\* _read_handle raises on a line that is not one JSON object.
Parses == tail \in {"clean", "unterminated"}

Cached(p) == cache[p].signature = size

\* flock: no process has the lock.
Unlocked == holder = NoProcess

\* Mutant: lines that do not parse are skipped.
LoadableTorn(p) == TRUE

\* _load_handle
Loadable(p) == Cached(p) \/ Parses

\* Mutant: the signature of the cache is not compared with the file's.
LoadedStale(p) == IF cache[p].signature >= 0 THEN cache[p].state ELSE reduced

Loaded(p) == IF Cached(p) THEN cache[p].state ELSE reduced

Remember(p, signature, state) ==
  cache' = [cache EXCEPT ![p] = [signature |-> signature, state |-> state]]

StoreInit ==
  /\ LogInit
  /\ tail = "clean"
  /\ size = 0
  /\ holder = NoProcess
  /\ draft = [p \in Process |-> NoEvent]
  /\ cache = [p \in Process |-> NoCache]

-----------------------------------------------------------------------------
\* read() and reconstruct(): a validated load under LOCK_SH.
Read(p) ==
  /\ Unlocked
  /\ Loadable(p)
  /\ Remember(p, size, Loaded(p))
  /\ UNCHANGED <<lines, reduced, tail, size, holder, draft>>

\* append() up to apply_event: lock, load and build the event.  When the
\* reducer accepts it the process goes on to write, still holding the lock.
BeginAppend(p, payload) ==
  /\ Unlocked
  /\ size < MaxSize
  /\ Loadable(p)
  /\ Accepts(Loaded(p), payload)
  /\ holder' = p
  /\ draft' = [draft EXCEPT ![p] = NextEvent(Loaded(p), payload)]
  /\ Remember(p, size, Loaded(p))
  /\ UNCHANGED <<lines, reduced, tail, size>>

\* append() of an event the reducer refuses: ValueError, the lock is released.
RejectAppend(p, payload) ==
  /\ Unlocked
  /\ Loadable(p)
  /\ ~Accepts(Loaded(p), payload)
  /\ Remember(p, size, Loaded(p))
  /\ UNCHANGED <<lines, reduced, tail, size, holder, draft>>

\* The process leaves the with block: its lock is gone.
Leave(p) ==
  /\ draft[p] # NoEvent
  /\ draft' = [draft EXCEPT ![p] = NoEvent]
  /\ holder' = NoProcess

\* The whole line and its newline reach the file.
WriteLine(p) ==
  /\ AppendEvent(draft[p])
  /\ size' = size + 1
  /\ tail' = IF tail = "clean" THEN "clean" ELSE "glued"

\* append() returns: the line is durable and the cache is moved to it.
CommitAppend(p) ==
  /\ Leave(p)
  /\ WriteLine(p)
  /\ Remember(p, size + 1, ApplyEvent(cache[p].state, draft[p]))

\* Mutant: the cached state is the very object the event was applied to.
AbandonAliased(p) ==
  /\ Leave(p)
  /\ Remember(p, cache[p].signature, ApplyEvent(cache[p].state, draft[p]))

\* The process dies, or write, flush or fsync raises OSError: the cache is
\* the one of the load, or gone with the process.  What Python kept in its
\* buffer after an OSError, and close() may still write once the lock is
\* free, is left out.
Abandon(p) ==
  /\ Leave(p)
  /\ cache' \in {cache, [cache EXCEPT ![p] = NoCache]}

\* ... before the first byte is written.
FailBeforeWrite(p) ==
  /\ Abandon(p)
  /\ UNCHANGED <<lines, reduced, tail, size>>

\* ... after part of the event.
FailInsideLine(p) ==
  /\ Abandon(p)
  /\ size' = size + 1
  /\ tail' = IF tail = "glued" THEN "glued" ELSE "torn"
  /\ UNCHANGED <<lines, reduced>>

\* ... after the event and before its newline.
FailBeforeNewline(p) ==
  /\ Abandon(p)
  /\ AppendEvent(draft[p])
  /\ size' = size + 1
  /\ tail' = IF tail = "clean" THEN "unterminated" ELSE "glued"

\* ... after the newline: the caller never learns that the event is durable.
FailAfterWrite(p) ==
  /\ Abandon(p)
  /\ WriteLine(p)

StoreNext ==
  \E p \in Process :
    \/ Read(p)
    \/ \E payload \in Requests : BeginAppend(p, payload) \/ RejectAppend(p, payload)
    \/ CommitAppend(p)
    \/ FailBeforeWrite(p)
    \/ FailInsideLine(p)
    \/ FailBeforeNewline(p)
    \/ FailAfterWrite(p)

StoreSpec == StoreInit /\ [][StoreNext]_storeVars

-----------------------------------------------------------------------------
StoreTypeOK ==
  /\ LogTypeOK
  /\ tail \in Ending
  /\ size \in 0 .. MaxSize
  /\ holder \in Process \cup {NoProcess}
  /\ draft \in [Process -> Event \cup {NoEvent}]
  /\ cache \in [Process -> Cache]

\* A cache that the signature check lets through is the reduction of the
\* file: neither another writer, nor a failed write of its own, nor a refused
\* event leaves a process with a state the log does not have.
CacheCoherent == \A p \in Process : Cached(p) => cache[p].state = reduced

\* An event under construction still fits the file when it is written: its
\* position, its hash link and its legality were computed on the state the
\* file has now, and nobody else is writing.
DraftFits ==
  \A p \in Process :
    draft[p] # NoEvent =>
      /\ holder = p
      /\ \E payload \in Requests :
           Accepts(reduced, payload) /\ draft[p] = NextEvent(reduced, payload)

\* Once a writer died inside a line no process, whatever it has cached, adds
\* to the file again.
TornLogIsSealed == [][tail = "torn" => UNCHANGED <<lines, reduced, size>>]_storeVars

\* The store is the log its callers were promised, in each of these failures.
ImplementsLog == LogSpec

=============================================================================
