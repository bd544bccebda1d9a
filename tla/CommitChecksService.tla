------------------------- MODULE CommitChecksService -------------------------
(***************************************************************************)
(* services/commitChecks/service.ts over persistentCache.ts: snapshots of  *)
(* commit checks, shared by all graphs.  A call is served from the runtime *)
(* cache, from a fetch in flight, from the persistent cache, or by a fetch *)
(* of its own; clear empties both caches when credentials or settings      *)
(* change.                                                                 *)
(*                                                                         *)
(* A snapshot is identified by the generation whose credentials it was     *)
(* fetched with, and by whether it is settled: only settled snapshots are  *)
(* persisted, only others go stale at runtime.  An update of the persisted *)
(* state is visible at once and completes later.                           *)
(***************************************************************************)
EXTENDS Naturals, Sequences, FiniteSets

CONSTANTS
  Call,       \* calls of getOrFetch
  Key,        \* cache keys: repository, commit and settings
  None,
  MaxEntries, \* runtime snapshots retained
  MaxClears   \* bound: calls of clear

ASSUME ServiceAssumption ==
  /\ None \notin Call /\ Key # {} /\ MaxEntries \in Nat \ {0} /\ MaxClears \in Nat

Snapshot == [made : 0..MaxClears, settled : BOOLEAN]

ASSUME NoneIsNoSnapshot == None \notin Snapshot

VARIABLES
  backed,     \* whether there is a persistent cache
  generation,
  cache,      \* the runtime snapshot under each key
  inflight,   \* the call whose fetch others share, under each key
  persisted,  \* the persisted snapshot under each key
  operations, \* the queue of persistent operations, the first one running or next
  writing,    \* whether the first operation awaits its update
  call        \* the calls, see CallRecord

vars == <<backed, generation, cache, inflight, persisted, operations, writing, call>>

CallRecord ==
  [phase : {"new", "lookup", "reading", "fetching", "persisting", "joined", "over"},
   key : Key,
   since : 0..MaxClears,          \* the generation at the call
   request : Call \cup {None},    \* the fetch it awaits
   started : 0..MaxClears,        \* the generation its own fetch started in
   snapshot : Snapshot \cup {None}] \* what it found, or is served

Operation == [kind : {"get", "set"}, by : Call]

TypeOK ==
  /\ backed \in BOOLEAN
  /\ generation \in 0..MaxClears
  /\ cache \in [Key -> Snapshot \cup {None}]
  /\ Cardinality({k \in Key : cache[k] # None}) <= MaxEntries
  /\ inflight \in [Key -> Call \cup {None}]
  /\ persisted \in [Key -> Snapshot \cup {None}]
  /\ operations \in Seq(Operation)
  /\ writing \in BOOLEAN
  /\ call \in [Call -> CallRecord]

Init ==
  /\ backed \in BOOLEAN
  /\ generation = 0
  /\ cache = [k \in Key |-> None]
  /\ inflight = [k \in Key |-> None]
  /\ persisted \in [Key -> {None, [made |-> 0, settled |-> TRUE]}]
  /\ operations = <<>> /\ writing = FALSE
  /\ call = [c \in Call |-> [phase |-> "new", key |-> CHOOSE k \in Key : TRUE, since |-> 0,
                             request |-> None, started |-> 0, snapshot |-> None]]

-----------------------------------------------------------------------------
\* cache.set and evictOldest: one of the others makes room.
Remember(k, snapshot) ==
  LET others == {j \in Key : j # k /\ cache[j] # None} IN
  IF Cardinality(others) < MaxEntries
  THEN cache' = [cache EXCEPT ![k] = snapshot]
  ELSE \E oldest \in others : cache' = [cache EXCEPT ![k] = snapshot, ![oldest] = None]

\* What a call becomes when it joins a fetch in flight.
Joined(record) == [record EXCEPT !.phase = "joined", !.request = inflight[record.key]]

\* What a call becomes when it starts a fetch that others may join.
Fetching(record) == [record EXCEPT !.phase = "fetching", !.started = generation]

\* getOrFetch up to its first await.
GetOrFetch(c, k, force) ==
  /\ call[c].phase = "new"
  /\ LET record == [call[c] EXCEPT !.key = k, !.since = generation] IN
     \/ /\ ~force /\ cache[k] # None
        /\ call' = [call EXCEPT ![c] = [record EXCEPT !.phase = "over", !.snapshot = cache[k]]]
        /\ UNCHANGED inflight
     \/ /\ ~(~force /\ cache[k] # None /\ cache[k].settled)
        /\ \/ /\ inflight[k] # None
              /\ call' = [call EXCEPT ![c] = Joined(record)]
              /\ UNCHANGED inflight
           \/ /\ inflight[k] = None /\ ~force /\ backed
              /\ call' = [call EXCEPT ![c] = [record EXCEPT !.phase = "lookup"]]
              /\ UNCHANGED inflight
           \/ /\ inflight[k] = None /\ (force \/ ~backed)
              /\ call' = [call EXCEPT ![c] = Fetching(record)]
              /\ inflight' = [inflight EXCEPT ![k] = c]
  /\ UNCHANGED <<backed, generation, cache, persisted, operations, writing>>

\* getPersisted, once a clear that was under way has completed.
Lookup(c) ==
  /\ call[c].phase = "lookup"
  /\ call' = [call EXCEPT ![c].phase = "reading"]
  /\ operations' = Append(operations, [kind |-> "get", by |-> c])
  /\ UNCHANGED <<backed, generation, cache, inflight, persisted, writing>>

\* The first operation reads the payload and updates it.  An entry may be too old,
\* and an update may fail: a get then finds nothing, a set leaves nothing.
RunOperation ==
  /\ operations # <<>> /\ ~writing
  /\ writing' = TRUE
  /\ LET c == operations[1].by
         k == call[c].key
     IN IF operations[1].kind = "get"
        THEN /\ \E found \in {persisted[k], None} : call' = [call EXCEPT ![c].snapshot = found]
             /\ UNCHANGED persisted
        ELSE /\ \E left \in {call[c].snapshot, None} : persisted' = [persisted EXCEPT ![k] = left]
             /\ UNCHANGED call
  /\ UNCHANGED <<backed, generation, cache, inflight, operations>>

\* Mutant: a fetch that began while the persistent cache was read is not joined.
EndGetAlone(c) ==
  /\ IF call[c].snapshot # None
     THEN /\ Remember(call[c].key, call[c].snapshot)
          /\ call' = [call EXCEPT ![c].phase = "over"]
          /\ UNCHANGED inflight
     ELSE /\ call' = [call EXCEPT ![c] = Fetching(call[c])]
          /\ inflight' = [inflight EXCEPT ![call[c].key] = c]
          /\ UNCHANGED cache

\* getOrFetch after the persistent cache has answered.
EndGet(c) ==
  LET k == call[c].key IN
  \/ /\ call[c].snapshot # None
     /\ Remember(k, call[c].snapshot)
     /\ call' = [call EXCEPT ![c].phase = "over"]
     /\ UNCHANGED inflight
  \/ /\ call[c].snapshot = None /\ inflight[k] # None
     /\ call' = [call EXCEPT ![c] = Joined(call[c])]
     /\ UNCHANGED <<cache, inflight>>
  \/ /\ call[c].snapshot = None /\ inflight[k] = None
     /\ call' = [call EXCEPT ![c] = Fetching(call[c])]
     /\ inflight' = [inflight EXCEPT ![k] = c]
     /\ UNCHANGED cache

\* Mutant: the fetch that ends takes whatever is in flight under its key with it.
LeaveFlightAnyones(c) == inflight' = [inflight EXCEPT ![call[c].key] = None]

\* The finally of a fetch.
LeaveFlight(c) ==
  inflight' = IF inflight[call[c].key] = c THEN [inflight EXCEPT ![call[c].key] = None]
              ELSE inflight

\* Mutant: a set that fails fails its fetch's caller, who is never told.
EndOperationForgetful ==
  /\ writing
  /\ writing' = FALSE
  /\ operations' = Tail(operations)
  /\ LET c == operations[1].by IN
     IF operations[1].kind = "get"
     THEN EndGet(c)
     ELSE UNCHANGED <<call, cache, inflight>>
  /\ UNCHANGED <<backed, generation, persisted>>

\* An operation completes.
EndOperation ==
  /\ writing
  /\ writing' = FALSE
  /\ operations' = Tail(operations)
  /\ LET c == operations[1].by IN
     IF operations[1].kind = "get"
     THEN EndGet(c)
     ELSE /\ call' = [call EXCEPT ![c].phase = "over"]
          /\ LeaveFlight(c)
          /\ UNCHANGED cache
  /\ UNCHANGED <<backed, generation, persisted>>

\* Mutant: a fetch is kept whatever has been cleared since it began.
KeepAlways(c) == TRUE

Keep(c) == call[c].started = generation

\* A fetch resolves with a snapshot, settled or not.
EndFetch(c) ==
  /\ call[c].phase = "fetching"
  /\ \E settled \in BOOLEAN :
       LET snapshot == [made |-> call[c].started, settled |-> settled]
           persist == Keep(c) /\ settled /\ backed
       IN /\ call' = [call EXCEPT ![c].snapshot = snapshot,
                                  ![c].phase = IF persist THEN "persisting" ELSE "over"]
          /\ IF Keep(c) THEN Remember(call[c].key, snapshot) ELSE UNCHANGED cache
          /\ IF persist
             THEN /\ operations' = Append(operations, [kind |-> "set", by |-> c])
                  /\ UNCHANGED inflight
             ELSE LeaveFlight(c) /\ UNCHANGED operations
  /\ UNCHANGED <<backed, generation, persisted, writing>>

\* A call that joined a fetch is served with it.
Served(c) ==
  /\ call[c].phase = "joined" /\ call[call[c].request].phase = "over"
  /\ call' = [call EXCEPT ![c].phase = "over", ![c].snapshot = call[call[c].request].snapshot]
  /\ UNCHANGED <<backed, generation, cache, inflight, persisted, operations, writing>>

\* clear.  The persistent cache is cleared past its queue of operations.
Clear ==
  /\ generation < MaxClears
  /\ generation' = generation + 1
  /\ cache' = [k \in Key |-> None]
  /\ inflight' = [k \in Key |-> None]
  /\ persisted' = [k \in Key |-> None]
  /\ UNCHANGED <<backed, operations, writing, call>>

Progress(c) == Lookup(c) \/ EndFetch(c) \/ Served(c)

Next ==
  \/ \E c \in Call : (\E k \in Key, force \in BOOLEAN : GetOrFetch(c, k, force)) \/ Progress(c)
  \/ RunOperation \/ EndOperation
  \/ Clear

Spec == Init /\ [][Next]_vars

\* Fetches and updates settle.
FairSpec ==
  Spec /\ WF_vars(RunOperation) /\ WF_vars(EndOperation) /\ \A c \in Call : WF_vars(Progress(c))

-----------------------------------------------------------------------------
Unfinished(c) == call[c].phase \in {"fetching", "persisting"}

\* One fetch serves all who ask for a key: two run at once only when clear came
\* between them or one of them answers already (service.ts:32, 81-92).
OneFetchPerKey ==
  \A c, d \in Call :
    (/\ call[c].phase = "fetching" /\ call[d].phase = "fetching"
     /\ call[c].key = call[d].key /\ call[c].started = call[d].started) => c = d

\* A fetch in flight for the present credentials can be joined, and only such a
\* fetch can (service.ts:104-109, 117).
InflightIsCurrent ==
  \A k \in Key, c \in Call :
    inflight[k] = c <=> call[c].key = k /\ Unfinished(c) /\ call[c].started = generation

\* A call made after clear is never served a snapshot from before it
\* (service.ts:113).
ServedIsCurrent ==
  \A c \in Call : call[c].phase = "over" => call[c].snapshot.made >= call[c].since

\* Without a persistent cache no fetch outlives a clear: neither the runtime
\* cache nor the answer to a later call is of the credentials before it
\* (service.ts:96, 113-117).
FetchesDoNotOutliveClear ==
  ~backed => /\ ServedIsCurrent
             /\ \A k \in Key : cache[k] # None => cache[k].made = generation

\* Every call is served: none stays under way for ever (service.ts:69).
EveryCallIsServed == \A c \in Call : []<>(call[c].phase \in {"new", "over"})

=============================================================================
