-------------------------- MODULE CommitChecksProofs --------------------------
(***************************************************************************)
(* The checks of a commit, for any repositories, rows, requests, keys,     *)
(* calls, responses and bounds: the cache of snapshots, the gate every     *)
(* request passes, the badges.  They keep no state of each other, so each  *)
(* has an inductive invariant and theorems of its own.                     *)
(***************************************************************************)
EXTENDS MCCommitChecks, FiniteSetTheorems, SequenceTheorems, WellFoundedInduction, TLAPS

CachedKeys == {k \in Key : cache[k] # None}

\* Every queued operation belongs to one call, which waits for it.
OperationsMatch ==
  /\ writing => operations # <<>>
  /\ \A i \in 1..Len(operations) :
       call[operations[i].by].phase = IF operations[i].kind = "get" THEN "reading" ELSE "persisting"
  /\ \A i, j \in 1..Len(operations) : operations[i].by = operations[j].by => i = j

\* A call that joined a fetch knows which.
JoinedKnowsRequest == \A c \in Call : call[c].phase = "joined" => call[c].request # None

\* Nothing was asked for, or started, in a generation to come.
NothingAhead == \A c \in Call : call[c].since <= generation /\ call[c].started <= generation

Typed == TypeOK /\ IsFiniteSet(CachedKeys)

LEMMA RememberTyped ==
  ASSUME Typed, NEW k \in Key, NEW snapshot \in Snapshot, Remember(k, snapshot)
  PROVE  /\ cache' \in [Key -> Snapshot \cup {None}]
         /\ IsFiniteSet(CachedKeys') /\ Cardinality(CachedKeys') <= MaxEntries
         /\ \A j \in Key : cache'[j] \in {cache[j], snapshot, None}
<1> DEFINE others == {j \in Key : j # k /\ cache[j] # None}
<1> USE ServiceAssumption, NoneIsNoSnapshot DEF ServiceAssumption, Typed, TypeOK
<1>1. others \subseteq CachedKeys
  BY DEF CachedKeys
<1>2. /\ IsFiniteSet(others) /\ Cardinality(others) \in Nat
      /\ Cardinality(others) <= MaxEntries
  <2>1. Cardinality(CachedKeys) \in Nat /\ Cardinality(CachedKeys) <= MaxEntries
    BY FS_CardinalityType DEF CachedKeys
  <2>2. IsFiniteSet(others) /\ Cardinality(others) <= Cardinality(CachedKeys)
    BY <1>1, FS_Subset
  <2> QED
    BY <2>1, <2>2, FS_CardinalityType
<1>3. CASE Cardinality(others) < MaxEntries
  <2>1. cache' = [cache EXCEPT ![k] = snapshot]
    BY <1>3 DEF Remember
  <2>2. CachedKeys' = others \cup {k}
    BY <2>1 DEF CachedKeys
  <2>3. IsFiniteSet(others \cup {k}) /\ Cardinality(others \cup {k}) = Cardinality(others) + 1
    BY <1>2, FS_AddElement
  <2> QED
    BY <1>2, <1>3, <2>1, <2>2, <2>3
<1>4. CASE ~(Cardinality(others) < MaxEntries)
  <2>1. PICK oldest \in others : cache' = [cache EXCEPT ![k] = snapshot, ![oldest] = None]
    BY <1>4 DEF Remember
  <2> DEFINE kept == others \ {oldest}
  <2>2. CachedKeys' = kept \cup {k}
    BY <2>1 DEF CachedKeys
  <2>3. IsFiniteSet(kept) /\ Cardinality(kept) = Cardinality(others) - 1
    BY <1>2, FS_RemoveElement
  <2>4. IsFiniteSet(kept \cup {k}) /\ Cardinality(kept \cup {k}) = Cardinality(kept) + 1
    BY <2>3, FS_AddElement
  <2> HIDE DEF kept
  <2> QED
    BY <1>2, <2>1, <2>2, <2>3, <2>4
<1> QED
  BY <1>3, <1>4

LEMMA TypedInit == Init => Typed
<1> SUFFICES ASSUME Init PROVE Typed
  OBVIOUS
<1> USE ServiceAssumption DEF ServiceAssumption
<1>1. CachedKeys = {}
  BY DEF Init, CachedKeys
<1>2. [made |-> 0, settled |-> TRUE] \in Snapshot
  BY DEF Snapshot
<1>3. (CHOOSE k \in Key : TRUE) \in Key
  OBVIOUS
<1>4. call \in [Call -> CallRecord]
  BY <1>3 DEF Init, CallRecord
<1>5. persisted \in [Key -> Snapshot \cup {None}]
  BY <1>2 DEF Init
<1>6. IsFiniteSet(CachedKeys) /\ Cardinality({k \in Key : cache[k] # None}) <= MaxEntries
  <2>1. IsFiniteSet({}) /\ Cardinality({}) = 0
    BY FS_EmptySet
  <2> QED
    BY <1>1, <2>1 DEF CachedKeys
<1>7. cache \in [Key -> Snapshot \cup {None}] /\ inflight \in [Key -> Call \cup {None}]
  BY DEF Init
<1>8. operations \in Seq(Operation)
  BY DEF Init
<1>9. backed \in BOOLEAN /\ writing \in BOOLEAN
  BY Zenon DEF Init
<1>10. generation \in 0..MaxClears
  BY DEF Init
<1> QED
  BY <1>4, <1>5, <1>6, <1>7, <1>8, <1>9, <1>10 DEF Typed, TypeOK

Phases == {"new", "lookup", "reading", "fetching", "persisting", "joined", "over"}

\* What a call's record holds, and what becomes of it.
LEMMA Fields ==
  ASSUME NEW r \in CallRecord
  PROVE  /\ r.key \in Key /\ r.snapshot \in Snapshot \cup {None} /\ r.request \in Call \cup {None}
         /\ r.started \in 0..MaxClears /\ r.since \in 0..MaxClears /\ r.phase \in Phases
BY DEF CallRecord, Phases

LEMMA RecordUpdates ==
  ASSUME NEW r \in CallRecord, NEW at \in Phases
  PROVE  /\ [r EXCEPT !.phase = at] \in CallRecord
         /\ \A snapshot \in Snapshot \cup {None} :
              [r EXCEPT !.phase = at, !.snapshot = snapshot] \in CallRecord
         /\ \A joined \in Call \cup {None} :
              [r EXCEPT !.phase = at, !.request = joined] \in CallRecord
         /\ \A begun \in 0..MaxClears :
              [r EXCEPT !.phase = at, !.started = begun] \in CallRecord
         /\ \A snapshot \in Snapshot \cup {None} : [r EXCEPT !.snapshot = snapshot] \in CallRecord
<1> USE DEF CallRecord, Phases
<1>1. [r EXCEPT !.phase = at] \in CallRecord
  OBVIOUS
<1>2. \A snapshot \in Snapshot \cup {None} :
        [r EXCEPT !.phase = at, !.snapshot = snapshot] \in CallRecord
  OBVIOUS
<1>3. \A joined \in Call \cup {None} :
        [r EXCEPT !.phase = at, !.request = joined] \in CallRecord
  OBVIOUS
<1>4. \A begun \in 0..MaxClears :
        [r EXCEPT !.phase = at, !.started = begun] \in CallRecord
  OBVIOUS
<1>5. \A snapshot \in Snapshot \cup {None} : [r EXCEPT !.snapshot = snapshot] \in CallRecord
  OBVIOUS
<1> QED
  BY <1>1, <1>2, <1>3, <1>4, <1>5

\* What becomes of all calls when one of them changes.
LEMMA CallUpdates ==
  ASSUME call \in [Call -> CallRecord], NEW c \in Call, NEW at \in Phases
  PROVE  /\ [call EXCEPT ![c].phase = at] \in [Call -> CallRecord]
         /\ \A snapshot \in Snapshot \cup {None} :
              /\ [call EXCEPT ![c].snapshot = snapshot] \in [Call -> CallRecord]
              /\ [call EXCEPT ![c].snapshot = snapshot, ![c].phase = at] \in [Call -> CallRecord]
              /\ [call EXCEPT ![c].phase = at, ![c].snapshot = snapshot] \in [Call -> CallRecord]
<1>1. /\ call[c] \in CallRecord
      /\ [call[c] EXCEPT !.phase = at] \in CallRecord
  BY RecordUpdates
<1>2. ASSUME NEW snapshot \in Snapshot \cup {None}
      PROVE  /\ [call[c] EXCEPT !.snapshot = snapshot] \in CallRecord
             /\ [[call[c] EXCEPT !.snapshot = snapshot] EXCEPT !.phase = at] \in CallRecord
             /\ [call[c] EXCEPT !.phase = at, !.snapshot = snapshot] \in CallRecord
  <2>1. [call[c] EXCEPT !.snapshot = snapshot] \in CallRecord
    BY <1>1, RecordUpdates
  <2>2. [call[c] EXCEPT !.phase = at, !.snapshot = snapshot] \in CallRecord
    BY <1>1, RecordUpdates
  <2> QED
    BY <2>1, <2>2, RecordUpdates
<1>3. [call EXCEPT ![c].phase = at] \in [Call -> CallRecord]
  BY <1>1
<1>4. ASSUME NEW snapshot \in Snapshot \cup {None}
      PROVE  /\ [call EXCEPT ![c].snapshot = snapshot] \in [Call -> CallRecord]
             /\ [call EXCEPT ![c].snapshot = snapshot, ![c].phase = at] \in [Call -> CallRecord]
             /\ [call EXCEPT ![c].phase = at, ![c].snapshot = snapshot] \in [Call -> CallRecord]
  BY <1>2
<1> QED
  BY <1>3, <1>4

\* A call that joins or starts a fetch is still a call.
LEMMA FlightUpdates ==
  ASSUME NEW r \in CallRecord, inflight[r.key] \in Call \cup {None}, generation \in 0..MaxClears
  PROVE  Joined(r) \in CallRecord /\ Fetching(r) \in CallRecord
<1>1. Joined(r) \in CallRecord
  BY RecordUpdates DEF Joined, Phases
<1>2. Fetching(r) \in CallRecord
  BY RecordUpdates DEF Fetching, Phases
<1> QED
  BY <1>1, <1>2

\* The first operation of a queue, and what is queued behind it.
LEMMA FirstOperation ==
  ASSUME operations \in Seq(Operation), operations # <<>>
  PROVE  /\ 1 \in 1..Len(operations)
         /\ operations[1] \in Operation /\ operations[1].by \in Call
         /\ operations[1].kind \in {"get", "set"}
         /\ Tail(operations) \in Seq(Operation)
<1>1. 1 \in 1..Len(operations) /\ Tail(operations) \in Seq(Operation)
  OBVIOUS
<1>2. operations[1] \in Operation
  BY <1>1
<1> QED
  BY <1>1, <1>2 DEF Operation

\* The parts of Typed.
CacheTyped ==
  /\ cache \in [Key -> Snapshot \cup {None}]
  /\ IsFiniteSet(CachedKeys) /\ Cardinality(CachedKeys) <= MaxEntries

StateTyped ==
  /\ backed \in BOOLEAN /\ generation \in 0..MaxClears /\ writing \in BOOLEAN
  /\ persisted \in [Key -> Snapshot \cup {None}]

FlightTyped == inflight \in [Key -> Call \cup {None}]

LEMMA TypedParts ==
  Typed <=> /\ CacheTyped /\ StateTyped /\ FlightTyped
            /\ operations \in Seq(Operation) /\ call \in [Call -> CallRecord]
<1>1. Typed <=> TypeOK /\ IsFiniteSet(CachedKeys)
  BY DEF Typed
<1>2. TypeOK <=> /\ cache \in [Key -> Snapshot \cup {None}] /\ Cardinality(CachedKeys) <= MaxEntries
                 /\ StateTyped /\ FlightTyped
                 /\ operations \in Seq(Operation) /\ call \in [Call -> CallRecord]
  BY Zenon DEF TypeOK, StateTyped, FlightTyped, CachedKeys
<1> QED
  BY <1>1, <1>2, Zenon DEF CacheTyped

LEMMA TypedStep == Typed /\ OperationsMatch /\ JoinedKnowsRequest /\ [Next]_vars => Typed'
<1> SUFFICES ASSUME Typed, OperationsMatch, JoinedKnowsRequest, [Next]_vars PROVE Typed'
  OBVIOUS
<1>0. /\ CacheTyped /\ StateTyped /\ FlightTyped
      /\ operations \in Seq(Operation) /\ call \in [Call -> CallRecord]
  BY TypedParts
<1>1. ASSUME CacheTyped', StateTyped', FlightTyped',
             operations' \in Seq(Operation), call' \in [Call -> CallRecord]
      PROVE  Typed'
  BY <1>1, Zenon DEF Typed, TypeOK, CacheTyped, StateTyped, FlightTyped, CachedKeys
<1>2. /\ UNCHANGED cache => CacheTyped'
      /\ UNCHANGED inflight => FlightTyped'
      /\ UNCHANGED <<backed, generation, persisted>> /\ writing' \in BOOLEAN => StateTyped'
  BY <1>0 DEF CacheTyped, FlightTyped, StateTyped, CachedKeys
<1>3. ASSUME NEW c \in Call, NEW k \in Key, NEW force \in BOOLEAN, GetOrFetch(c, k, force)
      PROVE  Typed'
  <2> DEFINE record == [call[c] EXCEPT !.key = k, !.since = generation]
  <2>1. record \in CallRecord /\ record.key = k
    <3>1. call[c] \in CallRecord /\ generation \in 0..MaxClears
      BY <1>0 DEF StateTyped
    <3> QED
      BY <3>1 DEF CallRecord
  <2>2. /\ cache[k] \in Snapshot \cup {None} /\ inflight[k] \in Call \cup {None}
        /\ generation \in 0..MaxClears
    BY <1>0 DEF CacheTyped, FlightTyped, StateTyped
  <2>3. PICK r \in {[record EXCEPT !.phase = "over", !.snapshot = cache[k]], Joined(record),
                    [record EXCEPT !.phase = "lookup"], Fetching(record)} :
          call' = [call EXCEPT ![c] = r]
    BY <1>3 DEF GetOrFetch
  <2>4. FlightTyped'
    BY <1>0, <1>3 DEF GetOrFetch, FlightTyped
  <2>5. UNCHANGED <<backed, generation, cache, persisted, operations, writing>>
    BY <1>3 DEF GetOrFetch
  <2> HIDE DEF record
  <2>6. r \in CallRecord
    <3>1. [record EXCEPT !.phase = "over", !.snapshot = cache[k]] \in CallRecord
      BY <2>1, <2>2, RecordUpdates DEF Phases
    <3>2. Joined(record) \in CallRecord /\ Fetching(record) \in CallRecord
      BY <2>1, <2>2, FlightUpdates
    <3>3. [record EXCEPT !.phase = "lookup"] \in CallRecord
      BY <2>1, RecordUpdates DEF Phases
    <3> QED
      BY <2>3, <3>1, <3>2, <3>3
  <2>7. call' \in [Call -> CallRecord]
    BY <1>0, <2>3, <2>6
  <2>8. writing' \in BOOLEAN
    BY <1>0, <2>5 DEF StateTyped
  <2> QED
    BY <1>0, <1>1, <1>2, <2>4, <2>5, <2>7, <2>8
<1>4. ASSUME NEW c \in Call, Lookup(c) PROVE Typed'
  <2>1. /\ call' = [call EXCEPT ![c].phase = "reading"]
        /\ operations' = Append(operations, [kind |-> "get", by |-> c])
        /\ UNCHANGED <<backed, generation, cache, inflight, persisted, writing>>
    BY <1>4 DEF Lookup
  <2>2. call' \in [Call -> CallRecord]
    BY <1>0, <2>1, CallUpdates DEF Phases
  <2>3. [kind |-> "get", by |-> c] \in Operation
    BY DEF Operation
  <2>4. operations' \in Seq(Operation)
    BY <1>0, <2>1, <2>3
  <2>5. writing' \in BOOLEAN
    BY <1>0, <2>1 DEF StateTyped
  <2> QED
    BY <1>1, <1>2, <2>1, <2>2, <2>4, <2>5
<1>5. ASSUME RunOperation PROVE Typed'
  <2> DEFINE c == operations[1].by
             k == call[c].key
  <2>1. /\ operations # <<>> /\ writing' = TRUE
        /\ UNCHANGED <<backed, generation, cache, inflight, operations>>
    BY <1>5 DEF RunOperation
  <2>2. c \in Call
    BY <1>0, <2>1, FirstOperation
  <2>3. /\ k \in Key /\ call[c].snapshot \in Snapshot \cup {None}
        /\ persisted[k] \in Snapshot \cup {None}
    <3>1. k \in Key /\ call[c].snapshot \in Snapshot \cup {None}
      BY <1>0, <2>2, Fields
    <3> QED
      BY <1>0, <3>1 DEF StateTyped
  <2>4. CASE operations[1].kind = "get"
    <3>1. PICK found \in {persisted[k], None} : call' = [call EXCEPT ![c].snapshot = found]
      BY <1>5, <2>4 DEF RunOperation
    <3>2. UNCHANGED persisted
      BY <1>5, <2>4 DEF RunOperation
    <3> HIDE DEF c, k
    <3>3. call' \in [Call -> CallRecord]
      BY <1>0, <2>2, <2>3, <3>1, CallUpdates DEF Phases
    <3> QED
      BY <1>0, <1>1, <1>2, <2>1, <3>2, <3>3
  <2>5. CASE operations[1].kind # "get"
    <3>1. PICK left \in {call[c].snapshot, None} : persisted' = [persisted EXCEPT ![k] = left]
      BY <1>5, <2>5 DEF RunOperation
    <3>2. UNCHANGED call
      BY <1>5, <2>5 DEF RunOperation
    <3> HIDE DEF c, k
    <3>3. StateTyped'
      BY <1>0, <2>1, <2>3, <3>1 DEF StateTyped
    <3> QED
      BY <1>0, <1>1, <1>2, <2>1, <3>2, <3>3
  <2> QED
    BY <2>4, <2>5
<1>6. ASSUME EndOperation PROVE Typed'
  <2> DEFINE c == operations[1].by
             k == call[c].key
  <2>1. /\ writing /\ writing' = FALSE /\ operations' = Tail(operations)
        /\ UNCHANGED <<backed, generation, persisted>>
        /\ EndGet(c) \/ (call' = [call EXCEPT ![c].phase = "over"] /\ LeaveFlight(c) /\ UNCHANGED cache)
    BY <1>6 DEF EndOperation
  <2>2. c \in Call /\ operations' \in Seq(Operation)
    BY <1>0, <2>1, FirstOperation DEF OperationsMatch
  <2>3. /\ call[c] \in CallRecord /\ k \in Key /\ call[c].snapshot \in Snapshot \cup {None}
        /\ inflight[k] \in Call \cup {None} /\ generation \in 0..MaxClears
    <3>1. call[c] \in CallRecord
      BY <1>0, <2>2
    <3>2. k \in Key /\ call[c].snapshot \in Snapshot \cup {None}
      BY <3>1, Fields
    <3> QED
      BY <1>0, <3>1, <3>2 DEF StateTyped, FlightTyped
  <2>4. StateTyped'
    BY <1>2, <2>1
  <2>5. FlightTyped'
    <3> HIDE DEF c
    <3> QED
      BY <1>0, <2>1, <2>2, <2>3 DEF EndGet, LeaveFlight, FlightTyped
  <2>6. CacheTyped'
    <3>1. CASE UNCHANGED cache
      BY <1>2, <3>1
    <3>2. CASE call[c].snapshot # None /\ Remember(k, call[c].snapshot)
      BY <2>3, <3>2, RememberTyped DEF CacheTyped
    <3> QED
      BY <2>1, <3>1, <3>2 DEF EndGet
  <2>7. call' \in [Call -> CallRecord]
    <3>1. PICK r \in {[call[c] EXCEPT !.phase = "over"], Joined(call[c]), Fetching(call[c])} :
            call' = [call EXCEPT ![c] = r]
      BY <2>1 DEF EndGet
    <3>2. [call[c] EXCEPT !.phase = "over"] \in CallRecord
      BY <2>3, RecordUpdates DEF Phases
    <3>3. Joined(call[c]) \in CallRecord /\ Fetching(call[c]) \in CallRecord
      BY <2>3, FlightUpdates
    <3>4. r \in CallRecord
      BY <3>1, <3>2, <3>3
    <3> QED
      BY <1>0, <3>1, <3>4
  <2> QED
    BY <1>1, <2>2, <2>4, <2>5, <2>6, <2>7
<1>7. ASSUME NEW c \in Call, EndFetch(c) PROVE Typed'
  <2>1. PICK settled \in BOOLEAN :
          LET snapshot == [made |-> call[c].started, settled |-> settled]
              persist == Keep(c) /\ settled /\ backed
          IN /\ call' = [call EXCEPT ![c].snapshot = snapshot,
                                     ![c].phase = IF persist THEN "persisting" ELSE "over"]
             /\ IF Keep(c) THEN Remember(call[c].key, snapshot) ELSE UNCHANGED cache
             /\ IF persist
                THEN /\ operations' = Append(operations, [kind |-> "set", by |-> c])
                     /\ UNCHANGED inflight
                ELSE LeaveFlight(c) /\ UNCHANGED operations
    BY <1>7 DEF EndFetch
  <2> DEFINE snapshot == [made |-> call[c].started, settled |-> settled]
  <2>2. snapshot \in Snapshot /\ call[c].key \in Key
    BY <1>0, Fields DEF Snapshot
  <2>3. call' \in [Call -> CallRecord]
    <3>1. PICK at \in {"persisting", "over"} :
            call' = [call EXCEPT ![c].snapshot = snapshot, ![c].phase = at]
      BY <2>1
    <3> HIDE DEF snapshot
    <3> QED
      BY <1>0, <2>2, <3>1, CallUpdates DEF Phases
  <2>4. FlightTyped'
    BY <1>0, <2>1, <2>2 DEF LeaveFlight, FlightTyped
  <2>5. CacheTyped'
    <3>1. Remember(call[c].key, snapshot) \/ UNCHANGED cache
      BY <2>1
    <3> HIDE DEF snapshot
    <3>2. CASE Remember(call[c].key, snapshot)
      BY <2>2, <3>2, RememberTyped DEF CacheTyped
    <3> QED
      BY <1>2, <3>1, <3>2
  <2>6. operations' \in Seq(Operation)
    <3>1. [kind |-> "set", by |-> c] \in Operation
      BY DEF Operation
    <3>2. operations' = operations \/ operations' = Append(operations, [kind |-> "set", by |-> c])
      BY <2>1
    <3> QED
      BY <1>0, <3>1, <3>2
  <2>7. StateTyped'
    BY <1>0, <1>7 DEF EndFetch, StateTyped
  <2> QED
    BY <1>1, <2>3, <2>4, <2>5, <2>6, <2>7
<1>8. ASSUME NEW c \in Call, Served(c) PROVE Typed'
  <2>1. /\ call[c].phase = "joined"
        /\ call' = [call EXCEPT ![c].phase = "over", ![c].snapshot = call[call[c].request].snapshot]
        /\ UNCHANGED <<backed, generation, cache, inflight, persisted, operations, writing>>
    BY <1>8 DEF Served
  <2>2. call[c].request \in Call
    BY <1>0, <2>1, Fields DEF JoinedKnowsRequest
  <2>3. call[call[c].request].snapshot \in Snapshot \cup {None}
    BY <1>0, <2>2, Fields
  <2>4. call' \in [Call -> CallRecord]
    BY <1>0, <2>1, <2>3, CallUpdates DEF Phases
  <2>5. writing' \in BOOLEAN
    BY <1>0, <2>1 DEF StateTyped
  <2> QED
    BY <1>0, <1>1, <1>2, <2>1, <2>4, <2>5
<1>9. ASSUME Clear PROVE Typed'
  <2>1. /\ generation < MaxClears /\ generation' = generation + 1
        /\ \A f \in {cache', inflight', persisted'} : f = [k \in Key |-> None]
        /\ UNCHANGED <<backed, operations, writing, call>>
    BY <1>9 DEF Clear
  <2>2. CacheTyped'
    <3>1. CachedKeys' = {}
      BY <2>1 DEF CachedKeys
    <3>2. IsFiniteSet({}) /\ Cardinality({}) = 0
      BY FS_EmptySet
    <3>3. IsFiniteSet(CachedKeys') /\ Cardinality(CachedKeys') = 0
      BY <3>1, <3>2
    <3> QED
      BY <2>1, <3>3, ServiceAssumption DEF ServiceAssumption, CacheTyped
  <2>3. StateTyped' /\ FlightTyped'
    BY <1>0, <2>1, ServiceAssumption DEF ServiceAssumption, StateTyped, FlightTyped
  <2> QED
    BY <1>0, <1>1, <2>1, <2>2, <2>3
<1>10. CASE UNCHANGED vars
  <2>1. UNCHANGED <<backed, generation, cache, inflight, persisted, operations, writing, call>>
    BY <1>10 DEF vars
  <2>2. writing' \in BOOLEAN
    BY <1>0, <2>1 DEF StateTyped
  <2> QED
    BY <1>0, <1>1, <1>2, <2>1, <2>2
<1> QED
  BY <1>3, <1>4, <1>5, <1>6, <1>7, <1>8, <1>9, <1>10 DEF Next, Progress

(***************************************************************************)
(* What each action changes in the calls, field by field.                  *)
(***************************************************************************)
Others(c) == \A d \in Call : d # c => call'[d] = call[d]

Same(c) ==
  /\ call'[c].key = call[c].key /\ call'[c].since = call[c].since
  /\ call'[c].started = call[c].started

StaysJoined(c) == call'[c].phase = "joined" /\ call'[c].request = inflight[call'[c].key]
                  /\ inflight[call'[c].key] # None /\ UNCHANGED inflight

StartsFetch(c) ==
  /\ call'[c].phase = "fetching" /\ call'[c].started = generation
  /\ inflight[call'[c].key] = None /\ inflight' = [inflight EXCEPT ![call'[c].key] = c]

LEMMA GetOrFetchChanges ==
  ASSUME Typed, NEW c \in Call, NEW k \in Key, NEW force \in BOOLEAN, GetOrFetch(c, k, force)
  PROVE  /\ call[c].phase = "new" /\ Others(c)
         /\ call'[c].key = k /\ call'[c].since = generation
         /\ \/ /\ call'[c].phase = "over" /\ call'[c].started = call[c].started
               /\ call'[c].snapshot = cache[k] /\ cache[k] # None /\ UNCHANGED inflight
            \/ StaysJoined(c) /\ call'[c].started = call[c].started
            \/ /\ call'[c].phase = "lookup" /\ call'[c].started = call[c].started
               /\ backed /\ UNCHANGED inflight
            \/ StartsFetch(c)
         /\ UNCHANGED <<backed, generation, cache, operations, writing>>
<1> USE DEF Typed, TypeOK
<1> DEFINE record == [call[c] EXCEPT !.key = k, !.since = generation]
<1>1. call[c] \in CallRecord
  OBVIOUS
<1>2. \A r : call' = [call EXCEPT ![c] = r] => Others(c) /\ call'[c] = r
  BY DEF Others
<1>3. record.key = k /\ record.since = generation /\ record.started = call[c].started
  BY <1>1 DEF CallRecord
<1>4. record \in CallRecord
  BY <1>1 DEF CallRecord
<1>5. call[c].phase = "new" /\ UNCHANGED <<backed, generation, cache, operations, writing>>
  BY DEF GetOrFetch
<1>6. CASE /\ cache[k] # None /\ UNCHANGED inflight
           /\ call' = [call EXCEPT ![c] = [record EXCEPT !.phase = "over", !.snapshot = cache[k]]]
  BY <1>2, <1>3, <1>4, <1>5, <1>6 DEF CallRecord
<1>7. CASE /\ inflight[k] # None /\ UNCHANGED inflight
           /\ call' = [call EXCEPT ![c] = Joined(record)]
  <2>1. call'[c] = [record EXCEPT !.phase = "joined", !.request = inflight[k]] /\ Others(c)
    BY <1>2, <1>3, <1>7 DEF Joined
  <2>2. /\ call'[c].phase = "joined" /\ call'[c].request = inflight[k] /\ call'[c].key = k
        /\ call'[c].since = generation /\ call'[c].started = call[c].started
    BY <1>3, <1>4, <2>1 DEF CallRecord
  <2> QED
    BY <1>5, <1>7, <2>1, <2>2 DEF StaysJoined
<1>8. CASE /\ backed /\ UNCHANGED inflight
           /\ call' = [call EXCEPT ![c] = [record EXCEPT !.phase = "lookup"]]
  BY <1>2, <1>3, <1>4, <1>5, <1>8 DEF CallRecord
<1>9. CASE /\ inflight[k] = None /\ inflight' = [inflight EXCEPT ![k] = c]
           /\ call' = [call EXCEPT ![c] = Fetching(record)]
  <2>1. call'[c] = [record EXCEPT !.phase = "fetching", !.started = generation] /\ Others(c)
    BY <1>2, <1>9 DEF Fetching
  <2>2. /\ call'[c].phase = "fetching" /\ call'[c].started = generation /\ call'[c].key = k
        /\ call'[c].since = generation
    BY <1>3, <1>4, <2>1 DEF CallRecord
  <2> QED
    BY <1>5, <1>9, <2>1, <2>2 DEF StartsFetch
<1> HIDE DEF record
<1> QED
  BY <1>6, <1>7, <1>8, <1>9 DEF GetOrFetch, record

LEMMA LookupChanges ==
  ASSUME Typed, NEW c \in Call, Lookup(c)
  PROVE  /\ call[c].phase = "lookup" /\ call'[c].phase = "reading"
         /\ Others(c) /\ Same(c)
         /\ operations' = Append(operations, [kind |-> "get", by |-> c])
         /\ UNCHANGED <<backed, generation, cache, inflight, writing>>
BY DEF Typed, TypeOK, CallRecord, Lookup, Others, Same

LEMMA RunChanges ==
  ASSUME Typed, RunOperation
  PROVE  /\ operations # <<>>
         /\ \A d \in Call :
              /\ call'[d].phase = call[d].phase /\ call'[d].request = call[d].request /\ Same(d)
              /\ call'[d] # call[d] => d = operations[1].by /\ operations[1].kind = "get"
         /\ UNCHANGED <<backed, generation, cache, inflight, operations>>
<1> USE DEF Typed, TypeOK
<1> DEFINE c == operations[1].by
<1>1. operations # <<>> /\ UNCHANGED <<backed, generation, cache, inflight, operations>>
  BY DEF RunOperation
<1>2. c \in Call
  BY <1>1, FirstOperation
<1>3. CASE operations[1].kind = "get"
  <2>1. PICK found : call' = [call EXCEPT ![c].snapshot = found]
    BY <1>3 DEF RunOperation
  <2> QED
    BY <1>1, <1>2, <1>3, <2>1 DEF CallRecord, Same
<1>4. CASE operations[1].kind # "get"
  BY <1>1, <1>4 DEF RunOperation, Same
<1> HIDE DEF Typed, TypeOK
<1> QED
  BY Zenon, <1>3, <1>4

LEMMA EndOperationChanges ==
  ASSUME Typed, OperationsMatch, EndOperation
  PROVE  LET c == operations[1].by
             k == call[c].key
         IN /\ operations # <<>> /\ operations' = Tail(operations)
            /\ c \in Call /\ Others(c) /\ call'[c].key = k /\ call'[c].since = call[c].since
            /\ \/ /\ operations[1].kind = "get" /\ call[c].phase = "reading"
                  /\ \/ /\ call'[c].phase = "over" /\ Same(c) /\ UNCHANGED inflight
                     \/ StaysJoined(c) /\ Same(c) /\ UNCHANGED cache
                     \/ StartsFetch(c) /\ UNCHANGED cache
               \/ /\ operations[1].kind = "set" /\ call[c].phase = "persisting"
                  /\ call'[c].phase = "over" /\ Same(c) /\ LeaveFlight(c)
                  /\ UNCHANGED cache
            /\ writing' = FALSE /\ UNCHANGED <<backed, generation>>
<1> USE DEF Typed, TypeOK
<1> DEFINE c == operations[1].by
           k == call[c].key
<1>1. /\ operations # <<>> /\ operations' = Tail(operations)
      /\ writing' = FALSE /\ UNCHANGED <<backed, generation>>
  BY DEF EndOperation, OperationsMatch
<1>2. c \in Call /\ operations[1].kind \in {"get", "set"} /\ 1 \in 1..Len(operations)
  BY <1>1, FirstOperation
<1>3. call[c] \in CallRecord
  BY <1>2
<1>4. \A r : call' = [call EXCEPT ![c] = r] => Others(c) /\ call'[c] = r
  BY <1>2 DEF Others
<1>5. CASE operations[1].kind = "get"
  <2>1. call[c].phase = "reading"
    BY <1>2, <1>5 DEF OperationsMatch
  <2>2. EndGet(c)
    BY <1>5 DEF EndOperation
  <2>3. CASE call' = [call EXCEPT ![c].phase = "over"] /\ UNCHANGED inflight
    <3>1. call'[c] = [call[c] EXCEPT !.phase = "over"] /\ Others(c)
      BY <1>2, <2>3 DEF Others
    <3>2. call'[c].phase = "over" /\ Same(c)
      BY <1>3, <3>1 DEF CallRecord, Same
    <3> QED
      BY <1>1, <1>2, <1>5, <2>1, <2>3, <3>1, <3>2 DEF Same
  <2>4. CASE /\ inflight[k] # None /\ UNCHANGED <<cache, inflight>>
             /\ call' = [call EXCEPT ![c] = Joined(call[c])]
    <3>1. call'[c] = [call[c] EXCEPT !.phase = "joined", !.request = inflight[k]] /\ Others(c)
      BY <1>4, <2>4 DEF Joined
    <3>2. call'[c].phase = "joined" /\ call'[c].request = inflight[k] /\ Same(c)
      BY <1>3, <3>1 DEF CallRecord, Same
    <3> QED
      BY <1>1, <1>2, <1>5, <2>1, <2>4, <3>1, <3>2 DEF Same, StaysJoined
  <2>5. CASE /\ inflight[k] = None /\ inflight' = [inflight EXCEPT ![k] = c] /\ UNCHANGED cache
             /\ call' = [call EXCEPT ![c] = Fetching(call[c])]
    <3>1. call'[c] = [call[c] EXCEPT !.phase = "fetching", !.started = generation] /\ Others(c)
      BY <1>4, <2>5 DEF Fetching
    <3>2. /\ call'[c].phase = "fetching" /\ call'[c].started = generation
          /\ call'[c].key = k /\ call'[c].since = call[c].since
      BY <1>3, <3>1 DEF CallRecord
    <3> QED
      BY <1>1, <1>2, <1>5, <2>1, <2>5, <3>1, <3>2 DEF StartsFetch
  <2> HIDE DEF c, k, Typed, TypeOK
  <2> QED
    BY <2>2, <2>3, <2>4, <2>5 DEF EndGet, k, c
<1>6. CASE operations[1].kind = "set"
  <2>1. call[c].phase = "persisting"
    BY <1>2, <1>6 DEF OperationsMatch
  <2>2. call' = [call EXCEPT ![c].phase = "over"] /\ LeaveFlight(c) /\ UNCHANGED cache
    BY <1>6 DEF EndOperation
  <2>3. call'[c] = [call[c] EXCEPT !.phase = "over"] /\ Others(c)
    BY <1>2, <2>2 DEF Others
  <2>4. call'[c].phase = "over" /\ Same(c)
    BY <1>3, <2>3 DEF CallRecord, Same
  <2> QED
    BY <1>1, <1>2, <1>6, <2>1, <2>2, <2>3, <2>4 DEF Same
<1> HIDE DEF c, k, Typed, TypeOK
<1> QED
  BY <1>2, <1>5, <1>6 DEF k, c

LEMMA EndFetchChanges ==
  ASSUME Typed, NEW c \in Call, EndFetch(c)
  PROVE  LET k == call[c].key
         IN /\ call[c].phase = "fetching" /\ Others(c) /\ Same(c)
            /\ call'[c].snapshot # None /\ call'[c].snapshot.made = call[c].started
            /\ \/ /\ call'[c].phase = "over" /\ LeaveFlight(c) /\ UNCHANGED operations
               \/ /\ call'[c].phase = "persisting" /\ backed /\ UNCHANGED inflight
                  /\ operations' = Append(operations, [kind |-> "set", by |-> c])
            /\ \A j \in Key :
                 \/ cache'[j] = cache[j] \/ cache'[j] = None
                 \/ cache'[j] = call'[c].snapshot /\ call[c].started = generation
            /\ UNCHANGED <<backed, generation, writing>>
<1> USE DEF Typed, TypeOK
<1>1. PICK settled \in BOOLEAN :
        LET snapshot == [made |-> call[c].started, settled |-> settled]
            persist == Keep(c) /\ settled /\ backed
        IN /\ call' = [call EXCEPT ![c].snapshot = snapshot,
                                   ![c].phase = IF persist THEN "persisting" ELSE "over"]
           /\ IF Keep(c) THEN Remember(call[c].key, snapshot) ELSE UNCHANGED cache
           /\ IF persist
              THEN /\ operations' = Append(operations, [kind |-> "set", by |-> c])
                   /\ UNCHANGED inflight
              ELSE LeaveFlight(c) /\ UNCHANGED operations
  BY DEF EndFetch
<1> DEFINE snapshot == [made |-> call[c].started, settled |-> settled]
           persist == Keep(c) /\ settled /\ backed
<1>2. call[c].key \in Key /\ snapshot \in Snapshot /\ snapshot.made = call[c].started
  BY Fields DEF Snapshot
<1>3. call[c].phase = "fetching" /\ UNCHANGED <<backed, generation, writing>>
  BY DEF EndFetch
<1>4. call'[c] = [call[c] EXCEPT !.snapshot = snapshot,
                                 !.phase = IF persist THEN "persisting" ELSE "over"]
  BY <1>1
<1>5. Others(c)
  BY <1>1 DEF Others
<1>6. /\ call'[c].snapshot = snapshot /\ Same(c)
      /\ call'[c].phase = IF persist THEN "persisting" ELSE "over"
  <2> HIDE DEF snapshot, persist
  <2>1. call[c] \in CallRecord
    OBVIOUS
  <2> QED
    BY <1>4, <2>1 DEF CallRecord, Same
<1>7. call'[c].snapshot # None /\ call'[c].snapshot.made = call[c].started
  BY <1>2, <1>6, NoneIsNoSnapshot
<1>8. \A j \in Key :
        \/ cache'[j] = cache[j] \/ cache'[j] = None
        \/ cache'[j] = call'[c].snapshot /\ call[c].started = generation
  <2>1. CASE Keep(c)
    <3>1. \A j \in Key : cache'[j] \in {cache[j], snapshot, None}
      BY <1>1, <1>2, <2>1, RememberTyped
    <3> HIDE DEF snapshot
    <3> QED
      BY <1>6, <2>1, <3>1 DEF Keep
  <2>2. CASE ~Keep(c)
    BY <1>1, <2>2
  <2> QED
    BY <2>1, <2>2
<1>9. CASE persist
  <2>1. /\ operations' = Append(operations, [kind |-> "set", by |-> c]) /\ UNCHANGED inflight
        /\ backed /\ call'[c].phase = "persisting"
    BY <1>1, <1>6, <1>9
  <2> HIDE DEF snapshot, persist, Typed, TypeOK
  <2> QED
    BY <1>3, <1>5, <1>6, <1>7, <1>8, <2>1
<1>10. CASE ~persist
  <2>1. LeaveFlight(c) /\ UNCHANGED operations /\ call'[c].phase = "over"
    BY <1>1, <1>6, <1>10
  <2> HIDE DEF snapshot, persist, Typed, TypeOK
  <2> QED
    BY <1>3, <1>5, <1>6, <1>7, <1>8, <2>1
<1> QED
  BY <1>9, <1>10

LEMMA ServedChanges ==
  ASSUME Typed, NEW c \in Call, Served(c)
  PROVE  /\ call[c].phase = "joined" /\ call[call[c].request].phase = "over"
         /\ call'[c].phase = "over" /\ call'[c].snapshot = call[call[c].request].snapshot
         /\ Others(c) /\ Same(c)
         /\ UNCHANGED <<backed, generation, cache, inflight, operations, writing>>
BY DEF Typed, TypeOK, CallRecord, Served, Others, Same

(***************************************************************************)
(* The inductive invariant.  Without a persistent cache every snapshot in  *)
(* reach of a call is of a fetch that started no earlier than the call.    *)
(***************************************************************************)
Unbacked ==
  ~backed =>
    /\ \A k \in Key : cache[k] # None => cache[k].made = generation
    /\ \A c \in Call : call[c].phase \notin {"lookup", "reading", "persisting"}
    /\ \A c \in Call : call[c].phase = "over" =>
         call[c].snapshot # None /\ call[c].snapshot.made >= call[c].since
    /\ \A c \in Call : call[c].phase = "fetching" => call[c].started >= call[c].since
    /\ \A c \in Call : call[c].phase = "joined" =>
         LET r == call[c].request IN
         /\ r \in Call /\ call[r].phase \in {"fetching", "over"}
         /\ call[r].started >= call[c].since
         /\ call[r].phase = "over" =>
              call[r].snapshot # None /\ call[r].snapshot.made = call[r].started

ServiceInv ==
  /\ Typed /\ OperationsMatch /\ JoinedKnowsRequest /\ NothingAhead
  /\ InflightIsCurrent /\ OneFetchPerKey /\ Unbacked

LEMMA ServiceInvInit == Init => ServiceInv
<1> SUFFICES ASSUME Init PROVE ServiceInv
  OBVIOUS
<1> USE ServiceAssumption, NoneIsNoSnapshot DEF ServiceAssumption
<1>1. Typed
  BY TypedInit
<1>2. /\ operations = <<>> /\ writing = FALSE /\ generation = 0
      /\ \A k \in Key : cache[k] = None /\ inflight[k] = None
      /\ \A c \in Call : call[c].phase = "new" /\ call[c].since = 0 /\ call[c].started = 0
  BY DEF Init
<1>3. OperationsMatch
  BY <1>2 DEF OperationsMatch
<1>4. JoinedKnowsRequest /\ NothingAhead /\ OneFetchPerKey
  BY <1>2 DEF JoinedKnowsRequest, NothingAhead, OneFetchPerKey
<1>5. InflightIsCurrent
  BY <1>2 DEF InflightIsCurrent, Unfinished
<1>6. Unbacked
  BY <1>2 DEF Unbacked
<1> QED
  BY <1>1, <1>3, <1>4, <1>5, <1>6 DEF ServiceInv

\* An operation is queued by a call that had none, or the first one is over.
LEMMA QueueSteps ==
  ASSUME Typed, OperationsMatch, NEW c \in Call, Others(c)
  PROVE  /\ \A kind \in {"get", "set"} :
              /\ operations' = Append(operations, [kind |-> kind, by |-> c])
              /\ call[c].phase \notin {"reading", "persisting"} /\ UNCHANGED writing
              /\ call'[c].phase = IF kind = "get" THEN "reading" ELSE "persisting"
              => OperationsMatch'
         /\ /\ operations # <<>> /\ operations' = Tail(operations)
            /\ c = operations[1].by /\ writing' = FALSE
            => OperationsMatch'
         /\ /\ call[c].phase \notin {"reading", "persisting"}
            /\ UNCHANGED <<operations, writing>>
            => OperationsMatch'
<1> USE DEF Typed, TypeOK
<1>1. \A i \in 1..Len(operations) :
        /\ operations[i].by \in Call
        /\ operations[i].by # c => call'[operations[i].by] = call[operations[i].by]
        /\ call[c].phase \notin {"reading", "persisting"} => operations[i].by # c
  <2>1. \A i \in 1..Len(operations) : operations[i] \in Operation
    OBVIOUS
  <2>2. \A i \in 1..Len(operations) : operations[i].by \in Call
    BY <2>1 DEF Operation
  <2> QED
    BY <2>2 DEF Others, OperationsMatch
<1>2. ASSUME NEW kind \in {"get", "set"},
             operations' = Append(operations, [kind |-> kind, by |-> c]),
             call[c].phase \notin {"reading", "persisting"}, UNCHANGED writing,
             call'[c].phase = IF kind = "get" THEN "reading" ELSE "persisting"
      PROVE  OperationsMatch'
  <2>1. /\ Len(operations') = Len(operations) + 1 /\ Len(operations) \in Nat
        /\ operations'[Len(operations) + 1] = [kind |-> kind, by |-> c]
        /\ \A i \in 1..Len(operations) : operations'[i] = operations[i]
    BY <1>2
  <2>2. operations' # <<>>
    BY <2>1
  <2>3. \A i \in 1..Len(operations') : i \in 1..Len(operations) \/ i = Len(operations) + 1
    BY <2>1
  <2>4. \A i \in 1..Len(operations') :
          call'[operations'[i].by].phase =
            IF operations'[i].kind = "get" THEN "reading" ELSE "persisting"
    BY <1>1, <1>2, <2>1, <2>3 DEF OperationsMatch
  <2>5. \A i, j \in 1..Len(operations') : operations'[i].by = operations'[j].by => i = j
    BY <1>1, <1>2, <2>1, <2>3 DEF OperationsMatch
  <2> QED
    BY <1>2, <2>2, <2>4, <2>5 DEF OperationsMatch
<1>3. ASSUME operations # <<>>, operations' = Tail(operations), c = operations[1].by,
             writing' = FALSE
      PROVE  OperationsMatch'
  <2>1. /\ Len(operations') = Len(operations) - 1 /\ Len(operations) \in Nat
        /\ 1 \in 1..Len(operations)
        /\ \A i \in 1..Len(operations') :
             i + 1 \in 1..Len(operations) /\ i + 1 # 1 /\ operations'[i] = operations[i + 1]
    BY <1>3
  <2>2. \A i \in 1..Len(operations') : operations[i + 1].by # c
    BY <1>3, <2>1 DEF OperationsMatch
  <2>3. \A i, j \in 1..Len(operations') : i + 1 = j + 1 => i = j
    BY <2>1
  <2>4. \A i \in 1..Len(operations') :
          call'[operations'[i].by].phase =
            IF operations'[i].kind = "get" THEN "reading" ELSE "persisting"
    BY <1>1, <2>1, <2>2 DEF OperationsMatch
  <2>5. \A i, j \in 1..Len(operations') : operations'[i].by = operations'[j].by => i = j
    BY <2>1, <2>3 DEF OperationsMatch
  <2> QED
    BY <1>3, <2>4, <2>5 DEF OperationsMatch
<1>4. ASSUME call[c].phase \notin {"reading", "persisting"}, UNCHANGED <<operations, writing>>
      PROVE  OperationsMatch'
  BY <1>1, <1>4 DEF OperationsMatch
<1> QED
  BY <1>2, <1>3, <1>4

Flights == NothingAhead /\ InflightIsCurrent /\ OneFetchPerKey

\* What may become of the fetches in flight when one call takes a step.
LEMMA FlightSteps ==
  ASSUME Typed, Typed', Flights, NEW c \in Call, Others(c), UNCHANGED generation,
         call'[c].since <= generation
  PROVE  /\ /\ ~Unfinished(c) /\ ~Unfinished(c)' /\ UNCHANGED inflight
            /\ call'[c].started = call[c].started
            => Flights'
         /\ ~Unfinished(c) /\ StartsFetch(c) => Flights'
         /\ Unfinished(c) /\ Same(c) /\ call'[c].phase = "over" /\ LeaveFlight(c) => Flights'
         /\ Unfinished(c) /\ Same(c) /\ call'[c].phase = "persisting" /\ UNCHANGED inflight
            => Flights'
<1> USE ServiceAssumption DEF ServiceAssumption, Flights, Others, Unfinished
<1>0. /\ \A k \in Key : inflight[k] \in Call \cup {None} /\ inflight'[k] \in Call \cup {None}
      /\ \A d \in Call : /\ call[d].key \in Key /\ call'[d].key \in Key
                         /\ call[d].started \in 0..MaxClears
      /\ generation \in 0..MaxClears
  BY Fields DEF Typed, TypeOK
<1>1. ASSUME ~Unfinished(c), ~Unfinished(c)', UNCHANGED inflight,
             call'[c].started = call[c].started
      PROVE  Flights'
  <2>1. NothingAhead'
    BY <1>1 DEF NothingAhead
  <2>2. InflightIsCurrent'
    BY <1>1 DEF InflightIsCurrent
  <2>3. OneFetchPerKey'
    BY <1>1 DEF OneFetchPerKey
  <2> QED
    BY <2>1, <2>2, <2>3
<1>2. ASSUME ~Unfinished(c), StartsFetch(c) PROVE Flights'
  <2> USE <1>2 DEF StartsFetch
  <2>1. NothingAhead'
    BY <1>0 DEF NothingAhead
  <2>2. /\ inflight'[call'[c].key] = c
        /\ \A k \in Key : k # call'[c].key => inflight'[k] = inflight[k]
    BY <1>0 DEF Typed, TypeOK
  <2>3. \A d \in Call : call[d].key = call'[c].key /\ call[d].started = generation => ~Unfinished(d)
    BY <1>0 DEF InflightIsCurrent
  <2>4. InflightIsCurrent'
    BY <1>0, <2>2, <2>3 DEF InflightIsCurrent
  <2>5. OneFetchPerKey'
    BY <1>0, <2>3 DEF OneFetchPerKey
  <2> QED
    BY <2>1, <2>4, <2>5
<1>3. ASSUME Unfinished(c), Same(c), call'[c].phase = "over", LeaveFlight(c) PROVE Flights'
  <2> USE <1>3 DEF Same, LeaveFlight
  <2>1. NothingAhead'
    BY DEF NothingAhead
  <2>2. \A k \in Key : inflight'[k] = IF inflight[k] = c THEN None ELSE inflight[k]
    BY <1>0 DEF InflightIsCurrent, Typed, TypeOK
  <2>3. InflightIsCurrent'
    BY <1>0, <2>2 DEF InflightIsCurrent
  <2>4. OneFetchPerKey'
    BY DEF OneFetchPerKey
  <2> QED
    BY <2>1, <2>3, <2>4
<1>4. ASSUME Unfinished(c), Same(c), call'[c].phase = "persisting", UNCHANGED inflight
      PROVE  Flights'
  <2> USE <1>4 DEF Same
  <2>1. NothingAhead'
    BY DEF NothingAhead
  <2>2. InflightIsCurrent'
    BY DEF InflightIsCurrent
  <2>3. OneFetchPerKey'
    BY DEF OneFetchPerKey
  <2> QED
    BY <2>1, <2>2, <2>3
<1> HIDE DEF Flights
<1> QED
  BY <1>1, <1>2, <1>3, <1>4

LEMMA UnbackedStep ==
  ASSUME Typed, OperationsMatch, JoinedKnowsRequest, Flights, Unbacked, Typed', [Next]_vars
  PROVE  Unbacked'
<1> USE ServiceAssumption, NoneIsNoSnapshot DEF ServiceAssumption, Flights, Others, Same
<1>0. /\ \A c \in Call : /\ call[c].since \in Nat /\ call[c].started \in Nat
                         /\ call[c].snapshot # None => call[c].snapshot.made \in Nat
      /\ \A k \in Key : cache[k] # None => cache[k].made \in Nat
      /\ \A k \in Key : inflight[k] \in Call \cup {None}
      /\ generation \in Nat
  <2>1. \A snapshot \in Snapshot : snapshot.made \in Nat
    BY DEF Snapshot
  <2>2. \A k \in Key : cache[k] \in Snapshot \cup {None} /\ inflight[k] \in Call \cup {None}
    BY DEF Typed, TypeOK
  <2>3. \A c \in Call : /\ call[c].since \in 0..MaxClears /\ call[c].started \in 0..MaxClears
                        /\ call[c].snapshot \in Snapshot \cup {None}
    BY Fields DEF Typed, TypeOK
  <2>4. generation \in Nat
    BY DEF Typed, TypeOK
  <2> QED
    BY <2>1, <2>2, <2>3, <2>4
<1>1. ASSUME NEW c \in Call, NEW k \in Key, NEW force \in BOOLEAN, GetOrFetch(c, k, force)
      PROVE  Unbacked'
  <2>1. /\ call[c].phase = "new" /\ Others(c)
        /\ call'[c].key = k /\ call'[c].since = generation
        /\ \/ /\ call'[c].phase = "over" /\ call'[c].snapshot = cache[k] /\ cache[k] # None
           \/ call'[c].phase = "joined" /\ call'[c].request = inflight[k] /\ inflight[k] # None
           \/ call'[c].phase = "lookup" /\ backed
           \/ call'[c].phase = "fetching" /\ call'[c].started = generation
        /\ UNCHANGED <<backed, generation, cache>>
    BY <1>1, GetOrFetchChanges DEF StaysJoined, StartsFetch
  <2>2. inflight[k] # None =>
          /\ inflight[k] \in Call /\ call[inflight[k]].started = generation
          /\ call[inflight[k]].phase \in {"fetching", "persisting"}
    BY <1>0 DEF InflightIsCurrent, Unfinished
  <2> QED
    BY <1>0, <2>1, <2>2 DEF Unbacked
<1>2. ASSUME NEW c \in Call, Lookup(c) PROVE Unbacked'
  <2>1. call[c].phase = "lookup" /\ UNCHANGED backed
    BY <1>2, LookupChanges
  <2> QED
    BY <2>1 DEF Unbacked
<1>3. ASSUME RunOperation \/ EndOperation PROVE Unbacked'
  <2>1. operations # <<>> /\ UNCHANGED backed
    BY <1>3, RunChanges, EndOperationChanges
  <2>2. operations[1].by \in Call /\ call[operations[1].by].phase \in {"reading", "persisting"}
    BY <2>1, FirstOperation DEF Typed, TypeOK, OperationsMatch
  <2> QED
    BY <2>1, <2>2 DEF Unbacked
<1>4. ASSUME NEW c \in Call, EndFetch(c) PROVE Unbacked'
  <2>1. /\ call[c].phase = "fetching" /\ Others(c) /\ Same(c)
        /\ call'[c].snapshot # None /\ call'[c].snapshot.made = call[c].started
        /\ call'[c].phase = "over" \/ backed
        /\ \A j \in Key :
             \/ cache'[j] = cache[j] \/ cache'[j] = None
             \/ cache'[j] = call'[c].snapshot /\ call[c].started = generation
        /\ UNCHANGED <<backed, generation>>
    BY <1>4, EndFetchChanges
  <2> QED
    BY <1>0, <2>1 DEF Unbacked
<1>5. ASSUME NEW c \in Call, Served(c) PROVE Unbacked'
  <2>1. /\ call[c].phase = "joined" /\ call[call[c].request].phase = "over"
        /\ call'[c].phase = "over" /\ call'[c].snapshot = call[call[c].request].snapshot
        /\ Others(c) /\ Same(c) /\ UNCHANGED <<backed, generation, cache>>
    BY <1>5, ServedChanges
  <2> QED
    BY <1>0, <2>1 DEF Unbacked
<1>6. ASSUME Clear PROVE Unbacked'
  BY <1>6 DEF Clear, Unbacked
<1>7. CASE UNCHANGED vars
  BY <1>7 DEF vars, Unbacked
<1> QED
  BY <1>1, <1>2, <1>3, <1>4, <1>5, <1>6, <1>7 DEF Next, Progress

LEMMA ServiceInvStep == ServiceInv /\ [Next]_vars => ServiceInv'
<1> SUFFICES ASSUME ServiceInv, [Next]_vars PROVE ServiceInv'
  OBVIOUS
<1> USE DEF ServiceInv
<1>1. Typed' /\ Unbacked'
  BY TypedStep, UnbackedStep DEF Flights
<1>2. Flights /\ \A c \in Call : call'[c].since \in 0..MaxClears
  <2>1. \A c \in Call : call'[c] \in CallRecord
    BY <1>1 DEF Typed, TypeOK
  <2> QED
    BY <2>1, Fields DEF Flights, CallRecord
<1> SUFFICES OperationsMatch' /\ JoinedKnowsRequest' /\ Flights'
  BY <1>1 DEF Flights
<1>3. ASSUME NEW c \in Call, NEW k \in Key, NEW force \in BOOLEAN, GetOrFetch(c, k, force)
      PROVE  OperationsMatch' /\ JoinedKnowsRequest' /\ Flights'
  <2>1. OperationsMatch'
    BY <1>3, GetOrFetchChanges, QueueSteps
  <2>2. JoinedKnowsRequest'
    BY <1>3, GetOrFetchChanges DEF JoinedKnowsRequest, Others, StaysJoined, StartsFetch
  <2>3. Flights'
    <3>1. call'[c].since <= generation
      BY <1>3, GetOrFetchChanges, ServiceAssumption DEF Typed, TypeOK, ServiceAssumption
    <3> QED
      BY <1>1, <1>2, <1>3, <3>1, GetOrFetchChanges, FlightSteps DEF Unfinished, StaysJoined
  <2> QED
    BY <2>1, <2>2, <2>3
<1>4. ASSUME NEW c \in Call, Lookup(c)
      PROVE  OperationsMatch' /\ JoinedKnowsRequest' /\ Flights'
  <2>1. OperationsMatch'
    BY <1>4, LookupChanges, QueueSteps
  <2>2. JoinedKnowsRequest'
    BY <1>4, LookupChanges DEF JoinedKnowsRequest, Others
  <2>3. Flights'
    BY <1>1, <1>2, <1>4, LookupChanges, FlightSteps DEF Unfinished, Same, NothingAhead
  <2> QED
    BY <2>1, <2>2, <2>3
<1>5. ASSUME RunOperation PROVE OperationsMatch' /\ JoinedKnowsRequest' /\ Flights'
  <2> USE <1>5, RunChanges DEF Same
  <2>1. \A i \in 1..Len(operations) : operations[i].by \in Call
    <3>1. \A i \in 1..Len(operations) : operations[i] \in Operation
      BY DEF Typed, TypeOK
    <3> QED
      BY <3>1 DEF Operation
  <2>2. OperationsMatch'
    BY <2>1 DEF OperationsMatch
  <2>3. JoinedKnowsRequest'
    BY DEF JoinedKnowsRequest
  <2>4. Flights'
    BY DEF Flights, NothingAhead, InflightIsCurrent, OneFetchPerKey, Unfinished
  <2> QED
    BY <2>2, <2>3, <2>4
<1>6. ASSUME EndOperation PROVE OperationsMatch' /\ JoinedKnowsRequest' /\ Flights'
  <2>1. PICK c \in Call : c = operations[1].by
    BY <1>6, EndOperationChanges
  <2>2. Others(c) /\ call'[c].since = call[c].since /\ UNCHANGED generation
    BY <1>6, <2>1, EndOperationChanges
  <2>3. OperationsMatch'
    BY <1>6, <2>1, <2>2, EndOperationChanges, QueueSteps
  <2>4. JoinedKnowsRequest'
    BY <1>6, <2>1, <2>2, EndOperationChanges
       DEF JoinedKnowsRequest, Others, StaysJoined, StartsFetch
  <2>5. call'[c].since <= generation
    BY <2>2 DEF NothingAhead
  <2>6. \/ /\ call[c].phase = "reading"
           /\ \/ call'[c].phase = "over" /\ Same(c) /\ UNCHANGED inflight
              \/ StaysJoined(c) /\ Same(c)
              \/ StartsFetch(c)
        \/ /\ call[c].phase = "persisting"
           /\ call'[c].phase = "over" /\ Same(c) /\ LeaveFlight(c)
    BY <1>6, <2>1, EndOperationChanges
  <2>7. \/ /\ ~Unfinished(c) /\ ~Unfinished(c)' /\ UNCHANGED inflight
           /\ call'[c].started = call[c].started
        \/ ~Unfinished(c) /\ StartsFetch(c)
        \/ Unfinished(c) /\ Same(c) /\ call'[c].phase = "over" /\ LeaveFlight(c)
    BY <2>6 DEF Unfinished, StaysJoined, Same
  <2>8. Flights'
    BY <1>1, <1>2, <2>2, <2>5, <2>7, FlightSteps
  <2> QED
    BY <2>3, <2>4, <2>8
<1>7. ASSUME NEW c \in Call, EndFetch(c)
      PROVE  OperationsMatch' /\ JoinedKnowsRequest' /\ Flights'
  <2>1. OperationsMatch'
    BY <1>7, EndFetchChanges, QueueSteps
  <2>2. JoinedKnowsRequest'
    BY <1>7, EndFetchChanges DEF JoinedKnowsRequest, Others
  <2>3. Flights'
    BY <1>1, <1>2, <1>7, EndFetchChanges, FlightSteps DEF Unfinished, Same, NothingAhead, Flights
  <2> QED
    BY <2>1, <2>2, <2>3
<1>8. ASSUME NEW c \in Call, Served(c)
      PROVE  OperationsMatch' /\ JoinedKnowsRequest' /\ Flights'
  <2>1. OperationsMatch'
    BY <1>8, ServedChanges, QueueSteps
  <2>2. JoinedKnowsRequest'
    BY <1>8, ServedChanges DEF JoinedKnowsRequest, Others
  <2>3. Flights'
    BY <1>1, <1>2, <1>8, ServedChanges, FlightSteps DEF Unfinished, Same, NothingAhead, Flights
  <2> QED
    BY <2>1, <2>2, <2>3
<1>9. ASSUME Clear PROVE OperationsMatch' /\ JoinedKnowsRequest' /\ Flights'
  <2>1. OperationsMatch' /\ JoinedKnowsRequest'
    BY <1>9 DEF Clear, OperationsMatch, JoinedKnowsRequest
  <2>2. /\ generation' = generation + 1 /\ generation \in Nat
        /\ \A c \in Call : call[c].started \in Nat /\ call[c].since \in Nat
    BY <1>9, Fields, ServiceAssumption DEF Clear, Typed, TypeOK, ServiceAssumption
  <2>3. NothingAhead'
    BY <1>9, <2>2 DEF Clear, NothingAhead
  <2>4. InflightIsCurrent' /\ OneFetchPerKey'
    BY <1>9, <2>2, ServiceAssumption
       DEF Clear, InflightIsCurrent, OneFetchPerKey, NothingAhead, ServiceAssumption, Unfinished
  <2> QED
    BY <2>1, <2>3, <2>4 DEF Flights
<1>10. CASE UNCHANGED vars
  BY <1>10 DEF vars, OperationsMatch, JoinedKnowsRequest, Flights, NothingAhead, InflightIsCurrent,
     OneFetchPerKey, Unfinished
<1> HIDE DEF ServiceInv
<1> QED
  BY <1>3, <1>4, <1>5, <1>6, <1>7, <1>8, <1>9, <1>10 DEF Next, Progress

LEMMA ServiceInvAlways == Spec => []ServiceInv
BY ServiceInvInit, ServiceInvStep, PTL DEF Spec

\* The service's state keeps its types, and the runtime cache its size
\* (service.ts:132-144).
THEOREM TypeCorrect == Spec => []TypeOK
<1>1. ServiceInv => TypeOK
  BY DEF ServiceInv, Typed
<1> QED
  BY <1>1, ServiceInvAlways, PTL

\* One fetch serves all who ask for a key between two clears, whatever their
\* number and order (service.ts:81-92).
THEOREM SharedFetch == Spec => []OneFetchPerKey
<1>1. ServiceInv => OneFetchPerKey
  BY DEF ServiceInv
<1> QED
  BY <1>1, ServiceInvAlways, PTL

\* A fetch in flight for the present credentials can be joined, and only such a
\* fetch can (service.ts:104-109, 117).
THEOREM CurrentFlights == Spec => []InflightIsCurrent
<1>1. ServiceInv => InflightIsCurrent
  BY DEF ServiceInv
<1> QED
  BY <1>1, ServiceInvAlways, PTL

\* Without a persistent cache nothing from before a clear is served after it
\* (service.ts:96, 113-117).
THEOREM ClearForgets == Spec => []FetchesDoNotOutliveClear
<1>1. ServiceInv => FetchesDoNotOutliveClear
  BY DEF ServiceInv, Unbacked, FetchesDoNotOutliveClear, ServedIsCurrent
<1> QED
  BY <1>1, ServiceInvAlways, PTL

-----------------------------------------------------------------------------
(* The gate. *)

\* What a component counts is what the theorems about finite sets count.
LEMMA GateCardinality == \A S : Gate!Cardinality(S) = Cardinality(S)
  BY Zenon DEF Gate!Cardinality, Cardinality

GateTyped == Gate!GateTypeOK /\ started \in Seq(0..MaxTime) /\ advertised \subseteq Nat \X Nat

\* The gate remembers the last of the starts; those it has dropped have left the
\* window, and none lies ahead of the clock.
LastStarts ==
  LET dropped == Len(started) - Len(startedAt) IN
  /\ dropped >= 0
  /\ \A i \in 1..Len(startedAt) : startedAt[i] = started[dropped + i]
  /\ \A i \in 1..dropped : ~Gate!Fresh(started[i])
  /\ \A i \in 1..Len(startedAt) : startedAt[i] <= now

\* A quota the gate goes by is one a single response advertised.
QuotaIsAdvertised == hasObservedQuota => <<rateLimit, rateResetAt>> \in advertised

Waiting == {t \in Task : phase[t] = "waiting"}

\* Nobody waits twice.
Slots ==
  /\ Gate!SlotsMatchTasks /\ IsFiniteSet(Gate!InUse)
  /\ \A i, j \in 1..Len(waiters) : waiters[i] = waiters[j] => i = j

Cooldowns == Gate!CooldownIsCurrent /\ Gate!CooldownWithinWindow

-----------------------------------------------------------------------------
(* The starts that are kept. *)

LEMMA LeastElement ==
  ASSUME NEW S \in SUBSET Nat, S # {}
  PROVE  \E m \in S : \A n \in S : m <= n
<1> DEFINE R == OpToRel(<, Nat)
<1>1. IsWellFoundedOn(R, Nat)
  BY NatLessThanWellFounded
<1>2. \A x, y \in Nat : <<x, y>> \in R <=> x < y
  BY DEF OpToRel
<1> HIDE DEF R
<1>3. PICK m \in S : \A n \in S : ~(<<n, m>> \in R)
  BY <1>1, WFMin
<1>4. ASSUME NEW n \in S PROVE m <= n
  <2>1. ~(n < m)
    BY <1>2, <1>3
  <2> QED
    BY <2>1
<1> QED
  BY <1>4

LEMMA FirstFreshExists ==
  ASSUME GateTyped
  PROVE  /\ Gate!FirstFresh \in 1..(Len(startedAt) + 1)
         /\ \A j \in 1..(Gate!FirstFresh - 1) : ~Gate!Fresh(startedAt[j])
         /\ Gate!FirstFresh <= Len(startedAt) => Gate!Fresh(startedAt[Gate!FirstFresh])
<1> DEFINE n == Len(startedAt)
           fresh == {i \in 1..n : Gate!Fresh(startedAt[i])}
           IsFirst(i) == /\ \A j \in 1..(i - 1) : ~Gate!Fresh(startedAt[j])
                         /\ i <= n => Gate!Fresh(startedAt[i])
<1>1. n \in Nat
  BY DEF GateTyped, Gate!GateTypeOK
<1>2. \E i \in 1..(n + 1) : IsFirst(i)
  <2>1. CASE fresh = {}
    <3>1. IsFirst(n + 1)
      BY <1>1, <2>1
    <3> QED
      BY <1>1, <3>1
  <2>2. CASE fresh # {}
    <3>1. PICK m \in fresh : \A i \in fresh : m <= i
      <4>1. fresh \in SUBSET Nat
        BY <1>1
      <4> HIDE DEF fresh
      <4> QED
        BY <2>2, <4>1, LeastElement
    <3>2. m \in 1..(n + 1) /\ \A j \in 1..(m - 1) : j \notin fresh /\ j \in 1..n
      BY <1>1, <3>1
    <3>3. IsFirst(m)
      BY <3>1, <3>2
    <3> QED
      BY <3>2, <3>3
  <2> QED
    BY <2>1, <2>2
<1>3. Gate!FirstFresh = CHOOSE i \in 1..(n + 1) : IsFirst(i)
  BY Zenon DEF Gate!FirstFresh
<1> QED
  BY <1>2, <1>3

\* What pruning keeps is the end of what there was, and begins in the window.
LEMMA PrunedIsEnd ==
  ASSUME GateTyped
  PROVE  /\ Gate!Pruned \in Seq(0..MaxTime)
         /\ Len(Gate!Pruned) = Len(startedAt) - (Gate!FirstFresh - 1)
         /\ \A i \in 1..Len(Gate!Pruned) : Gate!Pruned[i] = startedAt[Gate!FirstFresh - 1 + i]
         /\ Len(Gate!Pruned) > 0 => Gate!Fresh(Gate!Pruned[1])
<1>1. startedAt \in Seq(0..MaxTime) /\ Len(startedAt) \in Nat
  BY DEF GateTyped, Gate!GateTypeOK
<1>2. Gate!FirstFresh \in 1..(Len(startedAt) + 1)
  BY FirstFreshExists
<1>3. /\ Gate!Pruned \in Seq(0..MaxTime)
      /\ Len(Gate!Pruned) = Len(startedAt) - (Gate!FirstFresh - 1)
      /\ \A i \in 1..Len(Gate!Pruned) : Gate!Pruned[i] = startedAt[Gate!FirstFresh - 1 + i]
  <2>1. ASSUME NEW i \in Gate!FirstFresh..Len(startedAt) PROVE startedAt[i] \in 0..MaxTime
    <3>1. i \in 1..Len(startedAt)
      BY <1>1, <1>2
    <3> QED
      BY <1>1, <3>1, ElementOfSeq
  <2>2. /\ Gate!Pruned \in Seq(0..MaxTime)
        /\ Len(Gate!Pruned) = IF Gate!FirstFresh <= Len(startedAt) THEN Len(startedAt) - Gate!FirstFresh + 1
                                 ELSE 0
        /\ \A i \in 1..(Len(startedAt) - Gate!FirstFresh + 1) :
             Gate!Pruned[i] = startedAt[Gate!FirstFresh + i - 1]
    BY <1>1, <1>2, <2>1, SubSeqProperties DEF Gate!Pruned
  <2>3. Len(Gate!Pruned) = Len(startedAt) - Gate!FirstFresh + 1
    BY <1>1, <1>2, <2>2
  <2>4. ASSUME NEW i \in 1..Len(Gate!Pruned)
        PROVE  Gate!Pruned[i] = startedAt[Gate!FirstFresh - 1 + i]
    <3>1. i \in Int /\ Gate!FirstFresh + i - 1 = Gate!FirstFresh - 1 + i
      BY <1>2
    <3> QED
      BY <2>2, <2>3, <3>1
  <2> QED
    BY <1>1, <1>2, <2>2, <2>3, <2>4
<1>4. ASSUME Len(Gate!Pruned) > 0 PROVE Gate!Fresh(Gate!Pruned[1])
  <2>1. Gate!FirstFresh <= Len(startedAt) /\ Gate!Pruned[1] = startedAt[Gate!FirstFresh]
    BY <1>1, <1>2, <1>3, <1>4
  <2> QED
    BY <2>1, FirstFreshExists
<1> QED
  BY <1>3, <1>4

\* Pruned starts, and one more of now, are still the last of the starts.
LEMMA PrunedIsLast ==
  ASSUME GateTyped, LastStarts
  PROVE  LET dropped == Len(started) - Len(Gate!Pruned) IN
         /\ dropped \in Nat
         /\ \A i \in 1..Len(Gate!Pruned) :
              Gate!Pruned[i] = started[dropped + i] /\ Gate!Pruned[i] <= now
         /\ \A i \in 1..dropped : ~Gate!Fresh(started[i])
<1> DEFINE n == Len(startedAt)
           was == Len(started) - n
           k == Gate!FirstFresh - 1
<1>1. n \in Nat /\ Len(started) \in Nat /\ was \in Nat
  BY DEF GateTyped, Gate!GateTypeOK, LastStarts
<1>2. k \in 0..n /\ \A j \in 1..k : ~Gate!Fresh(startedAt[j])
  BY <1>1, FirstFreshExists
<1>3. Len(Gate!Pruned) = n - k /\ \A i \in 1..(n - k) : Gate!Pruned[i] = startedAt[k + i]
  BY PrunedIsEnd
<1>4. /\ \A i \in 1..n : startedAt[i] = started[was + i] /\ startedAt[i] <= now
      /\ \A i \in 1..was : ~Gate!Fresh(started[i])
  BY DEF LastStarts
<1> HIDE DEF n, k, was
<1>5. Len(started) = was + n
  BY <1>1 DEF was
<1>6. ASSUME NEW i \in 1..(n - k)
      PROVE  Gate!Pruned[i] = started[was + k + i] /\ Gate!Pruned[i] <= now
  <2>1. k + i \in 1..n
    BY <1>1, <1>2
  <2>2. was + (k + i) = was + k + i
    BY <1>1, <1>2
  <2> QED
    BY <1>3, <1>4, <2>1, <2>2
<1>7. ASSUME NEW i \in 1..(was + k) PROVE ~Gate!Fresh(started[i])
  <2>1. CASE i <= was
    BY <1>1, <1>2, <1>4, <2>1
  <2>2. CASE i > was
    <3>1. i - was \in 1..k /\ i - was \in 1..n /\ was + (i - was) = i
      BY <1>1, <1>2, <2>2
    <3> QED
      BY <1>2, <1>4, <3>1
  <2> QED
    BY <1>1, <1>2, <2>1, <2>2
<1>8. Len(started) - Len(Gate!Pruned) = was + k /\ was + k \in Nat
  BY <1>1, <1>2, <1>3, <1>5
<1> QED
  BY <1>3, <1>6, <1>7, <1>8

-----------------------------------------------------------------------------
(* The slots. *)

\* A slot that is given up goes to the first waiter, or is free again.
LEMMA ReleaseKeepsSlots ==
  ASSUME GateTyped, Slots, NEW t \in Gate!InUse, Gate!Release(t)
  PROVE  /\ phase' \in [Task -> Gate!Phase] /\ active' \in 0..Limit /\ waiters' \in Seq(Task)
         /\ Slots'
<1> USE GateAssumption DEF GateAssumption
<1>1. /\ phase \in [Task -> Gate!Phase] /\ active \in 0..Limit /\ waiters \in Seq(Task)
      /\ Len(waiters) \in Nat
  BY DEF GateTyped, Gate!GateTypeOK
<1>2. t \in Task /\ phase[t] # "waiting"
  BY DEF Gate!InUse
<1>3. /\ active = Cardinality(Gate!InUse) /\ IsFiniteSet(Gate!InUse)
      /\ {waiters[i] : i \in 1..Len(waiters)} = Waiting
      /\ waiters # <<>> => active = Limit
      /\ \A i, j \in 1..Len(waiters) : waiters[i] = waiters[j] => i = j
  BY GateCardinality DEF Slots, Gate!SlotsMatchTasks, Waiting
<1>4. ASSUME active' = Cardinality(Gate!InUse'), IsFiniteSet(Gate!InUse'),
             {waiters'[i] : i \in 1..Len(waiters')} = Waiting',
             waiters' # <<>> => active' = Limit,
             \A i, j \in 1..Len(waiters') : waiters'[i] = waiters'[j] => i = j
      PROVE  Slots'
  BY <1>4, Zenon, GateCardinality DEF Slots, Gate!SlotsMatchTasks, Waiting
<1>5. CASE waiters = <<>>
  <2>1. phase' = [phase EXCEPT ![t] = "over"] /\ active' = active - 1 /\ waiters' = waiters
    BY <1>5 DEF Gate!Release
  <2>2. Gate!InUse' = Gate!InUse \ {t} /\ Waiting' = Waiting
    BY <1>1, <1>2, <2>1 DEF Gate!InUse, Waiting
  <2>3. IsFiniteSet(Gate!InUse') /\ Cardinality(Gate!InUse') = Cardinality(Gate!InUse) - 1
    BY <1>3, <2>2, FS_RemoveElement
  <2>4. active' \in 0..Limit
    <3>1. Cardinality(Gate!InUse') \in Nat
      BY <2>3, FS_CardinalityType
    <3> QED
      BY <1>1, <1>3, <2>1, <2>3, <3>1
  <2>5. phase' \in [Task -> Gate!Phase]
    BY <1>1, <2>1 DEF Gate!Phase
  <2>6. Slots'
    BY <1>3, <1>4, <1>5, <2>1, <2>2, <2>3
  <2> QED
    BY <1>1, <2>1, <2>4, <2>5, <2>6
<1>6. CASE waiters # <<>>
  <2> DEFINE w == Head(waiters)
  <2>1. /\ phase' = [phase EXCEPT ![t] = "over", ![w] = "admitted"]
        /\ waiters' = Tail(waiters) /\ active' = active
    BY <1>6 DEF Gate!Release
  <2>2. /\ w = waiters[1] /\ w \in Task /\ 1 \in 1..Len(waiters)
        /\ waiters' \in Seq(Task) /\ Len(waiters') = Len(waiters) - 1
        /\ \A i \in 1..Len(waiters') : waiters'[i] = waiters[i + 1]
    <3>1. /\ Head(waiters) \in Task /\ Tail(waiters) \in Seq(Task)
          /\ Len(Tail(waiters)) = Len(waiters) - 1
          /\ \A i \in 1..Len(Tail(waiters)) : Tail(waiters)[i] = waiters[i + 1]
      BY <1>1, <1>6, HeadTailProperties
    <3>2. Head(waiters) = waiters[1] /\ 1 \in 1..Len(waiters)
      BY <1>1, <1>6
    <3> QED
      BY <2>1, <3>1, <3>2
  <2> HIDE DEF w
  <2>3. w \in Waiting /\ w # t /\ w \notin Gate!InUse
    BY <1>2, <1>3, <2>2 DEF Waiting, Gate!InUse
  <2>4. Gate!InUse' = (Gate!InUse \ {t}) \cup {w} /\ Waiting' = Waiting \ {w}
    BY <1>1, <1>2, <2>1, <2>2, <2>3 DEF Gate!InUse, Waiting
  <2>5. IsFiniteSet(Gate!InUse') /\ Cardinality(Gate!InUse') = Cardinality(Gate!InUse)
    <3>1. /\ IsFiniteSet(Gate!InUse \ {t})
          /\ Cardinality(Gate!InUse \ {t}) = Cardinality(Gate!InUse) - 1
      BY <1>3, FS_RemoveElement
    <3>2. w \notin Gate!InUse \ {t}
      BY <2>3
    <3>3. /\ IsFiniteSet((Gate!InUse \ {t}) \cup {w})
          /\ Cardinality((Gate!InUse \ {t}) \cup {w}) = Cardinality(Gate!InUse \ {t}) + 1
      BY <3>1, <3>2, FS_AddElement
    <3> QED
      BY <1>1, <1>3, <2>4, <3>1, <3>3
  <2>6. {waiters'[i] : i \in 1..Len(waiters')} = Waiting'
    <3>1. ASSUME NEW i \in 1..Len(waiters') PROVE waiters'[i] \in Waiting \ {w}
      <4>1. i + 1 \in 1..Len(waiters) /\ i + 1 # 1 /\ waiters'[i] = waiters[i + 1]
        BY <1>1, <2>2
      <4> QED
        BY <1>3, <2>2, <4>1
    <3>2. ASSUME NEW u \in Waiting \ {w} PROVE \E i \in 1..Len(waiters') : u = waiters'[i]
      <4>1. PICK i \in 1..Len(waiters) : u = waiters[i]
        BY <1>3
      <4>2. i # 1
        BY <2>2, <4>1
      <4>3. i - 1 \in 1..Len(waiters') /\ waiters'[i - 1] = waiters[i]
        BY <1>1, <2>2, <4>1, <4>2
      <4> QED
        BY <4>1, <4>3
    <3> QED
      BY <2>4, <3>1, <3>2
  <2>7. \A i, j \in 1..Len(waiters') : waiters'[i] = waiters'[j] => i = j
    <3> SUFFICES ASSUME NEW i \in 1..Len(waiters'), NEW j \in 1..Len(waiters'),
                        waiters'[i] = waiters'[j]
                 PROVE  i = j
      OBVIOUS
    <3>1. i + 1 \in 1..Len(waiters) /\ j + 1 \in 1..Len(waiters)
      BY <1>1, <2>2
    <3>2. waiters[i + 1] = waiters[j + 1]
      BY <2>2
    <3>3. i + 1 = j + 1
      BY <1>3, <3>1, <3>2
    <3> QED
      BY <3>3
  <2>8. phase' \in [Task -> Gate!Phase]
    BY <1>1, <2>1 DEF Gate!Phase
  <2>9. Slots'
    BY <1>3, <1>4, <1>6, <2>1, <2>5, <2>6, <2>7
  <2> QED
    BY <1>1, <2>1, <2>2, <2>8, <2>9
<1> QED
  BY <1>5, <1>6

\* A request that enters takes a free slot, waits for one, or is turned away.
LEMMA EnterKeepsSlots ==
  ASSUME GateTyped, Slots, NEW t \in Task, Gate!Enter(t)
  PROVE  /\ phase' \in [Task -> Gate!Phase] /\ active' \in 0..Limit /\ waiters' \in Seq(Task)
         /\ Slots'
<1> USE GateAssumption DEF GateAssumption
<1>1. /\ phase \in [Task -> Gate!Phase] /\ active \in 0..Limit /\ waiters \in Seq(Task)
      /\ Len(waiters) \in Nat
  BY DEF GateTyped, Gate!GateTypeOK
<1>2. phase[t] = "new" /\ t \notin Gate!InUse /\ t \notin Waiting
  BY DEF Gate!Enter, Gate!InUse, Waiting
<1>3. /\ active = Cardinality(Gate!InUse) /\ IsFiniteSet(Gate!InUse)
      /\ {waiters[i] : i \in 1..Len(waiters)} = Waiting
      /\ waiters # <<>> => active = Limit
      /\ \A i, j \in 1..Len(waiters) : waiters[i] = waiters[j] => i = j
  BY GateCardinality DEF Slots, Gate!SlotsMatchTasks, Waiting
<1>4. ASSUME active' = Cardinality(Gate!InUse'), IsFiniteSet(Gate!InUse'),
             {waiters'[i] : i \in 1..Len(waiters')} = Waiting',
             waiters' # <<>> => active' = Limit,
             \A i, j \in 1..Len(waiters') : waiters'[i] = waiters'[j] => i = j
      PROVE  Slots'
  BY <1>4, Zenon, GateCardinality DEF Slots, Gate!SlotsMatchTasks, Waiting
<1>5. CASE phase' = [phase EXCEPT ![t] = "over"] /\ UNCHANGED <<active, waiters>>
  <2>1. Gate!InUse' = Gate!InUse /\ Waiting' = Waiting
    BY <1>1, <1>2, <1>5 DEF Gate!InUse, Waiting
  <2>2. phase' \in [Task -> Gate!Phase]
    BY <1>1, <1>5 DEF Gate!Phase
  <2>3. Slots'
    BY <1>3, <1>4, <1>5, <2>1
  <2> QED
    BY <1>1, <1>5, <2>2, <2>3
<1>6. CASE /\ active < Limit /\ active' = active + 1
           /\ phase' = [phase EXCEPT ![t] = "admitted"] /\ UNCHANGED waiters
  <2>1. Gate!InUse' = Gate!InUse \cup {t} /\ Waiting' = Waiting
    BY <1>1, <1>2, <1>6 DEF Gate!InUse, Waiting
  <2>2. phase' \in [Task -> Gate!Phase]
    BY <1>1, <1>6 DEF Gate!Phase
  <2>3. IsFiniteSet(Gate!InUse') /\ Cardinality(Gate!InUse') = Cardinality(Gate!InUse) + 1
    BY <1>2, <1>3, <2>1, FS_AddElement
  <2>4. waiters = <<>>
    BY <1>1, <1>3, <1>6
  <2>5. Slots'
    BY <1>3, <1>4, <1>6, <2>1, <2>3, <2>4
  <2> QED
    BY <1>1, <1>6, <2>2, <2>5
<1>7. CASE /\ active = Limit /\ waiters' = Append(waiters, t)
           /\ phase' = [phase EXCEPT ![t] = "waiting"] /\ UNCHANGED active
  <2>1. Gate!InUse' = Gate!InUse /\ Waiting' = Waiting \cup {t}
    BY <1>1, <1>2, <1>7 DEF Gate!InUse, Waiting
  <2>2. phase' \in [Task -> Gate!Phase]
    BY <1>1, <1>7 DEF Gate!Phase
  <2>3. /\ waiters' \in Seq(Task) /\ Len(waiters') = Len(waiters) + 1
        /\ \A i \in 1..Len(waiters) : waiters'[i] = waiters[i]
        /\ waiters'[Len(waiters) + 1] = t
    BY <1>1, <1>7, AppendProperties
  <2>4. {waiters'[i] : i \in 1..Len(waiters')} = Waiting'
    <3>1. ASSUME NEW i \in 1..Len(waiters') PROVE waiters'[i] \in Waiting \cup {t}
      BY <1>1, <1>3, <2>3
    <3>2. ASSUME NEW u \in Waiting \cup {t} PROVE \E i \in 1..Len(waiters') : u = waiters'[i]
      <4>1. CASE u = t
        BY <1>1, <2>3, <4>1
      <4>2. CASE u \in Waiting
        <5>1. PICK i \in 1..Len(waiters) : u = waiters[i]
          BY <1>3, <4>2
        <5> QED
          BY <1>1, <2>3, <5>1
      <4> QED
        BY <4>1, <4>2
    <3> QED
      BY <2>1, <3>1, <3>2
  <2>5. \A i, j \in 1..Len(waiters') : waiters'[i] = waiters'[j] => i = j
    <3>1. \A i \in 1..Len(waiters) : waiters[i] # t
      BY <1>2, <1>3
    <3> QED
      BY <1>1, <1>3, <2>3, <3>1
  <2>6. Slots'
    BY <1>3, <1>4, <1>7, <2>1, <2>4, <2>5
  <2> QED
    BY <1>1, <1>7, <2>2, <2>3, <2>6
<1>8. \/ phase' = [phase EXCEPT ![t] = "over"] /\ UNCHANGED <<active, waiters>>
      \/ /\ active < Limit /\ active' = active + 1
         /\ phase' = [phase EXCEPT ![t] = "admitted"] /\ UNCHANGED waiters
      \/ /\ active = Limit /\ waiters' = Append(waiters, t)
         /\ phase' = [phase EXCEPT ![t] = "waiting"] /\ UNCHANGED active
  BY DEF Gate!Enter
<1> QED
  BY <1>5, <1>6, <1>7, <1>8

\* A request whose slot stays in use disturbs no other.
LEMMA SlotsOfSameUse ==
  ASSUME Slots, Gate!InUse' = Gate!InUse, Waiting' = Waiting, UNCHANGED <<active, waiters>>
  PROVE  Slots'
<1>1. Len(waiters') = Len(waiters) /\ \A i \in 1..Len(waiters) : waiters'[i] = waiters[i]
  OBVIOUS
<1>2. {waiters'[i] : i \in 1..Len(waiters')} = {waiters[i] : i \in 1..Len(waiters)}
  OBVIOUS
<1> QED
  BY <1>1, <1>2 DEF Slots, Gate!SlotsMatchTasks, Waiting

-----------------------------------------------------------------------------
(* The cooldown and the quota. *)

\* All a step does to the cooldown: the present generation extends it, by a window at most.
CooldownStep ==
  \/ UNCHANGED Gate!cooldownVars
  \/ \E until \in 0..(now + Window) : Gate!CoolDown(until, gateGeneration)

Quota ==
  /\ rateLimit \in Nat /\ rateRemaining \in Nat \cup {Absent} /\ rateResetAt \in Nat
  /\ hasObservedQuota \in BOOLEAN /\ advertised \subseteq Nat \X Nat
  /\ QuotaIsAdvertised

LEMMA Clock ==
  ASSUME GateTyped
  PROVE  now \in Nat /\ Window \in Nat \ {0} /\ Fallback \in Nat \ {0} /\ cooldownUntil \in Nat
BY GateAssumption DEF GateAssumption, GateTyped, Gate!GateTypeOK

LEMMA ClampBound ==
  ASSUME GateTyped, NEW instant \in Nat
  PROVE  Gate!clampCooldown(instant) \in 0..(now + Window)
BY Clock DEF Gate!clampCooldown, Gate!Smaller

LEMMA ReadBound ==
  ASSUME GateTyped, NEW r \in Gate!Answer
  PROVE  Gate!readCooldownUntil(r) \in 0..(now + Window)
<1>1. now + r.retry \in Nat /\ r.reset \in Nat
  BY Clock DEF Gate!Answer
<1>2. /\ Gate!clampCooldown(now + r.retry) \in 0..(now + Window)
      /\ Gate!clampCooldown(r.reset) \in 0..(now + Window)
  BY <1>1, ClampBound
<1>3. now + Pause \in 0..(now + Window) /\ 0 \in 0..(now + Window)
  BY Clock, GateAssumption DEF GateAssumption
<1> QED
  BY <1>2, <1>3, Zenon DEF Gate!readCooldownUntil

LEMMA BlockedStep ==
  ASSUME GateTyped, LastStarts, Gate!Blocked, Gate!BlockedCooldown
  PROVE  CooldownStep
<1>1. CASE now < cooldownUntil
  BY <1>1 DEF Gate!BlockedCooldown, CooldownStep
<1>2. CASE ~(now < cooldownUntil)
  <2>1. Len(Gate!Pruned) >= Gate!automaticRequestCeiling
    BY <1>2 DEF Gate!Blocked
  <2>2. Gate!automaticRequestCeiling >= Fallback
    <3>1. rateLimit \in Nat /\ Ceiling \in Nat
      BY GateAssumption DEF GateAssumption, GateTyped, Gate!GateTypeOK
    <3> QED
      BY <3>1, Clock DEF Gate!automaticRequestCeiling, Gate!Larger, Gate!Smaller
  <2>3. 1 \in 1..Len(Gate!Pruned)
    <3>1. rateLimit \in Nat /\ Ceiling \in Nat
      BY GateAssumption DEF GateAssumption, GateTyped, Gate!GateTypeOK
    <3>2. Gate!automaticRequestCeiling \in Nat
      BY <3>1, Clock DEF Gate!automaticRequestCeiling, Gate!Larger, Gate!Smaller
    <3>3. Len(Gate!Pruned) \in Nat
      BY PrunedIsEnd
    <3> QED
      BY <2>1, <2>2, <3>2, <3>3, Clock
  <2>4. Gate!Pruned[1] <= now /\ Gate!Pruned[1] \in Nat
    <3>1. Gate!Pruned[1] <= now
      BY <2>3, PrunedIsLast
    <3>2. Gate!Pruned[1] \in 0..MaxTime
      BY <2>3, PrunedIsEnd, ElementOfSeq
    <3> QED
      BY <3>1, <3>2, GateAssumption DEF GateAssumption
  <2>5. Gate!Pruned[1] + Window \in 0..(now + Window)
    BY <2>4, Clock
  <2>6. Gate!CoolDown(Gate!Pruned[1] + Window, gateGeneration)
    BY <1>2 DEF Gate!BlockedCooldown
  <2> QED
    BY <2>5, <2>6 DEF CooldownStep
<1> QED
  BY <1>1, <1>2

\* A quota a response shows whole is stored as that response shows it.
LEMMA ObservedQuota ==
  ASSUME GateTyped, NEW r \in Gate!Answer, Gate!Advertise(r),
         rateLimit' = IF r.limit # Absent THEN r.limit ELSE rateLimit,
         rateResetAt' = IF Gate!withinResetHorizon(r.reset) > 0 THEN r.reset ELSE rateResetAt,
         hasObservedQuota' = Gate!Usable(r)
  PROVE  /\ rateLimit' \in Nat /\ rateResetAt' \in Nat /\ hasObservedQuota' \in BOOLEAN
         /\ advertised' \subseteq Nat \X Nat /\ QuotaIsAdvertised'
<1>1. /\ r.limit \in Nat \cup {Absent} /\ r.reset \in Nat /\ now \in Nat
      /\ rateLimit \in Nat /\ rateResetAt \in Nat /\ advertised \subseteq Nat \X Nat
  BY DEF GateTyped, Gate!GateTypeOK, Gate!Answer
<1>2. Gate!Usable(r) \in BOOLEAN
  BY DEF Gate!Usable
<1>3. rateLimit' \in Nat /\ rateResetAt' \in Nat
  BY <1>1
<1>4. ASSUME Gate!Usable(r)
      PROVE  /\ rateLimit' = r.limit /\ rateResetAt' = r.reset
             /\ advertised' = advertised \cup {<<r.limit, r.reset>>}
  <2>1. r.limit # Absent /\ Gate!withinResetHorizon(r.reset) > now
    BY <1>4 DEF Gate!Usable
  <2>2. Gate!withinResetHorizon(r.reset) > 0
    BY <1>1, <2>1, GateAssumption DEF GateAssumption, Gate!withinResetHorizon
  <2> QED
    BY <1>4, <2>1, <2>2 DEF Gate!Advertise
<1>5. advertised' \subseteq Nat \X Nat
  <2>1. CASE Gate!Usable(r)
    BY <1>1, <1>3, <1>4, <2>1
  <2>2. CASE ~Gate!Usable(r)
    BY <1>1, <2>2 DEF Gate!Advertise
  <2> QED
    BY <2>1, <2>2
<1>6. QuotaIsAdvertised'
  BY <1>4 DEF QuotaIsAdvertised
<1> QED
  BY <1>2, <1>3, <1>5, <1>6

\* A response shown to the observer leaves a quota of its own, and cools the gate only for
\* the present generation.
LEMMA ObserveStep ==
  ASSUME GateTyped, Quota, NEW t \in Task, NEW r \in Gate!Answer, Gate!Observe(t, r)
  PROVE  CooldownStep /\ Quota'
<1>1. ASSUME UNCHANGED Gate!quotaVars PROVE Quota'
  BY <1>1 DEF Quota, Gate!quotaVars, QuotaIsAdvertised
<1>2. r.limit \in Nat \cup {Absent} /\ r.remaining \in Nat \cup {Absent} /\ r.reset \in Nat
  BY DEF Gate!Answer
<1>3. now + Window \in 0..(now + Window)
  BY Clock
<1>4. CASE Gate!Ignored(t, r)
  BY <1>1, <1>4 DEF Gate!Observe, CooldownStep
<1>5. CASE ~Gate!Ignored(t, r) /\ r.status = 429
  <2>1. Gate!CoolDown(Gate!readCooldownUntil(r), taskGeneration[t]) /\ UNCHANGED Gate!quotaVars
    BY <1>5 DEF Gate!Observe
  <2>2. taskGeneration[t] = gateGeneration
    BY <1>5 DEF Gate!Ignored
  <2> QED
    BY <1>1, <2>1, <2>2, ReadBound DEF CooldownStep
<1>6. CASE ~Gate!Ignored(t, r) /\ r.status # 429
  <2>1. taskGeneration[t] = gateGeneration
    BY <1>6 DEF Gate!Ignored
  <2>2. \/ Gate!ObserveGitHub(r) /\ Gate!Advertise(r)
        \/ Gate!ObserveGitLab(r) /\ Gate!Advertise(r)
        \/ Gate!CoolDown(now + Window, taskGeneration[t]) /\ UNCHANGED Gate!quotaVars
        \/ UNCHANGED <<Gate!quotaVars, Gate!cooldownVars>>
    BY <1>6 DEF Gate!Observe
  <2>3. CASE Gate!ObserveGitHub(r) /\ Gate!Advertise(r)
    <3>1. /\ rateLimit' \in Nat /\ rateResetAt' \in Nat /\ hasObservedQuota' \in BOOLEAN
          /\ advertised' \subseteq Nat \X Nat /\ QuotaIsAdvertised'
      BY <2>3, ObservedQuota DEF Gate!ObserveGitHub
    <3>2. rateRemaining' \in Nat \cup {Absent}
      BY <1>2, <2>3 DEF Gate!ObserveGitHub, Quota
    <3>3. CooldownStep
      <4>1. \/ Gate!CoolDown(Gate!clampCooldown(rateResetAt'), gateGeneration)
            \/ UNCHANGED Gate!cooldownVars
        BY <2>3 DEF Gate!ObserveGitHub
      <4> QED
        BY <3>1, <4>1, ClampBound DEF CooldownStep
    <3> QED
      BY <3>1, <3>2, <3>3 DEF Quota
  <2>4. CASE Gate!ObserveGitLab(r) /\ Gate!Advertise(r)
    <3>1. /\ rateLimit' \in Nat /\ rateResetAt' \in Nat /\ hasObservedQuota' \in BOOLEAN
          /\ advertised' \subseteq Nat \X Nat /\ QuotaIsAdvertised'
      BY <2>4, ObservedQuota DEF Gate!ObserveGitLab
    <3>2. rateRemaining' \in Nat \cup {Absent}
      BY <2>4 DEF Gate!ObserveGitLab, Quota
    <3>3. CooldownStep
      <4>1. \/ Gate!CoolDown(Gate!clampCooldown(r.reset), gateGeneration)
            \/ UNCHANGED Gate!cooldownVars
        BY <2>4 DEF Gate!ObserveGitLab
      <4> QED
        BY <1>2, <4>1, ClampBound DEF CooldownStep
    <3> QED
      BY <3>1, <3>2, <3>3 DEF Quota
  <2>5. CASE Gate!CoolDown(now + Window, taskGeneration[t]) /\ UNCHANGED Gate!quotaVars
    BY <1>1, <1>3, <2>1, <2>5 DEF CooldownStep
  <2>6. CASE UNCHANGED <<Gate!quotaVars, Gate!cooldownVars>>
    BY <1>1, <2>6 DEF CooldownStep
  <2> QED
    BY <2>2, <2>3, <2>4, <2>5, <2>6
<1> QED
  BY <1>4, <1>5, <1>6

-----------------------------------------------------------------------------
(* Every step. *)

\* A request that is answered has the response it was answered with.
Answered == \A t \in Task : phase[t] = "answered" => answer[t] \in Gate!Answer

GateInv == GateTyped /\ Slots /\ Cooldowns /\ LastStarts /\ QuotaIsAdvertised /\ Answered

\* The parts of the type invariant that a step sets together.
SlotsTyped == phase \in [Task -> Gate!Phase] /\ active \in 0..Limit /\ waiters \in Seq(Task)

StartsTyped ==
  /\ startedAt \in Seq(0..MaxTime) /\ started \in Seq(0..MaxTime)
  /\ taskGeneration \in [Task -> 0..MaxResets]

RestTyped ==
  /\ now \in 0..MaxTime /\ provider \in Provider /\ gateGeneration \in 0..MaxResets
  /\ answer \in [Task -> Gate!Answer \cup {Absent}]

LEMMA InvParts ==
  GateInv <=> /\ SlotsTyped /\ StartsTyped /\ RestTyped /\ cooldownUntil \in Nat
          /\ Quota /\ Slots /\ Cooldowns /\ LastStarts /\ Answered
BY Zenon DEF GateInv, GateTyped, Gate!GateTypeOK, SlotsTyped, StartsTyped, RestTyped, Quota

LEMMA InvNext ==
  ASSUME SlotsTyped', StartsTyped', RestTyped', cooldownUntil' \in Nat,
         Quota', Slots', Cooldowns', LastStarts', Answered'
  PROVE  GateInv'
BY Zenon DEF GateInv, GateTyped, Gate!GateTypeOK, SlotsTyped, StartsTyped, RestTyped, Quota

LEMMA CooldownsKept ==
  ASSUME GateTyped, Cooldowns, CooldownStep, UNCHANGED <<now, gateGeneration>>
  PROVE  cooldownUntil' \in Nat /\ Cooldowns'
<1>1. CASE UNCHANGED Gate!cooldownVars
  BY <1>1, Clock DEF Cooldowns, Gate!CooldownIsCurrent, Gate!CooldownWithinWindow, Gate!cooldownVars
<1>2. CASE \E until \in 0..(now + Window) : Gate!CoolDown(until, gateGeneration)
  <2>1. PICK until \in 0..(now + Window) : Gate!CoolDown(until, gateGeneration)
    BY <1>2
  <2> QED
    BY <2>1, Clock
    DEF Gate!CoolDown, Gate!Larger, Cooldowns, Gate!CooldownIsCurrent, Gate!CooldownWithinWindow
<1> QED
  BY <1>1, <1>2 DEF CooldownStep

\* Starts pruned, or pruned and joined by one of now.
LEMMA StartsKept ==
  ASSUME GateInv, UNCHANGED now,
         \/ startedAt' = Gate!Pruned /\ started' = started
         \/ startedAt' = Append(Gate!Pruned, now) /\ started' = Append(started, now)
  PROVE  startedAt' \in Seq(0..MaxTime) /\ started' \in Seq(0..MaxTime) /\ LastStarts'
<1> DEFINE k == Len(Gate!Pruned)
           n == Len(started)
<1>1. /\ Gate!Pruned \in Seq(0..MaxTime) /\ started \in Seq(0..MaxTime)
      /\ now \in 0..MaxTime /\ now \in Nat /\ k \in Nat /\ n \in Nat
  BY PrunedIsEnd, Clock DEF GateInv, GateTyped, Gate!GateTypeOK
<1>2. /\ n - k \in Nat
      /\ \A i \in 1..k : Gate!Pruned[i] = started[(n - k) + i] /\ Gate!Pruned[i] <= now
      /\ \A i \in 1..(n - k) : ~Gate!Fresh(started[i])
  BY PrunedIsLast DEF GateInv
<1>3. \A s : Gate!Fresh(s)' <=> Gate!Fresh(s)
  BY DEF Gate!Fresh
<1>4. CASE startedAt' = Gate!Pruned /\ started' = started
  BY <1>1, <1>2, <1>4 DEF LastStarts, Gate!Fresh
<1>5. CASE startedAt' = Append(Gate!Pruned, now) /\ started' = Append(started, now)
  <2>1. /\ startedAt' \in Seq(0..MaxTime) /\ Len(startedAt') = k + 1
        /\ \A i \in 1..k : startedAt'[i] = Gate!Pruned[i]
        /\ startedAt'[k + 1] = now
    BY <1>1, <1>5, AppendProperties
  <2>2. /\ started' \in Seq(0..MaxTime) /\ Len(started') = n + 1
        /\ \A i \in 1..n : started'[i] = started[i]
        /\ started'[n + 1] = now
    BY <1>1, <1>5, AppendProperties
  <2> HIDE DEF k, n
  <2>3. Len(started') - Len(startedAt') = n - k
    BY <1>1, <2>1, <2>2
  <2>4. ASSUME NEW i \in 1..(k + 1)
        PROVE  startedAt'[i] = started'[(n - k) + i] /\ startedAt'[i] <= now
    <3>1. CASE i = k + 1
      <4>1. (n - k) + i = n + 1
        BY <1>1, <3>1
      <4> QED
        BY <1>1, <2>1, <2>2, <3>1, <4>1
    <3>2. CASE i # k + 1
      <4>1. i \in 1..k /\ (n - k) + i \in 1..n
        BY <1>1, <1>2, <3>2
      <4> QED
        BY <1>2, <2>1, <2>2, <4>1
    <3> QED
      BY <3>1, <3>2
  <2>5. ASSUME NEW i \in 1..(n - k) PROVE ~(started'[i] + Window > now')
    <3>1. i \in 1..n
      BY <1>1, <1>2
    <3> QED
      BY <1>2, <2>2, <3>1 DEF Gate!Fresh
  <2> QED
    BY <1>2, <2>1, <2>2, <2>3, <2>4, <2>5 DEF LastStarts, Gate!Fresh
<1> QED
  BY <1>4, <1>5

\* Nobody but who answers is answered.
LEMMA AnsweredKept ==
  ASSUME Answered, NEW t \in Task,
         \A u \in Task : phase'[u] = "answered" => phase[u] = "answered" /\ (u # t \/ answer' = answer),
         answer' = answer \/ answer' = [answer EXCEPT ![t] = Absent], RestTyped
  PROVE  Answered'
BY DEF Answered, RestTyped

LEMMA ReleaseAnswersNobody ==
  ASSUME GateTyped, Slots, NEW t \in Gate!InUse, Gate!Release(t)
  PROVE  \A u \in Task : phase'[u] = "answered" => phase[u] = "answered" /\ u # t
<1>1. phase \in [Task -> Gate!Phase] /\ waiters \in Seq(Task) /\ t \in Task
  BY DEF GateTyped, Gate!GateTypeOK, Gate!InUse
<1>2. CASE waiters = <<>>
  BY <1>1, <1>2 DEF Gate!Release
<1>3. CASE waiters # <<>>
  <2>1. phase' = [phase EXCEPT ![t] = "over", ![Head(waiters)] = "admitted"]
    BY <1>3 DEF Gate!Release
  <2> QED
    BY <1>1, <2>1
<1> QED
  BY <1>2, <1>3

LEMMA EnterStep == ASSUME GateInv, NEW t \in Task, Gate!Enter(t) PROVE GateInv'
<1>1. GateTyped /\ Slots /\ Cooldowns /\ LastStarts
  BY DEF GateInv
<1>2. /\ startedAt' = Gate!Pruned
      /\ UNCHANGED <<now, provider, taskGeneration, answer, gateGeneration, started, Gate!quotaVars>>
  BY DEF Gate!Enter
<1>3. SlotsTyped' /\ Slots'
  BY <1>1, EnterKeepsSlots DEF SlotsTyped
<1>4. CooldownStep
  <2>1. (Gate!Blocked /\ Gate!BlockedCooldown) \/ UNCHANGED Gate!cooldownVars
    BY DEF Gate!Enter
  <2> QED
    BY <1>1, <2>1, BlockedStep DEF CooldownStep
<1>5. cooldownUntil' \in Nat /\ Cooldowns'
  BY <1>1, <1>2, <1>4, CooldownsKept
<1>6. startedAt' \in Seq(0..MaxTime) /\ started' \in Seq(0..MaxTime) /\ LastStarts'
  BY <1>2, StartsKept
<1>7. StartsTyped' /\ RestTyped' /\ Quota'
  BY <1>2, <1>6, InvParts DEF StartsTyped, RestTyped, Quota, Gate!quotaVars, QuotaIsAdvertised
<1>8. Answered'
  <2>1. phase \in [Task -> Gate!Phase]
    BY <1>1 DEF GateTyped, Gate!GateTypeOK
  <2>2. PICK to \in {"over", "admitted", "waiting"} : phase' = [phase EXCEPT ![t] = to]
    BY DEF Gate!Enter
  <2> QED
    BY <1>2, <2>1, <2>2, InvParts, AnsweredKept
<1> QED
  BY <1>3, <1>5, <1>6, <1>7, <1>8, InvNext

LEMMA BeginStep == ASSUME GateInv, NEW t \in Task, Gate!Begin(t) PROVE GateInv'
<1>1. GateTyped /\ Slots /\ Cooldowns /\ LastStarts
  BY DEF GateInv
<1>2. phase[t] = "admitted" /\ t \in Gate!InUse /\ phase \in [Task -> Gate!Phase]
  BY <1>1 DEF Gate!Begin, Gate!InUse, GateTyped, Gate!GateTypeOK
<1>3. UNCHANGED <<now, provider, answer, gateGeneration, Gate!quotaVars>>
  BY DEF Gate!Begin
<1>4. CASE /\ Gate!Blocked /\ Gate!BlockedCooldown /\ Gate!Release(t) /\ startedAt' = Gate!Pruned
           /\ UNCHANGED <<started, taskGeneration>>
  <2>1. SlotsTyped' /\ Slots'
    BY <1>1, <1>2, <1>4, ReleaseKeepsSlots DEF SlotsTyped
  <2>2. cooldownUntil' \in Nat /\ Cooldowns'
    BY <1>1, <1>3, <1>4, BlockedStep, CooldownsKept
  <2>3. startedAt' \in Seq(0..MaxTime) /\ started' \in Seq(0..MaxTime) /\ LastStarts'
    BY <1>3, <1>4, StartsKept
  <2>4. StartsTyped' /\ RestTyped' /\ Quota'
    BY <1>3, <1>4, <2>3, InvParts
    DEF StartsTyped, RestTyped, Quota, Gate!quotaVars, QuotaIsAdvertised
  <2>5. Answered'
    BY <1>1, <1>2, <1>3, <1>4, InvParts, ReleaseAnswersNobody, AnsweredKept
  <2> QED
    BY <2>1, <2>2, <2>3, <2>4, <2>5, InvNext
<1>5. CASE /\ startedAt' = Append(Gate!Pruned, now) /\ started' = Append(started, now)
           /\ taskGeneration' = [taskGeneration EXCEPT ![t] = gateGeneration]
           /\ phase' = [phase EXCEPT ![t] = "running"]
           /\ UNCHANGED <<active, waiters, Gate!cooldownVars>>
  <2>1. Gate!InUse' = Gate!InUse /\ Waiting' = Waiting
    BY <1>2, <1>5 DEF Gate!InUse, Waiting
  <2>2. Slots'
    BY <1>1, <1>5, <2>1, SlotsOfSameUse
  <2>3. SlotsTyped'
    BY <1>1, <1>2, <1>5 DEF SlotsTyped, Gate!Phase, GateTyped, Gate!GateTypeOK
  <2>4. cooldownUntil' \in Nat /\ Cooldowns'
    BY <1>1, <1>3, <1>5, CooldownsKept DEF CooldownStep
  <2>5. startedAt' \in Seq(0..MaxTime) /\ started' \in Seq(0..MaxTime) /\ LastStarts'
    BY <1>3, <1>5, StartsKept
  <2>6. StartsTyped' /\ RestTyped' /\ Quota'
    BY <1>3, <1>5, <2>5, InvParts
    DEF StartsTyped, RestTyped, Quota, Gate!quotaVars, QuotaIsAdvertised
  <2>7. Answered'
    BY <1>2, <1>3, <1>5, InvParts, AnsweredKept
  <2> QED
    BY <2>2, <2>3, <2>4, <2>5, <2>6, <2>7, InvNext
<1> QED
  BY <1>4, <1>5 DEF Gate!Begin

\* Starts and clock left alone, the starts stay the last ones.
LEMMA StartsUntouched ==
  ASSUME StartsTyped, LastStarts, UNCHANGED <<now, startedAt, started, taskGeneration>>
  PROVE  StartsTyped' /\ LastStarts'
BY DEF StartsTyped, LastStarts, Gate!Fresh

LEMMA RespondStep == ASSUME GateInv, NEW t \in Task, Gate!Respond(t) PROVE GateInv'
<1>1. GateTyped /\ Slots /\ Cooldowns /\ LastStarts /\ Quota /\ StartsTyped /\ RestTyped
  BY InvParts DEF GateInv
<1>2. /\ phase[t] = "running" /\ phase' = [phase EXCEPT ![t] = "answered"]
      /\ UNCHANGED <<now, provider, taskGeneration, active, waiters, startedAt, gateGeneration, started>>
  BY DEF Gate!Respond
<1>3. PICK r \in Gate!Answer : answer' = [answer EXCEPT ![t] = r] /\ Gate!Observe(t, r)
  <2>1. PICK sent \in Response :
          LET r == [sent EXCEPT !.reset = IF @ = 0 THEN 0 ELSE now + @] IN
          answer' = [answer EXCEPT ![t] = r] /\ Gate!Observe(t, r)
    BY DEF Gate!Respond
  <2>2. sent \in Gate!Answer
    BY GateAssumption DEF GateAssumption, Answer, Gate!Answer
  <2>3. [sent EXCEPT !.reset = IF @ = 0 THEN 0 ELSE now + @] \in Gate!Answer
    BY <1>1, <2>2, Clock DEF Gate!Answer
  <2> QED
    BY <2>1, <2>3
<1>4. CooldownStep /\ Quota'
  BY <1>1, <1>3, ObserveStep
<1>5. cooldownUntil' \in Nat /\ Cooldowns'
  BY <1>1, <1>2, <1>4, CooldownsKept
<1>6. phase \in [Task -> Gate!Phase]
  BY <1>1 DEF GateTyped, Gate!GateTypeOK
<1>7. Gate!InUse' = Gate!InUse /\ Waiting' = Waiting
  BY <1>2, <1>6 DEF Gate!InUse, Waiting
<1>8. Slots'
  BY <1>1, <1>2, <1>7, SlotsOfSameUse
<1>9. SlotsTyped'
  BY <1>1, <1>2, <1>6 DEF SlotsTyped, Gate!Phase, GateTyped, Gate!GateTypeOK
<1>10. StartsTyped' /\ LastStarts'
  BY <1>1, <1>2, StartsUntouched
<1>11. RestTyped'
  BY <1>1, <1>2, <1>3 DEF RestTyped
<1>12. Answered'
  BY <1>2, <1>3, <1>6, InvParts DEF RestTyped, Answered
<1> QED
  BY <1>4, <1>5, <1>8, <1>9, <1>10, <1>11, <1>12, InvNext

LEMMA SettleStep == ASSUME GateInv, NEW t \in Task, Gate!Settle(t) PROVE GateInv'
<1>1. GateTyped /\ Slots /\ Cooldowns /\ LastStarts /\ Quota /\ StartsTyped /\ RestTyped
  BY InvParts DEF GateInv
<1>2. /\ t \in Gate!InUse /\ Gate!Release(t) /\ answer' = [answer EXCEPT ![t] = Absent]
      /\ UNCHANGED <<now, provider, taskGeneration, startedAt, gateGeneration, started, Gate!quotaVars>>
  BY DEF Gate!Settle, Gate!InUse
<1>3. SlotsTyped' /\ Slots'
  BY <1>1, <1>2, ReleaseKeepsSlots DEF SlotsTyped
<1>4. CooldownStep
  <2>1. CASE /\ phase[t] = "answered" /\ taskGeneration[t] = gateGeneration
             /\ Gate!AsksCooldown(answer[t])
    <3>1. Gate!CoolDown(Gate!readCooldownUntil(answer[t]), gateGeneration)
      BY <2>1 DEF Gate!Settle
    <3>2. answer[t] \in Gate!Answer
      BY <2>1, InvParts DEF Answered
    <3> QED
      BY <1>1, <3>1, <3>2, ReadBound DEF CooldownStep
  <2>2. CASE UNCHANGED Gate!cooldownVars
    BY <2>2 DEF CooldownStep
  <2> QED
    BY <2>1, <2>2 DEF Gate!Settle
<1>5. cooldownUntil' \in Nat /\ Cooldowns'
  BY <1>1, <1>2, <1>4, CooldownsKept
<1>6. StartsTyped' /\ LastStarts'
  BY <1>1, <1>2, StartsUntouched
<1>7. RestTyped' /\ Quota'
  BY <1>1, <1>2 DEF RestTyped, Quota, Gate!quotaVars, QuotaIsAdvertised
<1>8. Answered'
  BY <1>1, <1>2, InvParts, ReleaseAnswersNobody, AnsweredKept
<1> QED
  BY <1>3, <1>5, <1>6, <1>7, <1>8, InvNext

LEMMA ResetStep == ASSUME GateInv, Gate!Reset PROVE GateInv'
<1>1. GateTyped /\ Slots /\ Quota /\ StartsTyped /\ RestTyped /\ SlotsTyped /\ Answered
  BY InvParts DEF GateInv
<1>2. /\ gateGeneration' \in Nat /\ gateGeneration' <= MaxResets
      /\ cooldownUntil' = 0
      /\ rateLimit' = 0 /\ rateRemaining' = Absent /\ rateResetAt' = 0 /\ hasObservedQuota' = FALSE
      /\ startedAt' = <<>> /\ started' = <<>> /\ advertised' = {}
      /\ UNCHANGED <<now, provider, phase, taskGeneration, answer, active, waiters>>
  BY <1>1 DEF Gate!Reset, RestTyped
<1>3. Gate!InUse' = Gate!InUse /\ Waiting' = Waiting
  BY <1>2 DEF Gate!InUse, Waiting
<1>4. SlotsTyped' /\ Slots'
  BY <1>1, <1>2, <1>3, SlotsOfSameUse DEF SlotsTyped
<1>5. cooldownUntil' \in Nat /\ Cooldowns'
  BY <1>1, <1>2, Clock DEF Cooldowns, Gate!CooldownIsCurrent, Gate!CooldownWithinWindow
<1>6. StartsTyped' /\ LastStarts'
  <2>1. startedAt' \in Seq(0..MaxTime) /\ started' \in Seq(0..MaxTime)
    BY <1>2
  <2>2. Len(startedAt') = 0 /\ Len(started') = 0
    BY <1>2
  <2>3. LastStarts'
    BY <2>2 DEF LastStarts
  <2> QED
    BY <1>1, <1>2, <2>1, <2>3 DEF StartsTyped
<1>7. RestTyped' /\ Quota' /\ Answered'
  <2>1. gateGeneration' \in 0..MaxResets
    BY <1>2, GateAssumption DEF GateAssumption
  <2>2. RestTyped' /\ Answered'
    BY <1>1, <1>2, <2>1 DEF RestTyped, Answered
  <2>3. Quota'
    BY <1>2 DEF Quota, QuotaIsAdvertised
  <2> QED
    BY <2>2, <2>3
<1> QED
  BY <1>4, <1>5, <1>6, <1>7, InvNext

LEMMA TickStep == ASSUME GateInv, Gate!Tick PROVE GateInv'
<1>1. /\ GateTyped /\ Slots /\ Quota /\ StartsTyped /\ RestTyped /\ SlotsTyped /\ Answered
      /\ Cooldowns /\ LastStarts
  BY InvParts DEF GateInv
<1>2. /\ now < MaxTime /\ now' = now + 1
      /\ UNCHANGED <<provider, phase, taskGeneration, answer, active, waiters, startedAt,
                     gateGeneration, started, Gate!quotaVars, Gate!cooldownVars>>
  BY DEF Gate!Tick
<1>3. Gate!InUse' = Gate!InUse /\ Waiting' = Waiting
  BY <1>2 DEF Gate!InUse, Waiting
<1>4. SlotsTyped' /\ Slots'
  BY <1>1, <1>2, <1>3, SlotsOfSameUse DEF SlotsTyped
<1>5. cooldownUntil' \in Nat /\ Cooldowns'
  BY <1>1, <1>2, Clock
  DEF Cooldowns, Gate!CooldownIsCurrent, Gate!CooldownWithinWindow, Gate!cooldownVars
<1>6. StartsTyped' /\ LastStarts'
  <2>1. /\ startedAt \in Seq(0..MaxTime) /\ started \in Seq(0..MaxTime)
        /\ MaxTime \in Nat /\ Len(startedAt) \in Nat /\ Len(started) \in Nat
    BY <1>1, GateAssumption DEF StartsTyped, GateAssumption
  <2>2. \A i \in 1..Len(started) : started[i] \in Nat
    BY <2>1, ElementOfSeq
  <2>3. \A i \in 1..Len(startedAt) : startedAt[i] \in Nat
    BY <2>1, ElementOfSeq
  <2>4. ASSUME NEW i \in 1..Len(started), ~Gate!Fresh(started[i])
        PROVE  ~(started[i] + Window > now')
    BY <1>2, <2>2, <2>4, <1>1, Clock DEF Gate!Fresh
  <2>5. \A i \in 1..(Len(started) - Len(startedAt)) : i \in 1..Len(started)
    BY <2>1
  <2>6. /\ Len(started) - Len(startedAt) >= 0
        /\ \A i \in 1..Len(startedAt) :
             startedAt[i] = started[Len(started) - Len(startedAt) + i] /\ startedAt[i] <= now
        /\ \A i \in 1..(Len(started) - Len(startedAt)) : ~Gate!Fresh(started[i])
    BY <1>1 DEF LastStarts
  <2>7. \A i \in 1..(Len(started) - Len(startedAt)) : ~(started[i] + Window > now')
    BY <2>4, <2>5, <2>6
  <2>8. \A i \in 1..Len(startedAt) : startedAt[i] <= now'
    BY <1>1, <1>2, <2>3, <2>6, Clock
  <2>9. LastStarts'
    BY <1>2, <2>6, <2>7, <2>8 DEF LastStarts, Gate!Fresh
  <2> QED
    BY <1>1, <1>2, <2>9 DEF StartsTyped
<1>7. RestTyped' /\ Quota' /\ Answered'
  BY <1>1, <1>2, GateAssumption
  DEF GateAssumption, RestTyped, Quota, QuotaIsAdvertised, Answered, Gate!quotaVars
<1> QED
  BY <1>4, <1>5, <1>6, <1>7, InvNext

LEMMA StutterStep == ASSUME GateInv, UNCHANGED Gate!gateVars PROVE GateInv'
<1>1. /\ GateTyped /\ Slots /\ Quota /\ StartsTyped /\ RestTyped /\ SlotsTyped /\ Answered
      /\ Cooldowns /\ LastStarts
  BY InvParts DEF GateInv
<1>2. UNCHANGED <<now, provider, phase, taskGeneration, answer, active, waiters, startedAt,
                  gateGeneration, started, Gate!quotaVars, Gate!cooldownVars>>
  BY DEF Gate!gateVars
<1>3. Gate!InUse' = Gate!InUse /\ Waiting' = Waiting
  BY <1>2 DEF Gate!InUse, Waiting
<1>4. SlotsTyped' /\ Slots'
  BY <1>1, <1>2, <1>3, SlotsOfSameUse DEF SlotsTyped
<1>5. cooldownUntil' \in Nat /\ Cooldowns'
  BY <1>1, <1>2, CooldownsKept DEF CooldownStep
<1>6. StartsTyped' /\ LastStarts'
  BY <1>1, <1>2, StartsUntouched
<1>7. RestTyped' /\ Quota' /\ Answered'
  BY <1>1, <1>2 DEF RestTyped, Quota, QuotaIsAdvertised, Answered, Gate!quotaVars
<1> QED
  BY <1>4, <1>5, <1>6, <1>7, InvNext

LEMMA InvInit == Gate!Init => GateInv
<1> SUFFICES ASSUME Gate!Init PROVE GateInv
  OBVIOUS
<1> USE GateAssumption DEF GateAssumption
<1>1. Gate!InUse = {} /\ Waiting = {}
  BY DEF Gate!Init, Gate!InUse, Waiting
<1>2. Slots
  BY <1>1, FS_EmptySet, GateCardinality DEF Gate!Init, Slots, Gate!SlotsMatchTasks, Waiting
<1>3. SlotsTyped /\ StartsTyped /\ RestTyped
  BY DEF Gate!Init, SlotsTyped, StartsTyped, RestTyped, Gate!Phase
<1>4. Quota /\ Answered
  BY DEF Gate!Init, Quota, QuotaIsAdvertised, Answered
<1>5. cooldownUntil \in Nat /\ Cooldowns
  BY DEF Gate!Init, Cooldowns, Gate!CooldownIsCurrent, Gate!CooldownWithinWindow
<1>6. LastStarts
  <2>1. Len(startedAt) = 0 /\ Len(started) = 0
    BY DEF Gate!Init
  <2> QED
    BY <2>1 DEF LastStarts
<1> QED
  BY <1>2, <1>3, <1>4, <1>5, <1>6, InvParts

LEMMA GateInvStep == GateInv /\ [Gate!Next]_(Gate!gateVars) => GateInv'
<1> SUFFICES ASSUME GateInv, [Gate!Next]_(Gate!gateVars) PROVE GateInv'
  OBVIOUS
<1> QED
  BY EnterStep, BeginStep, RespondStep, SettleStep, ResetStep, TickStep, StutterStep
  DEF Gate!Next, Gate!Progress

LEMMA AlwaysInv == Gate!Spec => []GateInv
BY InvInit, GateInvStep, PTL DEF Gate!Spec

-----------------------------------------------------------------------------
\* Slots, waiters, quotas and times stay what they are.
THEOREM GateTypeCorrect == Gate!Spec => []Gate!GateTypeOK
<1>1. GateInv => Gate!GateTypeOK
  BY DEF GateInv, GateTyped
<1> QED
  BY <1>1, AlwaysInv, PTL

\* Of any number of requests, in any order of failures, shut gates and resets, no slot is lost
\* or given out twice and nobody waits beside a free one; no cooldown outlives the credentials
\* that earned it; and no header shuts the gate for longer than a window
\* (requestGate.ts:76-99, 234-242, 345-362, 485-497).
THEOREM CurrentGate == Gate!Spec => []GateIsCurrent
<1>1. GateInv => Gate!GateIsCurrent
  BY DEF GateInv, GateTyped, Slots, Cooldowns, Gate!GateIsCurrent
<1>2. Gate!GateIsCurrent => GateIsCurrent
  <2>1. Gate!GateTypeOK => GateTypeOK
    BY DEF Gate!GateTypeOK, GateTypeOK, Gate!Phase, Phase, Gate!Answer, Answer
  <2>2. Gate!SlotsMatchTasks => SlotsMatchTasks
    BY GateCardinality DEF Gate!SlotsMatchTasks, SlotsMatchTasks, Gate!InUse, InUse
  <2> QED
    BY <2>1, <2>2 DEF Gate!GateIsCurrent, GateIsCurrent, Gate!CooldownIsCurrent,
      CooldownIsCurrent, Gate!CooldownWithinWindow, CooldownWithinWindow
<1> QED
  BY <1>1, <1>2, AlwaysInv, PTL

\* A step that starts a request is the one after the second look at the gate.
LEMMA StartIsBegin ==
  ASSUME GateInv, [Gate!Next]_(Gate!gateVars), NEW t \in Task, Gate!Starts(t)
  PROVE  ~Gate!Blocked /\ Gate!Begin(t) /\ UNCHANGED now
<1>1. phase \in [Task -> Gate!Phase] /\ waiters \in Seq(Task)
  BY DEF GateInv, GateTyped, Gate!GateTypeOK
<1>2. phase[t] # "running" /\ phase'[t] = "running"
  BY DEF Gate!Starts
<1>3. ASSUME NEW u \in Task, Gate!Release(u) PROVE FALSE
  <2>1. CASE waiters = <<>>
    BY <1>1, <1>2, <1>3, <2>1 DEF Gate!Release
  <2>2. CASE waiters # <<>>
    <3>1. phase' = [phase EXCEPT ![u] = "over", ![Head(waiters)] = "admitted"]
      BY <1>3, <2>2 DEF Gate!Release
    <3> QED
      BY <1>1, <1>2, <3>1
  <2> QED
    BY <2>1, <2>2
<1>4. ASSUME NEW u \in Task, Gate!Enter(u) PROVE FALSE
  BY <1>1, <1>2, <1>4 DEF Gate!Enter
<1>5. ASSUME NEW u \in Task, Gate!Respond(u) PROVE FALSE
  BY <1>1, <1>2, <1>5 DEF Gate!Respond
<1>6. ASSUME NEW u \in Task, Gate!Settle(u) PROVE FALSE
  BY <1>3, <1>6 DEF Gate!Settle
<1>7. ~Gate!Reset /\ ~Gate!Tick /\ ~UNCHANGED Gate!gateVars
  BY <1>2 DEF Gate!Reset, Gate!Tick, Gate!gateVars
<1>8. PICK u \in Task : Gate!Begin(u)
  BY <1>4, <1>5, <1>6, <1>7 DEF Gate!Next, Gate!Progress
<1>9. ~Gate!Blocked /\ phase' = [phase EXCEPT ![u] = "running"] /\ UNCHANGED now
  BY <1>3, <1>8 DEF Gate!Begin
<1>10. u = t
  BY <1>1, <1>2, <1>9
<1> QED
  BY <1>8, <1>9, <1>10

\* However long a request has waited, it starts only while the gate is open
\* (requestGate.ts:58, 226-228).
THEOREM OpenStarts == Gate!Spec => StartsWhileOpen
<1>1. GateInv /\ [Gate!Next]_(Gate!gateVars) =>
        [\A t \in Task : Starts(t) => now >= cooldownUntil]_gateVars
  <2> SUFFICES ASSUME GateInv, [Gate!Next]_(Gate!gateVars), NEW t \in Task, Gate!Starts(t)
               PROVE  now >= cooldownUntil
    BY DEF Starts, Gate!Starts
  <2>1. ~(now < cooldownUntil)
    BY StartIsBegin DEF Gate!Blocked
  <2> QED
    BY <2>1, Clock DEF GateInv
<1> QED
  BY <1>1, AlwaysInv, PTL DEF Gate!Spec, StartsWhileOpen

\* What the gate has forgotten no longer counts, so the starts that do are those it kept.
LEMMA RecentAreKept ==
  ASSUME GateTyped, LastStarts
  PROVE  Cardinality(Gate!Recent) \in Nat /\ Cardinality(Gate!Recent) <= Len(Gate!Pruned)
<1> DEFINE n == Len(started)
           k == Len(Gate!Pruned)
<1>1. n \in Nat /\ k \in Nat /\ n - k \in Nat /\ \A i \in 1..(n - k) : ~Gate!Fresh(started[i])
  BY PrunedIsEnd, PrunedIsLast DEF GateTyped
<1>2. Gate!Recent \subseteq (n - k + 1)..n
  BY <1>1 DEF Gate!Recent
<1>3. IsFiniteSet((n - k + 1)..n) /\ Cardinality((n - k + 1)..n) = k
  <2>1. n - k + 1 \in Int /\ n \in Int
    BY <1>1
  <2>2. /\ IsFiniteSet((n - k + 1)..n)
        /\ Cardinality((n - k + 1)..n) = IF n - k + 1 > n THEN 0 ELSE n - (n - k + 1) + 1
    BY <2>1, FS_Interval
  <2> QED
    BY <1>1, <2>2
<1> HIDE DEF n, k
<1>4. IsFiniteSet(Gate!Recent) /\ Cardinality(Gate!Recent) <= Cardinality((n - k + 1)..n)
  BY <1>2, <1>3, FS_Subset
<1> QED
  BY <1>3, <1>4, FS_CardinalityType DEF k

\* The starts of a window stay within the budget, or within a quota the server advertised in one
\* response to the present credentials and whose window still runs
\* (requestGate.ts:295-305, 407-420).
THEOREM BudgetedStarts == Gate!Spec => StartsWithinBudget
<1>1. GateInv /\ [Gate!Next]_(Gate!gateVars) =>
        [\A t \in Task : Starts(t) =>
           Cardinality(Recent) < Fallback \/ Advertised(Cardinality(Recent))]_gateVars
  <2> DEFINE Within == \/ Cardinality(Gate!Recent) < Fallback
                       \/ Gate!Advertised(Cardinality(Gate!Recent))
  <2> SUFFICES ASSUME GateInv, [Gate!Next]_(Gate!gateVars), NEW t \in Task, Gate!Starts(t)
               PROVE  Within
    BY DEF Starts, Gate!Starts, Recent, Gate!Recent, Advertised, Gate!Advertised, Smaller,
      Gate!Smaller, Fresh, Gate!Fresh
  <2>1. /\ Len(Gate!Pruned) < Gate!automaticRequestCeiling
        /\ GateTyped /\ LastStarts /\ QuotaIsAdvertised
    <3>1. ~(Len(Gate!Pruned) >= Gate!automaticRequestCeiling)
      BY StartIsBegin DEF Gate!Blocked
    <3>2. Len(Gate!Pruned) \in Nat
      BY PrunedIsEnd DEF GateInv
    <3>3. Gate!automaticRequestCeiling \in Nat
      BY GateAssumption, Clock
      DEF GateAssumption, GateInv, GateTyped, Gate!GateTypeOK, Gate!automaticRequestCeiling,
          Gate!Larger, Gate!Smaller
    <3> QED
      BY <3>1, <3>2, <3>3 DEF GateInv
  <2>2. /\ Cardinality(Gate!Recent) \in Nat /\ Cardinality(Gate!Recent) <= Len(Gate!Pruned)
        /\ Len(Gate!Pruned) \in Nat
    BY <2>1, RecentAreKept, PrunedIsEnd
  <2>3. CASE hasObservedQuota /\ rateResetAt > now
    <3>1. Len(Gate!Pruned) < Gate!Larger(Fallback, Gate!Smaller(rateLimit, Ceiling))
      BY <2>1, <2>3 DEF Gate!automaticRequestCeiling
    <3>2. Len(Gate!Pruned) < Fallback \/ Len(Gate!Pruned) < Gate!Smaller(rateLimit, Ceiling)
      BY <3>1 DEF Gate!Larger
    <3>3. CASE Len(Gate!Pruned) < Fallback
      BY <2>1, <2>2, <3>3, Clock
    <3>4. CASE Len(Gate!Pruned) < Gate!Smaller(rateLimit, Ceiling)
      <4>1. <<rateLimit, rateResetAt>> \in advertised
        BY <2>1, <2>3 DEF QuotaIsAdvertised
      <4>2. Gate!Smaller(rateLimit, Ceiling) \in Nat
        BY <2>1, GateAssumption DEF GateAssumption, GateTyped, Gate!GateTypeOK, Gate!Smaller
      <4>3. Cardinality(Gate!Recent) < Gate!Smaller(rateLimit, Ceiling)
        BY <2>2, <3>4, <4>2
      <4> QED
        BY <2>3, <4>1, <4>3 DEF Gate!Advertised
    <3> QED
      BY <3>2, <3>3, <3>4
  <2>4. CASE ~(hasObservedQuota /\ rateResetAt > now)
    <3>1. Len(Gate!Pruned) < Fallback
      BY <2>1, <2>4 DEF Gate!automaticRequestCeiling
    <3> QED
      BY <2>1, <2>2, <3>1, Clock
  <2> QED
    BY <2>3, <2>4
<1> QED
  BY <1>1, AlwaysInv, PTL DEF Gate!Spec, StartsWithinBudget

\* Both at once: a request starts while the gate is open and within the budget.
THEOREM AllowedStarts == Gate!Spec => StartsAreAllowed
BY OpenStarts, BudgetedStarts DEF StartsAreAllowed

-----------------------------------------------------------------------------
(* The badges. *)

\* What a component counts is what the theorems about finite sets count.
LEMMA BadgesCardinality == \A S : Badges!Cardinality(S) = Cardinality(S)
  BY Zenon DEF Badges!Cardinality, Cardinality

Searches(t) == task[t].phase \in {"searching", "answered"}
Busy(t) == task[t].phase \notin {"idle", "todo"}

\* The rows on screen, the match and the demand are those of the selected repository.
ScopeIsSelected ==
  /\ scope \in {NoMatch, root} /\ memo \in {NoMatch, root}
  /\ \A q \in Request : request[q].current => scope = request[q].repo

\* The search others may join is the one of this generation.
SearchIsCurrent ==
  /\ \A t \in Badges!RowTask : Searches(t) /\ task[t].current => resolutionInFlight = t
  /\ resolutionInFlight # NoMatch =>
       Searches(resolutionInFlight) /\ task[resolutionInFlight].current

\* Who joined a search awaits it as long as it runs, and its generation moves with it.
JoinersAwait ==
  \A t \in Badges!RowTask : task[t].phase = "joined" =>
    /\ task[t].search \in Badges!RowTask /\ Searches(task[t].search)
    /\ task[t].current => task[task[t].search].current

\* What was found is of the selected repository while anybody could be told.
FoundIsSelected ==
  \A t \in Badges!RowTask :
    /\ task[t].phase \in {"answered", "fetching"} => task[t].got \in Repo
    /\ task[t].phase = "answered" /\ task[t].current => task[t].got = root
    /\ task[t].phase = "fetching" /\ request[t[1]].current => task[t].got = root

\* A graph view whose generation moved under a demand that goes on is to be refreshed.
MovedIsStale ==
  \A t \in Badges!RowTask : Busy(t) /\ request[t[1]].current /\ ~task[t].current => stale

BadgesInv ==
  /\ Badges!BadgesTypeOK /\ ScopeIsSelected /\ SearchIsCurrent /\ JoinersAwait /\ FoundIsSelected
  /\ Badges!BadgesOfTheirRepository
  /\ ~LateReplyClears => MovedIsStale /\ Badges!NoneIsAskedAgain

-----------------------------------------------------------------------------
LEMMA IdleRecord ==
  /\ Badges!Idle \in Badges!TaskRecord /\ Badges!Idle.phase = "idle" /\ ~Badges!Idle.current
  /\ ~Badges!Idle.cached
  /\ Badges!Idle.search = NoMatch /\ Badges!Idle.got = NoMatch
BY DEF Badges!Idle, Badges!TaskRecord

LEMMA NamesDiffer ==
  /\ NoMatch \notin Repo /\ NoMatch \notin Badges!RowTask
  /\ "none" \notin Repo /\ "loading" \notin Repo /\ "blank" \notin Repo /\ "unavailable" \notin Repo
BY CoordinatorAssumption DEF CoordinatorAssumption, Badges!RowTask

LEMMA Claimed ==
  ASSUME NEW q \in Request, NEW h \in Row
  PROVE  <<q, h>> \in Badges!RowTask /\ <<q, h>>[1] = q /\ <<q, h>>[2] = h
BY DEF Badges!RowTask

LEMMA RowOfTask ==
  ASSUME NEW t \in Badges!RowTask
  PROVE  t[1] \in Request /\ t[2] \in Row /\ t = <<t[1], t[2]>>
BY DEF Badges!RowTask

LEMMA FewerWork ==
  ASSUME NEW S, NEW T \in SUBSET Row, S \subseteq T, Cardinality(T) <= Fanout
  PROVE  Cardinality(S) <= Fanout
<1>1. IsFiniteSet(T)
  BY CoordinatorAssumption, FS_Subset DEF CoordinatorAssumption
<1>2. Cardinality(S) <= Cardinality(T) /\ IsFiniteSet(S)
  BY <1>1, FS_Subset
<1>3. Cardinality(S) \in Nat /\ Cardinality(T) \in Nat
  BY <1>1, <1>2, FS_CardinalityType
<1> QED
  BY <1>2, <1>3, CoordinatorAssumption DEF CoordinatorAssumption

LEMMA InitInv == Badges!Init => BadgesInv
<1> SUFFICES ASSUME Badges!Init PROVE BadgesInv
  OBVIOUS
<1> USE DEF Badges!Init
<1>1. /\ task \in [Badges!RowTask -> Badges!TaskRecord]
      /\ \A t \in Badges!RowTask : task[t] = Badges!Idle /\ task[t].phase = "idle"
  BY IdleRecord
<1>2. root \in Repo
  BY CoordinatorAssumption DEF CoordinatorAssumption
<1>3. /\ request \in [Request -> Badges!RequestRecord]
      /\ \A q \in Request : request[q].current = FALSE
  BY <1>2 DEF Badges!RequestRecord
<1>4. ASSUME NEW q \in Request PROVE Cardinality(Badges!Working(q)) <= Fanout
  <2>1. Badges!Working(q) = {}
    BY <1>1, Claimed DEF Badges!Working
  <2> QED
    BY <2>1, FS_EmptySet, CoordinatorAssumption DEF CoordinatorAssumption
<1>5. Badges!BadgesTypeOK
  <2>1. 0 \in 0..MaxEvents
    BY CoordinatorAssumption DEF CoordinatorAssumption
  <2>2. badge \in [Repo \X Row -> Repo \cup {"blank", "loading", "none", "unavailable"}]
    OBVIOUS
  <2> QED
    BY <1>1, <1>2, <1>3, <1>4, <2>1, <2>2, BadgesCardinality DEF Badges!BadgesTypeOK
<1>6. Badges!BadgesOfTheirRepository /\ Badges!NoneIsAskedAgain
  BY NamesDiffer DEF Badges!BadgesOfTheirRepository, Badges!NoneIsAskedAgain
<1> QED
  BY <1>1, <1>3, <1>5, <1>6
  DEF BadgesInv, ScopeIsSelected, SearchIsCurrent, JoinersAwait, FoundIsSelected, MovedIsStale,
      Searches, Busy

-----------------------------------------------------------------------------
(***************************************************************************)
(* What clearing, answering and a fan-out do to the tasks and the badges.  *)
(***************************************************************************)
LEMMA Cleared ==
  ASSUME NEW tasks \in [Badges!RowTask -> Badges!TaskRecord], Badges!ClearProviderResolution(tasks)
  PROVE  /\ memo' = NoMatch /\ resolutionInFlight' = NoMatch
         /\ task' \in [Badges!RowTask -> Badges!TaskRecord]
         /\ \A t \in Badges!RowTask :
              /\ ~task'[t].current /\ task'[t].phase = tasks[t].phase
              /\ tasks[t].phase # "idle" =>
                   task'[t].search = tasks[t].search /\ task'[t].got = tasks[t].got
BY IdleRecord DEF Badges!ClearProviderResolution, Badges!TaskRecord

LEMMA Unstarting ==
  ASSUME Badges!BadgesTypeOK
  PROVE  /\ Badges!Unstarted \in [Badges!RowTask -> Badges!TaskRecord]
         /\ Badges!Uncached \in [Badges!RowTask -> Badges!TaskRecord]
         /\ \A t \in Badges!RowTask :
              /\ Badges!Uncached[t].phase = Badges!Unstarted[t].phase
              /\ Badges!Uncached[t].search = Badges!Unstarted[t].search
              /\ Badges!Uncached[t].got = Badges!Unstarted[t].got
              /\ task[t].phase = "todo" => Badges!Unstarted[t].phase = "idle"
              /\ task[t].phase # "todo" => Badges!Unstarted[t] = task[t]
BY IdleRecord DEF Badges!Unstarted, Badges!Uncached, Badges!BadgesTypeOK, Badges!TaskRecord

LEMMA Superseding ==
  ASSUME Badges!BadgesTypeOK
  PROVE  /\ Badges!Superseded \in [Request -> Badges!RequestRecord]
         /\ \A q \in Request : ~Badges!Superseded[q].current /\ Badges!Superseded[q].repo = request[q].repo
BY DEF Badges!Superseded, Badges!BadgesTypeOK, Badges!RequestRecord

LEMMA WorkersStay ==
  ASSUME Badges!BadgesTypeOK, \A t \in Badges!RowTask : Busy(t)' => Busy(t)
  PROVE  \A q \in Request : Cardinality(Badges!Working(q)') <= Fanout
<1>1. ASSUME NEW q \in Request PROVE Cardinality(Badges!Working(q)') <= Fanout
  <2>1. Badges!Working(q)' \subseteq Badges!Working(q) /\ Badges!Working(q) \subseteq Row
    BY Claimed DEF Badges!Working, Busy
  <2> QED
    BY <2>1, FewerWork, BadgesCardinality DEF Badges!BadgesTypeOK
<1> QED
  BY <1>1

LEMMA WorkerJoins ==
  ASSUME Badges!BadgesTypeOK, NEW t \in Badges!RowTask, Cardinality(Badges!Working(t[1])) < Fanout,
         \A u \in Badges!RowTask : u # t /\ Busy(u)' => Busy(u)
  PROVE  \A q \in Request : Cardinality(Badges!Working(q)') <= Fanout
<1> DEFINE before == Badges!Working(t[1])
<1>1. ASSUME NEW q \in Request, q # t[1] PROVE Cardinality(Badges!Working(q)') <= Fanout
  <2>1. Badges!Working(q)' \subseteq Badges!Working(q) /\ Badges!Working(q) \subseteq Row
    BY <1>1, Claimed, RowOfTask DEF Badges!Working, Busy
  <2> QED
    BY <2>1, FewerWork, BadgesCardinality DEF Badges!BadgesTypeOK
<1>2. /\ Badges!Working(t[1])' \subseteq before \cup {t[2]} /\ before \cup {t[2]} \subseteq Row
      /\ before \subseteq Row
  BY Claimed, RowOfTask DEF Badges!Working, Busy
<1>3. Cardinality(before) < Fanout
  OBVIOUS
<1> HIDE DEF before
<1>4. IsFiniteSet(before)
  BY <1>2, CoordinatorAssumption, FS_Subset DEF CoordinatorAssumption
<1>5. Cardinality(before) \in Nat
  BY <1>4, FS_CardinalityType
<1>6. Cardinality(before \cup {t[2]}) <= Fanout
  <2>1. \/ Cardinality(before \cup {t[2]}) = Cardinality(before)
        \/ Cardinality(before \cup {t[2]}) = Cardinality(before) + 1
    BY <1>4, FS_AddElement
  <2> QED
    BY <1>3, <1>5, <2>1, CoordinatorAssumption DEF CoordinatorAssumption
<1>7. Cardinality(Badges!Working(t[1])') <= Fanout
  BY <1>2, <1>6, FewerWork
<1> QED
  BY <1>1, <1>7

LEMMA RowOfIsShown ==
  ASSUME Badges!BadgesTypeOK, NEW t \in Badges!RowTask
  PROVE  Badges!RowOf(t) \in Repo \X Row
BY RowOfTask DEF Badges!RowOf, Badges!BadgesTypeOK, Badges!RequestRecord

-----------------------------------------------------------------------------
LEMMA SelectInv ==
  ASSUME BadgesInv, NEW r \in Repo, Badges!Select(r)
  PROVE  BadgesInv'
<1> USE DEF BadgesInv
<1>1. /\ root' = r /\ scope' = NoMatch /\ wanted' = FALSE /\ request' = Badges!Superseded
      /\ badge' = badge /\ stale' = stale /\ events' \in 0..MaxEvents
  BY CoordinatorAssumption
  DEF Badges!Select, Badges!Event, Badges!BadgesTypeOK, CoordinatorAssumption
<1>2. /\ memo' = NoMatch /\ resolutionInFlight' = NoMatch
      /\ task' \in [Badges!RowTask -> Badges!TaskRecord]
      /\ \A t \in Badges!RowTask :
           /\ ~task'[t].current
           /\ task[t].phase = "todo" => task'[t].phase = "idle"
           /\ task[t].phase # "todo" => task'[t].phase = task[t].phase
           /\ task[t].phase \notin {"idle", "todo"} =>
                task'[t].search = task[t].search /\ task'[t].got = task[t].got
  BY Unstarting, Cleared DEF Badges!Select
<1>3. \A q \in Request : ~request'[q].current
  BY <1>1, Superseding
<1>4. Badges!BadgesTypeOK'
  <2>1. \A q \in Request : Cardinality(Badges!Working(q)') <= Fanout
    BY <1>2, WorkersStay DEF Busy
  <2> QED
    BY <1>1, <1>2, <2>1, Superseding, BadgesCardinality DEF Badges!BadgesTypeOK
<1>5. JoinersAwait'
  BY <1>2 DEF JoinersAwait, Searches
<1>6. Badges!BadgesOfTheirRepository' /\ Badges!NoneIsAskedAgain'
  BY <1>1, NamesDiffer
  DEF Badges!BadgesOfTheirRepository, Badges!NoneIsAskedAgain, Badges!BadgesTypeOK
<1>7. FoundIsSelected'
  BY <1>2, <1>3, RowOfTask DEF FoundIsSelected
<1>8. MovedIsStale'
  BY <1>3, RowOfTask DEF MovedIsStale
<1>9. ScopeIsSelected' /\ SearchIsCurrent'
  BY <1>1, <1>2, <1>3 DEF ScopeIsSelected, SearchIsCurrent
<1> QED
  BY <1>4, <1>5, <1>6, <1>7, <1>8, <1>9

LEMMA LoadInv ==
  ASSUME BadgesInv, Badges!Load
  PROVE  BadgesInv'
<1> USE DEF BadgesInv
<1>1. /\ scope' = root /\ wanted' = TRUE /\ stale' = FALSE /\ request' = Badges!Superseded
      /\ task' = Badges!Unstarted /\ UNCHANGED <<root, memo, resolutionInFlight, badge>>
      /\ events' \in 0..MaxEvents
  BY CoordinatorAssumption DEF Badges!Load, Badges!Event, Badges!BadgesTypeOK, CoordinatorAssumption
<1>2. /\ task' \in [Badges!RowTask -> Badges!TaskRecord]
      /\ \A t \in Badges!RowTask :
           /\ task[t].phase = "todo" => task'[t].phase = "idle"
           /\ task[t].phase # "todo" => task'[t] = task[t]
  BY <1>1, Unstarting
<1>3. \A q \in Request : ~request'[q].current
  BY <1>1, Superseding
<1>4. Badges!BadgesTypeOK'
  <2>1. \A q \in Request : Cardinality(Badges!Working(q)') <= Fanout
    BY <1>2, WorkersStay DEF Busy
  <2> QED
    BY <1>1, <1>2, <2>1, Superseding, BadgesCardinality DEF Badges!BadgesTypeOK
<1>5. JoinersAwait'
  BY <1>2 DEF JoinersAwait, Searches
<1>6. Badges!BadgesOfTheirRepository' /\ Badges!NoneIsAskedAgain'
  BY <1>1 DEF Badges!BadgesOfTheirRepository, Badges!NoneIsAskedAgain
<1>7. FoundIsSelected'
  BY <1>1, <1>2, <1>3, RowOfTask DEF FoundIsSelected
<1>8. MovedIsStale'
  BY <1>3, RowOfTask DEF MovedIsStale
<1>9. ScopeIsSelected' /\ SearchIsCurrent'
  BY <1>1, <1>2, <1>3 DEF ScopeIsSelected, SearchIsCurrent, Searches, Badges!BadgesTypeOK
<1> QED
  BY <1>4, <1>5, <1>6, <1>7, <1>8, <1>9

LEMMA ClearInv ==
  ASSUME BadgesInv, Badges!ClearChecksCache
  PROVE  BadgesInv'
<1> USE DEF BadgesInv
<1> DEFINE uncached == [t \in Badges!RowTask |-> [task[t] EXCEPT !.cached = FALSE]]
<1>1. /\ stale' = TRUE /\ UNCHANGED <<root, scope, request, badge, wanted>>
      /\ events' \in 0..MaxEvents /\ Badges!ClearProviderResolution(uncached)
  BY CoordinatorAssumption
  DEF Badges!ClearChecksCache, Badges!Event, Badges!BadgesTypeOK, CoordinatorAssumption
<1>2. /\ uncached \in [Badges!RowTask -> Badges!TaskRecord]
      /\ \A t \in Badges!RowTask : /\ uncached[t].phase = task[t].phase
                                   /\ uncached[t].search = task[t].search
                                   /\ uncached[t].got = task[t].got
  BY DEF Badges!BadgesTypeOK, Badges!TaskRecord
<1> HIDE DEF uncached
<1>3. /\ memo' = NoMatch /\ resolutionInFlight' = NoMatch
      /\ task' \in [Badges!RowTask -> Badges!TaskRecord]
      /\ \A t \in Badges!RowTask :
           /\ ~task'[t].current /\ task'[t].phase = task[t].phase
           /\ task[t].phase # "idle" =>
                task'[t].search = task[t].search /\ task'[t].got = task[t].got
  BY <1>1, <1>2, Cleared
<1>4. Badges!BadgesTypeOK'
  <2>1. \A q \in Request : Cardinality(Badges!Working(q)') <= Fanout
    BY <1>3, WorkersStay DEF Busy
  <2> QED
    BY <1>1, <1>3, <2>1, BadgesCardinality DEF Badges!BadgesTypeOK
<1>5. JoinersAwait'
  BY <1>3 DEF JoinersAwait, Searches
<1>6. Badges!BadgesOfTheirRepository' /\ Badges!NoneIsAskedAgain' /\ MovedIsStale'
  BY <1>1 DEF Badges!BadgesOfTheirRepository, Badges!NoneIsAskedAgain, MovedIsStale
<1>7. FoundIsSelected'
  BY <1>1, <1>3 DEF FoundIsSelected
<1>8. ScopeIsSelected' /\ SearchIsCurrent'
  BY <1>1, <1>3 DEF ScopeIsSelected, SearchIsCurrent
<1> QED
  BY <1>4, <1>5, <1>6, <1>7, <1>8


LEMMA AskInv ==
  ASSUME BadgesInv, NEW q \in Request, Badges!Ask(q)
  PROVE  BadgesInv'
<1> USE DEF BadgesInv
<1> DEFINE todo == [Badges!Idle EXCEPT !.phase = "todo"]
<1>1. /\ scope \in Repo /\ \A h \in Row : task[<<q, h>>].phase = "idle"
      /\ wanted' = FALSE /\ UNCHANGED <<root, memo, resolutionInFlight, scope, stale>>
      /\ events' \in 0..MaxEvents
  BY CoordinatorAssumption DEF Badges!Ask, Badges!Event, Badges!BadgesTypeOK, CoordinatorAssumption
<1>2. /\ request' \in [Request -> Badges!RequestRecord]
      /\ request'[q].repo = scope /\ request'[q].current
      /\ \A p \in Request : p # q => ~request'[p].current /\ request'[p].repo = request[p].repo
  BY <1>1, Superseding DEF Badges!Ask, Badges!RequestRecord
<1>3. \A t \in Badges!RowTask : t[1] = q => task[t].phase = "idle"
  BY <1>1, RowOfTask
<1>4. todo \in Badges!TaskRecord /\ todo.phase = "todo"
  BY IdleRecord DEF Badges!TaskRecord
<1>5. /\ task' \in [Badges!RowTask -> Badges!TaskRecord]
      /\ \A t \in Badges!RowTask :
           /\ t[1] = q => task'[t].phase = "todo"
           /\ t[1] # q /\ task[t].phase = "todo" => task'[t].phase = "idle"
           /\ t[1] # q /\ task[t].phase # "todo" => task'[t] = task[t]
  BY <1>4, Unstarting DEF Badges!Ask
<1>6. /\ badge' \in [Repo \X Row -> Repo \cup {"blank", "loading", "none", "unavailable"}]
      /\ \A c \in Repo \X Row : badge'[c] = badge[c] \/ badge'[c] = "loading"
  BY DEF Badges!Ask, Badges!BadgesTypeOK
<1>7. Badges!BadgesTypeOK'
  <2>1. \A p \in Request : Cardinality(Badges!Working(p)') <= Fanout
    BY <1>5, WorkersStay DEF Busy
  <2> QED
    BY <1>1, <1>2, <1>5, <1>6, <2>1, BadgesCardinality DEF Badges!BadgesTypeOK
<1>8. JoinersAwait'
  BY <1>3, <1>5 DEF JoinersAwait, Searches
<1>9. Badges!BadgesOfTheirRepository'
  BY <1>6, NamesDiffer DEF Badges!BadgesOfTheirRepository, Badges!BadgesTypeOK
<1>10. FoundIsSelected'
  BY <1>1, <1>2, <1>3, <1>5, RowOfTask DEF FoundIsSelected
<1>11. MovedIsStale'
  BY <1>2, <1>3, <1>5, RowOfTask DEF MovedIsStale, Busy
<1>12. ScopeIsSelected'
  BY <1>1, <1>2 DEF ScopeIsSelected
<1>13. SearchIsCurrent'
  BY <1>1, <1>3, <1>5 DEF SearchIsCurrent, Searches, Badges!BadgesTypeOK
<1>14. Badges!NoneIsAskedAgain'
  <2>1. ASSUME NEW c \in Repo \X Row, c[1] = scope'
        PROVE  \E t \in Badges!RowTask : Badges!RowOf(t)' = c /\ request'[t[1]].current /\ task'[t].phase # "idle"
    <3>1. c[2] \in Row /\ c = <<scope, c[2]>>
      BY <1>1, <2>1
    <3>2. <<q, c[2]>> \in Badges!RowTask /\ <<q, c[2]>>[1] = q /\ Badges!RowOf(<<q, c[2]>>)' = c
      BY <1>2, <3>1, Claimed DEF Badges!RowOf
    <3>3. request'[<<q, c[2]>>[1]].current /\ task'[<<q, c[2]>>].phase # "idle"
      BY <1>2, <1>5, <3>2
    <3> QED
      BY <3>2, <3>3
  <2> QED
    BY <1>6, <2>1 DEF Badges!NoneIsAskedAgain
<1> QED
  BY <1>7, <1>8, <1>9, <1>10, <1>11, <1>12, <1>13, <1>14

LEMMA RetryInv ==
  ASSUME BadgesInv, NEW q \in Request, NEW h \in Row, Badges!Retry(q, h)
  PROVE  BadgesInv'
<1> USE DEF BadgesInv
<1>1. /\ scope \in Repo /\ \A j \in Row : task[<<q, j>>].phase = "idle"
      /\ UNCHANGED <<root, memo, resolutionInFlight, scope, badge, wanted, stale>>
      /\ events' \in 0..MaxEvents
  BY CoordinatorAssumption
  DEF Badges!Retry, Badges!Event, Badges!BadgesTypeOK, CoordinatorAssumption
<1>2. /\ request' \in [Request -> Badges!RequestRecord]
      /\ request'[q].repo = scope /\ request'[q].current
      /\ \A p \in Request : p # q => request'[p] = request[p]
  BY <1>1 DEF Badges!Retry, Badges!RequestRecord, Badges!BadgesTypeOK
<1>3. \A t \in Badges!RowTask : t[1] = q => task[t].phase = "idle"
  BY <1>1, RowOfTask
<1>4. /\ task' \in [Badges!RowTask -> Badges!TaskRecord]
      /\ \A t \in Badges!RowTask : task'[t] = task[t] \/ (t[1] = q /\ task'[t].phase = "todo")
  BY Claimed DEF Badges!Retry, Badges!BadgesTypeOK, Badges!TaskRecord
<1>5. Badges!BadgesTypeOK'
  <2>1. \A p \in Request : Cardinality(Badges!Working(p)') <= Fanout
    BY <1>4, WorkersStay DEF Busy
  <2> QED
    BY <1>1, <1>2, <1>4, <2>1, BadgesCardinality DEF Badges!BadgesTypeOK
<1>6. JoinersAwait'
  BY <1>3, <1>4 DEF JoinersAwait, Searches
<1>7. Badges!BadgesOfTheirRepository'
  BY <1>1 DEF Badges!BadgesOfTheirRepository
<1>8. FoundIsSelected'
  BY <1>1, <1>2, <1>3, <1>4, RowOfTask DEF FoundIsSelected
<1>9. ~LateReplyClears => MovedIsStale'
  BY <1>1, <1>2, <1>3, <1>4, RowOfTask DEF MovedIsStale, Busy
<1>10. ScopeIsSelected'
  BY <1>1, <1>2 DEF ScopeIsSelected
<1>11. SearchIsCurrent'
  BY <1>1, <1>3, <1>4 DEF SearchIsCurrent, Searches, Badges!BadgesTypeOK
<1>12. ~LateReplyClears => Badges!NoneIsAskedAgain'
  <2>1. ASSUME NEW t \in Badges!RowTask, task[t].phase # "idle"
        PROVE  Badges!RowOf(t)' = Badges!RowOf(t) /\ request'[t[1]] = request[t[1]] /\ task'[t].phase # "idle"
    BY <1>2, <1>3, <1>4, <2>1, RowOfTask DEF Badges!RowOf
  <2> QED
    BY <1>1, <2>1 DEF Badges!NoneIsAskedAgain
<1> QED
  BY <1>5, <1>6, <1>7, <1>8, <1>9, <1>10, <1>11, <1>12

-----------------------------------------------------------------------------
LEMMA ClaimInv ==
  ASSUME BadgesInv, NEW t \in Badges!RowTask, Badges!Claim(t)
  PROVE  BadgesInv'
<1> USE DEF BadgesInv
<1> DEFINE begun == [Badges!Idle EXCEPT !.current = TRUE, !.cached = TRUE]
           joined == [begun EXCEPT !.phase = "joined", !.search = resolutionInFlight]
           searching == [begun EXCEPT !.phase = "searching"]
           fetching == [begun EXCEPT !.phase = "fetching", !.got = memo]
<1>1. /\ joined \in Badges!TaskRecord /\ joined.phase = "joined" /\ joined.current
      /\ joined.search = resolutionInFlight
      /\ searching \in Badges!TaskRecord /\ searching.phase = "searching" /\ searching.current
      /\ fetching \in Badges!TaskRecord /\ fetching.phase = "fetching" /\ fetching.current
      /\ fetching.got = memo
  BY IdleRecord DEF Badges!TaskRecord, Badges!BadgesTypeOK
<1>2. /\ task[t].phase = "todo" /\ Cardinality(Badges!Working(t[1])) < Fanout
      /\ UNCHANGED <<root, memo, scope, request, wanted, stale, events>>
  BY BadgesCardinality DEF Badges!Claim
<1>3. /\ Badges!RowOf(t) \in Repo \X Row /\ Badges!RowOf(t)[1] = request[t[1]].repo
      /\ Badges!RowOf(t)[2] = t[2]
      /\ t[1] \in Request
  BY RowOfTask DEF Badges!RowOf, Badges!BadgesTypeOK, Badges!RequestRecord
<1>4. ASSUME task' = Badges!Ended({t}), UNCHANGED resolutionInFlight,
             \/ badge' = badge /\ scope # request[t[1]].repo
             \/ /\ badge' = [badge EXCEPT ![Badges!RowOf(t)] = "none"] /\ scope = request[t[1]].repo
                /\ t[2] \in Unpushed \/ (memo # NoMatch /\ memo \notin Hosted)
      PROVE  BadgesInv'
  <2>1. /\ task' \in [Badges!RowTask -> Badges!TaskRecord] /\ task'[t].phase = "idle"
        /\ \A u \in Badges!RowTask : u # t => task'[u] = task[u]
    BY <1>4, IdleRecord DEF Badges!Ended, Badges!BadgesTypeOK
  <2>2. /\ badge' \in [Repo \X Row -> Repo \cup {"blank", "loading", "none", "unavailable"}]
        /\ \A c \in Repo \X Row : badge'[c] = badge[c] \/ (badge'[c] = "none" /\ c = Badges!RowOf(t))
    BY <1>3, <1>4 DEF Badges!BadgesTypeOK
  <2>3. Badges!BadgesTypeOK'
    <3>1. \A q \in Request : Cardinality(Badges!Working(q)') <= Fanout
      BY <2>1, WorkersStay DEF Busy
    <3> QED
      BY <1>2, <1>4, <2>1, <2>2, <3>1, BadgesCardinality DEF Badges!BadgesTypeOK
  <2>4. JoinersAwait'
    BY <1>2, <2>1 DEF JoinersAwait, Searches
  <2>5. Badges!BadgesOfTheirRepository'
    BY <2>2, NamesDiffer DEF Badges!BadgesOfTheirRepository, Badges!BadgesTypeOK
  <2>6. FoundIsSelected' /\ ScopeIsSelected'
    BY <1>2, <2>1 DEF FoundIsSelected, ScopeIsSelected
  <2>7. ~LateReplyClears => MovedIsStale'
    BY <1>2, <2>1 DEF MovedIsStale, Busy
  <2>8. SearchIsCurrent'
    BY <1>2, <1>4, <2>1 DEF SearchIsCurrent, Searches, Badges!BadgesTypeOK
  <2>9. ASSUME NEW c \in Repo \X Row, c = Badges!RowOf(t), c[1] = scope, c[1] \in Hosted,
               c[2] \notin Unpushed
        PROVE  ~request[t[1]].current /\ badge'[c] = badge[c]
    <3>1. scope = root /\ memo \in {NoMatch, root} /\ scope # NoMatch
      BY <2>9, NamesDiffer DEF ScopeIsSelected
    <3>2. scope # request[t[1]].repo /\ badge' = badge
      BY <1>3, <1>4, <2>9, <3>1
    <3> QED
      BY <1>3, <3>2 DEF ScopeIsSelected
  <2>10. ~LateReplyClears => Badges!NoneIsAskedAgain'
    <3> SUFFICES ASSUME ~LateReplyClears, NEW c \in Repo \X Row,
                        badge'[c] = "none" /\ c[1] = scope /\ c[1] \in Hosted /\ c[2] \notin Unpushed,
                        ~stale, ~wanted
                 PROVE  \E u \in Badges!RowTask :
                          Badges!RowOf(u)' = c /\ request'[u[1]].current /\ task'[u].phase # "idle"
      BY <1>2, <2>2 DEF Badges!NoneIsAskedAgain
    <3>1. badge[c] = "none"
      BY <2>2, <2>9
    <3>2. PICK u \in Badges!RowTask :
            Badges!RowOf(u) = c /\ request[u[1]].current /\ task[u].phase # "idle"
      BY <3>1 DEF Badges!NoneIsAskedAgain, Badges!BadgesTypeOK
    <3>3. u # t
      BY <2>9, <3>2
    <3> QED
      BY <1>2, <2>1, <3>2, <3>3 DEF Badges!RowOf
  <2> QED
    BY <2>3, <2>4, <2>5, <2>6, <2>7, <2>8, <2>10
<1>5. ASSUME NEW record \in Badges!TaskRecord, task' = [task EXCEPT ![t] = record], badge' = badge,
             record.current,
             \/ /\ record.phase = "joined" /\ record.search = resolutionInFlight
                /\ resolutionInFlight # NoMatch /\ UNCHANGED resolutionInFlight
             \/ /\ record.phase = "searching" /\ resolutionInFlight = NoMatch
                /\ resolutionInFlight' = t
             \/ /\ record.phase = "fetching" /\ record.got = memo /\ memo \in Hosted
                /\ UNCHANGED resolutionInFlight
      PROVE  BadgesInv'
  <2>1. /\ task' \in [Badges!RowTask -> Badges!TaskRecord] /\ task'[t] = record
        /\ \A u \in Badges!RowTask : u # t => task'[u] = task[u]
    BY <1>5 DEF Badges!BadgesTypeOK
  <2>2. Badges!BadgesTypeOK'
    <3>1. \A q \in Request : Cardinality(Badges!Working(q)') <= Fanout
      BY <1>2, <2>1, WorkerJoins DEF Busy
    <3> QED
      BY <1>2, <1>5, <2>1, <3>1, BadgesCardinality DEF Badges!BadgesTypeOK
  <2>3. JoinersAwait'
    BY <1>2, <1>5, <2>1 DEF JoinersAwait, SearchIsCurrent, Searches, Badges!BadgesTypeOK
  <2>4. Badges!BadgesOfTheirRepository'
    BY <1>5 DEF Badges!BadgesOfTheirRepository
  <2>5. ScopeIsSelected'
    BY <1>2 DEF ScopeIsSelected
  <2>6. FoundIsSelected'
    <3>1. record.phase = "fetching" => record.got = root /\ root \in Repo
      BY <1>5, NamesDiffer, CoordinatorAssumption
      DEF ScopeIsSelected, Badges!BadgesTypeOK, CoordinatorAssumption
    <3> QED
      BY <1>2, <1>5, <2>1, <3>1 DEF FoundIsSelected
  <2>7. ~LateReplyClears => MovedIsStale'
    BY <1>2, <1>5, <2>1 DEF MovedIsStale, Busy
  <2>8. SearchIsCurrent'
    BY <1>2, <1>5, <2>1, NamesDiffer DEF SearchIsCurrent, Searches, Badges!BadgesTypeOK
  <2>9. ~LateReplyClears => Badges!NoneIsAskedAgain'
    <3>1. ASSUME NEW u \in Badges!RowTask, task[u].phase # "idle"
          PROVE  Badges!RowOf(u)' = Badges!RowOf(u) /\ task'[u].phase # "idle"
      BY <1>2, <1>5, <2>1, <3>1 DEF Badges!RowOf
    <3> QED
      BY <1>2, <1>5, <3>1 DEF Badges!NoneIsAskedAgain
  <2> QED
    BY <2>2, <2>3, <2>4, <2>5, <2>6, <2>7, <2>8, <2>9
<1>6. CASE scope # request[t[1]].repo
  BY <1>4, <1>6 DEF Badges!Claim
<1>7. CASE scope = request[t[1]].repo /\ t[2] \in Unpushed
  BY <1>4, <1>7 DEF Badges!Claim
<1>8. CASE scope = request[t[1]].repo /\ t[2] \notin Unpushed /\ memo \in Repo \ Hosted
  BY <1>4, <1>8, NamesDiffer, CoordinatorAssumption DEF Badges!Claim, CoordinatorAssumption
<1>9. CASE scope = request[t[1]].repo /\ t[2] \notin Unpushed /\ memo \in Hosted
  <2>1. task' = [task EXCEPT ![t] = fetching] /\ UNCHANGED <<resolutionInFlight, badge>>
    BY <1>9, NamesDiffer, CoordinatorAssumption DEF Badges!Claim, CoordinatorAssumption
  <2> QED
    BY <1>1, <1>5, <1>9, <2>1
<1>10. CASE scope = request[t[1]].repo /\ t[2] \notin Unpushed /\ memo = NoMatch
  <2>1. Badges!Await(t, begun) /\ UNCHANGED badge
    BY <1>10, NamesDiffer, CoordinatorAssumption DEF Badges!Claim, CoordinatorAssumption
  <2>2. CASE resolutionInFlight # NoMatch
    <3>1. task' = [task EXCEPT ![t] = joined] /\ UNCHANGED resolutionInFlight
      BY <2>1, <2>2 DEF Badges!Await
    <3> QED
      BY <1>1, <1>5, <2>1, <2>2, <3>1
  <2>3. CASE resolutionInFlight = NoMatch
    <3>1. task' = [task EXCEPT ![t] = searching] /\ resolutionInFlight' = t
      BY <2>1, <2>3 DEF Badges!Await
    <3> QED
      BY <1>1, <1>5, <2>1, <2>3, <3>1
  <2> QED
    BY <2>2, <2>3
<1>11. memo \in Repo \cup {NoMatch}
  BY DEF Badges!BadgesTypeOK
<1> QED
  BY <1>6, <1>7, <1>8, <1>9, <1>10, <1>11

LEMMA ReadRemotesInv ==
  ASSUME BadgesInv, NEW t \in Badges!RowTask, Badges!ReadRemotes(t)
  PROVE  BadgesInv'
<1> USE DEF BadgesInv
<1>1. /\ task[t].phase = "searching"
      /\ UNCHANGED <<root, memo, resolutionInFlight, scope, request, badge, wanted, stale, events>>
  BY DEF Badges!ReadRemotes
<1>2. /\ task' \in [Badges!RowTask -> Badges!TaskRecord]
      /\ task'[t].phase = "answered" /\ task'[t].got = root /\ task'[t].current = task[t].current
      /\ \A u \in Badges!RowTask : u # t => task'[u] = task[u]
  BY DEF Badges!ReadRemotes, Badges!BadgesTypeOK, Badges!TaskRecord
<1>3. Badges!BadgesTypeOK'
  <2>1. \A q \in Request : Cardinality(Badges!Working(q)') <= Fanout
    BY <1>1, <1>2, WorkersStay DEF Busy
  <2> QED
    BY <1>1, <1>2, <2>1, BadgesCardinality DEF Badges!BadgesTypeOK
<1>4. JoinersAwait'
  BY <1>1, <1>2 DEF JoinersAwait, Searches
<1>5. Badges!BadgesOfTheirRepository' /\ ScopeIsSelected'
  BY <1>1 DEF Badges!BadgesOfTheirRepository, ScopeIsSelected
<1>6. FoundIsSelected'
  BY <1>1, <1>2 DEF FoundIsSelected, Badges!BadgesTypeOK
<1>7. ~LateReplyClears => MovedIsStale'
  BY <1>1, <1>2 DEF MovedIsStale, Busy
<1>8. SearchIsCurrent'
  BY <1>1, <1>2 DEF SearchIsCurrent, Searches, Badges!BadgesTypeOK
<1>9. ~LateReplyClears => Badges!NoneIsAskedAgain'
  <2>1. ASSUME NEW u \in Badges!RowTask, task[u].phase # "idle"
        PROVE  Badges!RowOf(u)' = Badges!RowOf(u) /\ task'[u].phase # "idle"
    BY <1>1, <1>2, <2>1 DEF Badges!RowOf
  <2> QED
    BY <1>1, <2>1 DEF Badges!NoneIsAskedAgain
<1> QED
  BY <1>3, <1>4, <1>5, <1>6, <1>7, <1>8, <1>9

-----------------------------------------------------------------------------
(***************************************************************************)
(* The ends of a search and of a fetch.  Of the tasks of ts the ones of    *)
(* over have their answer, the others go on to fetch what was found.       *)
(***************************************************************************)
Concludes(ts, over, found) ==
  /\ memo' \in {NoMatch, root}
  /\ UNCHANGED <<root, scope, request, wanted, stale, events>>
  /\ task' \in [Badges!RowTask -> Badges!TaskRecord]
  /\ \A u \in Badges!RowTask :
       /\ u \in ts /\ u \notin over => task'[u].phase = "fetching" /\ task'[u].got = found
       /\ u \in over => task'[u].phase = "idle"
       /\ u \notin ts => /\ task'[u].phase = task[u].phase
                         /\ task[u].phase # "idle" =>
                              task'[u].search = task[u].search /\ task'[u].got = task[u].got
  /\ \/ /\ LateReplyClears /\ resolutionInFlight' = NoMatch
        /\ \A u \in Badges!RowTask : ~task'[u].current
     \/ /\ \A u \in Badges!RowTask : task'[u].phase # "idle" => task'[u].current = task[u].current
        /\ resolutionInFlight' = IF resolutionInFlight \in ts THEN NoMatch ELSE resolutionInFlight

LEMMA ConcludesInv ==
  ASSUME BadgesInv, NEW ts \in SUBSET Badges!RowTask, NEW over \in SUBSET ts, NEW found \in Repo,
         NEW value \in Repo \cup {"none", "unavailable"},
         Concludes(ts, over, found), NEW tasks, Badges!Answer(over, value, tasks),
         \A u \in ts : Busy(u),
         \A u \in Badges!RowTask : task[u].phase = "joined" /\ task[u].search \in ts => u \in ts,
         \A u \in ts : u \notin over => found = root,
         value \in Repo => \A u \in over : request[u[1]].current => value = root,
         ~LateReplyClears /\ value = "none" =>
           \A u \in over : request[u[1]].current => stale \/ root \notin Hosted
  PROVE  BadgesInv'
<1> USE DEF BadgesInv
<1>1. /\ memo' \in {NoMatch, root}
      /\ UNCHANGED <<root, scope, request, wanted, stale, events>>
      /\ task' \in [Badges!RowTask -> Badges!TaskRecord]
  BY DEF Concludes
<1>2. \A u \in Badges!RowTask :
        /\ u \in ts /\ u \notin over => task'[u].phase = "fetching" /\ task'[u].got = found
        /\ u \in over => task'[u].phase = "idle"
        /\ u \notin ts => /\ task'[u].phase = task[u].phase
                          /\ task[u].phase # "idle" =>
                               task'[u].search = task[u].search /\ task'[u].got = task[u].got
  BY DEF Concludes
<1>3. \/ /\ LateReplyClears /\ resolutionInFlight' = NoMatch
         /\ \A u \in Badges!RowTask : ~task'[u].current
      \/ /\ \A u \in Badges!RowTask : task'[u].phase # "idle" => task'[u].current = task[u].current
         /\ resolutionInFlight' = IF resolutionInFlight \in ts THEN NoMatch ELSE resolutionInFlight
  BY DEF Concludes
<1>4. /\ badge' \in [Repo \X Row -> Repo \cup {"blank", "loading", "none", "unavailable"}]
      /\ \A c \in Repo \X Row :
           badge'[c] = badge[c]
             \/ /\ badge'[c] = value
                /\ \E u \in over : request[u[1]].current /\ Badges!RowOf(u) = c
      /\ \A u \in over : Badges!Posts(u) => badge'[Badges!RowOf(u)] = value
  BY RowOfIsShown DEF Badges!Answer, Badges!Posts, Badges!BadgesTypeOK
<1>5. Badges!BadgesTypeOK'
  <2>1. \A q \in Request : Cardinality(Badges!Working(q)') <= Fanout
    BY <1>2, WorkersStay DEF Busy
  <2>2. resolutionInFlight' \in Badges!RowTask \cup {NoMatch}
    BY <1>3 DEF Badges!BadgesTypeOK
  <2> QED
    BY <1>1, <1>4, <2>1, <2>2, BadgesCardinality DEF Badges!BadgesTypeOK
<1>6. JoinersAwait'
  <2> SUFFICES ASSUME NEW u \in Badges!RowTask, task'[u].phase = "joined"
               PROVE  /\ task'[u].search \in Badges!RowTask
                      /\ task'[task'[u].search].phase \in {"searching", "answered"}
                      /\ task'[u].current => task'[task'[u].search].current
    BY Zenon DEF JoinersAwait, Searches
  <2>1. u \notin ts /\ task[u].phase = "joined" /\ task'[u].search = task[u].search
    BY <1>2
  <2>2. /\ task[u].search \in Badges!RowTask /\ task[u].search \notin ts
        /\ task[task[u].search].phase \in {"searching", "answered"}
        /\ task[u].current => task[task[u].search].current
    BY <2>1 DEF JoinersAwait, Searches
  <2>3. task'[task[u].search].phase = task[task[u].search].phase
    BY <1>2, <2>2
  <2> QED
    BY <1>3, <2>1, <2>2, <2>3
<1>7. ScopeIsSelected'
  BY <1>1 DEF ScopeIsSelected
<1>8. SearchIsCurrent'
  BY <1>2, <1>3, NamesDiffer DEF SearchIsCurrent, Searches, Badges!BadgesTypeOK
<1>9. FoundIsSelected'
  BY <1>1, <1>2, <1>3 DEF FoundIsSelected
<1>10. \A u \in over : request[u[1]].current => scope = Badges!RowOf(u)[1] /\ scope = root
  BY RowOfTask, NamesDiffer
  DEF ScopeIsSelected, Badges!RowOf, Badges!BadgesTypeOK, Badges!RequestRecord
<1>11. Badges!BadgesOfTheirRepository'
  BY <1>4, <1>10, NamesDiffer DEF Badges!BadgesOfTheirRepository, Badges!BadgesTypeOK
<1>12. ~LateReplyClears => MovedIsStale'
  BY <1>1, <1>2, <1>3 DEF MovedIsStale, Busy
<1>13. ~LateReplyClears => Badges!NoneIsAskedAgain'
  <2> SUFFICES ASSUME ~LateReplyClears, NEW c \in Repo \X Row,
                      badge'[c] = "none" /\ c[1] = scope /\ c[1] \in Hosted /\ c[2] \notin Unpushed,
                      ~stale, ~wanted
               PROVE  \E u \in Badges!RowTask :
                        Badges!RowOf(u)' = c /\ request'[u[1]].current /\ task'[u].phase # "idle"
    BY <1>1, <1>4 DEF Badges!NoneIsAskedAgain
  <2>1. ASSUME NEW u \in over, request[u[1]].current, Badges!RowOf(u) = c PROVE FALSE
    <3>1. badge'[c] = value
      BY <1>4, <2>1 DEF Badges!Posts
    <3>2. root \notin Hosted
      BY <2>1, <3>1
    <3> QED
      BY <1>10, <2>1, <3>2
  <2>2. badge[c] = "none"
    BY <1>4, <2>1
  <2>3. PICK u \in Badges!RowTask : Badges!RowOf(u) = c /\ request[u[1]].current /\ task[u].phase # "idle"
    BY <2>2 DEF Badges!NoneIsAskedAgain, Badges!BadgesTypeOK
  <2>4. task'[u].phase # "idle"
    BY <1>2, <2>1, <2>3
  <2> QED
    BY <1>1, <2>3, <2>4 DEF Badges!RowOf
<1> QED
  BY <1>5, <1>6, <1>7, <1>8, <1>9, <1>11, <1>12, <1>13

LEMMA AwaitingTasks ==
  ASSUME BadgesInv, NEW t \in Badges!RowTask, Searches(t)
  PROVE  /\ Badges!Awaiting(t) \in SUBSET Badges!RowTask /\ t \in Badges!Awaiting(t)
         /\ \A u \in Badges!Awaiting(t) : Busy(u)
         /\ \A u \in Badges!Awaiting(t) : task[u].current => task[t].current
         /\ \A u \in Badges!RowTask :
              task[u].phase = "joined" /\ task[u].search \in Badges!Awaiting(t) => u \in Badges!Awaiting(t)
         /\ resolutionInFlight \in Badges!Awaiting(t) <=> resolutionInFlight = t
<1> USE DEF BadgesInv
<1>1. \A u \in Badges!Awaiting(t) : u = t \/ (task[u].phase = "joined" /\ task[u].search = t)
  BY DEF Badges!Awaiting
<1>2. ASSUME NEW u \in Badges!RowTask, task[u].phase = "joined", task[u].search \in Badges!Awaiting(t)
      PROVE  u \in Badges!Awaiting(t)
  <2>1. task[u].search = t
    BY <1>1, <1>2 DEF JoinersAwait, Searches
  <2> QED
    BY <1>2, <2>1 DEF Badges!Awaiting
<1>3. resolutionInFlight \in Badges!Awaiting(t) <=> resolutionInFlight = t
  BY <1>1, NamesDiffer DEF Badges!Awaiting, SearchIsCurrent, Searches
<1> QED
  BY <1>1, <1>2, <1>3 DEF Badges!Awaiting, Busy, Searches, JoinersAwait

\* Clearing once more keeps where the tasks have come to and makes all of them late.
LEMMA ClearsOnce ==
  ASSUME BadgesInv, NEW ts \in SUBSET Badges!RowTask, NEW over \in SUBSET ts, NEW found \in Repo,
         NEW after \in [Badges!RowTask -> Badges!TaskRecord],
         UNCHANGED <<root, scope, request, wanted, stale, events>>,
         \A u \in Badges!RowTask :
           /\ u \in over => after[u].phase = "idle"
           /\ u \in ts /\ u \notin over =>
                /\ after[u].phase = "fetching" /\ after[u].got = found
                /\ after[u].current = task[u].current
           /\ u \notin ts => after[u] = task[u],
         \/ LateReplyClears /\ Badges!ClearProviderResolution(after)
         \/ /\ task' = after /\ memo' \in {NoMatch, root}
            /\ resolutionInFlight' =
                 IF resolutionInFlight \in ts THEN NoMatch ELSE resolutionInFlight
  PROVE  Concludes(ts, over, found)
<1>1. CASE LateReplyClears /\ Badges!ClearProviderResolution(after)
  <2>1. /\ memo' = NoMatch /\ resolutionInFlight' = NoMatch
        /\ task' \in [Badges!RowTask -> Badges!TaskRecord]
        /\ \A u \in Badges!RowTask :
             /\ ~task'[u].current /\ task'[u].phase = after[u].phase
             /\ after[u].phase # "idle" =>
                  task'[u].search = after[u].search /\ task'[u].got = after[u].got
    BY <1>1, Cleared
  <2> QED
    BY <1>1, <2>1 DEF Concludes
<1>2. CASE /\ task' = after /\ memo' \in {NoMatch, root}
           /\ resolutionInFlight' =
                IF resolutionInFlight \in ts THEN NoMatch ELSE resolutionInFlight
  BY <1>2 DEF Concludes
<1> QED
  BY <1>1, <1>2

LEMMA EndSearchInv ==
  ASSUME BadgesInv, NEW t \in Badges!RowTask, Badges!EndSearch(t)
  PROVE  BadgesInv'
<1> USE DEF BadgesInv
<1> DEFINE got == task[t].got
           ts == Badges!Awaiting(t)
           onward == {u \in ts : task[u].current /\ got \in Hosted}
           over == ts \ onward
           after == [u \in Badges!RowTask |->
                       IF u \in onward
                       THEN [task[u] EXCEPT !.phase = "fetching", !.search = NoMatch, !.got = got]
                       ELSE Badges!Ended(ts)[u]]
<1>1. /\ task[t].phase = "answered" /\ Searches(t) /\ got \in Repo
      /\ task[t].current => got = root
      /\ UNCHANGED <<root, scope, request, wanted, stale, events>>
  BY DEF Badges!EndSearch, Searches, FoundIsSelected
<1>2. /\ ts \in SUBSET Badges!RowTask /\ over \in SUBSET ts /\ \A u \in ts : Busy(u)
      /\ \A u \in Badges!RowTask : task[u].phase = "joined" /\ task[u].search \in ts => u \in ts
      /\ \A u \in ts : task[u].current => got = root
      /\ resolutionInFlight \in ts <=> resolutionInFlight = t
  BY <1>1, AwaitingTasks
<1>3. /\ after \in [Badges!RowTask -> Badges!TaskRecord]
      /\ \A u \in Badges!RowTask :
           /\ u \in over => after[u].phase = "idle"
           /\ u \in ts /\ u \notin over =>
                /\ after[u].phase = "fetching" /\ after[u].got = got
                /\ after[u].current = task[u].current
           /\ u \notin ts => after[u] = task[u]
  BY <1>1, <1>2, IdleRecord DEF Badges!Ended, Badges!BadgesTypeOK, Badges!TaskRecord
<1>4. /\ Badges!Answer(over, "none", after)
      /\ ~Badges!Clears(over) => /\ task' = after /\ Badges!Memoize(t)
                                 /\ resolutionInFlight' =
                                      IF resolutionInFlight = t THEN NoMatch ELSE resolutionInFlight
  BY DEF Badges!EndSearch
<1>5. \A u \in ts : u \notin over => got = root
  BY <1>2
<1>6. ~LateReplyClears => \A u \in over : request[u[1]].current => stale \/ root \notin Hosted
  BY <1>2 DEF MovedIsStale
<1> HIDE DEF got, ts, onward, over, after
<1>7. Concludes(ts, over, got)
  <2>1. CASE Badges!Clears(over)
    <3>1. LateReplyClears /\ Badges!ClearProviderResolution(after)
      BY <1>4, <2>1 DEF Badges!Answer, Badges!Clears
    <3> QED
      BY <1>1, <1>2, <1>3, <3>1, ClearsOnce
  <2>2. CASE ~Badges!Clears(over)
    <3>1. memo' \in {NoMatch, root}
      BY <1>1, <1>4, <2>2 DEF Badges!Memoize, ScopeIsSelected, got
    <3>2. /\ task' = after
          /\ resolutionInFlight' =
               IF resolutionInFlight \in ts THEN NoMatch ELSE resolutionInFlight
      BY <1>2, <1>4, <2>2
    <3> QED
      BY <1>1, <1>2, <1>3, <3>1, <3>2, ClearsOnce
  <2> QED
    BY <2>1, <2>2
<1> QED
  BY <1>1, <1>2, <1>4, <1>5, <1>6, <1>7, NamesDiffer, ConcludesInv

LEMMA FailSearchInv ==
  ASSUME BadgesInv, NEW t \in Badges!RowTask, Badges!FailSearch(t)
  PROVE  BadgesInv'
<1> USE DEF BadgesInv
<1> DEFINE ts == Badges!Awaiting(t)
           after == Badges!Ended(ts)
<1>1. Searches(t) /\ UNCHANGED <<root, scope, request, wanted, stale, events>> /\ root \in Repo
  BY DEF Badges!FailSearch, Searches, Badges!BadgesTypeOK
<1>2. /\ ts \in SUBSET Badges!RowTask /\ \A u \in ts : Busy(u)
      /\ \A u \in Badges!RowTask : task[u].phase = "joined" /\ task[u].search \in ts => u \in ts
      /\ resolutionInFlight \in ts <=> resolutionInFlight = t
  BY <1>1, AwaitingTasks
<1>3. /\ after \in [Badges!RowTask -> Badges!TaskRecord]
      /\ \A u \in Badges!RowTask : /\ u \in ts => after[u].phase = "idle"
                                   /\ u \notin ts => after[u] = task[u]
  BY <1>2, IdleRecord DEF Badges!Ended, Badges!BadgesTypeOK
<1>4. /\ Badges!Answer(ts, "unavailable", after)
      /\ ~Badges!Clears(ts) => /\ task' = after /\ UNCHANGED memo
                               /\ resolutionInFlight' =
                                    IF resolutionInFlight = t THEN NoMatch ELSE resolutionInFlight
  BY DEF Badges!FailSearch
<1> HIDE DEF ts, after
<1>5. Concludes(ts, ts, root)
  <2>1. CASE Badges!Clears(ts)
    <3>1. LateReplyClears /\ Badges!ClearProviderResolution(after)
      BY <1>4, <2>1 DEF Badges!Answer, Badges!Clears
    <3> QED
      BY <1>1, <1>2, <1>3, <3>1, ClearsOnce
  <2>2. CASE ~Badges!Clears(ts)
    <3>1. /\ task' = after /\ memo' \in {NoMatch, root}
          /\ resolutionInFlight' =
               IF resolutionInFlight \in ts THEN NoMatch ELSE resolutionInFlight
      BY <1>2, <1>4, <2>2 DEF ScopeIsSelected
    <3> QED
      BY <1>1, <1>2, <1>3, <3>1, ClearsOnce
  <2> QED
    BY <2>1, <2>2
<1> QED
  BY <1>1, <1>2, <1>4, <1>5, NamesDiffer, ConcludesInv

LEMMA FetchedInv ==
  ASSUME BadgesInv, NEW t \in Badges!RowTask, Badges!Fetched(t)
  PROVE  BadgesInv'
<1> USE DEF BadgesInv
<1> DEFINE ts == {t}
           after == Badges!Ended(ts)
           got == task[t].got
<1>1. /\ task[t].phase = "fetching" /\ got \in Repo
      /\ request[t[1]].current => got = root
      /\ UNCHANGED <<root, scope, request, wanted, stale, events>> /\ root \in Repo
  BY DEF Badges!Fetched, FoundIsSelected, Badges!BadgesTypeOK
<1>2. /\ ts \in SUBSET Badges!RowTask /\ \A u \in ts : Busy(u)
      /\ \A u \in Badges!RowTask : task[u].phase = "joined" /\ task[u].search \in ts => u \in ts
      /\ resolutionInFlight \notin ts
  BY <1>1, NamesDiffer DEF Busy, JoinersAwait, SearchIsCurrent, Searches
<1>3. /\ after \in [Badges!RowTask -> Badges!TaskRecord]
      /\ \A u \in Badges!RowTask : /\ u \in ts => after[u].phase = "idle"
                                   /\ u \notin ts => after[u] = task[u]
  BY <1>2, IdleRecord DEF Badges!Ended, Badges!BadgesTypeOK
<1>4. /\ Badges!Answer(ts, got, after)
      /\ ~Badges!Clears(ts) => task' = after /\ UNCHANGED <<memo, resolutionInFlight>>
  BY DEF Badges!Fetched
<1>5. \A u \in ts : request[u[1]].current => got = root
  BY <1>1
<1> HIDE DEF ts, after, got
<1>6. Concludes(ts, ts, root)
  <2>1. CASE Badges!Clears(ts)
    <3>1. LateReplyClears /\ Badges!ClearProviderResolution(after)
      BY <1>4, <2>1 DEF Badges!Answer, Badges!Clears
    <3> QED
      BY <1>1, <1>2, <1>3, <3>1, ClearsOnce
  <2>2. CASE ~Badges!Clears(ts)
    <3>1. /\ task' = after /\ memo' \in {NoMatch, root}
          /\ resolutionInFlight' =
               IF resolutionInFlight \in ts THEN NoMatch ELSE resolutionInFlight
      BY <1>2, <1>4, <2>2 DEF ScopeIsSelected
    <3> QED
      BY <1>1, <1>2, <1>3, <3>1, ClearsOnce
  <2> QED
    BY <2>1, <2>2
<1> QED
  BY <1>1, <1>2, <1>4, <1>5, <1>6, NamesDiffer, ConcludesInv

-----------------------------------------------------------------------------
LEMMA BadgesInvStep == BadgesInv /\ [Badges!Next]_(Badges!badgesVars) => BadgesInv'
<1> SUFFICES ASSUME BadgesInv, [Badges!Next]_(Badges!badgesVars) PROVE BadgesInv'
  OBVIOUS
<1>1. CASE UNCHANGED Badges!badgesVars
  BY <1>1
  DEF Badges!badgesVars, BadgesInv, Badges!BadgesTypeOK, ScopeIsSelected, SearchIsCurrent,
      JoinersAwait,
      FoundIsSelected, MovedIsStale, Badges!BadgesOfTheirRepository, Badges!NoneIsAskedAgain, Searches, Busy,
      Badges!RowOf, Badges!Working
<1>2. CASE Badges!Next
  BY <1>2, SelectInv, LoadInv, ClearInv, AskInv, RetryInv, ClaimInv, ReadRemotesInv,
     EndSearchInv, FailSearchInv, FetchedInv
  DEF Badges!Next
<1> QED
  BY <1>1, <1>2

\* What the run checks of the badges, and what the coordinator's actions are read with, are the
\* same.
LEMMA BadgesAsDeclared ==
  /\ Badges!BadgesTypeOK => BadgesTypeOK
  /\ Badges!BadgesOfTheirRepository => BadgesOfTheirRepository
  /\ Badges!OneSearchPerGeneration => OneSearchPerGeneration
  /\ Badges!NoneIsAskedAgain => NoneIsAskedAgain
<1>1. /\ Badges!RowTask = RowTask /\ Badges!RequestRecord = RequestRecord
      /\ Badges!TaskRecord = TaskRecord /\ Badges!RowTask = Request \X Row
  BY DEF Badges!RowTask, RowTask, Badges!RequestRecord, RequestRecord, Badges!TaskRecord, TaskRecord
<1>2. \A q \in Request : Badges!Working(q) = Working(q)
  BY DEF Badges!Working, Working
<1>3. Badges!BadgesTypeOK => BadgesTypeOK
  BY <1>1, <1>2, BadgesCardinality DEF Badges!BadgesTypeOK, BadgesTypeOK
<1>4. Badges!BadgesOfTheirRepository => BadgesOfTheirRepository
  BY DEF Badges!BadgesOfTheirRepository, BadgesOfTheirRepository
<1>5. Badges!OneSearchPerGeneration => OneSearchPerGeneration
  BY <1>1 DEF Badges!OneSearchPerGeneration, OneSearchPerGeneration
<1>6. Badges!NoneIsAskedAgain => NoneIsAskedAgain
  BY <1>1 DEF Badges!NoneIsAskedAgain, NoneIsAskedAgain, Badges!RowOf, RowOf
<1> QED
  BY <1>3, <1>4, <1>5, <1>6

\* A commit is badged by its own repository alone, and the tasks of one generation share one
\* search, in both views and whatever is switched, cleared and answered late
\* (coordinator.ts:53-58, 136-140, 178-190).
THEOREM OwnBadges ==
  Badges!Spec => [](BadgesTypeOK /\ BadgesOfTheirRepository /\ OneSearchPerGeneration)
<1>1. BadgesInv => BadgesTypeOK /\ BadgesOfTheirRepository /\ OneSearchPerGeneration
  BY BadgesAsDeclared
  DEF BadgesInv, SearchIsCurrent, Searches, Badges!OneSearchPerGeneration, Badges!BadgesTypeOK
<1> QED
  BY <1>1, InitInv, BadgesInvStep, PTL DEF Badges!Spec

\* In the graph view, besides, a pushed commit whose badge says that it has no checks because the
\* generation moved under its demand is asked for again (CommitGraphViewProvider.ts:835-841).
THEOREM CurrentBadges == ~LateReplyClears => (Badges!Spec => []BadgesAreCurrent)
<1> SUFFICES ASSUME ~LateReplyClears PROVE Badges!Spec => []BadgesAreCurrent
  OBVIOUS
<1>1. BadgesInv => BadgesAreCurrent
  BY BadgesAsDeclared
  DEF BadgesInv, BadgesAreCurrent, SearchIsCurrent, Searches, Badges!OneSearchPerGeneration,
      Badges!BadgesTypeOK
<1> QED
  BY <1>1, InitInv, BadgesInvStep, PTL DEF Badges!Spec

=============================================================================
